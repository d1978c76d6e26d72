SPECIFICATION ThreadPartsSpec
CONSTANTS
  e1 = e1
  Enc <- MCEnc
  QueueCapacity = 2
  InputBuffers = 3
  MaxFrame = 5
  KeyFrame = {3}
  Preamble <- MCPreamble
  w1 = w1
  w2 = w2
  c1 = c1
  c2 = c2
  parent1 = parent1
  child1 = child1
  parent2 = parent2
  child2 = child2
  plain = plain
  NoTask = NoTask
  Worker <- MCWorker
  Caller <- MCCaller
  Task <- MCTask
  Program <- MCProgram
  Child <- MCChild
  TaskCapacity = 1
  MaxInterrupts = 2
  MaxActs = 3
  MaxStarts = 1
INVARIANTS
  InputAccounting
  BlockedCallerIsServed
  InOrder
  OnePlace
  StackCoversScreens
  CrashNeedsDestroyedView
PROPERTIES
  WaitsEnd
  PoolServes
  OnlyLateDestroyCloses
  AnswersArrive
  MainDeathRestarts
CHECK_DEADLOCK FALSE
