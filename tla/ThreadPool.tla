----------------------------- MODULE ThreadPool -----------------------------
(***************************************************************************)
(* SimpleThreadPool: a fixed set of worker threads that take tasks from a  *)
(* bounded blocking queue and run them.  Threads of the application call   *)
(* execute(), and so may a task while it runs.  Any thread may be          *)
(* interrupted while it works or waits; both methods catch the exception.  *)
(*                                                                         *)
(* Each task is an object of its own, submitted once.  The queue is not    *)
(* null: with a null queue the first worker's exception ends the process.  *)
(***************************************************************************)
EXTENDS Integers, Sequences, FiniteSets

CONSTANTS
  Worker,        \* the pool's threads; there are poolSize of them
  Caller,        \* other threads that call execute
  Task,
  NoTask,
  Program,       \* Program[c]: the tasks caller c submits, in order
  Child,         \* Child[t]: the task t submits while it runs, or NoTask
  TaskCapacity,  \* capacity of the queue the pool was given
  MaxInterrupts  \* bound: how many interrupts there are in a behaviour

ASSUME ThreadAssumption == Worker \cap Caller = {}
ASSUME TaskCapacityAssumption == TaskCapacity \in Nat \ {0}
ASSUME ProgramAssumption == Program \in [Caller -> Seq(Task)] /\ NoTask \notin Task
ASSUME ChildAssumption == Child \in [Task -> Task \cup {NoTask}]
ASSUME MaxInterruptsAssumption == MaxInterrupts \in Nat
ASSUME OwnObjectAssumption ==   \* no task is submitted twice
  /\ \A c, d \in Caller : \A j \in DOMAIN Program[c], k \in DOMAIN Program[d] :
       Program[c][j] = Program[d][k] => c = d /\ j = k
  /\ \A t \in Task, c \in Caller : \A k \in DOMAIN Program[c] : Program[c][k] # Child[t]

VARIABLES
  mTaskQueue,
  todo,          \* todo[c]: what caller c has not yet submitted
  running,       \* running[w]: the task worker w runs, or NoTask when it is in take()
  putting,       \* putting[p]: the task thread p passed to execute and has not put yet
  interrupted,   \* interrupted[p]: thread p's interrupt flag
  submitted,     \* the tasks passed to execute so far
  finished,      \* the tasks whose run() returned
  dropped,       \* the tasks execute dropped
  interrupts,    \* number of interrupts so far
  crashed        \* an uncaught exception ended the process

poolVars == <<mTaskQueue, todo, running, putting, interrupted, submitted, finished, dropped,
          interrupts, crashed>>

Thread == Worker \cup Caller

PoolTypeOK ==
  /\ mTaskQueue \in Seq(Task)
  /\ todo \in [Caller -> Seq(Task)]
  /\ running \in [Worker -> Task \cup {NoTask}]
  /\ putting \in [Thread -> Task \cup {NoTask}]
  /\ interrupted \in [Thread -> BOOLEAN]
  /\ submitted \subseteq Task
  /\ finished \subseteq Task
  /\ dropped \subseteq Task
  /\ interrupts \in 0..MaxInterrupts
  /\ crashed \in BOOLEAN

PoolInit ==
  /\ mTaskQueue = <<>>
  /\ todo = Program
  /\ running = [w \in Worker |-> NoTask]
  /\ putting = [p \in Thread |-> NoTask]
  /\ interrupted = [p \in Thread |-> FALSE]
  /\ submitted = {}
  /\ finished = {}
  /\ dropped = {}
  /\ interrupts = 0
  /\ crashed = FALSE

-----------------------------------------------------------------------------
\* execute(task), up to the put: called by a thread of the application ...
execute(c) ==
  /\ putting[c] = NoTask
  /\ todo[c] # <<>>
  /\ putting' = [putting EXCEPT ![c] = Head(todo[c])]
  /\ submitted' = submitted \cup {Head(todo[c])}
  /\ todo' = [todo EXCEPT ![c] = Tail(@)]
  /\ UNCHANGED <<mTaskQueue, running, interrupted, finished, dropped, interrupts, crashed>>

HasChildToSubmit(w) ==
  running[w] # NoTask /\ Child[running[w]] \notin submitted \cup {NoTask}

\* ... or by the task that worker w runs.
executeNested(w) ==
  /\ putting[w] = NoTask
  /\ HasChildToSubmit(w)
  /\ putting' = [putting EXCEPT ![w] = Child[running[w]]]
  /\ submitted' = submitted \cup {Child[running[w]]}
  /\ UNCHANGED <<mTaskQueue, todo, running, interrupted, finished, dropped, interrupts, crashed>>

\* mTaskQueue.put(task): waits for space.
putTask(p) ==
  /\ putting[p] # NoTask
  /\ ~interrupted[p]
  /\ Len(mTaskQueue) < TaskCapacity
  /\ mTaskQueue' = Append(mTaskQueue, putting[p])
  /\ putting' = [putting EXCEPT ![p] = NoTask]
  /\ UNCHANGED <<todo, running, interrupted, submitted, finished, dropped, interrupts, crashed>>

\* put throws InterruptedException, which execute catches: it returns, without the task.
putInterrupted(p) ==
  /\ putting[p] # NoTask
  /\ interrupted[p]
  /\ dropped' = dropped \cup {putting[p]}
  /\ putting' = [putting EXCEPT ![p] = NoTask]
  /\ interrupted' = [interrupted EXCEPT ![p] = FALSE]
  /\ UNCHANGED <<mTaskQueue, todo, running, submitted, finished, interrupts, crashed>>

\* mutation: peek() in place of take()
peekTask(w) ==
  /\ running[w] = NoTask
  /\ ~interrupted[w]
  /\ mTaskQueue # <<>>
  /\ running' = [running EXCEPT ![w] = Head(mTaskQueue)]
  /\ UNCHANGED <<mTaskQueue, todo, putting, interrupted, submitted, finished, dropped,
                 interrupts, crashed>>

\* mTaskQueue.take(), on worker w: waits for a task.
takeTask(w) ==
  /\ running[w] = NoTask
  /\ ~interrupted[w]
  /\ mTaskQueue # <<>>
  /\ running' = [running EXCEPT ![w] = Head(mTaskQueue)]
  /\ mTaskQueue' = Tail(mTaskQueue)
  /\ UNCHANGED <<todo, putting, interrupted, submitted, finished, dropped, interrupts, crashed>>

\* mutation: the try around the loop, so that an interrupt ends the worker
takeInterruptedEndsLoop(w) ==
  /\ running[w] = NoTask
  /\ interrupted[w]
  /\ UNCHANGED poolVars

\* take throws InterruptedException; the worker's loop goes on.
takeInterrupted(w) ==
  /\ running[w] = NoTask
  /\ interrupted[w]
  /\ interrupted' = [interrupted EXCEPT ![w] = FALSE]
  /\ UNCHANGED <<mTaskQueue, todo, running, putting, submitted, finished, dropped, interrupts,
                 crashed>>

\* task.run() returns.
runReturns(w) ==
  /\ running[w] # NoTask
  /\ putting[w] = NoTask
  /\ ~HasChildToSubmit(w)
  /\ finished' = finished \cup {running[w]}
  /\ running' = [running EXCEPT ![w] = NoTask]
  /\ UNCHANGED <<mTaskQueue, todo, putting, interrupted, submitted, dropped, interrupts, crashed>>

\* task.run() throws an exception the worker does not catch.
runThrows(w) ==
  /\ running[w] # NoTask
  /\ putting[w] = NoTask
  /\ crashed' = TRUE
  /\ UNCHANGED <<mTaskQueue, todo, running, putting, interrupted, submitted, finished, dropped,
                 interrupts>>

\* Thread.interrupt(), called on p by anyone.
interrupt(p) ==
  /\ interrupts < MaxInterrupts
  /\ ~interrupted[p]
  /\ interrupts' = interrupts + 1
  /\ interrupted' = [interrupted EXCEPT ![p] = TRUE]
  /\ UNCHANGED <<mTaskQueue, todo, running, putting, submitted, finished, dropped, crashed>>

-----------------------------------------------------------------------------
Puts(p) == putTask(p) \/ putInterrupted(p)

WorkerThread(w) == takeTask(w) \/ takeInterrupted(w) \/ executeNested(w) \/ runReturns(w)

PoolNext ==
  /\ ~crashed
  /\ \/ \E c \in Caller : execute(c)
     \/ \E p \in Thread : Puts(p) \/ interrupt(p)
     \/ \E w \in Worker : WorkerThread(w) \/ runThrows(w)

\* Every thread that can go on does, and the tasks end.
PoolFairness ==
  /\ \A p \in Thread : WF_poolVars(~crashed /\ Puts(p))
  /\ \A w \in Worker : WF_poolVars(~crashed /\ WorkerThread(w))

PoolSpec == PoolInit /\ [][PoolNext]_poolVars /\ PoolFairness

-----------------------------------------------------------------------------
\* In how many places task t is: in the queue, on a worker, with a thread that is
\* putting it, finished, dropped.
Places(t) ==
  Cardinality({k \in DOMAIN mTaskQueue : mTaskQueue[k] = t})
    + Cardinality({w \in Worker : running[w] = t})
    + Cardinality({p \in Thread : putting[p] = t})
    + Cardinality({s \in {finished, dropped} : t \in s})

\* A task passed to execute is in one place at any time: no two workers run it,
\* it is not run again, and it is not forgotten anywhere between execute and the end
\* of its run() (lines 37-39, 52-57).
OnePlace == \A t \in Task : Places(t) = IF t \in submitted THEN 1 ELSE 0

\* All workers are inside execute, called by the tasks they run, and the queue is
\* full: nobody is left to make room.
Starved ==
  /\ \A w \in Worker : putting[w] # NoTask
  /\ Len(mTaskQueue) = TaskCapacity

\* The comment of line 35 in full: execute blocks its caller until there is space, and
\* there will be, unless the pool is starved by tasks that call execute themselves.
ExecuteReturns ==
  \A p \in Thread : putting[p] # NoTask ~> putting[p] = NoTask \/ crashed \/ Starved

\* A task that was accepted is run to its end, whatever threads are interrupted
\* meanwhile, unless the pool is starved or the process ends.
AcceptedTaskFinishes ==
  \A t \in Task :
    (\E k \in DOMAIN mTaskQueue : mTaskQueue[k] = t) ~> t \in finished \/ crashed \/ Starved

\* The two promises of the pool: a caller of execute gets out of it, and a task that was
\* accepted is run (lines 35-40, 50-60).
PoolServes == ExecuteReturns /\ AcceptedTaskFinishes

=============================================================================
