---------------------------- MODULE BoundedFifo ----------------------------
(***************************************************************************)
(* What Algorithms' Queue promises its caller: a first-in first-out queue  *)
(* of at most maxSize elements.  Every call ends in an outcome: a value, or *)
(* an IllegalStateException that changes nothing.                          *)
(***************************************************************************)
EXTENDS Integers, Sequences

CONSTANTS
  Element,   \* the values put in the queue
  maxSize

VARIABLES
  items,     \* the elements, oldest first
  outcome    \* of the last call

Returned(value) == <<"returned", value>>
Thrown(message) == <<"thrown", message>>
Done == <<"returned">>

FifoInit == items = <<>> /\ outcome = Done

FifoInsert(element) ==
  \/ /\ Len(items) < maxSize
     /\ items' = Append(items, element)
     /\ outcome' = Done
  \/ /\ Len(items) = maxSize
     /\ outcome' = Thrown("queue is full")
     /\ UNCHANGED items

FifoRemove ==
  /\ items # <<>>
  /\ items' = Tail(items)
  /\ outcome' = Returned(Head(items))

FifoPerk ==
  /\ items # <<>>
  /\ outcome' = Returned(Head(items))
  /\ UNCHANGED items

\* remove and perk of an empty queue
FifoRefuses ==
  /\ items = <<>>
  /\ outcome' = Thrown("queue is empty")
  /\ UNCHANGED items

FifoSize == outcome' = Returned(Len(items)) /\ UNCHANGED items

FifoNext ==
  \/ \E element \in Element : FifoInsert(element)
  \/ FifoRemove
  \/ FifoPerk
  \/ FifoRefuses
  \/ FifoSize

FifoSpec == FifoInit /\ [][FifoNext]_<<items, outcome>>

=============================================================================
