----------------------------- MODULE RingQueue -----------------------------
(***************************************************************************)
(* Algorithms' Queue: a queue in an array of maxSize cells, with the index *)
(* of its first and of its last element and a count.  An index that leaves *)
(* the array starts again at its beginning.  One call is one step: nothing *)
(* else runs on the object.                                                *)
(***************************************************************************)
EXTENDS Integers, Sequences

CONSTANTS
  Element,   \* the values put in the queue
  Zero,      \* what a new int array holds
  maxSize    \* argument of the constructor

\* new int[maxSize] throws for a negative size.
ASSUME MaxSizeAssumption == maxSize \in Nat
ASSUME ZeroAssumption == Zero \in Element

VARIABLES array, lenght, front, rear,
          outcome   \* what the last call returned or threw

vars == <<array, lenght, front, rear, outcome>>

Cell == 0..(maxSize - 1)

Returned(value) == <<"returned", value>>
Thrown(message) == <<"thrown", message>>
Done == <<"returned">>

Outcome ==
  {Done}
    \cup {Returned(v) : v \in Element}
    \cup {Returned(n) : n \in 0..maxSize}
    \cup {Thrown("queue is full"), Thrown("queue is empty")}

TypeOK ==
  /\ array \in [Cell -> Element]
  /\ lenght \in 0..maxSize
  /\ front \in Cell \cup {0}
  /\ rear \in Cell \cup {-1}
  /\ outcome \in Outcome

Init ==
  /\ array = [c \in Cell |-> Zero]
  /\ lenght = 0
  /\ front = 0
  /\ rear = -1
  /\ outcome = Done

isEmpty == lenght = 0
FullOneShort == lenght = maxSize - 1   \* mutation: full one element too early
isFull == lenght = maxSize

insert(element) ==
  /\ ~isFull
  /\ LET last == (IF rear = maxSize - 1 THEN -1 ELSE rear) + 1
     IN  /\ array' = [array EXCEPT ![last] = element]
         /\ rear' = last
  /\ lenght' = lenght + 1
  /\ outcome' = Done
  /\ UNCHANGED front

insertRefused ==
  /\ isFull
  /\ outcome' = Thrown("queue is full")
  /\ UNCHANGED <<array, lenght, front, rear>>

remove ==
  /\ ~isEmpty
  /\ outcome' = Returned(array[front])
  /\ front' = IF front + 1 = maxSize THEN 0 ELSE front + 1
  /\ lenght' = lenght - 1
  /\ UNCHANGED <<array, rear>>

perk ==
  /\ ~isEmpty
  /\ outcome' = Returned(array[front])
  /\ UNCHANGED <<array, lenght, front, rear>>

\* remove or perk of an empty queue
removeOrPerkRefused ==
  /\ isEmpty
  /\ outcome' = Thrown("queue is empty")
  /\ UNCHANGED <<array, lenght, front, rear>>

size ==
  /\ outcome' = Returned(lenght)
  /\ UNCHANGED <<array, lenght, front, rear>>

Next ==
  \/ \E element \in Element : insert(element)
  \/ insertRefused
  \/ remove
  \/ perk
  \/ removeOrPerkRefused
  \/ size

Spec == Init /\ [][Next]_vars

-----------------------------------------------------------------------------
\* The cell k places after first, in the circle of cells.
Around(first, k) == IF first + k < maxSize THEN first + k ELSE first + k - maxSize

\* The two indices and the count agree (lines 38-42, 56-60): counting lenght cells
\* from front leads to the cell after rear.  rear is never reset by remove, and is
\* -1 only before the first insert.
IndicesAgree ==
  Around(front, lenght) = IF rear = maxSize - 1 THEN 0 ELSE rear + 1

\* What the array holds, read from front around the circle.
Contents == [k \in 1..lenght |-> array[Around(front, k - 1)]]

Fifo == INSTANCE BoundedFifo WITH items <- Contents

\* Through any sequence of calls, the wraps and the refused ones included, the
\* queue returns what a first-in first-out queue of maxSize elements returns.
IsFifo == Fifo!FifoSpec

=============================================================================
