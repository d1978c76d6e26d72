----------------------------- MODULE IntArrays ------------------------------
(***************************************************************************)
(* The containers that keep ints in an array cells of Cells ints and count *)
(* how many are in use: array.Array, array.OrderArray and stack.Stack      *)
(* (whose top is length - 1).  One object is modelled, of the class in     *)
(* kind (Containers gives LinkedList a meaning); PriorityQueue.insert is    *)
(* empty, so that class never holds anything.                              *)
(***************************************************************************)
EXTENDS Halvings, Integers, Sequences, SequencesExt, FiniteSetsExt

CONSTANTS
  Ints,    \* the ints the callers use
  Cells

ASSUME CellsAssumption == Ints \subseteq Int /\ Ints # {} /\ Cells \in Nat \ {0}

VARIABLES
  kind,
  cells,
  length,
  call       \* the last call, its argument, what it returned, whether it threw

arrayVars == <<kind, cells, length, call>>

ArrCell == 0..(Cells - 1)
ArrContents == [k \in 1..length |-> cells[k - 1]]
ArrIsEmpty == length = 0

ArrIsFull == length = Cells

ArrTypeOK ==
  /\ kind \in {"Array", "OrderArray", "Stack", "LinkedList"}
  /\ cells \in [ArrCell -> Ints \cup {0}]
  /\ length \in 0..Cells
  /\ call \in [op : {"new", "contain", "insert", "insertAt", "delete", "get", "push", "pop", "peek"},
               arg : Ints \cup -1..(Cells + 1), result : Int, thrown : BOOLEAN]

ArrInit ==
  /\ kind \in {"Array", "OrderArray", "Stack", "LinkedList"}
  /\ cells = [k \in ArrCell |-> 0]
  /\ length = 0
  /\ call = [op |-> "new", arg |-> 0, result |-> 0, thrown |-> FALSE]

Returns(op, arg, result) == call' = [op |-> op, arg |-> arg, result |-> result, thrown |-> FALSE]
Throws(op, arg) == call' = [op |-> op, arg |-> arg, result |-> 0, thrown |-> TRUE]

-----------------------------------------------------------------------------
\* OrderArray.contain: the halving of the cells in use.
Halve(d) == Halving(cells, length, d)

\* Array.contain: the first cell from the left.
Linear(d) == IF d \in ToSet(ArrContents) THEN Min({k \in 0..(length - 1) : cells[k] = d}) ELSE -1

Located(d) == IF kind = "Array" THEN Linear(d) ELSE Halve(d)

\* The two classes differ on an empty array.
RefusesEmpty(op, d) == IF kind = "Array" THEN Throws(op, d) ELSE Returns(op, d, -1)

contain(d) ==
  /\ kind \in {"Array", "OrderArray"}
  /\ IF ArrIsEmpty THEN RefusesEmpty("contain", d) ELSE Returns("contain", d, Located(d))
  /\ UNCHANGED <<kind, cells, length>>

\* Array.insert
insertLast(d) ==
  /\ kind = "Array"
  /\ IF ArrIsFull
       THEN Throws("insert", d) /\ UNCHANGED <<cells, length>>
       ELSE /\ cells' = [cells EXCEPT ![length] = d]
            /\ length' = length + 1
            /\ Returns("insert", d, 0)
  /\ UNCHANGED kind

\* Array.insert(index, data): the cells above the index move up, the one at the index is
\* overwritten.  The loop ends above 0 and begins below length, so neither index is met: the
\* cells from 1 on move up and nothing is inserted.
insertAt(index, d) ==
  LET hit == index \in 1..(length - 1)
      lowest == IF hit THEN index + 1 ELSE 1
  IN  /\ kind = "Array"
      /\ IF ArrIsFull \/ index \notin 0..length
           THEN Throws("insertAt", d) /\ UNCHANGED <<cells, length>>
           ELSE /\ cells' = [k \in ArrCell |-> IF hit /\ k = index THEN d
                                            ELSE IF k \in (lowest + 1)..length THEN cells[k - 1]
                                            ELSE cells[k]]
                /\ length' = IF hit THEN length + 1 ELSE length
                /\ Returns("insertAt", d, 0)
      /\ UNCHANGED kind

\* mutation: the cells do not move up, so one is overwritten
InsertedOverwriting(location, d) == [cells EXCEPT ![location] = d]

\* The cells from location on move up.
Inserted(location, d) ==
  [k \in ArrCell |-> IF k = location THEN d ELSE IF k \in (location + 1)..length THEN cells[k - 1] ELSE cells[k]]

\* OrderArray.insert: before the first greater int.
insertOrdered(d) ==
  LET location == Min({length} \cup {k \in 0..(length - 1) : cells[k] > d})
  IN  /\ kind = "OrderArray"
      /\ IF ArrIsFull
           THEN Returns("insert", d, -1) /\ UNCHANGED <<cells, length>>
           ELSE /\ cells' = Inserted(location, d)
                /\ length' = length + 1
                /\ Returns("insert", d, location)
      /\ UNCHANGED kind

\* The cells behind the location move down, up to the cell before bound.
Shifted(location, bound) ==
  [k \in ArrCell |-> IF k \in location..(bound - 1) THEN cells[k + 1] ELSE cells[k]]

\* delete: Array counts down first and stops in time; OrderArray also copies the cell behind
\* the last one, which a full array does not have, and counts down only after that.
delete(d) ==
  LET location == Located(d)
      bound == IF kind = "Array" \/ ArrIsFull THEN length - 1 ELSE length
  IN  /\ kind \in {"Array", "OrderArray"}
      /\ IF ArrIsEmpty \/ location = -1
           THEN /\ IF ArrIsEmpty THEN RefusesEmpty("delete", d) ELSE Returns("delete", d, -1)
                /\ UNCHANGED <<cells, length>>
           ELSE /\ cells' = Shifted(location, bound)
                /\ IF kind = "OrderArray" /\ ArrIsFull
                     THEN Throws("delete", d) /\ UNCHANGED length
                     ELSE Returns("delete", d, location) /\ length' = length - 1
      /\ UNCHANGED kind

\* get lets index = length through: a cell not in use, or none.
get(index) ==
  /\ kind \in {"Array", "OrderArray"}
  /\ IF ArrIsEmpty \/ index \notin 0..length \/ index = Cells
       THEN Throws("get", index)
       ELSE Returns("get", index, cells[index])
  /\ UNCHANGED <<kind, cells, length>>

-----------------------------------------------------------------------------
push(d) ==
  /\ kind = "Stack"
  /\ IF ArrIsFull THEN UNCHANGED <<cells, length>>
               ELSE cells' = [cells EXCEPT ![length] = d] /\ length' = length + 1
  /\ Returns("push", d, 0)
  /\ UNCHANGED kind

pop ==
  /\ kind = "Stack"
  /\ IF ArrIsEmpty THEN Returns("pop", 0, -1) ELSE Returns("pop", 0, cells[length - 1])
  /\ length' = IF ArrIsEmpty THEN length ELSE length - 1
  /\ UNCHANGED <<kind, cells>>

peek ==
  /\ kind = "Stack"
  /\ IF ArrIsEmpty THEN Returns("peek", 0, -1) ELSE Returns("peek", 0, cells[length - 1])
  /\ UNCHANGED <<kind, cells, length>>

ArrNext ==
  \/ \E d \in Ints : contain(d) \/ insertLast(d) \/ insertOrdered(d) \/ delete(d) \/ push(d)
  \/ \E d \in Ints, index \in -1..(Cells + 1) : insertAt(index, d)
  \/ \E index \in -1..(Cells + 1) : get(index)
  \/ pop
  \/ peek

ArrSpec == ArrInit /\ [][ArrNext]_arrayVars

-----------------------------------------------------------------------------
\* A call that does not throw adds its argument once or takes one occurrence of it out (pop:
\* the last one added), keeps the order of the rest, and a query changes nothing; a call that
\* is refused, or finds nothing, changes nothing.  Two calls are no such edit:
\* OrderArray.delete on a full array, which fails after the cells moved and leaves the last
\* int doubled in place of the one to delete (OrderArray.java:93), and Array.insert at an
\* index, which is left out.
ArrayEdits ==
  [][LET d == call'.arg
         had == d \in ToSet(ArrContents)
     IN  /\ call'.op \in {"insert", "push"} =>
              IF ArrIsFull THEN ArrContents' = ArrContents
                        ELSE \E k \in 1..(length + 1) : ArrContents' = InsertAt(ArrContents, k, d)
         /\ call'.op = "delete" /\ ~had => ArrContents' = ArrContents
         /\ call'.op = "delete" /\ had =>
              \E k \in DOMAIN ArrContents :
                /\ ArrContents[k] = d
                /\ IF call'.thrown
                     THEN /\ kind = "OrderArray" /\ ArrIsFull
                          /\ ArrContents' = Append(RemoveAt(ArrContents, k), Last(ArrContents))
                     ELSE ArrContents' = RemoveAt(ArrContents, k)
         /\ call'.op = "pop" =>
              ArrContents' = IF ArrIsEmpty THEN <<>> ELSE RemoveAt(ArrContents, length)
         /\ call'.op \in {"contain", "get", "peek"} => ArrContents' = ArrContents]_arrayVars

\* A search that does not throw returns -1 exactly when the int is not among those in use, and
\* a cell that holds it otherwise.  For OrderArray this takes cells in ascending order after
\* every sequence of inserts and deletes, the ones that failed half-way included.
ContainIsRight ==
  call.op = "contain" /\ ~call.thrown =>
    IF call.arg \in ToSet(ArrContents)
      THEN call.result \in 0..(length - 1) /\ cells[call.result] = call.arg
      ELSE call.result = -1
=============================================================================
