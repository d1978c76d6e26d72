--------------------------- MODULE SequenceEdits ----------------------------
(***************************************************************************)
(* What a list promises its callers: a call puts one new element somewhere *)
(* into the sequence, or takes one out of it, or leaves it alone.  It never *)
(* changes the order of the others, loses one of them or doubles one.      *)
(***************************************************************************)
EXTENDS Integers, Sequences, SequencesExt

VARIABLE items

Init == items = <<>>

Add == \E k \in 1..(Len(items) + 1), e \in ToSet(items') \ ToSet(items) :
         items' = InsertAt(items, k, e)

TakeOut == \E k \in DOMAIN items : items' = RemoveAt(items, k)

Next == Add \/ TakeOut

Spec == Init /\ [][Next]_items
=============================================================================
