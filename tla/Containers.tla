---------------------------- MODULE Containers ------------------------------
(***************************************************************************)
(* The containers of Algorithms, one object at a time: an Array, an        *)
(* OrderArray, a Stack or a LinkedList, used through any sequence of its   *)
(* calls.                                                                  *)
(***************************************************************************)
EXTENDS IntArrays, LinkedList

containerVars == <<arrayVars, listVars>>

ContTypeOK == ArrTypeOK /\ ListTypeOK

ContInit == ArrInit /\ ListInit

ContNext ==
  \/ ArrNext /\ UNCHANGED listVars
  \/ kind = "LinkedList" /\ ListNext /\ UNCHANGED arrayVars
=============================================================================
