---------------------------- MODULE ThreadParts -----------------------------
(***************************************************************************)
(* Three parts that no other part of the model drives, one at a time:      *)
(* HandleYUV's encoder thread with any caller that keeps to its rule, the  *)
(* thread pool and the MVP application.  They share no state; a behaviour  *)
(* is one of the part it starts with.                                      *)
(***************************************************************************)
EXTENDS EncodeThread, ThreadPool, MvpApp

VARIABLE part

Part == {"encoder", "pool", "mvp"}

ThreadPartsInit ==
  /\ part \in Part
  /\ EncInit
  /\ PoolInit
  /\ MvpInit

ThreadPartsNext ==
  \/ part = "encoder" /\ EncNext /\ UNCHANGED <<part, poolVars, mvpVars>>
  \/ part = "pool" /\ PoolNext /\ UNCHANGED <<part, encVars, mvpVars>>
  \/ part = "mvp" /\ MvpNext /\ UNCHANGED <<part, encVars, poolVars>>

\* The fairness of each part is that of its own specification: a part that is not run
\* stays in its initial state, where none of its fair actions is enabled.
ThreadPartsFairness == EncFairness /\ PoolFairness /\ MvpFairness

ThreadPartsSpec ==
  /\ ThreadPartsInit
  /\ [][ThreadPartsNext]_<<part, encVars, poolVars, mvpVars>>
  /\ ThreadPartsFairness
=============================================================================
