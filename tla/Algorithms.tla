----------------------------- MODULE Algorithms -----------------------------
(***************************************************************************)
(* The classes of Algorithms and the conversions of HandleYUV, one object  *)
(* at a time: a Queue, one of the containers, an array to sort and to      *)
(* search, or a frame.  Each is sequential, and none uses another.         *)
(***************************************************************************)
EXTENDS RingQueue, Containers, Sorting, YuvFrames

VARIABLE class    \* the one in use

Class == {"Queue", "containers", "sorting", "frames"}

AlgInit ==
  /\ class \in Class
  /\ Init
  /\ ContInit
  /\ class # "containers" => kind = "Array"
  /\ SortInit
  /\ class # "sorting" => input = <<>>
  /\ FrameInit
  /\ class # "frames" => /\ frame.format = "NV21"
                         /\ \A s \in FrameSizes : frame.width * frame.height <= s[1] * s[2]

AlgNext ==
  \/ class = "Queue" /\ Next /\ UNCHANGED <<class, containerVars, sorterVars, yuvVars>>
  \/ class = "containers" /\ ContNext /\ UNCHANGED <<class, vars, sorterVars, yuvVars>>
  \/ class = "sorting" /\ SortNext /\ UNCHANGED <<class, vars, containerVars, yuvVars>>
  \/ class = "frames" /\ FrameNext /\ UNCHANGED <<class, vars, containerVars, sorterVars>>

AlgSpec == AlgInit /\ [][AlgNext]_<<class, vars, containerVars, sorterVars, yuvVars>>

-----------------------------------------------------------------------------
\* RadixSort.sort sorts what has no negatives, keeps the order of what it merges, and throws only
\* for the empty array and at the limits of int.
RadixSortResult == RadixSortKeepsOrder /\ RadixThrowsOnlyAtLimits

\* The searches of BinarySearch, Array and OrderArray say -1 exactly when the element is not
\* there, and where it is otherwise.
SearchesFind == SearchFinds /\ ContainIsRight
=============================================================================
