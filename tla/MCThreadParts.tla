--------------------------- MODULE MCThreadParts ----------------------------
(* ThreadParts for TLC.                                                    *)
(* Encoder: one thread object, a queue of 2, 3 input buffers (one is lost  *)
(* to the test of line 64, two circulate), 5 frames.                       *)
(* Pool: two workers and a queue of one, so that two tasks that submit a   *)
(* task each can starve it; two callers, one of which has a second task    *)
(* that fills the queue.                                                   *)
EXTENDS ThreadParts

CONSTANTS e1, w1, w2, c1, c2, parent1, child1, parent2, child2, plain

MCEnc == {e1}
MCPreamble == <<FORMAT_CHANGED, ConfigPacket>>

MCWorker == {w1, w2}
MCCaller == {c1, c2}
MCTask == {parent1, child1, parent2, child2, plain}
MCProgram == [c \in MCCaller |-> IF c = c1 THEN <<parent1, plain>> ELSE <<parent2>>]
MCChild ==
  [t \in MCTask |-> CASE t = parent1 -> child1
                      [] t = parent2 -> child2
                      [] OTHER       -> NoTask]
=============================================================================
