----------------------------- MODULE MCPipeline -----------------------------
(* Pipeline for TLC.                                                       *)
(* Restarts: the encrypt surface may be destroyed and created again while  *)
(* the abandoned encoder thread is still there; the encoders put out no    *)
(* parameter sets of their own.  Three frames and two decoder inputs: one  *)
(* abandoned thread can have two pictures left to deliver, and a decoder   *)
(* can hold two that came late.                                            *)
(* Waits: one thread of each kind and enough frames to fill both queues    *)
(* and block the main thread.                                              *)
EXTENDS Pipeline

CONSTANTS e1, e2, d1

MCTwoEncoders == {e1, e2}
MCOneEncoder == {e1}
MCDec == {d1}
MCNoPreamble == <<>>
MCPreamble == <<FORMAT_CHANGED, ConfigPacket>>
=============================================================================
