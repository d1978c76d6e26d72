----------------------------- MODULE MCRc4Video -----------------------------
(* Rc4Video for TLC: a permutation of two cells, which a key of 1 and 0    *)
(* swaps, so that a cell that is not initialised and an index computed     *)
(* from another call's array both change the key stream; frames and text   *)
(* of one byte, two outputs of the codec, two clicks.                      *)
EXTENDS Rc4Video

MCThread == {"encoder", "decoder", "main"}
MCT == [k \in 0..1 |-> 1 - k]
=============================================================================
