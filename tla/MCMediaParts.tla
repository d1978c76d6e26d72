---------------------------- MODULE MCMediaParts ----------------------------
(* MediaParts for TLC: the video threads as in their own MC module; an     *)
(* encoder scaled down, where a granule is two samples and a byte of main  *)
(* data beside a header of one byte is what the lowest rate gives a frame. *)
EXTENDS MediaParts, MCRc4Video

MCRates == {1, 2}
MCFrameBytes == [r \in {1, 2} |-> r + 1]
MCLoops == {"CBR", "ABR", "VBR_old", "VBR_new"}
MCBits == {1, 11, 30}
MCTagBytes == {3}
MCCallSamples == {5}
MCArraySizes == {3, 22}
=============================================================================
