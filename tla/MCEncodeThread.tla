-------------------------- MODULE MCEncodeThread --------------------------
(* EncodeThread for TLC: one thread object, a queue of 2, 3 input buffers  *)
(* (one is lost to the test of line 64, two circulate), 5 frames.          *)
EXTENDS EncodeThread

CONSTANT e1

MCEnc == {e1}
MCQueueCapacity == 2
MCInputBuffers == 3
MCMaxFrame == 5
MCKeyFrame == {3}
MCPreamble == <<FORMAT_CHANGED, ConfigPacket>>
=============================================================================
