---------------------------- MODULE DecodeThread ----------------------------
(***************************************************************************)
(* HandleYUV's H264DecodeThread: takes H.264 packets from a bounded queue, *)
(* feeds them to a MediaCodec decoder and renders the decoded pictures on  *)
(* a surface.  Dec is the set of thread objects; dec[d] holds the fields   *)
(* of object d, the position of its run() and its MediaCodec's state.      *)
(* Packet is left abstract: what the decoder does with one depends only on *)
(* the picture in it, if any, and on whether it holds parameter sets.      *)
(* The callers are in Pipeline.                                            *)
(***************************************************************************)
EXTENDS Integers, Sequences

CONSTANTS
  Dec,             \* H264DecodeThread objects
  DecQueueCapacity,\* capacity of mQueue (5 in the constructor)
  DecInputs,       \* number of input buffers of the decoder
  DecOutputs,      \* number of output buffers of the decoder
  Packet,          \* what the encoder's listener receives
  NoPicture,
  PictureOf(_),    \* the picture in a packet, or NoPicture
  HasParameterSets(_)

VARIABLE dec

InputIndexD == 0..(DecInputs - 1)
OutputIndex == 0..(DecOutputs - 1)
NoIndex == -1
Picture == {PictureOf(p) : p \in Packet}

DecPc ==
  {"absent",    \* not created yet
   "started",   \* constructed, surface set, start() called
   "loop",      \* at the test of the while loop
   "take",      \* holds an input buffer, in mQueue.take()
   "drain",     \* about to call dequeueOutputBuffer
   "done",      \* run() returned
   "ise"}       \* initDecodeCodec threw IllegalStateException, which ends the process

DecState ==
  [pc: DecPc,
   mQueue: Seq(Packet),
   isExit: BOOLEAN,
   mSurface: BOOLEAN,                               \* TRUE when not null
   mDecodeCodec: BOOLEAN,                           \* TRUE when not null
   inputIndex: InputIndexD \cup {NoIndex},
   inBuf: [InputIndexD -> {"free", "client", "codec"}],
   pending: Seq(InputIndexD \X Packet),             \* submitted, not yet decoded
   outBuf: [OutputIndex -> {"free", "codec", "client"}],
   output: Seq(OutputIndex \X Picture),             \* decoded, not yet dequeued
   canDecode: BOOLEAN,                              \* the codec has seen parameter sets
   shown: Picture \cup {NoPicture}]                 \* the picture rendered last

DecTypeOK == dec \in [Dec -> DecState]

AbsentDecoder ==
  [pc |-> "absent", mQueue |-> <<>>, isExit |-> FALSE, mSurface |-> FALSE,
   mDecodeCodec |-> FALSE, inputIndex |-> NoIndex,
   inBuf |-> [i \in InputIndexD |-> "free"], pending |-> <<>>,
   outBuf |-> [i \in OutputIndex |-> "free"], output |-> <<>>,
   canDecode |-> FALSE, shown |-> NoPicture]

DecInit == dec = [d \in Dec |-> AbsentDecoder]

DecCrashed == \E d \in Dec : dec[d].pc = "ise"

-----------------------------------------------------------------------------
\* Methods other threads call on the object.

\* new H264DecodeThread(w, h); setRenderSurface(surface); start()
DecStart(d) ==
  /\ dec[d].pc = "absent"
  /\ dec' = [dec EXCEPT ![d].pc = "started", ![d].mSurface = TRUE]

\* setDecodeData: the put blocks while the queue is full.
SetDecodeData(d, packet) ==
  /\ dec[d].pc # "absent"
  /\ Len(dec[d].mQueue) < DecQueueCapacity
  /\ dec' = [dec EXCEPT ![d].mQueue = Append(@, packet)]

DecExit(d) ==
  /\ dec[d].pc # "absent"
  /\ dec' = [dec EXCEPT ![d].isExit = TRUE]

\* setRenderSurface(null)
ClearRenderSurface(d) ==
  /\ dec[d].pc # "absent"
  /\ dec' = [dec EXCEPT ![d].mSurface = FALSE]

-----------------------------------------------------------------------------
\* run()

\* initDecodeCodec: an exception without a surface; createDecoderByType may throw
\* an IOException, which is caught and leaves mDecodeCodec null.
InitDecodeCodec(d) ==
  /\ dec[d].pc = "started"
  /\ IF dec[d].mSurface
       THEN \E created \in BOOLEAN :
              dec' = [dec EXCEPT ![d].pc = "loop", ![d].mDecodeCodec = created]
       ELSE dec' = [dec EXCEPT ![d].pc = "ise"]

DecLoopGuard(d) == ~dec[d].isExit /\ dec[d].mDecodeCodec

\* dequeueInputBuffer: some free buffer, or -1 when there is none.
DecDequeueInputBuffer(d) ==
  /\ dec[d].pc = "loop"
  /\ DecLoopGuard(d)
  /\ \/ \E i \in InputIndexD :
          /\ dec[d].inBuf[i] = "free"
          /\ dec' = [dec EXCEPT ![d].pc = "take", ![d].inputIndex = i,
                                ![d].inBuf[i] = "client"]
     \/ /\ \A i \in InputIndexD : dec[d].inBuf[i] # "free"
        /\ dec' = [dec EXCEPT ![d].pc = "drain"]

\* mQueue.take(), then queueInputBuffer.
DecTakeAndQueueInput(d) ==
  /\ dec[d].pc = "take"
  /\ dec[d].mQueue # <<>>
  /\ dec' = [dec EXCEPT
       ![d].pc = "drain",
       ![d].mQueue = Tail(@),
       ![d].inBuf[dec[d].inputIndex] = "codec",
       ![d].pending = Append(@, <<dec[d].inputIndex, Head(dec[d].mQueue)>>),
       ![d].inputIndex = NoIndex]

\* The test that decides whether a dequeued output buffer is rendered (line 74).
RendersAfterSecond(i) == i > 1                   \* mutation: one more buffer not released
Renders(i) == i > 0

\* releaseOutputBuffer(outputIndex, true) gives the buffer back to the codec; a
\* buffer that is not released stays with the client.  The do-while loop goes on
\* in both cases, unless the thread was told to exit.
DecDequeueOutputBuffer(d) ==
  /\ dec[d].pc = "drain"
  /\ dec[d].output # <<>>
  /\ LET i == Head(dec[d].output)[1]
     IN  dec' = [dec EXCEPT
           ![d].pc = IF dec[d].isExit THEN "loop" ELSE @,
           ![d].output = Tail(@),
           ![d].outBuf[i] = IF Renders(i) THEN "free" ELSE "client",
           ![d].shown = IF Renders(i) THEN Head(dec[d].output)[2] ELSE @]

\* Nothing within the timeout ends the do-while loop.  So does the notification of
\* a new output format, which the codec sends just before the picture: that is this
\* step taken before the picture is in the output.
DecDrainEnds(d) ==
  /\ dec[d].pc = "drain"
  /\ dec[d].output = <<>>
  /\ dec' = [dec EXCEPT ![d].pc = "loop"]

\* run() returns.  It does not call releaseDecodeCodec: the codec keeps running.
DecReturns(d) ==
  /\ dec[d].pc = "loop"
  /\ ~DecLoopGuard(d)
  /\ dec' = [dec EXCEPT ![d].pc = "done"]

-----------------------------------------------------------------------------
\* MediaCodec, as run() uses it: packets are decoded in order; one with a picture
\* waits for a free output buffer, and is discarded before any parameter sets.
CodecDecodes(d) ==
  /\ dec[d].mDecodeCodec
  /\ dec[d].pending # <<>>
  /\ LET i == Head(dec[d].pending)[1]
         p == Head(dec[d].pending)[2]
         able == dec[d].canDecode \/ HasParameterSets(p)
         consumed == [dec EXCEPT ![d].pending = Tail(@), ![d].inBuf[i] = "free",
                                 ![d].canDecode = able]
     IN  IF PictureOf(p) = NoPicture \/ ~able
           THEN dec' = consumed
           ELSE \E o \in OutputIndex :
                  /\ dec[d].outBuf[o] = "free"
                  /\ dec' = [consumed EXCEPT ![d].outBuf[o] = "codec",
                                             ![d].output = Append(@, <<o, PictureOf(p)>>)]

-----------------------------------------------------------------------------
DecRun(d) ==
  \/ InitDecodeCodec(d)
  \/ DecDequeueInputBuffer(d)
  \/ DecTakeAndQueueInput(d)
  \/ DecDequeueOutputBuffer(d)
  \/ DecDrainEnds(d)
  \/ DecReturns(d)

-----------------------------------------------------------------------------
\* The buffers of the decoder (lines 45-76): buffer 0 is the only output buffer the
\* thread ever keeps, an output buffer is with the codec exactly while its picture
\* waits to be dequeued, and the client holds one input buffer at most, the one it
\* is about to fill.
BufferAccounting ==
  \A d \in Dec :
    /\ \A o \in OutputIndex :
         /\ dec[d].outBuf[o] = "client" => o = 0
         /\ dec[d].outBuf[o] = "codec" <=>
              \E k \in DOMAIN dec[d].output : dec[d].output[k][1] = o
         /\ \A j, k \in DOMAIN dec[d].output :
              dec[d].output[j][1] = dec[d].output[k][1] => j = k
    /\ \A i \in InputIndexD :
         dec[d].inBuf[i] = "client" => dec[d].pc = "take" /\ dec[d].inputIndex = i
=============================================================================
