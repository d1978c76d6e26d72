---------------------------- MODULE EncodeThread ----------------------------
(***************************************************************************)
(* HandleYUV's H264EncodeThread: a thread that takes camera frames from a  *)
(* bounded queue, feeds them to a MediaCodec encoder and hands the encoded *)
(* packets to a listener.  Enc is the set of thread objects a run of the   *)
(* program may create; enc[t] holds the fields of object t, the position   *)
(* of its run() method, and the state of the MediaCodec it owns.           *)
(*                                                                         *)
(* The actions take the object as a parameter so that Pipeline can compose *)
(* them.  The specification at the end of this module closes them with the *)
(* most general caller that follows the one rule MainActivity follows: no  *)
(* frame is offered to a thread on which exit() has been called.           *)
(***************************************************************************)
EXTENDS Integers, Sequences

CONSTANTS
  Enc,            \* H264EncodeThread objects
  QueueCapacity,  \* capacity of mQueue (5 in the constructor)
  InputBuffers,   \* number of input buffers of the encoder
  KeyFrame,       \* frames the encoder makes key frames, besides the first it encodes
  Preamble,       \* what the encoder outputs before the first picture
  MaxFrame        \* bound: preview frames are numbered 1..MaxFrame

ASSUME QueueCapacityAssumption == QueueCapacity \in Nat \ {0}
ASSUME InputBuffersAssumption == InputBuffers \in Nat \ {0}
ASSUME KeyFrameAssumption == KeyFrame \subseteq Nat
ASSUME MaxFrameAssumption == MaxFrame \in Nat

VARIABLES
  enc,   \* the objects
  shot   \* number of preview frames the camera has produced

encVars == <<enc, shot>>

Frame == 1..MaxFrame
NoFrame == 0
InputIndex == 0..(InputBuffers - 1)
TRY_AGAIN_LATER == -1

\* Outputs of the encoder are sequences of NAL units; only the type in a unit's
\* header (outputBuffer.get(4) & 0x1F) and the frame it encodes matter.
SPS == 7
PPS == 8
IDR == 5
SLICE == 1
NalUnit == [type: {SPS, PPS, IDR, SLICE}, frame: Frame \cup {NoFrame}]
Unit(type, frame) == [type |-> type, frame |-> frame]
ConfigPacket == <<Unit(SPS, NoFrame), Unit(PPS, NoFrame)>>
NaluType(packet) == packet[1].type

\* dequeueOutputBuffer reports the format change before the first output: a
\* notification without data, held in the output sequence as an empty packet.
FORMAT_CHANGED == <<>>

ASSUME PreambleAssumption == Preamble \in Seq({FORMAT_CHANGED, ConfigPacket})

EncPc ==
  {"absent",    \* not created yet
   "started",   \* constructed, listener set, start() called
   "loop",      \* at the test of the while loop
   "take",      \* holds an input buffer, in mQueue.take()
   "drain",     \* about to call dequeueOutputBuffer
   "call",      \* mListener was not null, about to read it again and call it
   "callback",  \* inside onEncodeResult
   "done",      \* run() returned
   "npe"}       \* an uncaught NullPointerException ended the process

FrameQueue == Seq(Frame)
NalUnits == Seq(NalUnit)
CodecState == {"null", "started", "configured", "coding"}
HeldInput == InputIndex \cup {TRY_AGAIN_LATER}
OfferedFrame == Frame \cup {NoFrame}
InputOwners == [InputIndex -> {"free", "client", "codec"}]
Submissions == Seq(InputIndex \X Frame)
Packets == Seq(NalUnits)

EncState ==
  [pc: EncPc,
   mQueue: FrameQueue,
   isExit: BOOLEAN,
   isCodecStart: BOOLEAN,
   mListener: BOOLEAN,         \* TRUE when not null
   mEncodeCodec: CodecState,
   inputIndex: HeldInput,
   ppsSps: NalUnits,
   outData: NalUnits,
   caller: OfferedFrame,       \* frame a caller of setFrameData is putting
   inBuf: InputOwners,
   pending: Submissions,       \* submitted, not yet encoded
   output: Packets]            \* encoded, not yet dequeued

EncTypeOK == enc \in [Enc -> EncState] /\ shot \in Nat

AllFree == [i \in InputIndex |-> "free"]

AbsentEncoder ==
  [pc |-> "absent", mQueue |-> <<>>, isExit |-> FALSE, isCodecStart |-> FALSE,
   mListener |-> FALSE, mEncodeCodec |-> "null", inputIndex |-> TRY_AGAIN_LATER,
   ppsSps |-> <<>>, outData |-> <<>>, caller |-> NoFrame,
   inBuf |-> AllFree, pending |-> <<>>, output |-> <<>>]

EncInit == enc = [t \in Enc |-> AbsentEncoder] /\ shot = 0

EncCrashed == \E t \in Enc : enc[t].pc = "npe"

-----------------------------------------------------------------------------
\* Methods other threads call on the object.

\* new H264EncodeThread(w, h); setOnEncodeResultListener(this); start()
EncStart(t) ==
  /\ enc[t].pc = "absent"
  /\ enc' = [enc EXCEPT ![t].pc = "started", ![t].mListener = TRUE]

\* mutation: the test of isCodecStart dropped
PutsBeforeCodecStart(t, f) ==
  /\ enc[t].pc # "absent"
  /\ enc[t].caller = NoFrame
  /\ enc' = [enc EXCEPT ![t].caller = f]

\* setFrameData, up to the test of isCodecStart: the frame is dropped, or the
\* caller goes on to the blocking put.
SetFrameData(t, f) ==
  /\ enc[t].pc # "absent"
  /\ enc[t].caller = NoFrame
  /\ enc' = IF enc[t].isCodecStart THEN [enc EXCEPT ![t].caller = f] ELSE enc

\* setFrameData, mQueue.put(rawFrame): blocks while the queue is full.
EncPut(t) ==
  /\ enc[t].caller # NoFrame
  /\ Len(enc[t].mQueue) < QueueCapacity
  /\ enc' = [enc EXCEPT ![t].mQueue = Append(@, enc[t].caller), ![t].caller = NoFrame]

EncExit(t) ==
  /\ enc[t].pc # "absent"
  /\ enc' = [enc EXCEPT ![t].isExit = TRUE]

\* setOnEncodeResultListener(null)
ClearListener(t) ==
  /\ enc[t].pc # "absent"
  /\ enc' = [enc EXCEPT ![t].mListener = FALSE]

-----------------------------------------------------------------------------
\* run(), one step per access to something shared.

\* initEncodeCodec; createEncoderByType may throw an IOException, which is caught
\* and leaves mEncodeCodec null.  (mEncodeCodec is always null when run() begins:
\* a Thread object runs once.)
InitEncodeCodec(t) ==
  /\ enc[t].pc = "started"
  /\ \/ enc' = [enc EXCEPT ![t].pc = "loop",
                           ![t].mEncodeCodec = "started", ![t].isCodecStart = TRUE]
     \/ enc' = [enc EXCEPT ![t].pc = "loop"]

IgnoresExit(t) == enc[t].mEncodeCodec # "null"   \* mutation: isExit not tested
LoopGuard(t) == ~enc[t].isExit /\ enc[t].mEncodeCodec # "null"

\* The test that decides whether a dequeued input buffer is filled (line 64).
SkipsTwoInputs(i) == i > 1                       \* mutation: one more buffer skipped
UsableInput(i) == i > 0

\* dequeueInputBuffer.  A buffer it returns belongs to the client from then on,
\* also when the code does not fill it.
DequeueInputBuffer(t) ==
  /\ enc[t].pc = "loop"
  /\ LoopGuard(t)
  /\ \/ \E i \in InputIndex :
          /\ enc[t].inBuf[i] = "free"
          /\ IF UsableInput(i)
               THEN enc' = [enc EXCEPT ![t].pc = "take", ![t].inputIndex = i,
                                       ![t].inBuf[i] = "client"]
               ELSE enc' = [enc EXCEPT ![t].pc = "drain", ![t].inBuf[i] = "client"]
     \/ /\ \A i \in InputIndex : enc[t].inBuf[i] # "free"
        /\ enc' = [enc EXCEPT ![t].pc = "drain"]

\* mutation: mQueue.peek() in place of take()
PeekAndQueueInput(t) ==
  /\ enc[t].pc = "take"
  /\ enc[t].mQueue # <<>>
  /\ enc' = [enc EXCEPT
       ![t].pc = "drain",
       ![t].inBuf[enc[t].inputIndex] = "codec",
       ![t].pending = Append(@, <<enc[t].inputIndex, Head(enc[t].mQueue)>>),
       ![t].inputIndex = TRY_AGAIN_LATER]

\* mQueue.take() and queueInputBuffer.
TakeAndQueueInput(t) ==
  /\ enc[t].pc = "take"
  /\ enc[t].mQueue # <<>>
  /\ enc' = [enc EXCEPT
       ![t].pc = "drain",
       ![t].mQueue = Tail(@),
       ![t].inBuf[enc[t].inputIndex] = "codec",
       ![t].pending = Append(@, <<enc[t].inputIndex, Head(enc[t].mQueue)>>),
       ![t].inputIndex = TRY_AGAIN_LATER]

\* mutation: while(outputIndex >= 0 || isExit) at the end of the do-while loop
DrainsWhileExiting(t) ==
  /\ enc[t].pc = "drain"
  /\ ~enc[t].isExit
  /\ \/ /\ enc[t].output = <<>>
        /\ enc' = [enc EXCEPT ![t].pc = "loop", ![t].ppsSps = <<>>]
     \/ /\ enc[t].output # <<>>
        /\ Head(enc[t].output) = FORMAT_CHANGED
        /\ enc' = [enc EXCEPT ![t].pc = "loop", ![t].output = Tail(@), ![t].ppsSps = <<>>]

\* dequeueOutputBuffer returned a negative index: nothing within the timeout, or
\* the format change.  Either ends the do-while loop, and with the iteration of the
\* outer loop the array ppsSps, which line 82 makes afresh for every iteration.
DrainEnds(t) ==
  /\ enc[t].pc = "drain"
  /\ \/ /\ enc[t].output = <<>>
        /\ enc' = [enc EXCEPT ![t].pc = "loop", ![t].ppsSps = <<>>]
     \/ /\ enc[t].output # <<>>
        /\ Head(enc[t].output) = FORMAT_CHANGED
        /\ enc' = [enc EXCEPT ![t].pc = "loop", ![t].output = Tail(@), ![t].ppsSps = <<>>]

IsConfig(packet) == NaluType(packet) \in {SPS, PPS}

\* What the listener is given for a dequeued packet: key frames are prefixed with
\* the parameter sets seen in this iteration of the outer loop.
OutData(t, packet) ==
  IF NaluType(packet) = IDR THEN enc[t].ppsSps \o packet ELSE packet

\* releaseOutputBuffer and the test of the do-while loop.
AfterOutput(t, e) ==
  IF e[t].isExit
    THEN [e EXCEPT ![t].pc = "loop", ![t].outData = <<>>, ![t].ppsSps = <<>>]
    ELSE [e EXCEPT ![t].pc = "drain", ![t].outData = <<>>]

\* A packet is dequeued and outData made, both private to the thread; then
\* if(mListener != null), the first of two reads of that field.
DequeueOutputBuffer(t) ==
  /\ enc[t].pc = "drain"
  /\ enc[t].output # <<>>
  /\ LET packet == Head(enc[t].output)
         dequeued == [enc EXCEPT ![t].pc = "call",
                                 ![t].output = Tail(@),
                                 ![t].ppsSps = IF IsConfig(packet) THEN packet ELSE @,
                                 ![t].outData = OutData(t, packet)]
     IN  /\ packet # FORMAT_CHANGED
         /\ enc' = IF enc[t].mListener THEN dequeued ELSE AfterOutput(t, dequeued)

\* mListener.onEncodeResult(outData), the second read.
CallListener(t) ==
  /\ enc[t].pc = "call"
  /\ enc' = [enc EXCEPT ![t].pc = IF enc[t].mListener THEN "callback" ELSE "npe"]

CallbackReturns(t) ==
  /\ enc[t].pc = "callback"
  /\ enc' = AfterOutput(t, enc)

\* The listener throws; nobody catches it.
CallbackThrows(t) ==
  /\ enc[t].pc = "callback"
  /\ enc' = [enc EXCEPT ![t].pc = "npe"]

\* releaseEncodeCodec, at the end of run().
ReleaseEncodeCodec(t) ==
  /\ enc[t].pc = "loop"
  /\ ~LoopGuard(t)
  /\ enc' = [enc EXCEPT
       ![t].pc = "done", ![t].mEncodeCodec = "null",
       ![t].isExit = FALSE, ![t].isCodecStart = FALSE,
       ![t].inBuf = AllFree, ![t].pending = <<>>, ![t].output = <<>>]

-----------------------------------------------------------------------------
\* MediaCodec, as run() uses it.

\* The parameter sets come once, before the first encoded frame.
CodecConfigures(t) ==
  /\ enc[t].mEncodeCodec = "started"
  /\ enc' = [enc EXCEPT ![t].mEncodeCodec = "configured",
                        ![t].output = @ \o Preamble]

\* The codec encodes the oldest submitted frame and gets its input buffer back;
\* the first picture is a key frame.
CodecEncodes(t) ==
  /\ enc[t].mEncodeCodec \in {"configured", "coding"}
  /\ enc[t].pending # <<>>
  /\ LET i == Head(enc[t].pending)[1]
         f == Head(enc[t].pending)[2]
         key == enc[t].mEncodeCodec = "configured" \/ f \in KeyFrame
     IN  enc' = [enc EXCEPT
           ![t].mEncodeCodec = "coding",
           ![t].pending = Tail(@),
           ![t].inBuf[i] = "free",
           ![t].output = Append(@, <<Unit(IF key THEN IDR ELSE SLICE, f)>>)]

-----------------------------------------------------------------------------
\* What run() does by itself: everything but what happens inside the callback.
EncRun(t) ==
  \/ InitEncodeCodec(t)
  \/ DequeueInputBuffer(t)
  \/ TakeAndQueueInput(t)
  \/ DrainEnds(t)
  \/ DequeueOutputBuffer(t)
  \/ CallListener(t)
  \/ ReleaseEncodeCodec(t)

EncCodec(t) == CodecConfigures(t) \/ CodecEncodes(t)

\* A preview frame arrives and the main thread offers it to t.
CameraFrame(t) ==
  /\ ~enc[t].isExit
  /\ shot < MaxFrame
  /\ shot' = shot + 1
  /\ SetFrameData(t, shot')

\* All calls come from the main thread, which is inside at most one of them.
MainIdle == \A t \in Enc : enc[t].caller = NoFrame

EncMain(t) ==
  \/ MainIdle /\ CameraFrame(t)
  \/ EncPut(t) /\ UNCHANGED shot
  \/ MainIdle /\ (EncStart(t) \/ EncExit(t) \/ ClearListener(t)) /\ UNCHANGED shot

\* An uncaught exception ends the process: nothing runs after it.
EncNext ==
  /\ ~EncCrashed
  /\ \E t \in Enc :
       \/ EncMain(t)
       \/ (EncRun(t) \/ CallbackReturns(t) \/ CallbackThrows(t)) /\ UNCHANGED shot
       \/ EncCodec(t) /\ UNCHANGED shot

\* The scheduler runs the thread, the codec works on what it was given, a put
\* that can proceed does, and a listener returns.  The camera and the user
\* owe nothing.
EncFairness ==
  \A t \in Enc :
    /\ WF_encVars(~EncCrashed /\ EncRun(t) /\ UNCHANGED shot)
    /\ WF_encVars(~EncCrashed /\ (CallbackReturns(t) \/ CallbackThrows(t)) /\ UNCHANGED shot)
    /\ WF_encVars(~EncCrashed /\ EncCodec(t) /\ UNCHANGED shot)
    /\ WF_encVars(~EncCrashed /\ EncPut(t) /\ UNCHANGED shot)

EncSafety == EncInit /\ [][EncNext]_encVars

EncSpec == EncSafety /\ EncFairness

-----------------------------------------------------------------------------
\* The dequeue-submit protocol of the input buffers (lines 63-77): a buffer the
\* client owns is the one the thread is about to fill, or buffer 0, which the test
\* of line 64 never fills; a buffer is with the codec exactly while one submitted
\* frame waits in it.
InputAccounting ==
  \A t \in Enc :
    LET SubmittedIn(i, k) == enc[t].pending[k][1] = i
    IN  \A i \in InputIndex :
          /\ enc[t].inBuf[i] = "client" =>
               i = 0 \/ (enc[t].pc = "take" /\ enc[t].inputIndex = i)
          /\ enc[t].inBuf[i] = "codec" <=> \E k \in DOMAIN enc[t].pending : SubmittedIn(i, k)
          /\ \A j, k \in DOMAIN enc[t].pending :
               SubmittedIn(i, j) /\ SubmittedIn(i, k) => j = k

\* A caller that has passed the test of isCodecStart (line 152) and is about to
\* put, or blocked in put, always has a consumer: the codec runs and nobody has
\* asked the thread to exit.
BlockedCallerIsServed ==
  \A t \in Enc : enc[t].caller # NoFrame =>
    /\ enc[t].isCodecStart /\ enc[t].mEncodeCodec # "null"
    /\ ~enc[t].isExit
    /\ enc[t].pc \notin {"absent", "started", "done"}

\* mEncodeCodec is not null wherever run() uses it without a test: line 85 is
\* outside the if of line 62.
CodecHeld ==
  \A t \in Enc :
    enc[t].pc \in {"take", "drain", "call", "callback"} =>
      enc[t].mEncodeCodec # "null"

\* The frames of t on their way from camera to listener, oldest first: in the packet
\* being delivered, encoded, submitted, queued, offered.  NoFrame stands where there
\* is none.
FrameOf(packet) == IF packet = <<>> THEN NoFrame ELSE packet[Len(packet)].frame
InFlight(t) ==
  LET delivering == <<FrameOf(enc[t].outData)>>
      encoded == [k \in DOMAIN enc[t].output |-> FrameOf(enc[t].output[k])]
      submitted == [k \in DOMAIN enc[t].pending |-> enc[t].pending[k][2]]
      offered == <<enc[t].caller>>
  IN  delivering \o encoded \o submitted \o enc[t].mQueue \o offered

\* No frame is reordered or duplicated between camera and listener: through the
\* queue, the codec's buffers and the prefixing of key frames, the frames in
\* flight are in camera order, and none is newer than the camera's last.
InOrder ==
  \A t \in Enc :
    LET s == InFlight(t)
        IsFrame(k) == s[k] # NoFrame
    IN  \A j, k \in DOMAIN s :
          /\ j < k /\ IsFrame(j) /\ IsFrame(k) => s[j] < s[k]
          /\ s[k] <= shot

\* The main thread does not stay blocked in setFrameData: while run() is not told
\* to exit it keeps making room, although one input buffer is lost to line 64.
PutReturns ==
  \A t \in Enc : enc[t].caller # NoFrame ~> enc[t].caller = NoFrame \/ EncCrashed

\* A thread told to exit while frames are queued leaves its loops and releases
\* the codec (lines 59, 119, 121); with an empty queue it may stay in take().
ExitsWhenFed ==
  \A t \in Enc :
    enc[t].isExit /\ enc[t].mQueue # <<>> ~> enc[t].pc = "done" \/ EncCrashed

\* Neither side waits for ever while there are frames: the caller in the put gets room, the
\* thread that is told to exit notices.
WaitsEnd == PutReturns /\ ExitsWhenFed

\* Lines 60-61 (comment): the thread writes the frame to the buffer it was given
\* and then submits the buffer to the encoder.
DequeuedInputIsSubmitted ==
  \A t \in Enc : \A i \in InputIndex :
    enc[t].inBuf[i] = "client" => enc[t].pc = "take" /\ enc[t].inputIndex = i

\* Lines 99-101 (comment): SPS and PPS are added in front of key frames.
KeyFrameCarriesParameterSets ==
  \A t \in Enc :
    LET p == enc[t].outData
    IN  p # <<>> /\ p[Len(p)].type = IDR => IsConfig(p)

=============================================================================
