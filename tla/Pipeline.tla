------------------------------ MODULE Pipeline ------------------------------
(***************************************************************************)
(* HandleYUV's MainActivity with its CameraManager: the camera posts       *)
(* preview frames to the main thread, which offers them to the current     *)
(* H264EncodeThread; that thread calls back onEncodeResult, which offers   *)
(* the packet to the current H264DecodeThread.  The two surfaces come and  *)
(* go independently, and each creates and abandons its own thread.         *)
(*                                                                         *)
(* The threads are those of EncodeThread and DecodeThread; this module     *)
(* adds the main thread, the camera and the body of the callback, and      *)
(* restricts the callers those modules leave open to the one there is.     *)
(***************************************************************************)
EXTENDS EncodeThread, FiniteSets

CONSTANTS
  Dec, DecQueueCapacity, DecInputs, DecOutputs   \* as in DecodeThread

VARIABLES
  dec,            \* the decoder objects, see DecodeThread
  mEncodeThread,  \* field of MainActivity: the current encoder thread or null
  mDecodeThread,  \* field of MainActivity: the current decoder thread or null
  main,           \* where the main thread is in its surface callbacks
  callback        \* where each encoder thread is in onEncodeResult

mainVars == <<mEncodeThread, mDecodeThread, main>>
vars == <<enc, shot, dec, mEncodeThread, mDecodeThread, main, callback>>

EncodedPacket ==
  LET picture == {<<Unit(type, f)>> : type \in {IDR, SLICE}, f \in Frame}
  IN  {ConfigPacket} \cup picture \cup {ConfigPacket \o p : p \in picture}

INSTANCE DecodeThread WITH
  Packet <- EncodedPacket, NoPicture <- NoFrame,
  PictureOf <- FrameOf, HasParameterSets <- IsConfig

ASSUME DecQueueCapacityAssumption == DecQueueCapacity \in Nat \ {0}
ASSUME DecBuffersAssumption == DecInputs \in Nat \ {0} /\ DecOutputs \in Nat \ {0}

null == "null"
ASSUME NullAssumption == null \notin Enc \cup Dec

MainPc ==
  {"idle",
   "encExited",    \* callback.surfaceDestroyed, after exit()
   "decExited",    \* callback2.surfaceDestroyed, after exit()
   "decCleared"}   \* callback2.surfaceDestroyed, after setRenderSurface(null)

\* "test": about to test mDecodeThread != null (also: not in the callback);
\* "use": about to read the field again; d: in d.setDecodeData.
CallbackPc == {"test", "use"} \cup Dec

TypeOK ==
  /\ EncTypeOK
  /\ DecTypeOK
  /\ mEncodeThread \in Enc \cup {null}
  /\ mDecodeThread \in Dec \cup {null}
  /\ main \in MainPc
  /\ callback \in [Enc -> CallbackPc]

Init ==
  /\ EncInit
  /\ DecInit
  /\ mEncodeThread = null
  /\ mDecodeThread = null
  /\ main = "idle"
  /\ callback = [t \in Enc |-> "test"]

\* An uncaught exception on any thread ends the process.
AppDead == EncCrashed \/ DecCrashed

\* The main thread handles one message at a time and may be blocked in a put.
MainFree == main = "idle" /\ MainIdle

-----------------------------------------------------------------------------
\* Messages of the main thread.

\* callback.surfaceCreated: the camera previews from here on, to a new encoder thread.
SurfaceCreated(t) ==
  /\ MainFree
  /\ mEncodeThread = null
  /\ EncStart(t)
  /\ mEncodeThread' = t
  /\ UNCHANGED <<shot, dec, mDecodeThread, main, callback>>

\* onPreviewFrame, a message the camera posts while it previews: the frame goes to
\* the current encoder thread.  One handled when there is none (the camera posted it
\* before closeCamera) changes nothing.
OnPreviewFrame ==
  /\ MainFree
  /\ mEncodeThread # null
  /\ shot < MaxFrame
  /\ shot' = shot + 1
  /\ SetFrameData(mEncodeThread, shot')
  /\ UNCHANGED <<dec, mainVars, callback>>

\* the put in setFrameData
MainPuts(t) ==
  /\ EncPut(t)
  /\ UNCHANGED <<shot, dec, mainVars, callback>>

\* mutation: surfaceDestroyed only drops the reference, and the thread goes on encoding
\* what it has been given and delivering it
DropsEncodeThread ==
  /\ MainFree
  /\ mEncodeThread # null
  /\ mEncodeThread' = null
  /\ UNCHANGED <<shot, enc, dec, mDecodeThread, main, callback>>

\* callback.surfaceDestroyed.  The join after mEncodeThread = null is dead code:
\* the local it joins is read after the field was cleared.
SurfaceDestroyedExits ==
  /\ MainFree
  /\ mEncodeThread # null
  /\ EncExit(mEncodeThread)
  /\ main' = "encExited"
  /\ UNCHANGED <<shot, dec, mEncodeThread, mDecodeThread, callback>>

\* mutation: the activity keeps its reference to the thread
KeepsEncodeThread ==
  /\ main = "encExited"
  /\ ClearListener(mEncodeThread)
  /\ main' = "idle"
  /\ UNCHANGED <<shot, dec, mEncodeThread, mDecodeThread, callback>>

\* setOnEncodeResultListener(null), mEncodeThread = null, and the camera is closed:
\* only the first is visible to other threads.
SurfaceDestroyedClears ==
  /\ main = "encExited"
  /\ ClearListener(mEncodeThread)
  /\ mEncodeThread' = null
  /\ main' = "idle"
  /\ UNCHANGED <<shot, dec, mDecodeThread, callback>>

\* callback2.surfaceCreated
Surface2Created(d) ==
  /\ MainFree
  /\ mDecodeThread = null
  /\ DecStart(d)
  /\ mDecodeThread' = d
  /\ UNCHANGED <<encVars, mEncodeThread, main, callback>>

\* callback2.surfaceDestroyed: three writes other threads can see.
Surface2DestroyedExits ==
  /\ MainFree
  /\ mDecodeThread # null
  /\ DecExit(mDecodeThread)
  /\ main' = "decExited"
  /\ UNCHANGED <<encVars, mEncodeThread, mDecodeThread, callback>>

Surface2DestroyedClears ==
  /\ main = "decExited"
  /\ ClearRenderSurface(mDecodeThread)
  /\ main' = "decCleared"
  /\ UNCHANGED <<encVars, mEncodeThread, mDecodeThread, callback>>

Surface2DestroyedForgets ==
  /\ main = "decCleared"
  /\ mDecodeThread' = null
  /\ main' = "idle"
  /\ UNCHANGED <<encVars, dec, mEncodeThread, callback>>

-----------------------------------------------------------------------------
\* The encoder threads, in and out of onEncodeResult.

EncoderRuns(t) ==
  /\ EncRun(t) \/ EncCodec(t)
  /\ UNCHANGED <<shot, dec, mainVars, callback>>

\* mutation: the null test dropped
UsesWithoutTest(t) ==
  /\ enc[t].pc = "callback"
  /\ callback[t] = "test"
  /\ callback' = [callback EXCEPT ![t] = "use"]
  /\ UNCHANGED <<encVars, dec, mainVars>>

\* if(mDecodeThread != null), the first read of the field
OnEncodeResultTests(t) ==
  /\ enc[t].pc = "callback"
  /\ callback[t] = "test"
  /\ IF mDecodeThread # null
       THEN callback' = [callback EXCEPT ![t] = "use"] /\ UNCHANGED enc
       ELSE CallbackReturns(t) /\ UNCHANGED callback
  /\ UNCHANGED <<shot, dec, mainVars>>

\* mDecodeThread.setDecodeData, the second read
OnEncodeResultUses(t) ==
  /\ enc[t].pc = "callback"
  /\ callback[t] = "use"
  /\ IF mDecodeThread # null
       THEN callback' = [callback EXCEPT ![t] = mDecodeThread] /\ UNCHANGED enc
       ELSE CallbackThrows(t) /\ UNCHANGED callback
  /\ UNCHANGED <<shot, dec, mainVars>>

\* the put in setDecodeData, on the decoder the field held at the second read
OnEncodeResultPuts(t) ==
  /\ enc[t].pc = "callback"
  /\ callback[t] \in Dec
  /\ SetDecodeData(callback[t], enc[t].outData)
  /\ CallbackReturns(t)
  /\ callback' = [callback EXCEPT ![t] = "test"]
  /\ UNCHANGED <<shot, mainVars>>

OnEncodeResult(t) ==
  OnEncodeResultTests(t) \/ OnEncodeResultUses(t) \/ OnEncodeResultPuts(t)

DecoderRuns(d) ==
  /\ DecRun(d) \/ CodecDecodes(d)
  /\ UNCHANGED <<encVars, mainVars, callback>>

-----------------------------------------------------------------------------
\* A surface callback that creates a thread takes an object not used before; which
\* one does not matter.
FreshEncoder == CHOOSE t \in Enc : enc[t].pc = "absent"
FreshDecoder == CHOOSE d \in Dec : dec[d].pc = "absent"

SurfaceCallback ==
  \/ (\E t \in Enc : enc[t].pc = "absent") /\ SurfaceCreated(FreshEncoder)
  \/ (\E d \in Dec : dec[d].pc = "absent") /\ Surface2Created(FreshDecoder)
  \/ SurfaceDestroyedExits
  \/ Surface2DestroyedExits

MainFinishesCallback ==
  SurfaceDestroyedClears \/ Surface2DestroyedClears \/ Surface2DestroyedForgets

Next ==
  /\ ~AppDead
  /\ \/ SurfaceCallback
     \/ MainFinishesCallback
     \/ OnPreviewFrame
     \/ \E t \in Enc : MainPuts(t) \/ EncoderRuns(t) \/ OnEncodeResult(t)
     \/ \E d \in Dec : DecoderRuns(d)

\* The scheduler runs every thread that can run, and the codecs work.  Surfaces
\* and the camera are the environment's.
Fairness ==
  /\ WF_vars(~AppDead /\ MainFinishesCallback)
  /\ \A t \in Enc :
       /\ WF_vars(~AppDead /\ MainPuts(t))
       /\ WF_vars(~AppDead /\ EncRun(t) /\ UNCHANGED <<shot, dec, mainVars, callback>>)
       /\ WF_vars(~AppDead /\ EncCodec(t) /\ UNCHANGED <<shot, dec, mainVars, callback>>)
       /\ WF_vars(~AppDead /\ OnEncodeResult(t))
  /\ \A d \in Dec :
       /\ WF_vars(~AppDead /\ DecRun(d) /\ UNCHANGED <<encVars, mainVars, callback>>)
       /\ WF_vars(~AppDead /\ CodecDecodes(d) /\ UNCHANGED <<encVars, mainVars, callback>>)

Spec == Init /\ [][Next]_vars /\ Fairness

-----------------------------------------------------------------------------
\* Every step of the pipeline is a step EncodeThread allows, or leaves the encoder
\* threads alone: the main thread keeps to the calling rule EncodeThread assumes,
\* so what that module establishes holds here.
EncoderContract == EncSafety

\* A thread object the activity created and no longer refers to.
AbandonedEncoder(t) == enc[t].pc # "absent" /\ t # mEncodeThread
AbandonedDecoder(d) == dec[d].pc # "absent" /\ d # mDecodeThread

\* An uncaught exception needs a surface to be going or gone: the unsynchronised
\* null tests (encoder lines 113-114, activity lines 121-122) and the surface test
\* of the decoder (line 83) fail only against the main thread's teardown.
CrashNeedsTeardown ==
  AppDead => \/ main # "idle"
             \/ \E t \in Enc : AbandonedEncoder(t)
             \/ \E d \in Dec : AbandonedDecoder(d)

\* The frames decoder d was given and has not discarded, in the order it was given
\* them: the one shown last, those decoded, those submitted, those queued.  NoFrame
\* stands where a packet has no picture.
DecoderStream(d) ==
  LET decoded == [k \in DOMAIN dec[d].output |-> dec[d].output[k][2]]
      submitted == [k \in DOMAIN dec[d].pending |-> FrameOf(dec[d].pending[k][2])]
      queued == [k \in DOMAIN dec[d].mQueue |-> FrameOf(dec[d].mQueue[k])]
  IN  <<dec[d].shown>> \o decoded \o submitted \o queued

\* Frames reach a decoder in camera order, except that an encoder thread abandoned
\* inside its callback may still deliver the packet it was delivering, and no more of
\* those it has encoded or queued (lines 59, 113, 119 against surfaceDestroyed): the
\* frames behind a newer one, or behind themselves, are no more than the abandoned
\* encoder threads.
LateDeliveries ==
  \A d \in Dec :
    LET s == DecoderStream(d)
        late == {k \in DOMAIN s : s[k] # NoFrame /\ \E j \in 1..(k - 1) : s[k] <= s[j]}
    IN  Cardinality(late) <= Cardinality({t \in Enc : AbandonedEncoder(t)})

\* Encoder thread t is blocked for good: it is putting to a decoder thread that has
\* returned and whose queue is full.
StuckOnDecoder(t) ==
  /\ callback[t] \in Dec
  /\ dec[callback[t]].pc = "done"
  /\ Len(dec[callback[t]].mQueue) = DecQueueCapacity

\* The main thread comes out of setFrameData, unless the process ends or the encoder
\* it waits for is blocked for good behind a decoder thread that has returned.  No
\* other wait of the three threads on each other lasts.
MainUnblocks ==
  (\E t \in Enc : enc[t].caller # NoFrame) ~>
    (MainIdle \/ AppDead \/ \E t \in Enc : StuckOnDecoder(t))

\* A caller blocked in setDecodeData gets through, and what was put is decoded, as long as
\* the thread is not told to exit and has a codec: the output buffer lost to line 74 does
\* not stall the decoder, which has another.
QueueDrains ==
  \A d \in Dec :
    Len(dec[d].mQueue) = DecQueueCapacity \/ dec[d].pending # <<>> ~>
      \/ Len(dec[d].mQueue) < DecQueueCapacity /\ dec[d].pending = <<>>
      \/ dec[d].isExit
      \/ dec[d].pc = "done"
      \/ AppDead

\* What becomes of an encoder thread that surfaceDestroyed tells to exit: it returns
\* and releases its codec, or stays in take() on the empty queue nobody will fill
\* again, or is blocked behind a decoder thread that has returned.
AbandonedEncoderSettles ==
  \A t \in Enc :
    AbandonedEncoder(t) ~>
      \/ enc[t].pc = "done"
      \/ enc[t].pc = "take" /\ enc[t].mQueue = <<>>
      \/ StuckOnDecoder(t)
      \/ AppDead

\* Line 45 (comment): surfaceDestroyed shuts the encoder thread down.
EncodeThreadShutsDown ==
  \A t \in Enc : AbandonedEncoder(t) ~> enc[t].pc \in {"done", "npe"} \/ AppDead

=============================================================================
