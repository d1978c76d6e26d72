--------------------------- MODULE PipelineProofs ---------------------------
(***************************************************************************)
(* First, what EncodeThread establishes for any number of threads, frames  *)
(* and input buffers and any queue capacity: its types, the accounting of  *)
(* the encoder's input buffers, that a blocked caller has a consumer, and  *)
(* that frames keep their camera order.  Then that MainActivity keeps to   *)
(* the calling rule EncodeThread assumes, for any number of encoder and    *)
(* decoder threads, so that the same holds in the pipeline, and what holds *)
(* only there: the decoder's buffers, the crash around a teardown, and how *)
(* many pictures of abandoned encoder threads come late.                   *)
(***************************************************************************)
EXTENDS Pipeline, FiniteSetTheorems, SequenceTheorems, TLAPS

-----------------------------------------------------------------------------
\* Types of the values the actions write.

LEMMA EmptyValues ==
  /\ <<>> \in NalUnits
  /\ <<>> \in FrameQueue
  /\ <<>> \in Submissions
  /\ <<>> \in Packets
  /\ AllFree \in InputOwners
  /\ NoFrame \in OfferedFrame
  /\ TRY_AGAIN_LATER \in HeldInput
BY DEF NalUnits, FrameQueue, Submissions, Packets, AllFree, InputOwners, OfferedFrame, HeldInput

LEMMA PreambleType == Preamble \in Packets
<1>1. Unit(SPS, NoFrame) \in NalUnit /\ Unit(PPS, NoFrame) \in NalUnit
  BY DEF Unit, NalUnit
<1>2. ConfigPacket \in NalUnits /\ FORMAT_CHANGED \in NalUnits
  BY <1>1, EmptyValues DEF ConfigPacket, FORMAT_CHANGED, NalUnits
<1> QED BY <1>2, PreambleAssumption DEF Packets

LEMMA TypeInit == EncInit => EncTypeOK
<1>1. AbsentEncoder \in EncState
  BY EmptyValues DEF AbsentEncoder, EncState, EncPc, CodecState
<1> QED BY <1>1 DEF EncInit, EncTypeOK

\* A thread that waits in take() holds an input buffer, and the client owns it.
HoldsInput ==
  \A t \in Enc : enc[t].pc = "take" =>
    enc[t].inputIndex \in InputIndex /\ enc[t].inBuf[enc[t].inputIndex] = "client"

-----------------------------------------------------------------------------
\* Objects is closed under writing one field of one object; an action writes
\* several, one after the other.
Objects == [Enc -> EncState]

LEMMA Write_pc ==
  ASSUME NEW e \in Objects, NEW t \in Enc, NEW v \in EncPc
  PROVE  [e EXCEPT ![t].pc = v] \in Objects
BY DEF Objects, EncState

LEMMA Write_mQueue ==
  ASSUME NEW e \in Objects, NEW t \in Enc, NEW v \in FrameQueue
  PROVE  [e EXCEPT ![t].mQueue = v] \in Objects
BY DEF Objects, EncState

LEMMA Write_isExit ==
  ASSUME NEW e \in Objects, NEW t \in Enc, NEW v \in BOOLEAN
  PROVE  [e EXCEPT ![t].isExit = v] \in Objects
BY DEF Objects, EncState

LEMMA Write_isCodecStart ==
  ASSUME NEW e \in Objects, NEW t \in Enc, NEW v \in BOOLEAN
  PROVE  [e EXCEPT ![t].isCodecStart = v] \in Objects
BY DEF Objects, EncState

LEMMA Write_mListener ==
  ASSUME NEW e \in Objects, NEW t \in Enc, NEW v \in BOOLEAN
  PROVE  [e EXCEPT ![t].mListener = v] \in Objects
BY DEF Objects, EncState

LEMMA Write_mEncodeCodec ==
  ASSUME NEW e \in Objects, NEW t \in Enc, NEW v \in CodecState
  PROVE  [e EXCEPT ![t].mEncodeCodec = v] \in Objects
BY DEF Objects, EncState

LEMMA Write_inputIndex ==
  ASSUME NEW e \in Objects, NEW t \in Enc, NEW v \in HeldInput
  PROVE  [e EXCEPT ![t].inputIndex = v] \in Objects
BY DEF Objects, EncState

LEMMA Write_ppsSps ==
  ASSUME NEW e \in Objects, NEW t \in Enc, NEW v \in NalUnits
  PROVE  [e EXCEPT ![t].ppsSps = v] \in Objects
BY DEF Objects, EncState

LEMMA Write_outData ==
  ASSUME NEW e \in Objects, NEW t \in Enc, NEW v \in NalUnits
  PROVE  [e EXCEPT ![t].outData = v] \in Objects
BY DEF Objects, EncState

LEMMA Write_caller ==
  ASSUME NEW e \in Objects, NEW t \in Enc, NEW v \in OfferedFrame
  PROVE  [e EXCEPT ![t].caller = v] \in Objects
BY DEF Objects, EncState

LEMMA Write_inBuf ==
  ASSUME NEW e \in Objects, NEW t \in Enc, NEW v \in InputOwners
  PROVE  [e EXCEPT ![t].inBuf = v] \in Objects
BY DEF Objects, EncState

LEMMA Write_pending ==
  ASSUME NEW e \in Objects, NEW t \in Enc, NEW v \in Submissions
  PROVE  [e EXCEPT ![t].pending = v] \in Objects
BY DEF Objects, EncState

LEMMA Write_output ==
  ASSUME NEW e \in Objects, NEW t \in Enc, NEW v \in Packets
  PROVE  [e EXCEPT ![t].output = v] \in Objects
BY DEF Objects, EncState

LEMMA PcValues ==
  /\ "started" \in EncPc /\ "loop" \in EncPc /\ "take" \in EncPc /\ "drain" \in EncPc
  /\ "call" \in EncPc /\ "callback" \in EncPc /\ "done" \in EncPc /\ "npe" \in EncPc
BY DEF EncPc

LEMMA CodecValues ==
  /\ "null" \in CodecState /\ "started" \in CodecState
  /\ "configured" \in CodecState /\ "coding" \in CodecState
BY DEF CodecState

-----------------------------------------------------------------------------
\* Type correctness of each action.

LEMMA MainStepType ==
  ASSUME EncTypeOK, NEW t \in Enc,
         \/ CameraFrame(t)
         \/ EncPut(t) /\ UNCHANGED shot
         \/ (EncStart(t) \/ EncExit(t) \/ ClearListener(t)) /\ UNCHANGED shot
  PROVE  EncTypeOK'
<1> enc \in Objects BY DEF EncTypeOK, Objects
<1> SUFFICES enc' \in Objects /\ shot' \in Nat BY DEF EncTypeOK, Objects
<1>1. CASE CameraFrame(t)
  <2>1. shot' \in Nat /\ shot' \in OfferedFrame
    BY <1>1, MaxFrameAssumption DEF CameraFrame, Frame, OfferedFrame, EncTypeOK
  <2>2. enc' = enc \/ enc' = [enc EXCEPT ![t].caller = shot']
    BY <1>1 DEF CameraFrame, SetFrameData
  <2> QED BY <2>1, <2>2, Write_caller
<1>2. CASE EncPut(t) /\ UNCHANGED shot
  <2>1. enc[t].caller \in Frame BY <1>2 DEF EncPut, EncState, EncTypeOK, OfferedFrame
  <2>2. enc[t].mQueue \in FrameQueue BY DEF EncState, EncTypeOK
  <2>3. Append(enc[t].mQueue, enc[t].caller) \in FrameQueue BY <2>1, <2>2 DEF FrameQueue
  <2> QED BY <1>2, <2>3, EmptyValues, Write_mQueue, Write_caller DEF EncPut, EncTypeOK
<1>3. CASE EncStart(t) /\ UNCHANGED shot
  BY <1>3, PcValues, Write_pc, Write_mListener DEF EncStart, EncTypeOK
<1>4. CASE EncExit(t) /\ UNCHANGED shot
  BY <1>4, Write_isExit DEF EncExit, EncTypeOK
<1>5. CASE ClearListener(t) /\ UNCHANGED shot
  BY <1>5, Write_mListener DEF ClearListener, EncTypeOK
<1> QED BY <1>1, <1>2, <1>3, <1>4, <1>5

LEMMA AfterOutputType ==
  ASSUME NEW e \in Objects, NEW t \in Enc
  PROVE  AfterOutput(t, e) \in Objects
<1>1. [e EXCEPT ![t].pc = "loop", ![t].outData = <<>>, ![t].ppsSps = <<>>] \in Objects
  BY EmptyValues, PcValues, Write_pc, Write_outData, Write_ppsSps
<1>2. [e EXCEPT ![t].pc = "drain", ![t].outData = <<>>] \in Objects
  BY EmptyValues, PcValues, Write_pc, Write_outData
<1> QED BY <1>1, <1>2 DEF AfterOutput

LEMMA DequeueInputBufferType ==
  ASSUME enc \in Objects, NEW t \in Enc, DequeueInputBuffer(t)
  PROVE  enc' \in Objects
<1> DEFINE Owned(i) == [enc[t].inBuf EXCEPT ![i] = "client"]
<1>1. ASSUME NEW i \in InputIndex PROVE Owned(i) \in InputOwners /\ i \in HeldInput
  BY DEF InputOwners, HeldInput, Objects, EncState
<1>2. CASE \E i \in InputIndex :
             enc' = IF UsableInput(i)
                      THEN [enc EXCEPT ![t].pc = "take", ![t].inputIndex = i,
                                       ![t].inBuf[i] = "client"]
                      ELSE [enc EXCEPT ![t].pc = "drain", ![t].inBuf[i] = "client"]
  <2>1. PICK i \in InputIndex :
          enc' = IF UsableInput(i)
                   THEN [enc EXCEPT ![t].pc = "take", ![t].inputIndex = i,
                                    ![t].inBuf[i] = "client"]
                   ELSE [enc EXCEPT ![t].pc = "drain", ![t].inBuf[i] = "client"]
    BY <1>2
  <2>2. CASE UsableInput(i)
    <3>1. enc' = [enc EXCEPT ![t].pc = "take", ![t].inputIndex = i, ![t].inBuf = Owned(i)]
      BY <2>1, <2>2 DEF Objects
    <3> HIDE DEF Owned
    <3> QED BY <1>1, <3>1, PcValues, Write_pc, Write_inputIndex, Write_inBuf
  <2>3. CASE ~UsableInput(i)
    <3>1. enc' = [enc EXCEPT ![t].pc = "drain", ![t].inBuf = Owned(i)]
      BY <2>1, <2>3 DEF Objects
    <3> HIDE DEF Owned
    <3> QED BY <1>1, <3>1, PcValues, Write_pc, Write_inBuf
  <2> QED BY <2>2, <2>3
<1>3. CASE enc' = [enc EXCEPT ![t].pc = "drain"]
  BY <1>3, PcValues, Write_pc
<1> QED BY <1>2, <1>3, Zenon DEF DequeueInputBuffer

LEMMA TakeAndQueueInputType ==
  ASSUME enc \in Objects, HoldsInput, NEW t \in Enc, TakeAndQueueInput(t)
  PROVE  enc' \in Objects
<1> DEFINE i == enc[t].inputIndex
           queue == enc[t].mQueue
           owners == [enc[t].inBuf EXCEPT ![i] = "codec"]
           submissions == Append(enc[t].pending, <<i, Head(queue)>>)
<1>1. i \in InputIndex BY DEF HoldsInput, TakeAndQueueInput
<1>2. queue \in Seq(Frame) /\ queue # <<>>
  BY DEF Objects, EncState, FrameQueue, TakeAndQueueInput
<1>3. Tail(queue) \in FrameQueue /\ Head(queue) \in Frame
  BY <1>2, HeadTailProperties DEF FrameQueue
<1>4. owners \in InputOwners
  BY DEF Objects, EncState, InputOwners
<1>5. submissions \in Submissions
  BY <1>1, <1>3 DEF Objects, EncState, Submissions
<1>6. enc' = [enc EXCEPT ![t].pc = "drain", ![t].mQueue = Tail(queue), ![t].inBuf = owners,
                         ![t].pending = submissions, ![t].inputIndex = TRY_AGAIN_LATER]
  BY DEF TakeAndQueueInput, Objects
<1> HIDE DEF owners, submissions, queue
<1> QED
  BY <1>3, <1>4, <1>5, <1>6, EmptyValues, PcValues,
     Write_pc, Write_mQueue, Write_inBuf, Write_pending, Write_inputIndex

LEMMA DequeueOutputBufferType ==
  ASSUME enc \in Objects, NEW t \in Enc, DequeueOutputBuffer(t)
  PROVE  enc' \in Objects
<1> DEFINE packet == Head(enc[t].output)
           rest == Tail(enc[t].output)
           sets == IF IsConfig(packet) THEN packet ELSE enc[t].ppsSps
           data == OutData(t, packet)
           dequeued == [enc EXCEPT ![t].pc = "call", ![t].output = rest,
                                   ![t].ppsSps = sets, ![t].outData = data]
<1>1. enc[t].output \in Seq(NalUnits) /\ enc[t].output # <<>>
  BY DEF Objects, EncState, Packets, DequeueOutputBuffer
<1>2. packet \in NalUnits /\ rest \in Packets
  BY <1>1, HeadTailProperties DEF Packets
<1>3. enc[t].ppsSps \in NalUnits BY DEF Objects, EncState
<1>4. sets \in NalUnits BY <1>2, <1>3
<1>5. data \in NalUnits
  BY <1>2, <1>3 DEF OutData, NalUnits
<1>6. enc' = dequeued \/ enc' = AfterOutput(t, dequeued)
  BY DEF DequeueOutputBuffer
<1> HIDE DEF packet, rest, sets, data
<1>7. dequeued \in Objects
  BY <1>2, <1>4, <1>5, PcValues, Write_pc, Write_output, Write_ppsSps, Write_outData
<1> HIDE DEF dequeued
<1> QED BY <1>6, <1>7, AfterOutputType

LEMMA DrainEndsType ==
  ASSUME enc \in Objects, NEW t \in Enc, DrainEnds(t)
  PROVE  enc' \in Objects
<1>1. ASSUME enc[t].output # <<>> PROVE Tail(enc[t].output) \in Packets
  BY <1>1, HeadTailProperties DEF Objects, EncState, Packets
<1>2. CASE enc' = [enc EXCEPT ![t].pc = "loop", ![t].ppsSps = <<>>]
  BY <1>2, EmptyValues, PcValues, Write_pc, Write_ppsSps
<1>3. CASE enc[t].output # <<>> /\ enc' = [enc EXCEPT ![t].pc = "loop",
                                    ![t].output = Tail(enc[t].output), ![t].ppsSps = <<>>]
  BY <1>1, <1>3, EmptyValues, PcValues, Write_pc, Write_output, Write_ppsSps
<1>4. \/ enc' = [enc EXCEPT ![t].pc = "loop", ![t].ppsSps = <<>>]
      \/ enc[t].output # <<>> /\ enc' = [enc EXCEPT ![t].pc = "loop",
                                    ![t].output = Tail(enc[t].output), ![t].ppsSps = <<>>]
  BY DEF DrainEnds, Objects
<1> QED BY <1>2, <1>3, <1>4

LEMMA RunStepType ==
  ASSUME EncTypeOK, HoldsInput, NEW t \in Enc,
         EncRun(t) \/ CallbackReturns(t) \/ CallbackThrows(t), UNCHANGED shot
  PROVE  EncTypeOK'
<1> enc \in Objects BY DEF EncTypeOK, Objects
<1> SUFFICES enc' \in Objects BY DEF EncTypeOK, Objects
<1>1. CASE InitEncodeCodec(t)
  BY <1>1, PcValues, CodecValues, Write_pc, Write_mEncodeCodec, Write_isCodecStart
  DEF InitEncodeCodec
<1>2. CASE CallListener(t)
  BY <1>2, PcValues, Write_pc DEF CallListener
<1>3. CASE CallbackThrows(t)
  BY <1>3, PcValues, Write_pc DEF CallbackThrows
<1>4. CASE CallbackReturns(t)
  BY <1>4, AfterOutputType DEF CallbackReturns
<1>5. CASE ReleaseEncodeCodec(t)
  BY <1>5, EmptyValues, PcValues, CodecValues, Write_pc, Write_mEncodeCodec, Write_isExit,
     Write_isCodecStart, Write_inBuf, Write_pending, Write_output
  DEF ReleaseEncodeCodec
<1> QED
  BY <1>1, <1>2, <1>3, <1>4, <1>5, DequeueInputBufferType, TakeAndQueueInputType,
     DrainEndsType, DequeueOutputBufferType DEF EncRun

LEMMA CodecStepType ==
  ASSUME EncTypeOK, NEW t \in Enc, EncCodec(t), UNCHANGED shot
  PROVE  EncTypeOK'
<1> enc \in Objects BY DEF EncTypeOK, Objects
<1> SUFFICES enc' \in Objects BY DEF EncTypeOK, Objects
<1>1. CASE CodecConfigures(t)
  <2>1. enc[t].output \o Preamble \in Packets
    BY PreambleType DEF Objects, EncState, Packets
  <2>2. enc' = [enc EXCEPT ![t].mEncodeCodec = "configured",
                           ![t].output = enc[t].output \o Preamble]
    BY <1>1 DEF CodecConfigures, Objects
  <2> QED BY <2>1, <2>2, CodecValues, Write_mEncodeCodec, Write_output
<1>2. CASE CodecEncodes(t)
  <2> DEFINE i == Head(enc[t].pending)[1]
             f == Head(enc[t].pending)[2]
             key == enc[t].mEncodeCodec = "configured" \/ f \in KeyFrame
             owners == [enc[t].inBuf EXCEPT ![i] = "free"]
             packets == Append(enc[t].output, <<Unit(IF key THEN IDR ELSE SLICE, f)>>)
             rest == Tail(enc[t].pending)
  <2>1. enc[t].pending \in Seq(InputIndex \X Frame) /\ enc[t].pending # <<>>
    BY <1>2 DEF Objects, EncState, Submissions, CodecEncodes
  <2>2. Head(enc[t].pending) \in InputIndex \X Frame /\ rest \in Submissions
    BY <2>1, HeadTailProperties DEF Submissions
  <2>3. owners \in InputOwners BY <2>2 DEF Objects, EncState, InputOwners
  <2>4. Unit(IDR, f) \in NalUnit /\ Unit(SLICE, f) \in NalUnit
    BY <2>2 DEF Unit, NalUnit
  <2>5. packets \in Packets
    BY <2>4 DEF Objects, EncState, Packets, NalUnits
  <2>6. enc' = [enc EXCEPT ![t].mEncodeCodec = "coding", ![t].pending = rest,
                           ![t].inBuf = owners, ![t].output = packets]
    BY <1>2 DEF CodecEncodes, Objects
  <2> HIDE DEF rest, owners, packets
  <2> QED
    BY <2>2, <2>3, <2>5, <2>6, CodecValues,
       Write_mEncodeCodec, Write_pending, Write_inBuf, Write_output
<1> QED BY <1>1, <1>2 DEF EncCodec

-----------------------------------------------------------------------------
\* The accounting of input buffers.  InputAccounting is not inductive by itself: that
\* take() submits a buffer the client owns needs HoldsInput.

\* All steps of thread t.
EncStep(t) ==
  \/ EncMain(t)
  \/ (EncRun(t) \/ CallbackReturns(t) \/ CallbackThrows(t)) /\ UNCHANGED shot
  \/ EncCodec(t) /\ UNCHANGED shot

LEMMA StepType == EncTypeOK /\ HoldsInput /\ [EncNext]_encVars => EncTypeOK'
<1> SUFFICES ASSUME EncTypeOK, HoldsInput, [EncNext]_encVars PROVE EncTypeOK'
  OBVIOUS
<1>1. CASE UNCHANGED encVars BY <1>1 DEF encVars, EncTypeOK
<1>2. CASE EncNext
  BY <1>2, MainStepType, RunStepType, CodecStepType DEF EncNext, EncMain
<1> QED BY <1>1, <1>2

LEMMA OtherObjects ==
  ASSUME enc \in Objects, NEW t \in Enc, EncStep(t), NEW u \in Enc, u # t
  PROVE  enc'[u] = enc[u]
<1>1. CASE EncMain(t)
  BY <1>1 DEF EncMain, CameraFrame, SetFrameData, EncPut, EncStart, EncExit, ClearListener, Objects
<1>2. CASE CallbackReturns(t) \/ CallbackThrows(t)
  BY <1>2 DEF CallbackReturns, CallbackThrows, AfterOutput, Objects
<1>3. CASE InitEncodeCodec(t) \/ DequeueInputBuffer(t) \/ TakeAndQueueInput(t)
  BY <1>3 DEF InitEncodeCodec, DequeueInputBuffer, TakeAndQueueInput, Objects
<1>4. CASE DrainEnds(t) \/ CallListener(t) \/ ReleaseEncodeCodec(t)
  BY <1>4 DEF DrainEnds, CallListener, ReleaseEncodeCodec, Objects
<1>5. CASE DequeueOutputBuffer(t)
  BY <1>5 DEF DequeueOutputBuffer, AfterOutput, Objects
<1>6. CASE EncCodec(t)
  BY <1>6 DEF EncCodec, CodecConfigures, CodecEncodes, Objects
<1> QED BY <1>1, <1>2, <1>3, <1>4, <1>5, <1>6 DEF EncStep, EncRun

\* The two invariants, for one object.
HoldsOne(r) ==
  r.pc = "take" => r.inputIndex \in InputIndex /\ r.inBuf[r.inputIndex] = "client"
LostIsZero(r) ==
  \A i \in InputIndex :
    r.inBuf[i] = "client" => i = 0 \/ (r.pc = "take" /\ r.inputIndex = i)
\* A buffer is with the codec exactly while it is in the list, and it is there once.
CodecOwns(indices, owner, list) ==
  /\ \A i \in indices : owner[i] = "codec" <=> \E k \in DOMAIN list : list[k][1] = i
  /\ \A j, k \in DOMAIN list : list[j][1] = list[k][1] => j = k
Accounted(r) == HoldsOne(r) /\ LostIsZero(r) /\ CodecOwns(InputIndex, r.inBuf, r.pending)

LEMMA AccountedMeansInvariants ==
  ASSUME \A t \in Enc : Accounted(enc[t])
  PROVE  HoldsInput /\ InputAccounting
BY DEF Accounted, HoldsOne, LostIsZero, CodecOwns, HoldsInput, InputAccounting

\* The steps that neither touch the codec's input side nor enter or leave take().
LEMMA AccountedElsewhere ==
  ASSUME NEW r, NEW s, Accounted(r),
         s.inBuf = r.inBuf, s.pending = r.pending, s.inputIndex = r.inputIndex,
         s.pc = "take" <=> r.pc = "take"
  PROVE  Accounted(s)
BY DEF Accounted, HoldsOne, LostIsZero

LEMMA AccountedAtInit == EncInit => \A t \in Enc : Accounted(enc[t])
<1>1. ASSUME NEW r, r.pc # "take", r.inBuf = AllFree, r.pending = <<>>
      PROVE  Accounted(r)
  BY <1>1 DEF Accounted, HoldsOne, LostIsZero, CodecOwns, AllFree
<1>2. /\ AbsentEncoder.pc = "absent"
      /\ AbsentEncoder.inBuf = AllFree
      /\ AbsentEncoder.pending = <<>>
  BY DEF AbsentEncoder
<1>3. Accounted(AbsentEncoder) BY <1>1, <1>2
<1> QED BY <1>3 DEF EncInit

\* The steps AccountedElsewhere is about.
SameInputs(r, s) ==
  /\ s.inBuf = r.inBuf
  /\ s.pending = r.pending
  /\ s.inputIndex = r.inputIndex
  /\ (s.pc = "take") = (r.pc = "take")

LEMMA NotInputSteps ==
  ASSUME enc \in Objects, NEW t \in Enc, Accounted(enc[t]),
         \/ EncMain(t)
         \/ InitEncodeCodec(t) \/ DrainEnds(t) \/ DequeueOutputBuffer(t) \/ CallListener(t)
         \/ CallbackReturns(t) \/ CallbackThrows(t) \/ CodecConfigures(t)
  PROVE  Accounted(enc'[t])
<1> SUFFICES SameInputs(enc[t], enc'[t])
  BY AccountedElsewhere DEF SameInputs
<1>1. CASE CameraFrame(t)
  <2>1. enc' = enc \/ enc' = [enc EXCEPT ![t].caller = shot']
    BY <1>1 DEF CameraFrame, SetFrameData
  <2> QED BY <2>1 DEF SameInputs, Objects, EncState
<1>2. CASE EncPut(t)
  BY <1>2 DEF EncPut, SameInputs, Objects, EncState
<1>3. CASE EncStart(t)
  BY <1>3 DEF EncStart, SameInputs, Objects, EncState
<1>4. CASE EncExit(t) \/ ClearListener(t)
  BY <1>4 DEF EncExit, ClearListener, SameInputs, Objects, EncState
<1>5. CASE InitEncodeCodec(t) \/ DrainEnds(t) \/ CallListener(t)
  BY <1>5 DEF InitEncodeCodec, DrainEnds, CallListener, SameInputs, Objects, EncState
<1>6. CASE CallbackReturns(t) \/ CallbackThrows(t) \/ CodecConfigures(t)
  BY <1>6 DEF CallbackReturns, AfterOutput, CallbackThrows, CodecConfigures, SameInputs,
              Objects, EncState
<1>7. CASE DequeueOutputBuffer(t)
  <2> DEFINE packet == Head(enc[t].output)
             dequeued == [enc EXCEPT ![t].pc = "call",
                                     ![t].output = Tail(@),
                                     ![t].ppsSps = IF IsConfig(packet) THEN packet ELSE @,
                                     ![t].outData = OutData(t, packet)]
  <2>1. enc[t].pc = "drain" /\ enc' = IF enc[t].mListener THEN dequeued ELSE AfterOutput(t, dequeued)
    BY <1>7 DEF DequeueOutputBuffer
  <2>2. SameInputs(enc[t], dequeued[t])
    BY <2>1 DEF SameInputs, Objects, EncState
  <2>3. SameInputs(enc[t], AfterOutput(t, dequeued)[t])
    BY <2>1 DEF AfterOutput, SameInputs, Objects, EncState
  <2> QED
    BY <2>1, <2>2, <2>3
<1> QED BY <1>1, <1>2, <1>3, <1>4, <1>5, <1>6, <1>7 DEF EncMain

LEMMA DequeueInputAccounted ==
  ASSUME enc \in Objects, NEW t \in Enc, Accounted(enc[t]), DequeueInputBuffer(t)
  PROVE  Accounted(enc'[t])
<1>1. CASE \E i \in InputIndex :
             /\ enc[t].inBuf[i] = "free"
             /\ enc' = IF UsableInput(i)
                         THEN [enc EXCEPT ![t].pc = "take", ![t].inputIndex = i,
                                          ![t].inBuf[i] = "client"]
                         ELSE [enc EXCEPT ![t].pc = "drain", ![t].inBuf[i] = "client"]
  <2>1. PICK i \in InputIndex :
             /\ enc[t].inBuf[i] = "free"
             /\ enc' = IF UsableInput(i)
                         THEN [enc EXCEPT ![t].pc = "take", ![t].inputIndex = i,
                                          ![t].inBuf[i] = "client"]
                         ELSE [enc EXCEPT ![t].pc = "drain", ![t].inBuf[i] = "client"]
    BY <1>1
  <2>2. /\ enc'[t].inBuf = [enc[t].inBuf EXCEPT ![i] = "client"]
        /\ enc'[t].pending = enc[t].pending
        /\ IF UsableInput(i) THEN enc'[t].pc = "take" /\ enc'[t].inputIndex = i
                             ELSE enc'[t].pc = "drain"
    BY <2>1 DEF Objects, EncState
  <2>3. enc[t].inBuf \in [InputIndex -> {"free", "client", "codec"}]
    BY DEF Objects, EncState, InputOwners
  <2>4. enc[t].pc = "loop" BY DEF DequeueInputBuffer
  <2>5. ~UsableInput(i) => i = 0 BY DEF UsableInput, InputIndex
  <2>6. HoldsOne(enc'[t])
    BY <2>2, <2>3 DEF HoldsOne
  <2>7. LostIsZero(enc'[t])
    BY <2>2, <2>3, <2>4, <2>5 DEF Accounted, LostIsZero
  <2>8. CodecOwns(InputIndex, enc'[t].inBuf, enc'[t].pending)
    <3>1. \A j \in InputIndex : enc'[t].inBuf[j] = "codec" <=> enc[t].inBuf[j] = "codec"
      BY <2>1, <2>2, <2>3
    <3>2. CodecOwns(InputIndex, enc[t].inBuf, enc[t].pending) BY DEF Accounted
    <3>3. enc'[t].pending = enc[t].pending BY <2>2
    <3> QED BY <3>1, <3>2, <3>3 DEF CodecOwns
  <2> QED BY <2>6, <2>7, <2>8 DEF Accounted
<1>2. CASE enc' = [enc EXCEPT ![t].pc = "drain"]
  <2>1. enc[t].pc = "loop" BY DEF DequeueInputBuffer
  <2>2. /\ enc'[t].inBuf = enc[t].inBuf
        /\ enc'[t].pending = enc[t].pending
        /\ enc'[t].inputIndex = enc[t].inputIndex
        /\ enc'[t].pc = "drain"
    BY <1>2 DEF Objects, EncState
  <2> QED BY <2>1, <2>2 DEF Accounted, HoldsOne, LostIsZero
<1> QED BY <1>1, <1>2, Zenon DEF DequeueInputBuffer

LEMMA AppendOwned ==
  ASSUME NEW I, NEW B, NEW T, NEW owner \in [I -> B], NEW p \in Seq(I \X T),
         CodecOwns(I, owner, p), NEW i \in I, owner[i] # "codec", NEW f \in T
  PROVE  CodecOwns(I, [owner EXCEPT ![i] = "codec"], Append(p, <<i, f>>))
<1> DEFINE n == Len(p)
           q == Append(p, <<i, f>>)
<1>1. /\ n \in Nat /\ DOMAIN p = 1..n /\ DOMAIN q = 1..(n + 1)
      /\ q[n + 1][1] = i
      /\ \A k \in 1..n : q[k] = p[k]
  OBVIOUS
<1>2. \A k \in 1..n : p[k][1] # i
  BY <1>1 DEF CodecOwns
<1>3. \A j \in I : [owner EXCEPT ![i] = "codec"][j] = IF j = i THEN "codec" ELSE owner[j]
  OBVIOUS
<1> HIDE DEF n, q
<1> QED BY <1>1, <1>2, <1>3 DEF CodecOwns, q

LEMMA TailOwned ==
  ASSUME NEW I, NEW B, NEW T, NEW owner \in [I -> B], NEW p \in Seq(I \X T), p # <<>>,
         CodecOwns(I, owner, p), NEW v, v # "codec"
  PROVE  CodecOwns(I, [owner EXCEPT ![p[1][1]] = v], Tail(p))
<1> DEFINE n == Len(p)
           q == Tail(p)
           i == p[1][1]
<1>1. /\ n \in Nat \ {0} /\ DOMAIN p = 1..n /\ DOMAIN q = 1..(n - 1)
      /\ \A k \in 1..(n - 1) : q[k] = p[k + 1] /\ k + 1 \in 1..n /\ k + 1 # 1
      /\ \A k \in 2..n : p[k] = q[k - 1] /\ k - 1 \in 1..(n - 1)
      /\ i \in I
  OBVIOUS
<1>2. \A k \in 2..n : p[k][1] # i
  BY <1>1 DEF CodecOwns
<1>3. \A j \in I : [owner EXCEPT ![i] = v][j] = IF j = i THEN v ELSE owner[j]
  OBVIOUS
<1>4. \A j \in I : j # i =>
        ((\E k \in 1..n : p[k][1] = j) <=> (\E k \in 1..(n - 1) : q[k][1] = j))
  <2> SUFFICES ASSUME NEW j \in I, j # i
               PROVE  (\E k \in 1..n : p[k][1] = j) <=> (\E k \in 1..(n - 1) : q[k][1] = j)
    OBVIOUS
  <2>1. ASSUME NEW k \in 1..n, p[k][1] = j PROVE \E m \in 1..(n - 1) : q[m][1] = j
    <3>1. k \in 2..n BY <1>1, <2>1
    <3> QED BY <1>1, <2>1, <3>1
  <2>2. ASSUME NEW k \in 1..(n - 1), q[k][1] = j PROVE \E m \in 1..n : p[m][1] = j
    BY <1>1, <2>2
  <2> QED BY <2>1, <2>2
<1>5. \A k \in 1..(n - 1) : q[k][1] # i
  <2> SUFFICES ASSUME NEW k \in 1..(n - 1) PROVE q[k][1] # i OBVIOUS
  <2>1. k + 1 \in 2..n /\ q[k] = p[k + 1] BY <1>1
  <2> QED BY <1>2, <2>1
<1>6. ASSUME NEW j \in 1..(n - 1), NEW k \in 1..(n - 1), q[j][1] = q[k][1] PROVE j = k
  <2>1. /\ j + 1 \in DOMAIN p /\ k + 1 \in DOMAIN p
        /\ p[j + 1][1] = p[k + 1][1]
    BY <1>1, <1>6
  <2>2. j + 1 = k + 1 BY <2>1 DEF CodecOwns
  <2> QED BY <2>2
<1> HIDE DEF n, q, i
<1>7. ASSUME NEW j \in I
      PROVE  [owner EXCEPT ![i] = v][j] = "codec" <=> \E k \in DOMAIN q : q[k][1] = j
  <2>1. CASE j = i BY <1>1, <1>3, <1>5, <2>1
  <2>2. CASE j # i
    <3>1. owner[j] = "codec" <=> \E k \in 1..n : p[k][1] = j BY <1>1 DEF CodecOwns
    <3> QED BY <1>1, <1>3, <1>4, <2>2, <3>1
  <2> QED BY <2>1, <2>2
<1> QED BY <1>1, <1>6, <1>7 DEF CodecOwns, q, i

LEMMA TakeAccounted ==
  ASSUME enc \in Objects, NEW t \in Enc, Accounted(enc[t]), TakeAndQueueInput(t)
  PROVE  Accounted(enc'[t])
<1> DEFINE i == enc[t].inputIndex
           f == Head(enc[t].mQueue)
<1>1. enc[t].pending \in Submissions /\ enc[t].inBuf \in InputOwners
  BY DEF Objects, EncState
<1>2. i \in InputIndex /\ enc[t].inBuf[i] = "client" /\ enc[t].pc = "take"
  BY DEF Accounted, HoldsOne, TakeAndQueueInput
<1>3. /\ enc'[t].pending = Append(enc[t].pending, <<i, f>>)
      /\ enc'[t].inBuf = [enc[t].inBuf EXCEPT ![i] = "codec"]
      /\ enc'[t].pc = "drain"
  BY DEF TakeAndQueueInput, Objects, EncState
<1>4. CodecOwns(InputIndex, enc'[t].inBuf, enc'[t].pending)
  <2>1. CodecOwns(InputIndex, enc[t].inBuf, enc[t].pending) BY DEF Accounted
  <2>2. enc[t].inBuf[i] # "codec" BY <1>2
  <2>3. f \in Frame
    <3>1. enc[t].mQueue \in Seq(Frame) /\ enc[t].mQueue # <<>>
      BY DEF Objects, EncState, FrameQueue, TakeAndQueueInput
    <3> QED BY <3>1, HeadTailProperties
  <2> HIDE DEF i, f
  <2>4. CodecOwns(InputIndex, [enc[t].inBuf EXCEPT ![i] = "codec"],
                  Append(enc[t].pending, <<i, f>>))
    BY <1>1, <1>2, <2>1, <2>2, <2>3, AppendOwned DEF Submissions, InputOwners
  <2> QED BY <1>3, <2>4
<1>5. LostIsZero(enc'[t])
  BY <1>1, <1>2, <1>3 DEF Accounted, LostIsZero, InputOwners
<1> QED BY <1>3, <1>4, <1>5 DEF Accounted, HoldsOne

LEMMA CodecEncodesAccounted ==
  ASSUME enc \in Objects, NEW t \in Enc, Accounted(enc[t]), CodecEncodes(t)
  PROVE  Accounted(enc'[t])
<1> DEFINE i == enc[t].pending[1][1]
<1>1. /\ enc[t].pending \in Submissions
      /\ enc[t].pending # <<>>
      /\ enc[t].inBuf \in InputOwners
  BY DEF Objects, EncState, CodecEncodes
<1>2. Head(enc[t].pending)[1] = i /\ i \in InputIndex /\ 1 \in DOMAIN enc[t].pending
  BY <1>1 DEF Submissions
<1>3. /\ enc'[t].inBuf = [enc[t].inBuf EXCEPT ![i] = "free"]
      /\ enc'[t].pending = Tail(enc[t].pending)
      /\ enc'[t].pc = enc[t].pc
      /\ enc'[t].inputIndex = enc[t].inputIndex
  BY <1>2 DEF CodecEncodes, Objects, EncState
<1>4. enc[t].inBuf[i] = "codec"
  BY <1>2 DEF Accounted, CodecOwns
<1>5. CodecOwns(InputIndex, enc'[t].inBuf, enc'[t].pending)
  <2>1. CodecOwns(InputIndex, enc[t].inBuf, enc[t].pending) BY DEF Accounted
  <2>2. "free" # "codec" OBVIOUS
  <2>3. CodecOwns(InputIndex, [enc[t].inBuf EXCEPT ![i] = "free"], Tail(enc[t].pending))
    BY <1>1, <2>1, <2>2, TailOwned DEF Submissions, InputOwners
  <2> QED BY <1>3, <2>3
<1>6. LostIsZero(enc'[t])
  BY <1>1, <1>3 DEF Accounted, LostIsZero, InputOwners
<1>7. HoldsOne(enc'[t])
  BY <1>1, <1>3, <1>4 DEF Accounted, HoldsOne, InputOwners
<1> QED BY <1>5, <1>6, <1>7 DEF Accounted

LEMMA ReleaseAccounted ==
  ASSUME enc \in Objects, NEW t \in Enc, ReleaseEncodeCodec(t)
  PROVE  Accounted(enc'[t])
<1>1. enc'[t].pc = "done" /\ enc'[t].pending = <<>> /\ enc'[t].inBuf = AllFree
  BY DEF ReleaseEncodeCodec, Objects, EncState
<1> QED BY <1>1 DEF Accounted, HoldsOne, LostIsZero, CodecOwns, AllFree

LEMMA AccountedStep ==
  ASSUME enc \in Objects, NEW t \in Enc, Accounted(enc[t]), EncStep(t)
  PROVE  Accounted(enc'[t])
BY NotInputSteps, DequeueInputAccounted, TakeAccounted, CodecEncodesAccounted, ReleaseAccounted
DEF EncStep, EncRun, EncCodec

\* Every step of the specification is a step of one object, and keeps the types
\* and the accounting.
BufferInv == EncTypeOK /\ \A t \in Enc : Accounted(enc[t])

LEMMA BufferInvStep == BufferInv /\ [EncNext]_encVars => BufferInv'
<1> SUFFICES ASSUME BufferInv, [EncNext]_encVars PROVE BufferInv' OBVIOUS
<1>1. EncTypeOK' BY StepType, AccountedMeansInvariants DEF BufferInv
<1>2. ASSUME NEW u \in Enc PROVE Accounted(enc'[u])
  <2>1. CASE UNCHANGED encVars BY <2>1 DEF encVars, BufferInv
  <2>2. CASE EncNext
    <3>1. PICK t \in Enc : EncStep(t) BY <2>2 DEF EncNext, EncStep
    <3>2. enc \in Objects BY DEF EncTypeOK, Objects, BufferInv
    <3> QED BY <3>1, <3>2, OtherObjects, AccountedStep DEF BufferInv
  <2> QED BY <2>1, <2>2
<1> QED BY <1>1, <1>2 DEF BufferInv

LEMMA BufferInvariant == EncSafety => []BufferInv
<1>1. EncInit => BufferInv BY TypeInit, AccountedAtInit DEF BufferInv
<1> QED BY <1>1, BufferInvStep, PTL DEF EncSafety

\* The fields of the encoder threads keep their types, for any number of threads,
\* input buffers and frames.  The thread in take() must be known to hold a buffer
\* (lines 63-66), so the types are proved together with the accounting.
THEOREM EncTypeCorrect == EncSpec => []EncTypeOK
<1>1. BufferInv => EncTypeOK BY DEF BufferInv
<1> QED BY <1>1, BufferInvariant, PTL DEF EncSpec

\* The dequeue-submit protocol of lines 63-77, for any number of input buffers: no
\* buffer but number 0 is ever lost, and none is submitted twice.
THEOREM BuffersAccounted == EncSpec => []InputAccounting
<1>1. BufferInv => InputAccounting BY AccountedMeansInvariants DEF BufferInv
<1> QED BY <1>1, BufferInvariant, PTL DEF EncSpec

-----------------------------------------------------------------------------
\* A caller in put() has a consumer, and the codec is there when it is used.

\* isCodecStart is set only while run() is between initEncodeCodec and the end of
\* releaseEncodeCodec, and with it the codec.
RunningCodec(r) ==
  r.isCodecStart => r.mEncodeCodec # "null" /\ r.pc \notin {"absent", "started", "done"}

CallerServed(r) ==
  r.caller # NoFrame =>
    /\ r.isCodecStart /\ r.mEncodeCodec # "null"
    /\ ~r.isExit
    /\ r.pc \notin {"absent", "started", "done"}

HoldsCodec(r) ==
  r.pc \in {"take", "drain", "call", "callback"} => r.mEncodeCodec # "null"

Served(r) == RunningCodec(r) /\ CallerServed(r) /\ HoldsCodec(r)

LEMMA ServedAtInit == EncInit => \A t \in Enc : Served(enc[t])
<1>1. /\ AbsentEncoder.pc = "absent"
      /\ AbsentEncoder.isCodecStart = FALSE
      /\ AbsentEncoder.caller = NoFrame
  BY DEF AbsentEncoder
<1>2. Served(AbsentEncoder)
  BY <1>1 DEF Served, RunningCodec, CallerServed, HoldsCodec
<1> QED BY <1>2 DEF EncInit

LEMMA MainServed ==
  ASSUME enc \in Objects, NEW t \in Enc, Served(enc[t]), EncMain(t)
  PROVE  Served(enc'[t])
<1> USE DEF Objects, EncState, Served, RunningCodec, CallerServed, HoldsCodec
<1>1. CASE CameraFrame(t) BY <1>1 DEF CameraFrame, SetFrameData
<1>2. CASE EncPut(t) BY <1>2 DEF EncPut
<1>3. CASE MainIdle /\ EncExit(t) BY <1>3 DEF MainIdle, EncExit
<1>4. CASE EncStart(t) BY <1>4 DEF EncStart
<1>5. CASE ClearListener(t) BY <1>5 DEF ClearListener
<1> QED BY <1>1, <1>2, <1>3, <1>4, <1>5 DEF EncMain

LEMMA RunServed ==
  ASSUME enc \in Objects, NEW t \in Enc, Served(enc[t]),
         EncRun(t) \/ CallbackReturns(t) \/ CallbackThrows(t) \/ EncCodec(t)
  PROVE  Served(enc'[t])
<1> USE DEF Objects, EncState, Served, RunningCodec, CallerServed, HoldsCodec
<1>1. CASE InitEncodeCodec(t) BY <1>1 DEF InitEncodeCodec
<1>2. CASE DequeueInputBuffer(t)
  <2>1. /\ enc'[t].pc \in {"take", "drain"}
        /\ enc'[t].mEncodeCodec = enc[t].mEncodeCodec
        /\ enc'[t].isCodecStart = enc[t].isCodecStart
        /\ enc'[t].isExit = enc[t].isExit
        /\ enc'[t].caller = enc[t].caller
    <3>1. CASE enc' = [enc EXCEPT ![t].pc = "drain"] BY <3>1
    <3>2. CASE \E i \in InputIndex :
                 enc' = [enc EXCEPT ![t].pc = "drain", ![t].inBuf[i] = "client"]
      BY <3>2
    <3>3. CASE \E i \in InputIndex :
                 enc' = [enc EXCEPT ![t].pc = "take", ![t].inputIndex = i,
                                    ![t].inBuf[i] = "client"]
      BY <3>3
    <3> QED BY <1>2, <3>1, <3>2, <3>3 DEF DequeueInputBuffer
  <2> QED BY <1>2, <2>1 DEF DequeueInputBuffer, LoopGuard
<1>3. CASE TakeAndQueueInput(t) BY <1>3 DEF TakeAndQueueInput
<1>4. CASE DrainEnds(t) BY <1>4 DEF DrainEnds
<1>5. CASE DequeueOutputBuffer(t)
  <2>1. /\ enc'[t].pc \in {"call", "drain", "loop"}
        /\ enc'[t].mEncodeCodec = enc[t].mEncodeCodec
        /\ enc'[t].isCodecStart = enc[t].isCodecStart
        /\ enc'[t].isExit = enc[t].isExit
        /\ enc'[t].caller = enc[t].caller
    BY <1>5 DEF DequeueOutputBuffer, AfterOutput
  <2> QED BY <1>5, <2>1 DEF DequeueOutputBuffer
<1>6. CASE CallListener(t) BY <1>6 DEF CallListener
<1>7. CASE CallbackReturns(t) BY <1>7 DEF CallbackReturns, AfterOutput
<1>8. CASE CallbackThrows(t) BY <1>8 DEF CallbackThrows
<1>9. CASE ReleaseEncodeCodec(t) BY <1>9 DEF ReleaseEncodeCodec, LoopGuard
<1>10. CASE CodecConfigures(t) BY <1>10 DEF CodecConfigures
<1>11. CASE CodecEncodes(t) BY <1>11 DEF CodecEncodes
<1> QED
  BY <1>1, <1>2, <1>3, <1>4, <1>5, <1>6, <1>7, <1>8, <1>9, <1>10, <1>11 DEF EncRun, EncCodec

ServiceInv == \A t \in Enc : Served(enc[t])

LEMMA ServiceInvStep == EncTypeOK /\ ServiceInv /\ [EncNext]_encVars => ServiceInv'
<1> SUFFICES ASSUME EncTypeOK, ServiceInv, [EncNext]_encVars, NEW u \in Enc
             PROVE  Served(enc'[u])
  BY DEF ServiceInv
<1>1. CASE UNCHANGED encVars BY <1>1 DEF encVars, ServiceInv
<1>2. CASE EncNext
  <2>1. PICK t \in Enc : EncStep(t) BY <1>2 DEF EncNext, EncStep
  <2>2. enc \in Objects BY DEF EncTypeOK, Objects
  <2> QED BY <2>1, <2>2, OtherObjects, MainServed, RunServed DEF EncStep, ServiceInv
<1> QED BY <1>1, <1>2

LEMMA ServiceInvariant == EncSafety => []ServiceInv
<1>1. EncInit => ServiceInv BY ServedAtInit DEF ServiceInv
<1>2. BufferInv => EncTypeOK BY DEF BufferInv
<1> QED BY <1>1, <1>2, ServiceInvStep, BufferInvariant, PTL DEF EncSafety

\* A caller blocked in mQueue.put() (line 160) is never left without a consumer:
\* the test of isCodecStart at line 152 is not stale when it is used, because the
\* main thread that made it is also the only one that calls exit().
THEOREM CallerIsServed == EncSpec => []BlockedCallerIsServed
<1>1. ServiceInv => BlockedCallerIsServed
  BY DEF ServiceInv, Served, CallerServed, BlockedCallerIsServed
<1> QED BY <1>1, ServiceInvariant, PTL DEF EncSpec

\* run() never uses a codec that could not be created or was released (line 85).
THEOREM CodecIsHeld == EncSpec => []CodecHeld
<1>1. ServiceInv => CodecHeld
  BY DEF ServiceInv, Served, HoldsCodec, CodecHeld
<1> QED BY <1>1, ServiceInvariant, PTL DEF EncSpec

-----------------------------------------------------------------------------
(* The pipeline.                                                           *)

\* What the main thread may rely on between two of its steps: the thread it refers
\* to was created and, outside surfaceDestroyed, not told to exit; inside a surface
\* callback no put is pending; an object not created was not told to exit either.
ActivityInv ==
  /\ mEncodeThread \in Enc \cup {null}
  /\ mEncodeThread # null => enc[mEncodeThread].pc # "absent"
  /\ mEncodeThread # null /\ main # "encExited" => ~enc[mEncodeThread].isExit
  /\ main = "encExited" => mEncodeThread \in Enc
  /\ main # "idle" => MainIdle
  /\ \A t \in Enc : enc[t].pc = "absent" => ~enc[t].isExit

PipelineInv == BufferInv /\ ActivityInv

LEMMA ActivityAtInit == Init => ActivityInv
<1>1. /\ AbsentEncoder.pc = "absent"
      /\ AbsentEncoder.isExit = FALSE
      /\ AbsentEncoder.caller = NoFrame
  BY DEF AbsentEncoder
<1> QED BY <1>1 DEF Init, EncInit, ActivityInv, MainIdle

-----------------------------------------------------------------------------
\* What a step of an encoder thread by itself changes of what the main thread sees.

LEMMA OwnStep ==
  ASSUME enc \in Objects, NEW t \in Enc,
         EncRun(t) \/ EncCodec(t) \/ CallbackReturns(t) \/ CallbackThrows(t)
  PROVE  /\ enc'[t].caller = enc[t].caller
         /\ enc'[t].isExit => enc[t].isExit
         /\ enc'[t].pc = "absent" <=> enc[t].pc = "absent"
         /\ \A u \in Enc : u # t => enc'[u] = enc[u]
<1> USE DEF Objects, EncState
<1>1. CASE InitEncodeCodec(t) BY <1>1 DEF InitEncodeCodec
<1>2. CASE DequeueInputBuffer(t)
  <2>1. CASE enc' = [enc EXCEPT ![t].pc = "drain"]
    <3>1. enc[t].pc = "loop" BY <1>2 DEF DequeueInputBuffer
    <3> QED BY <2>1, <3>1
  <2>2. CASE \E i \in InputIndex :
               enc' = [enc EXCEPT ![t].pc = "drain", ![t].inBuf[i] = "client"]
    BY <1>2, <2>2 DEF DequeueInputBuffer
  <2>3. CASE \E i \in InputIndex :
               enc' = [enc EXCEPT ![t].pc = "take", ![t].inputIndex = i,
                                  ![t].inBuf[i] = "client"]
    <3>1. PICK i \in InputIndex :
            enc' = [enc EXCEPT ![t].pc = "take", ![t].inputIndex = i, ![t].inBuf[i] = "client"]
      BY <2>3
    <3>2. enc'[t].caller = enc[t].caller /\ enc'[t].isExit = enc[t].isExit /\ enc'[t].pc = "take"
      BY <3>1
    <3>3. \A u \in Enc : u # t => enc'[u] = enc[u] BY <3>1
    <3>4. enc[t].pc = "loop" BY <1>2 DEF DequeueInputBuffer
    <3> QED BY <3>2, <3>3, <3>4
  <2>4. \/ enc' = [enc EXCEPT ![t].pc = "drain"]
        \/ \E i \in InputIndex :
             enc' = [enc EXCEPT ![t].pc = "drain", ![t].inBuf[i] = "client"]
        \/ \E i \in InputIndex :
             enc' = [enc EXCEPT ![t].pc = "take", ![t].inputIndex = i,
                                ![t].inBuf[i] = "client"]
    BY <1>2, Zenon DEF DequeueInputBuffer
  <2> QED BY <2>1, <2>2, <2>3, <2>4, Zenon
<1>3. CASE TakeAndQueueInput(t) BY <1>3 DEF TakeAndQueueInput
<1>4. CASE DrainEnds(t) BY <1>4 DEF DrainEnds
<1>5. CASE DequeueOutputBuffer(t)
  <2> DEFINE packet == Head(enc[t].output)
             dequeued == [enc EXCEPT ![t].pc = "call",
                                     ![t].output = Tail(@),
                                     ![t].ppsSps = IF IsConfig(packet) THEN packet ELSE @,
                                     ![t].outData = OutData(t, packet)]
  <2>1. enc[t].pc = "drain" /\ enc' = IF enc[t].mListener THEN dequeued ELSE AfterOutput(t, dequeued)
    BY <1>5, Zenon DEF DequeueOutputBuffer
  <2>2. /\ dequeued[t].caller = enc[t].caller /\ dequeued[t].isExit = enc[t].isExit
        /\ dequeued[t].pc = "call" /\ DOMAIN dequeued = Enc
        /\ DOMAIN dequeued[t] = DOMAIN enc[t]
        /\ \A u \in Enc : u # t => dequeued[u] = enc[u]
    OBVIOUS
  <2>3. PICK e : e = dequeued
    OBVIOUS
  <2> HIDE DEF dequeued
  <2>4. /\ AfterOutput(t, e)[t].caller = e[t].caller /\ AfterOutput(t, e)[t].isExit = e[t].isExit
        /\ AfterOutput(t, e)[t].pc \in {"loop", "drain"}
        /\ \A u \in Enc : u # t => AfterOutput(t, e)[u] = e[u]
    BY <2>2, <2>3 DEF AfterOutput
  <2> QED
    BY <2>1, <2>2, <2>3, <2>4
<1>6. CASE CallListener(t) BY <1>6 DEF CallListener
<1>7. CASE ReleaseEncodeCodec(t) BY <1>7 DEF ReleaseEncodeCodec
<1>8. CASE CodecConfigures(t) BY <1>8 DEF CodecConfigures
<1>9. CASE CodecEncodes(t) BY <1>9 DEF CodecEncodes
<1>10. CASE CallbackReturns(t) BY <1>10 DEF CallbackReturns, AfterOutput
<1>11. CASE CallbackThrows(t) BY <1>11 DEF CallbackThrows
<1> QED
  BY <1>1, <1>2, <1>3, <1>4, <1>5, <1>6, <1>7, <1>8, <1>9, <1>10, <1>11 DEF EncRun, EncCodec

LEMMA OwnStepKeepsActivity ==
  ASSUME enc \in Objects, ActivityInv, NEW t \in Enc,
         EncRun(t) \/ EncCodec(t) \/ CallbackReturns(t) \/ CallbackThrows(t),
         UNCHANGED mainVars
  PROVE  ActivityInv'
BY OwnStep DEF ActivityInv, MainIdle, mainVars

-----------------------------------------------------------------------------
\* The steps of the main thread that touch an encoder thread: each is a step
\* EncodeThread allows.

LEMMA SurfaceCreatedStep ==
  ASSUME enc \in Objects, ActivityInv, ~EncCrashed,
         NEW t \in Enc, SurfaceCreated(t)
  PROVE  EncNext /\ ActivityInv'
<1>1. /\ EncStart(t) /\ MainIdle /\ UNCHANGED shot
      /\ mEncodeThread' = t /\ main' = main /\ main = "idle"
  BY DEF SurfaceCreated, MainFree
<1>2. /\ enc'[t].pc = "started"
      /\ enc'[t].isExit = enc[t].isExit
      /\ enc[t].pc = "absent"
      /\ \A u \in Enc : u # t => enc'[u] = enc[u]
  BY <1>1 DEF EncStart, Objects, EncState
<1>3. EncNext BY <1>1 DEF EncNext, EncMain
<1>4. ActivityInv' BY <1>1, <1>2 DEF ActivityInv
<1> QED BY <1>3, <1>4

LEMMA OnPreviewFrameStep ==
  ASSUME enc \in Objects, ActivityInv, ~EncCrashed, OnPreviewFrame
  PROVE  EncNext /\ ActivityInv'
<1>1. /\ mEncodeThread \in Enc /\ MainIdle /\ main = "idle"
      /\ shot < MaxFrame /\ shot' = shot + 1 /\ SetFrameData(mEncodeThread, shot')
      /\ UNCHANGED mainVars
  BY DEF OnPreviewFrame, MainFree, ActivityInv
<1>2. ~enc[mEncodeThread].isExit
  BY <1>1, NullAssumption DEF ActivityInv
<1>3. EncNext BY <1>1, <1>2 DEF EncNext, EncMain, CameraFrame
<1>4. \A u \in Enc : enc'[u].pc = enc[u].pc /\ enc'[u].isExit = enc[u].isExit
  BY <1>1 DEF SetFrameData, Objects, EncState
<1>5. ActivityInv' BY <1>1, <1>4, NullAssumption DEF ActivityInv, mainVars
<1> QED BY <1>3, <1>5

LEMMA MainPutsStep ==
  ASSUME enc \in Objects, ActivityInv, ~EncCrashed, NEW t \in Enc, MainPuts(t)
  PROVE  EncNext /\ ActivityInv'
<1>1. EncPut(t) /\ UNCHANGED shot /\ UNCHANGED mainVars BY DEF MainPuts
<1>2. EncNext BY <1>1 DEF EncNext, EncMain
<1>3. /\ \A u \in Enc : enc'[u].pc = enc[u].pc /\ enc'[u].isExit = enc[u].isExit
      /\ \A u \in Enc : enc'[u].caller \in {enc[u].caller, NoFrame}
  BY <1>1 DEF EncPut, Objects, EncState
<1>4. MainIdle => MainIdle' BY <1>3 DEF MainIdle
<1>5. ActivityInv' BY <1>1, <1>3, <1>4, NullAssumption DEF ActivityInv, mainVars
<1> QED BY <1>2, <1>5

LEMMA SurfaceDestroyedStep ==
  ASSUME enc \in Objects, ActivityInv, ~EncCrashed,
         SurfaceDestroyedExits \/ SurfaceDestroyedClears
  PROVE  EncNext /\ ActivityInv'
<1>1. CASE SurfaceDestroyedExits
  <2>1. /\ mEncodeThread \in Enc /\ MainIdle
        /\ EncExit(mEncodeThread) /\ UNCHANGED shot
        /\ mEncodeThread' = mEncodeThread /\ main' = "encExited"
    BY <1>1 DEF SurfaceDestroyedExits, MainFree, ActivityInv
  <2>2. EncNext BY <2>1 DEF EncNext, EncMain
  <2>3. /\ \A u \in Enc : enc'[u].pc = enc[u].pc /\ enc'[u].caller = enc[u].caller
        /\ \A u \in Enc : u # mEncodeThread => enc'[u] = enc[u]
    BY <2>1 DEF EncExit, Objects, EncState
  <2>4. MainIdle' BY <2>1, <2>3 DEF MainIdle
  <2>5. ActivityInv' BY <2>1, <2>3, <2>4, NullAssumption DEF ActivityInv
  <2> QED BY <2>2, <2>5
<1>2. CASE SurfaceDestroyedClears
  <2>1. /\ mEncodeThread \in Enc /\ MainIdle
        /\ ClearListener(mEncodeThread) /\ UNCHANGED shot
        /\ mEncodeThread' = null /\ main' = "idle"
    BY <1>2 DEF SurfaceDestroyedClears, ActivityInv
  <2>2. EncNext BY <2>1 DEF EncNext, EncMain
  <2>3. \A u \in Enc : enc'[u].pc = enc[u].pc /\ enc'[u].isExit = enc[u].isExit
    BY <2>1 DEF ClearListener, Objects, EncState
  <2>4. ActivityInv' BY <2>1, <2>3 DEF ActivityInv
  <2> QED BY <2>2, <2>4
<1> QED BY <1>1, <1>2

-----------------------------------------------------------------------------
\* The other steps: those of the encoder threads, and those that leave them alone.

LEMMA EncoderStep ==
  ASSUME enc \in Objects, ActivityInv, ~EncCrashed, NEW t \in Enc,
         EncoderRuns(t) \/ OnEncodeResult(t)
  PROVE  [EncNext]_encVars /\ ActivityInv'
<1>1. UNCHANGED shot /\ UNCHANGED mainVars
  BY DEF EncoderRuns, OnEncodeResult, OnEncodeResultTests, OnEncodeResultUses,
         OnEncodeResultPuts, encVars
<1>2. \/ EncRun(t) \/ EncCodec(t) \/ CallbackReturns(t) \/ CallbackThrows(t)
      \/ UNCHANGED enc
  BY DEF EncoderRuns, OnEncodeResult, OnEncodeResultTests, OnEncodeResultUses,
         OnEncodeResultPuts
<1>3. CASE UNCHANGED enc
  BY <1>1, <1>3 DEF encVars, ActivityInv, MainIdle, mainVars
<1>4. CASE EncRun(t) \/ EncCodec(t) \/ CallbackReturns(t) \/ CallbackThrows(t)
  <2>1. EncNext BY <1>1, <1>4 DEF EncNext
  <2> QED BY <1>1, <1>4, <2>1, OwnStepKeepsActivity
<1> QED BY <1>2, <1>3, <1>4

LEMMA DecoderSideStep ==
  ASSUME ActivityInv,
         \/ \E d \in Dec : Surface2Created(d) \/ DecoderRuns(d)
         \/ Surface2DestroyedExits \/ Surface2DestroyedClears \/ Surface2DestroyedForgets
  PROVE  UNCHANGED encVars /\ ActivityInv'
<1>1. UNCHANGED encVars /\ mEncodeThread' = mEncodeThread
  BY DEF Surface2Created, DecoderRuns, Surface2DestroyedExits, Surface2DestroyedClears,
         Surface2DestroyedForgets, encVars, mainVars
<1>2. /\ main' = "encExited" => main = "encExited"
      /\ main = "encExited" => main' = "encExited"
      /\ main' # "idle" => MainIdle
  BY DEF Surface2Created, DecoderRuns, Surface2DestroyedExits, Surface2DestroyedClears,
         Surface2DestroyedForgets, mainVars, MainFree, ActivityInv
<1> QED BY <1>1, <1>2 DEF ActivityInv, MainIdle, encVars

LEMMA PipelineStep ==
  ASSUME PipelineInv, [Next]_vars
  PROVE  [EncNext]_encVars /\ ActivityInv'
<1> enc \in Objects BY DEF PipelineInv, BufferInv, EncTypeOK, Objects
<1> ActivityInv BY DEF PipelineInv
<1>1. CASE UNCHANGED vars
  BY <1>1 DEF vars, encVars, ActivityInv, MainIdle
<1>2. CASE Next
  <2>1. ~EncCrashed BY <1>2 DEF Next, AppDead
  <2>2. ASSUME (\E t \in Enc : enc[t].pc = "absent") /\ SurfaceCreated(FreshEncoder)
        PROVE  EncNext /\ ActivityInv'
    <3>1. FreshEncoder \in Enc BY <2>2 DEF FreshEncoder
    <3> QED BY <2>1, <2>2, <3>1, SurfaceCreatedStep
  <2>3. ASSUME (\E d \in Dec : dec[d].pc = "absent") /\ Surface2Created(FreshDecoder)
        PROVE  UNCHANGED encVars /\ ActivityInv'
    <3>1. FreshDecoder \in Dec BY <2>3 DEF FreshDecoder
    <3> QED BY <2>3, <3>1, DecoderSideStep
  <2>4. CASE SurfaceCallback
    BY <2>1, <2>2, <2>3, <2>4, SurfaceDestroyedStep, DecoderSideStep DEF SurfaceCallback
  <2>5. CASE MainFinishesCallback
    BY <2>1, <2>5, SurfaceDestroyedStep, DecoderSideStep DEF MainFinishesCallback
  <2>6. CASE OnPreviewFrame
    BY <2>1, <2>6, OnPreviewFrameStep
  <2>7. CASE \E t \in Enc : MainPuts(t) \/ EncoderRuns(t) \/ OnEncodeResult(t)
    BY <2>1, <2>7, MainPutsStep, EncoderStep
  <2>8. CASE \E d \in Dec : DecoderRuns(d)
    BY <2>8, DecoderSideStep
  <2> QED BY <1>2, <2>4, <2>5, <2>6, <2>7, <2>8 DEF Next
<1> QED BY <1>1, <1>2

\* MainActivity calls its encoder threads the way EncodeThread assumes, however the
\* surfaces come and go and however many abandoned threads still run (lines 18-66): the
\* pipeline implements the specification of the encoder threads.
THEOREM PipelineRefinesEncoder == Spec => EncoderContract
<1>1. Init => PipelineInv /\ EncInit
  BY ActivityAtInit, TypeInit, AccountedAtInit DEF Init, PipelineInv, BufferInv
<1>2. PipelineInv /\ [Next]_vars => PipelineInv' /\ [EncNext]_encVars
  BY PipelineStep, BufferInvStep DEF PipelineInv
<1> QED BY <1>1, <1>2, PTL DEF Spec, EncoderContract, EncSafety

\* In the pipeline too, the main thread blocked in setFrameData has a consumer.
THEOREM PipelineCallerIsServed == Spec => []BlockedCallerIsServed
<1>1. ServiceInv => BlockedCallerIsServed
  BY DEF ServiceInv, Served, CallerServed, BlockedCallerIsServed
<1> QED BY <1>1, PipelineRefinesEncoder, ServiceInvariant, PTL DEF EncoderContract

\* In the pipeline too, input buffers are submitted once and none but buffer 0 is lost.
THEOREM PipelineBuffersAccounted == Spec => []InputAccounting
<1>1. BufferInv => InputAccounting BY AccountedMeansInvariants DEF BufferInv
<1> QED BY <1>1, PipelineRefinesEncoder, BufferInvariant, PTL DEF EncoderContract

-----------------------------------------------------------------------------
\* The decoder threads.  What a packet holds does not matter to their buffers.

AnyPicture == {FrameOf(p) : p \in NalUnits} \cup {NoFrame}
InputOwnersD == [InputIndexD -> {"free", "client", "codec"}]
OutputOwners == [OutputIndex -> {"free", "codec", "client"}]
DecSubmissions == Seq(InputIndexD \X NalUnits)
Outputs == Seq(OutputIndex \X AnyPicture)

Decoder ==
  [pc: DecPc, mQueue: Packets, isExit: BOOLEAN, mSurface: BOOLEAN, mDecodeCodec: BOOLEAN,
   inputIndex: InputIndexD \cup {NoIndex}, inBuf: InputOwnersD, pending: DecSubmissions,
   outBuf: OutputOwners, output: Outputs, canDecode: BOOLEAN, shown: AnyPicture]

Decoders == [Dec -> Decoder]

LEMMA WriteD_pc ==
  ASSUME NEW e \in Decoders, NEW d \in Dec, NEW v \in DecPc
  PROVE  [e EXCEPT ![d].pc = v] \in Decoders
BY DEF Decoders, Decoder

LEMMA WriteD_mQueue ==
  ASSUME NEW e \in Decoders, NEW d \in Dec, NEW v \in Packets
  PROVE  [e EXCEPT ![d].mQueue = v] \in Decoders
BY DEF Decoders, Decoder

LEMMA WriteD_isExit ==
  ASSUME NEW e \in Decoders, NEW d \in Dec, NEW v \in BOOLEAN
  PROVE  [e EXCEPT ![d].isExit = v] \in Decoders
BY DEF Decoders, Decoder

LEMMA WriteD_mSurface ==
  ASSUME NEW e \in Decoders, NEW d \in Dec, NEW v \in BOOLEAN
  PROVE  [e EXCEPT ![d].mSurface = v] \in Decoders
BY DEF Decoders, Decoder

LEMMA WriteD_mDecodeCodec ==
  ASSUME NEW e \in Decoders, NEW d \in Dec, NEW v \in BOOLEAN
  PROVE  [e EXCEPT ![d].mDecodeCodec = v] \in Decoders
BY DEF Decoders, Decoder

LEMMA WriteD_inputIndex ==
  ASSUME NEW e \in Decoders, NEW d \in Dec, NEW v \in InputIndexD \cup {NoIndex}
  PROVE  [e EXCEPT ![d].inputIndex = v] \in Decoders
BY DEF Decoders, Decoder

LEMMA WriteD_inBuf ==
  ASSUME NEW e \in Decoders, NEW d \in Dec, NEW v \in InputOwnersD
  PROVE  [e EXCEPT ![d].inBuf = v] \in Decoders
BY DEF Decoders, Decoder

LEMMA WriteD_pending ==
  ASSUME NEW e \in Decoders, NEW d \in Dec, NEW v \in DecSubmissions
  PROVE  [e EXCEPT ![d].pending = v] \in Decoders
BY DEF Decoders, Decoder

LEMMA WriteD_outBuf ==
  ASSUME NEW e \in Decoders, NEW d \in Dec, NEW v \in OutputOwners
  PROVE  [e EXCEPT ![d].outBuf = v] \in Decoders
BY DEF Decoders, Decoder

LEMMA WriteD_output ==
  ASSUME NEW e \in Decoders, NEW d \in Dec, NEW v \in Outputs
  PROVE  [e EXCEPT ![d].output = v] \in Decoders
BY DEF Decoders, Decoder

LEMMA WriteD_canDecode ==
  ASSUME NEW e \in Decoders, NEW d \in Dec, NEW v \in BOOLEAN
  PROVE  [e EXCEPT ![d].canDecode = v] \in Decoders
BY DEF Decoders, Decoder

LEMMA WriteD_shown ==
  ASSUME NEW e \in Decoders, NEW d \in Dec, NEW v \in AnyPicture
  PROVE  [e EXCEPT ![d].shown = v] \in Decoders
BY DEF Decoders, Decoder

LEMMA DecPcValues ==
  /\ "started" \in DecPc /\ "loop" \in DecPc /\ "take" \in DecPc /\ "drain" \in DecPc
  /\ "done" \in DecPc /\ "ise" \in DecPc
BY DEF DecPc

LEMMA IndexValues == NoIndex \in InputIndexD \cup {NoIndex} /\ NoIndex \notin InputIndexD
BY DecBuffersAssumption DEF NoIndex, InputIndexD

\* The accounting of buffers, for one object.  BufferAccounting does not say that the
\* thread in take() has a buffer.
HoldsInputD(r) == r.pc = "take" => r.inputIndex \in InputIndexD
HeldIsFilled(r) ==
  \A i \in InputIndexD : r.inBuf[i] = "client" => r.pc = "take" /\ r.inputIndex = i
KeptIsZero(r) == \A o \in OutputIndex : r.outBuf[o] = "client" => o = 0
AccountedD(r) ==
  /\ HoldsInputD(r) /\ HeldIsFilled(r) /\ KeptIsZero(r)
  /\ CodecOwns(OutputIndex, r.outBuf, r.output)

DecoderInv == dec \in Decoders /\ \A d \in Dec : AccountedD(dec[d])

LEMMA AccountedDMeansAccounting ==
  ASSUME \A d \in Dec : AccountedD(dec[d])
  PROVE  BufferAccounting
BY DEF AccountedD, HeldIsFilled, KeptIsZero, CodecOwns, BufferAccounting

LEMMA DecoderAtInit == DecInit => DecoderInv
<1>1. /\ AbsentDecoder.pc = "absent" /\ AbsentDecoder.output = <<>>
      /\ \A i \in InputIndexD : AbsentDecoder.inBuf[i] = "free"
      /\ \A o \in OutputIndex : AbsentDecoder.outBuf[o] = "free"
  BY DEF AbsentDecoder
<1>2. AccountedD(AbsentDecoder)
  BY <1>1 DEF AccountedD, HoldsInputD, HeldIsFilled, KeptIsZero, CodecOwns
<1>3. /\ <<>> \in Packets /\ <<>> \in DecSubmissions /\ <<>> \in Outputs
      /\ [i \in InputIndexD |-> "free"] \in InputOwnersD
      /\ [i \in OutputIndex |-> "free"] \in OutputOwners
      /\ NoFrame \in AnyPicture /\ "absent" \in DecPc
  BY DEF Packets, DecSubmissions, Outputs, InputOwnersD, OutputOwners, AnyPicture, DecPc
<1>4. AbsentDecoder \in Decoder
  BY <1>3, IndexValues DEF AbsentDecoder, Decoder
<1> QED BY <1>2, <1>4 DEF DecInit, DecoderInv, Decoders

\* The steps that touch no buffer.
SameBuffers(r, s) ==
  /\ s.inBuf = r.inBuf /\ s.outBuf = r.outBuf /\ s.output = r.output
  /\ s.inputIndex = r.inputIndex
  /\ (s.pc = "take") = (r.pc = "take")

LEMMA AccountedDElsewhere ==
  ASSUME NEW r, NEW s, AccountedD(r), SameBuffers(r, s)
  PROVE  AccountedD(s)
BY DEF AccountedD, SameBuffers, HoldsInputD, HeldIsFilled, KeptIsZero

\* One object at a time.
LEMMA OneDecoder ==
  ASSUME DecoderInv, NEW d \in Dec, dec' \in Decoders, AccountedD(dec'[d]),
         \A u \in Dec : u # d => dec'[u] = dec[u]
  PROVE  DecoderInv'
BY DEF DecoderInv

LEMMA DecCallsKeepInv ==
  ASSUME DecoderInv, NEW d \in Dec, NEW packet \in NalUnits,
         DecStart(d) \/ SetDecodeData(d, packet) \/ DecExit(d) \/ ClearRenderSurface(d)
  PROVE  DecoderInv'
<1> dec \in Decoders BY DEF DecoderInv
<1>1. dec' \in Decoders
  <2>1. CASE DecStart(d)
    BY <2>1, DecPcValues, WriteD_pc, WriteD_mSurface DEF DecStart
  <2>2. CASE SetDecodeData(d, packet)
    <3>1. Append(dec[d].mQueue, packet) \in Packets
      BY DEF Decoders, Decoder, Packets
    <3> QED BY <2>2, <3>1, WriteD_mQueue DEF SetDecodeData
  <2>3. CASE DecExit(d)
    BY <2>3, WriteD_isExit DEF DecExit
  <2>4. CASE ClearRenderSurface(d)
    BY <2>4, WriteD_mSurface DEF ClearRenderSurface
  <2> QED BY <2>1, <2>2, <2>3, <2>4
<1>2. SameBuffers(dec[d], dec'[d]) /\ \A u \in Dec : u # d => dec'[u] = dec[u]
  BY DEF DecStart, SetDecodeData, DecExit, ClearRenderSurface, SameBuffers, Decoders, Decoder
<1>3. AccountedD(dec'[d])
  BY <1>2, AccountedDElsewhere DEF DecoderInv
<1> QED BY <1>1, <1>2, <1>3, OneDecoder

LEMMA DecControlKeepsInv ==
  ASSUME DecoderInv, NEW d \in Dec, InitDecodeCodec(d) \/ DecDrainEnds(d) \/ DecReturns(d)
  PROVE  DecoderInv'
<1> dec \in Decoders BY DEF DecoderInv
<1>1. dec' \in Decoders
  BY DecPcValues, WriteD_pc, WriteD_mDecodeCodec DEF InitDecodeCodec, DecDrainEnds, DecReturns
<1>2. SameBuffers(dec[d], dec'[d]) /\ \A u \in Dec : u # d => dec'[u] = dec[u]
  BY DEF InitDecodeCodec, DecDrainEnds, DecReturns, SameBuffers, Decoders, Decoder
<1>3. AccountedD(dec'[d])
  BY <1>2, AccountedDElsewhere DEF DecoderInv
<1> QED BY <1>1, <1>2, <1>3, OneDecoder

LEMMA DecDequeueInputKeepsInv ==
  ASSUME DecoderInv, NEW d \in Dec, DecDequeueInputBuffer(d)
  PROVE  DecoderInv'
<1> dec \in Decoders /\ AccountedD(dec[d]) BY DEF DecoderInv
<1>1. dec[d].pc = "loop" BY DEF DecDequeueInputBuffer
<1>2. CASE \E i \in InputIndexD :
             dec' = [dec EXCEPT ![d].pc = "take", ![d].inputIndex = i, ![d].inBuf[i] = "client"]
  <2>1. PICK i \in InputIndexD :
          dec' = [dec EXCEPT ![d].pc = "take", ![d].inputIndex = i, ![d].inBuf[i] = "client"]
    BY <1>2
  <2> DEFINE owners == [dec[d].inBuf EXCEPT ![i] = "client"]
  <2>2. owners \in InputOwnersD /\ i \in InputIndexD \cup {NoIndex}
    BY DEF InputOwnersD, Decoders, Decoder
  <2>3. dec' = [dec EXCEPT ![d].pc = "take", ![d].inputIndex = i, ![d].inBuf = owners]
    BY <2>1 DEF Decoders
  <2>4. \A j \in InputIndexD : owners[j] = IF j = i THEN "client" ELSE dec[d].inBuf[j]
    BY DEF InputOwnersD, Decoders, Decoder
  <2> HIDE DEF owners
  <2>5. dec' \in Decoders
    BY <2>2, <2>3, DecPcValues, WriteD_pc, WriteD_inputIndex, WriteD_inBuf
  <2>6. /\ dec'[d].pc = "take" /\ dec'[d].inputIndex = i /\ dec'[d].inBuf = owners
        /\ dec'[d].outBuf = dec[d].outBuf /\ dec'[d].output = dec[d].output
        /\ \A u \in Dec : u # d => dec'[u] = dec[u]
    BY <2>3 DEF Decoders, Decoder
  <2>7. AccountedD(dec'[d])
    BY <1>1, <2>4, <2>6 DEF AccountedD, HoldsInputD, HeldIsFilled, KeptIsZero
  <2> QED BY <2>5, <2>6, <2>7, OneDecoder
<1>3. CASE dec' = [dec EXCEPT ![d].pc = "drain"]
  <2>1. dec' \in Decoders BY <1>3, DecPcValues, WriteD_pc
  <2>2. SameBuffers(dec[d], dec'[d]) /\ \A u \in Dec : u # d => dec'[u] = dec[u]
    BY <1>1, <1>3 DEF SameBuffers, Decoders, Decoder
  <2>3. AccountedD(dec'[d]) BY <2>2, AccountedDElsewhere
  <2> QED BY <2>1, <2>2, <2>3, OneDecoder
<1> QED BY <1>2, <1>3, Zenon DEF DecDequeueInputBuffer

LEMMA DecTakeKeepsInv ==
  ASSUME DecoderInv, NEW d \in Dec, DecTakeAndQueueInput(d)
  PROVE  DecoderInv'
<1> dec \in Decoders /\ AccountedD(dec[d]) BY DEF DecoderInv
<1> DEFINE i == dec[d].inputIndex
           queue == dec[d].mQueue
           owners == [dec[d].inBuf EXCEPT ![i] = "codec"]
           submissions == Append(dec[d].pending, <<i, Head(queue)>>)
<1>1. i \in InputIndexD /\ dec[d].pc = "take"
  BY DEF AccountedD, HoldsInputD, DecTakeAndQueueInput
<1>2. queue \in Seq(NalUnits) /\ queue # <<>>
  BY DEF Decoders, Decoder, Packets, DecTakeAndQueueInput
<1>3. Tail(queue) \in Packets /\ Head(queue) \in NalUnits
  BY <1>2, HeadTailProperties DEF Packets
<1>4. owners \in InputOwnersD
  BY DEF Decoders, Decoder, InputOwnersD
<1>5. \A j \in InputIndexD : owners[j] = IF j = i THEN "codec" ELSE dec[d].inBuf[j]
  BY DEF InputOwnersD, Decoders, Decoder
<1>6. submissions \in DecSubmissions
  BY <1>1, <1>3 DEF Decoders, Decoder, DecSubmissions
<1>7. dec' = [dec EXCEPT ![d].pc = "drain", ![d].mQueue = Tail(queue), ![d].inBuf = owners,
                         ![d].pending = submissions, ![d].inputIndex = NoIndex]
  BY DEF DecTakeAndQueueInput, Decoders
<1> HIDE DEF owners, submissions, queue
<1>8. dec' \in Decoders
  BY <1>3, <1>4, <1>6, <1>7, IndexValues, DecPcValues,
     WriteD_pc, WriteD_mQueue, WriteD_inBuf, WriteD_pending, WriteD_inputIndex
<1>9. /\ dec'[d].pc = "drain" /\ dec'[d].inBuf = owners
      /\ dec'[d].outBuf = dec[d].outBuf /\ dec'[d].output = dec[d].output
      /\ \A u \in Dec : u # d => dec'[u] = dec[u]
  BY <1>7 DEF Decoders, Decoder
<1>10. AccountedD(dec'[d])
  BY <1>1, <1>5, <1>9 DEF AccountedD, HoldsInputD, HeldIsFilled, KeptIsZero
<1> QED BY <1>8, <1>9, <1>10, OneDecoder

LEMMA DecDequeueOutputKeepsInv ==
  ASSUME DecoderInv, NEW d \in Dec, DecDequeueOutputBuffer(d)
  PROVE  DecoderInv'
<1> dec \in Decoders /\ AccountedD(dec[d]) BY DEF DecoderInv
<1> DEFINE i == Head(dec[d].output)[1]
           v == IF Renders(i) THEN "free" ELSE "client"
           owners == [dec[d].outBuf EXCEPT ![i] = v]
           picture == IF Renders(i) THEN Head(dec[d].output)[2] ELSE dec[d].shown
           next == IF dec[d].isExit THEN "loop" ELSE dec[d].pc
<1>1. dec[d].output \in Seq(OutputIndex \X AnyPicture) /\ dec[d].output # <<>>
  BY DEF Decoders, Decoder, Outputs, DecDequeueOutputBuffer
<1>2. /\ Head(dec[d].output) \in OutputIndex \X AnyPicture /\ Tail(dec[d].output) \in Outputs
      /\ Head(dec[d].output) = dec[d].output[1]
  BY <1>1, HeadTailProperties DEF Outputs
<1>3. i \in OutputIndex /\ picture \in AnyPicture /\ owners \in OutputOwners
  BY <1>2 DEF OutputOwners, Decoders, Decoder
<1>4. next \in DecPc /\ next # "take" /\ dec[d].pc = "drain"
  BY DEF DecPc, DecDequeueOutputBuffer
<1>5. dec' = [dec EXCEPT ![d].pc = next, ![d].output = Tail(dec[d].output),
                         ![d].outBuf = owners, ![d].shown = picture]
  BY DEF DecDequeueOutputBuffer, Decoders
<1>6. CodecOwns(OutputIndex, owners, Tail(dec[d].output))
  <2>1. v # "codec" OBVIOUS
  <2>2. CodecOwns(OutputIndex, dec[d].outBuf, dec[d].output) BY DEF AccountedD
  <2>3. dec[d].outBuf \in [OutputIndex -> {"free", "codec", "client"}]
    BY DEF Decoders, Decoder, OutputOwners
  <2> HIDE DEF v
  <2>4. CodecOwns(OutputIndex, [dec[d].outBuf EXCEPT ![dec[d].output[1][1]] = v],
                  Tail(dec[d].output))
    BY <1>1, <2>1, <2>2, <2>3, TailOwned
  <2> QED BY <1>2, <2>4
<1>7. \A o \in OutputIndex : owners[o] = "client" => o = 0
  <2>1. \A o \in OutputIndex : owners[o] = IF o = i THEN v ELSE dec[d].outBuf[o]
    BY DEF Decoders, Decoder, OutputOwners
  <2>2. i \in Nat /\ (v = "client" => i = 0)
    BY <1>3, DecBuffersAssumption DEF OutputIndex, Renders
  <2> QED BY <2>1, <2>2 DEF AccountedD, KeptIsZero
<1> HIDE DEF i, v, owners, picture, next
<1>8. dec' \in Decoders
  BY <1>2, <1>3, <1>4, <1>5, WriteD_pc, WriteD_output, WriteD_outBuf, WriteD_shown
<1>9. /\ dec'[d].pc = next /\ dec'[d].inBuf = dec[d].inBuf
      /\ dec'[d].outBuf = owners /\ dec'[d].output = Tail(dec[d].output)
      /\ \A u \in Dec : u # d => dec'[u] = dec[u]
  BY <1>5 DEF Decoders, Decoder
<1>10. AccountedD(dec'[d])
  BY <1>4, <1>6, <1>7, <1>9 DEF AccountedD, HoldsInputD, HeldIsFilled, KeptIsZero
<1> QED BY <1>8, <1>9, <1>10, OneDecoder

LEMMA CodecDecodesKeepsInv ==
  ASSUME DecoderInv, NEW d \in Dec, CodecDecodes(d)
  PROVE  DecoderInv'
<1> dec \in Decoders /\ AccountedD(dec[d]) BY DEF DecoderInv
<1> DEFINE i == Head(dec[d].pending)[1]
           p == Head(dec[d].pending)[2]
           able == dec[d].canDecode \/ IsConfig(p)
           owners == [dec[d].inBuf EXCEPT ![i] = "free"]
           consumed == [dec EXCEPT ![d].pending = Tail(dec[d].pending), ![d].inBuf = owners,
                                   ![d].canDecode = able]
<1>1. dec[d].pending \in Seq(InputIndexD \X NalUnits) /\ dec[d].pending # <<>>
  BY DEF Decoders, Decoder, DecSubmissions, CodecDecodes
<1>2. /\ Head(dec[d].pending) \in InputIndexD \X NalUnits
      /\ Tail(dec[d].pending) \in DecSubmissions
  BY <1>1, HeadTailProperties DEF DecSubmissions
<1>3. i \in InputIndexD /\ p \in NalUnits /\ owners \in InputOwnersD
  BY <1>2 DEF InputOwnersD, Decoders, Decoder
<1>4. able \in BOOLEAN
  BY DEF Decoders, Decoder, IsConfig
<1>5. \A j \in InputIndexD : owners[j] = IF j = i THEN "free" ELSE dec[d].inBuf[j]
  BY DEF InputOwnersD, Decoders, Decoder
<1>6. FrameOf(p) \in AnyPicture
  BY <1>3 DEF AnyPicture
<1>7. \/ dec' = consumed
      \/ \E o \in OutputIndex :
           /\ dec[d].outBuf[o] = "free"
           /\ dec' = [consumed EXCEPT ![d].outBuf[o] = "codec",
                                      ![d].output = Append(@, <<o, FrameOf(p)>>)]
  <2>1. consumed = [dec EXCEPT ![d].pending = Tail(@), ![d].inBuf[i] = "free",
                               ![d].canDecode = able]
    BY DEF Decoders
  <2> HIDE DEF consumed
  <2> QED BY <2>1, Zenon DEF CodecDecodes
<1> HIDE DEF able, owners
<1>8. consumed \in Decoders
  BY <1>2, <1>3, <1>4, WriteD_pending, WriteD_inBuf, WriteD_canDecode
<1>9. /\ consumed[d].inBuf = owners /\ consumed[d].pc = dec[d].pc
      /\ consumed[d].inputIndex = dec[d].inputIndex
      /\ consumed[d].outBuf = dec[d].outBuf /\ consumed[d].output = dec[d].output
      /\ \A u \in Dec : u # d => consumed[u] = dec[u]
  BY DEF Decoders, Decoder
<1> HIDE DEF consumed
<1>10. PICK e \in Decoders : e = consumed
  BY <1>8
<1>11. AccountedD(e[d])
  <2>1. /\ e[d].inBuf = owners /\ e[d].pc = dec[d].pc /\ e[d].inputIndex = dec[d].inputIndex
        /\ e[d].outBuf = dec[d].outBuf /\ e[d].output = dec[d].output
    BY <1>9, <1>10
  <2> QED BY <1>5, <2>1 DEF AccountedD, HoldsInputD, HeldIsFilled, KeptIsZero
<1>12. CASE dec' = consumed
  BY <1>9, <1>10, <1>11, <1>12, OneDecoder
<1>13. CASE \E o \in OutputIndex :
              /\ dec[d].outBuf[o] = "free"
              /\ dec' = [consumed EXCEPT ![d].outBuf[o] = "codec",
                                         ![d].output = Append(@, <<o, FrameOf(p)>>)]
  <2>1. PICK o \in OutputIndex :
              /\ dec[d].outBuf[o] = "free"
              /\ dec' = [consumed EXCEPT ![d].outBuf[o] = "codec",
                                         ![d].output = Append(@, <<o, FrameOf(p)>>)]
    BY <1>13
  <2> DEFINE held == [e[d].outBuf EXCEPT ![o] = "codec"]
             shots == Append(e[d].output, <<o, FrameOf(p)>>)
  <2>2. dec' = [e EXCEPT ![d].outBuf = held, ![d].output = shots]
    BY <1>10, <2>1 DEF Decoders
  <2>3. held \in OutputOwners /\ shots \in Outputs
    BY <1>6 DEF OutputOwners, Outputs, Decoders, Decoder
  <2>4. CodecOwns(OutputIndex, held, shots)
    <3>1. e[d].outBuf[o] # "codec" BY <1>9, <1>10, <2>1
    <3>2. /\ e[d].outBuf \in [OutputIndex -> {"free", "codec", "client"}]
          /\ e[d].output \in Seq(OutputIndex \X AnyPicture)
      BY DEF OutputOwners, Outputs, Decoders, Decoder
    <3> QED BY <1>6, <1>11, <3>1, <3>2, AppendOwned DEF AccountedD
  <2>5. KeptIsZero(e[d]) /\ \A k \in OutputIndex : held[k] = "client" => e[d].outBuf[k] = "client"
    BY <1>11 DEF AccountedD, OutputOwners, Decoders, Decoder
  <2> HIDE DEF held, shots
  <2>6. dec' \in Decoders
    BY <2>2, <2>3, WriteD_outBuf, WriteD_output
  <2>7. /\ dec'[d].pc = e[d].pc /\ dec'[d].inBuf = e[d].inBuf
        /\ dec'[d].inputIndex = e[d].inputIndex
        /\ dec'[d].outBuf = held /\ dec'[d].output = shots
        /\ \A u \in Dec : u # d => dec'[u] = e[u]
    BY <2>2 DEF Decoders, Decoder
  <2>8. AccountedD(dec'[d])
    BY <1>11, <2>4, <2>5, <2>7 DEF AccountedD, HoldsInputD, HeldIsFilled, KeptIsZero
  <2> QED BY <1>9, <1>10, <2>6, <2>7, <2>8, OneDecoder
<1> QED BY <1>7, <1>12, <1>13, Zenon

LEMMA DecoderRunsKeepsInv ==
  ASSUME DecoderInv, NEW d \in Dec, DecoderRuns(d)
  PROVE  DecoderInv'
BY DecControlKeepsInv, DecDequeueInputKeepsInv, DecTakeKeepsInv, DecDequeueOutputKeepsInv,
   CodecDecodesKeepsInv DEF DecoderRuns, DecRun

\* The decoder thread the activity refers to.
RefersInv ==
  /\ mDecodeThread \in Dec \cup {null}
  /\ main \in {"decExited", "decCleared"} => mDecodeThread \in Dec

LEMMA DecoderSideKeepsInv ==
  ASSUME PipelineInv, DecoderInv, RefersInv, [Next]_vars
  PROVE  DecoderInv' /\ RefersInv'
<1>1. ASSUME UNCHANGED dec PROVE DecoderInv' BY <1>1 DEF DecoderInv
<1>2. CASE UNCHANGED vars BY <1>1, <1>2 DEF vars, RefersInv
<1>3. ConfigPacket \in NalUnits BY DEF ConfigPacket, Unit, NalUnits, NalUnit
<1>4. ASSUME (\E d \in Dec : dec[d].pc = "absent") /\ Surface2Created(FreshDecoder)
      PROVE  DecoderInv' /\ RefersInv'
  <2>1. FreshDecoder \in Dec /\ DecStart(FreshDecoder) BY <1>4 DEF FreshDecoder, Surface2Created
  <2>2. DecoderInv' BY <1>3, <2>1, DecCallsKeepInv
  <2>3. mDecodeThread' = FreshDecoder BY <1>4 DEF Surface2Created
  <2> QED BY <2>1, <2>2, <2>3 DEF RefersInv
<1>5. CASE Surface2DestroyedExits
  <2>1. mDecodeThread \in Dec /\ DecExit(mDecodeThread) /\ UNCHANGED mDecodeThread
    BY <1>5 DEF Surface2DestroyedExits, RefersInv
  <2>2. DecoderInv' BY <1>3, <2>1, DecCallsKeepInv
  <2> QED BY <2>1, <2>2 DEF RefersInv
<1>6. CASE Surface2DestroyedClears
  <2>1. mDecodeThread \in Dec /\ ClearRenderSurface(mDecodeThread) /\ UNCHANGED mDecodeThread
    BY <1>6 DEF Surface2DestroyedClears, RefersInv
  <2>2. DecoderInv' BY <1>3, <2>1, DecCallsKeepInv
  <2> QED BY <2>1, <2>2 DEF RefersInv
<1>7. CASE Surface2DestroyedForgets
  BY <1>1, <1>7 DEF Surface2DestroyedForgets, RefersInv
<1>8. ASSUME NEW t \in Enc, OnEncodeResultPuts(t)
      PROVE  DecoderInv' /\ RefersInv'
  <2>1. enc[t].outData \in NalUnits BY DEF PipelineInv, BufferInv, EncTypeOK, EncState
  <2>2. callback[t] \in Dec /\ SetDecodeData(callback[t], enc[t].outData) /\ UNCHANGED mainVars
    BY <1>8 DEF OnEncodeResultPuts
  <2>3. DecoderInv' BY <2>1, <2>2, DecCallsKeepInv
  <2> QED BY <2>2, <2>3 DEF RefersInv, mainVars
<1>9. ASSUME NEW d \in Dec, DecoderRuns(d)
      PROVE  DecoderInv' /\ RefersInv'
  BY <1>9, DecoderRunsKeepsInv DEF DecoderRuns, mainVars, RefersInv
<1>10. ASSUME \/ \E t \in Enc : SurfaceCreated(t)
              \/ SurfaceDestroyedExits \/ SurfaceDestroyedClears \/ OnPreviewFrame
              \/ \E t \in Enc : MainPuts(t) \/ EncoderRuns(t) \/ OnEncodeResultTests(t)
                                  \/ OnEncodeResultUses(t)
       PROVE  DecoderInv' /\ RefersInv'
  <2>1. UNCHANGED dec /\ UNCHANGED mDecodeThread /\ (main' = main \/ main' \in {"encExited", "idle"})
    BY <1>10 DEF SurfaceCreated, SurfaceDestroyedExits, SurfaceDestroyedClears, OnPreviewFrame,
       MainPuts, EncoderRuns, OnEncodeResultTests, OnEncodeResultUses, mainVars
  <2> QED BY <1>1, <2>1 DEF RefersInv
<1>11. CASE Next
  <2>1. CASE SurfaceCallback
    <3>1. (\E t \in Enc : enc[t].pc = "absent") => FreshEncoder \in Enc BY DEF FreshEncoder
    <3> QED BY <1>4, <1>5, <1>10, <2>1, <3>1, Zenon DEF SurfaceCallback
  <2>2. CASE MainFinishesCallback
    BY <1>6, <1>7, <1>10, <2>2, Zenon DEF MainFinishesCallback
  <2>3. CASE OnPreviewFrame BY <1>10, <2>3, Zenon
  <2>4. ASSUME NEW t \in Enc, MainPuts(t) \/ EncoderRuns(t) \/ OnEncodeResult(t)
        PROVE  DecoderInv' /\ RefersInv'
    BY <1>8, <1>10, <2>4, Zenon DEF OnEncodeResult
  <2> QED BY <1>9, <1>11, <2>1, <2>2, <2>3, <2>4, Zenon DEF Next
<1> QED BY <1>2, <1>11

\* The decoder threads keep no output buffer but buffer 0 (H264DecodeThread.java:74), never
\* hold two input buffers, and own or submit each buffer once, whatever packets arrive, from
\* however many encoder threads.
THEOREM DecoderBuffersAccounted == Spec => []BufferAccounting
<1>1. Init => PipelineInv /\ DecoderInv /\ RefersInv
  BY ActivityAtInit, TypeInit, AccountedAtInit, DecoderAtInit
     DEF Init, PipelineInv, BufferInv, RefersInv
<1>2. PipelineInv /\ DecoderInv /\ RefersInv /\ [Next]_vars
        => PipelineInv' /\ DecoderInv' /\ RefersInv'
  BY PipelineStep, BufferInvStep, DecoderSideKeepsInv DEF PipelineInv
<1>3. DecoderInv => BufferAccounting BY AccountedDMeansAccounting DEF DecoderInv
<1> QED BY <1>1, <1>2, <1>3, PTL DEF Spec

-----------------------------------------------------------------------------
\* Exceptions.  A field is read as null only by a thread whose object the main thread
\* no longer refers to, or has just cleared the field of.
ClearedIsAbandoned ==
  /\ \A t \in Enc : enc[t].pc # "absent" /\ ~enc[t].mListener => AbandonedEncoder(t)
  /\ \A d \in Dec : dec[d].pc # "absent" /\ ~dec[d].mSurface =>
                      AbandonedDecoder(d) \/ main = "decCleared"
UserSawDecoder ==
  \A t \in Enc : callback[t] = "use" => \E d \in Dec : dec[d].pc # "absent"

TeardownInv ==
  /\ mDecodeThread # null => dec[mDecodeThread].pc # "absent"
  /\ ClearedIsAbandoned
  /\ UserSawDecoder
  /\ CrashNeedsTeardown

\* What a step of an encoder thread on its own has to do with its listener.
LEMMA OwnStepListener ==
  ASSUME enc \in Objects, NEW t \in Enc,
         EncRun(t) \/ EncCodec(t) \/ CallbackReturns(t)
  PROVE  /\ enc'[t].mListener = enc[t].mListener
         /\ enc'[t].pc = "npe" /\ enc[t].pc # "npe" => ~enc[t].mListener
         /\ enc'[t].pc = "callback" /\ enc[t].pc # "callback" => enc[t].mListener
<1> USE DEF Objects, EncState
<1>1. CASE InitEncodeCodec(t) BY <1>1 DEF InitEncodeCodec
<1>2. CASE DequeueInputBuffer(t)
  <2>1. \/ enc' = [enc EXCEPT ![t].pc = "drain"]
        \/ \E i \in InputIndex :
             enc' = [enc EXCEPT ![t].pc = "drain", ![t].inBuf[i] = "client"]
        \/ \E i \in InputIndex :
             enc' = [enc EXCEPT ![t].pc = "take", ![t].inputIndex = i,
                                ![t].inBuf[i] = "client"]
    BY <1>2, Zenon DEF DequeueInputBuffer
  <2>2. CASE enc' = [enc EXCEPT ![t].pc = "drain"] BY <2>2
  <2>3. CASE \E i \in InputIndex :
               enc' = [enc EXCEPT ![t].pc = "drain", ![t].inBuf[i] = "client"]
    BY <2>3
  <2>4. CASE \E i \in InputIndex :
               enc' = [enc EXCEPT ![t].pc = "take", ![t].inputIndex = i,
                                  ![t].inBuf[i] = "client"]
    <3>1. PICK i \in InputIndex :
            enc' = [enc EXCEPT ![t].pc = "take", ![t].inputIndex = i, ![t].inBuf[i] = "client"]
      BY <2>4
    <3>2. enc'[t].mListener = enc[t].mListener /\ enc'[t].pc = "take" BY <3>1
    <3> QED BY <3>2
  <2> QED BY <2>1, <2>2, <2>3, <2>4, Zenon
<1>3. CASE TakeAndQueueInput(t) BY <1>3 DEF TakeAndQueueInput
<1>4. CASE DrainEnds(t) BY <1>4 DEF DrainEnds
<1>5. CASE DequeueOutputBuffer(t)
  <2> DEFINE packet == Head(enc[t].output)
             dequeued == [enc EXCEPT ![t].pc = "call",
                                     ![t].output = Tail(@),
                                     ![t].ppsSps = IF IsConfig(packet) THEN packet ELSE @,
                                     ![t].outData = OutData(t, packet)]
  <2>1. enc' = IF enc[t].mListener THEN dequeued ELSE AfterOutput(t, dequeued)
    BY <1>5, Zenon DEF DequeueOutputBuffer
  <2>2. /\ dequeued[t].mListener = enc[t].mListener
        /\ dequeued[t].pc = "call" /\ DOMAIN dequeued = Enc
        /\ DOMAIN dequeued[t] = DOMAIN enc[t]
    OBVIOUS
  <2>3. PICK e : e = dequeued
    OBVIOUS
  <2> HIDE DEF dequeued
  <2>4. /\ AfterOutput(t, e)[t].mListener = e[t].mListener
        /\ AfterOutput(t, e)[t].pc \in {"loop", "drain"}
    BY <2>2, <2>3 DEF AfterOutput
  <2> QED
    BY <2>1, <2>2, <2>3, <2>4
<1>6. CASE CallListener(t) BY <1>6 DEF CallListener
<1>7. CASE ReleaseEncodeCodec(t) BY <1>7 DEF ReleaseEncodeCodec
<1>8. CASE CodecConfigures(t) BY <1>8 DEF CodecConfigures
<1>9. CASE CodecEncodes(t) BY <1>9 DEF CodecEncodes
<1>10. CASE CallbackReturns(t) BY <1>10 DEF CallbackReturns, AfterOutput
<1> QED
  BY <1>1, <1>2, <1>3, <1>4, <1>5, <1>6, <1>7, <1>8, <1>9, <1>10 DEF EncRun, EncCodec

LEMMA DecoderStepCrash ==
  ASSUME dec \in Decoders, NEW d \in Dec, DecRun(d) \/ CodecDecodes(d)
  PROVE  /\ dec'[d].mSurface = dec[d].mSurface
         /\ dec'[d].pc = "absent" <=> dec[d].pc = "absent"
         /\ dec'[d].pc = "ise" /\ dec[d].pc # "ise" => ~dec[d].mSurface
         /\ \A u \in Dec : u # d => dec'[u] = dec[u]
<1> USE DEF Decoders, Decoder
<1>1. CASE InitDecodeCodec(d) BY <1>1 DEF InitDecodeCodec
<1>2. CASE DecDequeueInputBuffer(d)
  <2>1. CASE \E i \in InputIndexD :
               dec' = [dec EXCEPT ![d].pc = "take", ![d].inputIndex = i,
                                  ![d].inBuf[i] = "client"]
    <3>1. PICK i \in InputIndexD :
            dec' = [dec EXCEPT ![d].pc = "take", ![d].inputIndex = i, ![d].inBuf[i] = "client"]
      BY <2>1
    <3>2. /\ dec'[d].mSurface = dec[d].mSurface /\ dec'[d].pc = "take"
          /\ \A u \in Dec : u # d => dec'[u] = dec[u]
      BY <3>1
    <3>3. dec[d].pc = "loop" BY <1>2 DEF DecDequeueInputBuffer
    <3> QED BY <3>2, <3>3
  <2>2. CASE dec[d].pc = "loop" /\ dec' = [dec EXCEPT ![d].pc = "drain"] BY <2>2
  <2> QED BY <1>2, <2>1, <2>2, Zenon DEF DecDequeueInputBuffer
<1>3. CASE DecTakeAndQueueInput(d) BY <1>3 DEF DecTakeAndQueueInput
<1>4. CASE DecDequeueOutputBuffer(d) BY <1>4 DEF DecDequeueOutputBuffer
<1>5. CASE DecDrainEnds(d) BY <1>5 DEF DecDrainEnds
<1>6. CASE DecReturns(d) BY <1>6 DEF DecReturns
<1>7. CASE CodecDecodes(d)
  <2> DEFINE p == Head(dec[d].pending)[2]
             consumed == [dec EXCEPT ![d].pending = Tail(@),
                                     ![d].inBuf[Head(dec[d].pending)[1]] = "free",
                                     ![d].canDecode = dec[d].canDecode \/ IsConfig(p)]
  <2>1. \/ dec' = consumed
        \/ \E o \in OutputIndex :
             dec' = [consumed EXCEPT ![d].outBuf[o] = "codec",
                                     ![d].output = Append(@, <<o, FrameOf(p)>>)]
    BY <1>7, Zenon DEF CodecDecodes
  <2>2. /\ consumed[d].mSurface = dec[d].mSurface /\ consumed[d].pc = dec[d].pc
        /\ DOMAIN consumed = Dec /\ DOMAIN consumed[d] = DOMAIN dec[d]
        /\ \A u \in Dec : u # d => consumed[u] = dec[u]
    OBVIOUS
  <2>3. PICK e : e = consumed OBVIOUS
  <2> HIDE DEF consumed
  <2>4. ASSUME NEW o \in OutputIndex,
               dec' = [e EXCEPT ![d].outBuf[o] = "codec",
                                ![d].output = Append(@, <<o, FrameOf(p)>>)]
        PROVE  /\ dec'[d].mSurface = e[d].mSurface /\ dec'[d].pc = e[d].pc
               /\ \A u \in Dec : u # d => dec'[u] = e[u]
    BY <2>2, <2>3, <2>4
  <2>5. CASE dec' = consumed BY <2>2, <2>5
  <2>6. CASE \E o \in OutputIndex :
               dec' = [consumed EXCEPT ![d].outBuf[o] = "codec",
                                       ![d].output = Append(@, <<o, FrameOf(p)>>)]
    <3>1. /\ dec'[d].mSurface = e[d].mSurface /\ dec'[d].pc = e[d].pc
          /\ \A u \in Dec : u # d => dec'[u] = e[u]
      BY <2>3, <2>4, <2>6
    <3> QED BY <2>2, <2>3, <3>1
  <2> QED BY <2>1, <2>5, <2>6
<1> QED BY <1>1, <1>2, <1>3, <1>4, <1>5, <1>6, <1>7 DEF DecRun

\* What TeardownInv reads of a thread object.
SameEncoder(t) ==
  /\ enc'[t].mListener = enc[t].mListener
  /\ enc'[t].pc = "absent" <=> enc[t].pc = "absent"
SameDecoder(d) ==
  /\ dec'[d].mSurface = dec[d].mSurface
  /\ dec'[d].pc = "absent" <=> dec[d].pc = "absent"

\* A step of one thread on its own: if it ends the process, the thread's field was null.
LEMMA ThreadStepKeepsTeardown ==
  ASSUME TeardownInv, ~AppDead, UNCHANGED mainVars, UserSawDecoder',
         \A t \in Enc : SameEncoder(t), \A d \in Dec : SameDecoder(d),
         \A t \in Enc : enc'[t].pc = "npe" =>
            \/ enc[t].pc # "absent" /\ ~enc[t].mListener
            \/ \E d \in Dec : dec[d].pc # "absent" /\ d # mDecodeThread,
         \A d \in Dec : dec'[d].pc = "ise" => dec[d].pc # "absent" /\ ~dec[d].mSurface,
         mDecodeThread \in Dec \cup {null}
  PROVE  TeardownInv'
<1>1. /\ mDecodeThread' = mDecodeThread /\ mEncodeThread' = mEncodeThread /\ main' = main
  BY DEF mainVars
<1>2. ClearedIsAbandoned'
  BY <1>1 DEF TeardownInv, ClearedIsAbandoned, SameEncoder, SameDecoder, AbandonedEncoder,
              AbandonedDecoder
<1>3. CrashNeedsTeardown'
  <2>1. SUFFICES ASSUME EncCrashed' \/ DecCrashed'
                 PROVE  \/ main # "idle"
                        \/ \E t \in Enc : AbandonedEncoder(t)
                        \/ \E d \in Dec : AbandonedDecoder(d)
    <3>1. \A t \in Enc : AbandonedEncoder(t) => AbandonedEncoder(t)'
      BY <1>1 DEF SameEncoder, AbandonedEncoder
    <3>2. \A d \in Dec : AbandonedDecoder(d) => AbandonedDecoder(d)'
      BY <1>1 DEF SameDecoder, AbandonedDecoder
    <3> QED BY <1>1, <3>1, <3>2 DEF CrashNeedsTeardown, AppDead
  <2>2. CASE EncCrashed'
    <3>1. PICK t \in Enc : enc'[t].pc = "npe" BY <2>2 DEF EncCrashed
    <3> QED BY <3>1 DEF TeardownInv, ClearedIsAbandoned, AbandonedDecoder
  <2>3. CASE DecCrashed'
    <3>1. PICK d \in Dec : dec'[d].pc = "ise" BY <2>3 DEF DecCrashed
    <3>2. main = "decCleared" => main # "idle" OBVIOUS
    <3> QED BY <3>1, <3>2 DEF TeardownInv, ClearedIsAbandoned
  <2> QED BY <2>1, <2>2, <2>3
<1>4. mDecodeThread' # null => dec'[mDecodeThread'].pc # "absent"
  BY <1>1 DEF TeardownInv, SameDecoder
<1> QED BY <1>2, <1>3, <1>4 DEF TeardownInv

\* No step of the main thread ends the process.
LEMMA MainStepKeepsTeardown ==
  ASSUME enc \in Objects, dec \in Decoders, ActivityInv, RefersInv, TeardownInv, ~AppDead,
         \/ \E t \in Enc : SurfaceCreated(t) \/ MainPuts(t)
         \/ \E d \in Dec : Surface2Created(d)
         \/ SurfaceDestroyedExits \/ SurfaceDestroyedClears \/ OnPreviewFrame
         \/ Surface2DestroyedExits \/ Surface2DestroyedClears \/ Surface2DestroyedForgets
  PROVE  TeardownInv'
<1> USE DEF TeardownInv, ClearedIsAbandoned, UserSawDecoder, AbandonedEncoder, AbandonedDecoder
<1>1. ASSUME \A t \in Enc : enc'[t].pc # "npe", \A d \in Dec : dec'[d].pc # "ise"
      PROVE  CrashNeedsTeardown'
  BY <1>1 DEF CrashNeedsTeardown, AppDead, EncCrashed, DecCrashed
<1>2. (\A t \in Enc : enc[t].pc # "npe") /\ (\A d \in Dec : dec[d].pc # "ise")
  BY DEF AppDead, EncCrashed, DecCrashed
<1>3. ASSUME NEW t \in Enc, SurfaceCreated(t) PROVE TeardownInv'
  <2>1. /\ EncStart(t) /\ mEncodeThread' = t
        /\ UNCHANGED <<dec, mDecodeThread, main, callback>>
    BY <1>3 DEF SurfaceCreated
  <2>2. /\ enc'[t].pc = "started" /\ enc'[t].mListener
        /\ \A u \in Enc : u # t => enc'[u] = enc[u]
    BY <2>1 DEF EncStart, Objects, EncState
  <2>3. CrashNeedsTeardown' BY <1>1, <1>2, <2>1, <2>2
  <2> QED BY <2>1, <2>2, <2>3
<1>4. ASSUME NEW d \in Dec, Surface2Created(d) PROVE TeardownInv'
  <2>1. /\ DecStart(d) /\ mDecodeThread' = d /\ mDecodeThread = null
        /\ UNCHANGED <<enc, mEncodeThread, main, callback>>
    BY <1>4 DEF Surface2Created, encVars
  <2>2. /\ dec'[d].pc = "started" /\ dec'[d].mSurface
        /\ \A u \in Dec : u # d => dec'[u] = dec[u]
    BY <2>1 DEF DecStart, Decoders, Decoder
  <2>3. CrashNeedsTeardown' BY <1>1, <1>2, <2>1, <2>2
  <2> QED BY <2>1, <2>2, <2>3
<1>5. ASSUME SurfaceDestroyedExits \/ OnPreviewFrame \/ \E t \in Enc : MainPuts(t)
      PROVE  TeardownInv'
  <2>1. /\ UNCHANGED <<dec, mEncodeThread, mDecodeThread, callback>>
        /\ main' = main \/ (main = "idle" /\ main' = "encExited")
    BY <1>5 DEF SurfaceDestroyedExits, MainFree, OnPreviewFrame, MainPuts, mainVars
  <2>2. \A u \in Enc : enc'[u].pc = enc[u].pc /\ enc'[u].mListener = enc[u].mListener
    <3>1. CASE SurfaceDestroyedExits
      BY <3>1 DEF SurfaceDestroyedExits, EncExit, Objects, EncState
    <3>2. CASE OnPreviewFrame
      BY <3>2 DEF OnPreviewFrame, SetFrameData, Objects, EncState
    <3>3. CASE \E t \in Enc : MainPuts(t)
      <4>1. PICK t \in Enc : EncPut(t) BY <3>3 DEF MainPuts
      <4> QED BY <4>1 DEF EncPut, Objects, EncState
    <3> QED BY <1>5, <3>1, <3>2, <3>3
  <2>3. CrashNeedsTeardown' BY <1>1, <1>2, <2>1, <2>2
  <2> QED BY <2>1, <2>2, <2>3
<1>6. CASE SurfaceDestroyedClears
  <2>1. /\ ClearListener(mEncodeThread) /\ mEncodeThread' = null
        /\ main = "encExited" /\ main' = "idle"
        /\ UNCHANGED <<dec, mDecodeThread, callback>>
    BY <1>6 DEF SurfaceDestroyedClears
  <2>2. \A u \in Enc : enc'[u].pc = enc[u].pc
    BY <2>1 DEF ClearListener, Objects, EncState
  <2>3. CrashNeedsTeardown' BY <1>1, <1>2, <2>1, <2>2
  <2> QED BY <2>1, <2>2, <2>3, NullAssumption
<1>7. CASE Surface2DestroyedExits
  <2>1. /\ DecExit(mDecodeThread) /\ main = "idle" /\ main' = "decExited"
        /\ UNCHANGED <<enc, mEncodeThread, mDecodeThread, callback>>
    BY <1>7 DEF Surface2DestroyedExits, encVars, MainFree
  <2>2. \A d \in Dec : dec'[d].pc = dec[d].pc /\ dec'[d].mSurface = dec[d].mSurface
    BY <2>1 DEF DecExit, Decoders, Decoder
  <2>3. mDecodeThread # null => dec'[mDecodeThread].pc # "absent"
    BY <2>2 DEF RefersInv
  <2>4. CrashNeedsTeardown' BY <1>1, <1>2, <2>1, <2>2
  <2> QED BY <2>1, <2>2, <2>3, <2>4
<1>8. CASE Surface2DestroyedClears
  <2>1. /\ ClearRenderSurface(mDecodeThread) /\ main' = "decCleared"
        /\ UNCHANGED <<enc, mEncodeThread, mDecodeThread, callback>>
    BY <1>8 DEF Surface2DestroyedClears, encVars
  <2>2. \A d \in Dec : dec'[d].pc = dec[d].pc
    BY <2>1 DEF ClearRenderSurface, Decoders, Decoder
  <2>3. mDecodeThread # null => dec'[mDecodeThread].pc # "absent"
    BY <2>2 DEF RefersInv
  <2>4. CrashNeedsTeardown' BY <1>1, <1>2, <2>1, <2>2
  <2> QED BY <2>1, <2>2, <2>3, <2>4
<1>9. CASE Surface2DestroyedForgets
  <2>1. mDecodeThread' = null /\ UNCHANGED <<enc, dec, mEncodeThread, callback>>
    BY <1>9 DEF Surface2DestroyedForgets, encVars
  <2>2. CrashNeedsTeardown' BY <1>1, <1>2, <2>1
  <2> QED BY <2>1, <2>2, NullAssumption
<1> QED BY <1>3, <1>4, <1>5, <1>6, <1>7, <1>8, <1>9

LEMMA EncoderStepKeepsTeardown ==
  ASSUME enc \in Objects, callback \in [Enc -> CallbackPc], RefersInv, TeardownInv, ~AppDead,
         dec \in Decoders, NEW t \in Enc, EncoderRuns(t) \/ OnEncodeResult(t)
  PROVE  TeardownInv'
<1> mDecodeThread \in Dec \cup {null} BY DEF RefersInv
<1> UNCHANGED mainVars
  BY DEF EncoderRuns, OnEncodeResult, OnEncodeResultTests, OnEncodeResultUses, OnEncodeResultPuts
<1>1. (\A u \in Enc : enc[u].pc # "npe") /\ (\A d \in Dec : dec[d].pc # "ise")
  BY DEF AppDead, EncCrashed, DecCrashed
<1>2. ASSUME EncRun(t) \/ EncCodec(t) \/ CallbackReturns(t)
      PROVE  /\ \A u \in Enc : SameEncoder(u)
             /\ \A u \in Enc : enc'[u].pc = "npe" => enc[u].pc # "absent" /\ ~enc[u].mListener
  <2>1. /\ SameEncoder(t) /\ (enc'[t].pc = "npe" => ~enc[t].mListener)
        /\ \A u \in Enc : u # t => enc'[u] = enc[u]
    BY <1>1, <1>2, OwnStep, OwnStepListener DEF SameEncoder
  <2> QED BY <1>1, <2>1 DEF SameEncoder
<1>3. ASSUME UNCHANGED dec PROVE (\A d \in Dec : SameDecoder(d)) /\ \A d \in Dec : dec'[d].pc # "ise"
  BY <1>1, <1>3 DEF SameDecoder
<1>4. CASE EncoderRuns(t)
  <2>1. UNCHANGED <<dec, callback>> /\ (EncRun(t) \/ EncCodec(t)) BY <1>4 DEF EncoderRuns
  <2>2. UserSawDecoder' BY <2>1 DEF TeardownInv, UserSawDecoder
  <2> QED BY <1>2, <1>3, <2>1, <2>2, ThreadStepKeepsTeardown
<1>5. CASE OnEncodeResultTests(t)
  <2>1. UNCHANGED dec BY <1>5 DEF OnEncodeResultTests
  <2>2. CASE mDecodeThread # null
    <3>1. callback' = [callback EXCEPT ![t] = "use"] /\ UNCHANGED enc
      BY <1>5, <2>2 DEF OnEncodeResultTests
    <3>2. UserSawDecoder' BY <2>1, <2>2, <3>1 DEF TeardownInv, UserSawDecoder
    <3>3. (\A u \in Enc : SameEncoder(u)) /\ \A u \in Enc : enc'[u].pc # "npe"
      BY <1>1, <3>1 DEF SameEncoder
    <3> QED BY <1>3, <2>1, <3>2, <3>3, ThreadStepKeepsTeardown
  <2>3. CASE mDecodeThread = null
    <3>1. CallbackReturns(t) /\ UNCHANGED callback BY <1>5, <2>3 DEF OnEncodeResultTests
    <3>2. UserSawDecoder' BY <2>1, <3>1 DEF TeardownInv, UserSawDecoder
    <3> QED BY <1>2, <1>3, <2>1, <3>1, <3>2, ThreadStepKeepsTeardown
  <2> QED BY <2>2, <2>3
<1>6. CASE OnEncodeResultUses(t)
  <2>1. UNCHANGED dec /\ callback[t] = "use" /\ enc[t].pc = "callback"
    BY <1>6 DEF OnEncodeResultUses
  <2>2. CASE mDecodeThread # null
    <3>1. callback' = [callback EXCEPT ![t] = mDecodeThread] /\ UNCHANGED enc
      BY <1>6, <2>2 DEF OnEncodeResultUses
    <3>2. UserSawDecoder' BY <2>1, <3>1 DEF TeardownInv, UserSawDecoder
    <3>3. (\A u \in Enc : SameEncoder(u)) /\ \A u \in Enc : enc'[u].pc # "npe"
      BY <1>1, <3>1 DEF SameEncoder
    <3> QED BY <1>3, <2>1, <3>2, <3>3, ThreadStepKeepsTeardown
  <2>3. CASE mDecodeThread = null
    <3>1. CallbackThrows(t) /\ UNCHANGED callback BY <1>6, <2>3 DEF OnEncodeResultUses
    <3>2. UserSawDecoder' BY <2>1, <3>1 DEF TeardownInv, UserSawDecoder
    <3>3. \A u \in Enc : SameEncoder(u)
      BY <2>1, <3>1 DEF CallbackThrows, SameEncoder, Objects, EncState
    <3>4. \E d \in Dec : dec[d].pc # "absent" /\ d # mDecodeThread
      BY <2>1, <2>3, NullAssumption DEF TeardownInv, UserSawDecoder
    <3> QED BY <1>3, <2>1, <3>2, <3>3, <3>4, ThreadStepKeepsTeardown
  <2> QED BY <2>2, <2>3
<1>7. CASE OnEncodeResultPuts(t)
  <2>1. /\ CallbackReturns(t) /\ SetDecodeData(callback[t], enc[t].outData)
        /\ callback[t] \in Dec /\ callback' = [callback EXCEPT ![t] = "test"]
    BY <1>7 DEF OnEncodeResultPuts
  <2>2. \A d \in Dec : dec'[d].pc = dec[d].pc /\ dec'[d].mSurface = dec[d].mSurface
    BY <2>1 DEF SetDecodeData, Decoders, Decoder
  <2>3. UserSawDecoder' BY <2>1, <2>2 DEF TeardownInv, UserSawDecoder
  <2>4. (\A d \in Dec : SameDecoder(d)) /\ \A d \in Dec : dec'[d].pc # "ise"
    BY <1>1, <2>2 DEF SameDecoder
  <2> QED BY <1>2, <2>1, <2>3, <2>4, ThreadStepKeepsTeardown
<1> QED BY <1>4, <1>5, <1>6, <1>7 DEF OnEncodeResult

LEMMA DecoderStepKeepsTeardown ==
  ASSUME dec \in Decoders, RefersInv, TeardownInv, ~AppDead, NEW d \in Dec, DecoderRuns(d)
  PROVE  TeardownInv'
<1>1. (\A u \in Enc : enc[u].pc # "npe") /\ (\A u \in Dec : dec[u].pc # "ise")
  BY DEF AppDead, EncCrashed, DecCrashed
<1>2. UNCHANGED <<enc, mainVars, callback>> /\ (DecRun(d) \/ CodecDecodes(d))
  BY DEF DecoderRuns, encVars
<1>3. /\ SameDecoder(d) /\ (dec'[d].pc = "ise" => ~dec[d].mSurface)
      /\ \A u \in Dec : u # d => dec'[u] = dec[u]
  BY <1>1, <1>2, DecoderStepCrash DEF SameDecoder
<1>4. /\ \A u \in Dec : SameDecoder(u)
      /\ \A u \in Dec : dec'[u].pc = "ise" => dec[u].pc # "absent" /\ ~dec[u].mSurface
  BY <1>1, <1>3 DEF SameDecoder
<1>5. (\A u \in Enc : SameEncoder(u)) /\ \A u \in Enc : enc'[u].pc # "npe"
  BY <1>1, <1>2 DEF SameEncoder
<1>6. UserSawDecoder'
  BY <1>2, <1>4 DEF TeardownInv, UserSawDecoder, SameDecoder
<1>7. mDecodeThread \in Dec \cup {null} BY DEF RefersInv
<1> QED BY <1>2, <1>4, <1>5, <1>6, <1>7, ThreadStepKeepsTeardown

CrashInv ==
  /\ PipelineInv /\ DecoderInv /\ RefersInv
  /\ callback \in [Enc -> CallbackPc]
  /\ TeardownInv

LEMMA CallbackKept ==
  ASSUME callback \in [Enc -> CallbackPc], RefersInv, [Next]_vars
  PROVE  callback' \in [Enc -> CallbackPc]
<1>1. ASSUME NEW t \in Enc, OnEncodeResult(t) PROVE callback' \in [Enc -> CallbackPc]
  BY <1>1 DEF OnEncodeResult, OnEncodeResultTests, OnEncodeResultUses, OnEncodeResultPuts,
              CallbackPc, RefersInv
<1>2. CASE UNCHANGED callback BY <1>2
<1>3. (\E t \in Enc : OnEncodeResult(t)) \/ UNCHANGED callback
  BY DEF vars, Next, SurfaceCallback, SurfaceCreated, Surface2Created, SurfaceDestroyedExits,
         Surface2DestroyedExits, MainFinishesCallback, SurfaceDestroyedClears,
         Surface2DestroyedClears, Surface2DestroyedForgets, OnPreviewFrame, MainPuts,
         EncoderRuns, DecoderRuns
<1> QED BY <1>1, <1>2, <1>3

LEMMA TeardownStep ==
  ASSUME PipelineInv, DecoderInv, RefersInv, callback \in [Enc -> CallbackPc], TeardownInv,
         [Next]_vars
  PROVE  TeardownInv'
<1> enc \in Objects /\ ActivityInv /\ dec \in Decoders
  BY DEF PipelineInv, BufferInv, EncTypeOK, Objects, DecoderInv
<1>1. CASE UNCHANGED vars
  BY <1>1 DEF vars, TeardownInv, ClearedIsAbandoned, UserSawDecoder, CrashNeedsTeardown,
              AbandonedEncoder, AbandonedDecoder, AppDead, EncCrashed, DecCrashed
<1>2. CASE Next
  <2>1. ~AppDead BY <1>2 DEF Next
  <2>2. CASE SurfaceCallback
    <3>1. (\E t \in Enc : enc[t].pc = "absent") => FreshEncoder \in Enc BY DEF FreshEncoder
    <3>2. (\E d \in Dec : dec[d].pc = "absent") => FreshDecoder \in Dec BY DEF FreshDecoder
    <3> QED BY <2>1, <2>2, <3>1, <3>2, MainStepKeepsTeardown, Zenon DEF SurfaceCallback
  <2>3. CASE MainFinishesCallback
    BY <2>1, <2>3, MainStepKeepsTeardown, Zenon DEF MainFinishesCallback
  <2>4. CASE OnPreviewFrame BY <2>1, <2>4, MainStepKeepsTeardown, Zenon
  <2>5. CASE \E t \in Enc : MainPuts(t) \/ EncoderRuns(t) \/ OnEncodeResult(t)
    BY <2>1, <2>5, MainStepKeepsTeardown, EncoderStepKeepsTeardown, Zenon
  <2>6. CASE \E d \in Dec : DecoderRuns(d)
    BY <2>1, <2>6, DecoderStepKeepsTeardown, Zenon
  <2> QED BY <1>2, <2>2, <2>3, <2>4, <2>5, <2>6, Zenon DEF Next
<1> QED BY <1>1, <1>2

\* The unsynchronised null tests of the encoder thread (H264EncodeThread.java:113-114), of
\* onEncodeResult (MainActivity.java:121-122) and of the decoder's surface
\* (H264DecodeThread.java:83) fail only when the main thread is tearing a surface down or has.
THEOREM CrashOnlyAroundTeardown == Spec => []CrashNeedsTeardown
<1>1. Init => CrashInv
  <2>1. AbsentEncoder.pc = "absent" /\ AbsentDecoder.pc = "absent"
    BY DEF AbsentEncoder, AbsentDecoder
  <2>2. ASSUME Init PROVE TeardownInv /\ callback \in [Enc -> CallbackPc]
    BY <2>1, <2>2 DEF Init, EncInit, DecInit, TeardownInv, ClearedIsAbandoned, UserSawDecoder,
       CrashNeedsTeardown, AppDead, EncCrashed, DecCrashed, CallbackPc
  <2> QED
    BY <2>2, ActivityAtInit, TypeInit, AccountedAtInit, DecoderAtInit
       DEF Init, PipelineInv, BufferInv, RefersInv, CrashInv
<1>2. CrashInv /\ [Next]_vars => CrashInv'
  BY PipelineStep, BufferInvStep, DecoderSideKeepsInv, CallbackKept, TeardownStep
     DEF PipelineInv, CrashInv
<1>3. CrashInv => CrashNeedsTeardown BY DEF CrashInv, TeardownInv
<1> QED BY <1>1, <1>2, <1>3, PTL DEF Spec

-----------------------------------------------------------------------------
\* Sequences of frames in order.  A frame in late may come behind newer ones, any
\* other comes behind older ones only; no frame comes behind itself.  NoFrame is not
\* a frame.
FramesOf(X) == {X[k] : k \in DOMAIN X} \ {NoFrame}
Follows(y, x, late) == y # x /\ (y \in late \/ x < y)
AllFollow(B, A, late) == \A x \in A, y \in B : Follows(y, x, late)
Sorted(X, late) ==
  \A j, k \in DOMAIN X :
    j < k /\ X[j] # NoFrame /\ X[k] # NoFrame => Follows(X[k], X[j], late)

LEMMA SortedConcat ==
  ASSUME NEW X \in Seq(Nat), NEW Y \in Seq(Nat), NEW late, Sorted(X, late), Sorted(Y, late),
         AllFollow(FramesOf(Y), FramesOf(X), late)
  PROVE  /\ X \o Y \in Seq(Nat)
         /\ Sorted(X \o Y, late)
         /\ FramesOf(X \o Y) = FramesOf(X) \cup FramesOf(Y)
<1> DEFINE Z == X \o Y
           n == Len(X)
           m == Len(Y)
<1>1. /\ n \in Nat /\ m \in Nat /\ DOMAIN X = 1..n /\ DOMAIN Y = 1..m
      /\ DOMAIN Z = 1..(n + m)
      /\ Z \in Seq(Nat)
  OBVIOUS
<1>2. \A k \in DOMAIN Z : IF k <= n THEN k \in 1..n /\ Z[k] = X[k]
                                    ELSE k - n \in 1..m /\ Z[k] = Y[k - n]
  BY <1>1
<1>3. \A k \in 1..n : k \in DOMAIN Z /\ Z[k] = X[k]
  BY <1>1, <1>2
<1>4. \A k \in 1..m : k + n \in DOMAIN Z /\ Z[k + n] = Y[k]
  BY <1>1
<1> HIDE DEF Z, n, m
<1>5. FramesOf(Z) = FramesOf(X) \cup FramesOf(Y)
  <2>1. ASSUME NEW k \in DOMAIN Z, Z[k] # NoFrame PROVE Z[k] \in FramesOf(X) \cup FramesOf(Y)
    <3>1. CASE k <= n BY <1>1, <1>2, <2>1, <3>1 DEF FramesOf
    <3>2. CASE ~(k <= n)
      <4>1. k - n \in DOMAIN Y /\ Z[k] = Y[k - n] BY <1>1, <1>2, <3>2
      <4> QED BY <2>1, <4>1 DEF FramesOf
    <3> QED BY <3>1, <3>2
  <2>2. FramesOf(X) \subseteq FramesOf(Z) BY <1>1, <1>3 DEF FramesOf
  <2>3. ASSUME NEW k \in DOMAIN Y, Y[k] # NoFrame PROVE Y[k] \in FramesOf(Z)
    <3>1. k + n \in DOMAIN Z /\ Z[k + n] = Y[k] BY <1>1, <1>4
    <3> QED BY <2>3, <3>1 DEF FramesOf
  <2> QED BY <2>1, <2>2, <2>3 DEF FramesOf
<1>6. Sorted(Z, late)
  <2> SUFFICES ASSUME NEW j \in DOMAIN Z, NEW k \in DOMAIN Z, j < k,
                      Z[j] # NoFrame, Z[k] # NoFrame
               PROVE  Follows(Z[k], Z[j], late)
    BY DEF Sorted
  <2>0. j \in Int /\ k \in Int /\ n \in Int BY <1>1
  <2>1. CASE k <= n
    <3>1. j <= n BY <2>0, <2>1
    <3> QED BY <1>1, <1>2, <2>1, <3>1 DEF Sorted
  <2>2. CASE j <= n /\ ~(k <= n)
    <3>1. j \in DOMAIN X /\ Z[j] = X[j] /\ k - n \in DOMAIN Y /\ Z[k] = Y[k - n]
      BY <1>1, <1>2, <2>2
    <3>2. Z[j] \in FramesOf(X) /\ Z[k] \in FramesOf(Y) BY <3>1 DEF FramesOf
    <3> QED BY <3>2 DEF AllFollow
  <2>3. CASE ~(j <= n)
    <3>1. ~(k <= n) BY <2>0, <2>3
    <3>2. /\ j - n \in DOMAIN Y /\ Z[j] = Y[j - n] /\ k - n \in DOMAIN Y /\ Z[k] = Y[k - n]
          /\ j - n < k - n
      BY <1>1, <1>2, <2>3, <2>0, <3>1
    <3> QED BY <3>2 DEF Sorted
  <2> QED BY <2>1, <2>2, <2>3
<1> QED BY <1>1, <1>5, <1>6 DEF Z

\* Y is in order and has the frames of X that follow f, an element of X.
Leaves(f, X, Y, late) ==
  /\ Sorted(Y, late)
  /\ FramesOf(Y) \subseteq FramesOf(X)
  /\ f \in Nat
  /\ {f} \ {NoFrame} \subseteq FramesOf(X)
  /\ AllFollow(FramesOf(Y), {f} \ {NoFrame}, late)

\* X without its first element, X with one more.
IsTailOf(Y, X) ==
  /\ Len(Y) = Len(X) - 1
  /\ \A k \in 1..Len(Y) : Y[k] = X[k + 1]
IsAppendOf(Y, X, f) ==
  /\ Len(Y) = Len(X) + 1
  /\ \A k \in 1..Len(X) : Y[k] = X[k]
  /\ Y[Len(Y)] = f

\* f comes to the end of X, or into the place of X.
Receives(Y, X, f) == IsAppendOf(Y, X, f) \/ Y = <<f>>

LEMMA SortedTail ==
  ASSUME NEW X \in Seq(Nat), NEW Y \in Seq(Nat), NEW late, Sorted(X, late), IsTailOf(Y, X)
  PROVE  Leaves(X[1], X, Y, late)
<1> DEFINE n == Len(X)
<1>1. /\ n \in Nat \ {0} /\ DOMAIN X = 1..n /\ DOMAIN Y = 1..(n - 1) /\ Len(Y) = n - 1
      /\ 1 \in DOMAIN X /\ X[1] \in Nat
  BY DEF IsTailOf
<1>2. \A k \in DOMAIN Y : k + 1 \in DOMAIN X /\ Y[k] = X[k + 1] /\ 1 < k + 1
  BY <1>1 DEF IsTailOf
<1> HIDE DEF n
<1>3. \A j, k \in DOMAIN Y : j < k => j + 1 < k + 1
  BY <1>1
<1> QED BY <1>1, <1>2, <1>3 DEF Sorted, FramesOf, AllFollow, Leaves

LEMMA SortedAppend ==
  ASSUME NEW X \in Seq(Nat), NEW Y \in Seq(Nat), NEW f \in Nat, NEW late, Sorted(X, late),
         IsAppendOf(Y, X, f), AllFollow({f} \ {NoFrame}, FramesOf(X), late)
  PROVE  /\ Sorted(Y, late)
         /\ FramesOf(Y) = FramesOf(X) \cup ({f} \ {NoFrame})
<1> DEFINE n == Len(X)
<1>1. /\ n \in Nat /\ DOMAIN X = 1..n /\ DOMAIN Y = 1..(n + 1)
      /\ Y[n + 1] = f
      /\ \A k \in 1..n : Y[k] = X[k] /\ k \in DOMAIN Y
      /\ n + 1 \in DOMAIN Y
      /\ \A k \in DOMAIN Y : k \in DOMAIN X \/ k = n + 1
  BY DEF IsAppendOf
<1>2. \A j, k \in DOMAIN Y : j < k => j \in DOMAIN X
  BY <1>1
<1> HIDE DEF n
<1>3. FramesOf(Y) = FramesOf(X) \cup ({f} \ {NoFrame})
  BY <1>1 DEF FramesOf
<1>4. \A j \in DOMAIN X : X[j] # NoFrame => X[j] \in FramesOf(X)
  BY DEF FramesOf
<1>5. Sorted(Y, late)
  <2> SUFFICES ASSUME NEW j \in DOMAIN Y, NEW k \in DOMAIN Y, j < k,
                      Y[j] # NoFrame, Y[k] # NoFrame
               PROVE  Follows(Y[k], Y[j], late)
    BY DEF Sorted
  <2>1. j \in DOMAIN X /\ Y[j] = X[j] BY <1>1, <1>2
  <2>2. CASE k \in DOMAIN X
    BY <1>1, <2>1, <2>2 DEF Sorted
  <2>3. CASE k = n + 1
    BY <1>1, <1>4, <2>1, <2>3 DEF AllFollow
  <2> QED BY <1>1, <2>2, <2>3
<1> QED BY <1>3, <1>5

\* The stages a frame passes, the oldest frames in the first.
InStages(X, n) == UNION {FramesOf(X[a]) : a \in 1..n}
Ordered(X, n, late) ==
  /\ \A a \in 1..n : Sorted(X[a], late)
  /\ \A a, b \in 1..n : a < b => AllFollow(FramesOf(X[b]), FramesOf(X[a]), late)

\* Frames disappear.
LEMMA StagesLose ==
  ASSUME NEW n \in Nat, NEW X, NEW Y, NEW late, Ordered(X, n, late),
         \A a \in 1..n : Sorted(Y[a], late) /\ FramesOf(Y[a]) \subseteq FramesOf(X[a])
  PROVE  /\ Ordered(Y, n, late)
         /\ InStages(Y, n) \subseteq InStages(X, n)
BY DEF Ordered, AllFollow, InStages

\* A frame passes from the front of a stage to the end of the one before.
LEMMA StagesPass ==
  ASSUME NEW n \in Nat, NEW X \in [1..n -> Seq(Nat)], NEW Y \in [1..n -> Seq(Nat)], NEW late,
         Ordered(X, n, late), NEW a \in 1..n, NEW d \in 1..n, d = a + 1, NEW f,
         Leaves(f, X[d], Y[d], late),
         Receives(Y[a], X[a], f),
         \A b \in 1..n : b # a /\ b # d => Y[b] = X[b]
  PROVE  /\ Ordered(Y, n, late)
         /\ InStages(Y, n) \subseteq InStages(X, n)
<1> DEFINE F == {f} \ {NoFrame}
<1>1. /\ Sorted(Y[d], late)
      /\ FramesOf(Y[d]) \subseteq FramesOf(X[d])
      /\ f \in Nat /\ F \subseteq FramesOf(X[d])
      /\ AllFollow(FramesOf(Y[d]), F, late)
  BY DEF Leaves
<1>2. AllFollow(FramesOf(X[d]), FramesOf(X[a]), late) BY DEF Ordered
<1>3. AllFollow(F, FramesOf(X[a]), late) BY <1>1, <1>2 DEF AllFollow
<1> HIDE DEF F
<1>4. Sorted(Y[a], late) /\ FramesOf(Y[a]) \subseteq FramesOf(X[a]) \cup F
  <2>1. CASE IsAppendOf(Y[a], X[a], f)
    <3>1. X[a] \in Seq(Nat) /\ Y[a] \in Seq(Nat) /\ Sorted(X[a], late) BY DEF Ordered
    <3>2. f \in Nat BY <1>1
    <3> QED BY <1>3, <2>1, <3>1, <3>2, SortedAppend DEF F
  <2>2. CASE Y[a] = <<f>>
    <3>1. DOMAIN Y[a] = {1} /\ Y[a][1] = f BY <2>2
    <3> QED BY <3>1 DEF Sorted, FramesOf, F
  <2> QED BY <2>1, <2>2 DEF Receives
<1>5. \A b \in 1..n : Sorted(Y[b], late) BY <1>1, <1>4 DEF Ordered
<1>6. \A b \in 1..n : FramesOf(Y[b]) \subseteq FramesOf(X[b]) \cup (IF b = a THEN F ELSE {})
  BY <1>1, <1>4
<1>7. ASSUME NEW b \in 1..n, NEW c \in 1..n, b < c
      PROVE  AllFollow(FramesOf(Y[c]), FramesOf(Y[b]), late)
  <2>1. AllFollow(FramesOf(X[c]), FramesOf(X[b]), late) BY <1>7 DEF Ordered
  <2>2. CASE b = a /\ c = d
    BY <1>1, <1>2, <1>4, <2>2 DEF AllFollow
  <2>3. CASE b = a /\ c # d
    <3>1. d < c BY <1>7, <2>3
    <3>2. AllFollow(FramesOf(X[c]), FramesOf(X[d]), late) BY <3>1 DEF Ordered
    <3>3. FramesOf(Y[c]) \subseteq FramesOf(X[c]) BY <1>6, <1>7, <2>3
    <3> QED BY <1>1, <1>4, <2>1, <2>3, <3>2, <3>3 DEF AllFollow
  <2>4. CASE b # a /\ c = a
    <3>1. b < d BY <1>7, <2>4
    <3>2. AllFollow(FramesOf(X[d]), FramesOf(X[b]), late) BY <3>1 DEF Ordered
    <3>3. FramesOf(Y[b]) \subseteq FramesOf(X[b]) BY <1>6, <2>4
    <3> QED BY <1>1, <1>4, <2>1, <2>4, <3>2, <3>3 DEF AllFollow
  <2>5. CASE b # a /\ c # a
    <3>1. FramesOf(Y[b]) \subseteq FramesOf(X[b]) /\ FramesOf(Y[c]) \subseteq FramesOf(X[c])
      BY <1>6, <2>5
    <3> QED BY <2>1, <3>1 DEF AllFollow
  <2> QED BY <2>2, <2>3, <2>4, <2>5
<1>8. InStages(Y, n) \subseteq InStages(X, n)
  BY <1>1, <1>6 DEF InStages
<1> QED BY <1>5, <1>7, <1>8 DEF Ordered

\* A frame that follows all there are enters the last stage.
LEMMA StagesEnter ==
  ASSUME NEW n \in Nat \ {0}, NEW X \in [1..n -> Seq(Nat)], NEW Y \in [1..n -> Seq(Nat)],
         NEW late, Ordered(X, n, late), NEW f \in Nat,
         AllFollow({f} \ {NoFrame}, InStages(X, n), late),
         Receives(Y[n], X[n], f),
         \A b \in 1..n : b # n => Y[b] = X[b]
  PROVE  /\ Ordered(Y, n, late)
         /\ InStages(Y, n) \subseteq InStages(X, n) \cup ({f} \ {NoFrame})
<1> DEFINE F == {f} \ {NoFrame}
<1>0. n \in 1..n OBVIOUS
<1>1. \A b \in 1..n : FramesOf(X[b]) \subseteq InStages(X, n) BY DEF InStages
<1>2. AllFollow(F, FramesOf(X[n]), late) BY <1>0, <1>1 DEF AllFollow
<1>3. Sorted(Y[n], late) /\ FramesOf(Y[n]) \subseteq FramesOf(X[n]) \cup F
  <2>1. CASE IsAppendOf(Y[n], X[n], f)
    BY <1>0, <1>2, <2>1, SortedAppend DEF Ordered
  <2>2. CASE Y[n] = <<f>>
    <3>1. DOMAIN Y[n] = {1} /\ Y[n][1] = f BY <2>2
    <3> QED BY <3>1 DEF Sorted, FramesOf
  <2> QED BY <2>1, <2>2 DEF Receives
<1> HIDE DEF F
<1>4. \A b \in 1..n : Sorted(Y[b], late) BY <1>3 DEF Ordered
<1>5. ASSUME NEW b \in 1..n, NEW c \in 1..n, b < c
      PROVE  AllFollow(FramesOf(Y[c]), FramesOf(Y[b]), late)
  <2>1. AllFollow(FramesOf(X[c]), FramesOf(X[b]), late) BY <1>5 DEF Ordered
  <2>2. Y[b] = X[b] BY <1>5
  <2>3. CASE c = n
    <3>1. AllFollow(F, FramesOf(X[b]), late) BY <1>1 DEF AllFollow, F
    <3> QED BY <1>3, <2>1, <2>2, <2>3, <3>1 DEF AllFollow
  <2>4. CASE c # n BY <2>1, <2>2, <2>4
  <2> QED BY <2>3, <2>4
<1>6. InStages(Y, n) \subseteq InStages(X, n) \cup F
  BY <1>0, <1>3 DEF InStages
<1> QED BY <1>4, <1>5, <1>6 DEF Ordered, F

-----------------------------------------------------------------------------
\* The stages of an encoder thread.
Encoded(r) == [k \in DOMAIN r.output |-> FrameOf(r.output[k])]
Submitted(r) == [k \in DOMAIN r.pending |-> r.pending[k][2]]
EncStages(r) ==
  [a \in 1..5 |->
    IF a = 1 THEN <<FrameOf(r.outData)>>
    ELSE IF a = 2 THEN Encoded(r)
    ELSE IF a = 3 THEN Submitted(r)
    ELSE IF a = 4 THEN r.mQueue
    ELSE <<r.caller>>]
EncFrames(r) == InStages(EncStages(r), 5)
InTurn(r) == Ordered(EncStages(r), 5, {})

LEMMA FrameOfType ==
  ASSUME NEW packet \in NalUnits
  PROVE  FrameOf(packet) \in Nat
<1>1. CASE packet = <<>> BY <1>1 DEF FrameOf, NoFrame
<1>2. CASE packet # <<>>
  <2>1. packet[Len(packet)] \in NalUnit BY <1>2 DEF NalUnits
  <2> QED BY <1>2, <2>1 DEF FrameOf, NalUnit, Frame, NoFrame
<1> QED BY <1>1, <1>2

LEMMA EncStagesType ==
  ASSUME NEW r \in EncState
  PROVE  /\ EncStages(r) \in [1..5 -> Seq(Nat)]
         /\ EncStages(r)[1] = <<FrameOf(r.outData)>>
         /\ EncStages(r)[2] = Encoded(r)
         /\ EncStages(r)[3] = Submitted(r)
         /\ EncStages(r)[4] = r.mQueue
         /\ EncStages(r)[5] = <<r.caller>>
         /\ \A a \in 1..5 : EncStages(r)[a] \in Seq(Nat)
<1>1. <<FrameOf(r.outData)>> \in Seq(Nat)
  <2>1. r.outData \in NalUnits BY DEF EncState
  <2> QED BY <2>1, FrameOfType
<1>2. Encoded(r) \in Seq(Nat)
  <2>1. r.output \in Seq(NalUnits) BY DEF EncState, Packets
  <2>2. \A k \in DOMAIN r.output : FrameOf(r.output[k]) \in Nat
    BY <2>1, FrameOfType
  <2>3. Len(r.output) \in Nat /\ DOMAIN r.output = 1..Len(r.output) BY <2>1
  <2> QED BY <2>2, <2>3, SeqDef DEF Encoded
<1>3. Submitted(r) \in Seq(Nat)
  <2>1. r.pending \in Seq(InputIndex \X Frame) BY DEF EncState, Submissions
  <2>2. \A k \in DOMAIN r.pending : r.pending[k][2] \in Nat
    BY <2>1, MaxFrameAssumption DEF Frame
  <2>3. Len(r.pending) \in Nat /\ DOMAIN r.pending = 1..Len(r.pending) BY <2>1
  <2> QED BY <2>2, <2>3, SeqDef DEF Submitted
<1>4. r.mQueue \in Seq(Nat)
  <2>1. r.mQueue \in Seq(Frame) BY DEF EncState, FrameQueue
  <2>2. Frame \subseteq Nat BY MaxFrameAssumption DEF Frame
  <2>3. PICK n \in Nat : r.mQueue \in [1..n -> Frame] BY <2>1, SeqDef
  <2>4. r.mQueue \in [1..n -> Nat] BY <2>2, <2>3
  <2> QED BY <2>4, SeqDef
<1>5. <<r.caller>> \in Seq(Nat)
  <2>1. r.caller \in Nat BY MaxFrameAssumption DEF EncState, OfferedFrame, Frame, NoFrame
  <2> QED BY <2>1
<1> HIDE DEF FrameOf
<1> QED BY <1>1, <1>2, <1>3, <1>4, <1>5 DEF EncStages

\* In stages in order, the sequence of all frames is in order.
LEMMA StagesInOrder ==
  ASSUME NEW t \in Enc, enc[t] \in EncState, InTurn(enc[t])
  PROVE  /\ InFlight(t) \in Seq(Nat)
         /\ Sorted(InFlight(t), {})
         /\ FramesOf(InFlight(t)) = EncFrames(enc[t])
<1> DEFINE X == EncStages(enc[t])
           two == X[1] \o X[2]
           three == two \o X[3]
           four == three \o X[4]
<1>1. /\ X \in [1..5 -> Seq(Nat)]
      /\ InFlight(t) = four \o X[5]
  BY EncStagesType DEF InFlight, Encoded, Submitted
<1>2. Ordered(X, 5, {}) BY DEF InTurn
<1>3. InStages(X, 5) = FramesOf(X[1]) \cup FramesOf(X[2]) \cup FramesOf(X[3])
                        \cup FramesOf(X[4]) \cup FramesOf(X[5])
  <2>1. 1..5 = {1, 2, 3, 4, 5} OBVIOUS
  <2> QED BY <2>1 DEF InStages
<1>4. \A a, b \in 1..5 : a < b => AllFollow(FramesOf(X[b]), FramesOf(X[a]), {})
  BY <1>2 DEF Ordered
<1>5. \A a \in 1..5 : X[a] \in Seq(Nat) /\ Sorted(X[a], {})
  BY <1>1, <1>2 DEF Ordered
<1> HIDE DEF X
<1>6. /\ two \in Seq(Nat) /\ Sorted(two, {})
      /\ FramesOf(two) = FramesOf(X[1]) \cup FramesOf(X[2])
  BY <1>4, <1>5, SortedConcat
<1> HIDE DEF two
<1>7. /\ three \in Seq(Nat) /\ Sorted(three, {})
      /\ FramesOf(three) = FramesOf(X[1]) \cup FramesOf(X[2]) \cup FramesOf(X[3])
  <2>1. AllFollow(FramesOf(X[3]), FramesOf(two), {}) BY <1>4, <1>6 DEF AllFollow
  <2>2. X[3] \in Seq(Nat) /\ Sorted(X[3], {}) BY <1>5
  <2>3. /\ three \in Seq(Nat) /\ Sorted(three, {})
        /\ FramesOf(three) = FramesOf(two) \cup FramesOf(X[3])
    BY <1>6, <2>1, <2>2, SortedConcat
  <2> QED BY <1>6, <2>3
<1> HIDE DEF three
<1>8. /\ four \in Seq(Nat) /\ Sorted(four, {})
      /\ FramesOf(four) = FramesOf(X[1]) \cup FramesOf(X[2]) \cup FramesOf(X[3])
                           \cup FramesOf(X[4])
  <2>1. AllFollow(FramesOf(X[4]), FramesOf(three), {}) BY <1>4, <1>7 DEF AllFollow
  <2>2. X[4] \in Seq(Nat) /\ Sorted(X[4], {}) BY <1>5
  <2>3. /\ four \in Seq(Nat) /\ Sorted(four, {})
        /\ FramesOf(four) = FramesOf(three) \cup FramesOf(X[4])
    BY <1>7, <2>1, <2>2, SortedConcat
  <2> QED BY <1>7, <2>3
<1> HIDE DEF four
<1>9. AllFollow(FramesOf(X[5]), FramesOf(four), {}) BY <1>4, <1>8 DEF AllFollow
<1>10. /\ four \o X[5] \in Seq(Nat) /\ Sorted(four \o X[5], {})
       /\ FramesOf(four \o X[5]) = FramesOf(four) \cup FramesOf(X[5])
  <2>1. X[5] \in Seq(Nat) /\ Sorted(X[5], {}) BY <1>5
  <2> QED BY <1>8, <1>9, <2>1, SortedConcat
<1>11. EncFrames(enc[t]) = InStages(X, 5) BY DEF EncFrames, X
<1> QED BY <1>1, <1>3, <1>8, <1>10, <1>11

\* A step of one thread reorders nothing and lets no frame in.
TurnKept(r, s) == InTurn(s) /\ EncFrames(s) \subseteq EncFrames(r)

LEMMA StagesUntouched ==
  ASSUME NEW r, NEW s, InTurn(r), s.outData = r.outData, s.output = r.output,
         s.pending = r.pending, s.mQueue = r.mQueue, s.caller = r.caller
  PROVE  TurnKept(r, s)
<1>1. EncStages(s) = EncStages(r) BY DEF EncStages, Encoded, Submitted
<1> QED BY <1>1 DEF TurnKept, InTurn, EncFrames

\* Each stage keeps its order and gains nothing.
LEMMA StagesOnlyLose ==
  ASSUME NEW r \in EncState, NEW s \in EncState, InTurn(r),
         \A a \in 1..5 : \/ EncStages(s)[a] = EncStages(r)[a]
                         \/ FramesOf(EncStages(s)[a]) = {}
                         \/ IsTailOf(EncStages(s)[a], EncStages(r)[a])
  PROVE  TurnKept(r, s)
<1> DEFINE X == EncStages(r)
           Y == EncStages(s)
<1>1. X \in [1..5 -> Seq(Nat)] /\ Y \in [1..5 -> Seq(Nat)] BY EncStagesType
<1>2. Ordered(X, 5, {}) BY DEF InTurn
<1> HIDE DEF X, Y
<1>3. ASSUME NEW a \in 1..5
      PROVE  Sorted(Y[a], {}) /\ FramesOf(Y[a]) \subseteq FramesOf(X[a])
  <2>1. Sorted(X[a], {}) BY <1>2 DEF Ordered
  <2>2. CASE Y[a] = X[a] BY <2>1, <2>2
  <2>3. CASE FramesOf(Y[a]) = {} BY <2>3 DEF Sorted, FramesOf
  <2>4. CASE IsTailOf(Y[a], X[a])
    <3>1. X[a] \in Seq(Nat) /\ Y[a] \in Seq(Nat) BY <1>1
    <3> QED BY <2>1, <2>4, <3>1, SortedTail DEF Leaves
  <2> QED BY <2>2, <2>3, <2>4 DEF X, Y
<1>4. Ordered(Y, 5, {}) /\ InStages(Y, 5) \subseteq InStages(X, 5)
  BY <1>2, <1>3, StagesLose
<1> QED BY <1>4 DEF X, Y, TurnKept, InTurn, EncFrames

LEMMA StageUntouched ==
  ASSUME NEW r, NEW s
  PROVE  /\ s.outData = r.outData => EncStages(s)[1] = EncStages(r)[1]
         /\ s.output = r.output => EncStages(s)[2] = EncStages(r)[2]
         /\ s.pending = r.pending => EncStages(s)[3] = EncStages(r)[3]
         /\ s.mQueue = r.mQueue => EncStages(s)[4] = EncStages(r)[4]
         /\ s.caller = r.caller => EncStages(s)[5] = EncStages(r)[5]
BY DEF EncStages, Encoded, Submitted

LEMMA NoFrames ==
  /\ FramesOf(<<>>) = {}
  /\ FramesOf(<<NoFrame>>) = {}
  /\ FrameOf(<<>>) = NoFrame
BY DEF FramesOf, FrameOf

\* The stages as the actions change them.
LEMMA EncodedTail ==
  ASSUME NEW r \in EncState, NEW s \in EncState, r.output # <<>>, s.output = Tail(r.output)
  PROVE  /\ IsTailOf(EncStages(s)[2], EncStages(r)[2])
         /\ EncStages(r)[2][1] = FrameOf(Head(r.output))
<1>1. r.output \in Seq(NalUnits) BY DEF EncState, Packets
<1>2. /\ Len(s.output) = Len(r.output) - 1 /\ Len(r.output) \in Nat \ {0}
      /\ DOMAIN s.output = 1..Len(s.output) /\ DOMAIN r.output = 1..Len(r.output)
      /\ \A k \in 1..Len(s.output) : s.output[k] = r.output[k + 1] /\ k + 1 \in 1..Len(r.output)
      /\ Head(r.output) = r.output[1]
  BY <1>1
<1>3. /\ EncStages(r)[2] = Encoded(r) /\ EncStages(s)[2] = Encoded(s)
      /\ Encoded(r) \in Seq(Nat) /\ Encoded(s) \in Seq(Nat)
  BY EncStagesType
<1>4. Len(Encoded(r)) = Len(r.output) /\ Len(Encoded(s)) = Len(s.output)
  BY <1>2, <1>3 DEF Encoded
<1>5. /\ \A k \in 1..Len(s.output) : Encoded(s)[k] = Encoded(r)[k + 1]
      /\ Encoded(r)[1] = FrameOf(Head(r.output))
  BY <1>2 DEF Encoded
<1> QED BY <1>2, <1>3, <1>4, <1>5 DEF IsTailOf

LEMMA SubmittedTail ==
  ASSUME NEW r \in EncState, NEW s \in EncState, r.pending # <<>>, s.pending = Tail(r.pending)
  PROVE  /\ IsTailOf(EncStages(s)[3], EncStages(r)[3])
         /\ EncStages(r)[3][1] = Head(r.pending)[2]
<1>1. r.pending \in Seq(InputIndex \X Frame) BY DEF EncState, Submissions
<1>2. /\ Len(s.pending) = Len(r.pending) - 1 /\ Len(r.pending) \in Nat \ {0}
      /\ DOMAIN s.pending = 1..Len(s.pending) /\ DOMAIN r.pending = 1..Len(r.pending)
      /\ \A k \in 1..Len(s.pending) : s.pending[k] = r.pending[k + 1] /\ k + 1 \in 1..Len(r.pending)
      /\ Head(r.pending) = r.pending[1]
  BY <1>1
<1>3. /\ EncStages(r)[3] = Submitted(r) /\ EncStages(s)[3] = Submitted(s)
      /\ Submitted(r) \in Seq(Nat) /\ Submitted(s) \in Seq(Nat)
  BY EncStagesType
<1>4. Len(Submitted(r)) = Len(r.pending) /\ Len(Submitted(s)) = Len(s.pending)
  BY <1>2, <1>3 DEF Submitted
<1>5. /\ \A k \in 1..Len(s.pending) : Submitted(s)[k] = Submitted(r)[k + 1]
      /\ Submitted(r)[1] = Head(r.pending)[2]
  BY <1>2 DEF Submitted
<1> QED BY <1>2, <1>3, <1>4, <1>5 DEF IsTailOf

LEMMA EncodedAppend ==
  ASSUME NEW r \in EncState, NEW s \in EncState, NEW packet \in NalUnits,
         s.output = Append(r.output, packet)
  PROVE  IsAppendOf(EncStages(s)[2], EncStages(r)[2], FrameOf(packet))
<1>1. r.output \in Seq(NalUnits) /\ s.output \in Seq(NalUnits) BY DEF EncState, Packets
<1>2. /\ Len(s.output) = Len(r.output) + 1 /\ Len(r.output) \in Nat
      /\ DOMAIN s.output = 1..Len(s.output) /\ DOMAIN r.output = 1..Len(r.output)
      /\ \A k \in 1..Len(r.output) : s.output[k] = r.output[k]
      /\ s.output[Len(s.output)] = packet
  BY <1>1
<1>3. /\ EncStages(r)[2] = Encoded(r) /\ EncStages(s)[2] = Encoded(s)
      /\ Encoded(r) \in Seq(Nat) /\ Encoded(s) \in Seq(Nat)
  BY EncStagesType
<1>4. Len(Encoded(r)) = Len(r.output) /\ Len(Encoded(s)) = Len(s.output)
  BY <1>2, <1>3 DEF Encoded
<1>5. /\ \A k \in 1..Len(r.output) : Encoded(s)[k] = Encoded(r)[k]
      /\ Encoded(s)[Len(s.output)] = FrameOf(packet)
  BY <1>2 DEF Encoded
<1> QED BY <1>2, <1>3, <1>4, <1>5 DEF IsAppendOf

LEMMA SubmittedAppend ==
  ASSUME NEW r \in EncState, NEW s \in EncState, NEW i, NEW f,
         s.pending = Append(r.pending, <<i, f>>)
  PROVE  IsAppendOf(EncStages(s)[3], EncStages(r)[3], f)
<1>1. r.pending \in Seq(InputIndex \X Frame) /\ s.pending \in Seq(InputIndex \X Frame)
  BY DEF EncState, Submissions
<1>2. /\ Len(s.pending) = Len(r.pending) + 1 /\ Len(r.pending) \in Nat
      /\ DOMAIN s.pending = 1..Len(s.pending) /\ DOMAIN r.pending = 1..Len(r.pending)
      /\ \A k \in 1..Len(r.pending) : s.pending[k] = r.pending[k]
      /\ s.pending[Len(s.pending)] = <<i, f>>
  BY <1>1
<1>3. /\ EncStages(r)[3] = Submitted(r) /\ EncStages(s)[3] = Submitted(s)
      /\ Submitted(r) \in Seq(Nat) /\ Submitted(s) \in Seq(Nat)
  BY EncStagesType
<1>4. Len(Submitted(r)) = Len(r.pending) /\ Len(Submitted(s)) = Len(s.pending)
  BY <1>2, <1>3 DEF Submitted
<1>5. /\ \A k \in 1..Len(r.pending) : Submitted(s)[k] = Submitted(r)[k]
      /\ Submitted(s)[Len(s.pending)] = f
  BY <1>2 DEF Submitted
<1> QED BY <1>2, <1>3, <1>4, <1>5 DEF IsAppendOf

\* Frames pass from stage a + 1 to stage a of an encoder thread.
LEMMA EncStagesPass ==
  ASSUME NEW r \in EncState, NEW s \in EncState, InTurn(r), NEW a \in 1..4, NEW f,
         Leaves(f, EncStages(r)[a + 1], EncStages(s)[a + 1], {}),
         Receives(EncStages(s)[a], EncStages(r)[a], f),
         \A b \in 1..5 : b # a /\ b # a + 1 => EncStages(s)[b] = EncStages(r)[b]
  PROVE  TurnKept(r, s)
<1> DEFINE X == EncStages(r)
           Y == EncStages(s)
<1>1. X \in [1..5 -> Seq(Nat)] /\ Y \in [1..5 -> Seq(Nat)] BY EncStagesType
<1>2. Ordered(X, 5, {}) BY DEF InTurn
<1>3. PICK d \in 1..5 : d = a + 1 /\ a \in 1..5 OBVIOUS
<1>4. /\ Leaves(f, X[d], Y[d], {})
      /\ Receives(Y[a], X[a], f)
      /\ \A b \in 1..5 : b # a /\ b # d => Y[b] = X[b]
  BY <1>3
<1> HIDE DEF X, Y
<1>5. Ordered(Y, 5, {}) /\ InStages(Y, 5) \subseteq InStages(X, 5)
  BY <1>1, <1>2, <1>3, <1>4, StagesPass
<1> QED BY <1>5 DEF TurnKept, InTurn, EncFrames, X, Y

\* The head of a stage leaves it.
LEMMA HeadLeaves ==
  ASSUME NEW r \in EncState, NEW s \in EncState, InTurn(r), NEW a \in 1..5,
         IsTailOf(EncStages(s)[a], EncStages(r)[a])
  PROVE  Leaves(EncStages(r)[a][1], EncStages(r)[a], EncStages(s)[a], {})
<1>1. EncStages(r)[a] \in Seq(Nat) /\ EncStages(s)[a] \in Seq(Nat) BY EncStagesType
<1>2. Sorted(EncStages(r)[a], {}) BY DEF InTurn, Ordered
<1> QED BY <1>1, <1>2, SortedTail

-----------------------------------------------------------------------------
\* The steps of an encoder thread, one after the other.

LEMMA PutKeepsTurn ==
  ASSUME enc \in Objects, enc' \in Objects, NEW t \in Enc, InTurn(enc[t]), EncPut(t)
  PROVE  TurnKept(enc[t], enc'[t])
<1> DEFINE r == enc[t]
           s == enc'[t]
<1>1. r \in EncState /\ s \in EncState BY DEF Objects
<1>2. /\ s.mQueue = Append(r.mQueue, r.caller) /\ s.caller = NoFrame
      /\ s.outData = r.outData /\ s.output = r.output /\ s.pending = r.pending
  BY DEF EncPut, Objects, EncState
<1> HIDE DEF r, s
<1> DEFINE X == EncStages(r)
           Y == EncStages(s)
<1>3. /\ Y[1] = X[1] /\ Y[2] = X[2] /\ Y[3] = X[3]
      /\ X[4] = r.mQueue /\ X[4] \in Seq(Nat) /\ Y[4] = Append(r.mQueue, r.caller)
      /\ X[5] = <<r.caller>> /\ Y[5] = <<NoFrame>>
  <2>1. X[4] = r.mQueue /\ X[4] \in Seq(Nat) /\ X[5] = <<r.caller>>
    BY <1>1, EncStagesType
  <2>2. Y[4] = s.mQueue /\ Y[5] = <<s.caller>>
    BY <1>1, EncStagesType
  <2>3. Y[1] = X[1] /\ Y[2] = X[2] /\ Y[3] = X[3]
    BY <1>2, StageUntouched
  <2> QED BY <1>2, <2>1, <2>2, <2>3
<1>4. IsAppendOf(Y[4], X[4], r.caller)
  <2>1. r.mQueue \in Seq(Nat) BY <1>3
  <2> QED BY <1>3, <2>1 DEF IsAppendOf
<1>5. Leaves(r.caller, X[5], Y[5], {})
  <2>1. r.caller \in Nat
    <3>1. r.caller \in OfferedFrame BY <1>1 DEF EncState
    <3> QED BY <3>1, MaxFrameAssumption DEF OfferedFrame, Frame, NoFrame
  <2>2. FramesOf(X[5]) = {r.caller} \ {NoFrame} BY <1>3 DEF FramesOf
  <2>3. FramesOf(Y[5]) = {} BY <1>3, NoFrames
  <2> QED BY <2>1, <2>2, <2>3 DEF Leaves, Sorted, AllFollow, FramesOf
<1>6. \A b \in 1..5 : b # 4 /\ b # 5 => Y[b] = X[b]
  BY <1>3
<1>7. 4 \in 1..4 /\ 4 + 1 = 5 OBVIOUS
<1>8. InTurn(r) BY DEF r
<1> QED BY <1>1, <1>4, <1>5, <1>6, <1>7, <1>8, EncStagesPass DEF r, s, Receives

LEMMA TakeKeepsTurn ==
  ASSUME enc \in Objects, enc' \in Objects, NEW t \in Enc, InTurn(enc[t]), TakeAndQueueInput(t)
  PROVE  TurnKept(enc[t], enc'[t])
<1> DEFINE r == enc[t]
           s == enc'[t]
           f == Head(r.mQueue)
<1>1. r \in EncState /\ s \in EncState BY DEF Objects
<1>2. /\ s.mQueue = Tail(r.mQueue) /\ r.mQueue # <<>> /\ s.caller = r.caller
      /\ s.outData = r.outData /\ s.output = r.output
      /\ s.pending = Append(r.pending, <<r.inputIndex, f>>)
  BY DEF TakeAndQueueInput, Objects, EncState
<1> HIDE DEF r, s
<1> DEFINE X == EncStages(r)
           Y == EncStages(s)
<1>3. /\ X \in [1..5 -> Seq(Nat)] /\ Y \in [1..5 -> Seq(Nat)]
      /\ Y[1] = X[1] /\ Y[2] = X[2] /\ Y[5] = X[5]
      /\ X[4] = r.mQueue /\ Y[4] = Tail(r.mQueue)
      /\ X[3] = Submitted(r) /\ Y[3] = Submitted(s)
  BY <1>1, <1>2, EncStagesType, StageUntouched
<1>4. IsTailOf(Y[4], X[4]) /\ X[4][1] = f
  <2>1. r.mQueue \in Seq(Nat) BY <1>3
  <2> QED BY <1>2, <1>3, <2>1 DEF IsTailOf
<1>5. IsAppendOf(Y[3], X[3], f)
  BY <1>1, <1>2, SubmittedAppend
<1>6. 3 \in 1..4 /\ 3 + 1 = 4 /\ 4 \in 1..5 OBVIOUS
<1>7. InTurn(r) BY DEF r
<1>8. Leaves(f, X[4], Y[4], {})
  BY <1>1, <1>4, <1>6, <1>7, HeadLeaves
<1>9. \A b \in 1..5 : b # 3 /\ b # 4 => Y[b] = X[b]
  BY <1>3
<1> QED BY <1>1, <1>5, <1>6, <1>7, <1>8, <1>9, EncStagesPass DEF r, s, Receives

LEMMA EncodeKeepsTurn ==
  ASSUME enc \in Objects, enc' \in Objects, NEW t \in Enc, InTurn(enc[t]), CodecEncodes(t)
  PROVE  TurnKept(enc[t], enc'[t])
<1> DEFINE r == enc[t]
           s == enc'[t]
           f == Head(r.pending)[2]
<1>1. r \in EncState /\ s \in EncState BY DEF Objects
<1>2. /\ s.mQueue = r.mQueue /\ r.pending # <<>> /\ s.caller = r.caller
      /\ s.outData = r.outData
      /\ s.pending = Tail(r.pending)
      /\ \E type \in {IDR, SLICE} : s.output = Append(r.output, <<Unit(type, f)>>)
  BY DEF CodecEncodes, Objects, EncState
<1> HIDE DEF r, s
<1> DEFINE X == EncStages(r)
           Y == EncStages(s)
<1>3. /\ X \in [1..5 -> Seq(Nat)] /\ Y \in [1..5 -> Seq(Nat)]
      /\ Y[1] = X[1] /\ Y[4] = X[4] /\ Y[5] = X[5]
      /\ X[2] = Encoded(r) /\ Y[2] = Encoded(s)
  BY <1>1, <1>2, EncStagesType, StageUntouched
<1>4. IsTailOf(Y[3], X[3]) /\ X[3][1] = f
  BY <1>1, <1>2, SubmittedTail
<1>5. IsAppendOf(Y[2], X[2], f)
  <2>1. PICK type \in {IDR, SLICE} : s.output = Append(r.output, <<Unit(type, f)>>)
    BY <1>2
  <2>2. FrameOf(<<Unit(type, f)>>) = f BY DEF FrameOf, Unit
  <2>3. <<Unit(type, f)>> \in NalUnits
    <3>1. r.pending \in Seq(InputIndex \X Frame) BY <1>1 DEF EncState, Submissions
    <3>2. f \in Frame BY <1>2, <3>1
    <3> HIDE DEF f
    <3> QED BY <3>2 DEF Unit, NalUnit, NalUnits
  <2> HIDE DEF f
  <2> QED BY <1>1, <2>1, <2>2, <2>3, EncodedAppend
<1>6. 2 \in 1..4 /\ 2 + 1 = 3 /\ 3 \in 1..5 OBVIOUS
<1>7. InTurn(r) BY DEF r
<1>8. Leaves(f, X[3], Y[3], {})
  BY <1>1, <1>4, <1>6, <1>7, HeadLeaves
<1>9. \A b \in 1..5 : b # 2 /\ b # 3 => Y[b] = X[b]
  BY <1>3
<1> QED BY <1>1, <1>5, <1>6, <1>7, <1>8, <1>9, EncStagesPass DEF r, s, Receives

\* The prefix of a key frame has no picture: the packet's frame stays its last unit's.
LEMMA OutDataFrame ==
  ASSUME NEW t \in Enc, enc[t] \in EncState, NEW packet \in NalUnits, packet # <<>>
  PROVE  FrameOf(OutData(t, packet)) = FrameOf(packet)
<1> DEFINE data == enc[t].ppsSps \o packet
<1>1. enc[t].ppsSps \in Seq(NalUnit) /\ packet \in Seq(NalUnit) /\ Len(packet) \in Nat \ {0}
  BY DEF EncState, NalUnits
<1>2. data # <<>> /\ data[Len(data)] = packet[Len(packet)]
  BY <1>1
<1> HIDE DEF data
<1>3. FrameOf(data) = FrameOf(packet) BY <1>2 DEF FrameOf
<1> QED BY <1>3 DEF OutData, data

LEMMA DequeueKeepsTurn ==
  ASSUME enc \in Objects, enc' \in Objects, NEW t \in Enc, InTurn(enc[t]), DequeueOutputBuffer(t)
  PROVE  TurnKept(enc[t], enc'[t])
<1> DEFINE r == enc[t]
           s == enc'[t]
           packet == Head(r.output)
<1>1. r \in EncState /\ s \in EncState BY DEF Objects
<1>2. /\ s.mQueue = r.mQueue /\ r.output # <<>> /\ s.caller = r.caller
      /\ s.outData = OutData(t, packet) \/ s.outData = <<>>
      /\ s.pending = r.pending
      /\ s.output = Tail(r.output)
      /\ packet # <<>>
  <2> DEFINE sets == IF IsConfig(packet) THEN packet ELSE r.ppsSps
             data == OutData(t, packet)
             dequeued == [enc EXCEPT ![t].pc = "call", ![t].output = Tail(r.output),
                                     ![t].ppsSps = sets, ![t].outData = data]
  <2>1. /\ r.output # <<>> /\ packet # <<>>
        /\ enc' = IF r.mListener THEN dequeued ELSE AfterOutput(t, dequeued)
    BY DEF DequeueOutputBuffer, FORMAT_CHANGED, Objects
  <2> HIDE DEF sets, data, packet
  <2>0. s.outData = data \/ s.outData = <<>> => s.outData = OutData(t, packet) \/ s.outData = <<>>
    BY DEF data
  <2>2. enc' = dequeued \/ enc' = AfterOutput(t, dequeued) BY <2>1
  <2>3. CASE enc' = dequeued BY <2>0, <2>1, <2>3 DEF Objects, EncState
  <2>4. CASE enc' = AfterOutput(t, dequeued)
    <3>1. CASE enc' = [dequeued EXCEPT ![t].pc = "loop", ![t].outData = <<>>, ![t].ppsSps = <<>>]
      BY <2>0, <2>1, <3>1 DEF Objects, EncState
    <3>2. CASE enc' = [dequeued EXCEPT ![t].pc = "drain", ![t].outData = <<>>]
      BY <2>0, <2>1, <3>2 DEF Objects, EncState
    <3> HIDE DEF dequeued
    <3> QED BY <2>4, <3>1, <3>2 DEF AfterOutput
  <2> QED BY <2>2, <2>3, <2>4
<1>3. packet \in NalUnits
  <2>1. r.output \in Seq(NalUnits) BY <1>1 DEF EncState, Packets
  <2> QED BY <1>2, <2>1, HeadTailProperties
<1>4. FrameOf(OutData(t, packet)) = FrameOf(packet)
  BY <1>1, <1>2, <1>3, OutDataFrame
<1>5. InTurn(r) OBVIOUS
<1> HIDE DEF r, s, packet
<1> DEFINE X == EncStages(r)
           Y == EncStages(s)
<1>6. /\ X \in [1..5 -> Seq(Nat)] /\ Y \in [1..5 -> Seq(Nat)]
      /\ Y[3] = X[3] /\ Y[4] = X[4] /\ Y[5] = X[5]
      /\ Y[1] = <<FrameOf(s.outData)>>
  BY <1>1, <1>2, EncStagesType, StageUntouched
<1>7. IsTailOf(Y[2], X[2]) /\ X[2][1] = FrameOf(packet)
  BY <1>1, <1>2, EncodedTail DEF packet
<1>8. CASE s.outData = OutData(t, packet)
  <2>1. Y[1] = <<FrameOf(packet)>> BY <1>4, <1>6, <1>8
  <2>2. 1 \in 1..4 /\ 1 + 1 = 2 /\ 2 \in 1..5 OBVIOUS
  <2>3. Leaves(FrameOf(packet), X[2], Y[2], {})
    BY <1>1, <1>5, <1>7, <2>2, HeadLeaves
  <2>4. \A b \in 1..5 : b # 1 /\ b # 2 => Y[b] = X[b]
    BY <1>6
  <2> QED BY <1>1, <1>5, <2>1, <2>2, <2>3, <2>4, EncStagesPass DEF r, s, Receives
<1>9. CASE s.outData = <<>>
  <2>1. FramesOf(Y[1]) = {} BY <1>6, <1>9, NoFrames
  <2> HIDE DEF X, Y
  <2>2. \A a \in {1, 2, 3, 4, 5} :
           Y[a] = X[a] \/ FramesOf(Y[a]) = {} \/ IsTailOf(Y[a], X[a])
    BY <1>6, <1>7, <2>1
  <2>3. 1..5 = {1, 2, 3, 4, 5} OBVIOUS
  <2> QED BY <1>1, <1>5, <2>2, <2>3, StagesOnlyLose DEF X, Y, r, s
<1> QED BY <1>2, <1>8, <1>9

LEMMA DrainKeepsTurn ==
  ASSUME enc \in Objects, enc' \in Objects, NEW t \in Enc, InTurn(enc[t]), DrainEnds(t)
  PROVE  TurnKept(enc[t], enc'[t])
<1> DEFINE r == enc[t]
           s == enc'[t]
<1>1. r \in EncState /\ s \in EncState BY DEF Objects
<1>2. /\ s.mQueue = r.mQueue /\ s.caller = r.caller /\ s.outData = r.outData
      /\ s.pending = r.pending
      /\ s.output = r.output \/ (r.output # <<>> /\ s.output = Tail(r.output))
  BY DEF DrainEnds, Objects, EncState
<1>3. InTurn(r) OBVIOUS
<1> HIDE DEF r, s
<1> DEFINE X == EncStages(r)
           Y == EncStages(s)
<1>4. Y[1] = X[1] /\ Y[3] = X[3] /\ Y[4] = X[4] /\ Y[5] = X[5]
  BY <1>1, <1>2, EncStagesType, StageUntouched
<1>5. Y[2] = X[2] \/ IsTailOf(Y[2], X[2])
  BY <1>1, <1>2, StageUntouched, EncodedTail
<1>6. \A a \in 1..5 : Y[a] = X[a] \/ FramesOf(Y[a]) = {} \/ IsTailOf(Y[a], X[a])
  BY <1>4, <1>5
<1> QED BY <1>1, <1>3, <1>6, StagesOnlyLose DEF r, s

\* The parameter sets carry no picture.
LEMMA ConfigureKeepsTurn ==
  ASSUME enc \in Objects, enc' \in Objects, NEW t \in Enc, InTurn(enc[t]), CodecConfigures(t)
  PROVE  TurnKept(enc[t], enc'[t])
<1> DEFINE r == enc[t]
           s == enc'[t]
<1>1. r \in EncState /\ s \in EncState BY DEF Objects
<1>2. /\ s.mQueue = r.mQueue /\ s.caller = r.caller /\ s.outData = r.outData
      /\ s.pending = r.pending
      /\ s.output = r.output \o Preamble
  BY DEF CodecConfigures, Objects, EncState
<1>3. InTurn(r) OBVIOUS
<1> HIDE DEF r, s
<1> DEFINE X == EncStages(r)
           Y == EncStages(s)
<1>4. Y[1] = X[1] /\ Y[3] = X[3] /\ Y[4] = X[4] /\ Y[5] = X[5]
  BY <1>2, StageUntouched
<1>5. X[2] = Encoded(r) /\ Y[2] = Encoded(s)
  BY <1>1, EncStagesType
<1>6. Ordered(X, 5, {}) BY <1>3 DEF InTurn
<1> HIDE DEF X, Y
<1>7. \A k \in DOMAIN Preamble : FrameOf(Preamble[k]) = NoFrame
  <2>1. FrameOf(FORMAT_CHANGED) = NoFrame BY NoFrames DEF FORMAT_CHANGED
  <2>2. FrameOf(ConfigPacket) = NoFrame
    BY DEF ConfigPacket, FrameOf, Unit
  <2>3. \A k \in DOMAIN Preamble : Preamble[k] \in {FORMAT_CHANGED, ConfigPacket}
    BY PreambleAssumption
  <2> QED BY <2>1, <2>2, <2>3
<1>8. ASSUME NEW k \in DOMAIN Encoded(s), Encoded(s)[k] # NoFrame
      PROVE  k \in DOMAIN Encoded(r) /\ Encoded(s)[k] = Encoded(r)[k]
  <2>1. r.output \in Seq(NalUnits) /\ Preamble \in Seq(NalUnits)
    BY <1>1, PreambleType DEF EncState, Packets
  <2>2. /\ Len(r.output) \in Nat /\ Len(Preamble) \in Nat
        /\ DOMAIN r.output = 1..Len(r.output) /\ DOMAIN Preamble = 1..Len(Preamble)
        /\ DOMAIN s.output = 1..(Len(r.output) + Len(Preamble))
        /\ \A j \in DOMAIN s.output :
             s.output[j] = IF j <= Len(r.output) THEN r.output[j] ELSE Preamble[j - Len(r.output)]
    BY <1>2, <2>1
  <2>3. k \in DOMAIN s.output /\ Encoded(s)[k] = FrameOf(s.output[k]) BY DEF Encoded
  <2>4. CASE k <= Len(r.output)
    <3>1. k \in DOMAIN r.output /\ s.output[k] = r.output[k] BY <2>2, <2>3, <2>4
    <3> QED BY <2>3, <3>1 DEF Encoded
  <2>5. CASE ~(k <= Len(r.output))
    <3>1. /\ k - Len(r.output) \in DOMAIN Preamble
          /\ s.output[k] = Preamble[k - Len(r.output)]
      BY <2>2, <2>3, <2>5
    <3> QED BY <1>7, <1>8, <2>3, <3>1
  <2> QED BY <2>4, <2>5
<1>9. Sorted(Y[2], {}) /\ FramesOf(Y[2]) \subseteq FramesOf(X[2])
  <2>1. Sorted(Encoded(r), {})
    <3>1. 2 \in 1..5 OBVIOUS
    <3> QED BY <1>5, <1>6, <3>1 DEF Ordered
  <2>2. Sorted(Encoded(s), {}) BY <1>8, <2>1 DEF Sorted
  <2>3. FramesOf(Encoded(s)) \subseteq FramesOf(Encoded(r)) BY <1>8 DEF FramesOf
  <2> QED BY <1>5, <2>2, <2>3
<1>10. \A a \in 1..5 : Sorted(Y[a], {}) /\ FramesOf(Y[a]) \subseteq FramesOf(X[a])
  BY <1>4, <1>6, <1>9 DEF Ordered
<1>11. Ordered(Y, 5, {}) /\ InStages(Y, 5) \subseteq InStages(X, 5)
  BY <1>6, <1>10, StagesLose
<1> QED BY <1>11 DEF X, Y, r, s, TurnKept, InTurn, EncFrames

\* Every step of a thread and of its codec, and the calls of the main thread that offer
\* no frame.
LEMMA ThreadKeepsTurn ==
  ASSUME enc \in Objects, enc' \in Objects, NEW t \in Enc, InTurn(enc[t]),
         \/ EncPut(t) \/ EncStart(t) \/ EncExit(t) \/ ClearListener(t)
         \/ EncRun(t) \/ EncCodec(t) \/ CallbackReturns(t) \/ CallbackThrows(t)
  PROVE  TurnKept(enc[t], enc'[t])
<1> DEFINE r == enc[t]
           s == enc'[t]
           Untouched == /\ s.outData = r.outData /\ s.output = r.output
                        /\ s.pending = r.pending /\ s.mQueue = r.mQueue /\ s.caller = r.caller
<1>1. ASSUME Untouched PROVE TurnKept(r, s)
  BY <1>1, StagesUntouched
<1>2. CASE EncStart(t) \/ EncExit(t) \/ ClearListener(t)
  BY <1>1, <1>2 DEF EncStart, EncExit, ClearListener, Objects, EncState
<1>3. CASE InitEncodeCodec(t) \/ CallListener(t) \/ CallbackThrows(t)
  BY <1>1, <1>3 DEF InitEncodeCodec, CallListener, CallbackThrows, Objects, EncState
<1>4. CASE DequeueInputBuffer(t)
  <2>1. CASE enc' = [enc EXCEPT ![t].pc = "drain"] BY <1>1, <2>1 DEF Objects, EncState
  <2>2. CASE \E i \in InputIndex :
               enc' = [enc EXCEPT ![t].pc = "drain", ![t].inBuf[i] = "client"]
    BY <1>1, <2>2 DEF Objects, EncState
  <2>3. CASE \E i \in InputIndex :
               enc' = [enc EXCEPT ![t].pc = "take", ![t].inputIndex = i,
                                  ![t].inBuf[i] = "client"]
    BY <1>1, <2>3 DEF Objects, EncState
  <2> QED BY <1>4, <2>1, <2>2, <2>3 DEF DequeueInputBuffer
<1>5. CASE CallbackReturns(t) \/ ReleaseEncodeCodec(t)
  <2>1. /\ r \in EncState /\ s \in EncState BY DEF Objects
  <2>2. /\ s.mQueue = r.mQueue /\ s.caller = r.caller
        /\ s.outData = r.outData \/ s.outData = <<>>
        /\ s.output = r.output \/ s.output = <<>>
        /\ s.pending = r.pending \/ s.pending = <<>>
    BY <1>5 DEF CallbackReturns, AfterOutput, ReleaseEncodeCodec, Objects, EncState
  <2>3. InTurn(r) OBVIOUS
  <2> HIDE DEF r, s
  <2> DEFINE X == EncStages(r)
             Y == EncStages(s)
  <2>4. Y[4] = X[4] /\ Y[5] = X[5] BY <2>2, StageUntouched
  <2>5. Y[1] = X[1] \/ FramesOf(Y[1]) = {}
    <3>1. CASE s.outData = <<>>
      <4>1. Y[1] = <<NoFrame>> BY <2>1, <3>1, EncStagesType, NoFrames
      <4> QED BY <4>1, NoFrames
    <3> QED BY <2>2, <3>1, StageUntouched
  <2>6. Y[2] = X[2] \/ FramesOf(Y[2]) = {}
    <3>1. CASE s.output = <<>>
      <4>1. Y[2] = Encoded(s) BY <2>1, EncStagesType
      <4>2. FramesOf(Encoded(s)) = {} BY <3>1 DEF Encoded, FramesOf
      <4> QED BY <4>1, <4>2
    <3> QED BY <2>2, <3>1, StageUntouched
  <2>7. Y[3] = X[3] \/ FramesOf(Y[3]) = {}
    <3>1. CASE s.pending = <<>>
      <4>1. Y[3] = Submitted(s) BY <2>1, EncStagesType
      <4>2. FramesOf(Submitted(s)) = {} BY <3>1 DEF Submitted, FramesOf
      <4> QED BY <4>1, <4>2
    <3> QED BY <2>2, <3>1, StageUntouched
  <2> HIDE DEF X, Y
  <2>8. \A a \in {1, 2, 3, 4, 5} :
           Y[a] = X[a] \/ FramesOf(Y[a]) = {} \/ IsTailOf(Y[a], X[a])
    BY <2>4, <2>5, <2>6, <2>7
  <2>9. 1..5 = {1, 2, 3, 4, 5} OBVIOUS
  <2> QED BY <2>1, <2>3, <2>8, <2>9, StagesOnlyLose DEF X, Y, r, s
<1> QED
  BY <1>2, <1>3, <1>4, <1>5, PutKeepsTurn, TakeKeepsTurn, EncodeKeepsTurn, DequeueKeepsTurn,
     DrainKeepsTurn, ConfigureKeepsTurn DEF EncRun, EncCodec

\* A frame newer than all in flight is offered.
LEMMA OfferKeepsTurn ==
  ASSUME enc \in Objects, enc' \in Objects, NEW t \in Enc, InTurn(enc[t]), NEW f \in Nat,
         \A x \in EncFrames(enc[t]) : x < f, SetFrameData(t, f)
  PROVE  InTurn(enc'[t]) /\ EncFrames(enc'[t]) \subseteq EncFrames(enc[t]) \cup ({f} \ {NoFrame})
<1> DEFINE r == enc[t]
           s == enc'[t]
           X == EncStages(r)
           Y == EncStages(s)
<1>1. r \in EncState /\ s \in EncState BY DEF Objects
<1>2. /\ s.outData = r.outData /\ s.output = r.output
      /\ s.pending = r.pending /\ s.mQueue = r.mQueue
      /\ s.caller = r.caller \/ s.caller = f
  BY DEF SetFrameData, Objects, EncState
<1>3. InTurn(r) OBVIOUS
<1>4. \A x \in EncFrames(r) : x < f OBVIOUS
<1> HIDE DEF r, s
<1>5. CASE s.caller = r.caller
  BY <1>2, <1>3, <1>5, StagesUntouched DEF TurnKept, r, s
<1>6. CASE s.caller = f
  <2>1. /\ X \in [1..5 -> Seq(Nat)] /\ Y \in [1..5 -> Seq(Nat)]
        /\ Y[5] = <<f>>
    BY <1>1, <1>6, EncStagesType
  <2>2. Y[1] = X[1] /\ Y[2] = X[2] /\ Y[3] = X[3] /\ Y[4] = X[4]
    BY <1>2, StageUntouched
  <2>3. Ordered(X, 5, {}) BY <1>3 DEF InTurn
  <2>4. AllFollow({f} \ {NoFrame}, InStages(X, 5), {})
    <3>1. \A x \in InStages(X, 5) : x < f BY <1>4 DEF EncFrames
    <3>2. \A x \in InStages(X, 5) : x \in Nat
      <4>1. ASSUME NEW a \in 1..5, NEW k \in DOMAIN X[a] PROVE X[a][k] \in Nat
        <5> HIDE DEF X, Y
        <5>1. X[a] \in Seq(Nat) BY <2>1
        <5> QED BY <5>1
      <4> HIDE DEF X, Y
      <4> QED BY <4>1 DEF InStages, FramesOf
    <3> HIDE DEF X, Y
    <3> QED BY <3>1, <3>2 DEF AllFollow, Follows
  <2> HIDE DEF X, Y
  <2>5. Receives(Y[5], X[5], f) BY <2>1 DEF Receives
  <2>6. \A b \in 1..5 : b # 5 => Y[b] = X[b]
    <3>1. 1..5 = {1, 2, 3, 4, 5} OBVIOUS
    <3> QED BY <2>2, <3>1
  <2>7. 5 \in Nat \ {0} OBVIOUS
  <2>8. Ordered(Y, 5, {}) /\ InStages(Y, 5) \subseteq InStages(X, 5) \cup ({f} \ {NoFrame})
    BY <2>1, <2>3, <2>4, <2>5, <2>6, <2>7, StagesEnter
  <2> QED BY <2>8 DEF X, Y, InTurn, EncFrames, r, s
<1> QED BY <1>2, <1>5, <1>6

\* The frames in flight are in camera order, and the camera has taken them.
OrderInv == \A t \in Enc : InTurn(enc[t]) /\ EncFrames(enc[t]) \subseteq 1..shot

LEMMA OrderAtInit == EncInit => OrderInv /\ \A t \in Enc : EncFrames(enc[t]) = {}
<1> DEFINE r == AbsentEncoder
<1>1. /\ FramesOf(EncStages(r)[1]) = {} /\ FramesOf(EncStages(r)[2]) = {}
      /\ FramesOf(EncStages(r)[3]) = {} /\ FramesOf(EncStages(r)[4]) = {}
      /\ FramesOf(EncStages(r)[5]) = {}
  <2>1. /\ r.outData = <<>> /\ r.output = <<>> /\ r.pending = <<>> /\ r.mQueue = <<>>
        /\ r.caller = NoFrame
    BY DEF AbsentEncoder
  <2> HIDE DEF r
  <2>2. EncStages(r)[1] = <<NoFrame>> /\ EncStages(r)[5] = <<NoFrame>>
    BY <2>1, NoFrames DEF EncStages
  <2>3. EncStages(r)[2] = Encoded(r) /\ EncStages(r)[3] = Submitted(r) /\ EncStages(r)[4] = <<>>
    BY <2>1 DEF EncStages
  <2>4. FramesOf(Encoded(r)) = {} /\ FramesOf(Submitted(r)) = {}
    BY <2>1 DEF Encoded, Submitted, FramesOf
  <2> QED BY <2>2, <2>3, <2>4, NoFrames
<1> HIDE DEF r
<1>2. \A a \in 1..5 : FramesOf(EncStages(r)[a]) = {}
  <2>1. 1..5 = {1, 2, 3, 4, 5} OBVIOUS
  <2> QED BY <1>1, <2>1
<1>3. InTurn(r) BY <1>2 DEF InTurn, Ordered, Sorted, AllFollow, FramesOf
<1>4. EncFrames(r) = {} BY <1>2 DEF EncFrames, InStages
<1> QED BY <1>3, <1>4 DEF EncInit, OrderInv, r

LEMMA OrderStep ==
  ASSUME enc \in Objects, enc' \in Objects, shot \in Nat, OrderInv, [EncNext]_encVars
  PROVE  OrderInv'
<1>1. CASE UNCHANGED encVars BY <1>1 DEF encVars, OrderInv
<1>2. CASE EncNext
  <2>1. PICK t \in Enc : EncStep(t) BY <1>2 DEF EncNext, EncStep
  <2>2. \A u \in Enc : u # t => enc'[u] = enc[u] BY <2>1, OtherObjects
  <2>3. CASE CameraFrame(t)
    <3>1. shot' = shot + 1 /\ SetFrameData(t, shot') BY <2>3 DEF CameraFrame
    <3>2. \A x \in EncFrames(enc[t]) : x < shot' BY <3>1 DEF OrderInv
    <3>3. /\ InTurn(enc'[t])
          /\ EncFrames(enc'[t]) \subseteq EncFrames(enc[t]) \cup ({shot'} \ {NoFrame})
      BY <3>1, <3>2, OfferKeepsTurn DEF OrderInv
    <3>4. 1..shot \subseteq 1..shot' /\ shot' \in 1..shot' BY <3>1
    <3> QED BY <2>2, <3>3, <3>4 DEF OrderInv
  <2>4. CASE ~CameraFrame(t)
    <3>1. shot' = shot BY <2>1, <2>4 DEF EncStep, EncMain
    <3>2. TurnKept(enc[t], enc'[t])
      BY <2>1, <2>4, ThreadKeepsTurn DEF EncStep, EncMain, OrderInv
    <3> QED BY <2>2, <3>1, <3>2 DEF OrderInv, TurnKept
  <2> QED BY <2>3, <2>4
<1> QED BY <1>1, <1>2

LEMMA OrderMeansInOrder ==
  ASSUME enc \in Objects, shot \in Nat, OrderInv
  PROVE  InOrder
<1> SUFFICES ASSUME NEW t \in Enc
             PROVE  LET s == InFlight(t)
                        IsFrame(k) == s[k] # NoFrame
                    IN  \A j, k \in DOMAIN s :
                          /\ j < k /\ IsFrame(j) /\ IsFrame(k) => s[j] < s[k]
                          /\ s[k] <= shot
  BY DEF InOrder
<1> DEFINE s == InFlight(t)
<1>1. /\ s \in Seq(Nat) /\ Sorted(s, {}) /\ FramesOf(s) \subseteq 1..shot
  BY StagesInOrder DEF OrderInv, Objects
<1> HIDE DEF s
<1>2. ASSUME NEW j \in DOMAIN s, NEW k \in DOMAIN s
      PROVE  /\ j < k /\ s[j] # NoFrame /\ s[k] # NoFrame => s[j] < s[k]
             /\ s[k] <= shot
  <2>1. s[k] # NoFrame => s[k] \in 1..shot BY <1>1 DEF FramesOf
  <2> QED BY <1>1, <2>1 DEF Sorted, Follows, NoFrame
<1> QED BY <1>2 DEF s

LEMMA OrderInvariant == EncSafety => []OrderInv
<1>1. EncInit => OrderInv BY OrderAtInit
<1>2. BufferInv => enc \in Objects /\ shot \in Nat BY DEF BufferInv, EncTypeOK, Objects
<1>3. BufferInv' => enc' \in Objects BY DEF BufferInv, EncTypeOK, Objects
<1>4. BufferInv /\ BufferInv' /\ OrderInv /\ [EncNext]_encVars => OrderInv'
  BY <1>2, <1>3, OrderStep
<1> QED BY <1>1, <1>4, BufferInvariant, PTL DEF EncSafety

\* No frame overtakes another on its way through the queue (H264EncodeThread.java:70),
\* the codec's buffers and the packet handed to the listener, and none is there twice, for
\* any number of threads, buffers and frames, any queue capacity and any frames the codec
\* makes key frames.
THEOREM FramesKeepTheirOrder == EncSpec => []InOrder
<1>1. BufferInv /\ OrderInv => InOrder
  BY OrderMeansInOrder DEF BufferInv, EncTypeOK, Objects
<1> QED BY <1>1, BufferInvariant, OrderInvariant, PTL DEF EncSpec

-----------------------------------------------------------------------------
\* In the pipeline too, the frames on their way to the listener are in camera order.
THEOREM PipelineKeepsOrder == Spec => []InOrder
<1>1. BufferInv /\ OrderInv => InOrder
  BY OrderMeansInOrder DEF BufferInv, EncTypeOK, Objects
<1> QED BY <1>1, PipelineRefinesEncoder, BufferInvariant, OrderInvariant, PTL DEF EncoderContract

-----------------------------------------------------------------------------
\* The stages of a decoder thread.
Decoded(r) == [k \in DOMAIN r.output |-> r.output[k][2]]
SubmittedPackets(r) == [k \in DOMAIN r.pending |-> FrameOf(r.pending[k][2])]
QueuedPackets(r) == [k \in DOMAIN r.mQueue |-> FrameOf(r.mQueue[k])]
DecStages(r) ==
  [a \in 1..4 |->
    IF a = 1 THEN <<r.shown>>
    ELSE IF a = 2 THEN Decoded(r)
    ELSE IF a = 3 THEN SubmittedPackets(r)
    ELSE QueuedPackets(r)]
DecFrames(r) == InStages(DecStages(r), 4)

LEMMA DecStagesType ==
  ASSUME NEW r \in Decoder
  PROVE  /\ DecStages(r) \in [1..4 -> Seq(Nat)]
         /\ DecStages(r)[1] = <<r.shown>>
         /\ DecStages(r)[2] = Decoded(r)
         /\ DecStages(r)[3] = SubmittedPackets(r)
         /\ DecStages(r)[4] = QueuedPackets(r)
         /\ \A a \in 1..4 : DecStages(r)[a] \in Seq(Nat)
<1>1. \A f \in AnyPicture : f \in Nat
  BY FrameOfType DEF AnyPicture, NoFrame
<1>2. <<r.shown>> \in Seq(Nat)
  <2>1. r.shown \in AnyPicture BY DEF Decoder
  <2>2. r.shown \in Nat BY <1>1, <2>1
  <2> QED BY <2>2
<1>3. Decoded(r) \in Seq(Nat)
  <2>1. r.output \in Seq(OutputIndex \X AnyPicture) BY DEF Decoder, Outputs
  <2>2. \A k \in DOMAIN r.output : r.output[k][2] \in AnyPicture BY <2>1
  <2>3. Len(r.output) \in Nat /\ DOMAIN r.output = 1..Len(r.output) BY <2>1
  <2>4. \A k \in DOMAIN r.output : r.output[k][2] \in Nat BY <1>1, <2>2
  <2> QED BY <2>3, <2>4, SeqDef DEF Decoded
<1>4. SubmittedPackets(r) \in Seq(Nat)
  <2>1. r.pending \in Seq(InputIndexD \X NalUnits) BY DEF Decoder, DecSubmissions
  <2>2. \A k \in DOMAIN r.pending : r.pending[k][2] \in NalUnits BY <2>1
  <2>3. \A k \in DOMAIN r.pending : FrameOf(r.pending[k][2]) \in Nat BY <2>2, FrameOfType
  <2>4. Len(r.pending) \in Nat /\ DOMAIN r.pending = 1..Len(r.pending) BY <2>1
  <2> QED BY <2>3, <2>4, SeqDef DEF SubmittedPackets
<1>5. QueuedPackets(r) \in Seq(Nat)
  <2>1. r.mQueue \in Seq(NalUnits) BY DEF Decoder, Packets
  <2>2. \A k \in DOMAIN r.mQueue : FrameOf(r.mQueue[k]) \in Nat BY <2>1, FrameOfType
  <2>3. Len(r.mQueue) \in Nat /\ DOMAIN r.mQueue = 1..Len(r.mQueue) BY <2>1
  <2> QED BY <2>2, <2>3, SeqDef DEF QueuedPackets
<1> QED BY <1>2, <1>3, <1>4, <1>5 DEF DecStages

LEMMA DecStageUntouched ==
  ASSUME NEW r, NEW s
  PROVE  /\ s.shown = r.shown => DecStages(s)[1] = DecStages(r)[1]
         /\ s.output = r.output => DecStages(s)[2] = DecStages(r)[2]
         /\ s.pending = r.pending => DecStages(s)[3] = DecStages(r)[3]
         /\ s.mQueue = r.mQueue => DecStages(s)[4] = DecStages(r)[4]
BY DEF DecStages, Decoded, SubmittedPackets, QueuedPackets

LEMMA DecodedTail ==
  ASSUME NEW r \in Decoder, NEW s \in Decoder, r.output # <<>>, s.output = Tail(r.output)
  PROVE  /\ IsTailOf(DecStages(s)[2], DecStages(r)[2])
         /\ DecStages(r)[2][1] = Head(r.output)[2]
<1>1. r.output \in Seq(OutputIndex \X AnyPicture) BY DEF Decoder, Outputs
<1>2. /\ Len(s.output) = Len(r.output) - 1 /\ Len(r.output) \in Nat \ {0}
      /\ DOMAIN s.output = 1..Len(s.output) /\ DOMAIN r.output = 1..Len(r.output)
      /\ \A k \in 1..Len(s.output) : s.output[k] = r.output[k + 1] /\ k + 1 \in 1..Len(r.output)
      /\ Head(r.output) = r.output[1]
  BY <1>1
<1>3. /\ DecStages(r)[2] = Decoded(r) /\ DecStages(s)[2] = Decoded(s)
      /\ Decoded(r) \in Seq(Nat) /\ Decoded(s) \in Seq(Nat)
  BY DecStagesType
<1>4. Len(Decoded(r)) = Len(r.output) /\ Len(Decoded(s)) = Len(s.output)
  BY <1>2, <1>3 DEF Decoded
<1>5. /\ \A k \in 1..Len(s.output) : Decoded(s)[k] = Decoded(r)[k + 1]
      /\ Decoded(r)[1] = Head(r.output)[2]
  BY <1>2 DEF Decoded
<1> QED BY <1>2, <1>3, <1>4, <1>5 DEF IsTailOf

LEMMA DecodedAppend ==
  ASSUME NEW r \in Decoder, NEW s \in Decoder, NEW o, NEW f,
         s.output = Append(r.output, <<o, f>>)
  PROVE  IsAppendOf(DecStages(s)[2], DecStages(r)[2], f)
<1>1. /\ r.output \in Seq(OutputIndex \X AnyPicture)
      /\ s.output \in Seq(OutputIndex \X AnyPicture)
  BY DEF Decoder, Outputs
<1>2. /\ Len(s.output) = Len(r.output) + 1 /\ Len(r.output) \in Nat
      /\ DOMAIN s.output = 1..Len(s.output) /\ DOMAIN r.output = 1..Len(r.output)
      /\ \A k \in 1..Len(r.output) : s.output[k] = r.output[k]
      /\ s.output[Len(s.output)] = <<o, f>>
  BY <1>1
<1>3. /\ DecStages(r)[2] = Decoded(r) /\ DecStages(s)[2] = Decoded(s)
      /\ Decoded(r) \in Seq(Nat) /\ Decoded(s) \in Seq(Nat)
  BY DecStagesType
<1>4. Len(Decoded(r)) = Len(r.output) /\ Len(Decoded(s)) = Len(s.output)
  BY <1>2, <1>3 DEF Decoded
<1>5. /\ \A k \in 1..Len(r.output) : Decoded(s)[k] = Decoded(r)[k]
      /\ Decoded(s)[Len(s.output)] = f
  BY <1>2 DEF Decoded
<1> QED BY <1>2, <1>3, <1>4, <1>5 DEF IsAppendOf

LEMMA SubmittedPacketsTail ==
  ASSUME NEW r \in Decoder, NEW s \in Decoder, r.pending # <<>>, s.pending = Tail(r.pending)
  PROVE  /\ IsTailOf(DecStages(s)[3], DecStages(r)[3])
         /\ DecStages(r)[3][1] = FrameOf(Head(r.pending)[2])
<1>1. r.pending \in Seq(InputIndexD \X NalUnits) BY DEF Decoder, DecSubmissions
<1>2. /\ Len(s.pending) = Len(r.pending) - 1 /\ Len(r.pending) \in Nat \ {0}
      /\ DOMAIN s.pending = 1..Len(s.pending) /\ DOMAIN r.pending = 1..Len(r.pending)
      /\ \A k \in 1..Len(s.pending) : s.pending[k] = r.pending[k + 1] /\ k + 1 \in 1..Len(r.pending)
      /\ Head(r.pending) = r.pending[1]
  BY <1>1
<1>3. /\ DecStages(r)[3] = SubmittedPackets(r) /\ DecStages(s)[3] = SubmittedPackets(s)
      /\ SubmittedPackets(r) \in Seq(Nat) /\ SubmittedPackets(s) \in Seq(Nat)
  BY DecStagesType
<1>4. Len(SubmittedPackets(r)) = Len(r.pending) /\ Len(SubmittedPackets(s)) = Len(s.pending)
  BY <1>2, <1>3 DEF SubmittedPackets
<1>5. /\ \A k \in 1..Len(s.pending) : SubmittedPackets(s)[k] = SubmittedPackets(r)[k + 1]
      /\ SubmittedPackets(r)[1] = FrameOf(Head(r.pending)[2])
  BY <1>2 DEF SubmittedPackets
<1> QED BY <1>2, <1>3, <1>4, <1>5 DEF IsTailOf

LEMMA SubmittedPacketsAppend ==
  ASSUME NEW r \in Decoder, NEW s \in Decoder, NEW i, NEW packet,
         s.pending = Append(r.pending, <<i, packet>>)
  PROVE  IsAppendOf(DecStages(s)[3], DecStages(r)[3], FrameOf(packet))
<1>1. /\ r.pending \in Seq(InputIndexD \X NalUnits)
      /\ s.pending \in Seq(InputIndexD \X NalUnits)
  BY DEF Decoder, DecSubmissions
<1>2. /\ Len(s.pending) = Len(r.pending) + 1 /\ Len(r.pending) \in Nat
      /\ DOMAIN s.pending = 1..Len(s.pending) /\ DOMAIN r.pending = 1..Len(r.pending)
      /\ \A k \in 1..Len(r.pending) : s.pending[k] = r.pending[k]
      /\ s.pending[Len(s.pending)] = <<i, packet>>
  BY <1>1
<1>3. /\ DecStages(r)[3] = SubmittedPackets(r) /\ DecStages(s)[3] = SubmittedPackets(s)
      /\ SubmittedPackets(r) \in Seq(Nat) /\ SubmittedPackets(s) \in Seq(Nat)
  BY DecStagesType
<1>4. Len(SubmittedPackets(r)) = Len(r.pending) /\ Len(SubmittedPackets(s)) = Len(s.pending)
  BY <1>2, <1>3 DEF SubmittedPackets
<1>5. /\ \A k \in 1..Len(r.pending) : SubmittedPackets(s)[k] = SubmittedPackets(r)[k]
      /\ SubmittedPackets(s)[Len(s.pending)] = FrameOf(packet)
  BY <1>2 DEF SubmittedPackets
<1> QED BY <1>2, <1>3, <1>4, <1>5 DEF IsAppendOf

LEMMA QueuedPacketsTail ==
  ASSUME NEW r \in Decoder, NEW s \in Decoder, r.mQueue # <<>>, s.mQueue = Tail(r.mQueue)
  PROVE  /\ IsTailOf(DecStages(s)[4], DecStages(r)[4])
         /\ DecStages(r)[4][1] = FrameOf(Head(r.mQueue))
<1>1. r.mQueue \in Seq(NalUnits) BY DEF Decoder, Packets
<1>2. /\ Len(s.mQueue) = Len(r.mQueue) - 1 /\ Len(r.mQueue) \in Nat \ {0}
      /\ DOMAIN s.mQueue = 1..Len(s.mQueue) /\ DOMAIN r.mQueue = 1..Len(r.mQueue)
      /\ \A k \in 1..Len(s.mQueue) : s.mQueue[k] = r.mQueue[k + 1] /\ k + 1 \in 1..Len(r.mQueue)
      /\ Head(r.mQueue) = r.mQueue[1]
  BY <1>1
<1>3. /\ DecStages(r)[4] = QueuedPackets(r) /\ DecStages(s)[4] = QueuedPackets(s)
      /\ QueuedPackets(r) \in Seq(Nat) /\ QueuedPackets(s) \in Seq(Nat)
  BY DecStagesType
<1>4. Len(QueuedPackets(r)) = Len(r.mQueue) /\ Len(QueuedPackets(s)) = Len(s.mQueue)
  BY <1>2, <1>3 DEF QueuedPackets
<1>5. /\ \A k \in 1..Len(s.mQueue) : QueuedPackets(s)[k] = QueuedPackets(r)[k + 1]
      /\ QueuedPackets(r)[1] = FrameOf(Head(r.mQueue))
  BY <1>2 DEF QueuedPackets
<1> QED BY <1>2, <1>3, <1>4, <1>5 DEF IsTailOf

LEMMA QueuedPacketsAppend ==
  ASSUME NEW r \in Decoder, NEW s \in Decoder, NEW packet, s.mQueue = Append(r.mQueue, packet)
  PROVE  IsAppendOf(DecStages(s)[4], DecStages(r)[4], FrameOf(packet))
<1>1. r.mQueue \in Seq(NalUnits) /\ s.mQueue \in Seq(NalUnits)
  BY DEF Decoder, Packets
<1>2. /\ Len(s.mQueue) = Len(r.mQueue) + 1 /\ Len(r.mQueue) \in Nat
      /\ DOMAIN s.mQueue = 1..Len(s.mQueue) /\ DOMAIN r.mQueue = 1..Len(r.mQueue)
      /\ \A k \in 1..Len(r.mQueue) : s.mQueue[k] = r.mQueue[k]
      /\ s.mQueue[Len(s.mQueue)] = packet
  BY <1>1
<1>3. /\ DecStages(r)[4] = QueuedPackets(r) /\ DecStages(s)[4] = QueuedPackets(s)
      /\ QueuedPackets(r) \in Seq(Nat) /\ QueuedPackets(s) \in Seq(Nat)
  BY DecStagesType
<1>4. Len(QueuedPackets(r)) = Len(r.mQueue) /\ Len(QueuedPackets(s)) = Len(s.mQueue)
  BY <1>2, <1>3 DEF QueuedPackets
<1>5. /\ \A k \in 1..Len(r.mQueue) : QueuedPackets(s)[k] = QueuedPackets(r)[k]
      /\ QueuedPackets(s)[Len(s.mQueue)] = FrameOf(packet)
  BY <1>2 DEF QueuedPackets
<1> QED BY <1>2, <1>3, <1>4, <1>5 DEF IsAppendOf

\* A step of one decoder reorders nothing and lets no frame in, whichever frames are late.
DecKept(r, s) ==
  \A late : Ordered(DecStages(r), 4, late) =>
    Ordered(DecStages(s), 4, late) /\ DecFrames(s) \subseteq DecFrames(r)

LEMMA DecStagesOnlyLose ==
  ASSUME NEW r \in Decoder, NEW s \in Decoder,
         \A a \in 1..4 : \/ DecStages(s)[a] = DecStages(r)[a]
                         \/ IsTailOf(DecStages(s)[a], DecStages(r)[a])
  PROVE  DecKept(r, s)
<1> DEFINE X == DecStages(r)
           Y == DecStages(s)
<1>1. \A a \in 1..4 : X[a] \in Seq(Nat) /\ Y[a] \in Seq(Nat) BY DecStagesType
<1>2. \A a \in 1..4 : Y[a] = X[a] \/ IsTailOf(Y[a], X[a]) OBVIOUS
<1> HIDE DEF X, Y
<1>3. ASSUME NEW late, Ordered(X, 4, late)
      PROVE  Ordered(Y, 4, late) /\ InStages(Y, 4) \subseteq InStages(X, 4)
  <2>1. ASSUME NEW a \in 1..4
        PROVE  Sorted(Y[a], late) /\ FramesOf(Y[a]) \subseteq FramesOf(X[a])
    <3>1. Sorted(X[a], late) BY <1>3 DEF Ordered
    <3>2. CASE Y[a] = X[a] BY <3>1, <3>2
    <3>3. CASE IsTailOf(Y[a], X[a])
      <4>1. X[a] \in Seq(Nat) /\ Y[a] \in Seq(Nat) BY <1>1
      <4> QED BY <3>1, <3>3, <4>1, SortedTail DEF Leaves
    <3> QED BY <1>2, <3>2, <3>3
  <2> QED BY <1>3, <2>1, StagesLose
<1> QED BY <1>3 DEF X, Y, DecKept, DecFrames

\* The frame at the front of stage a + 1 passes to stage a.
LEMMA DecStagesPass ==
  ASSUME NEW r \in Decoder, NEW s \in Decoder, NEW a \in 1..3, NEW d \in 1..4, d = a + 1,
         IsTailOf(DecStages(s)[d], DecStages(r)[d]),
         Receives(DecStages(s)[a], DecStages(r)[a], DecStages(r)[d][1]),
         \A b \in 1..4 : b # a /\ b # d => DecStages(s)[b] = DecStages(r)[b]
  PROVE  DecKept(r, s)
<1> DEFINE X == DecStages(r)
           Y == DecStages(s)
           f == X[d][1]
<1>1. /\ X \in [1..4 -> Seq(Nat)] /\ Y \in [1..4 -> Seq(Nat)]
      /\ \A b \in 1..4 : X[b] \in Seq(Nat) /\ Y[b] \in Seq(Nat)
  BY DecStagesType
<1>2. /\ IsTailOf(Y[d], X[d])
      /\ Receives(Y[a], X[a], f)
      /\ \A b \in 1..4 : b # a /\ b # d => Y[b] = X[b]
  OBVIOUS
<1>3. a \in 1..4 OBVIOUS
<1> HIDE DEF X, Y
<1>4. ASSUME NEW late, Ordered(X, 4, late)
      PROVE  Ordered(Y, 4, late) /\ InStages(Y, 4) \subseteq InStages(X, 4)
  <2>1. X[d] \in Seq(Nat) /\ Y[d] \in Seq(Nat) /\ Sorted(X[d], late)
    BY <1>1, <1>4 DEF Ordered
  <2>2. Leaves(f, X[d], Y[d], late)
    BY <1>2, <2>1, SortedTail
  <2> HIDE DEF f
  <2> QED BY <1>1, <1>2, <1>3, <1>4, <2>2, StagesPass
<1> QED BY <1>4 DEF X, Y, DecKept, DecFrames

\* The calls of the main thread, and the steps of run() that pass no packet on.
LEMMA DecoderUntouched ==
  ASSUME NEW r, NEW s, s.shown = r.shown, s.output = r.output, s.pending = r.pending,
         s.mQueue = r.mQueue
  PROVE  DecKept(r, s)
<1>1. DecStages(s) = DecStages(r)
  BY DEF DecStages, Decoded, SubmittedPackets, QueuedPackets
<1> QED BY <1>1 DEF DecKept, DecFrames

LEMMA DecTakeKeeps ==
  ASSUME dec \in Decoders, dec' \in Decoders, NEW d \in Dec, DecTakeAndQueueInput(d)
  PROVE  DecKept(dec[d], dec'[d])
<1> DEFINE r == dec[d]
           s == dec'[d]
           packet == Head(r.mQueue)
<1>1. r \in Decoder /\ s \in Decoder BY DEF Decoders
<1>2. /\ s.mQueue = Tail(r.mQueue) /\ r.mQueue # <<>>
      /\ s.shown = r.shown /\ s.output = r.output
      /\ s.pending = Append(r.pending, <<r.inputIndex, packet>>)
  BY DEF DecTakeAndQueueInput, Decoders, Decoder
<1> HIDE DEF r, s
<1>3. /\ IsTailOf(DecStages(s)[4], DecStages(r)[4])
      /\ DecStages(r)[4][1] = FrameOf(packet)
  BY <1>1, <1>2, QueuedPacketsTail
<1>4. IsAppendOf(DecStages(s)[3], DecStages(r)[3], FrameOf(packet))
  BY <1>1, <1>2, SubmittedPacketsAppend
<1>5. \A b \in 1..4 : b # 3 /\ b # 4 => DecStages(s)[b] = DecStages(r)[b]
  <2>1. \A b \in 1..4 : b = 1 \/ b = 2 \/ b = 3 \/ b = 4 OBVIOUS
  <2>2. DecStages(s)[1] = DecStages(r)[1] /\ DecStages(s)[2] = DecStages(r)[2]
    BY <1>2, DecStageUntouched
  <2> QED BY <2>1, <2>2
<1>6. 3 \in 1..3 /\ 4 \in 1..4 /\ 4 = 3 + 1 OBVIOUS
<1>7. Receives(DecStages(s)[3], DecStages(r)[3], DecStages(r)[4][1])
  BY <1>3, <1>4 DEF Receives
<1> QED BY <1>1, <1>3, <1>5, <1>6, <1>7, DecStagesPass DEF r, s

LEMMA DecDequeueOutputKeeps ==
  ASSUME dec \in Decoders, dec' \in Decoders, NEW d \in Dec, DecDequeueOutputBuffer(d)
  PROVE  DecKept(dec[d], dec'[d])
<1> DEFINE r == dec[d]
           s == dec'[d]
           f == Head(r.output)[2]
<1>1. r \in Decoder /\ s \in Decoder BY DEF Decoders
<1>2. /\ s.mQueue = r.mQueue /\ s.pending = r.pending
      /\ s.output = Tail(r.output) /\ r.output # <<>>
      /\ s.shown = r.shown \/ s.shown = f
  BY DEF DecDequeueOutputBuffer, Decoders, Decoder
<1> HIDE DEF r, s
<1>3. IsTailOf(DecStages(s)[2], DecStages(r)[2]) /\ DecStages(r)[2][1] = f
  BY <1>1, <1>2, DecodedTail
<1>4. DecStages(s)[3] = DecStages(r)[3] /\ DecStages(s)[4] = DecStages(r)[4]
  BY <1>2, DecStageUntouched
<1>5. \A b \in 1..4 : b = 1 \/ b = 2 \/ b = 3 \/ b = 4 OBVIOUS
<1>6. CASE s.shown = f
  <2>1. DecStages(s)[1] = <<f>> BY <1>1, <1>6, DecStagesType
  <2>2. Receives(DecStages(s)[1], DecStages(r)[1], DecStages(r)[2][1])
    BY <1>3, <2>1 DEF Receives
  <2>3. 1 \in 1..3 /\ 2 \in 1..4 /\ 2 = 1 + 1 OBVIOUS
  <2>4. \A b \in 1..4 : b # 1 /\ b # 2 => DecStages(s)[b] = DecStages(r)[b]
    BY <1>4, <1>5
  <2> QED BY <1>1, <1>3, <2>2, <2>3, <2>4, DecStagesPass DEF r, s
<1>7. CASE s.shown = r.shown
  <2>1. DecStages(s)[1] = DecStages(r)[1] BY <1>7, DecStageUntouched
  <2>2. \A a \in 1..4 : \/ DecStages(s)[a] = DecStages(r)[a]
                        \/ IsTailOf(DecStages(s)[a], DecStages(r)[a])
    BY <1>3, <1>4, <1>5, <2>1
  <2> QED BY <1>1, <2>2, DecStagesOnlyLose DEF r, s
<1> QED BY <1>2, <1>6, <1>7

LEMMA CodecDecodesKeeps ==
  ASSUME dec \in Decoders, dec' \in Decoders, NEW d \in Dec, CodecDecodes(d)
  PROVE  DecKept(dec[d], dec'[d])
<1> DEFINE r == dec[d]
           s == dec'[d]
           p == Head(r.pending)[2]
<1>1. r \in Decoder /\ s \in Decoder BY DEF Decoders
<1>2. /\ s.mQueue = r.mQueue /\ s.shown = r.shown
      /\ s.pending = Tail(r.pending) /\ r.pending # <<>>
      /\ s.output = r.output \/ \E o \in OutputIndex : s.output = Append(r.output, <<o, FrameOf(p)>>)
  <2> DEFINE consumed == [dec EXCEPT ![d].pending = Tail(@),
                                     ![d].inBuf[Head(dec[d].pending)[1]] = "free",
                                     ![d].canDecode = dec[d].canDecode \/ IsConfig(p)]
  <2>0. r.pending # <<>> BY DEF CodecDecodes
  <2>1. \/ dec' = consumed
        \/ \E o \in OutputIndex :
             dec' = [consumed EXCEPT ![d].outBuf[o] = "codec",
                                     ![d].output = Append(@, <<o, FrameOf(p)>>)]
    BY Zenon DEF CodecDecodes
  <2>2. /\ consumed[d].mQueue = r.mQueue /\ consumed[d].shown = r.shown
        /\ consumed[d].pending = Tail(r.pending) /\ consumed[d].output = r.output
        /\ DOMAIN consumed = Dec /\ DOMAIN consumed[d] = DOMAIN dec[d]
    BY DEF Decoders, Decoder
  <2>3. PICK e : e = consumed OBVIOUS
  <2>4. "output" \in DOMAIN dec[d] BY DEF Decoders, Decoder
  <2> HIDE DEF consumed
  <2>5. CASE dec' = consumed BY <2>0, <2>2, <2>5
  <2>6. ASSUME NEW o \in OutputIndex,
               dec' = [e EXCEPT ![d].outBuf[o] = "codec",
                                ![d].output = Append(@, <<o, FrameOf(p)>>)]
        PROVE  /\ s.mQueue = e[d].mQueue /\ s.shown = e[d].shown /\ s.pending = e[d].pending
               /\ s.output = Append(e[d].output, <<o, FrameOf(p)>>)
    BY <2>2, <2>3, <2>4, <2>6
  <2> HIDE DEF s, r, p
  <2>7. CASE \E o \in OutputIndex :
               dec' = [consumed EXCEPT ![d].outBuf[o] = "codec",
                                       ![d].output = Append(@, <<o, FrameOf(p)>>)]
    <3>1. PICK o \in OutputIndex :
               dec' = [e EXCEPT ![d].outBuf[o] = "codec",
                                ![d].output = Append(@, <<o, FrameOf(p)>>)]
      BY <2>3, <2>7
    <3> QED BY <2>0, <2>2, <2>3, <2>6, <3>1
  <2> QED BY <2>1, <2>5, <2>7
<1> HIDE DEF r, s, p
<1>3. /\ IsTailOf(DecStages(s)[3], DecStages(r)[3])
      /\ DecStages(r)[3][1] = FrameOf(p)
  BY <1>1, <1>2, SubmittedPacketsTail DEF p
<1>4. DecStages(s)[1] = DecStages(r)[1] /\ DecStages(s)[4] = DecStages(r)[4]
  BY <1>2, DecStageUntouched
<1>5. \A b \in 1..4 : b = 1 \/ b = 2 \/ b = 3 \/ b = 4 OBVIOUS
<1>6. CASE s.output = r.output
  <2>1. DecStages(s)[2] = DecStages(r)[2] BY <1>6, DecStageUntouched
  <2>2. \A a \in 1..4 : \/ DecStages(s)[a] = DecStages(r)[a]
                        \/ IsTailOf(DecStages(s)[a], DecStages(r)[a])
    BY <1>3, <1>4, <1>5, <2>1
  <2> QED BY <1>1, <2>2, DecStagesOnlyLose DEF r, s
<1>7. CASE \E o \in OutputIndex : s.output = Append(r.output, <<o, FrameOf(p)>>)
  <2>1. PICK o \in OutputIndex : s.output = Append(r.output, <<o, FrameOf(p)>>) BY <1>7
  <2>2. IsAppendOf(DecStages(s)[2], DecStages(r)[2], FrameOf(p))
    BY <1>1, <2>1, DecodedAppend
  <2>3. Receives(DecStages(s)[2], DecStages(r)[2], DecStages(r)[3][1])
    BY <1>3, <2>2 DEF Receives
  <2>4. 2 \in 1..3 /\ 3 \in 1..4 /\ 3 = 2 + 1 OBVIOUS
  <2>5. \A b \in 1..4 : b # 2 /\ b # 3 => DecStages(s)[b] = DecStages(r)[b]
    BY <1>4, <1>5
  <2> QED BY <1>1, <1>3, <2>3, <2>4, <2>5, DecStagesPass DEF r, s
<1> QED BY <1>2, <1>6, <1>7

\* Every step of a decoder thread and its codec, and the calls of the main thread.
LEMMA DecoderStepKeeps ==
  ASSUME dec \in Decoders, dec' \in Decoders, NEW d \in Dec,
         \/ DecRun(d) \/ CodecDecodes(d)
         \/ DecStart(d) \/ DecExit(d) \/ ClearRenderSurface(d)
  PROVE  DecKept(dec[d], dec'[d])
<1> DEFINE r == dec[d]
           s == dec'[d]
           Untouched == /\ s.shown = r.shown /\ s.output = r.output
                        /\ s.pending = r.pending /\ s.mQueue = r.mQueue
<1>1. ASSUME Untouched PROVE DecKept(r, s) BY <1>1, DecoderUntouched
<1>2. CASE DecStart(d) \/ DecExit(d) \/ ClearRenderSurface(d)
  BY <1>1, <1>2 DEF DecStart, DecExit, ClearRenderSurface, Decoders, Decoder
<1>3. CASE InitDecodeCodec(d) \/ DecDrainEnds(d) \/ DecReturns(d)
  BY <1>1, <1>3 DEF InitDecodeCodec, DecDrainEnds, DecReturns, Decoders, Decoder
<1>4. CASE DecDequeueInputBuffer(d)
  <2>1. CASE \E i \in InputIndexD :
               dec' = [dec EXCEPT ![d].pc = "take", ![d].inputIndex = i,
                                  ![d].inBuf[i] = "client"]
    BY <1>1, <2>1 DEF Decoders, Decoder
  <2>2. CASE dec' = [dec EXCEPT ![d].pc = "drain"] BY <1>1, <2>2 DEF Decoders, Decoder
  <2> QED BY <1>4, <2>1, <2>2, Zenon DEF DecDequeueInputBuffer
<1> QED
  BY <1>2, <1>3, <1>4, DecTakeKeeps, DecDequeueOutputKeeps, CodecDecodesKeeps DEF DecRun

-----------------------------------------------------------------------------
\* From an encoder thread to a decoder thread.

LEMMA DecStagesEnter ==
  ASSUME NEW r \in Decoder, NEW s \in Decoder, NEW f \in Nat, NEW late,
         Ordered(DecStages(r), 4, late),
         AllFollow({f} \ {NoFrame}, DecFrames(r), late),
         Receives(DecStages(s)[4], DecStages(r)[4], f),
         \A b \in 1..4 : b # 4 => DecStages(s)[b] = DecStages(r)[b]
  PROVE  /\ Ordered(DecStages(s), 4, late)
         /\ DecFrames(s) \subseteq DecFrames(r) \cup ({f} \ {NoFrame})
<1> DEFINE X == DecStages(r)
           Y == DecStages(s)
<1>1. X \in [1..4 -> Seq(Nat)] /\ Y \in [1..4 -> Seq(Nat)] BY DecStagesType
<1>2. /\ Ordered(X, 4, late)
      /\ Receives(Y[4], X[4], f)
      /\ \A b \in 1..4 : b # 4 => Y[b] = X[b]
  OBVIOUS
<1>3. AllFollow({f} \ {NoFrame}, InStages(X, 4), late) BY DEF DecFrames
<1>4. 4 \in Nat \ {0} OBVIOUS
<1> HIDE DEF X, Y
<1>5. /\ Ordered(Y, 4, late)
      /\ InStages(Y, 4) \subseteq InStages(X, 4) \cup ({f} \ {NoFrame})
  BY <1>1, <1>2, <1>3, <1>4, StagesEnter
<1> QED BY <1>5 DEF X, Y, DecFrames

\* A packet whose picture follows all a decoder holds comes to the end of its queue.
LEMMA DeliveryEnters ==
  ASSUME dec \in Decoders, dec' \in Decoders, NEW d \in Dec, NEW packet \in NalUnits,
         NEW f \in Nat, f = FrameOf(packet), SetDecodeData(d, packet), NEW late,
         Ordered(DecStages(dec[d]), 4, late),
         AllFollow({f} \ {NoFrame}, DecFrames(dec[d]), late)
  PROVE  /\ Ordered(DecStages(dec'[d]), 4, late)
         /\ DecFrames(dec'[d]) \subseteq DecFrames(dec[d]) \cup ({f} \ {NoFrame})
<1> DEFINE r == dec[d]
           s == dec'[d]
<1>1. r \in Decoder /\ s \in Decoder BY DEF Decoders
<1>2. /\ s.shown = r.shown /\ s.output = r.output /\ s.pending = r.pending
      /\ s.mQueue = Append(r.mQueue, packet)
  BY DEF SetDecodeData, Decoders, Decoder
<1>3. Ordered(DecStages(r), 4, late) /\ AllFollow({f} \ {NoFrame}, DecFrames(r), late)
  OBVIOUS
<1> HIDE DEF r, s
<1>4. Receives(DecStages(s)[4], DecStages(r)[4], f)
  BY <1>1, <1>2, QueuedPacketsAppend DEF Receives
<1>5. \A b \in 1..4 : b # 4 => DecStages(s)[b] = DecStages(r)[b]
  <2>1. \A b \in 1..4 : b = 1 \/ b = 2 \/ b = 3 \/ b = 4 OBVIOUS
  <2> QED BY <1>2, <2>1, DecStageUntouched
<1> QED BY <1>1, <1>3, <1>4, <1>5, DecStagesEnter DEF r, s

LEMMA MoreLate ==
  ASSUME NEW n, NEW X, NEW late, NEW more, late \subseteq more, Ordered(X, n, late)
  PROVE  Ordered(X, n, more)
<1>1. \A x, y : Follows(y, x, late) => Follows(y, x, more) BY DEF Follows
<1> QED BY <1>1 DEF Ordered, Sorted, AllFollow

\* The packet a callback returns from was the oldest its thread held.
LEMMA DeliveredFirst ==
  ASSUME enc \in Objects, enc' \in Objects, NEW t \in Enc, InTurn(enc[t]), CallbackReturns(t),
         NEW f, f = FrameOf(enc[t].outData)
  PROVE  /\ f \in Nat
         /\ {f} \ {NoFrame} \subseteq EncFrames(enc[t])
         /\ f # NoFrame => \A x \in EncFrames(enc'[t]) : f < x
<1> DEFINE r == enc[t]
           s == enc'[t]
           X == EncStages(r)
           Y == EncStages(s)
<1>1. r \in EncState /\ s \in EncState BY DEF Objects
<1>2. /\ s.mQueue = r.mQueue /\ s.caller = r.caller /\ s.outData = <<>>
      /\ s.output = r.output /\ s.pending = r.pending
  BY DEF CallbackReturns, AfterOutput, Objects, EncState
<1>3. f \in Nat
  <2>1. r.outData \in NalUnits BY <1>1 DEF EncState
  <2> QED BY <2>1, FrameOfType
<1>4. Ordered(X, 5, {}) BY DEF InTurn
<1>5. f = FrameOf(r.outData) OBVIOUS
<1> HIDE DEF r, s
<1>6. /\ Y[2] = X[2] /\ Y[3] = X[3] /\ Y[4] = X[4] /\ Y[5] = X[5]
  BY <1>2, StageUntouched
<1>7. X[1] = <<f>> /\ Y[1] = <<NoFrame>>
  BY <1>1, <1>2, <1>5, EncStagesType, NoFrames
<1> HIDE DEF X, Y
<1>8. FramesOf(X[1]) = {f} \ {NoFrame} /\ FramesOf(Y[1]) = {}
  BY <1>7 DEF FramesOf
<1>9. {f} \ {NoFrame} \subseteq InStages(X, 5)
  <2>1. 1 \in 1..5 OBVIOUS
  <2> QED BY <1>8, <2>1 DEF InStages
<1>10. ASSUME f # NoFrame, NEW x \in InStages(Y, 5) PROVE f < x
  <2>1. PICK a \in 1..5 : x \in FramesOf(Y[a]) BY DEF InStages
  <2>2. a = 1 \/ a = 2 \/ a = 3 \/ a = 4 \/ a = 5 OBVIOUS
  <2>3. a # 1 /\ x \in FramesOf(X[a]) BY <1>6, <1>8, <2>1, <2>2
  <2>4. AllFollow(FramesOf(X[a]), FramesOf(X[1]), {})
    <3>1. 1 \in 1..5 /\ 1 < a BY <2>3
    <3> QED BY <1>4, <3>1 DEF Ordered
  <2> QED BY <1>8, <1>10, <2>3, <2>4 DEF AllFollow, Follows
<1> QED BY <1>3, <1>9, <1>10 DEF X, Y, r, s, EncFrames

\* An encoder thread the activity forgot has lost its listener: surfaceDestroyed clears the
\* listener first.  Such a thread may still be in a callback it had entered before.
SilentInv == \A t \in Enc : AbandonedEncoder(t) => ~enc[t].mListener

\* A frame is with one thread only, and the camera has taken it; a thread not created has
\* none; those of the current encoder are newer than all others.
FlowInv ==
  /\ OrderInv
  /\ \A d \in Dec : DecFrames(dec[d]) \subseteq 1..shot
  /\ \A t, u \in Enc : t # u => EncFrames(enc[t]) \cap EncFrames(enc[u]) = {}
  /\ \A t \in Enc, d \in Dec : EncFrames(enc[t]) \cap DecFrames(dec[d]) = {}
  /\ \A t \in Enc : enc[t].pc = "absent" => EncFrames(enc[t]) = {}
  /\ mEncodeThread # null => \A x \in EncFrames(enc[mEncodeThread]) :
       /\ \A u \in Enc \ {mEncodeThread} : \A y \in EncFrames(enc[u]) : y < x
       /\ \A d \in Dec : \A y \in DecFrames(dec[d]) : y < x

\* The late frames of a decoder came from different encoder threads, each abandoned and
\* out of its last callback.
CameFrom(late, from) ==
  /\ late \subseteq 1..shot
  /\ from \in [late -> Enc]
  /\ \A f, h \in late : from[f] = from[h] => f = h
  /\ \A f \in late : AbandonedEncoder(from[f]) /\ enc[from[f]].pc # "callback"
LateInv ==
  \A d \in Dec : \E late, from :
    CameFrom(late, from) /\ Ordered(DecStages(dec[d]), 4, late)

\* A step that passes frames within threads only.
PassesWithin ==
  /\ \A t \in Enc : TurnKept(enc[t], enc'[t])
  /\ \A d \in Dec : DecKept(dec[d], dec'[d])
  /\ UNCHANGED shot

\* What such a step may do to the activity's encoder thread: keep it, forget it, make one.
KeepsAbandoned ==
  /\ mEncodeThread' = mEncodeThread \/ mEncodeThread' = null
     \/ (mEncodeThread' \in Enc /\ enc[mEncodeThread'].pc = "absent")
  /\ \A t \in Enc : enc[t].pc # "absent" => enc'[t].pc # "absent"
  /\ \A t \in Enc : AbandonedEncoder(t) /\ enc[t].pc # "callback" => enc'[t].pc # "callback"

LEMMA StaysAbandoned ==
  ASSUME KeepsAbandoned, NEW t \in Enc, AbandonedEncoder(t)
  PROVE  AbandonedEncoder(t)'
BY NullAssumption DEF KeepsAbandoned, AbandonedEncoder

LEMMA CameFromKept ==
  ASSUME KeepsAbandoned, shot \in Nat, shot' \in {shot, shot + 1}, NEW late, NEW from,
         CameFrom(late, from)
  PROVE  CameFrom(late, from)'
<1>1. 1..shot \subseteq 1..shot' OBVIOUS
<1>2. \A f \in late : AbandonedEncoder(from[f])' /\ enc'[from[f]].pc # "callback"
  BY StaysAbandoned DEF CameFrom, KeepsAbandoned
<1> QED BY <1>1, <1>2 DEF CameFrom

LEMMA PassingWithinKeepsFlow ==
  ASSUME PassesWithin, KeepsAbandoned, shot \in Nat, mEncodeThread \in Enc \cup {null},
         FlowInv, LateInv
  PROVE  FlowInv' /\ LateInv'
<1>1. \A t \in Enc : InTurn(enc'[t]) /\ EncFrames(enc'[t]) \subseteq EncFrames(enc[t])
  BY DEF PassesWithin, TurnKept
<1>2. shot' = shot BY DEF PassesWithin
<1>3. ASSUME NEW d \in Dec
      PROVE  /\ DecFrames(dec'[d]) \subseteq DecFrames(dec[d])
             /\ \E late, from : CameFrom(late, from)' /\ Ordered(DecStages(dec'[d]), 4, late)
  <2>1. PICK late, from : CameFrom(late, from) /\ Ordered(DecStages(dec[d]), 4, late)
    BY DEF LateInv
  <2>2. /\ Ordered(DecStages(dec'[d]), 4, late)
        /\ DecFrames(dec'[d]) \subseteq DecFrames(dec[d])
    BY <2>1 DEF PassesWithin, DecKept
  <2>3. CameFrom(late, from)' BY <1>2, <2>1, CameFromKept
  <2> QED BY <2>2, <2>3
<1>4. LateInv' BY <1>3 DEF LateInv
<1>5. OrderInv' BY <1>1, <1>2 DEF FlowInv, OrderInv
<1>6. \A d \in Dec : DecFrames(dec'[d]) \subseteq 1..shot' BY <1>2, <1>3 DEF FlowInv
<1>7. /\ \A t, u \in Enc : t # u => EncFrames(enc'[t]) \cap EncFrames(enc'[u]) = {}
      /\ \A t \in Enc, d \in Dec : EncFrames(enc'[t]) \cap DecFrames(dec'[d]) = {}
  BY <1>1, <1>3 DEF FlowInv
<1>8. \A t \in Enc : enc'[t].pc = "absent" => EncFrames(enc'[t]) = {}
  BY <1>1 DEF FlowInv, KeepsAbandoned
<1>9. ASSUME mEncodeThread' # null, NEW x \in EncFrames(enc'[mEncodeThread'])
      PROVE  /\ \A u \in Enc \ {mEncodeThread'} : \A y \in EncFrames(enc'[u]) : y < x
             /\ \A d \in Dec : \A y \in DecFrames(dec'[d]) : y < x
  <2>1. CASE mEncodeThread' = mEncodeThread
    <3>1. mEncodeThread \in Enc BY <1>9, <2>1
    <3> QED BY <1>1, <1>3, <1>9, <2>1, <3>1 DEF FlowInv
  <2>2. CASE mEncodeThread' \in Enc /\ enc[mEncodeThread'].pc = "absent"
    BY <1>1, <1>9, <2>2 DEF FlowInv
  <2> QED BY <1>9, <2>1, <2>2 DEF KeepsAbandoned
<1> QED BY <1>4, <1>5, <1>6, <1>7, <1>8, <1>9 DEF FlowInv

-----------------------------------------------------------------------------
\* The steps of the pipeline.

\* Nothing of a thread changes, or nothing but what ThreadKeepsTurn speaks of.
LEMMA EncodersPass ==
  ASSUME enc \in Objects, enc' \in Objects, OrderInv, NEW t \in Enc,
         \/ UNCHANGED enc
         \/ EncPut(t) \/ EncStart(t) \/ EncExit(t) \/ ClearListener(t)
         \/ EncRun(t) \/ EncCodec(t) \/ CallbackReturns(t) \/ CallbackThrows(t),
         \A u \in Enc : u # t => enc'[u] = enc[u]
  PROVE  \A u \in Enc : TurnKept(enc[u], enc'[u])
<1>1. \A u \in Enc : InTurn(enc[u]) BY DEF OrderInv
<1>2. \A u \in Enc : TurnKept(enc[u], enc[u]) BY <1>1 DEF TurnKept
<1>3. CASE UNCHANGED enc BY <1>2, <1>3
<1>4. CASE ~UNCHANGED enc
  <2>1. TurnKept(enc[t], enc'[t]) BY <1>1, <1>4, ThreadKeepsTurn
  <2> QED BY <1>2, <2>1
<1> QED BY <1>3, <1>4

LEMMA DecodersPass ==
  ASSUME dec \in Decoders, dec' \in Decoders, NEW d \in Dec,
         \/ UNCHANGED dec
         \/ DecRun(d) \/ CodecDecodes(d) \/ DecStart(d) \/ DecExit(d) \/ ClearRenderSurface(d),
         \A u \in Dec : u # d => dec'[u] = dec[u]
  PROVE  \A u \in Dec : DecKept(dec[u], dec'[u])
<1>1. \A u \in Dec : DecKept(dec[u], dec[u]) BY DEF DecKept
<1>2. CASE UNCHANGED dec BY <1>1, <1>2
<1>3. CASE ~UNCHANGED dec
  <2>1. DecKept(dec[d], dec'[d]) BY <1>3, DecoderStepKeeps
  <2> QED BY <1>1, <2>1
<1> QED BY <1>2, <1>3

LEMMA UntouchedDecodersPass ==
  ASSUME UNCHANGED dec
  PROVE  \A d \in Dec : DecKept(dec[d], dec'[d])
BY DEF DecKept

LEMMA MainStepPasses ==
  ASSUME enc \in Objects, enc' \in Objects, ActivityInv, OrderInv, SilentInv,
         \/ \E t \in Enc : SurfaceCreated(t) \/ MainPuts(t)
         \/ SurfaceDestroyedExits \/ SurfaceDestroyedClears
  PROVE  PassesWithin /\ KeepsAbandoned /\ SilentInv'
<1>1. ASSUME NEW t \in Enc, SurfaceCreated(t)
      PROVE  PassesWithin /\ KeepsAbandoned /\ SilentInv'
  <2>1. /\ EncStart(t) /\ mEncodeThread' = t /\ mEncodeThread = null
        /\ UNCHANGED <<shot, dec>> /\ enc[t].pc = "absent"
    BY <1>1 DEF SurfaceCreated, EncStart
  <2>2. /\ enc'[t].pc = "started"
        /\ \A u \in Enc : u # t => enc'[u] = enc[u]
    BY <2>1 DEF EncStart, Objects, EncState
  <2>3. PassesWithin
    <3>1. \A u \in Enc : TurnKept(enc[u], enc'[u]) BY <2>1, <2>2, EncodersPass
    <3> QED BY <2>1, <3>1, UntouchedDecodersPass DEF PassesWithin
  <2>4. KeepsAbandoned BY <2>1, <2>2 DEF KeepsAbandoned, AbandonedEncoder
  <2>5. SilentInv' BY <2>1, <2>2, NullAssumption DEF SilentInv, AbandonedEncoder
  <2> QED BY <2>3, <2>4, <2>5
<1>2. ASSUME NEW t \in Enc, MainPuts(t)
      PROVE  PassesWithin /\ KeepsAbandoned /\ SilentInv'
  <2>1. EncPut(t) /\ UNCHANGED <<shot, dec, mEncodeThread>>
    BY <1>2 DEF MainPuts, mainVars
  <2>2. /\ \A u \in Enc : enc'[u].pc = enc[u].pc /\ enc'[u].mListener = enc[u].mListener
        /\ \A u \in Enc : u # t => enc'[u] = enc[u]
    BY <2>1 DEF EncPut, Objects, EncState
  <2>3. PassesWithin
    <3>1. \A u \in Enc : TurnKept(enc[u], enc'[u]) BY <2>1, <2>2, EncodersPass
    <3> QED BY <2>1, <3>1, UntouchedDecodersPass DEF PassesWithin
  <2>4. KeepsAbandoned BY <2>1, <2>2 DEF KeepsAbandoned, AbandonedEncoder
  <2>5. SilentInv' BY <2>1, <2>2 DEF SilentInv, AbandonedEncoder
  <2> QED BY <2>3, <2>4, <2>5
<1>3. CASE SurfaceDestroyedExits
  <2>1. /\ EncExit(mEncodeThread) /\ mEncodeThread \in Enc
        /\ UNCHANGED <<shot, dec, mEncodeThread>>
    BY <1>3 DEF SurfaceDestroyedExits, ActivityInv
  <2>2. /\ \A u \in Enc : enc'[u].pc = enc[u].pc /\ enc'[u].mListener = enc[u].mListener
        /\ \A u \in Enc : u # mEncodeThread => enc'[u] = enc[u]
    BY <2>1 DEF EncExit, Objects, EncState
  <2>3. PassesWithin
    <3>1. \A u \in Enc : TurnKept(enc[u], enc'[u]) BY <2>1, <2>2, EncodersPass
    <3> QED BY <2>1, <3>1, UntouchedDecodersPass DEF PassesWithin
  <2>4. KeepsAbandoned BY <2>1, <2>2 DEF KeepsAbandoned, AbandonedEncoder
  <2>5. SilentInv' BY <2>1, <2>2 DEF SilentInv, AbandonedEncoder
  <2> QED BY <2>3, <2>4, <2>5
<1>4. CASE SurfaceDestroyedClears
  <2>1. /\ ClearListener(mEncodeThread) /\ mEncodeThread \in Enc /\ mEncodeThread' = null
        /\ UNCHANGED <<shot, dec>>
    BY <1>4 DEF SurfaceDestroyedClears, ActivityInv
  <2>2. /\ \A u \in Enc : enc'[u].pc = enc[u].pc
        /\ \A u \in Enc : u # mEncodeThread => enc'[u] = enc[u]
        /\ ~enc'[mEncodeThread].mListener
    BY <2>1 DEF ClearListener, Objects, EncState
  <2>3. PassesWithin
    <3>1. \A u \in Enc : TurnKept(enc[u], enc'[u]) BY <2>1, <2>2, EncodersPass
    <3> QED BY <2>1, <3>1, UntouchedDecodersPass DEF PassesWithin
  <2>4. KeepsAbandoned BY <2>1, <2>2 DEF KeepsAbandoned, AbandonedEncoder
  <2>5. SilentInv' BY <2>1, <2>2 DEF SilentInv, AbandonedEncoder
  <2> QED BY <2>3, <2>4, <2>5
<1> QED BY <1>1, <1>2, <1>3, <1>4

LEMMA DecoderSidePasses ==
  ASSUME dec \in Decoders, dec' \in Decoders, RefersInv, OrderInv, SilentInv,
         \/ \E d \in Dec : Surface2Created(d) \/ DecoderRuns(d)
         \/ Surface2DestroyedExits \/ Surface2DestroyedClears \/ Surface2DestroyedForgets
  PROVE  PassesWithin /\ KeepsAbandoned /\ SilentInv'
<1>1. UNCHANGED <<enc, shot, mEncodeThread>>
  BY DEF Surface2Created, DecoderRuns, Surface2DestroyedExits, Surface2DestroyedClears,
         Surface2DestroyedForgets, encVars, mainVars
<1>2. KeepsAbandoned /\ SilentInv'
  BY <1>1 DEF KeepsAbandoned, SilentInv, AbandonedEncoder
<1>3. \A t \in Enc : TurnKept(enc[t], enc'[t])
  BY <1>1 DEF OrderInv, TurnKept
<1>4. \A d \in Dec : DecKept(dec[d], dec'[d])
  <2>1. ASSUME NEW d \in Dec, DecoderRuns(d) PROVE \A u \in Dec : DecKept(dec[u], dec'[u])
    <3>1. DecRun(d) \/ CodecDecodes(d) BY <2>1 DEF DecoderRuns
    <3>2. \A u \in Dec : u # d => dec'[u] = dec[u] BY <3>1, DecoderStepCrash
    <3> QED BY <3>1, <3>2, DecodersPass
  <2>2. ASSUME NEW d \in Dec, DecStart(d) \/ DecExit(d) \/ ClearRenderSurface(d)
        PROVE  \A u \in Dec : DecKept(dec[u], dec'[u])
    <3>1. \A u \in Dec : u # d => dec'[u] = dec[u]
      BY <2>2 DEF DecStart, DecExit, ClearRenderSurface, Decoders
    <3> QED BY <2>2, <3>1, DecodersPass
  <2>3. CASE Surface2DestroyedForgets
    BY <2>3, UntouchedDecodersPass DEF Surface2DestroyedForgets
  <2>4. CASE Surface2DestroyedExits
    <3>1. DecExit(mDecodeThread) /\ mDecodeThread \in Dec
      BY <2>4 DEF Surface2DestroyedExits, RefersInv
    <3> QED BY <2>2, <3>1
  <2>5. CASE Surface2DestroyedClears
    <3>1. ClearRenderSurface(mDecodeThread) /\ mDecodeThread \in Dec
      BY <2>5 DEF Surface2DestroyedClears, RefersInv
    <3> QED BY <2>2, <3>1
  <2> QED BY <2>1, <2>2, <2>3, <2>4, <2>5 DEF Surface2Created
<1> QED BY <1>1, <1>2, <1>3, <1>4 DEF PassesWithin

\* A step of an encoder thread on its own calls back only if it still has a listener.
LEMMA OwnStepPasses ==
  ASSUME enc \in Objects, enc' \in Objects, OrderInv, SilentInv, NEW t \in Enc,
         UNCHANGED <<shot, mEncodeThread>>,
         \/ UNCHANGED enc
         \/ EncRun(t) \/ EncCodec(t) \/ CallbackReturns(t) \/ CallbackThrows(t)
  PROVE  /\ \A u \in Enc : TurnKept(enc[u], enc'[u])
         /\ KeepsAbandoned /\ SilentInv'
         /\ \A u \in Enc : u # t => enc'[u] = enc[u]
<1>1. CASE UNCHANGED enc
  BY <1>1 DEF OrderInv, TurnKept, KeepsAbandoned, SilentInv, AbandonedEncoder
<1>2. CASE EncRun(t) \/ EncCodec(t) \/ CallbackReturns(t) \/ CallbackThrows(t)
  <2>1. /\ enc'[t].pc = "absent" <=> enc[t].pc = "absent"
        /\ \A u \in Enc : u # t => enc'[u] = enc[u]
    BY <1>2, OwnStep
  <2>2. /\ enc'[t].mListener = enc[t].mListener
        /\ enc'[t].pc = "callback" /\ enc[t].pc # "callback" => enc[t].mListener
    <3>1. CASE CallbackThrows(t)
      BY <3>1 DEF CallbackThrows, Objects, EncState
    <3> QED BY <1>2, <3>1, OwnStepListener
  <2>3. \A u \in Enc : TurnKept(enc[u], enc'[u]) BY <1>2, <2>1, EncodersPass
  <2>4. KeepsAbandoned BY <2>1, <2>2 DEF KeepsAbandoned, SilentInv, AbandonedEncoder
  <2>5. SilentInv' BY <2>1, <2>2 DEF SilentInv, AbandonedEncoder
  <2> QED BY <2>1, <2>3, <2>4, <2>5
<1> QED BY <1>1, <1>2

LEMMA EncoderStepPasses ==
  ASSUME enc \in Objects, enc' \in Objects, OrderInv, SilentInv, NEW t \in Enc,
         EncoderRuns(t) \/ OnEncodeResultTests(t) \/ OnEncodeResultUses(t)
  PROVE  PassesWithin /\ KeepsAbandoned /\ SilentInv'
<1>1. /\ UNCHANGED <<shot, mEncodeThread>> /\ UNCHANGED dec
      /\ \/ UNCHANGED enc
         \/ EncRun(t) \/ EncCodec(t) \/ CallbackReturns(t) \/ CallbackThrows(t)
  BY DEF EncoderRuns, OnEncodeResultTests, OnEncodeResultUses, encVars, mainVars
<1>2. (\A u \in Enc : TurnKept(enc[u], enc'[u])) /\ KeepsAbandoned /\ SilentInv'
  BY <1>1, OwnStepPasses
<1> QED BY <1>1, <1>2, UntouchedDecodersPass DEF PassesWithin

\* A new frame is newer than all others and goes to the current encoder.
LEMMA PreviewKeepsFlow ==
  ASSUME enc \in Objects, enc' \in Objects, shot \in Nat, ActivityInv, SilentInv, FlowInv,
         LateInv, OnPreviewFrame
  PROVE  SilentInv' /\ FlowInv' /\ LateInv'
<1> DEFINE m == mEncodeThread
<1>1. /\ m \in Enc /\ shot' = shot + 1 /\ SetFrameData(m, shot')
      /\ UNCHANGED <<dec, mEncodeThread>>
  BY DEF OnPreviewFrame, ActivityInv, mainVars
<1>2. /\ \A u \in Enc : enc'[u].pc = enc[u].pc /\ enc'[u].mListener = enc[u].mListener
      /\ \A u \in Enc : u # m => enc'[u] = enc[u]
      /\ enc[m].pc # "absent"
  BY <1>1 DEF SetFrameData, Objects, EncState
<1>3. SilentInv' BY <1>1, <1>2 DEF SilentInv, AbandonedEncoder
<1>4. KeepsAbandoned BY <1>1, <1>2 DEF KeepsAbandoned, AbandonedEncoder
<1>5. LateInv'
  <2>1. ASSUME NEW d \in Dec
        PROVE  \E late, from : CameFrom(late, from)' /\ Ordered(DecStages(dec'[d]), 4, late)
    <3>1. PICK late, from : CameFrom(late, from) /\ Ordered(DecStages(dec[d]), 4, late)
      BY DEF LateInv
    <3>2. CameFrom(late, from)' BY <1>1, <1>4, <3>1, CameFromKept
    <3> QED BY <1>1, <3>1, <3>2
  <2> QED BY <2>1 DEF LateInv
<1>6. /\ \A u \in Enc : InTurn(enc[u]) /\ EncFrames(enc[u]) \subseteq 1..shot
      /\ \A d \in Dec : DecFrames(dec[d]) \subseteq 1..shot
  BY DEF FlowInv, OrderInv
<1>7. InTurn(enc'[m]) /\ EncFrames(enc'[m]) \subseteq EncFrames(enc[m]) \cup {shot'}
  <2>1. shot' \in Nat /\ \A x \in EncFrames(enc[m]) : x < shot' BY <1>1, <1>6
  <2> QED BY <1>1, <1>6, <2>1, OfferKeepsTurn
<1>8. /\ \A u \in Enc : \A x \in EncFrames(enc[u]) : x < shot' /\ x \in 1..shot'
      /\ \A d \in Dec : \A x \in DecFrames(dec[d]) : x < shot' /\ x \in 1..shot'
      /\ shot' \in 1..shot'
  BY <1>1, <1>6
<1> HIDE DEF m
<1>9. OrderInv'
  <2>1. ASSUME NEW u \in Enc PROVE InTurn(enc'[u]) /\ EncFrames(enc'[u]) \subseteq 1..shot'
    <3>1. CASE u = m BY <1>1, <1>7, <1>8, <3>1
    <3>2. CASE u # m BY <1>2, <1>6, <1>8, <3>2
    <3> QED BY <3>1, <3>2
  <2> QED BY <2>1 DEF OrderInv
<1>10. \A d \in Dec : DecFrames(dec'[d]) \subseteq 1..shot' BY <1>1, <1>8
<1>11. \A u \in Enc : shot' \notin EncFrames(enc[u]) BY <1>1, <1>6
<1>12. \A d \in Dec : shot' \notin DecFrames(dec[d]) BY <1>1, <1>6
<1>13. \A u, v \in Enc : u # v => EncFrames(enc'[u]) \cap EncFrames(enc'[v]) = {}
  BY <1>2, <1>7, <1>11 DEF FlowInv
<1>14. \A u \in Enc, d \in Dec : EncFrames(enc'[u]) \cap DecFrames(dec'[d]) = {}
  BY <1>1, <1>2, <1>7, <1>12 DEF FlowInv
<1>15. \A u \in Enc : enc'[u].pc = "absent" => EncFrames(enc'[u]) = {}
  BY <1>2 DEF FlowInv
<1>16. ASSUME NEW x \in EncFrames(enc'[m])
       PROVE  /\ \A u \in Enc \ {m} : \A y \in EncFrames(enc'[u]) : y < x
              /\ \A d \in Dec : \A y \in DecFrames(dec'[d]) : y < x
  <2>1. m # null BY <1>1, NullAssumption
  <2>2. CASE x \in EncFrames(enc[m])
    BY <1>1, <1>2, <2>1, <2>2 DEF FlowInv, m
  <2>3. CASE x = shot' BY <1>1, <1>2, <1>8, <2>3
  <2> QED BY <1>7, <2>2, <2>3
<1>17. mEncodeThread' = m BY <1>1 DEF m
<1> QED BY <1>3, <1>5, <1>9, <1>10, <1>13, <1>14, <1>15, <1>16, <1>17 DEF FlowInv

\* A frame passes from an encoder to a decoder: newer than all the decoder has if the
\* encoder is the current one; otherwise it may be late, and this was the encoder's last.
LEMMA DeliveryKeepsFlow ==
  ASSUME enc \in Objects, enc' \in Objects, dec \in Decoders, dec' \in Decoders, shot \in Nat,
         ActivityInv, SilentInv, FlowInv, LateInv, NEW t \in Enc, OnEncodeResultPuts(t)
  PROVE  SilentInv' /\ FlowInv' /\ LateInv'
<1> DEFINE packet == enc[t].outData
<1>0. PICK c, f : c = callback[t] /\ f = FrameOf(packet) OBVIOUS
<1> DEFINE F == {f} \ {NoFrame}
<1>1. /\ c \in Dec /\ SetDecodeData(c, packet) /\ CallbackReturns(t) /\ enc[t].pc = "callback"
      /\ UNCHANGED <<shot, mEncodeThread>> /\ packet \in NalUnits
  BY <1>0 DEF OnEncodeResultPuts, mainVars, Objects, EncState
<1>2. \A u \in Dec : u # c => dec'[u] = dec[u]
  BY <1>1 DEF SetDecodeData, Decoders
<1>3. OrderInv BY DEF FlowInv
<1>4. /\ \A u \in Enc : TurnKept(enc[u], enc'[u])
      /\ KeepsAbandoned /\ SilentInv'
      /\ \A u \in Enc : u # t => enc'[u] = enc[u]
  BY <1>1, <1>3, OwnStepPasses
<1>5. /\ f \in Nat
      /\ F \subseteq EncFrames(enc[t])
      /\ f # NoFrame => \A x \in EncFrames(enc'[t]) : f < x
  BY <1>0, <1>1, <1>3, DeliveredFirst DEF OrderInv
<1>6. enc'[t].pc # "callback"
  BY <1>1 DEF CallbackReturns, AfterOutput, Objects, EncState
<1>7. F \subseteq 1..shot /\ \A x \in 1..shot : x \in Nat
  BY <1>3, <1>5 DEF OrderInv
<1>8. \A d \in Dec : DecFrames(dec[d]) \subseteq 1..shot BY DEF FlowInv
<1> HIDE DEF packet
<1>9. ASSUME NEW late, NEW from, CameFrom(late, from), Ordered(DecStages(dec[c]), 4, late)
      PROVE  \E more, origin : /\ CameFrom(more, origin)' /\ late \subseteq more
                               /\ AllFollow(F, DecFrames(dec[c]), more)
  <2>1. CameFrom(late, from)' BY <1>1, <1>4, <1>9, CameFromKept
  <2>2. ASSUME NEW x \in DecFrames(dec[c]), f # NoFrame PROVE f # x
    BY <1>1, <1>5, <2>2 DEF FlowInv
  <2>3. CASE f = NoFrame
    <3>1. AllFollow(F, DecFrames(dec[c]), late) BY <2>3 DEF AllFollow
    <3> QED BY <2>1, <3>1
  <2>4. CASE f # NoFrame /\ t = mEncodeThread
    <3>1. \A x \in DecFrames(dec[c]) : x < f
      BY <1>1, <1>5, <2>4, NullAssumption DEF FlowInv
    <3>2. AllFollow(F, DecFrames(dec[c]), late)
      BY <2>2, <2>4, <3>1 DEF AllFollow, Follows
    <3> QED BY <2>1, <3>2
  <2>5. CASE f # NoFrame /\ t # mEncodeThread
    <3>1. AbandonedEncoder(t) BY <1>1, <2>5 DEF AbandonedEncoder
    <3>2. AbandonedEncoder(t)' BY <1>4, <3>1, StaysAbandoned
    <3>3. PICK more : more = late \cup {f} OBVIOUS
    <3>4. PICK origin : origin = [h \in more |-> IF h = f THEN t ELSE from[h]] OBVIOUS
    <3>5. more \subseteq 1..shot' BY <1>1, <1>7, <1>9, <2>5, <3>3 DEF CameFrom
    <3>6. from \in [late -> Enc] /\ \A h \in late : enc[from[h]].pc # "callback"
      BY <1>9 DEF CameFrom
    <3>7. f \in more /\ late \subseteq more /\ \A h \in more : h = f \/ h \in late
      BY <3>3
    <3>8. origin \in [more -> Enc] BY <3>4, <3>6, <3>7
    <3>9. \A h \in more : origin[h] = IF h = f THEN t ELSE from[h] BY <3>4
    <3>10. \A g, h \in more : origin[g] = origin[h] => g = h
      <4>1. \A h \in late : from[h] # t BY <1>1, <3>6
      <4>2. \A g, h \in late : from[g] = from[h] => g = h BY <1>9 DEF CameFrom
      <4> QED BY <3>7, <3>9, <4>1, <4>2
    <3>11. ASSUME NEW h \in more
           PROVE  AbandonedEncoder(origin[h])' /\ enc'[origin[h]].pc # "callback"
      <4>1. CASE h = f BY <1>6, <3>2, <3>9, <4>1
      <4>2. CASE h # f
        <5>1. h \in late /\ origin[h] = from[h] BY <3>7, <3>9, <4>2
        <5> QED BY <2>1, <5>1 DEF CameFrom
      <4> QED BY <4>1, <4>2
    <3>12. CameFrom(more, origin)' BY <3>5, <3>8, <3>10, <3>11 DEF CameFrom
    <3>13. AllFollow(F, DecFrames(dec[c]), more)
      <4>1. \A x \in DecFrames(dec[c]) : Follows(f, x, more)
        BY <2>2, <2>5, <3>7 DEF Follows
      <4> QED BY <4>1 DEF AllFollow
    <3> QED BY <3>7, <3>12, <3>13
  <2> QED BY <2>3, <2>4, <2>5
<1>10. /\ \E late, from : CameFrom(late, from)' /\ Ordered(DecStages(dec'[c]), 4, late)
       /\ DecFrames(dec'[c]) \subseteq DecFrames(dec[c]) \cup F
  <2>1. PICK late, from : CameFrom(late, from) /\ Ordered(DecStages(dec[c]), 4, late)
    BY <1>1 DEF LateInv
  <2>2. PICK more, origin : /\ CameFrom(more, origin)' /\ late \subseteq more
                            /\ AllFollow(F, DecFrames(dec[c]), more)
    BY <1>9, <2>1
  <2>3. Ordered(DecStages(dec[c]), 4, more) BY <2>1, <2>2, MoreLate
  <2>4. /\ Ordered(DecStages(dec'[c]), 4, more)
        /\ DecFrames(dec'[c]) \subseteq DecFrames(dec[c]) \cup F
    BY <1>0, <1>1, <1>5, <2>2, <2>3, DeliveryEnters
  <2> QED BY <2>2, <2>4
<1>11. LateInv'
  <2>1. ASSUME NEW d \in Dec, d # c
        PROVE  \E late, from : CameFrom(late, from)' /\ Ordered(DecStages(dec'[d]), 4, late)
    <3>1. PICK late, from : CameFrom(late, from) /\ Ordered(DecStages(dec[d]), 4, late)
      BY DEF LateInv
    <3>2. CameFrom(late, from)' BY <1>1, <1>4, <3>1, CameFromKept
    <3> QED BY <1>2, <2>1, <3>1, <3>2
  <2> QED BY <1>10, <2>1 DEF LateInv
<1>12. \A u \in Enc : InTurn(enc'[u]) /\ EncFrames(enc'[u]) \subseteq EncFrames(enc[u])
  BY <1>4 DEF TurnKept
<1>13. \A d \in Dec : DecFrames(dec'[d]) \subseteq DecFrames(dec[d]) \cup (IF d = c THEN F ELSE {})
  BY <1>2, <1>10
<1>14. f \notin EncFrames(enc'[t]) \/ f = NoFrame BY <1>5
<1>15. OrderInv' BY <1>1, <1>3, <1>12 DEF OrderInv
<1>16. \A d \in Dec : DecFrames(dec'[d]) \subseteq 1..shot' BY <1>1, <1>7, <1>8, <1>13
<1>17. \A u, v \in Enc : u # v => EncFrames(enc'[u]) \cap EncFrames(enc'[v]) = {}
  BY <1>12 DEF FlowInv
<1>18. ASSUME NEW u \in Enc, NEW d \in Dec PROVE EncFrames(enc'[u]) \cap DecFrames(dec'[d]) = {}
  <2>1. EncFrames(enc'[u]) \cap F = {}
    <3>1. CASE u = t BY <1>14, <3>1
    <3>2. CASE u # t BY <1>5, <1>12, <3>2 DEF FlowInv
    <3> QED BY <3>1, <3>2
  <2>2. EncFrames(enc'[u]) \cap DecFrames(dec[d]) = {} BY <1>12 DEF FlowInv
  <2> QED BY <1>13, <2>1, <2>2
<1>19. \A u \in Enc : enc'[u].pc = "absent" => EncFrames(enc'[u]) = {}
  BY <1>4, <1>12 DEF FlowInv, KeepsAbandoned
<1>20. ASSUME mEncodeThread' # null, NEW x \in EncFrames(enc'[mEncodeThread'])
       PROVE  /\ \A u \in Enc \ {mEncodeThread'} : \A y \in EncFrames(enc'[u]) : y < x
              /\ \A d \in Dec : \A y \in DecFrames(dec'[d]) : y < x
  <2>1. mEncodeThread' = mEncodeThread /\ mEncodeThread \in Enc
    BY <1>1, <1>20 DEF ActivityInv
  <2>2. x \in EncFrames(enc[mEncodeThread]) BY <1>12, <1>20, <2>1
  <2>3. /\ \A u \in Enc \ {mEncodeThread} : \A y \in EncFrames(enc[u]) : y < x
        /\ \A d \in Dec : \A y \in DecFrames(dec[d]) : y < x
    BY <1>20, <2>1, <2>2 DEF FlowInv
  <2>4. \A y \in F : y < x
    <3>1. CASE t = mEncodeThread BY <1>5, <1>20, <2>1, <3>1
    <3>2. CASE t # mEncodeThread BY <1>5, <2>3, <3>2
    <3> QED BY <3>1, <3>2
  <2> QED BY <1>12, <1>13, <2>1, <2>3, <2>4
<1> QED BY <1>4, <1>11, <1>15, <1>16, <1>17, <1>18, <1>19, <1>20 DEF FlowInv

\* The invariant of the whole.
StreamInv == SilentInv /\ FlowInv /\ LateInv

LEMMA StreamStep ==
  ASSUME PipelineInv, PipelineInv', DecoderInv, DecoderInv', RefersInv, StreamInv, [Next]_vars
  PROVE  StreamInv'
<1> /\ enc \in Objects /\ enc' \in Objects /\ shot \in Nat /\ ActivityInv
    /\ dec \in Decoders /\ dec' \in Decoders
  BY DEF PipelineInv, BufferInv, EncTypeOK, Objects, DecoderInv
<1> SilentInv /\ FlowInv /\ LateInv /\ OrderInv BY DEF StreamInv, FlowInv
<1> mEncodeThread \in Enc \cup {null} BY DEF ActivityInv
<1>1. ASSUME PassesWithin /\ KeepsAbandoned /\ SilentInv' PROVE StreamInv'
  BY <1>1, PassingWithinKeepsFlow DEF StreamInv
<1>2. CASE UNCHANGED vars
  <2>1. UNCHANGED <<enc, shot, dec, mEncodeThread>> BY <1>2 DEF vars
  <2>2. PassesWithin BY <2>1 DEF OrderInv, PassesWithin, TurnKept, DecKept
  <2>3. KeepsAbandoned /\ SilentInv' BY <2>1 DEF KeepsAbandoned, SilentInv, AbandonedEncoder
  <2> QED BY <1>1, <2>2, <2>3
<1>3. CASE Next
  <2>1. CASE SurfaceCallback
    <3>1. (\E t \in Enc : enc[t].pc = "absent") => FreshEncoder \in Enc BY DEF FreshEncoder
    <3>2. (\E d \in Dec : dec[d].pc = "absent") => FreshDecoder \in Dec BY DEF FreshDecoder
    <3> QED BY <1>1, <2>1, <3>1, <3>2, MainStepPasses, DecoderSidePasses, Zenon
            DEF SurfaceCallback
  <2>2. CASE MainFinishesCallback
    BY <1>1, <2>2, MainStepPasses, DecoderSidePasses, Zenon DEF MainFinishesCallback
  <2>3. CASE OnPreviewFrame BY <2>3, PreviewKeepsFlow DEF StreamInv
  <2>4. ASSUME NEW t \in Enc, MainPuts(t) \/ EncoderRuns(t) \/ OnEncodeResult(t)
        PROVE  StreamInv'
    <3>1. CASE OnEncodeResultPuts(t) BY <3>1, DeliveryKeepsFlow DEF StreamInv
    <3> QED BY <1>1, <2>4, <3>1, MainStepPasses, EncoderStepPasses, Zenon DEF OnEncodeResult
  <2>5. CASE \E d \in Dec : DecoderRuns(d)
    BY <1>1, <2>5, DecoderSidePasses, Zenon
  <2> QED BY <1>3, <2>1, <2>2, <2>3, <2>4, <2>5, Zenon DEF Next
<1> QED BY <1>2, <1>3

LEMMA StreamAtInit == Init => StreamInv
<1> SUFFICES ASSUME Init PROVE StreamInv OBVIOUS
<1>1. /\ OrderInv /\ \A t \in Enc : EncFrames(enc[t]) = {}
      /\ \A t \in Enc : enc[t].pc = "absent"
      /\ mEncodeThread = null
  BY OrderAtInit DEF Init, EncInit, AbsentEncoder
<1> DEFINE r == AbsentDecoder
<1>2. /\ FramesOf(DecStages(r)[1]) = {} /\ FramesOf(DecStages(r)[2]) = {}
      /\ FramesOf(DecStages(r)[3]) = {} /\ FramesOf(DecStages(r)[4]) = {}
  <2>1. r.shown = NoFrame /\ r.output = <<>> /\ r.pending = <<>> /\ r.mQueue = <<>>
    BY DEF AbsentDecoder
  <2> HIDE DEF r
  <2>2. /\ DecStages(r)[1] = <<NoFrame>> /\ DecStages(r)[2] = Decoded(r)
        /\ DecStages(r)[3] = SubmittedPackets(r) /\ DecStages(r)[4] = QueuedPackets(r)
    BY <2>1 DEF DecStages
  <2>3. /\ FramesOf(Decoded(r)) = {} /\ FramesOf(SubmittedPackets(r)) = {}
        /\ FramesOf(QueuedPackets(r)) = {}
    BY <2>1 DEF Decoded, SubmittedPackets, QueuedPackets, FramesOf
  <2> QED BY <2>2, <2>3, NoFrames
<1> HIDE DEF r
<1>3. \A a \in 1..4 : FramesOf(DecStages(r)[a]) = {}
  <2>1. \A a \in 1..4 : a = 1 \/ a = 2 \/ a = 3 \/ a = 4 OBVIOUS
  <2> QED BY <1>2, <2>1
<1>4. Ordered(DecStages(r), 4, {}) BY <1>3 DEF Ordered, Sorted, AllFollow, FramesOf
<1>5. DecFrames(r) = {} BY <1>3 DEF DecFrames, InStages
<1>6. \A d \in Dec : dec[d] = r BY DEF Init, DecInit, r
<1>7. CameFrom({}, [h \in {} |-> h]) BY DEF CameFrom
<1>8. LateInv BY <1>4, <1>6, <1>7 DEF LateInv
<1>9. FlowInv BY <1>1, <1>5, <1>6 DEF FlowInv
<1>10. SilentInv BY <1>1 DEF SilentInv, AbandonedEncoder
<1> QED BY <1>8, <1>9, <1>10 DEF StreamInv

\* No more threads than were created can be abandoned, a finite number at any time.
Created == {t \in Enc : enc[t].pc # "absent"}

LEMMA CreatedStep ==
  ASSUME enc \in Objects, IsFiniteSet(Created), [EncNext]_encVars
  PROVE  IsFiniteSet(Created')
<1>1. CASE UNCHANGED encVars BY <1>1 DEF encVars, Created
<1>2. CASE EncNext
  <2>1. PICK t \in Enc : EncStep(t) BY <1>2 DEF EncNext, EncStep
  <2>2. \A u \in Enc : u # t => enc'[u] = enc[u] BY <2>1, OtherObjects
  <2>3. Created' \in SUBSET (Created \cup {t}) BY <2>2 DEF Created
  <2>4. IsFiniteSet(Created \cup {t}) BY FS_AddElement
  <2> QED BY <2>3, <2>4, FS_Subset
<1> QED BY <1>1, <1>2

LEMMA CreatedFinite == EncSafety => []IsFiniteSet(Created)
<1>1. EncInit => IsFiniteSet(Created)
  <2>1. EncInit => Created = {} BY DEF EncInit, Created, AbsentEncoder
  <2> QED BY <2>1, FS_EmptySet
<1>2. BufferInv => enc \in Objects BY DEF BufferInv, EncTypeOK, Objects
<1>3. BufferInv /\ IsFiniteSet(Created) /\ [EncNext]_encVars => IsFiniteSet(Created)'
  BY <1>2, CreatedStep
<1> QED BY <1>1, <1>3, BufferInvariant, PTL DEF EncSafety

LEMMA DecStagesInOrder ==
  ASSUME NEW d \in Dec, dec[d] \in Decoder, NEW late, Ordered(DecStages(dec[d]), 4, late)
  PROVE  DecoderStream(d) \in Seq(Nat) /\ Sorted(DecoderStream(d), late)
<1> DEFINE X == DecStages(dec[d])
           two == X[1] \o X[2]
           three == two \o X[3]
<1>1. /\ \A a \in 1..4 : X[a] \in Seq(Nat)
      /\ DecoderStream(d) = three \o X[4]
  BY DecStagesType DEF DecoderStream, Decoded, SubmittedPackets, QueuedPackets
<1>2. Ordered(X, 4, late) OBVIOUS
<1>3. \A a, b \in 1..4 : a < b => AllFollow(FramesOf(X[b]), FramesOf(X[a]), late)
  BY <1>2 DEF Ordered
<1>4. \A a \in 1..4 : X[a] \in Seq(Nat) /\ Sorted(X[a], late)
  BY <1>1, <1>2 DEF Ordered
<1> HIDE DEF X
<1>5. /\ two \in Seq(Nat) /\ Sorted(two, late)
      /\ FramesOf(two) = FramesOf(X[1]) \cup FramesOf(X[2])
  BY <1>3, <1>4, SortedConcat
<1> HIDE DEF two
<1>6. /\ three \in Seq(Nat) /\ Sorted(three, late)
      /\ FramesOf(three) = FramesOf(X[1]) \cup FramesOf(X[2]) \cup FramesOf(X[3])
  <2>1. AllFollow(FramesOf(X[3]), FramesOf(two), late) BY <1>3, <1>5 DEF AllFollow
  <2>2. X[3] \in Seq(Nat) /\ Sorted(X[3], late) BY <1>4
  <2>3. /\ three \in Seq(Nat) /\ Sorted(three, late)
        /\ FramesOf(three) = FramesOf(two) \cup FramesOf(X[3])
    BY <1>5, <2>1, <2>2, SortedConcat
  <2> QED BY <1>5, <2>3
<1> HIDE DEF three
<1>7. AllFollow(FramesOf(X[4]), FramesOf(three), late) BY <1>3, <1>6 DEF AllFollow
<1>8. X[4] \in Seq(Nat) /\ Sorted(X[4], late) BY <1>4
<1>9. three \o X[4] \in Seq(Nat) /\ Sorted(three \o X[4], late)
  BY <1>6, <1>7, <1>8, SortedConcat
<1> QED BY <1>1, <1>9

\* The frames out of order are late ones, each once, and came from as many abandoned threads.
LEMMA FewAreLate ==
  ASSUME dec \in Decoders, LateInv, IsFiniteSet(Created)
  PROVE  LateDeliveries
<1> SUFFICES ASSUME NEW d \in Dec
             PROVE  LET s == DecoderStream(d)
                        late == {k \in DOMAIN s :
                                   s[k] # NoFrame /\ \E j \in 1..(k - 1) : s[k] <= s[j]}
                    IN  Cardinality(late) <= Cardinality({t \in Enc : AbandonedEncoder(t)})
  BY DEF LateDeliveries
<1> DEFINE s == DecoderStream(d)
           behind == {k \in DOMAIN s : s[k] # NoFrame /\ \E j \in 1..(k - 1) : s[k] <= s[j]}
           abandoned == {t \in Enc : AbandonedEncoder(t)}
<1>1. PICK late, from : CameFrom(late, from) /\ Ordered(DecStages(dec[d]), 4, late)
  BY DEF LateInv
<1>2. s \in Seq(Nat) /\ Sorted(s, late)
  <2>1. dec[d] \in Decoder BY DEF Decoders
  <2> QED BY <1>1, <2>1, DecStagesInOrder
<1> HIDE DEF s
<1>3. ASSUME NEW k \in behind
      PROVE  k \in DOMAIN s /\ s[k] \in late /\ s[k] # NoFrame
  <2>1. PICK j \in 1..(k - 1) : s[k] <= s[j] BY <1>3
  <2>2. /\ k \in DOMAIN s /\ s[k] # NoFrame /\ DOMAIN s = 1..Len(s) /\ Len(s) \in Nat
        /\ s[k] \in Nat
    BY <1>2
  <2>3. j \in DOMAIN s /\ j < k /\ s[j] \in Nat BY <1>2, <2>2
  <2>4. s[j] # NoFrame BY <2>1, <2>2, <2>3 DEF NoFrame
  <2>5. Follows(s[k], s[j], late) BY <1>2, <2>2, <2>3, <2>4 DEF Sorted
  <2>6. ~(s[j] < s[k]) BY <2>1, <2>2, <2>3
  <2> QED BY <2>2, <2>5, <2>6 DEF Follows
<1>4. ASSUME NEW j \in behind, NEW k \in behind, s[j] = s[k] PROVE j = k
  <2>1. j \in Int /\ k \in Int BY <1>2, <1>3
  <2>2. ASSUME NEW a \in behind, NEW b \in behind, a < b PROVE s[a] # s[b]
    BY <1>2, <1>3, <2>2 DEF Sorted, Follows
  <2> HIDE DEF behind
  <2>3. ~(j < k) /\ ~(k < j) BY <1>4, <2>2
  <2> QED BY <2>1, <2>3
<1> DEFINE source == [k \in behind |-> from[s[k]]]
<1>5. source \in Injection(behind, abandoned)
  <2>1. \A h \in late : from[h] \in abandoned BY <1>1 DEF CameFrom
  <2>2. \A g, h \in late : from[g] = from[h] => g = h BY <1>1 DEF CameFrom
  <2> HIDE DEF behind, abandoned
  <2>3. source \in [behind -> abandoned] BY <1>3, <2>1
  <2>4. \A j, k \in behind : source[j] = source[k] => j = k
    BY <1>3, <1>4, <2>2
  <2> HIDE DEF source
  <2> QED BY <2>3, <2>4 DEF Injection, IsInjective
<1>6. IsFiniteSet(abandoned)
  <2>1. abandoned \in SUBSET Created BY DEF AbandonedEncoder, Created
  <2> QED BY <2>1, FS_Subset
<1>7. Cardinality(behind) <= Cardinality(abandoned)
  <2> HIDE DEF behind, abandoned, source
  <2> QED BY <1>5, <1>6, FS_Injection
<1> QED BY <1>7 DEF s

\* Frames reach a decoder in camera order but for those an abandoned encoder thread was
\* already delivering (MainActivity.java:118-124 runs on the encoder's thread, and
\* surfaceDestroyed does not wait for it): one for each such thread at most, for any number
\* of surfaces that came and went.
THEOREM LateDeliveriesBounded == Spec => []LateDeliveries
<1> DEFINE Inv == PipelineInv /\ DecoderInv /\ RefersInv
<1>1. Init => Inv /\ StreamInv
  BY ActivityAtInit, TypeInit, AccountedAtInit, DecoderAtInit, StreamAtInit
     DEF Init, PipelineInv, BufferInv, RefersInv
<1>2. Inv /\ [Next]_vars => Inv'
  BY PipelineStep, BufferInvStep, DecoderSideKeepsInv DEF PipelineInv
<1>3. Inv /\ Inv' /\ StreamInv /\ [Next]_vars => StreamInv'
  BY StreamStep
<1>4. Inv /\ StreamInv /\ IsFiniteSet(Created) => LateDeliveries
  BY FewAreLate DEF DecoderInv, StreamInv
<1> HIDE DEF Inv
<1> QED
  BY <1>1, <1>2, <1>3, <1>4, CreatedFinite, PipelineRefinesEncoder, PTL DEF Spec, EncoderContract

=============================================================================
