---------------------------- MODULE LameEncoder -----------------------------
(***************************************************************************)
(* The MP3 encoder as its callers use it: the JNI wrapper LameMp3.c with   *)
(* its one global encoder, and the sample buffering of lame.c and          *)
(* encoder.c around the stream of Mp3Stream.  Samples are counted, not     *)
(* kept; the rates of input and output are the same, so that nothing is    *)
(* resampled.  The wrapper sets up a constant bit rate, Loops = {"CBR"};   *)
(* the other loops are what the library offers.                            *)
(*                                                                         *)
(* A call hands out bytes through an array of its caller.  room is what is *)
(* left of it; 0 makes copy_buffer copy without a check, after which room  *)
(* is negative and nothing more is copied.                                 *)
(*                                                                         *)
(* Not in the code: lead, the samples fed since the last flush less those  *)
(* of the frames encoded since; zeros, how many of the last samples a      *)
(* flush has put into mfbuf; and of this encoder's calls, whether the last *)
(* was a flush that went well (flushed), whether one brought an array no   *)
(* larger than the worst case (small), failed, filled its array exactly,   *)
(* or wrote beyond it (overran).                                           *)
(***************************************************************************)
EXTENDS Mp3Stream

CONSTANTS
  Granule,         \* 576 samples
  ENCDELAY, MDCTDELAY, POSTDELAY,
  MFNeeded,        \* calcNeeded
  MFSIZE,
  MaxBunch,        \* samples of the zero buffer that a flush feeds (1152)
  SamplerateOut, FracSpF,
  TagBytes,        \* sizes the tag frame may have, 0 without one
  MaxTagBytes,     \* and the largest of them
  CallSamples,     \* samples a call of lameEncode may bring
  ArraySizes       \* sizes of the arrays that callers pass for the stream

FrameSamples == Granule * mode_gr

ASSUME SamplesAssumption ==
  /\ {Granule, ENCDELAY, MDCTDELAY, POSTDELAY, MFNeeded, MFSIZE, MaxBunch} \subseteq Nat \ {0}
  /\ MDCTDELAY < ENCDELAY /\ ENCDELAY - MDCTDELAY <= MFNeeded - FrameSamples
  /\ FrameSamples <= MFNeeded /\ MFNeeded + FrameSamples <= MFSIZE
  /\ MFNeeded - FrameSamples <= ENCDELAY + Granule \div 2
ASSUME RateAssumption == SamplerateOut \in Nat \ {0} /\ FracSpF \in 0..SamplerateOut - 1
ASSUME CallersAssumption ==
  /\ MaxTagBytes \in Nat /\ TagBytes \subseteq 0..MaxTagBytes
  /\ CallSamples \subseteq Nat \ {0} /\ ArraySizes \subseteq Nat \ {0}

\* What lame.h gives as 1.25 * num_samples + 7200 for a call, and as 7200 for a flush: an array
\* must be larger than the tag frame, a full reservoir with the headers that wait behind it,
\* and the frames of the call.
LongestFrame == FrameBytes[VbrMax] + (IF FracSpF = 0 THEN 0 ELSE 1)
WorstCase(frames) ==
  MaxTagBytes + ResvLimit \div 8
    + sideinfo_len * (ResvLimit \div (8 * (MinFrameBytes - sideinfo_len)))
    + frames * LongestFrame
CallFrames(n) == n \div FrameSamples + 1
FlushFrames == (MFNeeded + MDCTDELAY + FrameSamples + Granule) \div FrameSamples

VARIABLES
  valid,                 \* gfp is an encoder whose lame_init_params succeeded
  at,                    \* where the call is, "out" between calls
  flushing,              \* the call is lameFlush
  nsamples,              \* samples of the call not yet in mfbuf
  room,
  mf_size, mf_samples_to_encode,
  slot_lag, frames_left, end_padding,
  lead, zeros, flushed, small, failed, filled, overran

sampleVars == <<mf_size, mf_samples_to_encode, lead, zeros>>
callVars == <<valid, at, flushing, nsamples, room, slot_lag, frames_left, end_padding>>
outcomeVars == <<flushed, small, failed, filled, overran>>
lameVars == <<streamVars, sampleVars, callVars, outcomeVars>>

Places == {"out", "bunch", "fill", "frame", "stream", "flush", "crash"}

NoEncoder ==
  /\ StreamInit(0)
  /\ valid = FALSE /\ at = "out" /\ flushing = FALSE /\ nsamples = 0 /\ room = 0
  /\ mf_size = ENCDELAY - MDCTDELAY /\ mf_samples_to_encode = ENCDELAY + POSTDELAY
  /\ slot_lag = 0 /\ frames_left = 0 /\ end_padding = 0
  /\ lead = 0 /\ zeros = 0
  /\ flushed = FALSE /\ small = FALSE /\ failed = FALSE /\ filled = FALSE /\ overran = FALSE

\* What a fresh or a freed encoder leaves of an earlier one.
Renew(tag) ==
  /\ StreamRestart(tag)
  /\ mf_size' = ENCDELAY - MDCTDELAY /\ mf_samples_to_encode' = ENCDELAY + POSTDELAY
  /\ frames_left' = 0 /\ end_padding' = 0
  /\ lead' = 0 /\ zeros' = 0
  /\ flushed' = FALSE /\ small' = FALSE /\ failed' = FALSE /\ filled' = FALSE /\ overran' = FALSE
  /\ UNCHANGED <<at, flushing, nsamples, room>>

\* lameInit, which closes the encoder before it.  The wrapper does not look whether
\* lame_init_params, which writes the tag frame, succeeds.
lameInit(tag, ok) ==
  /\ at = "out"
  /\ Renew(IF ok THEN tag ELSE 0)
  /\ slot_lag' = IF ok /\ loop' = "CBR" THEN FracSpF ELSE 0
  /\ valid' = ok

\* lameClose
lameClose ==
  /\ at = "out" /\ valid
  /\ Renew(0)
  /\ slot_lag' = 0
  /\ valid' = FALSE

\* copy_buffer copies, or finds the caller's array too small.  Bytes that were copied beyond
\* its end leave less than nothing of it, which is checked again.
Fits(bytes) == bytes = 0 \/ room = 0 \/ bytes <= room
CopyOut(bytes) ==
  /\ room' = room - bytes
  /\ filled' = (filled \/ (bytes > 0 /\ bytes = room))
  /\ overran' = (overran \/ (bytes > 0 /\ room = 0))

\* A call returns, less than 0 when it fails.
Leave(ok) ==
  /\ at' = "out" /\ flushing' = FALSE /\ nsamples' = 0 /\ room' = 0 /\ frames_left' = 0
  /\ failed' = (failed \/ ~ok)
  /\ flushed' = (ok /\ flushing)

\* lameEncode, lame_encode_buffer_template and the copy of the tags in
\* lame_encode_buffer_sample_t.
lameEncode(n, size) ==
  /\ at = "out" /\ valid
  /\ small' = (small \/ size <= WorstCase(CallFrames(n)))
  /\ IF bufBytes > size
     THEN /\ Leave(FALSE)
          /\ UNCHANGED <<filled, overran, bufBytes, bitIdx>>
     ELSE /\ at' = "fill" /\ nsamples' = n /\ room' = size - bufBytes
          /\ flushed' = FALSE /\ filled' = (filled \/ bufBytes = size)
          /\ bufBytes' = 0 /\ bitIdx' = 0
          /\ UNCHANGED <<flushing, frames_left, failed, overran>>
  /\ UNCHANGED <<pc, resvVars, todo, totbit, pending, dataBits, nextTiming, sampleVars, valid, slot_lag,
                 end_padding>>

\* mutation: fill_buffer takes all that the call brings
TakesAll == nsamples

\* What fill_buffer takes.
Taken == Min(FrameSamples, nsamples)

\* One round of the loop of lame_encode_buffer_sample_t up to its frame: fill_buffer.
FillBuffer ==
  LET n == Taken
      before == IF mf_samples_to_encode < 1 THEN ENCDELAY + POSTDELAY ELSE mf_samples_to_encode
  IN  /\ at = "fill" /\ nsamples > 0
      /\ mf_size' = mf_size + n
      /\ mf_samples_to_encode' = before + n
      /\ nsamples' = nsamples - n
      /\ at' = IF mf_size + n > MFSIZE THEN "crash" ELSE IF mf_size + n >= MFNeeded THEN "frame" ELSE "fill"
      /\ lead' = (IF mf_samples_to_encode < 1 THEN 0 ELSE lead) + (IF flushing THEN 0 ELSE n)
      /\ zeros' = IF flushing THEN zeros + n ELSE 0
      /\ UNCHANGED <<streamVars, valid, flushing, room, slot_lag, frames_left, end_padding, outcomeVars>>

\* lame_encode_mp3_frame up to the granules, with the padding of a constant bit rate.
EncodeFrame ==
  LET lag == slot_lag - FracSpF
  IN  /\ at = "frame"
      /\ IF loop = "CBR"
         THEN /\ BeginFrame(lag < 0)
              /\ slot_lag' = IF lag < 0 THEN lag + SamplerateOut ELSE lag
         ELSE /\ \E bits \in Bits, silence \in BOOLEAN : AllocateFrame(bits, silence)
              /\ UNCHANGED slot_lag
      /\ at' = "stream"
      /\ UNCHANGED <<sampleVars, valid, flushing, nsamples, room, frames_left, end_padding, outcomeVars>>

StreamStep ==
  /\ at \in {"stream", "flush"}
  /\ FrameStep
  /\ UNCHANGED <<sampleVars, callVars, outcomeVars>>

\* The frame is copied out and its samples shifted out of mfbuf; or it is not, and they stay.
FrameCopied ==
  /\ at = "stream" /\ pc = "done"
  /\ IF Fits(bufBytes)
     THEN /\ CopyBuffer
          /\ CopyOut(bufBytes)
          /\ mf_size' = mf_size - FrameSamples
          /\ mf_samples_to_encode' = mf_samples_to_encode - FrameSamples
          /\ lead' = lead - FrameSamples
          /\ frames_left' = IF flushing THEN frames_left - 1 ELSE 0
          /\ at' = "fill"
          /\ UNCHANGED <<flushing, nsamples, flushed, failed>>
     ELSE /\ Leave(FALSE)
          /\ pc' = "idle"
          /\ mf_samples_to_encode' = IF flushing THEN 0 ELSE mf_samples_to_encode
          /\ UNCHANGED <<resvVars, todo, bitVars, nextTiming, mf_size, lead, filled, overran>>
  /\ UNCHANGED <<valid, slot_lag, end_padding, zeros, small>>

\* The samples of the call are used up; a flush looks whether it needs another bunch.
EncodeReturns ==
  /\ at = "fill" /\ nsamples = 0
  /\ IF flushing
     THEN /\ at' = "bunch"
          /\ UNCHANGED <<flushing, nsamples, room, frames_left, failed, flushed>>
     ELSE Leave(TRUE)
  /\ UNCHANGED <<streamVars, sampleVars, valid, slot_lag, end_padding, small, filled, overran>>

\* mutation: the end is padded to whole frames, and no more
WholeFrames(samples) == FrameSamples - (samples % FrameSamples)

EndPadding(samples) ==
  LET rest == FrameSamples - (samples % FrameSamples)
  IN  IF rest < Granule THEN rest + FrameSamples ELSE rest

\* lameFlush and lame_encode_flush up to its loop.  A second flush in a row does nothing.
lameFlush(size) ==
  LET samples == mf_samples_to_encode - POSTDELAY
  IN  /\ at = "out" /\ valid /\ mf_samples_to_encode >= 1
      /\ end_padding' = EndPadding(samples)
      /\ frames_left' = (samples + EndPadding(samples)) \div FrameSamples
      /\ at' = "bunch" /\ flushing' = TRUE /\ room' = size
      /\ flushed' = FALSE /\ small' = (small \/ size <= WorstCase(FlushFrames))
      /\ UNCHANGED <<streamVars, sampleVars, valid, nsamples, slot_lag, failed, filled, overran>>

\* One round of that loop: lame_encode_buffer is called with zeros, and copies out what an
\* earlier call has left.
Bunch ==
  LET bunch == Min(MFNeeded - mf_size, MaxBunch)
  IN  /\ at = "bunch" /\ frames_left > 0
      /\ IF Fits(bufBytes)
         THEN /\ CopyOut(bufBytes)
              /\ bufBytes' = 0 /\ bitIdx' = 0
              /\ nsamples' = IF bunch < 1 THEN 1 ELSE bunch
              /\ at' = "fill"
              /\ UNCHANGED <<mf_samples_to_encode, flushing, frames_left, flushed, failed>>
         ELSE /\ Leave(FALSE)
              /\ mf_samples_to_encode' = 0
              /\ UNCHANGED <<bufBytes, bitIdx, filled, overran>>
      /\ UNCHANGED <<pc, resvVars, todo, totbit, pending, dataBits, nextTiming, mf_size, lead, zeros, valid,
                     slot_lag, end_padding, small>>

\* The loop ends and flush_bitstream begins.
FlushStream ==
  /\ at = "bunch" /\ frames_left <= 0
  /\ BeginFlush
  /\ mf_samples_to_encode' = 0
  /\ at' = "flush"
  /\ UNCHANGED <<mf_size, lead, zeros, valid, flushing, nsamples, room, slot_lag, frames_left, end_padding,
                 outcomeVars>>

\* The copy after flush_bitstream.
FlushCopied ==
  /\ at = "flush" /\ pc \in {"done", "idle"}
  /\ pc' = "idle"
  /\ Leave(Fits(bufBytes))
  /\ IF Fits(bufBytes)
     THEN /\ bufBytes' = 0 /\ bitIdx' = 0
          /\ filled' = (filled \/ (bufBytes > 0 /\ bufBytes = room))
          /\ overran' = (overran \/ (bufBytes > 0 /\ room = 0))
     ELSE UNCHANGED <<bufBytes, bitIdx, filled, overran>>
  /\ UNCHANGED <<resvVars, todo, totbit, pending, dataBits, nextTiming, sampleVars, valid, slot_lag,
                 end_padding, small>>

LameNext ==
  \/ \E tag \in TagBytes, ok \in BOOLEAN : lameInit(tag, ok)
  \/ lameClose
  \/ \E n \in CallSamples, size \in ArraySizes : lameEncode(n, size)
  \/ \E size \in ArraySizes : lameFlush(size)
  \/ FillBuffer
  \/ EncodeFrame
  \/ StreamStep
  \/ FrameCopied
  \/ EncodeReturns
  \/ Bunch
  \/ FlushStream
  \/ FlushCopied

LameSpec == NoEncoder /\ [][LameNext]_lameVars

-----------------------------------------------------------------------------
LameTypeOK ==
  /\ StreamTypeOK
  /\ {valid, flushing, flushed, small, failed, filled, overran} \subseteq BOOLEAN
  /\ at \in Places
  /\ {nsamples, mf_size, end_padding, zeros} \subseteq Nat
  /\ {room, mf_samples_to_encode, lead, frames_left} \subseteq Int
  /\ slot_lag \in 0..SamplerateOut - 1

\* After a flush, unless an earlier call failed: every byte of every frame is written and
\* copied out, the frames hold what was fed, the delay of the encoder and the padding that
\* lame_encode_flush counts, and they reach half a granule beyond the last sample fed, which
\* its overlap with the next granule needs.
FlushEndsStream ==
  flushed /\ ~failed =>
    /\ pending = <<>> /\ totbit = nextTiming /\ bufBytes = 0
    /\ ENCDELAY + lead + end_padding = 0
    /\ mf_size + Granule \div 2 <= zeros

\* With arrays as large as lame.h asks for, no call fails, fills its array or overflows mfbuf.
\* Without: an array is overrun only by a call that filled it exactly before, since a size of
\* 0 is left unchecked, and mfbuf only after a call that failed, whose samples stay.
BuffersHold ==
  /\ ~small => ~failed /\ ~filled /\ at # "crash"
  /\ overran => filled
  /\ at = "crash" => failed
=============================================================================
