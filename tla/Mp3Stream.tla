----------------------------- MODULE Mp3Stream ------------------------------
(***************************************************************************)
(* How LAME packs frames into the MP3 stream: the bit reservoir            *)
(* (reservoir.c), the bits the quantisation loops may spend from it        *)
(* (quantize.c, on_pe of quantize_pvt.c) and the writer that puts headers  *)
(* between the bytes of the main data (bitstream.c).                       *)
(*                                                                         *)
(* A header is written when as many bits are out as its write_timing says, *)
(* in the middle of the main data of whatever frame is being written, and  *)
(* tells in main_data_begin how far in front of it the main data of its    *)
(* own frame begins.  The ring of headers between w_ptr and h_ptr is the   *)
(* sequence pending; nextTiming is header[h_ptr].write_timing.             *)
(*                                                                         *)
(* Sizes are in bits unless they say bytes.  Not in the code: dataBits,    *)
(* the bits written so far without headers, and in each pending header     *)
(* start, what dataBits was where the main data of its frame began.        *)
(***************************************************************************)
EXTENDS Integers, Sequences

CONSTANTS
  Rates,             \* the bit rate indices
  VbrMin, VbrMax,    \* the lowest and the highest that a variable rate may use
  CbrRate,           \* the one used with a constant bit rate
  FrameBytes,        \* of each, the bytes of a frame without padding
  MinFrameBytes,     \* no frame has less
  EnforceMin,        \* enforce_min_bitrate
  sideinfo_len,      \* bytes of the header and the side information
  mode_gr,           \* granules of a frame
  BufferConstraint,  \* cfg->buffer_constraint
  ResvLimit,         \* what main_data_begin can hold: (8 * 256) * mode_gr - 8
  DisableReservoir,
  SubstepShaping,    \* bit 0 of substep_shaping
  MaxGranuleBits,    \* MAX_BITS_PER_GRANULE
  MaxHeaderBuf,      \* MAX_HEADER_BUF
  MaxTotbit,         \* where totbit is set back (1000000000)
  Loops,             \* the quantisation loops an encoder may be set up with
  Bits               \* what a granule or a frame may come to, bounded for model checking

SideInfo == 8 * sideinfo_len

ASSUME RatesAssumption ==
  /\ Rates \subseteq Nat /\ {CbrRate, VbrMin, VbrMax} \subseteq Rates
  /\ FrameBytes \in [Rates -> Nat]
  /\ \A r, s \in Rates : r <= s => FrameBytes[r] <= FrameBytes[s]
ASSUME FrameAssumption ==
  /\ sideinfo_len \in Nat \ {0} /\ MinFrameBytes \in Nat /\ MinFrameBytes > sideinfo_len
  /\ \A r \in Rates : r <= VbrMax /\ MinFrameBytes <= FrameBytes[r]
ASSUME GranulesAssumption == mode_gr \in {1, 2}
ASSUME ReservoirAssumption ==
  /\ BufferConstraint \in Nat /\ BufferConstraint % 8 = 0
  /\ ResvLimit \in Nat /\ ResvLimit % 8 = 0
  /\ {DisableReservoir, SubstepShaping, EnforceMin} \subseteq BOOLEAN
  /\ MaxGranuleBits \in Nat /\ MaxTotbit \in Nat
ASSUME HeaderBufAssumption ==
  MaxHeaderBuf \in Nat /\ ResvLimit < 8 * (MinFrameBytes - sideinfo_len) * (MaxHeaderBuf - 1)
ASSUME LoopsAssumption == Loops \subseteq {"CBR", "ABR", "VBR_old", "VBR_new"}
ASSUME BitsAssumption == Bits \subseteq Nat

VARIABLES
  loop,               \* gfc->iteration_loop
  pc,                 \* where format_bitstream or the loop is, "idle" between frames
  ResvSize, ResvMax,
  main_data_begin,    \* in bytes
  frameBits,          \* getframebits: bits of the frame at hand
  granule, used,      \* granules allocated, and part2_3_length + part2_length of them
  drainPost,          \* resvDrain_post; resvDrain_pre is written at once
  todo,               \* bits that putbits2 still has to put
  totbit, bitIdx,     \* of the bit stream: bits put, free bits of the last byte
  bufBytes,           \* buf_byte_idx + 1
  pending, nextTiming,
  dataBits

resvVars == <<loop, ResvSize, ResvMax, main_data_begin, frameBits, granule, used, drainPost>>
bitVars == <<totbit, bitIdx, bufBytes, pending, dataBits>>
streamVars == <<pc, resvVars, todo, bitVars, nextTiming>>

EncoderPc == {"idle", "granules", "pre", "main", "post", "done", "flush", "exit", "overrun"}

Min(x, y) == IF x <= y THEN x ELSE y
IsLeast(r, S) == r \in S /\ \A s \in S : r <= s
IsGreatest(r, S) == r \in S /\ \A s \in S : s <= r

\* init_bit_stream_w, after the tag frame of tagBytes that InitVbrTag adds with add_dummy_byte.
StreamInit(tagBytes) ==
  /\ loop \in Loops
  /\ pc = "idle"
  /\ ResvSize = 0 /\ ResvMax = 0 /\ main_data_begin = 0
  /\ frameBits = 0 /\ granule = 0 /\ used = 0 /\ drainPost = 0 /\ todo = 0
  /\ totbit = 8 * tagBytes /\ bitIdx = 0 /\ bufBytes = tagBytes
  /\ pending = <<>> /\ nextTiming = 8 * tagBytes
  /\ dataBits = 0

\* The same for an encoder that is set up later.
StreamRestart(tagBytes) ==
  /\ loop' \in Loops
  /\ pc' = "idle"
  /\ ResvSize' = 0 /\ ResvMax' = 0 /\ main_data_begin' = 0
  /\ frameBits' = 0 /\ granule' = 0 /\ used' = 0 /\ drainPost' = 0 /\ todo' = 0
  /\ totbit' = 8 * tagBytes /\ bitIdx' = 0 /\ bufBytes' = tagBytes
  /\ pending' = <<>> /\ nextTiming' = 8 * tagBytes
  /\ dataBits' = 0

-----------------------------------------------------------------------------
(* The bit reservoir.                                                      *)

FrameLength(rate, padding) == 8 * (FrameBytes[rate] + (IF padding THEN 1 ELSE 0))

\* mutation: the size of the field main_data_begin is forgotten
ResvMaxByBuffer(length) ==
  IF BufferConstraint < length \/ DisableReservoir THEN 0 ELSE BufferConstraint - length

\* ResvFrameBegin: the reservoir allowed beside a frame, and the bits the frame may spend.
ResvMaxOf(length) ==
  LET max == Min(BufferConstraint - length, ResvLimit)
  IN  IF max < 0 \/ DisableReservoir THEN 0 ELSE max
MeanBits(length) == (length - SideInfo) \div mode_gr
FullFrameBits(length, size) ==
  Min(MeanBits(length) * mode_gr + Min(size, ResvMaxOf(length)), BufferConstraint)

\* ResvMaxBits and on_pe: the most that granule gr may spend with a constant bit rate, the
\* channels together.  The mean that granule 1 finds in size is what granule 0 left of it.
MaxBits(length, size, max, gr) ==
  LET mean == MeanBits(length)
      resv == size + (IF gr = 0 THEN 0 ELSE mean)
      limit == IF SubstepShaping THEN (max * 9) \div 10 ELSE max
      full == resv * 10 > limit * 9
      add == IF full THEN resv - (limit * 9) \div 10 ELSE 0
      target == IF full \/ DisableReservoir \/ SubstepShaping THEN mean + add
                ELSE (9 * mean) \div 10
      extra == Min(resv, (max * 6) \div 10) - add
  IN  Min(target + (IF extra < 0 THEN 0 ELSE extra), MaxGranuleBits)

\* CBR_iteration_loop up to its first granule.
BeginFrame(padding) ==
  /\ pc = "idle" /\ loop = "CBR"
  /\ frameBits' = FrameLength(CbrRate, padding)
  /\ ResvMax' = ResvMaxOf(FrameLength(CbrRate, padding))
  /\ granule' = 0 /\ used' = 0
  /\ pc' = "granules"
  /\ UNCHANGED <<loop, ResvSize, main_data_begin, drainPost, todo, bitVars, nextTiming>>

\* outer_loop and iteration_finish_one, which calls ResvAdjust, for the channels of a granule.
EncodeGranule(bits) ==
  /\ pc = "granules" /\ granule < mode_gr
  /\ bits <= MaxBits(frameBits, ResvSize, ResvMax, granule)
  /\ ResvSize' = ResvSize - bits
  /\ used' = used + bits
  /\ granule' = granule + 1
  /\ UNCHANGED <<pc, loop, ResvMax, main_data_begin, frameBits, drainPost, todo, bitVars, nextTiming>>

\* The rates at which the reservoir refills to a size that is not negative (ABR_iteration_loop).
Refilling(bits) == {r \in Rates : r >= VbrMin /\ FullFrameBits(8 * FrameBytes[r], ResvSize - bits) >= 0}

\* The rates able to hold the bits (VBR_old_iteration_loop, VBR_new_iteration_loop).
Holding(bits, silence) ==
  {r \in Rates : /\ r >= VbrMin \/ (silence /\ ~EnforceMin)
                 /\ bits <= FullFrameBits(8 * FrameBytes[r], ResvSize) \/ r = VbrMax}

\* The lowest of them, and with VBR_new_iteration_loop all higher ones that leave no more than
\* the reservoir can keep.
NotWasting(bits, silence) ==
  LET pad == IF silence THEN 0 ELSE ResvMaxOf(8 * FrameBytes[VbrMax])
  IN  {r \in Rates : \E lowest \in Holding(bits, silence) :
         /\ IsLeast(lowest, Holding(bits, silence))
         /\ \/ r = lowest
            \/ r > lowest /\ pad > 0 /\ FullFrameBits(8 * FrameBytes[r], ResvSize) - bits <= pad}

\* ABR_iteration_loop, VBR_old_iteration_loop and VBR_new_iteration_loop, up to ResvFrameEnd.
\* What the granules get is scaled to what the frame can hold at the highest rate; only frames
\* of a constant bit rate are padded.
AllocateFrame(bits, silence) ==
  /\ pc = "idle"
  /\ bits <= FullFrameBits(8 * FrameBytes[VbrMax], ResvSize)
  /\ \E rate \in Rates :
       /\ \/ loop = "ABR" /\ IsLeast(rate, Refilling(bits))
          \/ loop = "VBR_old" /\ IsLeast(rate, Holding(bits, silence))
          \/ loop = "VBR_new" /\ IsGreatest(rate, NotWasting(bits, silence))
       /\ frameBits' = 8 * FrameBytes[rate]
       /\ ResvMax' = ResvMaxOf(8 * FrameBytes[rate])
       /\ pc' = IF loop = "VBR_new" /\ bits > FullFrameBits(8 * FrameBytes[rate], ResvSize)
                THEN "exit" ELSE "granules"
  /\ ResvSize' = ResvSize - bits
  /\ used' = bits /\ granule' = mode_gr
  /\ UNCHANGED <<loop, main_data_begin, drainPost, todo, bitVars, nextTiming>>

\* ResvFrameEnd, and format_bitstream up to the first drain.
FrameEnd ==
  LET size == ResvSize + MeanBits(frameBits) * mode_gr
      aligned == size - (size % 8)
      stuffing == (size % 8) + (IF aligned > ResvMax THEN aligned - ResvMax ELSE 0)
      pre == 8 * (Min(main_data_begin * 8, stuffing) \div 8)
  IN  /\ pc = "granules" /\ granule = mode_gr
      /\ main_data_begin' = main_data_begin - pre \div 8
      /\ drainPost' = stuffing - pre
      /\ ResvSize' = size - stuffing
      /\ todo' = pre
      /\ pc' = "pre"
      /\ UNCHANGED <<loop, ResvMax, frameBits, granule, used, bitVars, nextTiming>>

-----------------------------------------------------------------------------
(* The bit stream.                                                         *)

\* header[w_ptr].write_timing
FirstTiming == IF pending = <<>> THEN nextTiming ELSE pending[1].timing

\* Up to a byte of putbits2: a header first if one is due where the byte begins, then bits.
\* Without a pending header the writer would pass h_ptr.
PutBits ==
  LET due == bitIdx = 0 /\ FirstTiming = totbit
      header == IF due THEN SideInfo ELSE 0
      free == IF bitIdx = 0 THEN 8 ELSE bitIdx
      k == Min(todo, free)
  IN  /\ pc \in {"pre", "main", "post", "flush"} /\ todo > 0
      /\ pending' = IF due /\ pending # <<>> THEN Tail(pending) ELSE pending
      /\ pc' = IF due /\ pending = <<>> THEN "overrun" ELSE pc
      /\ totbit' = totbit + header + k
      /\ dataBits' = dataBits + k
      /\ bitIdx' = free - k
      /\ bufBytes' = bufBytes + (IF due THEN sideinfo_len ELSE 0) + (IF bitIdx = 0 THEN 1 ELSE 0)
      /\ todo' = todo - k
      /\ UNCHANGED <<resvVars, nextTiming>>

\* encodeSideInfo2, then writeMainData begins.
EncodeSideInfo ==
  /\ pc = "pre" /\ todo = 0
  /\ pending' = Append(pending, [timing |-> nextTiming, mdb |-> main_data_begin, start |-> dataBits])
  /\ nextTiming' = nextTiming + frameBits
  /\ todo' = used
  /\ pc' = "main"
  /\ UNCHANGED <<resvVars, totbit, bitIdx, bufBytes, dataBits>>

DrainPost ==
  /\ pc = "main" /\ todo = 0
  /\ todo' = drainPost
  /\ pc' = "post"
  /\ UNCHANGED <<resvVars, bitVars, nextTiming>>

\* compute_flushbits: the bits that bring the stream to the end of the last frame.
FlushBits ==
  LET ahead == nextTiming - frameBits - totbit
  IN  frameBits + ahead - (IF ahead >= 0 THEN Len(pending) * SideInfo ELSE 0)

NextMainDataBegin == main_data_begin + (frameBits - SideInfo - used - drainPost) \div 8

\* mutation: only the entry at h_ptr is set back
HeadersNotSetBack(back, dataBack) ==
  [k \in 1..Len(pending) |-> [pending[k] EXCEPT !.start = @ - dataBack]]

HeadersSetBack(back, dataBack) ==
  [k \in 1..Len(pending) |-> [pending[k] EXCEPT !.timing = @ - back, !.start = @ - dataBack]]

\* The rest of format_bitstream; totbit is set back when it has grown large.
FrameDone ==
  LET back == IF totbit > MaxTotbit THEN totbit ELSE 0
      dataBack == IF totbit > MaxTotbit THEN dataBits ELSE 0
  IN  /\ pc = "post" /\ todo = 0
      /\ main_data_begin' = NextMainDataBegin
      /\ ResvSize' = 8 * NextMainDataBegin
      /\ totbit' = totbit - back
      /\ nextTiming' = nextTiming - back
      /\ dataBits' = dataBits - dataBack
      /\ pending' = HeadersSetBack(back, dataBack)
      /\ pc' = "done"
      /\ UNCHANGED <<loop, ResvMax, frameBits, granule, used, drainPost, todo, bitIdx, bufBytes>>

\* copy_buffer, after a frame or a flush.
CopyBuffer ==
  /\ pc = "done"
  /\ bufBytes' = 0 /\ bitIdx' = 0
  /\ pc' = "idle"
  /\ UNCHANGED <<resvVars, todo, totbit, pending, dataBits, nextTiming>>

\* flush_bitstream, after at least one frame.
BeginFlush ==
  /\ pc = "idle" /\ frameBits > 0
  /\ todo' = FlushBits
  /\ pc' = IF FlushBits < 0 THEN "idle" ELSE "flush"
  /\ UNCHANGED <<resvVars, bitVars, nextTiming>>

EndFlush ==
  /\ pc = "flush" /\ todo = 0
  /\ ResvSize' = 0 /\ main_data_begin' = 0
  /\ pc' = "done"
  /\ UNCHANGED <<loop, ResvMax, frameBits, granule, used, drainPost, todo, bitVars, nextTiming>>

\* The steps inside the quantisation loop, format_bitstream and flush_bitstream.
FrameStep ==
  \/ \E bits \in Bits : EncodeGranule(bits)
  \/ FrameEnd
  \/ PutBits
  \/ EncodeSideInfo
  \/ DrainPost
  \/ FrameDone
  \/ EndFlush

StreamNext ==
  \/ \E padding \in BOOLEAN : BeginFrame(padding)
  \/ \E bits \in Bits, silence \in BOOLEAN : AllocateFrame(bits, silence)
  \/ FrameStep
  \/ CopyBuffer
  \/ BeginFlush

StreamSpec == StreamInit(0) /\ [][StreamNext]_streamVars

-----------------------------------------------------------------------------
StreamTypeOK ==
  /\ loop \in Loops /\ pc \in EncoderPc
  /\ {ResvSize, main_data_begin, totbit, nextTiming, dataBits, todo} \subseteq Int
  /\ {ResvMax, frameBits, used, drainPost, bufBytes} \subseteq Nat
  /\ granule \in 0..2 /\ bitIdx \in 0..7
  /\ pending \in Seq([timing : Int, mdb : Int, start : Int])

\* Before format_bitstream compares them, and between frames: what main_data_begin counts, what
\* the loops think is in the reservoir and what a flush would have to write are the same, no
\* more than main_data_begin can hold and than the loops allow (the asserts and error messages
\* of format_bitstream, ResvFrameBegin and VBR_new_iteration_loop).
ReservoirAgrees ==
  /\ pc # "exit"
  /\ pc = "post" /\ todo = 0 =>
       /\ 8 * NextMainDataBegin = ResvSize /\ FlushBits = ResvSize
       /\ totbit % 8 = 0
  /\ pc \in {"idle", "done"} =>
       /\ ResvSize = 8 * main_data_begin
       /\ ResvSize \in 0..Min(ResvMax, ResvLimit)

\* A header is never overtaken by the writer, never finds the ring full, and where it is put,
\* the main data of its frame began as many bytes of main data before as it says.
HeadersPointAtTheirData ==
  /\ pc # "overrun"
  /\ Len(pending) < MaxHeaderBuf
  /\ pending # <<>> /\ bitIdx = 0 =>
       /\ FirstTiming >= totbit
       /\ FirstTiming = totbit => dataBits - pending[1].start = 8 * pending[1].mdb
=============================================================================
