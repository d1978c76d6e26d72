-------------------------- MODULE LameEncoderProofs --------------------------
(***************************************************************************)
(* Proofs about Mp3Stream and LameEncoder.  The inductive invariant        *)
(* StreamInv says how far the writer is from the place of the next header  *)
(* (Backlog) and of every pending one (HeaderAt), both in bits of main     *)
(* data, and that this is what the reservoir counts.  Then, whatever the   *)
(* encoder's callers do, every step is one of the stream, empties the      *)
(* buffer or leaves the stream alone, so that the same holds of the        *)
(* encoder; and a flush ends the stream.  RoomInv weighs what a call has   *)
(* still to write against what is left of its caller's array.              *)
(***************************************************************************)
EXTENDS LameEncoder, TLAPS

HeaderSet == [timing : Int, mdb : Int, start : Int]

\* Bits of main data still to come before the header at h_ptr, and before pending header k.
Backlog == nextTiming - totbit - SideInfo * Len(pending)
HeaderAt(k) == pending[k].timing - totbit - SideInfo * (k - 1)

\* A header and the least main data of its frame.
LeastGap == 8 * MinFrameBytes

TypeInv ==
  /\ loop \in Loops /\ pc \in EncoderPc
  /\ ResvSize \in Int /\ main_data_begin \in Nat /\ ResvMax \in Nat
  /\ frameBits \in Nat /\ granule \in 0..2 /\ used \in Nat /\ drainPost \in Nat
  /\ todo \in Nat /\ totbit \in Int /\ bitIdx \in 0..7 /\ bufBytes \in Nat
  /\ pending \in Seq(HeaderSet) /\ nextTiming \in Int /\ dataBits \in Int

\* The reservoir, in the granules of a frame, while it is written, and between frames.
ReservoirInv ==
  /\ pc \notin {"exit", "overrun"}
  /\ ResvMax % 8 = 0 /\ ResvMax <= ResvLimit /\ 8 * main_data_begin <= ResvLimit
  /\ pc \in {"idle", "done", "flush"} => ResvSize = 8 * main_data_begin /\ ResvSize <= ResvMax
  /\ pc = "granules" =>
       /\ ResvMax = ResvMaxOf(frameBits)
       /\ ResvSize + used = 8 * main_data_begin
       /\ granule <= mode_gr /\ (granule = 0 => used = 0)
       /\ used <= granule * MeanBits(frameBits) + 8 * main_data_begin
  /\ pc \in {"pre", "main", "post"} =>
       /\ 8 * main_data_begin + frameBits - SideInfo - used - drainPost = ResvSize
       /\ ResvSize \in 0..ResvMax /\ ResvSize % 8 = 0

FrameInv ==
  /\ frameBits % 8 = 0
  /\ frameBits = 0 => pc \in {"idle", "done"} /\ pending = <<>>
  /\ frameBits # 0 => frameBits >= LeastGap

BacklogInv ==
  /\ pc \in {"idle", "done", "granules"} => Backlog = 8 * main_data_begin
  /\ pc = "pre"   => Backlog = 8 * main_data_begin + todo
  /\ pc = "main"  => Backlog = ResvSize + drainPost + todo
  /\ pc = "post"  => Backlog = ResvSize + todo
  /\ pc = "flush" => Backlog = todo

\* The pending headers: each points at its data, none is behind the writer, and between two of
\* them there is room for the first one and the least main data of its frame.
HeaderInv ==
  /\ nextTiming % 8 = 0 /\ (totbit + bitIdx) % 8 = 0
  /\ \A k \in 1..Len(pending) :
       /\ pending[k].timing % 8 = 0
       /\ 8 * pending[k].mdb = dataBits + HeaderAt(k) - pending[k].start
       /\ pending[k].start <= dataBits /\ 8 * pending[k].mdb <= ResvLimit
       /\ HeaderAt(k) >= 0
       /\ nextTiming >= pending[k].timing + LeastGap * (Len(pending) + 1 - k)
  /\ \A i, j \in 1..Len(pending) :
       i <= j => pending[j].timing >= pending[i].timing + LeastGap * (j - i)
  /\ pc \in {"main", "post", "done", "idle", "flush"} /\ pending # <<>> =>
       pending[Len(pending)].timing = nextTiming - frameBits

StreamInv == TypeInv /\ ReservoirInv /\ FrameInv /\ BacklogInv /\ HeaderInv

-----------------------------------------------------------------------------
(* What the reservoir functions return.                                    *)

LEMMA ConstantsAreNumbers ==
  /\ SideInfo \in Nat /\ SideInfo % 8 = 0 /\ SideInfo > 0
  /\ LeastGap \in Nat /\ LeastGap % 8 = 0 /\ LeastGap >= SideInfo + 8
  /\ BufferConstraint \in Nat /\ BufferConstraint % 8 = 0
  /\ ResvLimit \in Nat /\ ResvLimit % 8 = 0
  /\ MaxGranuleBits \in Nat /\ MaxTotbit \in Nat /\ mode_gr \in {1, 2}
  /\ ResvLimit < (LeastGap - SideInfo) * (MaxHeaderBuf - 1) /\ MaxHeaderBuf \in Nat
BY FrameAssumption, ReservoirAssumption, GranulesAssumption, HeaderBufAssumption DEF SideInfo, LeastGap

\* The granules share what the header leaves of a frame.
LEMMA MeanOfGranules ==
  ASSUME NEW length \in Nat, length % 8 = 0, length >= LeastGap
  PROVE  /\ MeanBits(length) \in Nat
         /\ MeanBits(length) * mode_gr = length - SideInfo
         /\ (length - SideInfo) % 8 = 0
<1>1. /\ SideInfo \in Nat /\ SideInfo % 8 = 0 /\ length >= SideInfo
  BY ConstantsAreNumbers
<1>2. (length - SideInfo) % 8 = 0 /\ length - SideInfo \in Nat
  BY <1>1
<1>3. CASE mode_gr = 1
  BY <1>2, <1>3, SMT DEF MeanBits
<1>4. CASE mode_gr = 2
  BY <1>2, <1>4, SMT DEF MeanBits
<1> QED
  BY <1>2, <1>3, <1>4, ConstantsAreNumbers

LEMMA ResvMaxIsAReservoir ==
  ASSUME NEW length \in Nat, length % 8 = 0
  PROVE  /\ ResvMaxOf(length) \in Nat /\ ResvMaxOf(length) % 8 = 0
         /\ ResvMaxOf(length) <= ResvLimit
BY ConstantsAreNumbers DEF ResvMaxOf, Min

\* A frame never holds more than its own bits and the reservoir, and a longer one never less.
LEMMA FullFrameIsBounded ==
  ASSUME NEW length \in Nat, length % 8 = 0, length >= LeastGap, NEW size \in Int
  PROVE  FullFrameBits(length, size) \in Int /\ FullFrameBits(length, size) <= length - SideInfo + size
<1>1. MeanBits(length) * mode_gr = length - SideInfo
  BY MeanOfGranules
<1>2. FullFrameBits(length, size) = Min(length - SideInfo + Min(size, ResvMaxOf(length)), BufferConstraint)
  BY <1>1 DEF FullFrameBits
<1>3. ResvMaxOf(length) \in Int
  BY ResvMaxIsAReservoir
<1>4. SideInfo \in Nat /\ BufferConstraint \in Nat
  BY ConstantsAreNumbers
<1> QED
  BY <1>2, <1>3, <1>4 DEF Min

LEMMA LongerFramesHoldMore ==
  ASSUME NEW short \in Nat, short % 8 = 0, short >= LeastGap,
         NEW long \in Nat, long % 8 = 0, short <= long, NEW size \in Int
  PROVE  FullFrameBits(short, size) <= FullFrameBits(long, size)
<1>1. MeanBits(short) * mode_gr = short - SideInfo /\ MeanBits(long) * mode_gr = long - SideInfo
  BY MeanOfGranules, ConstantsAreNumbers
<1>2. FullFrameBits(short, size) = Min(short - SideInfo + Min(size, ResvMaxOf(short)), BufferConstraint)
  BY <1>1 DEF FullFrameBits
<1>3. FullFrameBits(long, size) = Min(long - SideInfo + Min(size, ResvMaxOf(long)), BufferConstraint)
  BY <1>1 DEF FullFrameBits
<1> QED
  BY <1>2, <1>3, ConstantsAreNumbers DEF ResvMaxOf, Min

LEMMA GranuleIsANumber ==
  ASSUME NEW length \in Nat, length % 8 = 0, length >= LeastGap, NEW size \in Int, NEW max \in Nat,
         NEW gr \in Nat
  PROVE  MaxBits(length, size, max, gr) \in Int
<1>1. MeanBits(length) \in Nat /\ MaxGranuleBits \in Nat
  BY MeanOfGranules, ConstantsAreNumbers
<1> QED
  BY <1>1 DEF MaxBits, Min

\* With a constant bit rate a granule gets no more than its mean and the reservoir.
LEMMA GranuleIsBounded ==
  ASSUME NEW length \in Nat, length % 8 = 0, length >= LeastGap, NEW size \in Int, NEW max \in Nat,
         NEW gr \in Nat, size + (IF gr = 0 THEN 0 ELSE MeanBits(length)) >= 0
  PROVE  MaxBits(length, size, max, gr)
           <= MeanBits(length) + size + (IF gr = 0 THEN 0 ELSE MeanBits(length))
<1> DEFINE mean == MeanBits(length)
           resv == size + (IF gr = 0 THEN 0 ELSE mean)
           limit == IF SubstepShaping THEN (max * 9) \div 10 ELSE max
           full == resv * 10 > limit * 9
           add == IF full THEN resv - (limit * 9) \div 10 ELSE 0
           target == IF full \/ DisableReservoir \/ SubstepShaping THEN mean + add
                     ELSE (9 * mean) \div 10
           extra == Min(resv, (max * 6) \div 10) - add
<1>1. mean \in Nat /\ resv \in Nat /\ limit \in Nat
  BY MeanOfGranules
<1>2. add \in Int /\ add <= resv /\ add >= 0
  <2>1. (limit * 9) \div 10 \in Nat
    BY <1>1
  <2>2. full => (limit * 9) \div 10 <= resv
    <3> HIDE DEF resv, limit
    <3> QED
      BY <1>1
  <2> HIDE DEF resv, limit
  <2> QED
    BY <1>1, <2>1, <2>2
<1>3. target \in Int /\ target <= mean + add
  <2> HIDE DEF mean, resv, limit, full, add
  <2> QED
    BY <1>1, <1>2
<1>4. extra \in Int /\ extra <= resv - add
  <2> HIDE DEF resv, add
  <2> QED
    BY <1>1, <1>2 DEF Min
<1>5. MaxBits(length, size, max, gr) = Min(target + (IF extra < 0 THEN 0 ELSE extra), MaxGranuleBits)
  BY DEF MaxBits
<1>6. target + (IF extra < 0 THEN 0 ELSE extra) <= mean + resv
  <2> HIDE DEF mean, resv, add, target, extra
  <2> QED
    BY <1>1, <1>2, <1>3, <1>4
<1> HIDE DEF target, extra, mean
<1> QED
  BY <1>1, <1>3, <1>4, <1>5, <1>6, ConstantsAreNumbers DEF Min, mean
-----------------------------------------------------------------------------
(* The steps keep the invariant.                                           *)

LEMMA FrameLengths ==
  ASSUME NEW rate \in Rates
  PROVE  /\ 8 * FrameBytes[rate] \in Nat /\ (8 * FrameBytes[rate]) % 8 = 0
         /\ 8 * FrameBytes[rate] >= LeastGap
         /\ \A padding \in BOOLEAN :
              /\ FrameLength(rate, padding) \in Nat /\ FrameLength(rate, padding) % 8 = 0
              /\ FrameLength(rate, padding) >= LeastGap
<1>1. FrameBytes[rate] \in Nat /\ MinFrameBytes \in Nat /\ MinFrameBytes <= FrameBytes[rate]
  BY RatesAssumption, FrameAssumption
<1> QED
  BY <1>1 DEF FrameLength, LeastGap

LEMMA StreamStarts ==
  ASSUME NEW tagBytes \in Nat, StreamInit(tagBytes)
  PROVE  StreamInv
<1>1. TypeInv
  BY DEF StreamInit, TypeInv, EncoderPc
<1>2. ReservoirInv /\ FrameInv
  BY ConstantsAreNumbers DEF StreamInit, ReservoirInv, FrameInv
<1>3. BacklogInv
  BY ConstantsAreNumbers DEF StreamInit, BacklogInv, Backlog
<1>4. HeaderInv
  BY DEF StreamInit, HeaderInv
<1> QED
  BY <1>1, <1>2, <1>3, <1>4 DEF StreamInv

\* A step that leaves the stream alone keeps what is said of the headers.
LEMMA HeadersUntouched ==
  ASSUME HeaderInv, UNCHANGED <<pending, nextTiming, totbit, bitIdx, dataBits>>,
         pc' \in {"main", "post", "done", "idle", "flush"} /\ pending # <<>> =>
           frameBits' = frameBits /\ pc \in {"main", "post", "done", "idle", "flush"}
  PROVE  HeaderInv'
BY DEF HeaderInv, HeaderAt

LEMMA BeginFrameKeeps ==
  ASSUME StreamInv, NEW padding \in BOOLEAN, BeginFrame(padding)
  PROVE  StreamInv'
<1> DEFINE length == FrameLength(CbrRate, padding)
<1> USE DEF StreamInv
<1>1. length \in Nat /\ length % 8 = 0 /\ length >= LeastGap
  BY FrameLengths, RatesAssumption
<1>2. ResvMaxOf(length) \in Nat /\ ResvMaxOf(length) % 8 = 0 /\ ResvMaxOf(length) <= ResvLimit
  BY <1>1, ResvMaxIsAReservoir
<1>3. /\ pc = "idle" /\ pc' = "granules" /\ frameBits' = length /\ ResvMax' = ResvMaxOf(length)
      /\ granule' = 0 /\ used' = 0
      /\ UNCHANGED <<loop, ResvSize, main_data_begin, drainPost, todo>>
      /\ UNCHANGED <<totbit, bitIdx, bufBytes, pending, dataBits, nextTiming>>
  BY DEF BeginFrame, bitVars
<1> HIDE DEF length
<1>4. TypeInv'
  BY <1>1, <1>2, <1>3 DEF TypeInv, EncoderPc
<1>5. ReservoirInv'
  <2>1. MeanBits(length) \in Nat /\ mode_gr \in Nat
    BY <1>1, MeanOfGranules, ConstantsAreNumbers
  <2> QED
    BY <1>2, <1>3, <2>1 DEF ReservoirInv, TypeInv
<1>6. FrameInv'
  BY <1>1, <1>3, ConstantsAreNumbers DEF FrameInv
<1>7. BacklogInv'
  BY <1>3 DEF BacklogInv, Backlog
<1>8. HeaderInv'
  BY <1>3, HeadersUntouched
<1> QED
  BY <1>4, <1>5, <1>6, <1>7, <1>8

LEMMA EncodeGranuleKeeps ==
  ASSUME StreamInv, NEW bits \in Bits, EncodeGranule(bits)
  PROVE  StreamInv'
<1> USE DEF StreamInv
<1>1. /\ pc = "granules" /\ granule < mode_gr /\ granule' = granule + 1
      /\ bits <= MaxBits(frameBits, ResvSize, ResvMax, granule)
      /\ ResvSize' = ResvSize - bits /\ used' = used + bits
      /\ UNCHANGED <<pc, loop, ResvMax, main_data_begin, frameBits, drainPost, todo>>
      /\ UNCHANGED <<totbit, bitIdx, bufBytes, pending, dataBits, nextTiming>>
  BY DEF EncodeGranule, bitVars
<1>2. bits \in Nat /\ mode_gr \in {1, 2} /\ used \in Nat /\ granule \in Nat
  BY BitsAssumption, ConstantsAreNumbers DEF TypeInv
<1>3. frameBits \in Nat /\ frameBits % 8 = 0 /\ frameBits >= LeastGap
  BY <1>1 DEF TypeInv, FrameInv
<1>4. PICK mean \in Nat : mean = MeanBits(frameBits)
  BY <1>3, MeanOfGranules
<1>5. /\ ResvSize + used = 8 * main_data_begin /\ (granule = 0 => used = 0)
      /\ used <= granule * mean + 8 * main_data_begin
      /\ ResvSize \in Int /\ main_data_begin \in Nat /\ ResvMax \in Nat
  BY <1>1, <1>4 DEF ReservoirInv, TypeInv
<1>6. ResvSize + (IF granule = 0 THEN 0 ELSE mean) >= 0
  <2>1. CASE granule = 0
    BY <1>5, <2>1
  <2>2. CASE granule = 1
    <3>1. used <= 1 * mean + 8 * main_data_begin
      BY <1>5, <2>2
    <3> QED
      BY <1>2, <1>5, <2>2, <3>1
  <2> QED
    BY <1>1, <1>2, <2>1, <2>2
<1>7. bits <= mean + ResvSize + (IF granule = 0 THEN 0 ELSE mean)
  <2>1. MaxBits(frameBits, ResvSize, ResvMax, granule)
          <= mean + ResvSize + (IF granule = 0 THEN 0 ELSE mean)
    BY <1>2, <1>3, <1>4, <1>5, <1>6, GranuleIsBounded
  <2>2. MaxBits(frameBits, ResvSize, ResvMax, granule) \in Int
    BY <1>2, <1>3, <1>5, GranuleIsANumber
  <2> QED
    BY <1>1, <1>2, <1>4, <1>5, <2>1, <2>2
<1>8. used + bits <= (granule + 1) * mean + 8 * main_data_begin
  <2>1. CASE granule = 0
    BY <1>2, <1>5, <1>7, <2>1
  <2>2. CASE granule = 1
    BY <1>2, <1>5, <1>7, <2>2
  <2> QED
    BY <1>1, <1>2, <2>1, <2>2
<1>9. TypeInv'
  BY <1>1, <1>2, <1>5 DEF TypeInv
<1>10. ReservoirInv'
  <2>1. ResvSize' + used' = 8 * main_data_begin
    BY <1>1, <1>2, <1>5
  <2>2. granule' <= mode_gr /\ granule' # 0
    BY <1>1, <1>2
  <2>3. used' <= granule' * MeanBits(frameBits) + 8 * main_data_begin
    BY <1>1, <1>4, <1>8
  <2> QED
    BY <1>1, <2>1, <2>2, <2>3 DEF ReservoirInv
<1>11. FrameInv' /\ BacklogInv'
  BY <1>1 DEF FrameInv, BacklogInv, Backlog
<1>12. HeaderInv'
  BY <1>1, HeadersUntouched
<1> QED
  BY <1>9, <1>10, <1>11, <1>12

LEMMA AllocateFrameKeeps ==
  ASSUME StreamInv, NEW bits \in Bits, NEW silence \in BOOLEAN, AllocateFrame(bits, silence)
  PROVE  StreamInv'
<1> USE DEF StreamInv
<1>1. PICK rate \in Rates :
        /\ \/ loop = "ABR" /\ IsLeast(rate, Refilling(bits))
           \/ loop = "VBR_old" /\ IsLeast(rate, Holding(bits, silence))
           \/ loop = "VBR_new" /\ IsGreatest(rate, NotWasting(bits, silence))
        /\ frameBits' = 8 * FrameBytes[rate] /\ ResvMax' = ResvMaxOf(8 * FrameBytes[rate])
        /\ pc' = IF loop = "VBR_new" /\ bits > FullFrameBits(8 * FrameBytes[rate], ResvSize)
                 THEN "exit" ELSE "granules"
  BY DEF AllocateFrame
<1>2. /\ pc = "idle" /\ bits <= FullFrameBits(8 * FrameBytes[VbrMax], ResvSize)
      /\ ResvSize' = ResvSize - bits /\ used' = bits /\ granule' = mode_gr
      /\ UNCHANGED <<loop, main_data_begin, drainPost, todo>>
      /\ UNCHANGED <<totbit, bitIdx, bufBytes, pending, dataBits, nextTiming>>
  BY DEF AllocateFrame, bitVars
<1>3. PICK length \in Nat : length = 8 * FrameBytes[rate]
  BY FrameLengths
<1>4. length % 8 = 0 /\ length >= LeastGap
  BY <1>3, FrameLengths
<1>5. bits \in Nat /\ ResvSize \in Int /\ ResvSize = 8 * main_data_begin /\ main_data_begin \in Nat
  BY <1>2, BitsAssumption DEF TypeInv, ReservoirInv
<1>6. ASSUME NEW r \in Holding(bits, silence)
      PROVE  r \in Rates /\ bits <= FullFrameBits(8 * FrameBytes[r], ResvSize)
  BY <1>2 DEF Holding
<1>7. bits <= length - SideInfo + ResvSize /\ pc' = "granules"
  <2>1. CASE loop = "ABR" /\ IsLeast(rate, Refilling(bits))
    <3>1. FullFrameBits(length, ResvSize - bits) >= 0
      BY <1>3, <2>1 DEF IsLeast, Refilling
    <3>2. FullFrameBits(length, ResvSize - bits) <= length - SideInfo + (ResvSize - bits)
      BY <1>4, <1>5, FullFrameIsBounded
    <3>3. FullFrameBits(length, ResvSize - bits) \in Int
      BY <1>4, <1>5, FullFrameIsBounded
    <3> QED
      BY <1>1, <1>5, <2>1, <3>1, <3>2, <3>3, ConstantsAreNumbers
  <2>2. CASE loop = "VBR_old" /\ IsLeast(rate, Holding(bits, silence))
    <3>1. bits <= FullFrameBits(length, ResvSize)
      BY <1>3, <1>6, <2>2 DEF IsLeast
    <3>2. FullFrameBits(length, ResvSize) <= length - SideInfo + ResvSize
      BY <1>4, <1>5, FullFrameIsBounded
    <3>3. FullFrameBits(length, ResvSize) \in Int
      BY <1>4, <1>5, FullFrameIsBounded
    <3> QED
      BY <1>1, <1>5, <2>2, <3>1, <3>2, <3>3, ConstantsAreNumbers
  <2>3. CASE loop = "VBR_new" /\ IsGreatest(rate, NotWasting(bits, silence))
    <3>1. PICK lowest \in Holding(bits, silence) : lowest <= rate
      <4>1. PICK lowest \in Holding(bits, silence) : rate = lowest \/ rate > lowest
        BY <2>3 DEF IsGreatest, NotWasting
      <4>2. lowest \in Nat /\ rate \in Nat
        BY <1>6, RatesAssumption
      <4> QED
        BY <4>1, <4>2
    <3>2. PICK short \in Nat : short = 8 * FrameBytes[lowest]
      BY <1>6, FrameLengths
    <3>3. short % 8 = 0 /\ short >= LeastGap
      BY <1>6, <3>2, FrameLengths
    <3>4. FrameBytes[lowest] <= FrameBytes[rate] /\ FrameBytes[lowest] \in Nat /\ FrameBytes[rate] \in Nat
      BY <1>6, <3>1, RatesAssumption
    <3>5. short <= length
      BY <1>3, <3>2, <3>4
    <3>6. FullFrameBits(short, ResvSize) <= FullFrameBits(length, ResvSize)
      BY <1>4, <1>5, <3>3, <3>5, LongerFramesHoldMore
    <3>7. bits <= FullFrameBits(short, ResvSize)
      BY <1>6, <3>2
    <3>8. /\ FullFrameBits(length, ResvSize) <= length - SideInfo + ResvSize
          /\ FullFrameBits(length, ResvSize) \in Int
      BY <1>4, <1>5, FullFrameIsBounded
    <3>9. FullFrameBits(short, ResvSize) \in Int
      BY <1>5, <3>3, FullFrameIsBounded
    <3>10. bits <= FullFrameBits(length, ResvSize)
      BY <1>5, <3>6, <3>7, <3>8, <3>9
    <3>11. pc' = "granules"
      BY <1>1, <1>3, <1>5, <3>8, <3>10
    <3> QED
      BY <1>5, <3>8, <3>10, <3>11, ConstantsAreNumbers
  <2> QED
    BY <1>1, <2>1, <2>2, <2>3
<1>8. ResvMaxOf(length) \in Nat /\ ResvMaxOf(length) % 8 = 0 /\ ResvMaxOf(length) <= ResvLimit
  BY <1>4, ResvMaxIsAReservoir
<1>9. MeanBits(length) * mode_gr = length - SideInfo /\ mode_gr \in {1, 2} /\ MeanBits(length) \in Nat
  BY <1>4, MeanOfGranules, ConstantsAreNumbers
<1>10. TypeInv'
  BY <1>1, <1>2, <1>3, <1>5, <1>7, <1>8, <1>9 DEF TypeInv, EncoderPc
<1>11. ReservoirInv'
  <2>1. ResvSize' + used' = 8 * main_data_begin'
    BY <1>2, <1>5
  <2>2. used' <= granule' * MeanBits(frameBits') + 8 * main_data_begin'
    <3>1. granule' * MeanBits(frameBits') = length - SideInfo
      BY <1>1, <1>2, <1>3, <1>9
    <3> QED
      BY <1>2, <1>5, <1>7, <3>1, ConstantsAreNumbers
  <2>3. granule' <= mode_gr /\ granule' # 0
    BY <1>2, <1>9
  <2> QED
    BY <1>1, <1>2, <1>3, <1>7, <1>8, <2>1, <2>2, <2>3 DEF ReservoirInv
<1>12. FrameInv' /\ BacklogInv'
  BY <1>1, <1>2, <1>3, <1>4, <1>7, ConstantsAreNumbers DEF FrameInv, BacklogInv, Backlog
<1>13. HeaderInv'
  BY <1>2, <1>7, HeadersUntouched
<1> QED
  BY <1>10, <1>11, <1>12, <1>13
LEMMA FrameEndKeeps ==
  ASSUME StreamInv, FrameEnd
  PROVE  StreamInv'
<1> USE DEF StreamInv
<1> DEFINE size == ResvSize + MeanBits(frameBits) * mode_gr
           aligned == size - (size % 8)
           stuffing == (size % 8) + (IF aligned > ResvMax THEN aligned - ResvMax ELSE 0)
           pre == 8 * (Min(main_data_begin * 8, stuffing) \div 8)
<1>1. /\ pc = "granules" /\ granule = mode_gr /\ pc' = "pre"
      /\ main_data_begin' = main_data_begin - pre \div 8
      /\ drainPost' = stuffing - pre /\ ResvSize' = size - stuffing /\ todo' = pre
      /\ UNCHANGED <<loop, ResvMax, frameBits, granule, used>>
      /\ UNCHANGED <<totbit, bitIdx, bufBytes, pending, dataBits, nextTiming>>
  BY DEF FrameEnd, bitVars
<1>2. /\ frameBits \in Nat /\ frameBits % 8 = 0 /\ frameBits >= LeastGap
      /\ main_data_begin \in Nat /\ ResvMax \in Nat /\ ResvMax % 8 = 0 /\ used \in Nat
      /\ ResvSize \in Int /\ ResvSize + used = 8 * main_data_begin
      /\ used <= granule * MeanBits(frameBits) + 8 * main_data_begin
      /\ 8 * main_data_begin <= ResvLimit /\ ResvMax <= ResvLimit /\ granule \in Nat
  BY <1>1 DEF TypeInv, FrameInv, ReservoirInv
<1>3. MeanBits(frameBits) * mode_gr = frameBits - SideInfo /\ (frameBits - SideInfo) % 8 = 0
  BY <1>2, MeanOfGranules
<1>4. SideInfo \in Nat /\ ResvLimit \in Nat /\ mode_gr \in {1, 2} /\ MeanBits(frameBits) \in Nat
  BY <1>2, MeanOfGranules, ConstantsAreNumbers
<1>5. granule * MeanBits(frameBits) = frameBits - SideInfo
  BY <1>1, <1>3, <1>4
<1>6. size \in Nat /\ size = ResvSize + (frameBits - SideInfo)
  BY <1>2, <1>3, <1>4, <1>5
<1> HIDE DEF size
<1>7. stuffing \in Nat /\ stuffing <= size /\ (size - stuffing) % 8 = 0 /\ size - stuffing <= ResvMax
  BY <1>2, <1>6
<1> HIDE DEF stuffing, aligned
<1>8. pre \in Nat /\ pre <= 8 * main_data_begin /\ pre <= stuffing /\ 8 * (pre \div 8) = pre
  BY <1>2, <1>7 DEF Min
<1> HIDE DEF pre
<1>9. main_data_begin' \in Nat /\ 8 * main_data_begin' = 8 * main_data_begin - pre
  BY <1>1, <1>2, <1>8
<1>10. drainPost' \in Nat /\ ResvSize' \in 0..ResvMax /\ ResvSize' % 8 = 0
  BY <1>1, <1>2, <1>6, <1>7, <1>8
<1>11. TypeInv'
  BY <1>1, <1>8, <1>9, <1>10 DEF TypeInv, EncoderPc
<1>12. ReservoirInv'
  <2>1. 8 * main_data_begin' + frameBits - SideInfo - used - drainPost' = ResvSize'
    BY <1>1, <1>2, <1>4, <1>6, <1>7, <1>8, <1>9
  <2>2. 8 * main_data_begin' <= ResvLimit
    <3>1. PICK n \in Nat : n = main_data_begin' /\ n <= main_data_begin
      BY <1>1, <1>2, <1>8, <1>9
    <3>2. main_data_begin \in Nat /\ 8 * main_data_begin <= ResvLimit /\ ResvLimit \in Nat
      BY <1>2, <1>4
    <3>3. n \in Nat /\ n <= main_data_begin
      BY <3>1
    <3>4. 8 * n <= ResvLimit
      BY <3>2, <3>3
    <3> QED
      BY <3>1, <3>4
  <2>3. pc' = "pre" /\ UNCHANGED <<ResvMax, frameBits, used>>
    BY <1>1
  <2> QED
    BY <1>2, <1>10, <2>1, <2>2, <2>3 DEF ReservoirInv
<1>13. FrameInv'
  BY <1>1 DEF FrameInv
<1>14. BacklogInv'
  <2>1. Backlog' = Backlog /\ Backlog = 8 * main_data_begin
    BY <1>1 DEF BacklogInv, Backlog
  <2>2. Backlog' = 8 * main_data_begin' + todo'
    BY <1>1, <1>2, <1>8, <1>9, <2>1
  <2> QED
    BY <1>1, <2>2 DEF BacklogInv
<1>15. HeaderInv'
  BY <1>1, HeadersUntouched
<1> QED
  BY <1>11, <1>12, <1>13, <1>14, <1>15

\* What a pending header is made of.
LEMMA PendingIsTyped ==
  ASSUME TypeInv, NEW k \in 1..Len(pending)
  PROVE  /\ pending[k].timing \in Int /\ pending[k].mdb \in Int /\ pending[k].start \in Int
         /\ Len(pending) \in Nat /\ HeaderAt(k) \in Int
<1>1. pending[k] \in HeaderSet /\ totbit \in Int /\ Len(pending) \in Nat /\ k \in Int
  BY DEF TypeInv
<1>2. pending[k].timing \in Int /\ pending[k].mdb \in Int /\ pending[k].start \in Int
  BY <1>1 DEF HeaderSet
<1>3. HeaderAt(k) = pending[k].timing - totbit - SideInfo * (k - 1)
  BY DEF HeaderAt
<1>4. SideInfo * (k - 1) \in Int
  BY <1>1, ConstantsAreNumbers
<1> QED
  BY <1>1, <1>2, <1>3, <1>4

\* The first header comes first, and the others no closer than a byte of main data each.
LEMMA HeadersApart ==
  ASSUME TypeInv, HeaderInv, NEW k \in 2..Len(pending)
  PROVE  HeaderAt(k) >= HeaderAt(1) + 8
<1>1. 1 \in 1..Len(pending) /\ k \in 1..Len(pending) /\ k \in Int /\ k >= 2
  BY DEF TypeInv
<1>2. pending[k].timing >= pending[1].timing + LeastGap * (k - 1)
  BY <1>1 DEF HeaderInv
<1>3. pending[k].timing \in Int /\ pending[1].timing \in Int
  BY <1>1, PendingIsTyped
<1>4. LeastGap * (k - 1) - SideInfo * (k - 1) >= 8
  <2>1. PICK gap \in Int : gap = LeastGap - SideInfo /\ gap >= 8
    BY ConstantsAreNumbers
  <2>2. gap * (k - 1) = LeastGap * (k - 1) - SideInfo * (k - 1)
    BY <1>1, <2>1, ConstantsAreNumbers
  <2>3. PICK n \in Nat : n = k - 1 /\ n >= 1
    BY <1>1
  <2>4. gap * n >= 8
    <3>1. gap * n = gap + gap * (n - 1) /\ gap * (n - 1) >= 0
      BY <2>1, <2>3
    <3> QED
      BY <2>1, <2>3, <3>1
  <2> QED
    BY <2>2, <2>3, <2>4
<1>5. PICK a \in Int, b \in Int : a = LeastGap * (k - 1) /\ b = SideInfo * (k - 1)
  BY <1>1, ConstantsAreNumbers
<1>6. HeaderAt(k) = pending[k].timing - totbit - b /\ HeaderAt(1) = pending[1].timing - totbit
  BY <1>3, <1>5, ConstantsAreNumbers DEF HeaderAt, TypeInv
<1> QED
  BY <1>2, <1>3, <1>4, <1>5, <1>6 DEF TypeInv
LEMMA NextMultiple ==
  ASSUME NEW t \in Int, NEW n \in Int, NEW b \in 0..7, t % 8 = 0, (n + b) % 8 = 0, t - n >= 0
  PROVE  t - n \in Nat /\ t - n >= b /\ (b = 0 /\ t - n # 0 => t - n >= 8)
<1>1. b \in Int
  OBVIOUS
<1>2. (t - n - b) % 8 = 0
  BY <1>1
<1>3. PICK h \in Int : h = t - n
  OBVIOUS
<1> QED
  BY <1>1, <1>2, <1>3

\* The byte being filled ends where the first header may come, or before.
LEMMA FirstIsAhead ==
  ASSUME TypeInv, HeaderInv, pending # <<>>
  PROVE  /\ 1 \in 1..Len(pending)
         /\ HeaderAt(1) = pending[1].timing - totbit
         /\ HeaderAt(1) \in Nat /\ HeaderAt(1) >= bitIdx
         /\ bitIdx = 0 /\ HeaderAt(1) # 0 => HeaderAt(1) >= 8
<1>1. 1 \in 1..Len(pending) /\ totbit \in Int /\ bitIdx \in Int /\ bitIdx \in 0..7
  BY DEF TypeInv
<1>2. PICK t \in Int : t = pending[1].timing
  BY <1>1, PendingIsTyped
<1>3. HeaderAt(1) = t - totbit
  BY <1>1, <1>2, ConstantsAreNumbers DEF HeaderAt
<1>4. HeaderAt(1) >= 0 /\ t % 8 = 0 /\ (totbit + bitIdx) % 8 = 0
  BY <1>1, <1>2 DEF HeaderInv
<1>5. t - totbit >= 0 /\ t \in Int
  BY <1>2, <1>3, <1>4
<1>6. t - totbit \in Nat /\ t - totbit >= bitIdx /\ (bitIdx = 0 /\ t - totbit # 0 => t - totbit >= 8)
  BY <1>1, <1>4, <1>5, NextMultiple
<1> QED
  BY <1>1, <1>2, <1>3, <1>6

\* While something is still to be put there is a header in front of the place h_ptr stands for.
LEMMA DueIsPending ==
  ASSUME StreamInv, pc \in {"pre", "main", "post", "flush"}, todo > 0
  PROVE  /\ Backlog >= todo /\ Backlog \in Int
         /\ FirstTiming = totbit => pending # <<>>
<1> USE DEF StreamInv
<1>1. /\ todo \in Nat /\ ResvSize \in Int /\ drainPost \in Nat /\ main_data_begin \in Nat
      /\ nextTiming \in Int /\ totbit \in Int /\ Len(pending) \in Nat
  BY DEF TypeInv
<1>2. pc \in {"pre", "main", "post"} => ResvSize >= 0
  BY DEF ReservoirInv, TypeInv
<1>3. Backlog >= todo /\ Backlog \in Int
  <2>1. CASE pc = "pre"
    BY <1>1, <2>1 DEF BacklogInv
  <2>2. CASE pc = "main"
    BY <1>1, <1>2, <2>2 DEF BacklogInv
  <2>3. CASE pc = "post"
    BY <1>1, <1>2, <2>3 DEF BacklogInv
  <2>4. CASE pc = "flush"
    BY <1>1, <2>4 DEF BacklogInv
  <2> QED
    BY <2>1, <2>2, <2>3, <2>4
<1>4. ASSUME FirstTiming = totbit, pending = <<>>
      PROVE  FALSE
  <2>1. Backlog = 0
    BY <1>1, <1>4, ConstantsAreNumbers DEF Backlog, FirstTiming
  <2> QED
    BY <1>1, <1>3, <2>1
<1> QED
  BY <1>3, <1>4
\* What a step of the writer does, when no header is put and when the first one is.
LEMMA PutBitsCases ==
  ASSUME StreamInv, PutBits
  PROVE  /\ pc \in {"pre", "main", "post", "flush"}
         /\ UNCHANGED <<loop, ResvSize, ResvMax, main_data_begin, frameBits, granule, used, drainPost>>
         /\ pc' = pc /\ nextTiming' = nextTiming /\ bufBytes' \in Nat
         /\ \E free \in 1..8, k \in 1..8 :
              /\ k <= free /\ k <= todo /\ free = (IF bitIdx = 0 THEN 8 ELSE bitIdx)
              /\ todo' = todo - k /\ dataBits' = dataBits + k /\ bitIdx' = free - k
              /\ \/ /\ pending' = pending /\ totbit' = totbit + k
                    /\ pending # <<>> => HeaderAt(1) >= k
                 \/ /\ pending # <<>> /\ pending' = Tail(pending) /\ bitIdx = 0
                    /\ HeaderAt(1) = 0 /\ totbit' = totbit + SideInfo + k
<1> USE DEF StreamInv
<1> DEFINE due == bitIdx = 0 /\ FirstTiming = totbit
           header == IF due THEN SideInfo ELSE 0
<1>1. PICK free \in 1..8 : free = (IF bitIdx = 0 THEN 8 ELSE bitIdx)
  BY DEF TypeInv
<1>2. /\ pc \in {"pre", "main", "post", "flush"} /\ todo > 0 /\ todo \in Nat /\ bitIdx \in 0..7
      /\ totbit \in Int /\ dataBits \in Int /\ bufBytes \in Nat /\ sideinfo_len \in Nat
  BY FrameAssumption DEF PutBits, TypeInv
<1>3. PICK k \in 1..8 : k = Min(todo, free) /\ k <= free /\ k <= todo
  BY <1>1, <1>2 DEF Min
<1>4. /\ pending' = IF due /\ pending # <<>> THEN Tail(pending) ELSE pending
      /\ pc' = IF due /\ pending = <<>> THEN "overrun" ELSE pc
      /\ totbit' = totbit + header + k /\ dataBits' = dataBits + k /\ bitIdx' = free - k
      /\ bufBytes' = bufBytes + (IF due THEN sideinfo_len ELSE 0) + (IF bitIdx = 0 THEN 1 ELSE 0)
      /\ todo' = todo - k
  BY <1>1, <1>3 DEF PutBits
<1>5. UNCHANGED <<loop, ResvSize, ResvMax, main_data_begin, frameBits, granule, used, drainPost, nextTiming>>
  BY DEF PutBits, resvVars
<1>6. bufBytes' \in Nat
  BY <1>2, <1>4
<1>7. CASE due
  <2>1. pending # <<>>
    BY <1>2, <1>7, DueIsPending
  <2>2. FirstTiming = pending[1].timing
    BY <2>1 DEF FirstTiming
  <2>3. HeaderAt(1) = 0
    BY <1>2, <1>7, <2>1, <2>2, FirstIsAhead
  <2>4. totbit' = totbit + SideInfo + k /\ pc' = pc /\ pending' = Tail(pending)
    BY <1>4, <1>7, <2>1
  <2> QED
    BY <1>1, <1>2, <1>3, <1>4, <1>5, <1>6, <1>7, <2>1, <2>3, <2>4
<1>8. CASE ~due
  <2>1. totbit' = totbit + k /\ pc' = pc /\ pending' = pending
    BY <1>2, <1>4, <1>8
  <2>2. ASSUME pending # <<>>
        PROVE  HeaderAt(1) >= k
    <3>1. FirstTiming = pending[1].timing
      BY <2>2 DEF FirstTiming
    <3>2. /\ HeaderAt(1) = pending[1].timing - totbit /\ HeaderAt(1) \in Nat /\ HeaderAt(1) >= bitIdx
          /\ bitIdx = 0 /\ HeaderAt(1) # 0 => HeaderAt(1) >= 8
      BY <2>2, FirstIsAhead
    <3>3. pending[1].timing \in Int
      BY <2>2, FirstIsAhead, PendingIsTyped
    <3>4. bitIdx = 0 => HeaderAt(1) # 0
      BY <1>2, <1>8, <3>1, <3>2, <3>3
    <3> HIDE DEF due
    <3> QED
      BY <1>1, <1>2, <1>3, <3>2, <3>4
  <2> QED
    BY <1>1, <1>2, <1>3, <1>4, <1>5, <1>6, <2>1, <2>2
<1> QED
  BY <1>7, <1>8

LEMMA PutBitsKeeps ==
  ASSUME StreamInv, PutBits
  PROVE  StreamInv'
<1> USE DEF StreamInv
<1>1. /\ pc \in {"pre", "main", "post", "flush"} /\ pc' = pc /\ nextTiming' = nextTiming
      /\ UNCHANGED <<loop, ResvSize, ResvMax, main_data_begin, frameBits, granule, used, drainPost>>
      /\ bufBytes' \in Nat
  BY PutBitsCases
<1>2. PICK free \in 1..8, k \in 1..8 :
        /\ k <= free /\ k <= todo /\ free = (IF bitIdx = 0 THEN 8 ELSE bitIdx)
        /\ todo' = todo - k /\ dataBits' = dataBits + k /\ bitIdx' = free - k
        /\ \/ /\ pending' = pending /\ totbit' = totbit + k
              /\ pending # <<>> => HeaderAt(1) >= k
           \/ /\ pending # <<>> /\ pending' = Tail(pending) /\ bitIdx = 0
              /\ HeaderAt(1) = 0 /\ totbit' = totbit + SideInfo + k
  BY PutBitsCases
<1>3. /\ todo \in Nat /\ bitIdx \in 0..7 /\ totbit \in Int /\ dataBits \in Int /\ nextTiming \in Int
      /\ ResvSize \in Int /\ drainPost \in Nat /\ main_data_begin \in Nat
      /\ pending \in Seq(HeaderSet) /\ Len(pending) \in Nat /\ SideInfo \in Nat
  BY ConstantsAreNumbers DEF TypeInv
<1>4. TypeInv'
  <2>1. pending' \in Seq(HeaderSet) /\ totbit' \in Int
    BY <1>2, <1>3
  <2>2. todo' \in Nat /\ bitIdx' \in 0..7 /\ dataBits' \in Int
    BY <1>2, <1>3
  <2> QED
    BY <1>1, <2>1, <2>2 DEF TypeInv
<1>5. ReservoirInv' /\ FrameInv'
  BY <1>1, <1>2 DEF ReservoirInv, FrameInv
<1>6. BacklogInv'
  <2>1. Backlog' = Backlog - k
    <3>1. CASE pending' = pending /\ totbit' = totbit + k
      BY <1>1, <1>3, <3>1 DEF Backlog
    <3>2. CASE pending # <<>> /\ pending' = Tail(pending) /\ totbit' = totbit + SideInfo + k
      <4>1. Len(pending') = Len(pending) - 1
        BY <1>3, <3>2
      <4>2. SideInfo * (Len(pending) - 1) = SideInfo * Len(pending) - SideInfo
        BY <1>3
      <4>3. PICK s \in Int, n \in Int : s = SideInfo * Len(pending) /\ n = SideInfo
        BY <1>3
      <4> QED
        BY <1>1, <1>3, <3>2, <4>1, <4>2, <4>3 DEF Backlog
    <3> QED
      BY <1>2, <3>1, <3>2
  <2>2. Backlog \in Int
    BY <1>3 DEF Backlog
  <2> QED
    BY <1>1, <1>2, <1>3, <2>1, <2>2 DEF BacklogInv
<1>7. HeaderInv'
  <2>1. CASE pending' = pending /\ totbit' = totbit + k /\ (pending # <<>> => HeaderAt(1) >= k)
    <3>1. (totbit' + bitIdx') % 8 = 0
      BY <1>2, <1>3, <2>1 DEF HeaderInv
    <3>2. ASSUME NEW j \in 1..Len(pending)
          PROVE  /\ HeaderAt(j)' = HeaderAt(j) - k /\ HeaderAt(j) >= k /\ HeaderAt(j) \in Int
                 /\ pending[j].start \in Int /\ pending[j].mdb \in Int
      <4>1. /\ pending[j].timing \in Int /\ HeaderAt(j) \in Int
            /\ pending[j].start \in Int /\ pending[j].mdb \in Int
        BY PendingIsTyped
      <4>2. HeaderAt(j)' = HeaderAt(j) - k
        <5>1. PICK s \in Int : s = SideInfo * (j - 1)
          BY <1>3
        <5> QED
          BY <1>3, <2>1, <4>1, <5>1 DEF HeaderAt
      <4>3. HeaderAt(1) >= k /\ HeaderAt(1) \in Int
        BY <1>3, <2>1, PendingIsTyped
      <4>4. HeaderAt(j) >= k
        <5>1. CASE j = 1
          BY <4>3, <5>1
        <5>2. CASE j # 1
          <6>1. j \in 2..Len(pending)
            BY <1>3, <5>2
          <6> QED
            BY <4>1, <4>3, <6>1, HeadersApart
        <5> QED
          BY <5>1, <5>2
      <4> QED
        BY <4>1, <4>2, <4>4
    <3>3. \A j \in 1..Len(pending') :
            /\ pending'[j].timing % 8 = 0
            /\ 8 * pending'[j].mdb = dataBits' + HeaderAt(j)' - pending'[j].start
            /\ pending'[j].start <= dataBits' /\ 8 * pending'[j].mdb <= ResvLimit
            /\ HeaderAt(j)' >= 0
            /\ nextTiming' >= pending'[j].timing + LeastGap * (Len(pending') + 1 - j)
      <4> SUFFICES ASSUME NEW j \in 1..Len(pending)
                   PROVE  /\ pending[j].timing % 8 = 0
                          /\ 8 * pending[j].mdb = dataBits' + HeaderAt(j)' - pending[j].start
                          /\ pending[j].start <= dataBits' /\ 8 * pending[j].mdb <= ResvLimit
                          /\ HeaderAt(j)' >= 0
                          /\ nextTiming >= pending[j].timing + LeastGap * (Len(pending) + 1 - j)
        BY <1>1, <2>1
      <4>1. /\ pending[j].timing % 8 = 0 /\ 8 * pending[j].mdb <= ResvLimit
            /\ 8 * pending[j].mdb = dataBits + HeaderAt(j) - pending[j].start
            /\ pending[j].start <= dataBits
            /\ nextTiming >= pending[j].timing + LeastGap * (Len(pending) + 1 - j)
        BY DEF HeaderInv
      <4>2. /\ HeaderAt(j)' = HeaderAt(j) - k /\ HeaderAt(j) >= k /\ HeaderAt(j) \in Int
            /\ pending[j].start \in Int
        BY <3>2
      <4>3. HeaderAt(j)' >= 0 /\ pending[j].start <= dataBits'
        <5>1. pending[j].start <= dataBits
          BY <4>1
        <5> QED
          BY <1>2, <1>3, <4>2, <5>1
      <4>4. dataBits' + HeaderAt(j)' - pending[j].start = dataBits + HeaderAt(j) - pending[j].start
        BY <1>2, <1>3, <4>2
      <4> QED
        BY <4>1, <4>3, <4>4
    <3> QED
      BY <1>1, <2>1, <3>1, <3>3 DEF HeaderInv
  <2>2. CASE /\ pending # <<>> /\ pending' = Tail(pending) /\ bitIdx = 0
             /\ HeaderAt(1) = 0 /\ totbit' = totbit + SideInfo + k
    <3>1. (totbit' + bitIdx') % 8 = 0
      <4>1. totbit % 8 = 0 /\ free = 8 /\ bitIdx' = 8 - k
        BY <1>2, <1>3, <2>2 DEF HeaderInv
      <4>2. totbit' + bitIdx' = totbit + SideInfo + 8
        BY <1>2, <1>3, <2>2, <4>1
      <4> QED
        BY <1>3, <4>1, <4>2, ConstantsAreNumbers
    <3>2. Len(pending') = Len(pending) - 1 /\ Len(pending) >= 1
      BY <1>3, <2>2
    <3>3. ASSUME NEW j \in 1..Len(pending')
          PROVE  /\ pending'[j] = pending[j + 1] /\ j + 1 \in 2..Len(pending)
                 /\ HeaderAt(j)' = HeaderAt(j + 1) - k /\ HeaderAt(j + 1) >= 8
                 /\ HeaderAt(j + 1) \in Int /\ pending[j + 1].timing \in Int
                 /\ pending[j + 1].start \in Int /\ pending[j + 1].mdb \in Int
      <4>1. pending'[j] = pending[j + 1] /\ j + 1 \in 2..Len(pending) /\ j \in Int
        BY <1>3, <2>2, <3>2
      <4>2. /\ pending[j + 1].timing \in Int /\ HeaderAt(j + 1) \in Int
            /\ pending[j + 1].start \in Int /\ pending[j + 1].mdb \in Int
        BY <4>1, PendingIsTyped
      <4>3. HeaderAt(j)' = HeaderAt(j + 1) - k
        <5>1. PICK s \in Int : s = SideInfo * (j - 1)
          BY <1>3, <4>1
        <5>2. SideInfo * j = s + SideInfo
          BY <1>3, <4>1, <5>1
        <5>3. HeaderAt(j + 1) = pending[j + 1].timing - totbit - SideInfo * j
          BY <4>1 DEF HeaderAt
        <5>4. HeaderAt(j)' = pending[j + 1].timing - totbit' - s
          BY <4>1, <5>1 DEF HeaderAt
        <5> QED
          BY <1>3, <2>2, <4>2, <5>1, <5>2, <5>3, <5>4
      <4>4. HeaderAt(j + 1) >= 8
        BY <2>2, <4>1, <4>2, HeadersApart
      <4> QED
        BY <4>1, <4>2, <4>3, <4>4
    <3>4. ASSUME NEW j \in 1..Len(pending')
          PROVE  /\ pending'[j].timing % 8 = 0
                 /\ 8 * pending'[j].mdb = dataBits' + HeaderAt(j)' - pending'[j].start
                 /\ pending'[j].start <= dataBits' /\ 8 * pending'[j].mdb <= ResvLimit
                 /\ HeaderAt(j)' >= 0
                 /\ nextTiming' >= pending'[j].timing + LeastGap * (Len(pending') + 1 - j)
      <4>1. /\ pending'[j] = pending[j + 1] /\ j + 1 \in 1..Len(pending)
            /\ HeaderAt(j)' = HeaderAt(j + 1) - k /\ HeaderAt(j + 1) >= 8
            /\ HeaderAt(j + 1) \in Int /\ pending[j + 1].start \in Int
        BY <3>2, <3>3
      <4>2. /\ pending[j + 1].timing % 8 = 0 /\ 8 * pending[j + 1].mdb <= ResvLimit
            /\ 8 * pending[j + 1].mdb = dataBits + HeaderAt(j + 1) - pending[j + 1].start
            /\ pending[j + 1].start <= dataBits
            /\ nextTiming >= pending[j + 1].timing + LeastGap * (Len(pending) + 1 - (j + 1))
        BY <4>1 DEF HeaderInv
      <4>3. Len(pending') + 1 - j = Len(pending) + 1 - (j + 1)
        BY <1>3, <3>2
      <4>4. HeaderAt(j)' >= 0 /\ pending[j + 1].start <= dataBits'
        <5>1. PICK h \in Int, b \in Int : h = HeaderAt(j + 1) /\ b = pending[j + 1].start
          BY <4>1
        <5>2. h >= 8 /\ b <= dataBits /\ dataBits \in Int
          BY <1>3, <4>1, <4>2, <5>1
        <5>3. h - k >= 0 /\ b <= dataBits + k
          BY <5>2
        <5> QED
          BY <1>2, <4>1, <5>1, <5>3
      <4>5. dataBits' + HeaderAt(j)' - pending[j + 1].start
              = dataBits + HeaderAt(j + 1) - pending[j + 1].start
        BY <1>2, <1>3, <4>1
      <4> QED
        BY <1>1, <4>1, <4>2, <4>3, <4>4, <4>5
    <3>5. ASSUME NEW i \in 1..Len(pending'), NEW j \in 1..Len(pending'), i <= j
          PROVE  pending'[j].timing >= pending'[i].timing + LeastGap * (j - i)
      <4>1. /\ i + 1 \in 1..Len(pending) /\ j + 1 \in 1..Len(pending) /\ i + 1 <= j + 1
            /\ pending'[i] = pending[i + 1] /\ pending'[j] = pending[j + 1]
            /\ (j + 1) - (i + 1) = j - i
        BY <1>3, <3>2, <3>3, <3>5
      <4>2. pending[j + 1].timing >= pending[i + 1].timing + LeastGap * ((j + 1) - (i + 1))
        BY <4>1 DEF HeaderInv
      <4> QED
        BY <4>1, <4>2
    <3>6. pc' \in {"main", "post", "done", "idle", "flush"} /\ pending' # <<>> =>
            pending'[Len(pending')].timing = nextTiming' - frameBits'
      <4> SUFFICES ASSUME pc' \in {"main", "post", "done", "idle", "flush"}, pending' # <<>>
                   PROVE  pending'[Len(pending')].timing = nextTiming' - frameBits'
        OBVIOUS
      <4>1. Len(pending') \in 1..Len(pending')
        <5>1. pending' \in Seq(HeaderSet)
          BY <1>4 DEF TypeInv
        <5>2. Len(pending') \in Nat /\ Len(pending') # 0
          BY <5>1
        <5> QED
          BY <5>2
      <4>2. pending'[Len(pending')] = pending[Len(pending)]
        BY <1>3, <3>2, <3>3, <4>1
      <4>3. pending[Len(pending)].timing = nextTiming - frameBits
        BY <1>1, <2>2 DEF HeaderInv
      <4> QED
        BY <1>1, <4>2, <4>3
    <3> QED
      BY <1>1, <3>1, <3>4, <3>5, <3>6 DEF HeaderInv
  <2> QED
    BY <1>2, <2>1, <2>2
<1> QED
  BY <1>4, <1>5, <1>6, <1>7
LEMMA EncodeSideInfoKeeps ==
  ASSUME StreamInv, EncodeSideInfo
  PROVE  StreamInv'
<1> USE DEF StreamInv
<1> DEFINE header == [timing |-> nextTiming, mdb |-> main_data_begin, start |-> dataBits]
<1>1. /\ pc = "pre" /\ todo = 0 /\ pc' = "main" /\ todo' = used
      /\ pending' = Append(pending, header) /\ nextTiming' = nextTiming + frameBits
      /\ UNCHANGED <<loop, ResvSize, ResvMax, main_data_begin, frameBits, granule, used, drainPost>>
      /\ UNCHANGED <<totbit, bitIdx, bufBytes, dataBits>>
  BY DEF EncodeSideInfo, resvVars
<1>2. /\ nextTiming \in Int /\ main_data_begin \in Nat /\ dataBits \in Int /\ totbit \in Int
      /\ used \in Nat /\ drainPost \in Nat /\ ResvSize \in Int /\ frameBits \in Nat
      /\ pending \in Seq(HeaderSet) /\ Len(pending) \in Nat /\ SideInfo \in Nat /\ LeastGap \in Nat
  BY ConstantsAreNumbers DEF TypeInv
<1>3. header \in HeaderSet
  BY <1>2 DEF HeaderSet
<1>4. pending' \in Seq(HeaderSet) /\ Len(pending') = Len(pending) + 1
  BY <1>1, <1>2, <1>3
<1>5. /\ \A j \in 1..Len(pending) : pending'[j] = pending[j]
      /\ pending'[Len(pending) + 1] = header
  BY <1>1, <1>2, <1>3
<1>6. Backlog = 8 * main_data_begin
  BY <1>1, <1>2 DEF BacklogInv
<1>7. frameBits % 8 = 0 /\ frameBits >= LeastGap
  BY <1>1 DEF FrameInv
<1>8. 8 * main_data_begin + frameBits - SideInfo - used - drainPost = ResvSize
  BY <1>1 DEF ReservoirInv
<1>9. PICK n \in Nat, last \in Int : n = Len(pending) /\ last = SideInfo * n
  BY <1>2
<1>10. nextTiming - totbit - last = 8 * main_data_begin
  BY <1>6, <1>9 DEF Backlog
<1>11. TypeInv'
  BY <1>1, <1>2, <1>4 DEF TypeInv, EncoderPc
<1>12. ReservoirInv' /\ FrameInv'
  BY <1>1, <1>2, <1>7, ConstantsAreNumbers DEF ReservoirInv, FrameInv
<1>13. BacklogInv'
  <2>1. SideInfo * (n + 1) = last + SideInfo
    BY <1>2, <1>9
  <2>2. Backlog' = nextTiming + frameBits - totbit - (last + SideInfo)
    <3>1. Backlog' = nextTiming' - totbit' - SideInfo * Len(pending')
      BY DEF Backlog
    <3>2. Len(pending') = n + 1
      BY <1>4, <1>9
    <3>3. nextTiming' = nextTiming + frameBits /\ totbit' = totbit
      BY <1>1
    <3>4. SideInfo * Len(pending') = last + SideInfo
      BY <2>1, <3>2
    <3> QED
      BY <1>2, <3>1, <3>3, <3>4
  <2>3. Backlog' = ResvSize + drainPost + used
    BY <1>2, <1>8, <1>10, <2>2
  <2> QED
    BY <1>1, <2>3 DEF BacklogInv
<1>14. HeaderInv'
  <2>1. nextTiming' % 8 = 0 /\ (totbit' + bitIdx') % 8 = 0
    <3>1. nextTiming % 8 = 0 /\ (totbit + bitIdx) % 8 = 0
      BY DEF HeaderInv
    <3>2. (nextTiming + frameBits) % 8 = 0
      <4>1. nextTiming \in Int /\ frameBits \in Int /\ nextTiming % 8 = 0 /\ frameBits % 8 = 0
        BY <1>2, <1>7, <3>1
      <4> QED
        BY <4>1
    <3> QED
      BY <1>1, <3>1, <3>2
  <2>2. ASSUME NEW j \in 1..Len(pending)
        PROVE  /\ HeaderAt(j)' = HeaderAt(j) /\ j \in Int /\ j <= n
               /\ pending[j].timing \in Int
               /\ nextTiming >= pending[j].timing + LeastGap * (n + 1 - j)
               /\ LeastGap * (n + 2 - j) = LeastGap * (n + 1 - j) + LeastGap
               /\ LeastGap * (n + 1 - j) \in Int
    <3>1. HeaderAt(j)' = HeaderAt(j)
      BY <1>1, <1>5 DEF HeaderAt
    <3>2. nextTiming >= pending[j].timing + LeastGap * (n + 1 - j)
      BY <1>9 DEF HeaderInv
    <3> QED
      BY <1>2, <1>9, <3>1, <3>2, PendingIsTyped
  <2>3. ASSUME NEW j \in 1..Len(pending')
        PROVE  /\ pending'[j].timing % 8 = 0
               /\ 8 * pending'[j].mdb = dataBits' + HeaderAt(j)' - pending'[j].start
               /\ pending'[j].start <= dataBits' /\ 8 * pending'[j].mdb <= ResvLimit
               /\ HeaderAt(j)' >= 0
               /\ nextTiming' >= pending'[j].timing + LeastGap * (Len(pending') + 1 - j)
    <3>1. CASE j \in 1..Len(pending)
      <4>1. /\ pending[j].timing % 8 = 0 /\ HeaderAt(j) >= 0
            /\ 8 * pending[j].mdb = dataBits + HeaderAt(j) - pending[j].start
            /\ pending[j].start <= dataBits /\ 8 * pending[j].mdb <= ResvLimit
        BY <3>1 DEF HeaderInv
      <4>2. pending'[j] = pending[j] /\ HeaderAt(j)' = HeaderAt(j)
        BY <1>5, <2>2, <3>1
      <4>3. PICK t \in Int, g \in Int : t = pending[j].timing /\ g = LeastGap * (n + 1 - j)
        BY <2>2, <3>1
      <4>4. nextTiming >= t + g /\ LeastGap * (n + 2 - j) = g + LeastGap
        BY <2>2, <3>1, <4>3
      <4>5. nextTiming + frameBits >= t + (g + LeastGap)
        BY <1>2, <1>7, <4>4
      <4>6. Len(pending') + 1 - j = n + 2 - j
        BY <1>4, <1>9, <3>1
      <4> QED
        BY <1>1, <4>1, <4>2, <4>3, <4>4, <4>5, <4>6
    <3>2. CASE j = n + 1
      <4>1. pending'[j] = header /\ Len(pending') + 1 - j = 1
        BY <1>4, <1>5, <1>9, <3>2
      <4>2. HeaderAt(j)' = nextTiming - totbit - SideInfo * (j - 1)
        BY <1>1, <4>1 DEF HeaderAt
      <4>3. HeaderAt(j)' = 8 * main_data_begin
        BY <1>9, <1>10, <3>2, <4>2
      <4>4. header.timing % 8 = 0 /\ 8 * header.mdb <= ResvLimit
        BY DEF HeaderInv, ReservoirInv
      <4>5. nextTiming' >= header.timing + LeastGap * 1
        BY <1>1, <1>2, <1>7
      <4>6. 8 * header.mdb = dataBits + 8 * main_data_begin - header.start /\ header.start <= dataBits
        BY <1>2
      <4>7. 8 * main_data_begin >= 0
        BY <1>2
      <4> QED
        BY <1>1, <4>1, <4>3, <4>4, <4>5, <4>6, <4>7
    <3> QED
      BY <1>4, <1>9, <3>1, <3>2
  <2>4. ASSUME NEW i \in 1..Len(pending'), NEW j \in 1..Len(pending'), i <= j
        PROVE  pending'[j].timing >= pending'[i].timing + LeastGap * (j - i)
    <3>1. CASE j \in 1..Len(pending)
      <4>1. i \in 1..Len(pending)
        BY <1>2, <2>4, <3>1
      <4>2. pending[j].timing >= pending[i].timing + LeastGap * (j - i)
        BY <2>4, <3>1, <4>1 DEF HeaderInv
      <4> QED
        BY <1>5, <3>1, <4>1, <4>2
    <3>2. CASE j = n + 1 /\ i \in 1..Len(pending)
      <4>1. nextTiming >= pending[i].timing + LeastGap * (n + 1 - i)
        BY <2>2, <3>2
      <4>2. pending'[j].timing = nextTiming /\ pending'[i] = pending[i]
        BY <1>5, <1>9, <3>2
      <4> QED
        BY <3>2, <4>1, <4>2
    <3>3. CASE j = n + 1 /\ i = n + 1
      <4>1. pending'[j].timing = nextTiming /\ pending'[i].timing = nextTiming
        BY <1>5, <1>9, <3>3
      <4>2. LeastGap * (j - i) = 0
        BY <1>2, <3>3
      <4> QED
        BY <1>2, <4>1, <4>2
    <3> QED
      BY <1>4, <1>9, <3>1, <3>2, <3>3
  <2>5. pending'[Len(pending')].timing = nextTiming' - frameBits'
    <3>1. pending'[Len(pending')].timing = nextTiming
      BY <1>4, <1>5
    <3> QED
      BY <1>1, <1>2, <3>1
  <2> QED
    BY <2>1, <2>3, <2>4, <2>5 DEF HeaderInv
<1> QED
  BY <1>11, <1>12, <1>13, <1>14

LEMMA DrainPostKeeps ==
  ASSUME StreamInv, DrainPost
  PROVE  StreamInv'
<1> USE DEF StreamInv
<1>1. /\ pc = "main" /\ todo = 0 /\ pc' = "post" /\ todo' = drainPost
      /\ UNCHANGED <<loop, ResvSize, ResvMax, main_data_begin, frameBits, granule, used, drainPost>>
      /\ UNCHANGED <<totbit, bitIdx, bufBytes, pending, dataBits, nextTiming>>
  BY DEF DrainPost, resvVars, bitVars
<1>2. TypeInv'
  BY <1>1 DEF TypeInv, EncoderPc
<1>3. ReservoirInv' /\ FrameInv'
  BY <1>1 DEF ReservoirInv, FrameInv
<1>4. BacklogInv'
  <2>1. Backlog' = Backlog /\ Backlog = ResvSize + drainPost + 0
    BY <1>1 DEF BacklogInv, Backlog
  <2> QED
    BY <1>1, <2>1 DEF BacklogInv, TypeInv
<1>5. HeaderInv'
  BY <1>1, HeadersUntouched
<1> QED
  BY <1>2, <1>3, <1>4, <1>5

\* Where the writer has done all it had to do, whole bytes are out.
LEMMA WholeBytes ==
  ASSUME TypeInv, HeaderInv, Backlog % 8 = 0
  PROVE  totbit % 8 = 0 /\ bitIdx = 0
<1>1. nextTiming \in Int /\ totbit \in Int /\ Len(pending) \in Nat /\ bitIdx \in 0..7 /\ bitIdx \in Int
  BY DEF TypeInv
<1>2. PICK b \in Int : b = sideinfo_len * Len(pending)
  BY <1>1, FrameAssumption
<1>3. SideInfo * Len(pending) = 8 * b
  BY <1>1, <1>2, FrameAssumption DEF SideInfo
<1>4. (nextTiming - totbit - 8 * b) % 8 = 0 /\ nextTiming % 8 = 0 /\ (totbit + bitIdx) % 8 = 0
  BY <1>3 DEF Backlog, HeaderInv
<1>5. totbit % 8 = 0
  BY <1>1, <1>4
<1> QED
  BY <1>1, <1>4, <1>5

\* The comparison at the end of format_bitstream: main_data_begin counts what ResvSize says.
LEMMA NextMainDataIsTheReservoir ==
  ASSUME StreamInv, pc = "post"
  PROVE  8 * NextMainDataBegin = ResvSize /\ NextMainDataBegin \in Nat
<1>1. /\ 8 * main_data_begin + frameBits - SideInfo - used - drainPost = ResvSize
      /\ ResvSize \in 0..ResvMax /\ ResvSize % 8 = 0
  BY DEF StreamInv, ReservoirInv
<1>2. /\ main_data_begin \in Nat /\ used \in Nat /\ drainPost \in Nat /\ ResvSize \in Int
      /\ ResvSize >= 0 /\ frameBits \in Nat /\ SideInfo \in Nat
  BY <1>1, ConstantsAreNumbers DEF StreamInv, TypeInv
<1>3. PICK left \in Int : left = frameBits - SideInfo - used - drainPost
  BY <1>2
<1>4. left = ResvSize - 8 * main_data_begin
  BY <1>1, <1>2, <1>3
<1>5. left % 8 = 0
  BY <1>1, <1>2, <1>4
<1>6. NextMainDataBegin = main_data_begin + left \div 8
  BY <1>3 DEF NextMainDataBegin
<1>7. PICK q \in Int : q = left \div 8 /\ left = 8 * q
  BY <1>5
<1>8. 8 * (main_data_begin + q) = ResvSize
  BY <1>2, <1>4, <1>7
<1>9. main_data_begin + q >= 0
  BY <1>2, <1>8
<1> QED
  BY <1>2, <1>6, <1>7, <1>8, <1>9

\* compute_flushbits counts what is in front of the place of the next header.
LEMMA FlushIsBacklog ==
  ASSUME StreamInv, pc \in {"main", "post", "done", "idle", "flush"}
  PROVE  FlushBits = Backlog
<1> USE DEF StreamInv
<1>1. /\ nextTiming \in Int /\ totbit \in Int /\ frameBits \in Nat /\ Len(pending) \in Nat
      /\ SideInfo \in Nat /\ pending \in Seq(HeaderSet)
  BY ConstantsAreNumbers DEF TypeInv
<1>2. PICK ahead \in Int : ahead = nextTiming - frameBits - totbit
  BY <1>1
<1>3. FlushBits = frameBits + ahead - (IF ahead >= 0 THEN Len(pending) * SideInfo ELSE 0)
  BY <1>2 DEF FlushBits
<1>4. PICK s \in Int : s = SideInfo * Len(pending) /\ s = Len(pending) * SideInfo
  BY <1>1
<1>5. Backlog = nextTiming - totbit - s
  BY <1>4 DEF Backlog
<1>6. ahead < 0 => s = 0
  <2> SUFFICES ASSUME ahead < 0, pending # <<>>
               PROVE  FALSE
    BY <1>1, <1>4
  <2>1. PICK n \in Nat : n = Len(pending) /\ n >= 1 /\ n \in 1..Len(pending)
    BY <1>1
  <2>2. pending[n].timing = nextTiming - frameBits
    BY <2>1 DEF HeaderInv
  <2>3. HeaderAt(n) >= 0
    BY <2>1 DEF HeaderInv
  <2>4. PICK b \in Nat : b = SideInfo * (n - 1)
    BY <1>1, <2>1
  <2>5. HeaderAt(n) = nextTiming - frameBits - totbit - b
    BY <2>2, <2>4 DEF HeaderAt
  <2> QED
    BY <1>1, <1>2, <2>3, <2>5
<1> QED
  BY <1>1, <1>2, <1>3, <1>4, <1>5, <1>6

\* totbit is set back, and with it what is compared with it.
LEMMA SetBackKeepsTheRing ==
  ASSUME TypeInv, NEW back \in Int, NEW dataBack \in Int
  PROVE  /\ HeadersSetBack(back, dataBack) \in Seq(HeaderSet)
         /\ Len(HeadersSetBack(back, dataBack)) = Len(pending)
         /\ \A j \in 1..Len(pending) :
              /\ HeadersSetBack(back, dataBack)[j].timing = pending[j].timing - back
              /\ HeadersSetBack(back, dataBack)[j].start = pending[j].start - dataBack
              /\ HeadersSetBack(back, dataBack)[j].mdb = pending[j].mdb
<1> DEFINE set(j) == [pending[j] EXCEPT !.timing = @ - back, !.start = @ - dataBack]
           ring == HeadersSetBack(back, dataBack)
<1>1. Len(pending) \in Nat /\ pending \in Seq(HeaderSet)
  BY DEF TypeInv
<1>2. ring = [j \in 1..Len(pending) |-> set(j)]
  BY DEF HeadersSetBack
<1>3. ASSUME NEW j \in 1..Len(pending)
      PROVE  /\ set(j) \in HeaderSet /\ set(j).timing = pending[j].timing - back
             /\ set(j).start = pending[j].start - dataBack /\ set(j).mdb = pending[j].mdb
  <2>1. pending[j] \in HeaderSet
    BY <1>1
  <2>2. PICK h \in HeaderSet : h = pending[j]
    BY <2>1
  <2>3. PICK x \in Int, y \in Int : x = h.timing - back /\ y = h.start - dataBack
    BY DEF HeaderSet
  <2>4. set(j) = [h EXCEPT !.timing = x, !.start = y]
    BY <2>2, <2>3
  <2>5. [h EXCEPT !.timing = x, !.start = y] \in HeaderSet
    BY DEF HeaderSet
  <2>6. /\ [h EXCEPT !.timing = x, !.start = y].timing = x
        /\ [h EXCEPT !.timing = x, !.start = y].start = y
        /\ [h EXCEPT !.timing = x, !.start = y].mdb = h.mdb
    BY DEF HeaderSet
  <2> HIDE DEF set
  <2> QED
    BY <2>2, <2>3, <2>4, <2>5, <2>6
<1> HIDE DEF set, ring
<1>4. ring \in [1..Len(pending) -> HeaderSet]
  BY <1>2, <1>3
<1>5. ring \in Seq(HeaderSet) /\ Len(ring) = Len(pending)
  BY <1>1, <1>4
<1>6. \A j \in 1..Len(pending) : ring[j] = set(j)
  BY <1>2
<1> QED
  BY <1>3, <1>5, <1>6 DEF ring

LEMMA FrameDoneKeeps ==
  ASSUME StreamInv, FrameDone
  PROVE  StreamInv'
<1> USE DEF StreamInv
<1>1. /\ pc = "post" /\ todo = 0 /\ pc' = "done"
      /\ main_data_begin' = NextMainDataBegin /\ ResvSize' = 8 * NextMainDataBegin
      /\ UNCHANGED <<loop, ResvMax, frameBits, granule, used, drainPost, todo, bitIdx, bufBytes>>
  BY DEF FrameDone
<1>2. /\ nextTiming \in Int /\ main_data_begin \in Nat /\ dataBits \in Int /\ totbit \in Int
      /\ used \in Nat /\ drainPost \in Nat /\ ResvSize \in Int /\ frameBits \in Nat /\ ResvMax \in Nat
      /\ pending \in Seq(HeaderSet) /\ Len(pending) \in Nat /\ SideInfo \in Nat /\ LeastGap \in Nat
  BY ConstantsAreNumbers DEF TypeInv
<1>3. PICK back \in Int, dataBack \in Int :
        /\ back = (IF totbit > MaxTotbit THEN totbit ELSE 0)
        /\ dataBack = (IF totbit > MaxTotbit THEN dataBits ELSE 0)
  BY <1>2
<1>4. /\ totbit' = totbit - back /\ nextTiming' = nextTiming - back /\ dataBits' = dataBits - dataBack
      /\ pending' = HeadersSetBack(back, dataBack)
  BY <1>3 DEF FrameDone
<1>5. /\ 8 * main_data_begin + frameBits - SideInfo - used - drainPost = ResvSize
      /\ ResvSize \in 0..ResvMax /\ ResvSize % 8 = 0 /\ ResvMax <= ResvLimit /\ ResvMax % 8 = 0
  BY <1>1 DEF ReservoirInv
<1>6. Backlog = ResvSize
  BY <1>1, <1>2 DEF BacklogInv
<1>7. totbit % 8 = 0 /\ bitIdx = 0
  BY <1>5, <1>6, WholeBytes
<1>8. back % 8 = 0
  BY <1>3, <1>7
<1>9. 8 * NextMainDataBegin = ResvSize /\ NextMainDataBegin \in Nat
  BY <1>1, NextMainDataIsTheReservoir
<1>10. ResvSize' = ResvSize /\ 8 * main_data_begin' = ResvSize /\ main_data_begin' \in Nat
  BY <1>1, <1>9
<1>11. pending' \in Seq(HeaderSet) /\ Len(pending') = Len(pending)
  BY <1>4, SetBackKeepsTheRing
<1>12. \A j \in 1..Len(pending) :
         /\ pending'[j].timing = pending[j].timing - back
         /\ pending'[j].start = pending[j].start - dataBack /\ pending'[j].mdb = pending[j].mdb
  BY <1>4, SetBackKeepsTheRing
<1>13. TypeInv'
  BY <1>1, <1>2, <1>4, <1>10, <1>11 DEF TypeInv, EncoderPc
<1>14. ReservoirInv'
  <2>1. ResvSize <= ResvLimit /\ ResvSize <= ResvMax
    BY <1>2, <1>5, ConstantsAreNumbers
  <2> QED
    BY <1>1, <1>5, <1>10, <2>1 DEF ReservoirInv
<1>15. FrameInv'
  BY <1>1 DEF FrameInv
<1>16. BacklogInv'
  <2>1. PICK s \in Int : s = SideInfo * Len(pending)
    BY <1>2
  <2>2. Backlog = nextTiming - totbit - s
    BY <2>1 DEF Backlog
  <2>3. Backlog' = nextTiming' - totbit' - SideInfo * Len(pending')
    BY DEF Backlog
  <2>4. Backlog' = (nextTiming - back) - (totbit - back) - s
    BY <1>2, <1>4, <1>11, <2>1, <2>3
  <2>5. Backlog' = Backlog
    BY <1>2, <2>2, <2>4
  <2> QED
    BY <1>1, <1>2, <1>6, <1>10, <2>5 DEF BacklogInv
<1>17. HeaderInv'
  <2>1. nextTiming' % 8 = 0 /\ (totbit' + bitIdx') % 8 = 0
    <3>1. nextTiming % 8 = 0
      BY DEF HeaderInv
    <3>2. (nextTiming - back) % 8 = 0 /\ (totbit - back) % 8 = 0
      BY <1>2, <1>7, <1>8, <3>1
    <3> QED
      BY <1>1, <1>2, <1>4, <1>7, <3>2
  <2>2. ASSUME NEW j \in 1..Len(pending)
        PROVE  /\ pending[j].timing \in Int /\ pending[j].start \in Int /\ HeaderAt(j) \in Int
               /\ HeaderAt(j)' = HeaderAt(j) /\ j \in Int
    <3>1. pending[j].timing \in Int /\ pending[j].start \in Int /\ HeaderAt(j) \in Int /\ j \in Int
      BY <1>2, PendingIsTyped
    <3>2. PICK s \in Int : s = SideInfo * (j - 1)
      BY <1>2, <3>1
    <3>3. HeaderAt(j)' = pending'[j].timing - totbit' - s
      BY <3>2 DEF HeaderAt
    <3>4. HeaderAt(j) = pending[j].timing - totbit - s
      BY <3>2 DEF HeaderAt
    <3>5. HeaderAt(j)' = (pending[j].timing - back) - (totbit - back) - s
      BY <1>2, <1>4, <1>12, <3>1, <3>3
    <3> QED
      BY <1>2, <3>1, <3>4, <3>5
  <2>3. ASSUME NEW j \in 1..Len(pending')
        PROVE  /\ pending'[j].timing % 8 = 0
               /\ 8 * pending'[j].mdb = dataBits' + HeaderAt(j)' - pending'[j].start
               /\ pending'[j].start <= dataBits' /\ 8 * pending'[j].mdb <= ResvLimit
               /\ HeaderAt(j)' >= 0
               /\ nextTiming' >= pending'[j].timing + LeastGap * (Len(pending') + 1 - j)
    <3>1. j \in 1..Len(pending)
      BY <1>11
    <3>2. /\ pending[j].timing % 8 = 0 /\ HeaderAt(j) >= 0
          /\ 8 * pending[j].mdb = dataBits + HeaderAt(j) - pending[j].start
          /\ pending[j].start <= dataBits /\ 8 * pending[j].mdb <= ResvLimit
          /\ nextTiming >= pending[j].timing + LeastGap * (Len(pending) + 1 - j)
      BY <3>1, ZenonT(20) DEF HeaderInv
    <3>3. PICK t \in Int, b \in Int, h \in Int, g \in Int :
            /\ t = pending[j].timing /\ b = pending[j].start /\ h = HeaderAt(j)
            /\ g = LeastGap * (Len(pending) + 1 - j)
      BY <1>2, <2>2, <3>1
    <3>4. pending'[j].timing = t - back /\ pending'[j].start = b - dataBack /\ HeaderAt(j)' = h
      BY <1>12, <2>2, <3>1, <3>3
    <3>5. (t - back) % 8 = 0 /\ b - dataBack <= dataBits - dataBack /\ nextTiming - back >= (t - back) + g
      <4>1. t % 8 = 0 /\ b <= dataBits /\ nextTiming >= t + g
        BY <3>2, <3>3
      <4>2. (t - back) % 8 = 0
        BY <1>8, <4>1
      <4>3. dataBits \in Int /\ nextTiming \in Int
        BY <1>2
      <4> QED
        BY <4>1, <4>2, <4>3
    <3>6. (dataBits - dataBack) + h - (b - dataBack) = dataBits + h - b
      BY <1>2
    <3> QED
      BY <1>4, <1>11, <1>12, <3>1, <3>2, <3>3, <3>4, <3>5, <3>6
  <2>4. ASSUME NEW i \in 1..Len(pending'), NEW j \in 1..Len(pending'), i <= j
        PROVE  pending'[j].timing >= pending'[i].timing + LeastGap * (j - i)
    <3>1. i \in 1..Len(pending) /\ j \in 1..Len(pending)
      BY <1>11
    <3>2. pending[j].timing >= pending[i].timing + LeastGap * (j - i)
      BY <2>4, <3>1 DEF HeaderInv
    <3>3. PICK t \in Int, v \in Int, g \in Int :
            t = pending[j].timing /\ v = pending[i].timing /\ g = LeastGap * (j - i)
      BY <1>2, <2>2, <3>1
    <3>4. t >= v + g
      BY <3>2, <3>3
    <3>5. t - back >= (v - back) + g
      BY <3>4
    <3> QED
      BY <1>12, <3>1, <3>3, <3>5
  <2>5. pending' # <<>> => pending'[Len(pending')].timing = nextTiming' - frameBits'
    <3> SUFFICES ASSUME pending' # <<>>
                 PROVE  pending'[Len(pending')].timing = nextTiming' - frameBits'
      OBVIOUS
    <3>1. Len(pending) # 0
      BY <1>11
    <3>2. pending # <<>> /\ Len(pending) \in 1..Len(pending)
      BY <1>2, <3>1
    <3>3. pending[Len(pending)].timing = nextTiming - frameBits
      BY <1>1, <3>2 DEF HeaderInv
    <3>4. pending'[Len(pending')].timing = pending[Len(pending)].timing - back
      BY <1>11, <1>12, <3>2
    <3> QED
      BY <1>1, <1>2, <1>4, <3>3, <3>4
  <2> QED
    BY <2>1, <2>3, <2>4, <2>5 DEF HeaderInv
<1> QED
  BY <1>9, <1>10, <1>13, <1>14, <1>15, <1>16, <1>17

\* What has been put is copied out, or cannot be, between two frames.
LEMMA CopyingKeeps ==
  ASSUME StreamInv, pc \in {"idle", "done"}, pc' = "idle",
         (bufBytes' = 0 /\ bitIdx' = 0) \/ UNCHANGED <<bufBytes, bitIdx>>,
         UNCHANGED <<loop, ResvSize, ResvMax, main_data_begin, frameBits, granule, used, drainPost>>,
         UNCHANGED <<todo, totbit, pending, dataBits, nextTiming>>
  PROVE  StreamInv'
<1> USE DEF StreamInv
<1>1. Backlog = 8 * main_data_begin /\ main_data_begin \in Nat
  BY DEF BacklogInv, TypeInv
<1>2. bitIdx = 0
  BY <1>1, WholeBytes
<1>3. TypeInv'
  BY DEF TypeInv, EncoderPc
<1>4. ReservoirInv' /\ FrameInv'
  BY DEF ReservoirInv, FrameInv
<1>5. BacklogInv'
  BY <1>1 DEF BacklogInv, Backlog
<1>6. HeaderInv'
  BY <1>2, HeadersUntouched
<1> QED
  BY <1>3, <1>4, <1>5, <1>6

LEMMA BeginFlushKeeps ==
  ASSUME StreamInv, BeginFlush
  PROVE  StreamInv' /\ pc' = "flush"
<1> USE DEF StreamInv
<1>1. /\ pc = "idle" /\ frameBits > 0 /\ todo' = FlushBits
      /\ pc' = IF FlushBits < 0 THEN "idle" ELSE "flush"
      /\ UNCHANGED <<loop, ResvSize, ResvMax, main_data_begin, frameBits, granule, used, drainPost>>
      /\ UNCHANGED <<totbit, bitIdx, bufBytes, pending, dataBits, nextTiming>>
  BY DEF BeginFlush, resvVars, bitVars
<1>2. FlushBits = Backlog /\ Backlog = 8 * main_data_begin /\ main_data_begin \in Nat
  BY <1>1, FlushIsBacklog DEF BacklogInv, TypeInv
<1>3. todo' \in Nat /\ pc' = "flush" /\ todo' = Backlog
  BY <1>1, <1>2
<1>4. TypeInv'
  BY <1>1, <1>3 DEF TypeInv, EncoderPc
<1>5. ReservoirInv' /\ FrameInv'
  BY <1>1, <1>3 DEF ReservoirInv, FrameInv, TypeInv
<1>6. BacklogInv'
  BY <1>1, <1>3 DEF BacklogInv, Backlog
<1>7. HeaderInv'
  BY <1>1, <1>3, HeadersUntouched
<1> QED
  BY <1>3, <1>4, <1>5, <1>6, <1>7

LEMMA EndFlushKeeps ==
  ASSUME StreamInv, EndFlush
  PROVE  StreamInv'
<1> USE DEF StreamInv
<1>1. /\ pc = "flush" /\ todo = 0 /\ pc' = "done" /\ ResvSize' = 0 /\ main_data_begin' = 0
      /\ UNCHANGED <<loop, ResvMax, frameBits, granule, used, drainPost, todo>>
      /\ UNCHANGED <<totbit, bitIdx, bufBytes, pending, dataBits, nextTiming>>
  BY DEF EndFlush, bitVars
<1>2. TypeInv'
  BY <1>1 DEF TypeInv, EncoderPc
<1>3. ReservoirInv'
  BY <1>1, ConstantsAreNumbers DEF ReservoirInv, TypeInv
<1>4. FrameInv'
  BY <1>1 DEF FrameInv
<1>5. BacklogInv'
  <2>1. Backlog' = Backlog /\ Backlog = 0
    BY <1>1 DEF BacklogInv, Backlog
  <2> QED
    BY <1>1, <2>1 DEF BacklogInv
<1>6. HeaderInv'
  BY <1>1, HeadersUntouched
<1> QED
  BY <1>2, <1>3, <1>4, <1>5, <1>6

-----------------------------------------------------------------------------
(* What the invariant says.                                                *)

LEMMA StreamIsTyped ==
  ASSUME StreamInv
  PROVE  StreamTypeOK
BY DEF StreamInv, TypeInv, StreamTypeOK, HeaderSet

LEMMA ReservoirIsCounted ==
  ASSUME StreamInv
  PROVE  ReservoirAgrees
<1> USE DEF StreamInv
<1>1. pc # "exit"
  BY DEF ReservoirInv
<1>2. ASSUME pc = "post", todo = 0
      PROVE  8 * NextMainDataBegin = ResvSize /\ FlushBits = ResvSize /\ totbit % 8 = 0
  <2>1. Backlog = ResvSize
    BY <1>2 DEF BacklogInv, TypeInv
  <2>2. ResvSize % 8 = 0
    BY <1>2 DEF ReservoirInv
  <2> QED
    BY <1>2, <2>1, <2>2, NextMainDataIsTheReservoir, FlushIsBacklog, WholeBytes
<1>3. ASSUME pc \in {"idle", "done"}
      PROVE  ResvSize = 8 * main_data_begin /\ ResvSize \in 0..Min(ResvMax, ResvLimit)
  <2>1. /\ ResvSize = 8 * main_data_begin /\ ResvSize <= ResvMax
        /\ 8 * main_data_begin <= ResvLimit /\ ResvMax <= ResvLimit
    BY <1>3 DEF ReservoirInv
  <2>2. main_data_begin \in Nat /\ ResvMax \in Nat /\ ResvLimit \in Nat /\ ResvSize \in Int
    BY ConstantsAreNumbers DEF TypeInv
  <2>3. ResvSize >= 0
    BY <2>1, <2>2
  <2> QED
    BY <2>1, <2>2, <2>3 DEF Min
<1> QED
  BY <1>1, <1>2, <1>3 DEF ReservoirAgrees

\* Each pending header but the first has the least main data of a frame in front of it, and no
\* more than main_data_begin can hold lies between the writer and the place of the last one.
LEMMA HeadersFit ==
  ASSUME StreamInv
  PROVE  HeadersPointAtTheirData
<1> USE DEF StreamInv
<1>1. pending \in Seq(HeaderSet) /\ Len(pending) \in Nat /\ totbit \in Int /\ dataBits \in Int
  BY DEF TypeInv
<1>2. Len(pending) < MaxHeaderBuf
  <2>1. PICK gap \in Int : gap = LeastGap - SideInfo /\ gap >= 8
    BY ConstantsAreNumbers
  <2>2. /\ ResvLimit \in Nat /\ MaxHeaderBuf \in Nat /\ SideInfo \in Nat /\ LeastGap \in Nat
        /\ ResvLimit < gap * (MaxHeaderBuf - 1)
    BY <2>1, ConstantsAreNumbers
  <2>3. MaxHeaderBuf > 0
    <3> SUFFICES ASSUME MaxHeaderBuf = 0
                 PROVE  FALSE
      BY <2>2
    <3>1. gap * (MaxHeaderBuf - 1) = 0 - gap
      BY <2>1
    <3> QED
      BY <2>1, <2>2, <3>1
  <2>4. CASE pending = <<>>
    BY <2>2, <2>3, <2>4
  <2>5. CASE pending # <<>>
    <3>1. PICK n \in Nat : n = Len(pending) /\ n >= 1
      BY <1>1, <2>5
    <3>2. 1 \in 1..Len(pending) /\ n \in 1..Len(pending)
      BY <3>1
    <3>3. PICK t \in Int, v \in Int : t = pending[1].timing /\ v = pending[n].timing
      BY <3>2, PendingIsTyped
    <3>4. v >= t + LeastGap * (n - 1)
      BY <3>1, <3>2, <3>3 DEF HeaderInv
    <3>5. t - totbit >= 0
      BY <2>5, <3>3, FirstIsAhead
    <3>6. HeaderAt(n) = v - totbit - SideInfo * (n - 1)
      BY <3>3 DEF HeaderAt
    <3>7. HeaderAt(n) <= ResvLimit
      <4>1. /\ 8 * pending[n].mdb = dataBits + HeaderAt(n) - pending[n].start
            /\ pending[n].start <= dataBits /\ 8 * pending[n].mdb <= ResvLimit
        BY <3>2 DEF HeaderInv
      <4>2. PICK m \in Int, b \in Int, h \in Int :
              m = pending[n].mdb /\ b = pending[n].start /\ h = HeaderAt(n)
        BY <3>2, PendingIsTyped
      <4>3. 8 * m = dataBits + h - b /\ b <= dataBits /\ 8 * m <= ResvLimit
        BY <4>1, <4>2
      <4> QED
        BY <1>1, <2>2, <4>2, <4>3
    <3>8. PICK x \in Int, y \in Int : x = LeastGap * (n - 1) /\ y = SideInfo * (n - 1)
      BY <2>2, <3>1
    <3>9. x - y = gap * (n - 1)
      BY <2>1, <2>2, <3>1, <3>8
    <3>10. x - y <= ResvLimit
      <4>1. v >= t + x /\ t >= totbit /\ v - totbit - y <= ResvLimit
        BY <1>1, <3>3, <3>4, <3>5, <3>6, <3>7, <3>8
      <4>2. ResvLimit \in Int /\ totbit \in Int
        BY <1>1, <2>2
      <4> QED
        BY <4>1, <4>2
    <3>11. gap * (n - 1) < gap * (MaxHeaderBuf - 1)
      <4>1. PICK z \in Int : z = gap * (MaxHeaderBuf - 1)
        BY <2>1, <2>2
      <4>2. x - y <= ResvLimit /\ ResvLimit < z /\ ResvLimit \in Nat
        BY <2>2, <3>10, <4>1
      <4>3. x - y < z
        BY <4>2
      <4> QED
        BY <3>9, <4>1, <4>3
    <3>12. n - 1 < MaxHeaderBuf - 1
      <4>0. PICK z \in Int, w \in Int : z = gap * (MaxHeaderBuf - 1) /\ w = gap * (n - 1)
        BY <2>1, <2>2, <3>1
      <4> SUFFICES ASSUME n - 1 >= MaxHeaderBuf - 1
                   PROVE  w >= z
        BY <2>2, <3>1, <3>11, <4>0
      <4>1. PICK d \in Nat : d = n - MaxHeaderBuf
        <5>1. MaxHeaderBuf \in Nat
          BY <2>2
        <5> QED
          BY <5>1
      <4>2. gap * (n - 1) = gap * (MaxHeaderBuf - 1) + gap * d
        <5>1. PICK c \in Int : c = MaxHeaderBuf - 1 /\ n - 1 = c + d
          BY <2>2, <3>1, <4>1
        <5>2. gap * (c + d) = gap * c + gap * d
          BY <2>1, <4>1, <5>1
        <5> QED
          BY <5>1, <5>2
      <4>3. PICK e \in Int : e = gap * d /\ e >= 0
        BY <2>1, <4>1
      <4>4. w = z + e
        BY <4>0, <4>2, <4>3
      <4>5. w >= z
        BY <4>3, <4>4
      <4> QED
        BY <4>5
    <3> QED
      BY <2>2, <3>1, <3>12
  <2> QED
    BY <2>4, <2>5
<1>3. ASSUME pending # <<>>, bitIdx = 0
      PROVE  /\ FirstTiming >= totbit
             /\ FirstTiming = totbit => dataBits - pending[1].start = 8 * pending[1].mdb
  <2>1. /\ 1 \in 1..Len(pending) /\ HeaderAt(1) = pending[1].timing - totbit
        /\ HeaderAt(1) \in Nat
    BY <1>3, FirstIsAhead
  <2>2. /\ pending[1].timing \in Int /\ pending[1].mdb \in Int /\ pending[1].start \in Int
    BY <2>1, PendingIsTyped
  <2>3. FirstTiming = pending[1].timing
    BY <1>3 DEF FirstTiming
  <2>4. 8 * pending[1].mdb = dataBits + HeaderAt(1) - pending[1].start
    BY <2>1 DEF HeaderInv
  <2> QED
    BY <1>1, <2>1, <2>2, <2>3, <2>4
<1>4. pc # "overrun"
  BY DEF ReservoirInv
<1> QED
  BY <1>2, <1>3, <1>4 DEF HeadersPointAtTheirData

-----------------------------------------------------------------------------
(* The stream by itself.                                                   *)

LEMMA FrameStepKeeps ==
  ASSUME StreamInv, FrameStep
  PROVE  StreamInv'
BY EncodeGranuleKeeps, FrameEndKeeps, PutBitsKeeps, EncodeSideInfoKeeps, DrainPostKeeps, FrameDoneKeeps,
   EndFlushKeeps DEF FrameStep

\* The writer and the reservoir keep what StreamInv says, whatever the loops spend and however
\* often the stream is flushed.
THEOREM StreamIsKept == StreamSpec => []StreamInv
<1>1. StreamInit(0) => StreamInv
  BY StreamStarts
<1>2. StreamInv /\ [StreamNext]_streamVars => StreamInv'
  <2> SUFFICES ASSUME StreamInv, [StreamNext]_streamVars
               PROVE  StreamInv'
    OBVIOUS
  <2>1. ASSUME NEW padding \in BOOLEAN, BeginFrame(padding)
        PROVE  StreamInv'
    BY <2>1, BeginFrameKeeps
  <2>2. ASSUME NEW bits \in Bits, NEW silence \in BOOLEAN, AllocateFrame(bits, silence)
        PROVE  StreamInv'
    BY <2>2, AllocateFrameKeeps
  <2>3. CASE FrameStep
    BY <2>3, FrameStepKeeps
  <2>4. CASE CopyBuffer
    BY <2>4, CopyingKeeps DEF CopyBuffer, resvVars
  <2>5. CASE BeginFlush
    BY <2>5, BeginFlushKeeps
  <2>6. CASE UNCHANGED streamVars
    BY <2>6 DEF streamVars, resvVars, bitVars, StreamInv, TypeInv, ReservoirInv, FrameInv, BacklogInv,
                HeaderInv, Backlog, HeaderAt
  <2> QED
    BY <2>1, <2>2, <2>3, <2>4, <2>5, <2>6 DEF StreamNext
<1> QED
  BY <1>1, <1>2, PTL DEF StreamSpec

-----------------------------------------------------------------------------
(* The encoder.                                                            *)

\* Where a call is says where the stream is.
PlaceInv ==
  /\ at \in Places
  /\ at \in {"out", "bunch", "fill", "frame", "crash"} => pc = "idle"
  /\ at = "stream" => pc \in {"granules", "pre", "main", "post", "done"}
  /\ at = "flush" => pc \in {"flush", "done"} /\ (pc = "done" => main_data_begin = 0)

LameStreamInv == StreamInv /\ PlaceInv

-----------------------------------------------------------------------------
(* The stream inside the encoder.                                          *)

LEMMA StreamRestarts ==
  ASSUME NEW tagBytes \in Nat, StreamRestart(tagBytes)
  PROVE  StreamInv' /\ pc' = "idle"
<1>1. /\ loop' \in Loops /\ pc' = "idle" /\ ResvSize' = 0 /\ ResvMax' = 0 /\ main_data_begin' = 0
      /\ frameBits' = 0 /\ granule' = 0 /\ used' = 0 /\ drainPost' = 0 /\ todo' = 0
      /\ totbit' = 8 * tagBytes /\ bitIdx' = 0 /\ bufBytes' = tagBytes
      /\ pending' = <<>> /\ nextTiming' = 8 * tagBytes /\ dataBits' = 0
  BY DEF StreamRestart
<1>2. TypeInv'
  BY <1>1 DEF TypeInv, EncoderPc
<1>3. ReservoirInv' /\ FrameInv'
  BY <1>1, ConstantsAreNumbers DEF ReservoirInv, FrameInv
<1>4. BacklogInv'
  <2>1. Backlog' = 8 * tagBytes - 8 * tagBytes - SideInfo * 0
    BY <1>1 DEF Backlog
  <2> QED
    BY <1>1, <2>1, ConstantsAreNumbers DEF BacklogInv
<1>5. HeaderInv'
  BY <1>1 DEF HeaderInv
<1> QED
  BY <1>1, <1>2, <1>3, <1>4, <1>5 DEF StreamInv

LEMMA StreamLeftAlone ==
  ASSUME StreamInv, UNCHANGED streamVars
  PROVE  StreamInv'
BY DEF streamVars, resvVars, bitVars, StreamInv, TypeInv, ReservoirInv, FrameInv, BacklogInv, HeaderInv,
       Backlog, HeaderAt

LEMMA EncoderStarts ==
  ASSUME NoEncoder
  PROVE  LameStreamInv
BY StreamStarts DEF NoEncoder, LameStreamInv, PlaceInv, Places, StreamInit

LEMMA EncoderKeepsStream ==
  ASSUME LameStreamInv, [LameNext]_lameVars
  PROVE  LameStreamInv'
<1> USE DEF LameStreamInv
<1>1. ASSUME NEW tag \in TagBytes, NEW ok \in BOOLEAN, lameInit(tag, ok)
      PROVE  LameStreamInv'
  <2>1. PICK bytes \in Nat : bytes = IF ok THEN tag ELSE 0
    BY CallersAssumption
  <2>2. StreamRestart(bytes) /\ at = "out" /\ at' = "out"
    BY <1>1, <2>1 DEF lameInit, Renew
  <2> QED
    BY <2>2, StreamRestarts DEF PlaceInv, Places
<1>2. CASE lameClose
  <2>1. StreamRestart(0) /\ at = "out" /\ at' = "out"
    BY <1>2 DEF lameClose, Renew
  <2> QED
    BY <2>1, StreamRestarts DEF PlaceInv, Places
<1>3. ASSUME NEW n \in CallSamples, NEW size \in ArraySizes, lameEncode(n, size)
      PROVE  LameStreamInv'
  <2>1. /\ at = "out" /\ pc' = pc /\ at' \in {"out", "fill"}
        /\ (bufBytes' = 0 /\ bitIdx' = 0) \/ UNCHANGED <<bufBytes, bitIdx>>
        /\ UNCHANGED <<loop, ResvSize, ResvMax, main_data_begin, frameBits, granule, used, drainPost>>
        /\ UNCHANGED <<todo, totbit, pending, dataBits, nextTiming>>
    BY <1>3 DEF lameEncode, Leave, resvVars
  <2>2. pc = "idle"
    BY <2>1 DEF PlaceInv
  <2> QED
    BY <2>1, <2>2, CopyingKeeps DEF PlaceInv, Places
<1>4. ASSUME NEW size \in ArraySizes, lameFlush(size)
      PROVE  LameStreamInv'
  <2>1. at = "out" /\ at' = "bunch" /\ UNCHANGED streamVars
    BY <1>4 DEF lameFlush
  <2> QED
    BY <2>1, StreamLeftAlone DEF PlaceInv, Places, streamVars
<1>5. CASE FillBuffer
  <2>1. at = "fill" /\ at' \in {"crash", "frame", "fill"} /\ UNCHANGED streamVars
    BY <1>5 DEF FillBuffer
  <2> QED
    BY <2>1, StreamLeftAlone DEF PlaceInv, Places, streamVars
<1>6. CASE EncodeFrame
  <2>1. at = "frame" /\ at' = "stream"
    BY <1>6 DEF EncodeFrame
  <2>2. CASE loop = "CBR"
    <3>1. PICK padding \in BOOLEAN : BeginFrame(padding)
      <4>1. BeginFrame(slot_lag - FracSpF < 0)
        BY <1>6, <2>2 DEF EncodeFrame
      <4>2. (slot_lag - FracSpF < 0) \in BOOLEAN
        OBVIOUS
      <4> QED
        BY <4>1, <4>2
    <3>2. pc' = "granules"
      BY <3>1 DEF BeginFrame
    <3> QED
      BY <2>1, <3>1, <3>2, BeginFrameKeeps DEF PlaceInv, Places
  <2>3. CASE loop # "CBR"
    <3>1. PICK bits \in Bits, silence \in BOOLEAN : AllocateFrame(bits, silence)
      BY <1>6, <2>3 DEF EncodeFrame
    <3>2. StreamInv'
      BY <3>1, AllocateFrameKeeps
    <3>3. pc' \in {"exit", "granules"}
      BY <3>1 DEF AllocateFrame
    <3>4. pc' = "granules"
      BY <3>2, <3>3 DEF StreamInv, ReservoirInv
    <3> QED
      BY <2>1, <3>2, <3>4 DEF PlaceInv, Places
  <2> QED
    BY <2>2, <2>3
<1>7. CASE StreamStep
  <2>1. at \in {"stream", "flush"} /\ FrameStep /\ at' = at
    BY <1>7 DEF StreamStep, callVars
  <2>2. StreamInv'
    BY <2>1, FrameStepKeeps
  <2>3. pc' \notin {"overrun", "exit"}
    BY <2>2 DEF StreamInv, ReservoirInv
  <2>4. CASE at = "stream"
    <3>1. pc \in {"granules", "pre", "main", "post", "done"}
      BY <2>4 DEF PlaceInv
    <3>2. pc' \in {"granules", "pre", "main", "post", "done"}
      BY <2>1, <2>3, <3>1 DEF FrameStep, EncodeGranule, FrameEnd, PutBits, EncodeSideInfo, DrainPost,
                              FrameDone, EndFlush
    <3> QED
      BY <2>1, <2>2, <2>4, <3>2 DEF PlaceInv, Places
  <2>5. CASE at = "flush"
    <3>1. pc \in {"flush", "done"}
      BY <2>5 DEF PlaceInv
    <3>2. PutBits \/ EndFlush
      BY <2>1, <3>1 DEF FrameStep, EncodeGranule, FrameEnd, EncodeSideInfo, DrainPost, FrameDone
    <3>3. pc = "flush" /\ (pc' = "flush" \/ (pc' = "done" /\ main_data_begin' = 0))
      BY <2>3, <3>1, <3>2 DEF PutBits, EndFlush
    <3> QED
      BY <2>1, <2>2, <2>5, <3>3 DEF PlaceInv, Places
  <2> QED
    BY <2>1, <2>4, <2>5
<1>8. CASE FrameCopied
  <2>1. /\ at = "stream" /\ pc = "done" /\ pc' = "idle" /\ at' \in {"fill", "out"}
        /\ (bufBytes' = 0 /\ bitIdx' = 0) \/ UNCHANGED <<bufBytes, bitIdx>>
        /\ UNCHANGED <<loop, ResvSize, ResvMax, main_data_begin, frameBits, granule, used, drainPost>>
        /\ UNCHANGED <<todo, totbit, pending, dataBits, nextTiming>>
    BY <1>8 DEF FrameCopied, CopyBuffer, Leave, resvVars, bitVars
  <2> QED
    BY <2>1, CopyingKeeps DEF PlaceInv, Places
<1>9. CASE EncodeReturns
  <2>1. at = "fill" /\ at' \in {"bunch", "out"} /\ UNCHANGED streamVars
    BY <1>9 DEF EncodeReturns, Leave
  <2> QED
    BY <2>1, StreamLeftAlone DEF PlaceInv, Places, streamVars
<1>10. CASE Bunch
  <2>1. /\ at = "bunch" /\ pc' = pc /\ at' \in {"fill", "out"}
        /\ (bufBytes' = 0 /\ bitIdx' = 0) \/ UNCHANGED <<bufBytes, bitIdx>>
        /\ UNCHANGED <<loop, ResvSize, ResvMax, main_data_begin, frameBits, granule, used, drainPost>>
        /\ UNCHANGED <<todo, totbit, pending, dataBits, nextTiming>>
    BY <1>10 DEF Bunch, Leave, resvVars
  <2>2. pc = "idle"
    BY <2>1 DEF PlaceInv
  <2> QED
    BY <2>1, <2>2, CopyingKeeps DEF PlaceInv, Places
<1>11. CASE FlushStream
  <2>1. BeginFlush /\ at' = "flush"
    BY <1>11 DEF FlushStream
  <2> QED
    BY <2>1, BeginFlushKeeps DEF PlaceInv, Places
<1>12. CASE FlushCopied
  <2>1. /\ at = "flush" /\ pc \in {"done", "idle"} /\ pc' = "idle" /\ at' = "out"
        /\ (bufBytes' = 0 /\ bitIdx' = 0) \/ UNCHANGED <<bufBytes, bitIdx>>
        /\ UNCHANGED <<loop, ResvSize, ResvMax, main_data_begin, frameBits, granule, used, drainPost>>
        /\ UNCHANGED <<todo, totbit, pending, dataBits, nextTiming>>
    BY <1>12 DEF FlushCopied, Leave, resvVars
  <2> QED
    BY <2>1, CopyingKeeps DEF PlaceInv, Places
<1>13. CASE UNCHANGED lameVars
  <2>1. UNCHANGED <<streamVars, at>>
    BY <1>13 DEF lameVars, callVars
  <2> QED
    BY <2>1, StreamLeftAlone DEF PlaceInv, streamVars, resvVars
<1> QED
  BY <1>1, <1>2, <1>3, <1>4, <1>5, <1>6, <1>7, <1>8, <1>9, <1>10, <1>11, <1>12, <1>13 DEF LameNext

THEOREM EncoderStream == LameSpec => []LameStreamInv
BY EncoderStarts, EncoderKeepsStream, PTL DEF LameSpec

\* What main_data_begin counts, what the quantisation loops think is in the reservoir and what a
\* flush would have to write are the same for every encoder: no assertion or error exit of
\* format_bitstream, ResvFrameBegin and VBR_new_iteration_loop is reached.
THEOREM ReservoirAlwaysAgrees == LameSpec => []ReservoirAgrees
BY EncoderStream, ReservoirIsCounted, PTL DEF LameStreamInv

\* putbits2 never overtakes the next header, encodeSideInfo2 never finds the ring of headers
\* full, and a header that is written says where the main data of its frame began.
THEOREM HeadersAlwaysFit == LameSpec => []HeadersPointAtTheirData
BY EncoderStream, HeadersFit, PTL DEF LameStreamInv
-----------------------------------------------------------------------------
(* The samples.                                                            *)

FlagsInv ==
  /\ valid \in BOOLEAN /\ flushing \in BOOLEAN /\ flushed \in BOOLEAN /\ small \in BOOLEAN
  /\ failed \in BOOLEAN /\ filled \in BOOLEAN /\ overran \in BOOLEAN
  /\ at = "out" => ~flushing

CallInv ==
  /\ nsamples \in Nat /\ room \in Int /\ mf_size \in Nat /\ end_padding \in Nat /\ zeros \in Nat
  /\ mf_samples_to_encode \in Int /\ lead \in Int /\ frames_left \in Int
  /\ slot_lag \in 0..SamplerateOut - 1
  /\ at \in {"frame", "stream"} => mf_size >= MFNeeded
  /\ at = "out" => nsamples = 0

\* After a flush, and once samples have been fed: what mf_samples_to_encode and mfbuf hold of them.
AtRest == mf_samples_to_encode = 0 /\ mf_size = MFNeeded - FrameSamples
Start == mf_size - lead - zeros
Fed ==
  /\ mf_samples_to_encode = ENCDELAY + POSTDELAY + lead + zeros
  /\ Start \in {ENCDELAY - MDCTDELAY, MFNeeded - FrameSamples}
  /\ mf_size >= Start \/ mf_size >= MFNeeded - FrameSamples

Ended ==
  /\ AtRest
  /\ ENCDELAY + lead + end_padding = 0
  /\ mf_size + Granule \div 2 <= zeros

FeedInv ==
  /\ ~flushing =>
       /\ at \in {"out", "fill", "frame", "stream"}
       /\ AtRest \/ (Fed /\ zeros = 0)
  /\ flushing /\ at # "flush" =>
       /\ Fed /\ at \in {"bunch", "fill", "frame", "stream"}
       /\ frames_left \in Nat /\ ENCDELAY + lead + end_padding = FrameSamples * frames_left
       /\ end_padding >= Granule
       /\ at = "bunch" => nsamples = 0
       /\ at = "fill" => mf_size + nsamples <= MFNeeded
       /\ at \in {"frame", "stream"} => mf_size = MFNeeded /\ nsamples = 0
       /\ frames_left = 0 =>
            at \in {"fill", "bunch"} /\ nsamples = 0 /\ mf_size = MFNeeded - FrameSamples
  /\ at = "flush" => Ended

SampleInv ==
  ~failed =>
    /\ at # "crash"
    /\ at \in {"out", "fill", "bunch", "flush"} => mf_size < MFNeeded
    /\ at \in {"frame", "stream"} => mf_size < MFNeeded + FrameSamples
    /\ FeedInv
    /\ flushed => at = "out" /\ Ended /\ pending = <<>> /\ totbit = nextTiming /\ bufBytes = 0

LameInv == LameStreamInv /\ FlagsInv /\ CallInv /\ SampleInv

LEMMA SamplesAreNumbers ==
  /\ FrameSamples \in Nat /\ FrameSamples > 0 /\ Granule \in Nat /\ Granule > 0
  /\ ENCDELAY \in Nat /\ MDCTDELAY \in Nat /\ POSTDELAY \in Nat /\ MFNeeded \in Nat /\ MaxBunch \in Nat
  /\ MFSIZE \in Nat /\ MDCTDELAY > 0 /\ POSTDELAY > 0 /\ MaxBunch > 0
  /\ MDCTDELAY < ENCDELAY /\ ENCDELAY - MDCTDELAY < MFNeeded
  /\ FrameSamples <= MFNeeded /\ MFNeeded + FrameSamples <= MFSIZE
  /\ MFNeeded - FrameSamples <= ENCDELAY + Granule \div 2
  /\ ENCDELAY - MDCTDELAY <= MFNeeded - FrameSamples
<1>1. FrameSamples \in Nat /\ FrameSamples > 0
  <2>1. CASE mode_gr = 1
    BY <2>1, SamplesAssumption DEF FrameSamples
  <2>2. CASE mode_gr = 2
    BY <2>2, SamplesAssumption DEF FrameSamples
  <2> QED
    BY <2>1, <2>2, GranulesAssumption
<1> QED
  BY <1>1, SamplesAssumption

\* lame_encode_flush pads to whole frames, with no less than a granule.
LEMMA PaddedToFrames ==
  ASSUME NEW samples \in Int
  PROVE  /\ EndPadding(samples) \in Nat /\ EndPadding(samples) >= Granule
         /\ (samples + EndPadding(samples)) \div FrameSamples \in Int
         /\ samples + EndPadding(samples)
              = FrameSamples * ((samples + EndPadding(samples)) \div FrameSamples)
<1>1. PICK f \in Nat : f = FrameSamples /\ f > 0
  BY SamplesAreNumbers
<1>2. PICK q \in Int, r \in 0..f - 1 : samples = f * q + r /\ r = samples % f
  BY <1>1
<1>3. PICK p \in Nat, k \in {1, 2} : p = EndPadding(samples) /\ p = f * k - r /\ p >= Granule
  <2>1. CASE f - r < Granule
    <3>1. EndPadding(samples) = f - r + f
      BY <1>1, <1>2, <2>1 DEF EndPadding
    <3>2. f >= Granule
      BY <1>1, GranulesAssumption, SamplesAssumption DEF FrameSamples
    <3> QED
      BY <1>1, <1>2, <3>1, <3>2, SamplesAreNumbers
  <2>2. CASE f - r >= Granule
    <3>1. EndPadding(samples) = f - r
      BY <1>1, <1>2, <2>2, SamplesAreNumbers DEF EndPadding
    <3> QED
      BY <1>1, <1>2, <2>2, <3>1, SamplesAreNumbers
  <2> QED
    BY <1>1, <1>2, <2>1, <2>2, SamplesAreNumbers
<1>4. samples + p = f * (q + k)
  <2>1. f * (q + k) = f * q + f * k
    BY <1>1, <1>2, <1>3
  <2>2. PICK a \in Int, b \in Int : a = f * q /\ b = f * k
    BY <1>1, <1>2, <1>3
  <2>3. samples = a + r /\ p = b - r /\ r \in Int
    <3>1. r \in Int
      BY <1>1
    <3>2. samples = f * q + r /\ p = f * k - r
      BY <1>2, <1>3
    <3> QED
      BY <2>2, <3>1, <3>2
  <2>4. samples + p = a + b
    BY <2>3
  <2> QED
    BY <2>1, <2>2, <2>4
<1>5. PICK m \in Int : m = q + k
  BY <1>2, <1>3
<1>6. (f * m) \div f = m
  BY <1>1, <1>5
<1> QED
  BY <1>1, <1>3, <1>4, <1>5, <1>6

\* Once samples have been fed mf_samples_to_encode stays above zero, and there is a frame to flush.
LEMMA FedIsOpen ==
  ASSUME CallInv, Fed
  PROVE  mf_samples_to_encode >= 1 /\ (zeros = 0 => ENCDELAY + lead >= 0)
<1>1. mf_size \in Nat /\ lead \in Int /\ zeros \in Nat /\ mf_samples_to_encode \in Int
  BY DEF CallInv
<1>2. PICK c \in Int : c = mf_size - lead - zeros
  BY <1>1
<1>3. c \in {ENCDELAY - MDCTDELAY, MFNeeded - FrameSamples}
  BY <1>2 DEF Fed, Start
<1>4. mf_size >= c \/ mf_size >= MFNeeded - FrameSamples
  BY <1>2 DEF Fed, Start
<1>5. mf_samples_to_encode = ENCDELAY + POSTDELAY + mf_size - c
  BY <1>1, <1>2, SamplesAreNumbers DEF Fed
<1> QED
  BY <1>1, <1>2, <1>3, <1>4, <1>5, SamplesAreNumbers

LEMMA CallsStart ==
  ASSUME NoEncoder
  PROVE  FlagsInv /\ CallInv /\ SampleInv
<1>1. CallInv
  <2>1. 0 \in 0..SamplerateOut - 1
    BY RateAssumption
  <2> QED
    BY <2>1, SamplesAreNumbers DEF NoEncoder, CallInv
<1>2. FeedInv
  <2>1. Fed
    BY SamplesAreNumbers DEF NoEncoder, Fed, Start
  <2> QED
    BY <2>1 DEF NoEncoder, FeedInv
<1>3. FlagsInv
  BY DEF NoEncoder, FlagsInv
<1> QED
  BY <1>1, <1>2, <1>3, SamplesAreNumbers DEF NoEncoder, SampleInv

LEMMA SlotLagIsBounded ==
  ASSUME NEW lag \in 0..SamplerateOut - 1
  PROVE  /\ FracSpF \in 0..SamplerateOut - 1 /\ 0 \in 0..SamplerateOut - 1
         /\ (IF lag - FracSpF < 0 THEN lag - FracSpF + SamplerateOut ELSE lag - FracSpF)
              \in 0..SamplerateOut - 1
<1>1. SamplerateOut \in Nat /\ FracSpF \in Int /\ FracSpF >= 0 /\ FracSpF <= SamplerateOut - 1
      /\ SamplerateOut > 0
  BY RateAssumption
<1>2. lag \in Int /\ lag >= 0 /\ lag <= SamplerateOut - 1
  BY <1>1
<1> QED
  BY <1>1, <1>2

\* What a call that returns says of itself.
LEMMA LeavingKeepsFlags ==
  ASSUME FlagsInv, NEW ok \in BOOLEAN, Leave(ok)
  PROVE  /\ flushing' = FALSE /\ flushed' \in BOOLEAN /\ failed' \in BOOLEAN
         /\ at' = "out" /\ nsamples' = 0 /\ room' = 0 /\ frames_left' = 0
         /\ failed' = (failed \/ ~ok) /\ flushed' = (ok /\ flushing)
BY DEF Leave, FlagsInv

LEMMA FlagsAreBooleans ==
  ASSUME FlagsInv, LameNext
  PROVE  FlagsInv'
<1> USE DEF FlagsInv
<1>1. ASSUME NEW tag \in TagBytes, NEW ok \in BOOLEAN, lameInit(tag, ok)
      PROVE  FlagsInv'
  BY <1>1, Zenon DEF lameInit, Renew
<1>2. CASE lameClose
  BY <1>2, Zenon DEF lameClose, Renew
<1>3. ASSUME NEW n \in CallSamples, NEW size \in ArraySizes, lameEncode(n, size)
      PROVE  FlagsInv'
  <2>1. valid' = valid /\ small' \in BOOLEAN
    BY <1>3, Zenon DEF lameEncode
  <2>2. CASE bufBytes > size
    <3>1. Leave(FALSE) /\ UNCHANGED <<filled, overran>>
      BY <1>3, <2>2 DEF lameEncode
    <3> QED
      BY <2>1, <3>1, LeavingKeepsFlags, Zenon
  <2>3. CASE ~(bufBytes > size)
    <3>1. /\ at' = "fill" /\ flushed' = FALSE /\ filled' = (filled \/ bufBytes = size)
          /\ UNCHANGED <<flushing, frames_left, failed, overran>>
      BY <1>3, <2>3 DEF lameEncode
    <3> QED
      BY <2>1, <3>1, Zenon
  <2> QED
    BY <2>2, <2>3
<1>4. ASSUME NEW size \in ArraySizes, lameFlush(size)
      PROVE  FlagsInv'
  BY <1>4, Zenon DEF lameFlush
<1>5. CASE FillBuffer
  <2>1. at' \in {"crash", "frame", "fill"} /\ UNCHANGED <<valid, flushing, outcomeVars>>
    BY <1>5 DEF FillBuffer
  <2> QED
    BY <2>1, Zenon DEF outcomeVars
<1>6. CASE EncodeFrame
  <2>1. at' = "stream" /\ UNCHANGED <<valid, flushing, outcomeVars>>
    BY <1>6 DEF EncodeFrame
  <2> QED
    BY <2>1, Zenon DEF outcomeVars
<1>7. CASE StreamStep
  BY <1>7, Zenon DEF StreamStep, callVars, outcomeVars
<1>8. CASE FrameCopied
  <2>1. UNCHANGED <<valid, small>>
    BY <1>8 DEF FrameCopied
  <2>2. CASE Fits(bufBytes)
    <3>1. at' = "fill" /\ UNCHANGED <<flushing, flushed, failed>> /\ CopyOut(bufBytes)
      BY <1>8, <2>2 DEF FrameCopied
    <3> QED
      BY <2>1, <3>1, Zenon DEF CopyOut
  <2>3. CASE ~Fits(bufBytes)
    <3>1. Leave(FALSE) /\ UNCHANGED <<filled, overran>>
      BY <1>8, <2>3 DEF FrameCopied
    <3> QED
      BY <2>1, <3>1, LeavingKeepsFlags, Zenon
  <2> QED
    BY <2>2, <2>3
<1>9. CASE EncodeReturns
  <2>1. UNCHANGED <<valid, small, filled, overran>>
    BY <1>9 DEF EncodeReturns
  <2>2. CASE flushing
    <3>1. at' = "bunch" /\ UNCHANGED <<flushing, failed, flushed>>
      BY <1>9, <2>2 DEF EncodeReturns
    <3> QED
      BY <2>1, <3>1, Zenon
  <2>3. CASE ~flushing
    <3>1. Leave(TRUE)
      BY <1>9, <2>3 DEF EncodeReturns
    <3> QED
      BY <2>1, <3>1, LeavingKeepsFlags, Zenon
  <2> QED
    BY <2>2, <2>3
<1>10. CASE Bunch
  <2>1. UNCHANGED <<valid, small>>
    BY <1>10 DEF Bunch
  <2>2. CASE Fits(bufBytes)
    <3>1. CopyOut(bufBytes) /\ at' = "fill" /\ UNCHANGED <<flushing, flushed, failed>>
      BY <1>10, <2>2 DEF Bunch
    <3> QED
      BY <2>1, <3>1, Zenon DEF CopyOut
  <2>3. CASE ~Fits(bufBytes)
    <3>1. Leave(FALSE) /\ UNCHANGED <<filled, overran>>
      BY <1>10, <2>3 DEF Bunch
    <3> QED
      BY <2>1, <3>1, LeavingKeepsFlags, Zenon
  <2> QED
    BY <2>2, <2>3
<1>11. CASE FlushStream
  <2>1. at' = "flush" /\ UNCHANGED <<valid, flushing, outcomeVars>>
    BY <1>11 DEF FlushStream
  <2> QED
    BY <2>1, Zenon DEF outcomeVars
<1>12. CASE FlushCopied
  <2>1. UNCHANGED <<valid, small>> /\ Leave(Fits(bufBytes))
    BY <1>12 DEF FlushCopied
  <2>2. Fits(bufBytes) \in BOOLEAN
    BY DEF Fits
  <2>3. filled' \in BOOLEAN /\ overran' \in BOOLEAN
    BY <1>12, Zenon DEF FlushCopied
  <2> QED
    BY <2>1, <2>2, <2>3, LeavingKeepsFlags, Zenon
<1> QED
  BY <1>1, <1>2, <1>3, <1>4, <1>5, <1>6, <1>7, <1>8, <1>9, <1>10, <1>11, <1>12 DEF LameNext

LEMMA CallsAreTyped ==
  ASSUME LameStreamInv, FlagsInv, CallInv, LameNext
  PROVE  CallInv'
<1> USE DEF CallInv
<1>0. bufBytes \in Nat
  BY DEF LameStreamInv, StreamInv, TypeInv
<1>1. ASSUME NEW tag \in TagBytes, NEW ok \in BOOLEAN, lameInit(tag, ok)
      PROVE  CallInv'
  <2>1. slot_lag' \in 0..SamplerateOut - 1
    BY <1>1, SlotLagIsBounded DEF lameInit
  <2>2. /\ mf_size' = ENCDELAY - MDCTDELAY /\ mf_samples_to_encode' = ENCDELAY + POSTDELAY
        /\ frames_left' = 0 /\ end_padding' = 0 /\ lead' = 0 /\ zeros' = 0
        /\ UNCHANGED <<at, nsamples, room>> /\ at = "out"
    BY <1>1 DEF lameInit, Renew
  <2> QED
    BY <2>1, <2>2, SamplesAreNumbers
<1>2. CASE lameClose
  <2>1. slot_lag' \in 0..SamplerateOut - 1
    BY <1>2, SlotLagIsBounded DEF lameClose
  <2>2. /\ mf_size' = ENCDELAY - MDCTDELAY /\ mf_samples_to_encode' = ENCDELAY + POSTDELAY
        /\ frames_left' = 0 /\ end_padding' = 0 /\ lead' = 0 /\ zeros' = 0
        /\ UNCHANGED <<at, nsamples, room>> /\ at = "out"
    BY <1>2 DEF lameClose, Renew
  <2> QED
    BY <2>1, <2>2, SamplesAreNumbers
<1>3. ASSUME NEW n \in CallSamples, NEW size \in ArraySizes, lameEncode(n, size)
      PROVE  CallInv'
  <2>1. n \in Nat /\ size \in Nat
    BY CallersAssumption
  <2>2. UNCHANGED <<mf_size, mf_samples_to_encode, lead, zeros, slot_lag, end_padding>> /\ at = "out"
    BY <1>3 DEF lameEncode, sampleVars
  <2>3. CASE bufBytes > size
    <3>1. Leave(FALSE)
      BY <1>3, <2>3 DEF lameEncode
    <3>2. at' = "out" /\ nsamples' = 0 /\ room' = 0 /\ frames_left' = 0
      BY <3>1, LeavingKeepsFlags
    <3> QED
      BY <2>2, <3>2
  <2>4. CASE ~(bufBytes > size)
    <3>1. size - bufBytes \in Nat
      BY <1>0, <2>1, <2>4
    <3>2. at' = "fill" /\ nsamples' = n /\ room' = size - bufBytes /\ frames_left' = frames_left
      BY <1>3, <2>4 DEF lameEncode
    <3> QED
      BY <2>1, <2>2, <3>1, <3>2
  <2> QED
    BY <2>3, <2>4
<1>4. ASSUME NEW size \in ArraySizes, lameFlush(size)
      PROVE  CallInv'
  <2>1. size \in Nat
    BY CallersAssumption
  <2>2. PICK samples \in Int : samples = mf_samples_to_encode - POSTDELAY
    BY SamplesAreNumbers
  <2>3. /\ EndPadding(samples) \in Nat
        /\ (samples + EndPadding(samples)) \div FrameSamples \in Int
    BY PaddedToFrames
  <2>4. end_padding' \in Nat /\ frames_left' \in Int
    BY <1>4, <2>2, <2>3 DEF lameFlush
  <2>5. /\ at' = "bunch" /\ room' = size /\ nsamples' = nsamples /\ slot_lag' = slot_lag
        /\ UNCHANGED <<mf_size, mf_samples_to_encode, lead, zeros>>
    BY <1>4 DEF lameFlush, sampleVars
  <2> QED
    BY <2>1, <2>4, <2>5
<1>5. CASE FillBuffer
  <2>1. PICK n \in Nat : n = Min(FrameSamples, nsamples) /\ n <= nsamples
    BY SamplesAreNumbers DEF Min
  <2>2. /\ mf_size' = mf_size + n /\ nsamples' = nsamples - n
        /\ mf_samples_to_encode'
             = (IF mf_samples_to_encode < 1 THEN ENCDELAY + POSTDELAY ELSE mf_samples_to_encode) + n
        /\ lead' = (IF mf_samples_to_encode < 1 THEN 0 ELSE lead) + (IF flushing THEN 0 ELSE n)
        /\ zeros' = (IF flushing THEN zeros + n ELSE 0)
        /\ at = "fill" /\ UNCHANGED <<room, slot_lag, frames_left, end_padding>>
        /\ at' = IF mf_size + n > MFSIZE THEN "crash" ELSE IF mf_size + n >= MFNeeded THEN "frame" ELSE "fill"
    BY <1>5, <2>1 DEF FillBuffer, Taken
  <2>3. /\ mf_size' \in Nat /\ nsamples' \in Nat /\ mf_samples_to_encode' \in Int /\ lead' \in Int
        /\ zeros' \in Nat
    BY <2>1, <2>2, SamplesAreNumbers
  <2>4. at' # "out" /\ (at' \in {"frame", "stream"} => mf_size' >= MFNeeded)
    BY <2>2
  <2> QED
    BY <2>2, <2>3, <2>4
<1>6. CASE EncodeFrame
  <2>1. slot_lag' \in 0..SamplerateOut - 1
    BY <1>6, SlotLagIsBounded DEF EncodeFrame
  <2> QED
    BY <1>6, <2>1 DEF EncodeFrame, sampleVars
<1>7. CASE StreamStep
  BY <1>7 DEF StreamStep, sampleVars, callVars
<1>8. CASE FrameCopied
  <2>1. at = "stream" /\ UNCHANGED <<slot_lag, end_padding, zeros>>
    BY <1>8 DEF FrameCopied
  <2>2. CASE Fits(bufBytes)
    <3>1. /\ mf_size' = mf_size - FrameSamples /\ lead' = lead - FrameSamples /\ at' = "fill"
          /\ mf_samples_to_encode' = mf_samples_to_encode - FrameSamples
          /\ frames_left' = (IF flushing THEN frames_left - 1 ELSE 0)
          /\ nsamples' = nsamples /\ CopyOut(bufBytes)
      BY <1>8, <2>2 DEF FrameCopied
    <3>2. mf_size' \in Nat
      BY <2>1, <3>1, SamplesAreNumbers
    <3>3. room' \in Int
      BY <1>0, <2>2, <3>1 DEF CopyOut
    <3> QED
      BY <2>1, <3>1, <3>2, <3>3, SamplesAreNumbers
  <2>3. CASE ~Fits(bufBytes)
    <3>1. Leave(FALSE) /\ UNCHANGED <<mf_size, lead>>
          /\ mf_samples_to_encode' = (IF flushing THEN 0 ELSE mf_samples_to_encode)
      BY <1>8, <2>3 DEF FrameCopied
    <3>2. at' = "out" /\ nsamples' = 0 /\ room' = 0 /\ frames_left' = 0
      BY <3>1, LeavingKeepsFlags
    <3> QED
      BY <2>1, <3>1, <3>2
  <2> QED
    BY <2>2, <2>3
<1>9. CASE EncodeReturns
  <2>1. UNCHANGED <<mf_size, mf_samples_to_encode, lead, zeros, slot_lag, end_padding>>
    BY <1>9 DEF EncodeReturns, sampleVars
  <2>2. CASE flushing
    <3>1. at' = "bunch" /\ UNCHANGED <<nsamples, room, frames_left>>
      BY <1>9, <2>2 DEF EncodeReturns
    <3> QED
      BY <2>1, <3>1
  <2>3. CASE ~flushing
    <3>1. Leave(TRUE)
      BY <1>9, <2>3 DEF EncodeReturns
    <3>2. at' = "out" /\ nsamples' = 0 /\ room' = 0 /\ frames_left' = 0
      BY <3>1, LeavingKeepsFlags
    <3> QED
      BY <2>1, <3>2
  <2> QED
    BY <2>2, <2>3
<1>10. CASE Bunch
  <2>1. UNCHANGED <<mf_size, lead, zeros, slot_lag, end_padding>> /\ at = "bunch"
    BY <1>10 DEF Bunch
  <2>2. CASE Fits(bufBytes)
    <3>1. /\ CopyOut(bufBytes) /\ at' = "fill"
          /\ UNCHANGED <<mf_samples_to_encode, frames_left>>
          /\ nsamples' = IF Min(MFNeeded - mf_size, MaxBunch) < 1 THEN 1 ELSE Min(MFNeeded - mf_size, MaxBunch)
      BY <1>10, <2>2 DEF Bunch
    <3>2. nsamples' \in Nat
      BY <3>1, SamplesAreNumbers DEF Min
    <3>3. room' \in Int
      BY <1>0, <2>2, <3>1 DEF CopyOut
    <3> QED
      BY <2>1, <3>1, <3>2, <3>3
  <2>3. CASE ~Fits(bufBytes)
    <3>1. Leave(FALSE) /\ mf_samples_to_encode' = 0
      BY <1>10, <2>3 DEF Bunch
    <3>2. at' = "out" /\ nsamples' = 0 /\ room' = 0 /\ frames_left' = 0
      BY <3>1, LeavingKeepsFlags
    <3> QED
      BY <2>1, <3>1, <3>2
  <2> QED
    BY <2>2, <2>3
<1>11. CASE FlushStream
  BY <1>11 DEF FlushStream
<1>12. CASE FlushCopied
  <2>1. /\ UNCHANGED <<mf_size, mf_samples_to_encode, lead, zeros, slot_lag, end_padding>>
        /\ Leave(Fits(bufBytes))
    BY <1>12 DEF FlushCopied, sampleVars
  <2>2. Fits(bufBytes) \in BOOLEAN
    BY DEF Fits
  <2>3. at' = "out" /\ nsamples' = 0 /\ room' = 0 /\ frames_left' = 0
    BY <2>1, <2>2, LeavingKeepsFlags
  <2> QED
    BY <2>1, <2>3
<1> QED
  BY <1>1, <1>2, <1>3, <1>4, <1>5, <1>6, <1>7, <1>8, <1>9, <1>10, <1>11, <1>12 DEF LameNext

\* A stream whose last bit of main data is out has no header pending.
LEMMA NothingPending ==
  ASSUME StreamInv, pc = "done", main_data_begin = 0
  PROVE  pending = <<>> /\ totbit = nextTiming
<1> USE DEF StreamInv
<1>1. /\ nextTiming \in Int /\ totbit \in Int /\ Len(pending) \in Nat /\ SideInfo \in Nat
      /\ pending \in Seq(HeaderSet) /\ frameBits \in Nat
  BY ConstantsAreNumbers DEF TypeInv
<1>2. Backlog = 0
  BY DEF BacklogInv
<1>3. pending = <<>>
  <2> SUFFICES ASSUME pending # <<>>
               PROVE  FALSE
    OBVIOUS
  <2>1. PICK n \in Nat : n = Len(pending) /\ n >= 1 /\ n \in 1..Len(pending)
    BY <1>1
  <2>2. pending[n].timing = nextTiming - frameBits /\ HeaderAt(n) >= 0
    BY <2>1 DEF HeaderInv
  <2>3. PICK b \in Int : b = SideInfo * (n - 1) /\ SideInfo * n = b + SideInfo
    BY <1>1, <2>1
  <2>4. HeaderAt(n) = nextTiming - frameBits - totbit - b
    BY <2>2, <2>3 DEF HeaderAt
  <2>5. nextTiming - totbit - (b + SideInfo) = 0
    BY <1>2, <2>1, <2>3 DEF Backlog
  <2>6. frameBits >= LeastGap
    BY DEF FrameInv
  <2>7. LeastGap >= SideInfo + 8 /\ LeastGap \in Nat
    BY ConstantsAreNumbers
  <2>8. frameBits > SideInfo
    BY <1>1, <2>6, <2>7
  <2>9. nextTiming - frameBits - totbit - b >= 0
    BY <2>2, <2>4
  <2> QED
    BY <1>1, <2>3, <2>5, <2>8, <2>9
<1>4. SideInfo * Len(pending) = 0
  BY <1>1, <1>3
<1> QED
  BY <1>1, <1>2, <1>3, <1>4 DEF Backlog

\* A fresh encoder, and one that is closed.
LEMMA RenewedIsFed ==
  ASSUME FlagsInv, NEW tag \in Nat, Renew(tag), at = "out"
  PROVE  SampleInv'
<1>1. /\ mf_size' = ENCDELAY - MDCTDELAY /\ mf_samples_to_encode' = ENCDELAY + POSTDELAY
      /\ lead' = 0 /\ zeros' = 0 /\ flushed' = FALSE /\ at' = "out" /\ flushing' = flushing
  BY DEF Renew
<1>2. ~flushing
  BY DEF FlagsInv
<1>3. Fed'
  BY <1>1, SamplesAreNumbers DEF Fed, Start
<1>4. FeedInv'
  BY <1>1, <1>2, <1>3 DEF FeedInv
<1>5. mf_size' < MFNeeded
  BY <1>1, SamplesAreNumbers
<1> QED
  BY <1>1, <1>4, <1>5 DEF SampleInv

LEMMA FailureIsExempt ==
  ASSUME FlagsInv, Leave(FALSE)
  PROVE  SampleInv'
<1>1. failed' = TRUE
  BY LeavingKeepsFlags, Zenon
<1> QED
  BY <1>1 DEF SampleInv

LEMMA SamplesLeftAlone ==
  ASSUME SampleInv, UNCHANGED <<sampleVars, at, flushing, nsamples, frames_left, end_padding, flushed, failed>>,
         at # "out"
  PROVE  SampleInv'
<1>1. UNCHANGED <<mf_size, mf_samples_to_encode, lead, zeros>>
  BY DEF sampleVars
<1> SUFFICES ASSUME ~failed
             PROVE  SampleInv'
  BY DEF SampleInv
<1>2. FeedInv'
  BY <1>1 DEF SampleInv, FeedInv, AtRest, Fed, Start, Ended
<1> QED
  BY <1>1, <1>2 DEF SampleInv

LEMMA SamplesStutter ==
  ASSUME SampleInv, UNCHANGED <<streamVars, sampleVars, callVars, outcomeVars>>
  PROVE  SampleInv'
<1>1. UNCHANGED <<mf_size, mf_samples_to_encode, lead, zeros, at, flushing, nsamples, frames_left,
                  end_padding, flushed, failed, pending, totbit, nextTiming, bufBytes>>
  BY DEF sampleVars, callVars, outcomeVars, streamVars, bitVars
<1> SUFFICES ASSUME ~failed
             PROVE  SampleInv'
  BY <1>1 DEF SampleInv
<1>2. FeedInv'
  BY <1>1 DEF SampleInv, FeedInv, AtRest, Fed, Start, Ended
<1>3. flushed' => Ended'
  BY <1>1 DEF SampleInv, Ended, AtRest
<1> QED
  BY <1>1, <1>2, <1>3 DEF SampleInv

LEMMA FillingKeepsSamples ==
  ASSUME FlagsInv, CallInv, SampleInv, FillBuffer
  PROVE  SampleInv'
<1>1. PICK n \in Nat : n = Min(FrameSamples, nsamples) /\ n <= nsamples /\ n <= FrameSamples /\ n > 0
  BY SamplesAreNumbers DEF Min, CallInv, FillBuffer
<1>2. /\ mf_size' = mf_size + n /\ nsamples' = nsamples - n
      /\ mf_samples_to_encode'
           = (IF mf_samples_to_encode < 1 THEN ENCDELAY + POSTDELAY ELSE mf_samples_to_encode) + n
      /\ lead' = (IF mf_samples_to_encode < 1 THEN 0 ELSE lead) + (IF flushing THEN 0 ELSE n)
      /\ zeros' = (IF flushing THEN zeros + n ELSE 0)
      /\ at = "fill" /\ nsamples > 0 /\ UNCHANGED <<flushing, frames_left, end_padding, flushed, failed>>
      /\ at' = IF mf_size + n > MFSIZE THEN "crash" ELSE IF mf_size + n >= MFNeeded THEN "frame" ELSE "fill"
  BY <1>1 DEF FillBuffer, Taken, outcomeVars
<1>3. /\ nsamples \in Nat /\ mf_size \in Nat /\ zeros \in Nat /\ mf_samples_to_encode \in Int /\ lead \in Int
  BY DEF CallInv
<1> SUFFICES ASSUME ~failed
             PROVE  SampleInv'
  BY <1>2 DEF SampleInv
<1>4. mf_size < MFNeeded /\ FeedInv /\ ~flushed
  BY <1>2 DEF SampleInv
<1>5. at' \in {"frame", "fill"} /\ (at' = "fill" <=> mf_size' < MFNeeded) /\ mf_size' < MFNeeded + FrameSamples
  <2>1. mf_size + n <= MFSIZE
    BY <1>1, <1>3, <1>4, SamplesAreNumbers
  <2> QED
    BY <1>1, <1>2, <1>3, <1>4, <2>1, SamplesAreNumbers
<1>6. FeedInv'
  <2>1. CASE ~flushing
    <3>1. Fed' /\ zeros' = 0
      <4>1. CASE AtRest
        <5>1. mf_samples_to_encode = 0 /\ mf_size = MFNeeded - FrameSamples
          BY <4>1 DEF AtRest
        <5>2. mf_samples_to_encode' = ENCDELAY + POSTDELAY + n /\ lead' = n /\ zeros' = 0
          BY <1>2, <2>1, <5>1, SamplesAreNumbers
        <5> QED
          BY <1>1, <1>2, <5>1, <5>2, SamplesAreNumbers DEF Fed, Start
      <4>2. CASE Fed /\ zeros = 0
        <5>1. mf_samples_to_encode >= 1
          BY <4>2, FedIsOpen
        <5>2. mf_samples_to_encode' = mf_samples_to_encode + n /\ lead' = lead + n /\ zeros' = 0
          BY <1>2, <1>3, <2>1, <5>1
        <5> QED
          BY <1>1, <1>2, <1>3, <4>2, <5>2, SamplesAreNumbers DEF Fed, Start
      <4> QED
        BY <1>4, <2>1, <4>1, <4>2 DEF FeedInv
    <3> QED
      BY <1>2, <1>5, <2>1, <3>1 DEF FeedInv
  <2>2. CASE flushing
    <3>1. /\ Fed /\ frames_left \in Nat /\ ENCDELAY + lead + end_padding = FrameSamples * frames_left
          /\ end_padding >= Granule /\ mf_size + nsamples <= MFNeeded /\ frames_left # 0
      BY <1>2, <1>4, <2>2 DEF FeedInv
    <3>2. mf_samples_to_encode >= 1
      BY <3>1, FedIsOpen
    <3>3. mf_samples_to_encode' = mf_samples_to_encode + n /\ lead' = lead /\ zeros' = zeros + n
      BY <1>2, <1>3, <2>2, <3>2
    <3>4. Fed'
      <4>1. Start' = Start
        BY <1>1, <1>2, <1>3, <3>3 DEF Start
      <4>2. mf_size' >= Start \/ mf_size' >= MFNeeded - FrameSamples
        <5>1. PICK c \in Int, d \in Int : c = Start /\ d = MFNeeded - FrameSamples
          BY <1>3, SamplesAreNumbers DEF Start
        <5>2. mf_size >= c \/ mf_size >= d
          BY <3>1, <5>1 DEF Fed
        <5> QED
          BY <1>2, <1>3, <5>1, <5>2
      <4>3. mf_samples_to_encode' = ENCDELAY + POSTDELAY + lead' + zeros'
        BY <1>3, <3>1, <3>3, SamplesAreNumbers DEF Fed
      <4> QED
        BY <3>1, <4>1, <4>2, <4>3 DEF Fed
    <3>5. mf_size' + nsamples' <= MFNeeded
      BY <1>1, <1>2, <1>3, <3>1
    <3>6. at' = "frame" => mf_size' = MFNeeded /\ nsamples' = 0
      <4>1. PICK a \in Nat, b \in Nat, m \in Nat : a = mf_size' /\ b = nsamples' /\ m = MFNeeded
        BY <1>1, <1>2, <1>3, SamplesAreNumbers
      <4>2. at' = "frame" => ~(a < m)
        BY <1>5, <4>1
      <4>3. a + b <= m
        BY <3>5, <4>1
      <4>4. at' = "frame" => a = m /\ b = 0
        BY <4>2, <4>3
      <4> QED
        BY <4>1, <4>4
    <3>7. ENCDELAY + lead' + end_padding' = FrameSamples * frames_left'
      BY <1>2, <3>1, <3>3
    <3> QED
      BY <1>2, <1>5, <2>2, <3>1, <3>4, <3>5, <3>6, <3>7 DEF FeedInv
  <2> QED
    BY <2>1, <2>2
<1> QED
  BY <1>2, <1>4, <1>5, <1>6 DEF SampleInv

LEMMA EncodingKeepsSamples ==
  ASSUME FlagsInv, CallInv, SampleInv, NEW n \in CallSamples, NEW size \in ArraySizes, lameEncode(n, size)
  PROVE  SampleInv'
<1>1. CASE bufBytes > size
  BY <1>1, FailureIsExempt DEF lameEncode
<1>2. CASE ~(bufBytes > size)
  <2>1. /\ at = "out" /\ at' = "fill" /\ flushed' = FALSE
        /\ UNCHANGED <<flushing, frames_left, failed, mf_size, mf_samples_to_encode, lead, zeros, end_padding>>
    BY <1>2 DEF lameEncode, sampleVars
  <2>2. ~flushing
    BY <2>1 DEF FlagsInv
  <2> SUFFICES ASSUME ~failed
               PROVE  SampleInv'
    BY <2>1 DEF SampleInv
  <2>3. FeedInv'
    BY <2>1, <2>2 DEF SampleInv, FeedInv, AtRest, Fed, Start
  <2> QED
    BY <2>1, <2>3 DEF SampleInv
<1> QED
  BY <1>1, <1>2

LEMMA BeginningAFlushKeepsSamples ==
  ASSUME FlagsInv, CallInv, SampleInv, NEW size \in ArraySizes, lameFlush(size)
  PROVE  SampleInv'
<1>1. PICK samples \in Int : samples = mf_samples_to_encode - POSTDELAY
  BY SamplesAreNumbers DEF CallInv
<1>2. /\ at = "out" /\ mf_samples_to_encode >= 1 /\ end_padding' = EndPadding(samples)
      /\ frames_left' = (samples + EndPadding(samples)) \div FrameSamples
      /\ at' = "bunch" /\ flushing' = TRUE /\ flushed' = FALSE
      /\ UNCHANGED <<mf_size, mf_samples_to_encode, lead, zeros, nsamples, failed>>
  BY <1>1 DEF lameFlush, sampleVars
<1>3. PICK p \in Nat, q \in Int :
        /\ p = EndPadding(samples) /\ q = (samples + EndPadding(samples)) \div FrameSamples
        /\ p >= Granule /\ samples + p = FrameSamples * q
  BY PaddedToFrames
<1> SUFFICES ASSUME ~failed
             PROVE  SampleInv'
  BY <1>2 DEF SampleInv
<1>4. ~flushing /\ mf_size < MFNeeded /\ FeedInv
  BY <1>2 DEF SampleInv, FlagsInv
<1>5. Fed /\ zeros = 0
  BY <1>2, <1>4 DEF FeedInv, AtRest
<1>6. samples = ENCDELAY + lead /\ samples >= 0
  <2>1. mf_samples_to_encode = ENCDELAY + POSTDELAY + lead + zeros /\ lead \in Int
    BY <1>5 DEF Fed, CallInv
  <2>2. ENCDELAY + lead >= 0
    BY <1>5, FedIsOpen
  <2> QED
    BY <1>1, <1>5, <2>1, <2>2, SamplesAreNumbers
<1>7. q \in Nat /\ q # 0
  <2>1. PICK g \in Nat, f \in Nat : g = Granule /\ g > 0 /\ f = FrameSamples /\ f > 0
    BY SamplesAreNumbers
  <2>2. f * q > 0
    BY <1>3, <1>6, <2>1
  <2> QED
    BY <2>1, <2>2
<1>8. FeedInv'
  <2>1. Fed'
    BY <1>2, <1>5 DEF Fed, Start
  <2>2. ENCDELAY + lead + p = FrameSamples * q
    BY <1>3, <1>6
  <2>3. nsamples' = 0
    BY <1>2 DEF CallInv
  <2> QED
    BY <1>2, <1>3, <1>7, <2>1, <2>2, <2>3 DEF FeedInv
<1> QED
  BY <1>2, <1>4, <1>8 DEF SampleInv

LEMMA FramesKeepSamples ==
  ASSUME FlagsInv, CallInv, SampleInv, EncodeFrame
  PROVE  SampleInv'
<1>1. /\ at = "frame" /\ at' = "stream"
      /\ UNCHANGED <<mf_size, mf_samples_to_encode, lead, zeros, flushing, nsamples, frames_left, end_padding>>
      /\ UNCHANGED <<flushed, failed>>
  BY DEF EncodeFrame, sampleVars, outcomeVars
<1> SUFFICES ASSUME ~failed
             PROVE  SampleInv'
  BY <1>1 DEF SampleInv
<1>2. FeedInv'
  BY <1>1 DEF SampleInv, FeedInv, AtRest, Fed, Start
<1> QED
  BY <1>1, <1>2 DEF SampleInv

LEMMA CopyingAFrameKeepsSamples ==
  ASSUME FlagsInv, CallInv, SampleInv, FrameCopied
  PROVE  SampleInv'
<1>1. CASE ~Fits(bufBytes)
  BY <1>1, FailureIsExempt DEF FrameCopied
<1>2. CASE Fits(bufBytes)
  <2>1. /\ at = "stream" /\ at' = "fill" /\ mf_size' = mf_size - FrameSamples /\ lead' = lead - FrameSamples
        /\ mf_samples_to_encode' = mf_samples_to_encode - FrameSamples
        /\ frames_left' = (IF flushing THEN frames_left - 1 ELSE 0)
        /\ UNCHANGED <<flushing, nsamples, flushed, failed, end_padding, zeros>>
    BY <1>2 DEF FrameCopied
  <2>2. /\ nsamples \in Nat /\ mf_size \in Nat /\ zeros \in Nat /\ mf_samples_to_encode \in Int
        /\ lead \in Int /\ mf_size >= MFNeeded /\ end_padding \in Nat
    BY <2>1 DEF CallInv
  <2> SUFFICES ASSUME ~failed
               PROVE  SampleInv'
    BY <2>1 DEF SampleInv
  <2>3. mf_size < MFNeeded + FrameSamples /\ FeedInv /\ ~flushed
    BY <2>1 DEF SampleInv
  <2>4. Fed /\ (~flushing => zeros = 0)
    <3>1. ~AtRest
      BY <2>2, SamplesAreNumbers DEF AtRest
    <3> QED
      BY <2>1, <2>3, <3>1 DEF FeedInv
  <2>5. Fed'
    <3>1. Start' = Start
      BY <2>1, <2>2, SamplesAreNumbers DEF Start
    <3>2. mf_samples_to_encode' = ENCDELAY + POSTDELAY + lead' + zeros'
      BY <2>1, <2>2, <2>4, SamplesAreNumbers DEF Fed
    <3>3. mf_size' >= MFNeeded - FrameSamples
      BY <2>1, <2>2, SamplesAreNumbers
    <3> QED
      BY <2>4, <3>1, <3>2, <3>3 DEF Fed
  <2>6. FeedInv'
    <3>1. CASE ~flushing
      BY <2>1, <2>4, <2>5, <3>1 DEF FeedInv
    <3>2. CASE flushing
      <4>1. /\ frames_left \in Nat /\ ENCDELAY + lead + end_padding = FrameSamples * frames_left
            /\ end_padding >= Granule /\ mf_size = MFNeeded /\ nsamples = 0 /\ frames_left # 0
        BY <2>1, <2>3, <3>2 DEF FeedInv
      <4>2. frames_left' = frames_left - 1 /\ frames_left' \in Nat
        BY <2>1, <3>2, <4>1
      <4>3. ENCDELAY + lead' + end_padding' = FrameSamples * frames_left'
        <5>1. PICK a \in Int, f \in Nat : a = FrameSamples * frames_left /\ f = FrameSamples
          BY <4>1, SamplesAreNumbers
        <5>2. FrameSamples * (frames_left - 1) = a - f
          BY <4>1, <5>1
        <5>3. ENCDELAY + (lead - f) + end_padding = a - f
          BY <2>2, <4>1, <5>1, SamplesAreNumbers
        <5> QED
          BY <2>1, <4>2, <5>1, <5>2, <5>3
      <4>4. mf_size' = MFNeeded - FrameSamples /\ mf_size' + nsamples' <= MFNeeded
        BY <2>1, <4>1, SamplesAreNumbers
      <4>5. nsamples' = 0 /\ end_padding' >= Granule /\ at' = "fill" /\ flushing'
        BY <2>1, <3>2, <4>1
      <4> QED
        BY <2>5, <4>2, <4>3, <4>4, <4>5 DEF FeedInv
    <3> QED
      BY <3>1, <3>2
  <2>7. mf_size' < MFNeeded
    BY <2>1, <2>2, <2>3, SamplesAreNumbers
  <2> QED
    BY <2>1, <2>3, <2>6, <2>7 DEF SampleInv
<1> QED
  BY <1>1, <1>2

LEMMA ReturningKeepsSamples ==
  ASSUME FlagsInv, CallInv, SampleInv, EncodeReturns
  PROVE  SampleInv'
<1>1. /\ at = "fill" /\ nsamples = 0
      /\ UNCHANGED <<mf_size, mf_samples_to_encode, lead, zeros, end_padding>>
  BY DEF EncodeReturns, sampleVars
<1>2. CASE flushing
  <2>1. at' = "bunch" /\ UNCHANGED <<flushing, nsamples, frames_left, failed, flushed>>
    BY <1>2 DEF EncodeReturns
  <2> SUFFICES ASSUME ~failed
               PROVE  SampleInv'
    BY <2>1 DEF SampleInv
  <2>2. FeedInv'
    BY <1>1, <1>2, <2>1 DEF SampleInv, FeedInv, AtRest, Fed, Start
  <2> QED
    BY <1>1, <2>1, <2>2 DEF SampleInv
<1>3. CASE ~flushing
  <2>1. Leave(TRUE)
    BY <1>3 DEF EncodeReturns
  <2>2. at' = "out" /\ flushing' = FALSE
    BY <2>1, LeavingKeepsFlags
  <2>3. failed' = failed /\ flushed' = FALSE
    BY <1>3, <2>1, LeavingKeepsFlags, Zenon DEF FlagsInv
  <2> SUFFICES ASSUME ~failed
               PROVE  SampleInv'
    BY <2>3 DEF SampleInv
  <2>4. FeedInv'
    BY <1>1, <1>3, <2>2 DEF SampleInv, FeedInv, AtRest, Fed, Start
  <2> QED
    BY <1>1, <2>2, <2>3, <2>4 DEF SampleInv
<1> QED
  BY <1>2, <1>3

LEMMA BunchesKeepSamples ==
  ASSUME FlagsInv, CallInv, SampleInv, Bunch
  PROVE  SampleInv'
<1>1. CASE ~Fits(bufBytes)
  BY <1>1, FailureIsExempt DEF Bunch
<1>2. CASE Fits(bufBytes)
  <2>1. PICK bunch \in Int : bunch = Min(MFNeeded - mf_size, MaxBunch) /\ bunch <= MFNeeded - mf_size
    <3>1. PICK a \in Int, b \in Int : a = MFNeeded - mf_size /\ b = MaxBunch
      BY SamplesAreNumbers DEF CallInv
    <3>2. Min(a, b) \in Int /\ Min(a, b) <= a
      BY <3>1 DEF Min
    <3> QED
      BY <3>1, <3>2
  <2>2. /\ at = "bunch" /\ frames_left > 0 /\ at' = "fill" /\ nsamples' = (IF bunch < 1 THEN 1 ELSE bunch)
        /\ UNCHANGED <<mf_samples_to_encode, flushing, frames_left, flushed, failed>>
        /\ UNCHANGED <<mf_size, lead, zeros, end_padding>>
    BY <1>2, <2>1 DEF Bunch
  <2> SUFFICES ASSUME ~failed
               PROVE  SampleInv'
    BY <2>2 DEF SampleInv
  <2>3. mf_size < MFNeeded /\ FeedInv /\ ~flushed /\ flushing
    BY <2>2 DEF SampleInv, FeedInv
  <2>4. mf_size' + nsamples' <= MFNeeded
    <3>1. PICK m \in Nat, n \in Nat : m = MFNeeded /\ n = mf_size /\ n < m
      BY <2>3, SamplesAreNumbers DEF CallInv
    <3>2. n + (IF bunch < 1 THEN 1 ELSE bunch) <= m
      BY <2>1, <3>1
    <3> QED
      BY <2>2, <3>1, <3>2
  <2>5. FeedInv'
    BY <2>2, <2>3, <2>4 DEF FeedInv, Fed, Start
  <2> QED
    BY <2>2, <2>3, <2>5 DEF SampleInv
<1> QED
  BY <1>1, <1>2

LEMMA EndingAFlushKeepsSamples ==
  ASSUME FlagsInv, CallInv, SampleInv, FlushStream
  PROVE  SampleInv'
<1>1. /\ at = "bunch" /\ frames_left <= 0 /\ mf_samples_to_encode' = 0 /\ at' = "flush"
      /\ UNCHANGED <<mf_size, lead, zeros, flushing, nsamples, frames_left, end_padding, flushed, failed>>
  BY DEF FlushStream, outcomeVars
<1> SUFFICES ASSUME ~failed
             PROVE  SampleInv'
  BY <1>1 DEF SampleInv
<1>2. FeedInv /\ ~flushed /\ flushing
  BY <1>1 DEF SampleInv, FeedInv
<1>3. /\ Fed /\ frames_left \in Nat /\ ENCDELAY + lead + end_padding = FrameSamples * frames_left
      /\ end_padding >= Granule
      /\ frames_left = 0 => mf_size = MFNeeded - FrameSamples
  BY <1>1, <1>2 DEF FeedInv
<1>4. /\ mf_size \in Nat /\ zeros \in Nat /\ lead \in Int /\ end_padding \in Nat
  BY DEF CallInv
<1>5. mf_size = MFNeeded - FrameSamples /\ ENCDELAY + lead + end_padding = 0
  <2>1. frames_left = 0
    BY <1>1, <1>3
  <2>2. FrameSamples * frames_left = 0
    BY <2>1, SamplesAreNumbers
  <2> QED
    BY <1>3, <2>1, <2>2
<1>6. mf_size + Granule \div 2 <= zeros
  <2>1. PICK c \in Int, g \in Int : c = mf_size - lead - zeros /\ g = Granule \div 2
    BY <1>4, SamplesAreNumbers
  <2>2. c <= ENCDELAY + g
    <3>1. c \in {ENCDELAY - MDCTDELAY, MFNeeded - FrameSamples}
      BY <1>3, <2>1 DEF Fed, Start
    <3>2. g >= 0 /\ ENCDELAY \in Nat /\ MDCTDELAY \in Nat /\ MFNeeded - FrameSamples <= ENCDELAY + g
      BY <2>1, SamplesAreNumbers
    <3> QED
      BY <3>1, <3>2
  <2>3. 2 * g <= Granule
    BY <2>1, SamplesAreNumbers
  <2> QED
    BY <1>3, <1>4, <1>5, <2>1, <2>2, <2>3, SamplesAreNumbers
<1>7. Ended'
  BY <1>1, <1>5, <1>6 DEF Ended, AtRest
<1>8. FeedInv'
  BY <1>1, <1>2, <1>7 DEF FeedInv
<1>9. mf_size < MFNeeded
  BY <1>1 DEF SampleInv
<1> QED
  BY <1>1, <1>2, <1>8, <1>9 DEF SampleInv

LEMMA ReturningFromAFlushKeepsSamples ==
  ASSUME LameStreamInv, FlagsInv, CallInv, SampleInv, FlushCopied
  PROVE  SampleInv'
<1>1. CASE ~Fits(bufBytes)
  <2>1. Fits(bufBytes) = FALSE
    BY <1>1 DEF Fits
  <2> QED
    BY <2>1, FailureIsExempt DEF FlushCopied
<1>2. CASE Fits(bufBytes)
  <2>1. Leave(TRUE)
    <3>1. Fits(bufBytes) = TRUE
      BY <1>2 DEF Fits
    <3> QED
      BY <3>1 DEF FlushCopied
  <2>2. at' = "out" /\ flushing' = FALSE
    BY <2>1, LeavingKeepsFlags
  <2>3. failed' = failed
    BY <2>1, LeavingKeepsFlags, Zenon DEF FlagsInv
  <2>4. /\ at = "flush" /\ pc \in {"done", "idle"} /\ bufBytes' = 0
        /\ UNCHANGED <<mf_size, mf_samples_to_encode, lead, zeros, end_padding, pending, totbit, nextTiming>>
    BY <1>2 DEF FlushCopied, sampleVars
  <2>5. pending = <<>> /\ totbit = nextTiming
    BY <2>4, NothingPending DEF LameStreamInv, PlaceInv
  <2> SUFFICES ASSUME ~failed
               PROVE  SampleInv'
    BY <2>3 DEF SampleInv
  <2>6. Ended /\ mf_size < MFNeeded
    BY <2>4 DEF SampleInv, FeedInv
  <2>7. Ended'
    BY <2>4, <2>6 DEF Ended, AtRest
  <2>8. FeedInv'
    BY <2>2, <2>7 DEF FeedInv, Ended
  <2> QED
    BY <2>2, <2>4, <2>5, <2>6, <2>7, <2>8 DEF SampleInv
<1> QED
  BY <1>1, <1>2

LEMMA SamplesAreKept ==
  ASSUME LameInv, [LameNext]_lameVars
  PROVE  SampleInv'
<1> USE DEF LameInv
<1>1. ASSUME NEW tag \in TagBytes, NEW ok \in BOOLEAN, lameInit(tag, ok)
      PROVE  SampleInv'
  <2>1. PICK bytes \in Nat : bytes = IF ok THEN tag ELSE 0
    BY CallersAssumption
  <2>2. Renew(bytes) /\ at = "out"
    BY <1>1, <2>1 DEF lameInit
  <2> QED
    BY <2>2, RenewedIsFed
<1>2. CASE lameClose
  <2>1. Renew(0) /\ at = "out"
    BY <1>2 DEF lameClose
  <2> QED
    BY <2>1, RenewedIsFed
<1>3. CASE StreamStep
  <2>1. at # "out" /\ UNCHANGED <<sampleVars, callVars, outcomeVars>>
    BY <1>3 DEF StreamStep
  <2> QED
    BY <2>1, SamplesLeftAlone DEF callVars, outcomeVars
<1>4. CASE UNCHANGED lameVars
  BY <1>4, SamplesStutter DEF lameVars
<1> QED
  BY <1>1, <1>2, <1>3, <1>4, EncodingKeepsSamples, BeginningAFlushKeepsSamples, FillingKeepsSamples,
     FramesKeepSamples, CopyingAFrameKeepsSamples, ReturningKeepsSamples, BunchesKeepSamples,
     EndingAFlushKeepsSamples, ReturningFromAFlushKeepsSamples DEF LameNext

LEMMA CallsAreKept ==
  ASSUME LameInv, [LameNext]_lameVars
  PROVE  LameInv'
<1>1. LameStreamInv' /\ SampleInv'
  BY EncoderKeepsStream, SamplesAreKept DEF LameInv
<1>2. CASE LameNext
  BY <1>1, <1>2, FlagsAreBooleans, CallsAreTyped DEF LameInv
<1>3. CASE UNCHANGED lameVars
  <2>1. FlagsInv' /\ CallInv'
    BY <1>3 DEF LameInv, FlagsInv, CallInv, lameVars, callVars, sampleVars, outcomeVars
  <2> QED
    BY <1>1, <2>1 DEF LameInv
<1> QED
  BY <1>2, <1>3

THEOREM EncoderIsKept == LameSpec => []LameInv
<1>1. NoEncoder => LameInv
  BY EncoderStarts, CallsStart DEF LameInv
<1> QED
  BY <1>1, CallsAreKept, PTL DEF LameSpec

LEMMA EndedIsFlushed ==
  ASSUME LameInv
  PROVE  FlushEndsStream
BY DEF LameInv, SampleInv, Ended, FlushEndsStream

\* For every frame length, delay and padding that the constants allow: a flush that went well, with
\* no failed call before it, has written every byte of every frame and handed it out, and the
\* frames hold every sample fed and the half granule after them that lame_encode_flush counts on.
THEOREM FlushAlwaysEnds == LameSpec => []FlushEndsStream
BY EncoderIsKept, EndedIsFlushed, PTL

LEMMA EncoderIsTyped ==
  ASSUME LameInv
  PROVE  LameTypeOK
<1>1. StreamTypeOK
  BY StreamIsTyped DEF LameInv, LameStreamInv
<1>2. {valid, flushing, flushed, small, failed, filled, overran} \subseteq BOOLEAN
  BY DEF LameInv, FlagsInv
<1> QED
  BY <1>1, <1>2 DEF LameInv, LameStreamInv, PlaceInv, CallInv, LameTypeOK

\* Type correctness of the whole encoder; the lag of the padding stays below the sampling rate.
THEOREM EncoderAlwaysTyped == LameSpec => []LameTypeOK
BY EncoderIsKept, EncoderIsTyped, PTL

-----------------------------------------------------------------------------
(* The room in the arrays.                                                 *)

\* The frame at hand has its header, so that what it comes to is known.
Done == IF at = "stream" /\ pc \in {"main", "post", "done"} THEN 1 ELSE 0
\* The bits that are in the buffer or that the frames begun so far have still to write.
Owed == 8 * bufBytes - bitIdx + nextTiming - totbit
\* q frames are still to be begun before the call returns.
ToCome(q) ==
  IF flushing THEN q = frames_left - Done
  ELSE mf_size + nsamples - FrameSamples * Done < MFNeeded + FrameSamples * q
Enough(q) == ToCome(q) /\ 8 * room >= Owed + 8 * LongestFrame * q + 8

\* Each frame still to be begun comes to the longest frame at most; a byte is to spare, so that the
\* array is never filled exactly and left unchecked.
RoomInv ==
  /\ overran => filled
  /\ at # "out" /\ room <= 0 => filled
  /\ at = "crash" => failed
  /\ frameBits <= 8 * LongestFrame
  /\ ~small =>
       /\ ~failed /\ ~filled
       /\ at \in {"out", "bunch", "fill", "frame"} => bufBytes <= MaxTagBytes
       /\ at # "out" => \E q \in Nat : Enough(q)

LEMMA RatesAreNumbers ==
  /\ LongestFrame \in Nat /\ MaxTagBytes \in Nat
  /\ \A r \in Rates : FrameBytes[r] \in Nat /\ FrameBytes[r] <= LongestFrame
  /\ FracSpF # 0 => FrameBytes[CbrRate] + 1 <= LongestFrame
<1>1. \A r \in Rates : FrameBytes[r] \in Nat /\ FrameBytes[r] <= FrameBytes[VbrMax]
  <2>1. ASSUME NEW r \in Rates
        PROVE  FrameBytes[r] \in Nat /\ FrameBytes[r] <= FrameBytes[VbrMax]
    BY RatesAssumption, FrameAssumption
  <2> QED
    BY <2>1
<1>2. FrameBytes[VbrMax] \in Nat /\ CbrRate \in Rates
  BY RatesAssumption, <1>1
<1> QED
  BY <1>1, <1>2, CallersAssumption DEF LongestFrame

\* As many headers wait as the main data behind them can keep apart.
LEMMA HeadersBehindTheReservoir ==
  ASSUME NEW n \in Nat, NEW d \in Nat, d > 0, NEW limit \in Nat, n * d <= limit
  PROVE  n <= limit \div d
<1>1. PICK k \in Int, r \in 0..d - 1 : limit = d * k + r /\ k = limit \div d
  OBVIOUS
<1>2. n * d < d * (k + 1)
  <2>1. d * (k + 1) = d * k + d
    BY <1>1
  <2>2. PICK a \in Int : a = d * k
    BY <1>1
  <2>3. limit = a + r /\ r < d /\ r \in Int
    BY <1>1, <2>2
  <2>4. PICK b \in Int : b = n * d
    OBVIOUS
  <2>5. b < a + d
    BY <2>3, <2>4
  <2> QED
    BY <2>1, <2>2, <2>4, <2>5
<1>3. ASSUME n > k
      PROVE  FALSE
  <2>1. PICK m \in Nat : n = k + 1 + m
    BY <1>1, <1>3
  <2>2. n * d = d * (k + 1) + m * d
    BY <1>1, <2>1
  <2>3. m * d >= 0 /\ m * d \in Int
    BY <2>1
  <2>4. PICK a \in Int, b \in Int, c \in Int : a = n * d /\ b = d * (k + 1) /\ c = m * d
    BY <1>1, <2>1
  <2> QED
    BY <1>2, <2>2, <2>3, <2>4
<1> QED
  BY <1>1, <1>3

HeaderBytes == sideinfo_len * (ResvLimit \div (8 * (MinFrameBytes - sideinfo_len)))

LEMMA HeaderBytesAreANumber == HeaderBytes \in Int
<1>1. PICK s \in Nat, d \in Nat : s = sideinfo_len /\ d = 8 * (MinFrameBytes - sideinfo_len) /\ d > 0
  BY FrameAssumption
<1>2. ResvLimit \div d \in Int
  BY <1>1, ConstantsAreNumbers
<1>3. s * (ResvLimit \div d) \in Int
  BY <1>1, <1>2
<1> QED
  BY <1>1, <1>3 DEF HeaderBytes

\* Between frames what is still to be written is the reservoir and the headers behind it.
LEMMA RestIsBounded ==
  ASSUME StreamInv, pc \in {"idle", "done"}
  PROVE  /\ bitIdx = 0 /\ Owed \in Int /\ Owed >= 8 * bufBytes
         /\ Owed <= 8 * bufBytes + ResvLimit + 8 * HeaderBytes
<1> USE DEF StreamInv
<1>1. /\ nextTiming \in Int /\ totbit \in Int /\ Len(pending) \in Nat /\ main_data_begin \in Nat
      /\ bitIdx \in 0..7 /\ bufBytes \in Nat /\ pending \in Seq(HeaderSet)
  BY DEF TypeInv
<1>2. SideInfo \in Nat /\ LeastGap \in Nat /\ ResvLimit \in Nat /\ SideInfo % 8 = 0
  BY ConstantsAreNumbers
<1>3. PICK n \in Nat, h \in Nat : n = Len(pending) /\ h = SideInfo * n /\ h % 8 = 0
  <2>1. PICK n \in Nat, s \in Nat : n = Len(pending) /\ s = sideinfo_len
    BY <1>1, FrameAssumption
  <2>2. SideInfo * n = 8 * (s * n) /\ s * n \in Nat
    BY <2>1 DEF SideInfo
  <2>3. PICK m \in Nat : m = s * n
    BY <2>2
  <2>4. (8 * m) % 8 = 0 /\ 8 * m \in Nat
    BY <2>3
  <2> QED
    BY <2>1, <2>2, <2>3, <2>4
<1>4. nextTiming - totbit = 8 * main_data_begin + h /\ 8 * main_data_begin <= ResvLimit
  <2>1. Backlog = 8 * main_data_begin
    BY DEF BacklogInv
  <2>2. 8 * main_data_begin <= ResvLimit
    BY DEF ReservoirInv
  <2> QED
    BY <1>1, <1>3, <2>1, <2>2 DEF Backlog
<1>5. bitIdx = 0
  <2>1. nextTiming % 8 = 0 /\ (totbit + bitIdx) % 8 = 0
    BY DEF HeaderInv
  <2>2. PICK a \in Int, b \in Int : nextTiming = 8 * a /\ h = 8 * b
    BY <1>1, <1>3, <2>1
  <2>3. totbit = 8 * (a - b - main_data_begin)
    BY <1>1, <1>4, <2>2
  <2> QED
    BY <1>1, <2>1, <2>2, <2>3
<1>6. Owed = 8 * bufBytes + 8 * main_data_begin + h
  BY <1>1, <1>3, <1>4, <1>5 DEF Owed
<1>7. n <= ResvLimit \div (8 * (MinFrameBytes - sideinfo_len))
  <2>1. PICK d \in Nat : d = 8 * (MinFrameBytes - sideinfo_len) /\ d > 0 /\ LeastGap = d + SideInfo
    BY FrameAssumption DEF LeastGap, SideInfo
  <2>2. n * d <= ResvLimit
    <3>1. CASE n = 0
      BY <1>2, <2>1, <3>1
    <3>2. CASE n # 0
      <4>1. 1 \in 1..Len(pending)
        BY <1>3, <3>2
      <4>2. /\ HeaderAt(1) >= 0
            /\ nextTiming >= pending[1].timing + LeastGap * (Len(pending) + 1 - 1)
        BY <4>1 DEF HeaderInv
      <4>3. pending[1].timing \in Int
        <5>1. pending[1] \in HeaderSet
          BY <1>1, <4>1
        <5> QED
          BY <5>1 DEF HeaderSet
      <4>4. pending[1].timing >= totbit
        <5>1. HeaderAt(1) = pending[1].timing - totbit - SideInfo * 0
          BY DEF HeaderAt
        <5> QED
          BY <1>1, <1>2, <4>2, <4>3, <5>1
      <4>5. Len(pending) + 1 - 1 = n
        BY <1>3
      <4>6. LeastGap * n = d * n + h /\ d * n \in Nat
        <5>1. PICK a \in Nat, g \in Nat : a = SideInfo /\ g = LeastGap /\ g = d + a
          BY <1>2, <2>1
        <5>2. g * n = d * n + a * n /\ d * n \in Nat
          <6>1. \A x, y, z \in Nat : (x + y) * z = x * z + y * z /\ x * z \in Nat
            OBVIOUS
          <6>2. (d + a) * n = d * n + a * n /\ d * n \in Nat
            BY <6>1
          <6> QED
            BY <5>1, <6>2
        <5>3. LeastGap * n = g * n
          BY <5>1
        <5>4. h = a * n
          BY <1>3, <5>1
        <5> QED
          BY <5>2, <5>3, <5>4
      <4>7. PICK g \in Nat, x \in Nat : g = LeastGap * n /\ x = d * n
        BY <1>2, <1>3, <4>6
      <4>8. nextTiming >= pending[1].timing + g
        BY <4>2, <4>5, <4>7
      <4>9. x <= ResvLimit
        BY <1>1, <1>2, <1>3, <1>4, <4>3, <4>4, <4>6, <4>7, <4>8
      <4> QED
        BY <2>1, <4>7, <4>9
    <3> QED
      BY <3>1, <3>2
  <2> QED
    BY <1>2, <2>1, <2>2, HeadersBehindTheReservoir
<1>8. h <= 8 * HeaderBytes /\ HeaderBytes \in Nat
  <2>1. PICK s \in Nat, m \in Int : s = sideinfo_len /\ m = ResvLimit \div (8 * (MinFrameBytes - sideinfo_len))
    BY <1>2, FrameAssumption
  <2>2. n <= m
    BY <1>7, <2>1
  <2>3. PICK k \in Nat : m = n + k
    BY <2>1, <2>2
  <2>4. s * m = s * n + s * k /\ s * k \in Nat /\ s * n \in Nat
    BY <2>1, <2>3
  <2>5. h = 8 * (s * n)
    BY <1>3, <2>1 DEF SideInfo
  <2>6. PICK x \in Nat, y \in Nat : x = s * n /\ y = s * k
    BY <2>4
  <2>7. HeaderBytes = x + y
    BY <2>1, <2>4, <2>6 DEF HeaderBytes
  <2> QED
    BY <2>5, <2>6, <2>7
<1> QED
  BY <1>1, <1>2, <1>3, <1>4, <1>5, <1>6, <1>8

\* The frames that flush_bitstream and the rounds of lame_encode_flush may need.
LEMMA PaddingIsBounded ==
  ASSUME NEW samples \in Int
  PROVE  EndPadding(samples) <= FrameSamples + Granule
<1>1. PICK f \in Nat, g \in Nat : f = FrameSamples /\ f > 0 /\ g = Granule
  BY SamplesAreNumbers
<1>2. samples % f \in 0..f - 1
  BY <1>1
<1> QED
  BY <1>1, <1>2 DEF EndPadding

LEMMA FlushFramesSuffice ==
  ASSUME CallInv, Fed, zeros = 0, mf_size < MFNeeded, NEW q \in Nat, NEW p \in Nat,
         p <= FrameSamples + Granule,
         mf_samples_to_encode - POSTDELAY + p = FrameSamples * q
  PROVE  q <= FlushFrames /\ FlushFrames \in Nat
<1>1. mf_size \in Nat /\ lead \in Int /\ mf_samples_to_encode \in Int
  BY DEF CallInv
<1>2. mf_samples_to_encode - POSTDELAY <= mf_size + MDCTDELAY
  <2>1. PICK c \in Int : c = mf_size - lead /\ c \in {ENCDELAY - MDCTDELAY, MFNeeded - FrameSamples}
    BY <1>1 DEF Fed, Start
  <2>2. c >= ENCDELAY - MDCTDELAY
    BY <2>1, SamplesAreNumbers
  <2>3. mf_samples_to_encode = ENCDELAY + POSTDELAY + lead
    BY <1>1, SamplesAreNumbers DEF Fed
  <2> QED
    BY <1>1, <2>1, <2>2, <2>3, SamplesAreNumbers
<1>3. PICK f \in Nat, l \in Nat : f = FrameSamples /\ f > 0
                                  /\ l = MFNeeded + MDCTDELAY + FrameSamples + Granule
  BY SamplesAreNumbers
<1>4. q * f <= l
  <2>1. PICK x \in Int : x = FrameSamples * q /\ x = q * f
    BY <1>3
  <2>2. x <= l
    BY <1>1, <1>2, <1>3, <2>1, SamplesAreNumbers
  <2> QED
    BY <2>1, <2>2
<1>5. q <= l \div f
  BY <1>3, <1>4, HeadersBehindTheReservoir
<1>6. l \div f \in Nat
  BY <1>3
<1> QED
  BY <1>3, <1>5, <1>6 DEF FlushFrames

LEMMA RoomTypes ==
  ASSUME LameStreamInv, CallInv
  PROVE  /\ bufBytes \in Nat /\ bitIdx \in 0..7 /\ nextTiming \in Int /\ totbit \in Int
         /\ frameBits \in Nat /\ room \in Int /\ Owed \in Int /\ Done \in {0, 1}
         /\ mf_size \in Nat /\ nsamples \in Nat /\ frames_left \in Int
<1>1. /\ bufBytes \in Nat /\ bitIdx \in 0..7 /\ nextTiming \in Int /\ totbit \in Int /\ frameBits \in Nat
  BY DEF LameStreamInv, StreamInv, TypeInv
<1>2. Owed \in Int
  BY <1>1 DEF Owed
<1> QED
  BY <1>1, <1>2 DEF CallInv, Done

\* With enough room whatever is in the buffer at the end of a frame fits, with a byte to spare.
LEMMA RoomIsLeft ==
  ASSUME LameStreamInv, CallInv, RoomInv, at # "out", pc \in {"idle", "done"}, ~small
  PROVE  bufBytes < room /\ Fits(bufBytes) /\ ~failed /\ ~filled
<1>1. PICK q \in Nat : Enough(q)
  BY DEF RoomInv
<1>2. Owed >= 8 * bufBytes /\ Owed \in Int
  BY RestIsBounded DEF LameStreamInv
<1>3. PICK w \in Nat : w = 8 * LongestFrame * q
  BY RatesAreNumbers
<1>4. 8 * room >= Owed + w + 8
  BY <1>1, <1>3 DEF Enough
<1>5. bufBytes < room
  BY <1>2, <1>3, <1>4, RoomTypes
<1> QED
  BY <1>5, RoomTypes DEF RoomInv, Fits

LEMMA CopyingKeepsRoom ==
  ASSUME LameStreamInv, FlagsInv, CallInv, RoomInv, at # "out", pc \in {"idle", "done"},
         Fits(bufBytes), CopyOut(bufBytes)
  PROVE  /\ overran' => filled'
         /\ room' <= 0 => filled'
         /\ ~small => ~filled' /\ room' = room - bufBytes /\ room' \in Nat
<1>1. bufBytes \in Nat /\ room \in Int
  BY RoomTypes
<1>0. /\ filled' = (filled \/ (bufBytes > 0 /\ bufBytes = room))
      /\ overran' = (overran \/ (bufBytes > 0 /\ room = 0))
      /\ room' = room - bufBytes
  BY DEF CopyOut
<1>5. room = 0 => room <= 0
  BY <1>1
<1>2. overran' => filled'
  BY <1>0, <1>5, Zenon DEF RoomInv
<1>3. ASSUME room' <= 0
      PROVE  filled'
  <2>1. CASE room <= 0
    BY <1>0, <2>1, Zenon DEF RoomInv
  <2>2. CASE ~(room <= 0)
    <3>1. bufBytes = room /\ bufBytes > 0
      BY <1>0, <1>1, <1>3, <2>2 DEF Fits
    <3> QED
      BY <1>0, <3>1, Zenon
  <2> QED
    BY <2>1, <2>2
<1>4. ASSUME ~small
      PROVE  ~filled' /\ room' = room - bufBytes /\ room' \in Nat
  <2>1. bufBytes < room /\ ~filled
    BY <1>4, RoomIsLeft
  <2>2. ~(bufBytes > 0 /\ bufBytes = room) /\ room # 0 /\ room - bufBytes \in Nat
    BY <1>1, <2>1
  <2>3. ~filled'
    BY <1>0, <2>1, <2>2, Zenon
  <2> QED
    BY <1>0, <2>2, <2>3
<1> QED
  BY <1>2, <1>3, <1>4

\* The copy takes what is in the buffer from what is owed and from the room alike.
LEMMA CopyingKeepsEnough ==
  ASSUME LameStreamInv, CallInv, pc \in {"idle", "done"}, NEW q \in Nat,
         8 * room >= Owed + 8 * LongestFrame * q + 8,
         room' = room - bufBytes, bufBytes' = 0, bitIdx' = 0, UNCHANGED <<totbit, nextTiming>>
  PROVE  8 * room' >= Owed' + 8 * LongestFrame * q + 8
<1>1. bitIdx = 0
  BY RestIsBounded DEF LameStreamInv
<1>2. Owed' = Owed - 8 * bufBytes
  BY <1>1, RoomTypes DEF Owed
<1>3. PICK w \in Nat : w = 8 * LongestFrame * q
  BY RatesAreNumbers
<1>4. room \in Int /\ bufBytes \in Nat /\ Owed \in Int
  BY RoomTypes
<1>5. 8 * room >= Owed + w + 8
  BY <1>3
<1>6. 8 * room' >= Owed' + w + 8
  BY <1>2, <1>4, <1>5
<1> QED
  BY <1>3, <1>6

\* A call that returns.
LEMMA LeavingKeepsRoom ==
  ASSUME FlagsInv, RoomInv, NEW ok \in BOOLEAN, Leave(ok), UNCHANGED <<small, frameBits>>,
         overran' => filled', ~small => ok /\ ~filled' /\ bufBytes' <= MaxTagBytes
  PROVE  RoomInv'
<1>1. at' = "out" /\ failed' = (failed \/ ~ok)
  BY LeavingKeepsFlags
<1>2. frameBits' <= 8 * LongestFrame'
  BY DEF RoomInv
<1>3. ASSUME ~small'
      PROVE  ~failed' /\ ~filled' /\ bufBytes' <= MaxTagBytes
  BY <1>1, <1>3 DEF RoomInv
<1> QED
  BY <1>1, <1>2, <1>3 DEF RoomInv

\* Only a header adds to what is owed, as much as the longest frame at most; then its frame is
\* no longer to come.
HeaderMade == at = "stream" /\ Done = 0 /\ Done' = 1 /\ Owed' = Owed + frameBits
OwedAsBefore == Owed' = Owed /\ Done' = Done

LEMMA StreamStepsKeepOwed ==
  ASSUME LameStreamInv, LameStreamInv', StreamStep
  PROVE  at' = at /\ frameBits' = frameBits /\ (OwedAsBefore \/ HeaderMade)
<1>1. at' = at /\ at \in {"stream", "flush"} /\ FrameStep
  BY DEF StreamStep, callVars
<1>2. /\ at = "stream" => pc \in {"granules", "pre", "main", "post", "done"}
      /\ at = "flush" => pc \in {"flush", "done"}
      /\ pc' # "overrun"
  BY DEF LameStreamInv, PlaceInv, StreamInv, ReservoirInv
<1>3. /\ bufBytes \in Nat /\ bitIdx \in 0..7 /\ nextTiming \in Int /\ totbit \in Int /\ todo \in Nat
      /\ dataBits \in Int
  BY DEF LameStreamInv, StreamInv, TypeInv
<1>4. ASSUME NEW bits \in Bits, EncodeGranule(bits)
      PROVE  frameBits' = frameBits /\ OwedAsBefore
  BY <1>1, <1>4 DEF EncodeGranule, bitVars, OwedAsBefore, Owed, Done
<1>5. CASE FrameEnd
  BY <1>1, <1>5 DEF FrameEnd, bitVars, OwedAsBefore, Owed, Done
<1>6. CASE PutBits
  <2>1. frameBits' = frameBits /\ nextTiming' = nextTiming
    BY <1>6 DEF PutBits, resvVars
  <2>2. pc' = pc
    BY <1>2, <1>6 DEF PutBits
  <2>3. PICK due \in BOOLEAN, f \in Nat, k \in Nat :
          /\ due = (bitIdx = 0 /\ FirstTiming = totbit)
          /\ f = (IF bitIdx = 0 THEN 8 ELSE bitIdx) /\ k = Min(todo, f)
    <3>1. PICK f \in Nat : f = (IF bitIdx = 0 THEN 8 ELSE bitIdx)
      BY <1>3
    <3>2. Min(todo, f) \in Nat
      BY <1>3, <3>1 DEF Min
    <3> QED
      BY <3>1, <3>2
  <2>4. /\ totbit' = totbit + (IF due THEN SideInfo ELSE 0) + k
        /\ bitIdx' = f - k
        /\ bufBytes' = bufBytes + (IF due THEN sideinfo_len ELSE 0) + (IF bitIdx = 0 THEN 1 ELSE 0)
    BY <1>6, <2>3 DEF PutBits
  <2>5. PICK s \in Nat : s = sideinfo_len /\ SideInfo = 8 * s
    BY FrameAssumption DEF SideInfo
  <2>6. Owed' = Owed
    <3>1. Owed' = 8 * bufBytes' - bitIdx' + nextTiming - totbit'
      BY <2>1 DEF Owed
    <3>2. PICK h \in Nat : h = (IF due THEN s ELSE 0) /\ (IF due THEN SideInfo ELSE 0) = 8 * h
      BY <2>5
    <3>3. totbit' = totbit + 8 * h + k /\ bufBytes' = bufBytes + h + (IF bitIdx = 0 THEN 1 ELSE 0)
      BY <2>4, <2>5, <3>2
    <3> QED
      BY <1>3, <2>3, <2>4, <3>1, <3>2, <3>3 DEF Owed
  <2>7. Done' = Done
    BY <1>1, <2>2 DEF Done
  <2> QED
    BY <1>1, <2>1, <2>6, <2>7 DEF OwedAsBefore
<1>7. CASE EncodeSideInfo
  <2>1. /\ pc = "pre" /\ pc' = "main" /\ nextTiming' = nextTiming + frameBits /\ frameBits' = frameBits
        /\ UNCHANGED <<totbit, bitIdx, bufBytes>>
    BY <1>7 DEF EncodeSideInfo, resvVars
  <2>2. frameBits \in Nat
    BY DEF LameStreamInv, StreamInv, TypeInv
  <2>3. Owed' = Owed + frameBits
    BY <1>3, <2>1, <2>2 DEF Owed
  <2>4. at = "stream" /\ Done = 0 /\ Done' = 1
    BY <1>1, <1>2, <2>1 DEF Done
  <2> QED
    BY <1>1, <2>1, <2>3, <2>4 DEF HeaderMade
<1>8. CASE DrainPost
  BY <1>1, <1>8 DEF DrainPost, resvVars, bitVars, OwedAsBefore, Owed, Done
<1>9. CASE FrameDone
  <2>1. PICK back \in Int : totbit' = totbit - back /\ nextTiming' = nextTiming - back
    <3>1. PICK back \in Int : back = (IF totbit > MaxTotbit THEN totbit ELSE 0)
      BY <1>3
    <3> QED
      BY <1>9, <3>1 DEF FrameDone
  <2>2. pc = "post" /\ pc' = "done" /\ UNCHANGED <<bitIdx, bufBytes, frameBits>>
    BY <1>9 DEF FrameDone
  <2>3. Owed' = Owed
    BY <1>3, <2>1, <2>2 DEF Owed
  <2>4. Done' = Done
    BY <1>1, <2>2 DEF Done
  <2> QED
    BY <1>1, <2>2, <2>3, <2>4 DEF OwedAsBefore
<1>10. CASE EndFlush
  <2>1. pc = "flush" /\ at = "flush"
    BY <1>1, <1>2, <1>10 DEF EndFlush
  <2> QED
    BY <1>1, <1>10, <2>1 DEF EndFlush, bitVars, OwedAsBefore, Owed, Done
<1> QED
  BY <1>1, <1>4, <1>5, <1>6, <1>7, <1>8, <1>9, <1>10 DEF FrameStep

LEMMA StreamStepsKeepRoom ==
  ASSUME LameInv, LameInv', RoomInv, StreamStep
  PROVE  RoomInv'
<1> USE DEF LameInv
<1>1. /\ at \in {"stream", "flush"} /\ at' = at
      /\ UNCHANGED <<mf_size, nsamples, frames_left, flushing, room, small, failed, filled, overran>>
  BY DEF StreamStep, sampleVars, callVars, outcomeVars
<1>2. frameBits' = frameBits /\ (OwedAsBefore \/ HeaderMade)
  BY StreamStepsKeepOwed
<1>3. frameBits \in Nat /\ frameBits <= 8 * LongestFrame
  BY RoomTypes DEF RoomInv
<1>4. ASSUME ~small
      PROVE  \E q \in Nat : Enough(q)'
  <2>1. PICK q \in Nat : Enough(q)
    BY <1>1, <1>4 DEF RoomInv
  <2>2. CASE OwedAsBefore
    <3>1. Enough(q)'
      BY <1>1, <2>1, <2>2 DEF OwedAsBefore, Enough, ToCome
    <3> QED
      BY <3>1
  <2>3. CASE HeaderMade
    <3>1. at = "stream" /\ Done = 0 /\ Done' = 1 /\ Owed' = Owed + frameBits
      BY <2>3 DEF HeaderMade
    <3>2. PICK m \in Nat, f \in Nat : m = MFNeeded /\ f = FrameSamples
      BY SamplesAreNumbers
    <3>3. mf_size \in Nat /\ nsamples \in Nat /\ frames_left \in Int /\ mf_size >= m
      BY <3>1, <3>2 DEF CallInv
    <3>4. ~failed
      BY <1>4 DEF RoomInv
    <3>5. q >= 1
      <4>1. CASE flushing
        <5>1. frames_left \in Nat /\ frames_left # 0
          BY <3>1, <3>4, <4>1 DEF SampleInv, FeedInv
        <5> QED
          BY <2>1, <3>1, <4>1, <5>1 DEF Enough, ToCome
      <4>2. CASE ~flushing
        <5>1. f * Done = 0
          BY <3>1, <3>2
        <5>2. mf_size + nsamples < m + f * q
          BY <2>1, <3>2, <3>3, <4>2, <5>1 DEF Enough, ToCome
        <5>3. q # 0
          <6>1. ASSUME q = 0
                PROVE  FALSE
            <7>1. f * q = 0
              BY <3>2, <6>1
            <7> QED
              BY <3>2, <3>3, <5>2, <7>1
          <6> QED
            BY <6>1
        <5> QED
          BY <5>3
      <4> QED
        BY <4>1, <4>2
    <3>6. PICK n \in Nat : n = q - 1 /\ q = n + 1
      BY <3>5
    <3>7. ToCome(n)'
      <4>1. CASE flushing
        BY <1>1, <2>1, <3>1, <3>3, <3>6, <4>1 DEF Enough, ToCome
      <4>2. CASE ~flushing
        <5>1. f * q = f * n + f /\ f * n \in Nat
          BY <3>2, <3>6
        <5>2. f * Done = 0 /\ f * Done' = f
          BY <3>1, <3>2
        <5>3. PICK x \in Nat, y \in Nat : x = f * n /\ y = f * q /\ y = x + f
          BY <3>2, <5>1
        <5>4. mf_size + nsamples < m + y
          BY <2>1, <3>2, <3>3, <4>2, <5>2, <5>3 DEF Enough, ToCome
        <5>5. mf_size + nsamples - f < m + x
          BY <3>2, <3>3, <5>3, <5>4
        <5>6. mf_size' + nsamples' - FrameSamples * Done' < MFNeeded + FrameSamples * n
          BY <1>1, <3>2, <5>2, <5>3, <5>5
        <5> QED
          BY <1>1, <4>2, <5>6 DEF ToCome
      <4> QED
        BY <4>1, <4>2
    <3>8. 8 * room' >= Owed' + 8 * LongestFrame * n + 8
      <4>1. PICK w \in Nat : w = 8 * LongestFrame
        BY RatesAreNumbers
      <4>2. w * q = w * n + w /\ w * n \in Nat
        BY <3>6, <4>1
      <4>3. PICK x \in Nat, y \in Nat : x = w * n /\ y = w * q /\ y = x + w
        BY <4>1, <4>2
      <4>4. 8 * room >= Owed + y + 8
        BY <2>1, <4>1, <4>3 DEF Enough
      <4>5. Owed \in Int /\ room \in Int /\ frameBits <= w
        BY <1>3, <4>1, RoomTypes
      <4>6. 8 * room >= Owed + frameBits + x + 8
        BY <1>3, <4>3, <4>4, <4>5
      <4> QED
        BY <1>1, <3>1, <4>1, <4>3, <4>6
    <3> QED
      BY <3>6, <3>7, <3>8 DEF Enough
  <2> QED
    BY <1>2, <2>2, <2>3
<1>5. at' \notin {"out", "bunch", "fill", "frame"} /\ at # "crash"
  BY <1>1
<1>6. frameBits' <= 8 * LongestFrame'
  BY <1>2, <1>3
<1>7. overran' => filled'
  BY <1>1 DEF RoomInv
<1>8. room' <= 0 => filled'
  BY <1>1 DEF RoomInv
<1>9. ~small' => ~failed' /\ ~filled'
  BY <1>1 DEF RoomInv
<1> QED
  BY <1>1, <1>4, <1>5, <1>6, <1>7, <1>8, <1>9 DEF RoomInv

LEMMA EnoughForFrames ==
  ASSUME LameInv, NEW n \in Nat
  PROVE  at = "out" => mf_size \in Nat /\ (~failed => mf_size + n < MFNeeded + FrameSamples * CallFrames(n))
                       /\ CallFrames(n) \in Nat
<1>1. PICK f \in Nat : f = FrameSamples /\ f > 0
  BY SamplesAreNumbers
<1>2. PICK k \in Nat, r \in 0..f - 1 : n = f * k + r /\ k = n \div f
  BY <1>1
<1>3. f * CallFrames(n) = f * k + f /\ CallFrames(n) \in Nat
  BY <1>1, <1>2 DEF CallFrames
<1>4. n < f * CallFrames(n) /\ f * CallFrames(n) \in Nat
  <2>1. PICK a \in Nat : a = f * k
    BY <1>1, <1>2
  <2> QED
    BY <1>1, <1>2, <1>3, <2>1
<1>5. ASSUME at = "out"
      PROVE  mf_size \in Nat /\ (~failed => mf_size < MFNeeded) /\ MFNeeded \in Nat
  BY <1>5, SamplesAreNumbers DEF LameInv, SampleInv, CallInv
<1>6. PICK x \in Nat : x = FrameSamples * CallFrames(n) /\ n < x
  BY <1>1, <1>4
<1>7. ASSUME at = "out", ~failed
      PROVE  mf_size + n < MFNeeded + FrameSamples * CallFrames(n)
  BY <1>5, <1>6, <1>7
<1> QED
  BY <1>3, <1>5, <1>7

\* What the worst case of as many frames leaves room for.
LEMMA WorstCaseSuffices ==
  ASSUME StreamInv, pc \in {"idle", "done"}, bufBytes <= MaxTagBytes, NEW size \in Nat, NEW n \in Nat,
         NEW q \in Nat, q <= n, size > WorstCase(n)
  PROVE  8 * size >= Owed + 8 * LongestFrame * q + 8
<1>1. /\ bufBytes \in Nat /\ Owed \in Int /\ Owed <= 8 * bufBytes + ResvLimit + 8 * HeaderBytes
  BY RestIsBounded DEF StreamInv, TypeInv
<1>2. ResvLimit \in Nat /\ ResvLimit = 8 * (ResvLimit \div 8)
  BY ConstantsAreNumbers
<1>3. MaxTagBytes \in Nat
  BY RatesAreNumbers
<1>4. HeaderBytes \in Int
  BY HeaderBytesAreANumber
<1>5. PICK w \in Nat, m \in Nat : w = LongestFrame /\ n = q + m
  BY RatesAreNumbers
<1>6. n * w = q * w + m * w /\ q * w \in Nat /\ m * w \in Nat
  BY <1>5
<1>7. PICK x \in Nat, y \in Nat, z \in Nat : x = n * w /\ y = q * w /\ z = m * w /\ x = y + z
  BY <1>6
<1>8. PICK h \in Int, r \in Int : h = HeaderBytes /\ r = ResvLimit \div 8 /\ ResvLimit = 8 * r
  BY <1>2, <1>4
<1>9. WorstCase(n) = MaxTagBytes + r + h + x
  BY <1>5, <1>7, <1>8 DEF WorstCase, HeaderBytes
<1>10. 8 * LongestFrame * q = 8 * y
  <2>1. (8 * w) * q = 8 * (q * w)
    BY <1>5
  <2> QED
    BY <1>5, <1>7, <2>1
<1>11. 8 * size >= Owed + 8 * y + 8
  BY <1>1, <1>3, <1>7, <1>8, <1>9
<1> QED
  BY <1>10, <1>11

LEMMA WorstCaseIsANumber ==
  ASSUME NEW n \in Nat
  PROVE  WorstCase(n) \in Int
<1>1. PICK r \in Int, t \in Int : r = ResvLimit \div 8 /\ t = MaxTagBytes
  BY ConstantsAreNumbers, RatesAreNumbers
<1>2. PICK x \in Int : x = n * LongestFrame
  BY RatesAreNumbers
<1>3. PICK h \in Int : h = HeaderBytes
  BY HeaderBytesAreANumber
<1> QED
  BY <1>1, <1>2, <1>3 DEF WorstCase, HeaderBytes

LEMMA EncodingKeepsRoom ==
  ASSUME LameInv, RoomInv, NEW n \in CallSamples, NEW size \in ArraySizes, lameEncode(n, size)
  PROVE  RoomInv'
<1> USE DEF LameInv
<1>1. n \in Nat /\ size \in Nat /\ size > 0 /\ bufBytes \in Nat
  BY CallersAssumption, RoomTypes
<1>2. /\ at = "out" /\ small' = (small \/ size <= WorstCase(CallFrames(n)))
      /\ UNCHANGED <<frameBits, totbit, nextTiming, pc, mf_size>>
  BY DEF lameEncode, resvVars, sampleVars
<1>3. pc = "idle" /\ ~flushing
  BY <1>2 DEF LameStreamInv, PlaceInv, FlagsInv
<1>4. ASSUME ~small'
      PROVE  /\ ~small /\ ~failed /\ ~filled /\ bufBytes < size
             /\ 8 * size >= Owed + 8 * LongestFrame * CallFrames(n) + 8
  <2>1. ~small /\ ~(size <= WorstCase(CallFrames(n)))
    BY <1>2, <1>4, Zenon
  <2>2. bufBytes <= MaxTagBytes /\ ~failed /\ ~filled
    BY <1>2, <2>1 DEF RoomInv
  <2>3. CallFrames(n) \in Nat
    BY <1>1, <1>2, EnoughForFrames
  <2>4. size > WorstCase(CallFrames(n))
    BY <1>1, <2>1, <2>3, WorstCaseIsANumber
  <2>5. 8 * size >= Owed + 8 * LongestFrame * CallFrames(n) + 8
    BY <1>1, <1>3, <2>2, <2>3, <2>4, WorstCaseSuffices DEF LameStreamInv
  <2>6. bufBytes < size
    <3>1. PICK w \in Nat : w = 8 * LongestFrame * CallFrames(n)
      BY <2>3, RatesAreNumbers
    <3>2. Owed \in Int /\ Owed >= 8 * bufBytes
      BY <1>3, RestIsBounded DEF LameStreamInv
    <3> QED
      BY <1>1, <2>5, <3>1, <3>2
  <2> QED
    BY <2>1, <2>2, <2>5, <2>6
<1>5. CASE bufBytes > size
  <2>1. Leave(FALSE) /\ UNCHANGED <<filled, overran>>
    BY <1>5 DEF lameEncode
  <2>2. at' = "out"
    BY <2>1 DEF Leave
  <2>3. small'
    BY <1>1, <1>4, <1>5, FlagsAreBooleans DEF FlagsInv
  <2> QED
    BY <1>2, <2>1, <2>2, <2>3 DEF RoomInv
<1>6. CASE ~(bufBytes > size)
  <2>1. /\ at' = "fill" /\ nsamples' = n /\ room' = size - bufBytes /\ filled' = (filled \/ bufBytes = size)
        /\ bufBytes' = 0 /\ bitIdx' = 0 /\ UNCHANGED <<flushing, failed, overran>>
    BY <1>6 DEF lameEncode
  <2>2. room' <= 0 => filled'
    <3>1. room' <= 0 => bufBytes = size
      BY <1>1, <1>6, <2>1
    <3> QED
      BY <2>1, <3>1, Zenon
  <2>3. overran' => filled'
    BY <2>1, Zenon DEF RoomInv
  <2>4. frameBits' <= 8 * LongestFrame'
    BY <1>2 DEF RoomInv
  <2>5. ASSUME ~small'
        PROVE  ~failed' /\ ~filled' /\ bufBytes' <= MaxTagBytes /\ \E q \in Nat : Enough(q)'
    <3>1. ~failed /\ ~filled /\ bufBytes < size
      BY <1>4, <2>5
    <3>2. bufBytes # size
      BY <1>1, <3>1
    <3>3. ~failed' /\ ~filled'
      BY <2>1, <3>1, <3>2, Zenon
    <3>4. CallFrames(n) \in Nat /\ mf_size + n < MFNeeded + FrameSamples * CallFrames(n) /\ mf_size \in Nat
      BY <1>1, <1>2, <3>1, EnoughForFrames
    <3>5. Done' = 0
      BY <2>1 DEF Done
    <3>6. ToCome(CallFrames(n))'
      <4>1. FrameSamples * Done' = 0
        BY <3>5, SamplesAreNumbers
      <4>2. mf_size' + nsamples' - FrameSamples * Done' = mf_size + n
        BY <1>1, <1>2, <2>1, <3>4, <4>1
      <4> QED
        BY <1>3, <2>1, <3>4, <4>2 DEF ToCome
    <3>7. 8 * room' >= Owed' + 8 * LongestFrame * CallFrames(n) + 8
      <4>1. PICK w \in Nat : w = 8 * LongestFrame * CallFrames(n)
        BY <3>4, RatesAreNumbers
      <4>2. bitIdx = 0 /\ Owed \in Int
        BY <1>3, RestIsBounded DEF LameStreamInv
      <4>3. Owed' = Owed - 8 * bufBytes
        BY <1>2, <2>1, <4>2, RoomTypes DEF Owed
      <4>4. 8 * size >= Owed + w + 8
        BY <1>4, <2>5, <4>1
      <4>5. 8 * room' >= Owed' + w + 8
        BY <1>1, <2>1, <4>1, <4>2, <4>3, <4>4
      <4> QED
        BY <4>1, <4>5
    <3>8. Enough(CallFrames(n))'
      BY <3>6, <3>7 DEF Enough
    <3>9. bufBytes' <= MaxTagBytes
      BY <2>1, RatesAreNumbers
    <3> QED
      BY <3>3, <3>4, <3>8, <3>9
  <2> QED
    BY <2>1, <2>2, <2>3, <2>4, <2>5 DEF RoomInv
<1> QED
  BY <1>5, <1>6

LEMMA BeginningAFlushKeepsRoom ==
  ASSUME LameInv, RoomInv, NEW size \in ArraySizes, lameFlush(size)
  PROVE  RoomInv'
<1> USE DEF LameInv
<1>1. size \in Nat /\ size > 0
  BY CallersAssumption
<1>2. PICK samples \in Int : samples = mf_samples_to_encode - POSTDELAY
  BY SamplesAreNumbers DEF CallInv
<1>3. /\ at = "out" /\ mf_samples_to_encode >= 1
      /\ frames_left' = (samples + EndPadding(samples)) \div FrameSamples
      /\ at' = "bunch" /\ flushing' = TRUE /\ room' = size
      /\ small' = (small \/ size <= WorstCase(FlushFrames))
      /\ UNCHANGED <<mf_size, nsamples, failed, filled, overran>>
      /\ UNCHANGED <<frameBits, totbit, nextTiming, bitIdx, bufBytes, pc>>
  BY <1>2 DEF lameFlush, sampleVars, streamVars, resvVars, bitVars
<1>4. pc = "idle" /\ ~flushing
  BY <1>3 DEF LameStreamInv, PlaceInv, FlagsInv
<1>5. (room' <= 0 => filled') /\ at' # "crash" /\ frameBits' <= 8 * LongestFrame' /\ (overran' => filled')
  BY <1>1, <1>3 DEF RoomInv
<1>6. ASSUME ~small'
      PROVE  ~failed' /\ ~filled' /\ bufBytes' <= MaxTagBytes /\ \E q \in Nat : Enough(q)'
  <2>1. ~small /\ ~(size <= WorstCase(FlushFrames))
    BY <1>3, <1>6, Zenon
  <2>2. ~failed /\ ~filled /\ bufBytes <= MaxTagBytes
    BY <1>3, <2>1 DEF RoomInv
  <2>3. mf_size < MFNeeded /\ Fed /\ zeros = 0
    BY <1>3, <1>4, <2>2 DEF SampleInv, FeedInv, AtRest
  <2>4. PICK p \in Nat, q \in Int :
          /\ p = EndPadding(samples) /\ q = (samples + EndPadding(samples)) \div FrameSamples
          /\ samples + p = FrameSamples * q /\ p <= FrameSamples + Granule
    BY PaddedToFrames, PaddingIsBounded
  <2>5. samples >= 0
    <3>1. ENCDELAY + lead >= 0
      BY <2>3, FedIsOpen
    <3> QED
      BY <1>2, <2>3, <3>1, SamplesAreNumbers DEF Fed, CallInv
  <2>6. q \in Nat
    <3>1. PICK f \in Nat : f = FrameSamples /\ f > 0
      BY SamplesAreNumbers
    <3>2. f * q >= 0
      BY <2>4, <2>5, <3>1
    <3> QED
      BY <2>4, <3>1, <3>2
  <2>7. q <= FlushFrames /\ FlushFrames \in Nat
    BY <1>2, <2>3, <2>4, <2>6, FlushFramesSuffice
  <2>8. size > WorstCase(FlushFrames)
    BY <1>1, <2>1, <2>7, WorstCaseIsANumber
  <2>9. 8 * size >= Owed + 8 * LongestFrame * q + 8
    BY <1>1, <1>4, <2>2, <2>6, <2>7, <2>8, WorstCaseSuffices DEF LameStreamInv
  <2>10. Owed' = Owed /\ Done' = 0
    BY <1>3 DEF Owed, Done
  <2>11. Enough(q)'
    BY <1>3, <2>4, <2>6, <2>9, <2>10 DEF Enough, ToCome
  <2> QED
    BY <1>3, <2>2, <2>6, <2>11
<1> QED
  BY <1>5, <1>6 DEF RoomInv

LEMMA FillingKeepsRoom ==
  ASSUME LameInv, RoomInv, FillBuffer
  PROVE  RoomInv'
<1> USE DEF LameInv
<1>1. PICK n \in Nat : n = Min(FrameSamples, nsamples) /\ n <= nsamples /\ n <= FrameSamples
  BY SamplesAreNumbers DEF Min, CallInv
<1>2. /\ at = "fill" /\ mf_size' = mf_size + n /\ nsamples' = nsamples - n
      /\ at' = IF mf_size + n > MFSIZE THEN "crash" ELSE IF mf_size + n >= MFNeeded THEN "frame" ELSE "fill"
      /\ UNCHANGED <<flushing, room, frames_left, small, failed, filled, overran>>
      /\ UNCHANGED <<frameBits, totbit, nextTiming, bitIdx, bufBytes, pc>>
  BY <1>1 DEF FillBuffer, Taken, outcomeVars, streamVars, resvVars, bitVars
<1>3. at' = "crash" => failed'
  <2>1. ASSUME ~failed
        PROVE  ~(mf_size + n > MFSIZE)
    <3>1. mf_size < MFNeeded /\ mf_size \in Nat
      BY <1>2, <2>1 DEF SampleInv, CallInv
    <3> QED
      BY <1>1, <3>1, SamplesAreNumbers
  <2> QED
    BY <1>2, <2>1
<1>4. (room' <= 0 => filled') /\ frameBits' <= 8 * LongestFrame' /\ (overran' => filled')
  BY <1>2 DEF RoomInv
<1>5. ASSUME ~small'
      PROVE  ~failed' /\ ~filled' /\ bufBytes' <= MaxTagBytes /\ \E q \in Nat : Enough(q)'
  <2>1. ~failed /\ ~filled /\ bufBytes <= MaxTagBytes
    BY <1>2, <1>5 DEF RoomInv
  <2>2. PICK q \in Nat : Enough(q)
    BY <1>2, <1>5 DEF RoomInv
  <2>3. Owed' = Owed /\ Done' = Done
    BY <1>2 DEF Owed, Done
  <2>4. mf_size' + nsamples' = mf_size + nsamples
    BY <1>1, <1>2 DEF CallInv
  <2>5. ToCome(q)'
    <3>1. PICK a \in Int, d \in Int, x \in Int :
            a = mf_size + nsamples /\ d = FrameSamples * Done /\ x = MFNeeded + FrameSamples * q
      BY RoomTypes, SamplesAreNumbers
    <3>2. mf_size' + nsamples' = a /\ FrameSamples * Done' = d
      BY <2>3, <2>4, <3>1
    <3>3. CASE flushing
      BY <1>2, <2>2, <2>3, <3>3 DEF Enough, ToCome
    <3>4. CASE ~flushing
      <4>1. a - d < x
        <5>1. mf_size + nsamples - FrameSamples * Done < MFNeeded + FrameSamples * q
          BY <2>2, <3>4 DEF Enough, ToCome
        <5> QED
          BY <3>1, <5>1, RoomTypes
      <4>2. mf_size' + nsamples' - FrameSamples * Done' < x
        <5>1. mf_size' \in Int /\ nsamples' \in Int
          BY <1>1, <1>2, RoomTypes
        <5> QED
          BY <3>1, <3>2, <4>1, <5>1
      <4>3. ~flushing'
        BY <1>2, <3>4
      <4> QED
        BY <3>1, <4>2, <4>3 DEF ToCome
    <3> QED
      BY <3>3, <3>4
  <2>6. Enough(q)'
    BY <1>2, <2>2, <2>3, <2>5 DEF Enough
  <2> QED
    BY <1>2, <2>1, <2>2, <2>6
<1> QED
  BY <1>3, <1>4, <1>5 DEF RoomInv

LEMMA FramesKeepRoom ==
  ASSUME LameInv, RoomInv, EncodeFrame
  PROVE  RoomInv'
<1> USE DEF LameInv
<1>1. /\ at = "frame" /\ at' = "stream"
      /\ UNCHANGED <<mf_size, nsamples, flushing, room, frames_left, small, failed, filled, overran>>
  BY DEF EncodeFrame, sampleVars, outcomeVars
<1>2. PICK lag \in Int : lag = slot_lag - FracSpF
  BY RateAssumption DEF CallInv
<1>3. /\ UNCHANGED <<totbit, nextTiming, bitIdx, bufBytes>>
      /\ pc' \in {"granules", "exit"} /\ frameBits' <= 8 * LongestFrame
  <2>1. CASE loop = "CBR"
    <3>1. BeginFrame(lag < 0)
      BY <1>2, <2>1 DEF EncodeFrame
    <3>2. /\ UNCHANGED <<totbit, nextTiming, bitIdx, bufBytes>> /\ pc' = "granules"
          /\ frameBits' = 8 * (FrameBytes[CbrRate] + (IF lag < 0 THEN 1 ELSE 0))
      BY <3>1 DEF BeginFrame, bitVars, FrameLength
    <3>3. lag < 0 => FracSpF # 0
      BY <1>2, RateAssumption DEF CallInv
    <3>4. frameBits' <= 8 * LongestFrame
      <4>1. CbrRate \in Rates
        BY RatesAssumption
      <4>2. PICK c \in Nat, w \in Nat : c = FrameBytes[CbrRate] /\ w = LongestFrame /\ c <= w
        BY <4>1, RatesAreNumbers
      <4>3. lag < 0 => c + 1 <= w
        BY <3>3, <4>2, RatesAreNumbers
      <4> QED
        BY <3>2, <4>2, <4>3
    <3> QED
      BY <3>2, <3>4
  <2>2. CASE loop # "CBR"
    <3>1. PICK bits \in Bits, silence \in BOOLEAN : AllocateFrame(bits, silence)
      BY <2>2 DEF EncodeFrame
    <3>2. PICK rate \in Rates : frameBits' = 8 * FrameBytes[rate] /\ pc' \in {"granules", "exit"}
      BY <3>1 DEF AllocateFrame
    <3>3. UNCHANGED <<totbit, nextTiming, bitIdx, bufBytes>>
      BY <3>1 DEF AllocateFrame, bitVars
    <3>4. frameBits' <= 8 * LongestFrame
      BY <3>2, RatesAreNumbers
    <3> QED
      BY <3>2, <3>3, <3>4
  <2> QED
    BY <2>1, <2>2
<1>4. Owed' = Owed /\ Done' = 0 /\ Done = 0
  BY <1>1, <1>3 DEF Owed, Done
<1>5. (room' <= 0 => filled') /\ frameBits' <= 8 * LongestFrame' /\ (overran' => filled')
  BY <1>1, <1>3 DEF RoomInv
<1>6. ASSUME ~small'
      PROVE  ~failed' /\ ~filled' /\ \E q \in Nat : Enough(q)'
  <2>1. ~failed /\ ~filled
    BY <1>1, <1>6 DEF RoomInv
  <2>2. PICK q \in Nat : Enough(q)
    BY <1>1, <1>6 DEF RoomInv
  <2>3. Enough(q)'
    BY <1>1, <1>4, <2>2 DEF Enough, ToCome
  <2> QED
    BY <1>1, <2>1, <2>3
<1> QED
  BY <1>1, <1>5, <1>6 DEF RoomInv

LEMMA CopyingAFrameKeepsRoom ==
  ASSUME LameInv, RoomInv, FrameCopied
  PROVE  RoomInv'
<1> USE DEF LameInv
<1>1. at = "stream" /\ pc = "done" /\ Done = 1 /\ UNCHANGED small
  BY DEF FrameCopied, Done
<1>2. CASE ~Fits(bufBytes)
  <2>1. small
    BY <1>1, <1>2, RoomIsLeft
  <2>2. Leave(FALSE) /\ UNCHANGED <<filled, overran, frameBits>>
    BY <1>2 DEF FrameCopied, resvVars
  <2> QED
    BY <1>1, <2>1, <2>2, LeavingKeepsRoom DEF RoomInv
<1>3. CASE Fits(bufBytes)
  <2>1. /\ CopyBuffer /\ CopyOut(bufBytes) /\ at' = "fill" /\ mf_size' = mf_size - FrameSamples
        /\ frames_left' = (IF flushing THEN frames_left - 1 ELSE 0)
        /\ UNCHANGED <<flushing, nsamples, failed>>
    BY <1>3 DEF FrameCopied
  <2>2. /\ overran' => filled'
        /\ room' <= 0 => filled'
        /\ ~small => ~filled' /\ room' = room - bufBytes /\ room' \in Nat
    BY <1>1, <1>3, <2>1, CopyingKeepsRoom
  <2>3. bufBytes' = 0 /\ bitIdx' = 0 /\ UNCHANGED <<totbit, nextTiming, frameBits>>
    BY <2>1 DEF CopyBuffer, resvVars
  <2>4. ASSUME ~small'
        PROVE  ~failed' /\ ~filled' /\ bufBytes' <= MaxTagBytes /\ \E q \in Nat : Enough(q)'
    <3>1. PICK q \in Nat : Enough(q)
      BY <1>1, <2>4 DEF RoomInv
    <3>2. 8 * room' >= Owed' + 8 * LongestFrame * q + 8
      BY <1>1, <2>2, <2>3, <2>4, <3>1, CopyingKeepsEnough DEF Enough
    <3>3. ToCome(q)'
      <4>1. Done' = 0
        BY <2>1 DEF Done
      <4>2. PICK f \in Nat : f = FrameSamples
        BY SamplesAreNumbers
      <4>3. f * Done = f /\ f * Done' = 0
        BY <1>1, <4>1, <4>2
      <4>4. CASE flushing
        BY <1>1, <2>1, <3>1, <4>1, <4>4, RoomTypes DEF Enough, ToCome
      <4>5. CASE ~flushing
        <5>1. PICK x \in Int : x = MFNeeded + FrameSamples * q
          BY SamplesAreNumbers
        <5>2. mf_size + nsamples - f < x
          BY <3>1, <4>2, <4>3, <4>5, <5>1 DEF Enough, ToCome
        <5>3. mf_size' + nsamples' - f * Done' < x
          BY <2>1, <4>2, <4>3, <5>1, <5>2, RoomTypes
        <5> QED
          BY <2>1, <4>2, <4>5, <5>1, <5>3 DEF ToCome
      <4> QED
        BY <4>4, <4>5
    <3>4. ~failed' /\ bufBytes' <= MaxTagBytes
      BY <1>1, <2>1, <2>3, <2>4, RatesAreNumbers DEF RoomInv
    <3> QED
      BY <1>1, <2>2, <2>4, <3>2, <3>3, <3>4 DEF Enough
  <2>5. frameBits' <= 8 * LongestFrame'
    BY <2>3 DEF RoomInv
  <2> QED
    BY <2>1, <2>2, <2>4, <2>5 DEF RoomInv
<1> QED
  BY <1>2, <1>3

LEMMA BunchesKeepRoom ==
  ASSUME LameInv, RoomInv, Bunch
  PROVE  RoomInv'
<1> USE DEF LameInv
<1>1. at = "bunch" /\ pc = "idle" /\ Done = 0 /\ UNCHANGED <<small, pc>>
  BY DEF Bunch, Done, LameStreamInv, PlaceInv
<1>2. CASE ~Fits(bufBytes)
  <2>1. small
    BY <1>1, <1>2, RoomIsLeft
  <2>2. Leave(FALSE) /\ UNCHANGED <<filled, overran, frameBits>>
    BY <1>2 DEF Bunch, resvVars
  <2> QED
    BY <1>1, <2>1, <2>2, LeavingKeepsRoom DEF RoomInv
<1>3. CASE Fits(bufBytes)
  <2>1. /\ CopyOut(bufBytes) /\ at' = "fill" /\ bufBytes' = 0 /\ bitIdx' = 0
        /\ UNCHANGED <<flushing, frames_left, failed, frameBits, totbit, nextTiming>>
    BY <1>3 DEF Bunch, resvVars
  <2>2. /\ overran' => filled'
        /\ room' <= 0 => filled'
        /\ ~small => ~filled' /\ room' = room - bufBytes /\ room' \in Nat
    BY <1>1, <1>3, <2>1, CopyingKeepsRoom
  <2>3. ASSUME ~small'
        PROVE  ~failed' /\ ~filled' /\ bufBytes' <= MaxTagBytes /\ \E q \in Nat : Enough(q)'
    <3>1. PICK q \in Nat : Enough(q)
      BY <1>1, <2>3 DEF RoomInv
    <3>2. 8 * room' >= Owed' + 8 * LongestFrame * q + 8
      BY <1>1, <2>1, <2>2, <2>3, <3>1, CopyingKeepsEnough DEF Enough
    <3>3. ~failed /\ flushing
      BY <1>1, <2>3 DEF RoomInv, SampleInv, FeedInv
    <3>4. Done' = 0
      BY <2>1 DEF Done
    <3>5. ToCome(q)'
      BY <1>1, <2>1, <3>1, <3>3, <3>4 DEF Enough, ToCome
    <3>6. ~failed' /\ bufBytes' <= MaxTagBytes
      BY <2>1, <3>3, RatesAreNumbers
    <3> QED
      BY <1>1, <2>2, <2>3, <3>2, <3>5, <3>6 DEF Enough
  <2>4. frameBits' <= 8 * LongestFrame'
    BY <2>1 DEF RoomInv
  <2> QED
    BY <2>1, <2>2, <2>3, <2>4 DEF RoomInv
<1> QED
  BY <1>2, <1>3

LEMMA ReturningKeepsRoom ==
  ASSUME LameInv, RoomInv, EncodeReturns
  PROVE  RoomInv'
<1> USE DEF LameInv
<1>1. /\ at = "fill" /\ nsamples = 0 /\ Done = 0
      /\ UNCHANGED <<small, filled, overran, mf_size>>
      /\ UNCHANGED <<frameBits, totbit, nextTiming, bitIdx, bufBytes, pc>>
  BY DEF EncodeReturns, sampleVars, streamVars, resvVars, bitVars, Done
<1>2. CASE flushing
  <2>1. at' = "bunch" /\ UNCHANGED <<flushing, nsamples, room, frames_left, failed>>
    BY <1>2 DEF EncodeReturns
  <2>2. Owed' = Owed /\ Done' = Done
    BY <1>1, <2>1 DEF Owed, Done
  <2>3. \A q \in Nat : Enough(q) => Enough(q)'
    BY <1>1, <2>1, <2>2 DEF Enough, ToCome
  <2> QED
    BY <1>1, <2>1, <2>3 DEF RoomInv
<1>3. CASE ~flushing
  <2>1. Leave(TRUE)
    BY <1>3 DEF EncodeReturns
  <2>2. (overran' => filled') /\ (~small => ~filled' /\ bufBytes' <= MaxTagBytes)
    BY <1>1 DEF RoomInv
  <2> QED
    BY <1>1, <2>1, <2>2, LeavingKeepsRoom
<1> QED
  BY <1>2, <1>3

LEMMA EndingAFlushKeepsRoom ==
  ASSUME LameInv, RoomInv, FlushStream
  PROVE  RoomInv'
<1> USE DEF LameInv
<1>1. /\ at = "bunch" /\ at' = "flush" /\ Done = 0
      /\ UNCHANGED <<mf_size, nsamples, flushing, room, frames_left, small, failed, filled, overran>>
      /\ UNCHANGED <<frameBits, totbit, nextTiming, bitIdx, bufBytes>>
  BY DEF FlushStream, BeginFlush, outcomeVars, resvVars, bitVars, Done
<1>2. Owed' = Owed /\ Done' = Done
  BY <1>1 DEF Owed, Done
<1>3. \A q \in Nat : Enough(q) => Enough(q)'
  BY <1>1, <1>2 DEF Enough, ToCome
<1> QED
  BY <1>1, <1>3 DEF RoomInv

LEMMA ReturningFromAFlushKeepsRoom ==
  ASSUME LameInv, RoomInv, FlushCopied
  PROVE  RoomInv'
<1> USE DEF LameInv
<1>1. /\ at = "flush" /\ pc \in {"done", "idle"} /\ UNCHANGED <<small, frameBits>>
      /\ Leave(Fits(bufBytes))
  BY DEF FlushCopied, resvVars
<1>2. Fits(bufBytes) \in BOOLEAN
  BY DEF Fits
<1>3. CASE ~Fits(bufBytes)
  <2>1. small
    BY <1>1, <1>3, RoomIsLeft
  <2>2. UNCHANGED <<filled, overran>>
    BY <1>3 DEF FlushCopied
  <2>3. overran' => filled'
    BY <2>2 DEF RoomInv
  <2> QED
    BY <1>1, <1>2, <2>1, <2>3, LeavingKeepsRoom
<1>4. CASE Fits(bufBytes)
  <2>1. /\ bufBytes' = 0 /\ filled' = (filled \/ (bufBytes > 0 /\ bufBytes = room))
        /\ overran' = (overran \/ (bufBytes > 0 /\ room = 0))
    BY <1>4 DEF FlushCopied
  <2>2. overran' => filled'
    <3>1. room = 0 => room <= 0
      BY RoomTypes
    <3> QED
      BY <1>1, <2>1, <3>1, Zenon DEF RoomInv
  <2>3. ASSUME ~small
        PROVE  Fits(bufBytes) /\ ~filled' /\ bufBytes' <= MaxTagBytes
    <3>1. bufBytes < room /\ ~filled
      BY <1>1, <2>3, RoomIsLeft
    <3>2. bufBytes # room
      BY <3>1, RoomTypes
    <3>3. ~filled'
      BY <2>1, <3>1, <3>2, Zenon
    <3> QED
      BY <1>4, <2>1, <3>3, RatesAreNumbers
  <2> QED
    BY <1>1, <1>2, <2>2, <2>3, LeavingKeepsRoom
<1> QED
  BY <1>3, <1>4

LEMMA RenewedHasRoom ==
  ASSUME FlagsInv, NEW tag \in 0..MaxTagBytes, Renew(tag), at = "out"
  PROVE  RoomInv'
<1>1. /\ at' = "out" /\ frameBits' = 0 /\ bufBytes' = tag
      /\ small' = FALSE /\ failed' = FALSE /\ filled' = FALSE /\ overran' = FALSE
  BY DEF Renew, StreamRestart
<1> QED
  BY <1>1, RatesAreNumbers DEF RoomInv

LEMMA RoomStarts ==
  ASSUME NoEncoder
  PROVE  RoomInv
BY RatesAreNumbers DEF NoEncoder, StreamInit, RoomInv

LEMMA RoomIsKept ==
  ASSUME LameInv, LameInv', RoomInv, [LameNext]_lameVars
  PROVE  RoomInv'
<1>1. ASSUME NEW tag \in TagBytes, NEW ok \in BOOLEAN, lameInit(tag, ok)
      PROVE  RoomInv'
  <2>1. PICK bytes \in 0..MaxTagBytes : bytes = IF ok THEN tag ELSE 0
    BY CallersAssumption
  <2>2. Renew(bytes) /\ at = "out"
    BY <1>1, <2>1 DEF lameInit
  <2> QED
    BY <2>2, RenewedHasRoom DEF LameInv
<1>2. CASE lameClose
  <2>1. Renew(0) /\ at = "out" /\ 0 \in 0..MaxTagBytes
    BY <1>2, RatesAreNumbers DEF lameClose
  <2> QED
    BY <2>1, RenewedHasRoom DEF LameInv
<1>3. CASE UNCHANGED lameVars
  <2>1. /\ UNCHANGED <<mf_size, nsamples, flushing, room, frames_left, small, failed, filled, overran>>
        /\ UNCHANGED <<at, pc, frameBits, totbit, nextTiming, bitIdx, bufBytes>>
    BY <1>3 DEF lameVars, streamVars, resvVars, bitVars, sampleVars, callVars, outcomeVars
  <2>2. Owed' = Owed /\ Done' = Done
    BY <2>1 DEF Owed, Done
  <2>3. \A q \in Nat : Enough(q) => Enough(q)'
    BY <2>1, <2>2 DEF Enough, ToCome
  <2> QED
    BY <2>1, <2>3 DEF RoomInv
<1> QED
  BY <1>1, <1>2, <1>3, EncodingKeepsRoom, BeginningAFlushKeepsRoom, FillingKeepsRoom, FramesKeepRoom,
     StreamStepsKeepRoom, CopyingAFrameKeepsRoom, ReturningKeepsRoom, BunchesKeepRoom,
     EndingAFlushKeepsRoom, ReturningFromAFlushKeepsRoom DEF LameNext

LEMMA RoomHoldsBuffers ==
  ASSUME RoomInv
  PROVE  BuffersHold
BY DEF RoomInv, BuffersHold

\* For every rate, reservoir, tag and number of samples: as long as the arrays of the calls are larger
\* than WorstCase, no call finds its array too small, fills it to the last byte, after which LAME
\* would copy unchecked, or overruns the sample buffer; and with smaller ones an array is overrun only
\* after it was filled to the last byte, and the sample buffer only after a call that failed.
THEOREM BuffersAlwaysHold == LameSpec => []BuffersHold
<1>1. NoEncoder => LameInv /\ RoomInv
  BY EncoderStarts, CallsStart, RoomStarts DEF LameInv
<1>2. LameInv /\ RoomInv /\ [LameNext]_lameVars => (LameInv /\ RoomInv)'
  BY CallsAreKept, RoomIsKept
<1> QED
  BY <1>1, <1>2, RoomHoldsBuffers, PTL DEF LameSpec

=============================================================================
