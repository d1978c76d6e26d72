------------------------- MODULE AlgorithmsProofs --------------------------
(***************************************************************************)
(* RingQueue implements BoundedFifo, for every size of the array and every *)
(* set of values; the conversions of YuvFrames keep the picture, for every *)
(* size of the frames; the arrays of IntArrays find and edit what they     *)
(* should, for every set of ints and number of cells; LinkedList is a      *)
(* sequence, for every number of nodes and of holders; the sorts of        *)
(* Sorting sort and its search finds, for every array of every length.     *)
(***************************************************************************)
EXTENDS Algorithms, FiniteSetTheorems, SequenceTheorems, WellFoundedInduction, TLAPS

\* The inductive invariant: the types, and that the indices agree with the count.
IInv == TypeOK /\ IndicesAgree

LEMMA InitIInv == Init => IInv
BY MaxSizeAssumption, ZeroAssumption
DEF Init, IInv, TypeOK, IndicesAgree, Around, Cell, Outcome, Done

\* A call that is refused or only looks leaves the four fields alone.
LEMMA LookIInv ==
  ASSUME IInv, insertRefused \/ perk \/ removeOrPerkRefused \/ size
  PROVE  IInv'
<1>1. array[front] \in Element \/ isEmpty
  BY MaxSizeAssumption DEF IInv, TypeOK, Cell, isEmpty
<1>2. outcome' \in Outcome
  BY <1>1, MaxSizeAssumption
  DEF IInv, TypeOK, Outcome, insertRefused, perk, removeOrPerkRefused, size
<1>3. UNCHANGED <<array, lenght, front, rear>>
  BY DEF insertRefused, perk, removeOrPerkRefused, size
<1> QED BY <1>2, <1>3 DEF IInv, TypeOK, IndicesAgree, Around

LEMMA InsertIInv ==
  ASSUME IInv, NEW element \in Element, insert(element)
  PROVE  IInv'
<1> DEFINE last == (IF rear = maxSize - 1 THEN -1 ELSE rear) + 1
<1>1. /\ lenght \in 0..(maxSize - 1)
      /\ last \in Cell
      /\ array' = [array EXCEPT ![last] = element]
      /\ lenght' = lenght + 1 /\ rear' = last /\ front' = front /\ outcome' = Done
  BY MaxSizeAssumption DEF IInv, TypeOK, insert, isFull, Cell
<1>2. TypeOK'
  <2>1. array' \in [Cell -> Element] /\ rear' \in Cell \cup {-1}
    BY <1>1 DEF IInv, TypeOK
  <2>2. lenght' \in 0..maxSize
    BY <1>1, MaxSizeAssumption
  <2>3. front' \in Cell \cup {0}
    BY <1>1 DEF IInv, TypeOK
  <2>4. outcome' \in Outcome
    BY <1>1 DEF Outcome
  <2> QED BY <2>1, <2>2, <2>3, <2>4 DEF TypeOK, Cell, Outcome
<1>3. IndicesAgree'
  BY <1>1, MaxSizeAssumption DEF IInv, TypeOK, IndicesAgree, Around, Cell
<1> QED BY <1>2, <1>3 DEF IInv

LEMMA RemoveIInv ==
  ASSUME IInv, remove
  PROVE  IInv'
<1>1. lenght \in 1..maxSize /\ front \in Cell
  BY MaxSizeAssumption DEF IInv, TypeOK, remove, isEmpty, Cell
<1>2. TypeOK'
  <2>1. front' \in Cell /\ lenght' \in 0..maxSize
    BY <1>1, MaxSizeAssumption DEF remove, Cell
  <2>2. outcome' \in Outcome
    BY <1>1 DEF IInv, TypeOK, remove, Outcome
  <2> QED BY <2>1, <2>2 DEF IInv, TypeOK, remove, Cell, Outcome
<1>3. IndicesAgree'
  BY <1>1, MaxSizeAssumption DEF IInv, TypeOK, remove, IndicesAgree, Around, Cell
<1> QED BY <1>2, <1>3 DEF IInv

LEMMA NextIInv == IInv /\ [Next]_vars => IInv'
<1> SUFFICES ASSUME IInv, [Next]_vars PROVE IInv' OBVIOUS
<1>1. CASE UNCHANGED vars
  BY <1>1 DEF vars, IInv, TypeOK, IndicesAgree, Around
<1>2. CASE \E element \in Element : insert(element) BY <1>2, InsertIInv
<1>3. CASE remove BY <1>3, RemoveIInv
<1>4. CASE insertRefused \/ perk \/ removeOrPerkRefused \/ size BY <1>4, LookIInv
<1> QED BY <1>1, <1>2, <1>3, <1>4 DEF Next

\* The array's cells, indices and count keep their types (lines 13-17).
THEOREM TypeCorrect == Spec => []TypeOK
<1>1. IInv => TypeOK BY DEF IInv
<1> QED BY <1>1, InitIInv, NextIInv, PTL DEF Spec

\* front, rear and lenght, which insert and remove write separately, never disagree.
THEOREM IndicesAlwaysAgree == Spec => []IndicesAgree
<1>1. IInv => IndicesAgree BY DEF IInv
<1> QED BY <1>1, InitIInv, NextIInv, PTL DEF Spec

-----------------------------------------------------------------------------
\* The steps of BoundedFifo that the calls implement.

\* n cells read around the circle are a sequence of n values.
LEMMA ReadAround ==
  ASSUME NEW n \in 0..maxSize, NEW first \in Cell \cup {0}, NEW a \in [Cell -> Element]
  PROVE  /\ [k \in 1..n |-> a[Around(first, k - 1)]] \in Seq(Element)
         /\ Len([k \in 1..n |-> a[Around(first, k - 1)]]) = n
<1>1. \A k \in 1..n : Around(first, k - 1) \in Cell
  BY MaxSizeAssumption DEF Around, Cell
<1> QED BY <1>1, MaxSizeAssumption

LEMMA ContentsType ==
  ASSUME IInv
  PROVE  Contents \in Seq(Element) /\ Len(Contents) = lenght
BY ReadAround DEF IInv, TypeOK, Contents

LEMMA InitRefines == Init => Fifo!FifoInit
BY DEF Init, Contents, Fifo!FifoInit, Done, Fifo!Done

LEMMA InsertRefines ==
  ASSUME IInv, NEW element \in Element, insert(element)
  PROVE  Fifo!FifoInsert(element)
<1> DEFINE last == (IF rear = maxSize - 1 THEN -1 ELSE rear) + 1
<1>1. /\ lenght \in 0..(maxSize - 1)
      /\ last \in Cell
      /\ array' = [array EXCEPT ![last] = element]
      /\ lenght' = lenght + 1 /\ rear' = last /\ front' = front
  BY MaxSizeAssumption DEF IInv, TypeOK, insert, isFull, Cell
<1>2. Around(front, lenght) = last
  BY <1>1, MaxSizeAssumption DEF IInv, TypeOK, IndicesAgree, Cell
<1>3. \A k \in 1..lenght : Around(front, k - 1) \in Cell /\ Around(front, k - 1) # last
  BY <1>1, <1>2, MaxSizeAssumption DEF IInv, TypeOK, Around, Cell
<1>4. \A k \in 1..(lenght + 1) :
        array'[Around(front, k - 1)] = IF k <= lenght THEN array[Around(front, k - 1)] ELSE element
  <2> SUFFICES ASSUME NEW k \in 1..(lenght + 1)
               PROVE  array'[Around(front, k - 1)] =
                        IF k <= lenght THEN array[Around(front, k - 1)] ELSE element
    OBVIOUS
  <2>1. CASE k <= lenght
    <3>1. k \in 1..lenght BY <2>1, <1>1
    <3> QED BY <3>1, <1>1, <1>3 DEF IInv, TypeOK
  <2>2. CASE k > lenght
    <3>1. k - 1 = lenght BY <2>2, <1>1
    <3> QED BY <3>1, <2>2, <1>1, <1>2 DEF IInv, TypeOK
  <2> QED BY <2>1, <2>2, <1>1
<1>5. Contents' = [k \in 1..(lenght + 1) |-> array'[Around(front, k - 1)]]
  BY <1>1 DEF Contents, Around
<1>6. Contents' = Append(Contents, element)
  <2>1. Contents \in Seq(Element) /\ Len(Contents) = lenght
    BY ContentsType
  <2>2. /\ Append(Contents, element) \in Seq(Element)
        /\ Len(Append(Contents, element)) = lenght + 1
        /\ \A k \in 1..(lenght + 1) :
             Append(Contents, element)[k] = IF k <= lenght THEN Contents[k] ELSE element
    BY <2>1, <1>1, AppendProperties
  <2>3. Contents' \in Seq(Element) /\ Len(Contents') = lenght + 1
    <3> HIDE DEF last
    <3>1. lenght + 1 \in 0..maxSize BY <1>1, MaxSizeAssumption
    <3>2. array' \in [Cell -> Element] BY <1>1 DEF IInv, TypeOK
    <3> QED BY <1>5, <3>1, <3>2, ReadAround DEF IInv, TypeOK
  <2>4. \A k \in 1..lenght : Contents[k] = array[Around(front, k - 1)]
    BY DEF Contents
  <2>5. \A k \in 1..(lenght + 1) : Contents'[k] = Append(Contents, element)[k]
    BY <2>2, <2>4, <1>1, <1>4, <1>5
  <2> QED BY <2>2, <2>3, <2>5, SeqEqual
<1>7. Len(Contents) < maxSize BY <1>1, ContentsType, MaxSizeAssumption
<1> QED BY <1>6, <1>7 DEF Fifo!FifoInsert, insert, Done, Fifo!Done

LEMMA RemoveRefines ==
  ASSUME IInv, remove
  PROVE  Fifo!FifoRemove
<1>1. lenght \in 1..maxSize /\ front \in Cell
  BY MaxSizeAssumption DEF IInv, TypeOK, remove, isEmpty, Cell
<1>2. Contents \in Seq(Element) /\ Len(Contents) = lenght
  BY ContentsType
<1>3. Contents # <<>> /\ Head(Contents) = array[front]
  BY <1>1, <1>2, MaxSizeAssumption DEF Contents, Around, Cell
<1>4. \A k \in 1..(lenght - 1) : Around(front', k - 1) = Around(front, k)
  BY <1>1, MaxSizeAssumption DEF remove, Around, Cell
<1>5. Contents' = [k \in 1..(lenght - 1) |-> array[Around(front', k - 1)]]
  BY DEF remove, Contents, Around
<1>6. Contents' = Tail(Contents)
  <2>1. /\ Tail(Contents) \in Seq(Element)
        /\ Len(Tail(Contents)) = lenght - 1
        /\ \A k \in 1..(lenght - 1) : Tail(Contents)[k] = Contents[k + 1]
    BY <1>1, <1>2, <1>3, HeadTailProperties
  <2>2. front' \in Cell
    BY <1>1, MaxSizeAssumption DEF remove, Cell
  <2>3. Contents' \in Seq(Element) /\ Len(Contents') = lenght - 1
    <3>1. lenght - 1 \in 0..maxSize BY <1>1, MaxSizeAssumption
    <3> QED BY <1>5, <2>2, <3>1, ReadAround DEF IInv, TypeOK
  <2>4. \A k \in 1..(lenght - 1) : Contents[k + 1] = array[Around(front, k)]
    BY <1>1 DEF Contents
  <2>5. \A k \in 1..(lenght - 1) : Contents'[k] = Tail(Contents)[k]
    BY <2>1, <2>4, <1>1, <1>4, <1>5
  <2> QED BY <2>1, <2>3, <2>5, SeqEqual
<1> QED BY <1>3, <1>6 DEF Fifo!FifoRemove, remove, Returned, Fifo!Returned

LEMMA LookRefines ==
  ASSUME IInv, insertRefused \/ perk \/ removeOrPerkRefused \/ size
  PROVE  \/ \E element \in Element : Fifo!FifoInsert(element)
         \/ Fifo!FifoPerk \/ Fifo!FifoRefuses \/ Fifo!FifoSize
<1>1. Contents \in Seq(Element) /\ Len(Contents) = lenght
  BY ContentsType
<1>2. Contents' = Contents
  BY DEF Contents, Around, insertRefused, perk, removeOrPerkRefused, size
<1>3. CASE insertRefused
  <2>1. Fifo!FifoInsert(Zero)
    BY <1>1, <1>2, <1>3
    DEF Fifo!FifoInsert, insertRefused, isFull, Thrown, Fifo!Thrown
  <2> QED BY <2>1, ZeroAssumption
<1>4. CASE perk
  <2>1. Contents # <<>> /\ Head(Contents) = array[front]
    BY <1>1, <1>4, MaxSizeAssumption DEF IInv, TypeOK, perk, isEmpty, Contents, Around, Cell
  <2> QED BY <1>2, <1>4, <2>1 DEF Fifo!FifoPerk, perk, Returned, Fifo!Returned
<1>5. CASE removeOrPerkRefused
  <2>1. Contents = <<>> BY <1>1, <1>5, EmptySeq DEF removeOrPerkRefused, isEmpty
  <2> QED BY <1>2, <1>5, <2>1 DEF Fifo!FifoRefuses, removeOrPerkRefused, Thrown, Fifo!Thrown
<1>6. CASE size
  BY <1>1, <1>2, <1>6 DEF Fifo!FifoSize, size, Returned, Fifo!Returned
<1> QED BY <1>3, <1>4, <1>5, <1>6

LEMMA NextRefines ==
  ASSUME IInv, [Next]_vars
  PROVE  [Fifo!FifoNext]_<<Contents, outcome>>
<1>1. CASE UNCHANGED vars
  BY <1>1 DEF vars, Contents, Around
<1>2. CASE \E element \in Element : insert(element)
  BY <1>2, InsertRefines DEF Fifo!FifoNext
<1>3. CASE remove BY <1>3, RemoveRefines DEF Fifo!FifoNext
<1>4. CASE insertRefused \/ perk \/ removeOrPerkRefused \/ size
  BY <1>4, LookRefines DEF Fifo!FifoNext
<1> QED BY <1>1, <1>2, <1>3, <1>4 DEF Next

\* For every size of the array, the calls return and throw what those of a bounded
\* first-in first-out queue do (lines 30-100).
THEOREM RingQueueIsFifo == Spec => IsFifo
<1>1. Spec => []IInv BY InitIInv, NextIInv, PTL DEF Spec
<1> QED BY <1>1, InitRefines, NextRefines, PTL DEF Spec, IsFifo, Fifo!FifoSpec

-----------------------------------------------------------------------------
(* The conversions of a frame. *)

\* A frame's array holds a luma byte for each pixel and a pair of chroma bytes
\* for each square of four.
FrameOK ==
  /\ frame.format \in {"YV12", "NV21", "YUV420sp", "YUV420p"}
  /\ frame.width \in Nat \ {0} /\ frame.width % 2 = 0
  /\ frame.height \in Nat \ {0} /\ frame.height % 2 = 0
  /\ DOMAIN frame.data = 0 .. (frame.width * frame.height * 3) \div 2 - 1

\* Half the width, half the height, and the number of chroma pairs.
LEMMA HalfSizes ==
  ASSUME NEW w \in Nat \ {0}, NEW h \in Nat \ {0}, w % 2 = 0, h % 2 = 0
  PROVE  \E a \in Nat \ {0}, b \in Nat \ {0}, q \in Nat \ {0} :
           /\ w = 2 * a /\ h = 2 * b /\ q = a * b /\ w \div 2 = a /\ h \div 2 = b
           /\ w * h = 4 * q /\ (w * h) \div 4 = q /\ (w * h * 3) \div 2 = 6 * q
<1> DEFINE a == w \div 2
           b == h \div 2
<1>1. a \in Nat \ {0} /\ b \in Nat \ {0} /\ w = 2 * a /\ h = 2 * b
  OBVIOUS
<1> HIDE DEF a, b
<1>2. PICK q \in Nat : q = a * b
  BY <1>1
<1>3. q # 0
  <2>1. \A x, y \in Nat \ {0} : x * y # 0 OBVIOUS
  <2> QED BY <1>1, <1>2, <2>1
<1>4. w * h = 4 * q
  <2>1. \A x, y \in Nat : (2 * x) * (2 * y) = 4 * (x * y) OBVIOUS
  <2> QED BY <1>1, <1>2, <2>1
<1>5. (w * h) \div 4 = q /\ (w * h * 3) \div 2 = 6 * q
  <2>1. (4 * q) \div 4 = q /\ (4 * q * 3) \div 2 = 6 * q BY <1>2
  <2> QED BY <1>4, <2>1
<1>6. w \div 2 = a /\ h \div 2 = b BY DEF a, b
<1> QED BY <1>1, <1>2, <1>3, <1>4, <1>5, <1>6

\* Row and column of the element number c * p + n of a plane of r rows and c columns.
LEMMA RowAndColumn ==
  ASSUME NEW r \in Nat, NEW c \in Nat \ {0}, NEW p \in 0 .. r - 1, NEW n \in 0 .. c - 1
  PROVE  /\ c * p + n \in Nat /\ c * p + n < c * r
         /\ (c * p + n) \div c = p /\ (c * p + n) % c = n
<1>1. PICK m \in Nat : m = c * p
  <2>1. \A x, y \in Nat : x * y \in Nat OBVIOUS
  <2> QED BY <2>1
<1>2. m + c <= c * r
  <2>1. \A x, y, z \in Nat : y < z => x * y + x <= x * z OBVIOUS
  <2> QED BY <1>1, <2>1
<1>3. (m + n) \div c = p
  <2>1. \A x, y, z \in Nat : z < x => (x * y + z) \div x = y OBVIOUS
  <2> QED BY <1>1, <2>1
<1>4. (m + n) % c = n
  <2>1. \A x, y, z \in Nat : z < x => (x * y + z) % x = z OBVIOUS
  <2> QED BY <1>1, <2>1
<1>5. c * r \in Nat
  <2>1. \A x, y \in Nat : x * y \in Nat OBVIOUS
  <2> QED BY <2>1
<1> QED BY <1>1, <1>2, <1>3, <1>4, <1>5

LEMMA FrameInitOK == FrameInit => FrameOK
<1> SUFFICES ASSUME FrameInit PROVE FrameOK OBVIOUS
<1>1. PICK s \in FrameSizes, f \in {"NV21", "YV12"} :
           frame = Frame(f, s[1], s[2], [k \in 0 .. (s[1] * s[2] * 3) \div 2 - 1 |-> k])
  BY DEF FrameInit
<1> QED BY <1>1, FrameSizesAssumption DEF FrameOK, Frame

\* What a frame is after a call.
Becomes(format, w, h, d) == frame' = Frame(format, w, h, d)

\* The calls on the elements themselves, without the record's fields.
LEMMA CallsOf ==
  ASSUME FrameOK, FrameNext, ~ called'[3], called'[1] # "UnsatisfiedLinkError"
  PROVE  LET w == frame.width
             h == frame.height
             d == frame.data
         IN  \/ /\ frame.format = "YV12" /\ called'[2] = 0
                /\ Becomes("NV21", w, h, NativeYV12ToNV21(d, w * h))
             \/ /\ frame.format = "NV21" /\ called'[2] = 0
                /\ Becomes("YUV420sp", w, h, NativeNV21ToYUV420sp(d, w * h))
             \/ /\ frame.format = "NV21" /\ called'[2] = 0
                /\ Becomes("YUV420p", w, h, NativeNV21ToYUV420p(d, w * h))
             \/ /\ frame.format = "NV21" /\ called'[2] \in {90, 180, 270}
                /\ Becomes("NV21", IF called'[2] = 180 THEN w ELSE h,
                           IF called'[2] = 180 THEN h ELSE w,
                           NativeRotateBackNV21(d, w, h, called'[2]))
<1> DEFINE w == frame.width
           h == frame.height
           d == frame.data
<1>1. CASE YV12ToNV21
  BY <1>1 DEF YV12ToNV21, NativeReturns, LumaLength, Becomes
<1>2. CASE NV21ToYUV420sp
  BY <1>2 DEF NV21ToYUV420sp, NativeReturns, LumaLength, Becomes
<1>3. CASE NV21ToYUV420p
  BY <1>3 DEF NV21ToYUV420p, NativeReturns, LumaLength, Becomes
<1>4. CASE \E degree \in {90, 180, 270} : RotateBackNV21(degree)
  BY <1>4 DEF RotateBackNV21, NativeReturns, Becomes
<1>5. CASE RotateFrontNV21
  BY <1>5 DEF RotateFrontNV21
<1> QED BY <1>1, <1>2, <1>3, <1>4, <1>5 DEF FrameNext

\* A call whose elements were a copy, and one that Java does not find, change nothing.
LEMMA OtherCalls ==
  ASSUME FrameNext, called'[3] \/ called'[1] = "UnsatisfiedLinkError"
  PROVE  frame' = frame
<1>1. ASSUME NEW name, name # "UnsatisfiedLinkError", NEW degree, NEW result,
             NativeReturns(name, degree, result)
      PROVE  frame' = frame
  BY <1>1 DEF NativeReturns
<1>2. CASE RotateFrontNV21
  BY <1>2 DEF RotateFrontNV21
<1>3. CASE YV12ToNV21 BY <1>1, <1>3 DEF YV12ToNV21
<1>4. CASE NV21ToYUV420sp BY <1>1, <1>4 DEF NV21ToYUV420sp
<1>5. CASE NV21ToYUV420p BY <1>1, <1>5 DEF NV21ToYUV420p
<1>6. CASE \E degree \in {90, 180, 270} : RotateBackNV21(degree)
  BY <1>1, <1>6 DEF RotateBackNV21
<1> QED BY <1>2, <1>3, <1>4, <1>5, <1>6 DEF FrameNext

LEMMA FrameNextOK == FrameOK /\ [FrameNext]_yuvVars => FrameOK'
<1> SUFFICES ASSUME FrameOK, [FrameNext]_yuvVars PROVE FrameOK' OBVIOUS
<1>1. CASE frame' = frame
  BY <1>1 DEF FrameOK
<1>2. CASE frame' # frame
  <2>1. FrameNext BY <1>2 DEF yuvVars
  <2>2. ~ called'[3] /\ called'[1] # "UnsatisfiedLinkError" BY <1>2, <2>1, OtherCalls
  <2>3. /\ frame.width \in Nat \ {0} /\ frame.width % 2 = 0
        /\ frame.height \in Nat \ {0} /\ frame.height % 2 = 0
        /\ DOMAIN frame.data = 0 .. (frame.width * frame.height * 3) \div 2 - 1
    BY DEF FrameOK
  <2>4. frame.width * frame.height = frame.height * frame.width
    <3>1. \A x, y \in Nat : x * y = y * x OBVIOUS
    <3> QED BY <2>3, <3>1
  <2>5. \E g \in {"NV21", "YUV420sp", "YUV420p"} : \E e :
          /\ DOMAIN e = DOMAIN frame.data
          /\ \/ Becomes(g, frame.width, frame.height, e)
             \/ Becomes(g, frame.height, frame.width, e)
    <3> DEFINE d == frame.data
               wh == frame.width * frame.height
    <3>1. /\ DOMAIN NativeYV12ToNV21(d, wh) = DOMAIN d
          /\ DOMAIN NativeNV21ToYUV420sp(d, wh) = DOMAIN d
          /\ DOMAIN NativeNV21ToYUV420p(d, wh) = DOMAIN d
      BY DEF NativeYV12ToNV21, NativeNV21ToYUV420sp, NativeNV21ToYUV420p
    <3>2. \A degree : DOMAIN NativeRotateBackNV21(d, frame.width, frame.height, degree) = DOMAIN d
      BY DEF NativeRotateBackNV21, Moved
    <3>3. \A degree : Becomes("NV21", IF degree = 180 THEN frame.width ELSE frame.height,
                              IF degree = 180 THEN frame.height ELSE frame.width,
                              NativeRotateBackNV21(d, frame.width, frame.height, degree))
            => \/ Becomes("NV21", frame.width, frame.height,
                          NativeRotateBackNV21(d, frame.width, frame.height, degree))
               \/ Becomes("NV21", frame.height, frame.width,
                          NativeRotateBackNV21(d, frame.width, frame.height, degree))
      OBVIOUS
    <3> QED BY <2>1, <2>2, <3>1, <3>2, <3>3, CallsOf
  <2> QED BY <2>3, <2>4, <2>5 DEF Becomes, Frame, FrameOK
<1> QED BY <1>1, <1>2
-----------------------------------------------------------------------------
SameLuma(f, g, q) == \A k \in 0 .. 4 * q - 1 : g.data[k] = f.data[k]
SameChroma(f, g, q) ==
  \A n \in 0 .. q - 1 :
    /\ g.data[4 * q + U(g.format, n, q)] = f.data[4 * q + U(f.format, n, q)]
    /\ g.data[4 * q + V(g.format, n, q)] = f.data[4 * q + V(f.format, n, q)]

\* Two frames of the same size show the same picture when they have the same luma bytes, and
\* the same chroma bytes at the places their formats give them.
LEMMA SamePicture ==
  ASSUME NEW f, NEW g, NEW w \in Nat \ {0}, NEW h \in Nat \ {0}, w % 2 = 0, h % 2 = 0,
         f.width = w, f.height = h, g.width = w, g.height = h,
         NEW q \in Nat, (w * h) \div 4 = q, w * h = 4 * q,
         SameLuma(f, g, q), SameChroma(f, g, q)
  PROVE  /\ Picture(g).y = Picture(f).y
         /\ Picture(g).u = Picture(f).u
         /\ Picture(g).v = Picture(f).v
<1>1. PICK a \in Nat \ {0}, b \in Nat \ {0} :
        w = 2 * a /\ h = 2 * b /\ q = a * b /\ w \div 2 = a /\ h \div 2 = b
  BY HalfSizes
<1>2. ASSUME NEW p \in Grid(h, w)
      PROVE  g.data[w * p[1] + p[2]] = f.data[w * p[1] + p[2]]
  <2>1. PICK r \in 0 .. h - 1, c \in 0 .. w - 1 : p = <<r, c>> BY DEF Grid
  <2>2. w * r + c \in Nat /\ w * r + c < w * h BY RowAndColumn
  <2>3. w * r + c \in 0 .. 4 * q - 1 BY <2>2
  <2> QED BY <2>1, <2>3 DEF SameLuma
<1>3. ASSUME NEW p \in Grid(b, a)
      PROVE  a * p[1] + p[2] \in 0 .. q - 1
  <2>1. PICK r \in 0 .. b - 1, c \in 0 .. a - 1 : p = <<r, c>> BY DEF Grid
  <2>2. a * r + c \in Nat /\ a * r + c < a * b BY <1>1, RowAndColumn
  <2> QED BY <1>1, <2>1, <2>2
<1>4. Picture(g).y = Picture(f).y
  BY <1>2 DEF Picture
<1>5. Picture(g).u = Picture(f).u /\ Picture(g).v = Picture(f).v
  <2>1. \A p \in Grid(b, a) :
          /\ g.data[4 * q + U(g.format, a * p[1] + p[2], q)]
               = f.data[4 * q + U(f.format, a * p[1] + p[2], q)]
          /\ g.data[4 * q + V(g.format, a * p[1] + p[2], q)]
               = f.data[4 * q + V(f.format, a * p[1] + p[2], q)]
    BY <1>3 DEF SameChroma
  <2> DEFINE u(x) == [p \in Grid(b, a) |-> x.data[4 * q + U(x.format, a * p[1] + p[2], q)]]
             v(x) == [p \in Grid(b, a) |-> x.data[4 * q + V(x.format, a * p[1] + p[2], q)]]
  <2>2. Picture(f).u = u(f) /\ Picture(g).u = u(g)
    BY <1>1 DEF Picture
  <2>3. Picture(f).v = v(f) /\ Picture(g).v = v(g)
    BY <1>1 DEF Picture
  <2>4. u(g) = u(f) /\ v(g) = v(f) BY <2>1
  <2> HIDE DEF u, v
  <2> QED BY <2>2, <2>3, <2>4
<1> QED BY <1>4, <1>5

\* Converting changes the format and nothing that the picture shows.
LEMMA ConversionKeepsPicture ==
  ASSUME NEW f, NEW g, NEW w \in Nat \ {0}, NEW h \in Nat \ {0}, w % 2 = 0, h % 2 = 0,
         f.width = w, f.height = h, DOMAIN f.data = 0 .. (w * h * 3) \div 2 - 1,
         \/ f.format = "YV12" /\ g = Frame("NV21", w, h, NativeYV12ToNV21(f.data, w * h))
         \/ f.format = "NV21" /\ g = Frame("YUV420sp", w, h, NativeNV21ToYUV420sp(f.data, w * h))
         \/ f.format = "NV21" /\ g = Frame("YUV420p", w, h, NativeNV21ToYUV420p(f.data, w * h))
  PROVE  /\ Picture(g).y = Picture(f).y
         /\ Picture(g).u = Picture(f).u
         /\ Picture(g).v = Picture(f).v
<1>1. PICK q \in Nat \ {0} :
        w * h = 4 * q /\ (w * h) \div 4 = q /\ (w * h * 3) \div 2 = 6 * q
  <2>1. PICK a \in Nat \ {0}, b \in Nat \ {0}, q \in Nat \ {0} :
           /\ w = 2 * a /\ h = 2 * b /\ q = a * b /\ w \div 2 = a /\ h \div 2 = b
           /\ w * h = 4 * q /\ (w * h) \div 4 = q /\ (w * h * 3) \div 2 = 6 * q
    BY HalfSizes
  <2> QED BY <2>1
<1>2. DOMAIN f.data = 0 .. 6 * q - 1 /\ (4 * q) \div 4 = q BY <1>1
<1>3. g.width = w /\ g.height = h BY DEF Frame
<1>4. CASE f.format = "YV12" /\ g = Frame("NV21", w, h, NativeYV12ToNV21(f.data, w * h))
  <2>1. g.format = "NV21" /\ g.data = NativeYV12ToNV21(f.data, 4 * q) BY <1>1, <1>4 DEF Frame
  <2>2. SameLuma(f, g, q)
    BY <1>2, <2>1 DEF SameLuma, NativeYV12ToNV21
  <2>3. ASSUME NEW n \in 0 .. q - 1
        PROVE  /\ g.data[4 * q + (2 * n + 1)] = f.data[4 * q + (q + n)]
               /\ g.data[4 * q + 2 * n] = f.data[4 * q + n]
    <3>1. g.data[4 * q + (2 * n + 1)] = f.data[4 * q + (q + n)]
      <4>1. PICK k \in 0 .. 6 * q - 1 : k = 4 * q + (2 * n + 1) OBVIOUS
      <4>2. ~(k < 4 * q) /\ (k - 4 * q) \div 2 = n /\ (k - 4 * q) % 2 = 1 BY <4>1
      <4>3. g.data[k] = f.data[4 * q + (4 * q) \div 4 + (k - 4 * q) \div 2]
        BY <1>2, <2>1, <4>2 DEF NativeYV12ToNV21
      <4>4. 4 * q + (4 * q) \div 4 + (k - 4 * q) \div 2 = 4 * q + (q + n)
        BY <1>2, <4>2
      <4> QED BY <4>1, <4>3, <4>4
    <3>2. g.data[4 * q + 2 * n] = f.data[4 * q + n]
      <4>1. PICK k \in 0 .. 6 * q - 1 : k = 4 * q + 2 * n OBVIOUS
      <4>2. ~(k < 4 * q) /\ (k - 4 * q) \div 2 = n /\ (k - 4 * q) % 2 = 0 BY <4>1
      <4>3. g.data[k] = f.data[4 * q + (k - 4 * q) \div 2]
        BY <1>2, <2>1, <4>2 DEF NativeYV12ToNV21
      <4> QED BY <4>1, <4>2, <4>3
    <3> QED BY <3>1, <3>2
  <2>4. SameChroma(f, g, q)
    BY <1>4, <2>1, <2>3 DEF SameChroma, U, V
  <2> QED BY <1>1, <1>3, <2>2, <2>4, SamePicture
<1>5. CASE f.format = "NV21" /\ g = Frame("YUV420sp", w, h, NativeNV21ToYUV420sp(f.data, w * h))
  <2>1. g.format = "YUV420sp" /\ g.data = NativeNV21ToYUV420sp(f.data, 4 * q)
    BY <1>1, <1>5 DEF Frame
  <2>2. SameLuma(f, g, q)
    BY SMTT(30), <1>2, <2>1 DEF SameLuma, NativeNV21ToYUV420sp
  <2>3. ASSUME NEW n \in 0 .. q - 1
        PROVE  /\ g.data[4 * q + 2 * n] = f.data[4 * q + (2 * n + 1)]
               /\ g.data[4 * q + (2 * n + 1)] = f.data[4 * q + 2 * n]
    <3>1. g.data[4 * q + 2 * n] = f.data[4 * q + (2 * n + 1)]
      <4>1. PICK k \in 0 .. 6 * q - 1 : k = 4 * q + 2 * n OBVIOUS
      <4>2. ~(k < 4 * q) /\ (k - 4 * q) % 2 = 0 /\ k + 1 = 4 * q + (2 * n + 1) BY <4>1
      <4>3. g.data[k] = f.data[4 * q + (2 * n + 1)]
        BY <1>2, <2>1, <4>2 DEF NativeNV21ToYUV420sp
      <4> QED BY <4>1, <4>3
    <3>2. g.data[4 * q + (2 * n + 1)] = f.data[4 * q + 2 * n]
      <4>1. PICK k \in 0 .. 6 * q - 1 : k = 4 * q + (2 * n + 1) OBVIOUS
      <4>2. ~(k < 4 * q) /\ (k - 4 * q) % 2 = 1 /\ k - 1 = 4 * q + 2 * n BY <4>1
      <4>3. g.data[k] = f.data[4 * q + 2 * n]
        BY <1>2, <2>1, <4>2 DEF NativeNV21ToYUV420sp
      <4> QED BY <4>1, <4>3
    <3> QED BY <3>1, <3>2
  <2>4. SameChroma(f, g, q)
    BY <1>5, <2>1, <2>3 DEF SameChroma, U, V
  <2> QED BY <1>1, <1>3, <2>2, <2>4, SamePicture
<1>6. CASE f.format = "NV21" /\ g = Frame("YUV420p", w, h, NativeNV21ToYUV420p(f.data, w * h))
  <2>1. g.format = "YUV420p" /\ g.data = NativeNV21ToYUV420p(f.data, 4 * q)
    BY <1>1, <1>6 DEF Frame
  <2>2. SameLuma(f, g, q)
    BY <1>2, <2>1 DEF SameLuma, NativeNV21ToYUV420p
  <2>3. ASSUME NEW n \in 0 .. q - 1
        PROVE  /\ g.data[4 * q + n] = f.data[4 * q + (2 * n + 1)]
               /\ g.data[4 * q + (q + n)] = f.data[4 * q + 2 * n]
    <3>1. g.data[4 * q + n] = f.data[4 * q + (2 * n + 1)]
      <4>1. PICK k \in 0 .. 6 * q - 1 : k = 4 * q + n OBVIOUS
      <4>2. ~(k < 4 * q) /\ k - 4 * q < q /\ k - 4 * q = n BY <4>1
      <4>3. g.data[k] = f.data[4 * q + (2 * n + 1)]
        BY <1>2, <2>1, <4>2 DEF NativeNV21ToYUV420p
      <4> QED BY <4>1, <4>3
    <3>2. g.data[4 * q + (q + n)] = f.data[4 * q + 2 * n]
      <4>1. PICK k \in 0 .. 6 * q - 1 : k = 4 * q + (q + n) OBVIOUS
      <4>2. ~(k < 4 * q) /\ ~(k - 4 * q < q) /\ k - 4 * q - q = n BY <4>1
      <4>3. g.data[k] = f.data[4 * q + 2 * n]
        BY <1>2, <2>1, <4>2 DEF NativeNV21ToYUV420p
      <4> QED BY <4>1, <4>3
    <3> QED BY <3>1, <3>2
  <2>4. SameChroma(f, g, q)
    BY <1>6, <2>1, <2>3 DEF SameChroma, U, V
  <2> QED BY <1>1, <1>3, <2>2, <2>4, SamePicture
<1> QED BY <1>4, <1>5, <1>6
-----------------------------------------------------------------------------
\* Where the samples of a turned plane come from.
LEMMA TurnedOnce ==
  ASSUME NEW plane, NEW h \in Nat, NEW w \in Nat, NEW r \in 0 .. w - 1, NEW c \in 0 .. h - 1
  PROVE  Turned(plane, h, w)[<<r, c>>] = plane[<<h - 1 - c, r>>]
BY DEF Turned, Grid

LEMMA TurnedTwice ==
  ASSUME NEW plane, NEW h \in Nat, NEW w \in Nat, NEW r \in 0 .. h - 1, NEW c \in 0 .. w - 1
  PROVE  Expected(plane, h, w, 180)[<<r, c>>] = plane[<<h - 1 - r, w - 1 - c>>]
<1> DEFINE t1 == Turned(plane, h, w)
<1>1. Turned(t1, w, h)[<<r, c>>] = t1[<<w - 1 - c, r>>] BY TurnedOnce
<1>2. w - 1 - c \in 0 .. w - 1 OBVIOUS
<1>3. t1[<<w - 1 - c, r>>] = plane[<<h - 1 - r, w - 1 - c>>] BY <1>2, TurnedOnce
<1> QED BY <1>1, <1>3 DEF Expected

\* The rows and columns of a turned plane.
LEMMA TurnedIsPlane ==
  ASSUME NEW plane, NEW h, NEW w
  PROVE  /\ Expected(plane, h, w, 90) = [p \in Grid(w, h) |-> Expected(plane, h, w, 90)[p]]
         /\ Expected(plane, h, w, 180) = [p \in Grid(h, w) |-> Expected(plane, h, w, 180)[p]]
BY DEF Expected, Turned

\* Where the bytes of a turned frame come from, by row and column.
LEMMA TurnedBytes ==
  ASSUME NEW h \in Nat \ {0}, NEW w \in Nat \ {0}
  PROVE  /\ \A r \in 0 .. w - 1, c \in 0 .. h - 1 :
              Luma90(h * r + c, w, h) = w * (h - 1 - c) + r
         /\ \A r \in 0 .. h - 1, c \in 0 .. w - 1 :
              Luma180(w * r + c, w, h) = w * (h - 1 - r) + (w - 1 - c)
<1>1. ASSUME NEW r \in 0 .. w - 1, NEW c \in 0 .. h - 1
      PROVE  Luma90(h * r + c, w, h) = w * (h - 1 - c) + r
  <2>1. (h * r + c) \div h = r /\ (h * r + c) % h = c BY RowAndColumn
  <2>2. w * (h - 1 - c) \in Nat
    <3>1. \A x, y \in Nat : x * y \in Nat OBVIOUS
    <3> QED BY <3>1
  <2> QED BY <2>1, <2>2 DEF Luma90
<1>2. ASSUME NEW r \in 0 .. h - 1, NEW c \in 0 .. w - 1
      PROVE  Luma180(w * r + c, w, h) = w * (h - 1 - r) + (w - 1 - c)
  <2>1. w * (h - 1 - r) = w * h - w - w * r
    <3>1. \A x, y, z \in Nat : x * (y - 1 - z) = x * y - x - x * z OBVIOUS
    <3> QED BY <3>1
  <2>2. w * h \in Nat /\ w * r \in Nat
    <3>1. \A x, y \in Nat : x * y \in Nat OBVIOUS
    <3> QED BY <3>1
  <2> QED BY <2>1, <2>2 DEF Luma180
<1> QED BY <1>1, <1>2

\* And its chroma pairs; a and b are half the width and half the height.
LEMMA QuarterPairs ==
  ASSUME NEW b \in Nat \ {0}, NEW a \in Nat \ {0},
         NEW r \in 0 .. a - 1, NEW c \in 0 .. b - 1
  PROVE  Pair90(b * r + c, 2 * a, 2 * b) = 2 * (a * (b - 1 - c) + r)
<1>0. (2 * b) \div 2 = b OBVIOUS
<1>1. (b * r + c) \div b = r /\ (b * r + c) % b = c BY RowAndColumn
<1>2. PICK m \in Nat : m = a * (b - 1 - c) /\ (2 * a) * (b - 1 - c) = 2 * m
  <2>1. \A x, y \in Nat : x * y \in Nat /\ (2 * x) * y = 2 * (x * y) OBVIOUS
  <2> QED BY <2>1
<1>3. Pair90(b * r + c, 2 * a, 2 * b) = (2 * a) * (b - 1 - c) + 2 * r
  BY <1>0, <1>1 DEF Pair90
<1>4. Pair90(b * r + c, 2 * a, 2 * b) = 2 * (m + r)
  BY <1>2, <1>3
<1> QED BY <1>2, <1>4

LEMMA HalfPairs ==
  ASSUME NEW b \in Nat \ {0}, NEW a \in Nat \ {0},
         NEW r \in 0 .. b - 1, NEW c \in 0 .. a - 1
  PROVE  Pair180(a * r + c, 2 * a, 2 * b) = 2 * (a * (b - 1 - r) + (a - 1 - c))
<1>0. (2 * b) \div 2 = b OBVIOUS
<1>1. a * (b - 1 - r) = a * b - a - a * r
  <2>1. \A x, y, z \in Nat : x * (y - 1 - z) = x * y - x - x * z OBVIOUS
  <2> QED BY <2>1
<1>2. PICK m \in Nat, n \in Nat : m = a * b /\ n = a * r /\ (2 * a) * b = 2 * m
  <2>1. \A x, y \in Nat : x * y \in Nat /\ (2 * x) * y = 2 * (x * y) OBVIOUS
  <2> QED BY <2>1
<1>3. Pair180(a * r + c, 2 * a, 2 * b) = 2 * m - 2 - 2 * (n + c)
  <2>1. Pair180(a * r + c, 2 * a, 2 * b) = (2 * a) * ((2 * b) \div 2) - 2 - 2 * (a * r + c) BY DEF Pair180
  <2>2. (2 * a) * ((2 * b) \div 2) = 2 * m BY <1>0, <1>2
  <2>3. Pair180(a * r + c, 2 * a, 2 * b) = 2 * m - 2 - 2 * (a * r + c) BY <2>1, <2>2
  <2> QED BY <1>2, <2>3
<1>4. a * (b - 1 - r) = m - a - n BY <1>1, <1>2
<1> QED BY <1>2, <1>3, <1>4

\* The plane of h rows and w columns that S gives sample by sample.
PlaneOf(S, h, w) == [p \in Grid(h, w) |-> S[w * p[1] + p[2]]]

\* Where each sample of a turned frame comes from.
TurnsFrom(S, T, h, w, degree) ==
  CASE degree = 90 ->
         \A r \in 0 .. w - 1, c \in 0 .. h - 1 : T[h * r + c] = S[w * (h - 1 - c) + r]
    [] degree = 180 ->
         \A r \in 0 .. h - 1, c \in 0 .. w - 1 : T[w * r + c] = S[w * (h - 1 - r) + (w - 1 - c)]

\* Two planes of the same samples are one.
LEMMA SamePlane ==
  ASSUME NEW T, NEW h, NEW w, NEW e, e = [p \in Grid(h, w) |-> e[p]],
         \A r \in 0 .. h - 1, c \in 0 .. w - 1 : e[<<r, c>>] = T[w * r + c]
  PROVE  e = PlaneOf(T, h, w)
<1>1. ASSUME NEW p \in Grid(h, w)
      PROVE  e[p] = T[w * p[1] + p[2]]
  <2>1. PICK r \in 0 .. h - 1, c \in 0 .. w - 1 : p = <<r, c>> BY DEF Grid
  <2>2. e[<<r, c>>] = T[w * r + c] OBVIOUS
  <2> QED BY <2>1, <2>2
<1> QED BY <1>1 DEF PlaneOf

\* A plane whose samples are moved so is the turned plane.
LEMMA PlaneTurns ==
  ASSUME NEW h \in Nat \ {0}, NEW w \in Nat \ {0}, NEW S, NEW T, NEW degree \in {90, 180},
         TurnsFrom(S, T, h, w, degree)
  PROVE  Expected(PlaneOf(S, h, w), h, w, degree)
           = IF degree = 180 THEN PlaneOf(T, h, w) ELSE PlaneOf(T, w, h)
<1> DEFINE old == PlaneOf(S, h, w)
           e == Expected(old, h, w, degree)
<1>1. ASSUME NEW r \in 0 .. h - 1, NEW c \in 0 .. w - 1
      PROVE  old[<<r, c>>] = S[w * r + c]
  BY DEF PlaneOf, Grid
<1> HIDE DEF old
<1>2. e = [p \in IF degree = 180 THEN Grid(h, w) ELSE Grid(w, h) |-> e[p]]
  <2>1. CASE degree = 90 BY <2>1, TurnedIsPlane
  <2>2. CASE degree = 180 BY <2>2, TurnedIsPlane
  <2> QED BY <2>1, <2>2
<1>3. CASE degree = 90
  <2>1. ASSUME NEW r \in 0 .. w - 1, NEW c \in 0 .. h - 1
        PROVE  e[<<r, c>>] = T[h * r + c]
    <3>1. e[<<r, c>>] = old[<<h - 1 - c, r>>] BY <1>3, TurnedOnce DEF Expected
    <3>2. h - 1 - c \in 0 .. h - 1 OBVIOUS
    <3>3. old[<<h - 1 - c, r>>] = S[w * (h - 1 - c) + r] BY <1>1, <3>2
    <3>4. T[h * r + c] = S[w * (h - 1 - c) + r] BY <1>3 DEF TurnsFrom
    <3> QED BY <3>1, <3>3, <3>4
  <2>2. e = [p \in Grid(w, h) |-> e[p]] BY <1>2, <1>3
  <2> HIDE DEF e
  <2>3. e = PlaneOf(T, w, h) BY <2>1, <2>2, SamePlane
  <2> QED BY <1>3, <2>3 DEF e, old
<1>4. CASE degree = 180
  <2>1. ASSUME NEW r \in 0 .. h - 1, NEW c \in 0 .. w - 1
        PROVE  e[<<r, c>>] = T[w * r + c]
    <3>1. e[<<r, c>>] = old[<<h - 1 - r, w - 1 - c>>] BY <1>4, TurnedTwice
    <3>2. h - 1 - r \in 0 .. h - 1 /\ w - 1 - c \in 0 .. w - 1 OBVIOUS
    <3>3. old[<<h - 1 - r, w - 1 - c>>] = S[w * (h - 1 - r) + (w - 1 - c)] BY <1>1, <3>2
    <3>4. T[w * r + c] = S[w * (h - 1 - r) + (w - 1 - c)] BY <1>4 DEF TurnsFrom
    <3> QED BY <3>1, <3>3, <3>4
  <2>2. e = [p \in Grid(h, w) |-> e[p]] BY <1>2, <1>4
  <2> HIDE DEF e
  <2>3. e = PlaneOf(T, h, w) BY <2>1, <2>2, SamePlane
  <2> QED BY <1>4, <2>3 DEF e, old
<1> QED BY <1>3, <1>4

\* The samples of a frame's planes, by number.
YSamples(d) == [n \in Nat |-> d[n]]
ChromaSamples(d, q, i) == [n \in Nat |-> d[4 * q + 2 * n + i]]

\* A frame of w by h whose planes of colours are of a by b, q samples each; and its picture.
Halved(w, h, a, b, q) ==
  /\ w \in Nat \ {0} /\ h \in Nat \ {0} /\ w % 2 = 0 /\ h % 2 = 0
  /\ a \in Nat \ {0} /\ b \in Nat \ {0} /\ q \in Nat \ {0}
  /\ w \div 2 = a /\ h \div 2 = b /\ (w * h) \div 4 = q /\ w * h = 4 * q
Planes(p, d, w, h, a, b, q) ==
  /\ p.y = PlaneOf(YSamples(d), h, w)
  /\ p.u = PlaneOf(ChromaSamples(d, q, 1), b, a)
  /\ p.v = PlaneOf(ChromaSamples(d, q, 0), b, a)

\* The planes of a frame in NV21, by these.
LEMMA PlanesOfNV21 ==
  ASSUME NEW w, NEW h, NEW a, NEW b, NEW q, Halved(w, h, a, b, q), NEW d
  PROVE  Planes(Picture(Frame("NV21", w, h, d)), d, w, h, a, b, q)
<1>a. w \in Nat \ {0} /\ h \in Nat \ {0} /\ a \in Nat \ {0} /\ b \in Nat \ {0} /\ q \in Nat \ {0}
  BY DEF Halved
<1>b. w \div 2 = a /\ h \div 2 = b /\ (w * h) \div 4 = q /\ w * h = 4 * q BY DEF Halved
<1> DEFINE f == Frame("NV21", w, h, d)
<1>0. f.format = "NV21" /\ f.width = w /\ f.height = h /\ f.data = d BY DEF Frame
<1> HIDE DEF f
<1>1. \A p \in Grid(h, w) : w * p[1] + p[2] \in Nat
  BY <1>a, RowAndColumn DEF Grid
<1>2. \A p \in Grid(b, a) : a * p[1] + p[2] \in Nat
  BY <1>a, RowAndColumn DEF Grid
<1>3. Picture(f).y = [p \in Grid(h, w) |-> d[w * p[1] + p[2]]]
  BY <1>0 DEF Picture
<1>4. /\ Picture(f).u = [p \in Grid(b, a) |-> d[4 * q + U("NV21", a * p[1] + p[2], q)]]
      /\ Picture(f).v = [p \in Grid(b, a) |-> d[4 * q + V("NV21", a * p[1] + p[2], q)]]
  <2>1. /\ Picture(f).u = [p \in Grid(h \div 2, w \div 2) |->
                             d[w * h + U("NV21", (w \div 2) * p[1] + p[2], (w * h) \div 4)]]
        /\ Picture(f).v = [p \in Grid(h \div 2, w \div 2) |->
                             d[w * h + V("NV21", (w \div 2) * p[1] + p[2], (w * h) \div 4)]]
    BY <1>0 DEF Picture
  <2> QED BY <1>b, <2>1
<1>5. \A n \in Nat : /\ d[4 * q + U("NV21", n, q)] = ChromaSamples(d, q, 1)[n]
                     /\ d[4 * q + V("NV21", n, q)] = ChromaSamples(d, q, 0)[n]
  <2>1. ASSUME NEW n \in Nat
        PROVE  /\ 4 * q + U("NV21", n, q) = 4 * q + 2 * n + 1
               /\ 4 * q + V("NV21", n, q) = 4 * q + 2 * n + 0
    BY <1>a DEF U, V
  <2> QED BY <2>1 DEF ChromaSamples
<1>6. \A n \in Nat : d[n] = YSamples(d)[n] BY DEF YSamples
<1>7. Picture(f).y = PlaneOf(YSamples(d), h, w)
  BY <1>1, <1>3, <1>6 DEF PlaneOf
<1>8. /\ Picture(f).u = PlaneOf(ChromaSamples(d, q, 1), b, a)
      /\ Picture(f).v = PlaneOf(ChromaSamples(d, q, 0), b, a)
  BY <1>2, <1>4, <1>5 DEF PlaneOf
<1>9. Planes(Picture(f), d, w, h, a, b, q) BY <1>7, <1>8 DEF Planes
<1> QED BY <1>9 DEF f

\* Each luma byte goes where nativeRotateBackNV21 puts it.
LumaMoved(d, e, w, h, degree) ==
  \A k \in 0 .. w * h - 1 :
    e[k] = d[IF degree = 90 THEN Luma90(k, w, h)
             ELSE IF degree = 180 THEN Luma180(k, w, h) ELSE Luma270(k, w, h)]

\* So the luma bytes are turned.
LEMMA LumaTurns ==
  ASSUME NEW w \in Nat \ {0}, NEW h \in Nat \ {0}, NEW q \in Nat \ {0}, w * h = 4 * q,
         NEW d, NEW e, NEW degree \in {90, 180}, LumaMoved(d, e, w, h, degree)
  PROVE  TurnsFrom(YSamples(d), YSamples(e), h, w, degree)
<1>0. h * w = 4 * q
  <2>1. \A x, y \in Nat : x * y = y * x OBVIOUS
  <2> QED BY <2>1
<1>1. ASSUME NEW r \in 0 .. w - 1, NEW c \in 0 .. h - 1
      PROVE  h * r + c \in 0 .. 4 * q - 1
  <2>1. h * r + c \in Nat /\ h * r + c < h * w BY RowAndColumn
  <2> QED BY <1>0, <2>1
<1>2. ASSUME NEW r \in 0 .. h - 1, NEW c \in 0 .. w - 1
      PROVE  w * r + c \in 0 .. 4 * q - 1
  <2>1. w * r + c \in Nat /\ w * r + c < w * h BY RowAndColumn
  <2> QED BY <2>1
<1>3. ASSUME NEW r \in 0 .. h - 1, NEW c \in 0 .. w - 1
      PROVE  w * (h - 1 - r) + c \in Nat
  <2>1. \A x, y \in Nat : x * y \in Nat OBVIOUS
  <2> QED BY <2>1
<1>4. CASE degree = 90
  <2>1. ASSUME NEW r \in 0 .. w - 1, NEW c \in 0 .. h - 1
        PROVE  YSamples(e)[h * r + c] = YSamples(d)[w * (h - 1 - c) + r]
    <3>1. h * r + c \in 0 .. 4 * q - 1 BY <1>1
    <3>2. Luma90(h * r + c, w, h) = w * (h - 1 - c) + r BY ZenonT(60), TurnedBytes
    <3>3. e[h * r + c] = d[w * (h - 1 - c) + r] BY <1>4, <3>1, <3>2 DEF LumaMoved
    <3>4. w * (h - 1 - c) + r \in Nat BY <1>3
    <3> QED BY <3>1, <3>3, <3>4 DEF YSamples
  <2> QED BY <1>4, <2>1 DEF TurnsFrom
<1>5. CASE degree = 180
  <2>1. ASSUME NEW r \in 0 .. h - 1, NEW c \in 0 .. w - 1
        PROVE  YSamples(e)[w * r + c] = YSamples(d)[w * (h - 1 - r) + (w - 1 - c)]
    <3>1. w * r + c \in 0 .. 4 * q - 1 BY <1>2
    <3>2. Luma180(w * r + c, w, h) = w * (h - 1 - r) + (w - 1 - c) BY ZenonT(60), TurnedBytes
    <3>3. e[w * r + c] = d[w * (h - 1 - r) + (w - 1 - c)] BY <1>5, <3>1, <3>2 DEF LumaMoved
    <3>4. w * (h - 1 - r) + (w - 1 - c) \in Nat
      <4>1. w - 1 - c \in 0 .. w - 1 OBVIOUS
      <4> QED BY <1>3, <4>1
    <3> QED BY <3>1, <3>3, <3>4 DEF YSamples
  <2> QED BY <1>5, <2>1 DEF TurnsFrom
<1> QED BY <1>4, <1>5

\* Byte i of each chroma pair goes where nativeRotateBackNV21 puts it.
PairsMoved(d, e, a, b, q, i, degree) ==
  \A n \in 0 .. q - 1 :
    e[4 * q + 2 * n + i]
      = d[4 * q + (IF degree = 90 THEN Pair90(n, 2 * a, 2 * b)
                   ELSE IF degree = 180 THEN Pair180(n, 2 * a, 2 * b)
                   ELSE Pair270(n, 2 * a, 2 * b)) + i]

\* So each of the two bytes of the chroma pairs is turned.
LEMMA ChromaTurns ==
  ASSUME NEW a \in Nat \ {0}, NEW b \in Nat \ {0}, NEW q \in Nat \ {0}, q = a * b,
         NEW d, NEW e, NEW degree \in {90, 180}, NEW i \in {0, 1},
         PairsMoved(d, e, a, b, q, i, degree)
  PROVE  TurnsFrom(ChromaSamples(d, q, i), ChromaSamples(e, q, i), b, a, degree)
<1>0. b * a = q
  <2>1. \A x, y \in Nat : x * y = y * x OBVIOUS
  <2> QED BY <2>1
<1>1. ASSUME NEW r \in 0 .. a - 1, NEW c \in 0 .. b - 1
      PROVE  b * r + c \in 0 .. q - 1
  <2>1. b * r + c \in Nat /\ b * r + c < b * a BY RowAndColumn
  <2> QED BY <1>0, <2>1
<1>2. ASSUME NEW r \in 0 .. b - 1, NEW c \in 0 .. a - 1
      PROVE  a * r + c \in 0 .. q - 1
  <2>1. a * r + c \in Nat /\ a * r + c < a * b BY RowAndColumn
  <2> QED BY <2>1
<1>3. ASSUME NEW r \in 0 .. b - 1, NEW c \in 0 .. a - 1
      PROVE  a * (b - 1 - r) + c \in Nat
  <2>1. \A x, y \in Nat : x * y \in Nat OBVIOUS
  <2> QED BY <2>1
\* Sample n of the new plane is sample m of the old one.
<1>4. ASSUME NEW n \in 0 .. q - 1, NEW m \in Nat,
             2 * m = IF degree = 90 THEN Pair90(n, 2 * a, 2 * b)
                     ELSE IF degree = 180 THEN Pair180(n, 2 * a, 2 * b) ELSE Pair270(n, 2 * a, 2 * b)
      PROVE  ChromaSamples(e, q, i)[n] = ChromaSamples(d, q, i)[m]
  <2>1. e[4 * q + 2 * n + i] = d[4 * q + 2 * m + i] BY <1>4 DEF PairsMoved
  <2> QED BY <2>1 DEF ChromaSamples
<1>5. CASE degree = 90
  <2>1. ASSUME NEW r \in 0 .. a - 1, NEW c \in 0 .. b - 1
        PROVE  ChromaSamples(e, q, i)[b * r + c] = ChromaSamples(d, q, i)[a * (b - 1 - c) + r]
    <3>1. b * r + c \in 0 .. q - 1 BY <1>1
    <3>2. Pair90(b * r + c, 2 * a, 2 * b) = 2 * (a * (b - 1 - c) + r) BY ZenonT(60), QuarterPairs
    <3>3. a * (b - 1 - c) + r \in Nat BY <1>3
    <3> QED BY <1>4, <1>5, <3>1, <3>2, <3>3
  <2> QED BY <1>5, <2>1 DEF TurnsFrom
<1>6. CASE degree = 180
  <2>1. ASSUME NEW r \in 0 .. b - 1, NEW c \in 0 .. a - 1
        PROVE  ChromaSamples(e, q, i)[a * r + c]
                 = ChromaSamples(d, q, i)[a * (b - 1 - r) + (a - 1 - c)]
    <3>1. a * r + c \in 0 .. q - 1 BY <1>2
    <3>2. Pair180(a * r + c, 2 * a, 2 * b) = 2 * (a * (b - 1 - r) + (a - 1 - c)) BY HalfPairs
    <3>3. a * (b - 1 - r) + (a - 1 - c) \in Nat
      <4>1. a - 1 - c \in 0 .. a - 1 OBVIOUS
      <4> QED BY <1>3, <4>1
    <3> QED BY <1>4, <1>6, <3>1, <3>2, <3>3
  <2> QED BY <1>6, <2>1 DEF TurnsFrom
<1> QED BY <1>5, <1>6

\* What nativeRotateBackNV21 does to the bytes.
LEMMA RotatedBytes ==
  ASSUME NEW a \in Nat \ {0}, NEW b \in Nat \ {0}, NEW q \in Nat \ {0},
         NEW w \in Nat, NEW h \in Nat, w = 2 * a, h = 2 * b, w * h = 4 * q,
         NEW d, DOMAIN d = 0 .. 6 * q - 1, NEW degree \in {90, 180, 270}
  PROVE  LET e == NativeRotateBackNV21(d, w, h, degree)
         IN  /\ LumaMoved(d, e, w, h, degree)
             /\ PairsMoved(d, e, a, b, q, 0, degree)
             /\ PairsMoved(d, e, a, b, q, 1, degree)
<1> DEFINE e == NativeRotateBackNV21(d, w, h, degree)
           fromY == [k \in 0 .. w * h - 1 |->
                       IF degree = 90 THEN Luma90(k, w, h)
                       ELSE IF degree = 180 THEN Luma180(k, w, h) ELSE Luma270(k, w, h)]
           fromUV == [k \in 0 .. (w * h) \div 4 - 1 |->
                        IF degree = 90 THEN Pair90(k, w, h)
                        ELSE IF degree = 180 THEN Pair180(k, w, h) ELSE Pair270(k, w, h)]
<1>1. PICK wh \in Nat : wh = w * h /\ wh = 4 * q OBVIOUS
<1>2. e = Moved(d, wh, fromY, fromUV)
  BY <1>1, Zenon DEF NativeRotateBackNV21
<1>3. ASSUME NEW k \in 0 .. wh - 1
      PROVE  e[k] = d[IF degree = 90 THEN Luma90(k, w, h)
                      ELSE IF degree = 180 THEN Luma180(k, w, h) ELSE Luma270(k, w, h)]
  <2>1. fromY[k] = IF degree = 90 THEN Luma90(k, w, h)
                   ELSE IF degree = 180 THEN Luma180(k, w, h) ELSE Luma270(k, w, h)
    BY <1>1
  <2>2. k \in Nat /\ k \in DOMAIN d /\ k < wh BY <1>1
  <2> HIDE DEF e, fromY, fromUV
  <2>3. Moved(d, wh, fromY, fromUV)[k] = d[fromY[k]] BY <2>2 DEF Moved
  <2>4. e[k] = d[fromY[k]] BY <1>2, <2>3
  <2> QED BY <2>1, <2>4
<1>4. LumaMoved(d, e, w, h, degree)
  BY <1>1, <1>3 DEF LumaMoved
<1>5. ASSUME NEW i \in {0, 1}
      PROVE  PairsMoved(d, e, a, b, q, i, degree)
  <2>1. \A n \in 0 .. q - 1 :
          fromUV[n] = IF degree = 90 THEN Pair90(n, 2 * a, 2 * b)
                      ELSE IF degree = 180 THEN Pair180(n, 2 * a, 2 * b)
                      ELSE Pair270(n, 2 * a, 2 * b)
    <3>1. (w * h) \div 4 = q BY <1>1
    <3> QED BY <3>1
  <2> HIDE DEF e, fromY, fromUV
  <2>2. ASSUME NEW n \in 0 .. q - 1
        PROVE  e[4 * q + 2 * n + i]
                 = d[4 * q + (IF degree = 90 THEN Pair90(n, 2 * a, 2 * b)
                              ELSE IF degree = 180 THEN Pair180(n, 2 * a, 2 * b)
                              ELSE Pair270(n, 2 * a, 2 * b)) + i]
    <3>1. PICK k \in 0 .. 6 * q - 1 : k = 4 * q + 2 * n + i OBVIOUS
    <3>2. k >= wh /\ (k - wh) \div 2 = n /\ (k - wh) % 2 = i BY <1>1, <3>1
    <3>3. k \in Nat /\ k \in DOMAIN d OBVIOUS
    <3>4. Moved(d, wh, fromY, fromUV)[k] = d[wh + fromUV[n] + i]
      <4>1. ~(k < wh) BY <1>1, <3>2
      <4>2. Moved(d, wh, fromY, fromUV)[k] = d[wh + fromUV[(k - wh) \div 2] + ((k - wh) % 2)]
        BY <3>3, <4>1 DEF Moved
      <4>3. (k - wh) \div 2 = n BY <3>2
      <4>4. (k - wh) % 2 = i BY <3>2
      <4> QED BY <4>2, <4>3, <4>4, Zenon
    <3>5. e[k] = d[wh + fromUV[n] + i] BY <1>2, <3>4
    <3>6. e[4 * q + 2 * n + i] = d[4 * q + fromUV[n] + i] BY <1>1, <3>1, <3>5
    <3> DEFINE x == IF degree = 90 THEN Pair90(n, 2 * a, 2 * b)
                    ELSE IF degree = 180 THEN Pair180(n, 2 * a, 2 * b)
                    ELSE Pair270(n, 2 * a, 2 * b)
    <3>7. fromUV[n] = x BY <2>1
    <3>8. e[4 * q + 2 * n + i] = d[4 * q + x + i]
      <4> HIDE DEF x
      <4> QED BY <3>6, <3>7
    <3> QED BY <3>8
  <2> QED BY <2>2 DEF PairsMoved
<1> QED BY <1>4, <1>5

\* Turning moves each plane as a whole.
LEMMA TurningTurnsPicture ==
  ASSUME NEW w \in Nat \ {0}, NEW h \in Nat \ {0}, w % 2 = 0, h % 2 = 0,
         NEW d, DOMAIN d = 0 .. (w * h * 3) \div 2 - 1, NEW degree \in {90, 180}
  PROVE  LET f == Frame("NV21", w, h, d)
             g == Frame("NV21", IF degree = 180 THEN w ELSE h, IF degree = 180 THEN h ELSE w,
                        NativeRotateBackNV21(d, w, h, degree))
         IN  /\ Picture(g).y = Expected(Picture(f).y, h, w, degree)
             /\ Picture(g).u = Expected(Picture(f).u, h \div 2, w \div 2, degree)
             /\ Picture(g).v = Expected(Picture(f).v, h \div 2, w \div 2, degree)
<1> DEFINE e == NativeRotateBackNV21(d, w, h, degree)
           f == Frame("NV21", w, h, d)
           g == Frame("NV21", IF degree = 180 THEN w ELSE h, IF degree = 180 THEN h ELSE w, e)
<1>1. PICK a \in Nat \ {0}, b \in Nat \ {0}, q \in Nat \ {0} :
        /\ w = 2 * a /\ h = 2 * b /\ q = a * b /\ w \div 2 = a /\ h \div 2 = b
        /\ w * h = 4 * q /\ (w * h) \div 4 = q /\ (w * h * 3) \div 2 = 6 * q
  BY HalfSizes
<1>2. DOMAIN d = 0 .. 6 * q - 1 BY <1>1
<1>5. /\ LumaMoved(d, e, w, h, degree)
      /\ PairsMoved(d, e, a, b, q, 0, degree)
      /\ PairsMoved(d, e, a, b, q, 1, degree)
  BY <1>1, <1>2, RotatedBytes
<1> HIDE DEF e
<1>7. TurnsFrom(YSamples(d), YSamples(e), h, w, degree)
  BY SMTT(30), <1>1, <1>5, LumaTurns
<1>8. /\ TurnsFrom(ChromaSamples(d, q, 0), ChromaSamples(e, q, 0), b, a, degree)
      /\ TurnsFrom(ChromaSamples(d, q, 1), ChromaSamples(e, q, 1), b, a, degree)
  BY <1>1, <1>5, ChromaTurns
<1>9. Planes(Picture(f), d, w, h, a, b, q)
  <2>1. Halved(w, h, a, b, q) BY <1>1 DEF Halved
  <2> QED BY <2>1, PlanesOfNV21
<1>10. Halved(h, w, b, a, q)
  <2>1. \A x, y \in Nat : x * y = y * x OBVIOUS
  <2>2. h * w = 4 * q /\ (h * w) \div 4 = q BY <1>1, <2>1
  <2> QED BY <1>1, <2>2 DEF Halved
<1>11. IF degree = 180 THEN Planes(Picture(g), e, w, h, a, b, q) ELSE Planes(Picture(g), e, h, w, b, a, q)
  <2>1. CASE degree = 180
    <3>1. g = Frame("NV21", w, h, e) BY <2>1
    <3>2. Halved(w, h, a, b, q) BY <1>1 DEF Halved
    <3> HIDE DEF g
    <3> QED BY <2>1, <3>1, <3>2, PlanesOfNV21
  <2>2. CASE degree # 180
    <3>1. g = Frame("NV21", h, w, e) BY <2>2
    <3> HIDE DEF g
    <3> QED BY <1>10, <2>2, <3>1, PlanesOfNV21
  <2> QED BY <2>1, <2>2
<1> HIDE DEF f, g
<1>12. Picture(g).y = Expected(Picture(f).y, h, w, degree)
  <2>1. Picture(f).y = PlaneOf(YSamples(d), h, w) BY <1>9 DEF Planes
  <2>2. Picture(g).y = IF degree = 180 THEN PlaneOf(YSamples(e), h, w) ELSE PlaneOf(YSamples(e), w, h)
    BY <1>11 DEF Planes
  <2>3. Expected(PlaneOf(YSamples(d), h, w), h, w, degree)
          = IF degree = 180 THEN PlaneOf(YSamples(e), h, w) ELSE PlaneOf(YSamples(e), w, h)
    BY <1>7, PlaneTurns
  <2> QED BY <2>1, <2>2, <2>3
<1>13. /\ Picture(g).u = Expected(Picture(f).u, b, a, degree)
       /\ Picture(g).v = Expected(Picture(f).v, b, a, degree)
  BY <1>8, <1>9, <1>11, PlaneTurns DEF Planes
<1> QED BY <1>1, <1>12, <1>13 DEF e, f, g
-----------------------------------------------------------------------------
\* A picture is what its format, size and bytes make it.
LEMMA PictureOfBytes ==
  ASSUME FrameOK
  PROVE  LET f == Frame(frame.format, frame.width, frame.height, frame.data)
         IN  /\ Picture(f).y = Picture(frame).y
             /\ Picture(f).u = Picture(frame).u
             /\ Picture(f).v = Picture(frame).v
<1> DEFINE f == Frame(frame.format, frame.width, frame.height, frame.data)
<1>1. /\ f.format = frame.format /\ f.width = frame.width
      /\ f.height = frame.height /\ f.data = frame.data
  BY DEF Frame
<1> HIDE DEF f
<1>2. Picture(f) = Picture(frame)
  BY <1>1, Zenon DEF Picture
<1> QED BY <1>2 DEF f

(***************************************************************************)
(* Whatever the size of the camera's frames and however often it is        *)
(* converted and turned, a call that works on the elements of the array    *)
(* keeps the picture: converted to another format it is the same one, and  *)
(* turned by 90 or 180 degrees it is turned as a whole, luma and both      *)
(* chroma planes alike (native_yuv.cpp).                                   *)
(***************************************************************************)
THEOREM PicturesAlwaysKept == FrameSpec => PicturesKept
<1> DEFINE Kept ==
      IF called'[1] = "UnsatisfiedLinkError" THEN frame' = frame
      ELSE ~called'[3] /\ called'[2] # 270 => ShowsPictureTurned(called'[2])
<1>1. ASSUME FrameOK, FrameNext PROVE Kept
  <2>1. CASE called'[1] = "UnsatisfiedLinkError"
    BY <1>1, <2>1, OtherCalls
  <2>2. CASE ~ called'[3] /\ called'[1] # "UnsatisfiedLinkError" /\ called'[2] # 270
    <3> DEFINE w == frame.width
               h == frame.height
               d == frame.data
               degree == called'[2]
    <3>1. /\ w \in Nat \ {0} /\ w % 2 = 0 /\ h \in Nat \ {0} /\ h % 2 = 0
          /\ DOMAIN d = 0 .. (w * h * 3) \div 2 - 1
      BY <1>1 DEF FrameOK
    <3>2. \A plane, x, y : Expected(plane, x, y, 0) = plane BY DEF Expected
    <3>3. ASSUME /\ Picture(frame').y = Picture(frame).y
                 /\ Picture(frame').u = Picture(frame).u
                 /\ Picture(frame').v = Picture(frame).v,
                 degree = 0
          PROVE  ShowsPictureTurned(degree)
      BY <3>2, <3>3 DEF ShowsPictureTurned
    <3>4. ASSUME degree = 0,
                 \/ frame.format = "YV12" /\ Becomes("NV21", w, h, NativeYV12ToNV21(d, w * h))
                 \/ /\ frame.format = "NV21"
                    /\ Becomes("YUV420sp", w, h, NativeNV21ToYUV420sp(d, w * h))
                 \/ /\ frame.format = "NV21"
                    /\ Becomes("YUV420p", w, h, NativeNV21ToYUV420p(d, w * h))
          PROVE  ShowsPictureTurned(degree)
      <4>1. /\ Picture(frame').y = Picture(frame).y
            /\ Picture(frame').u = Picture(frame).u
            /\ Picture(frame').v = Picture(frame).v
        BY <3>1, <3>4, ConversionKeepsPicture DEF Becomes
      <4> QED BY <3>3, <3>4, <4>1
    <3>5. ASSUME frame.format = "NV21", degree \in {90, 180},
                 Becomes("NV21", IF degree = 180 THEN w ELSE h,
                         IF degree = 180 THEN h ELSE w,
                         NativeRotateBackNV21(d, w, h, degree))
          PROVE  ShowsPictureTurned(degree)
      <4> DEFINE f == Frame("NV21", w, h, d)
      <4>1. /\ Picture(f).y = Picture(frame).y
            /\ Picture(f).u = Picture(frame).u
            /\ Picture(f).v = Picture(frame).v
        BY <1>1, <3>5, PictureOfBytes
      <4>2. /\ Picture(frame').y = Expected(Picture(f).y, h, w, degree)
            /\ Picture(frame').u = Expected(Picture(f).u, h \div 2, w \div 2, degree)
            /\ Picture(frame').v = Expected(Picture(f).v, h \div 2, w \div 2, degree)
        BY SMTT(30), <3>1, <3>5, TurningTurnsPicture DEF Becomes
      <4> HIDE DEF f
      <4> QED BY <4>1, <4>2 DEF ShowsPictureTurned
    <3>6. degree \in {90, 180, 270} => degree \in {90, 180}
      BY <2>2
    <3>7. ShowsPictureTurned(degree)
      BY <1>1, <2>2, <3>4, <3>5, <3>6, CallsOf
    <3> QED BY <2>2, <3>7
  <2> QED BY <2>1, <2>2
<1>2. FrameOK /\ [FrameNext]_yuvVars => [Kept]_yuvVars
  BY <1>1
<1> HIDE DEF Kept
<1>3. FrameSpec => [][Kept]_yuvVars
  BY <1>2, FrameInitOK, FrameNextOK, PTL DEF FrameSpec
<1> QED BY <1>3 DEF Kept, PicturesKept

-----------------------------------------------------------------------------
(* Loops and recursive functions. *)

\* Every nonempty set of naturals has a least one.
LEMMA LeastNat ==
  ASSUME NEW S \in SUBSET Nat, S # {}
  PROVE  \E n \in S : \A k \in S : n <= k
<1>1. PICK n \in S : \A k \in S : ~ (<<k, n>> \in OpToRel(<, Nat))
  BY NatLessThanWellFounded, WFMin
<1>2. ASSUME NEW k \in S PROVE n <= k
  <2>1. ~ (<<k, n>> \in OpToRel(<, Nat)) BY <1>1
  <2>2. ~ (k < n) BY <2>1 DEF OpToRel
  <2> QED BY <2>2
<1> QED BY <1>2

\* step leads from every argument at which the recursion does not stop to one of smaller measure m.
Shrinks(S, stop, m, step) == \A x \in S \ stop : step[x] \in S /\ m[step[x]] < m[x]

\* The function that is out where the recursion stops, and elsewhere what it is after a step.
IsLoop(f, S, stop, out, step) == f = [x \in S |-> IF x \in stop THEN out[x] ELSE f[step[x]]]

\* A recursion that only ever calls itself last, on an argument of smaller measure, has a
\* solution: a loop that ends.
LEMMA LoopEnds ==
  ASSUME NEW S, NEW N \in Nat, NEW m \in [S -> 0 .. N], NEW stop \in SUBSET S, NEW out, NEW step,
         Shrinks(S, stop, m, step)
  PROVE  \E f : IsLoop(f, S, stop, out, step)
<1> DEFINE Solves(g, n) == \A x \in S : m[x] < n => g[x] = IF x \in stop THEN out[x] ELSE g[step[x]]
           Bad == {n \in Nat : ~ \E g : Solves(g, n)}
<1>1. Bad = {}
  <2> SUFFICES ASSUME Bad # {} PROVE FALSE OBVIOUS
  <2>1. PICK n \in Bad : \A k \in Bad : n <= k BY LeastNat
  <2>2. n # 0
    <3>1. ASSUME NEW g PROVE Solves(g, 0) OBVIOUS
    <3> QED BY <2>1, <3>1
  <2>3. n - 1 \in Nat /\ n - 1 \notin Bad BY <2>1, <2>2
  <2>4. PICK g : Solves(g, n - 1) BY <2>3
  <2> DEFINE h == [x \in S |-> IF m[x] < n - 1 THEN g[x]
                               ELSE IF x \in stop THEN out[x] ELSE g[step[x]]]
  <2>5. ASSUME NEW x \in S, m[x] < n
        PROVE  h[x] = IF x \in stop THEN out[x] ELSE h[step[x]]
    <3>1. m[x] \in Nat OBVIOUS
    <3>2. x \notin stop => step[x] \in S /\ m[step[x]] \in Nat /\ m[step[x]] < m[x] BY DEF Shrinks
    <3>3. x \notin stop => m[step[x]] < n - 1 BY <2>3, <2>5, <3>1, <3>2
    <3>4. x \notin stop => h[step[x]] = g[step[x]] BY <3>2, <3>3
    <3>5. CASE m[x] < n - 1
      <4>1. h[x] = g[x] BY <3>5
      <4>2. g[x] = IF x \in stop THEN out[x] ELSE g[step[x]] BY <2>4, <3>5
      <4> HIDE DEF h
      <4> QED BY <3>4, <4>1, <4>2
    <3>6. CASE ~ (m[x] < n - 1)
      <4>1. h[x] = IF x \in stop THEN out[x] ELSE g[step[x]] BY <3>6
      <4> HIDE DEF h
      <4> QED BY <3>4, <4>1
    <3> QED BY <3>5, <3>6
  <2>6. Solves(h, n)
    <3> HIDE DEF h
    <3> QED BY <2>5
  <2> QED BY <2>1, <2>6
<1>2. PICK g : Solves(g, N + 1)
  <2>1. N + 1 \in Nat /\ N + 1 \notin Bad BY <1>1
  <2> QED BY <2>1
<1>3. ASSUME NEW x \in S PROVE g[x] = IF x \in stop THEN out[x] ELSE g[step[x]]
  <2>1. m[x] < N + 1 OBVIOUS
  <2> QED BY <1>2, <2>1
<1> DEFINE f == [x \in S |-> g[x]]
<1>4. ASSUME NEW x \in S PROVE f[x] = IF x \in stop THEN out[x] ELSE f[step[x]]
  <2>1. x \notin stop => step[x] \in S BY DEF Shrinks
  <2> QED BY <1>3, <2>1
<1>5. f = [x \in S |-> f[x]] OBVIOUS
<1>6. f = [x \in S |-> IF x \in stop THEN out[x] ELSE f[step[x]]]
  <2> HIDE DEF f
  <2> QED BY <1>4, <1>5
<1> QED BY <1>6 DEF IsLoop

\* The values after each of n rounds of a loop that starts with t0.
IsRounds(f, n, t0, step) == f = [k \in 0 .. n |-> IF k = 0 THEN t0 ELSE step[<<k, f[k - 1]>>]]

LEMMA RoundsExist ==
  ASSUME NEW n \in Nat, NEW t0, NEW step
  PROVE  \E f : IsRounds(f, n, t0, step)
<1> DEFINE Bad == {m \in Nat : ~ \E f : IsRounds(f, m, t0, step)}
<1>1. Bad = {}
  <2> SUFFICES ASSUME Bad # {} PROVE FALSE OBVIOUS
  <2>1. PICK m \in Bad : \A k \in Bad : m <= k
    <3>1. Bad \in SUBSET Nat OBVIOUS
    <3> HIDE DEF Bad
    <3> QED BY <3>1, LeastNat
  <2>2. m # 0
    <3> DEFINE f == [k \in 0 .. 0 |-> t0]
    <3>1. ASSUME NEW k \in 0 .. 0 PROVE f[k] = IF k = 0 THEN t0 ELSE step[<<k, f[k - 1]>>]
      OBVIOUS
    <3>2. f = [k \in 0 .. 0 |-> f[k]] OBVIOUS
    <3> HIDE DEF f
    <3>3. IsRounds(f, 0, t0, step) BY <3>1, <3>2 DEF IsRounds
    <3> QED BY <2>1, <3>3
  <2>3. m - 1 \in Nat /\ m - 1 \notin Bad BY <2>1, <2>2
  <2>4. PICK g : IsRounds(g, m - 1, t0, step) BY <2>3
  <2>5. ASSUME NEW k \in 0 .. m - 1 PROVE g[k] = IF k = 0 THEN t0 ELSE step[<<k, g[k - 1]>>]
    BY <2>4 DEF IsRounds
  <2> DEFINE h == [k \in 0 .. m |-> IF k = m THEN step[<<k, g[k - 1]>>] ELSE g[k]]
  <2>6. ASSUME NEW k \in 0 .. m PROVE h[k] = IF k = 0 THEN t0 ELSE step[<<k, h[k - 1]>>]
    <3>1. k # 0 => k - 1 \in 0 .. m /\ k - 1 # m /\ k - 1 \in 0 .. m - 1 BY <2>1
    <3>2. k # 0 => h[k - 1] = g[k - 1] BY <3>1
    <3>3. CASE k = m
      <4>1. h[k] = step[<<k, g[k - 1]>>] BY <3>3
      <4> HIDE DEF h
      <4> QED BY <2>2, <3>2, <3>3, <4>1
    <3>4. CASE k # m
      <4>1. k \in 0 .. m - 1 BY <2>1, <3>4
      <4>2. h[k] = g[k] BY <3>4
      <4>3. g[k] = IF k = 0 THEN t0 ELSE step[<<k, g[k - 1]>>] BY <2>5, <4>1
      <4> HIDE DEF h
      <4> QED BY <3>2, <4>2, <4>3
    <3> QED BY <3>3, <3>4
  <2>7. h = [k \in 0 .. m |-> h[k]] OBVIOUS
  <2> HIDE DEF h
  <2>8. IsRounds(h, m, t0, step) BY <2>6, <2>7 DEF IsRounds
  <2> QED BY <2>1, <2>8
<1> QED BY <1>1

\* Induction up to n.
LEMMA UpToInduction ==
  ASSUME NEW n \in Nat, NEW P, 0 \in P, \A k \in 0 .. n - 1 : k \in P => k + 1 \in P
  PROVE  \A k \in 0 .. n : k \in P
<1> DEFINE Bad == {k \in 0 .. n : k \notin P}
<1>1. Bad = {}
  <2> SUFFICES ASSUME Bad # {} PROVE FALSE OBVIOUS
  <2>1. PICK m \in Bad : \A k \in Bad : m <= k
    <3>1. Bad \in SUBSET Nat OBVIOUS
    <3> HIDE DEF Bad
    <3> QED BY <3>1, LeastNat
  <2>2. m # 0 /\ m \in 0 .. n BY <2>1
  <2>3. m - 1 \in 0 .. n - 1 /\ m - 1 \notin Bad /\ m - 1 \in 0 .. n BY <2>1, <2>2
  <2>4. m - 1 \in P BY <2>3
  <2>5. (m - 1) + 1 \in P BY <2>3, <2>4
  <2>6. (m - 1) + 1 = m BY <2>2
  <2> QED BY <2>1, <2>5, <2>6
<1> QED BY <1>1

\* The loop runs, and its values stay in T when every round keeps them there.
Stays(n, T, step) == \A k \in 1 .. n, t \in T : step[<<k, t>>] \in T

Runs(f, n, T, t0, step) ==
  f \in [0 .. n -> T] /\ f[0] = t0 /\ \A k \in 1 .. n : f[k] = step[<<k, f[k - 1]>>]

LEMMA LoopRuns ==
  ASSUME NEW n \in Nat, NEW T, NEW t0 \in T, NEW step, Stays(n, T, step)
  PROVE  \E f : Runs(f, n, T, t0, step)
<1>1. PICK f : IsRounds(f, n, t0, step) BY RoundsExist
<1>2. \A k \in 0 .. n : f[k] = IF k = 0 THEN t0 ELSE step[<<k, f[k - 1]>>] BY <1>1 DEF IsRounds
<1>3. f[0] = t0
  <2>1. 0 \in 0 .. n OBVIOUS
  <2> QED BY <1>2, <2>1
<1>4. ASSUME NEW k \in 1 .. n PROVE f[k] = step[<<k, f[k - 1]>>]
  <2>1. k \in 0 .. n /\ k # 0 OBVIOUS
  <2> QED BY <1>2, <2>1
<1> DEFINE P == {k \in 0 .. n : f[k] \in T}
<1>5. 0 \in P BY <1>3
<1>6. ASSUME NEW k \in 0 .. n - 1, k \in P PROVE k + 1 \in P
  <2>1. k + 1 \in 1 .. n /\ k + 1 \in 0 .. n /\ (k + 1) - 1 = k OBVIOUS
  <2>2. PICK m \in 1 .. n : m = k + 1 BY <2>1
  <2>3. m - 1 = k /\ m \in 0 .. n BY <2>1, <2>2
  <2>4. f[k] \in T BY <1>6
  <2>5. step[<<m, f[k]>>] \in T BY <2>4 DEF Stays
  <2>6. f[m] = step[<<m, f[k]>>] BY <1>4, <2>3
  <2>7. m \in P BY <2>3, <2>5, <2>6
  <2> QED BY <2>2, <2>7
<1>7. \A k \in 0 .. n : k \in P
  <2> HIDE DEF P
  <2> QED BY <1>5, <1>6, UpToInduction
<1>8. \A k \in 0 .. n : f[k] \in T BY <1>7
<1>9. f \in [0 .. n -> T]
  <2>1. f = [k \in 0 .. n |-> f[k]] BY <1>1 DEF IsRounds
  <2> QED BY <1>8, <2>1
<1> QED BY <1>3, <1>4, <1>9 DEF Runs

-----------------------------------------------------------------------------
(* Sequences with an element more or less. *)

\* An element of a concatenation.
LEMMA ConcatAt ==
  ASSUME NEW T, NEW s \in Seq(T), NEW t \in Seq(T), NEW n, n = Len(s), NEW j \in 1 .. n + Len(t)
  PROVE  (s \o t)[j] = IF j <= n THEN s[j] ELSE t[j - n]
BY ConcatProperties

LEMMA ConcatLen ==
  ASSUME NEW T, NEW s \in Seq(T), NEW t \in Seq(T)
  PROVE  s \o t \in Seq(T) /\ Len(s \o t) = Len(s) + Len(t)
BY ConcatProperties

\* t is s with e put in at k, with the element at k taken out, or with that element taken out
\* and the last one twice.
IsInserted(t, s, n, k, e) ==
  \A j \in 1 .. n + 1 : t[j] = IF j < k THEN s[j] ELSE IF j = k THEN e ELSE s[j - 1]
IsRemoved(t, s, n, k) == \A j \in 1 .. n - 1 : t[j] = IF j < k THEN s[j] ELSE s[j + 1]
IsDoubled(t, s, n, k) ==
  \A j \in 1 .. n : t[j] = IF j < k THEN s[j] ELSE IF j < n THEN s[j + 1] ELSE s[n]

\* A sequence with an element more, and with one less.
LEMMA InsertAtIs ==
  ASSUME NEW T, NEW s \in Seq(T), NEW n \in Nat, Len(s) = n, NEW k \in 1 .. n + 1, NEW e \in T
  PROVE  /\ InsertAt(s, k, e) \in Seq(T) /\ Len(InsertAt(s, k, e)) = n + 1
         /\ IsInserted(InsertAt(s, k, e), s, n, k, e)
<1> DEFINE u == SubSeq(s, 1, k - 1)
           v == u \o <<e>>
           w == SubSeq(s, k, n)
<1>0. \A j \in 1 .. n : s[j] \in T OBVIOUS
<1>1. u \in Seq(T) /\ Len(u) = k - 1 /\ \A j \in 1 .. k - 1 : u[j] = s[j]
  BY <1>0, SubSeqProperties
<1>2. w \in Seq(T) /\ Len(w) = n - k + 1 /\ \A j \in 1 .. n - k + 1 : w[j] = s[k + j - 1]
  BY <1>0, SubSeqProperties
<1>3. <<e>> \in Seq(T) /\ Len(<<e>>) = 1 /\ <<e>>[1] = e OBVIOUS
<1> HIDE DEF u, w
<1>4. v \in Seq(T) /\ Len(v) = k /\ \A j \in 1 .. k : v[j] = IF j < k THEN s[j] ELSE e
  BY <1>1, <1>3, ConcatProperties
<1> HIDE DEF v
<1>5. v \o w \in Seq(T) /\ Len(v \o w) = n + 1
  <2>1. v \o w \in Seq(T) /\ Len(v \o w) = Len(v) + Len(w) BY <1>2, <1>4, ConcatLen
  <2> QED BY <1>2, <1>4, <2>1
<1>6. ASSUME NEW j \in 1 .. n + 1
      PROVE  (v \o w)[j] = IF j < k THEN s[j] ELSE IF j = k THEN e ELSE s[j - 1]
  <2>1. (v \o w)[j] = IF j <= k THEN v[j] ELSE w[j - k]
    <3>1. j \in 1 .. k + Len(w) BY <1>2
    <3> QED BY <1>2, <1>4, <3>1, ConcatAt
  <2>2. CASE j <= k BY <1>4, <2>1, <2>2
  <2>3. CASE ~ (j <= k)
    <3>1. j - k \in 1 .. n - k + 1 /\ k + (j - k) - 1 = j - 1 BY <2>3
    <3> QED BY <1>2, <1>4, <2>1, <2>3, <3>1
  <2> QED BY <2>2, <2>3
<1>7. IsInserted(v \o w, s, n, k, e) BY <1>6 DEF IsInserted
<1> QED BY <1>5, <1>7 DEF InsertAt, u, v, w

LEMMA RemoveAtIs ==
  ASSUME NEW T, NEW s \in Seq(T), NEW n \in Nat, Len(s) = n, NEW k \in 1 .. n
  PROVE  /\ RemoveAt(s, k) \in Seq(T) /\ Len(RemoveAt(s, k)) = n - 1
         /\ IsRemoved(RemoveAt(s, k), s, n, k)
<1> DEFINE u == SubSeq(s, 1, k - 1)
           w == SubSeq(s, k + 1, n)
<1>0. \A j \in 1 .. n : s[j] \in T OBVIOUS
<1>1. u \in Seq(T) /\ Len(u) = k - 1 /\ \A j \in 1 .. k - 1 : u[j] = s[j]
  BY <1>0, SubSeqProperties
<1>2. w \in Seq(T) /\ Len(w) = n - k /\ \A j \in 1 .. n - k : w[j] = s[k + j]
  BY <1>0, SubSeqProperties
<1> HIDE DEF u, w
<1>5. u \o w \in Seq(T) /\ Len(u \o w) = n - 1
  <2>1. u \o w \in Seq(T) /\ Len(u \o w) = Len(u) + Len(w) BY <1>1, <1>2, ConcatLen
  <2> QED BY <1>1, <1>2, <2>1
<1>6. ASSUME NEW j \in 1 .. n - 1
      PROVE  (u \o w)[j] = IF j < k THEN s[j] ELSE s[j + 1]
  <2>1. (u \o w)[j] = IF j <= k - 1 THEN u[j] ELSE w[j - (k - 1)]
    <3>1. j \in 1 .. (k - 1) + Len(w) BY <1>2
    <3> QED BY <1>1, <1>2, <3>1, ConcatAt
  <2>2. CASE j < k BY <1>1, <2>1, <2>2
  <2>3. CASE ~ (j < k)
    <3>1. j - (k - 1) \in 1 .. n - k /\ k + (j - (k - 1)) = j + 1 BY <2>3
    <3> QED BY <1>1, <1>2, <2>1, <2>3, <3>1
  <2> QED BY <2>2, <2>3
<1>7. IsRemoved(u \o w, s, n, k) BY <1>6 DEF IsRemoved
<1> QED BY <1>5, <1>7 DEF RemoveAt, u, w

LEMMA InsertedIs ==
  ASSUME NEW T, NEW s \in Seq(T), NEW t \in Seq(T), NEW n \in Nat, Len(s) = n, Len(t) = n + 1,
         NEW k \in 1 .. n + 1, NEW e \in T, IsInserted(t, s, n, k, e)
  PROVE  t = InsertAt(s, k, e)
<1> DEFINE u == InsertAt(s, k, e)
<1>1. u \in Seq(T) /\ Len(u) = n + 1 /\ IsInserted(u, s, n, k, e)
  BY InsertAtIs
<1> HIDE DEF u
<1>2. \A j \in 1 .. Len(t) : t[j] = u[j] BY <1>1 DEF IsInserted
<1>3. t = u BY <1>1, <1>2, SeqEqual
<1> QED BY <1>3 DEF u

LEMMA RemovedIs ==
  ASSUME NEW T, NEW s \in Seq(T), NEW t \in Seq(T), NEW n \in Nat, Len(s) = n, Len(t) = n - 1,
         NEW k \in 1 .. n, IsRemoved(t, s, n, k)
  PROVE  t = RemoveAt(s, k)
<1> DEFINE u == RemoveAt(s, k)
<1>1. u \in Seq(T) /\ Len(u) = n - 1 /\ IsRemoved(u, s, n, k)
  BY RemoveAtIs
<1> HIDE DEF u
<1>2. \A j \in 1 .. Len(t) : t[j] = u[j] BY <1>1 DEF IsRemoved
<1>3. t = u BY <1>1, <1>2, SeqEqual
<1> QED BY <1>3 DEF u

LEMMA DoubledIs ==
  ASSUME NEW T, NEW s \in Seq(T), NEW t \in Seq(T), NEW n \in Nat, Len(s) = n, Len(t) = n,
         NEW k \in 1 .. n, IsDoubled(t, s, n, k)
  PROVE  t = Append(RemoveAt(s, k), Last(s))
<1> DEFINE u == RemoveAt(s, k)
<1>1. u \in Seq(T) /\ Len(u) = n - 1 /\ IsRemoved(u, s, n, k)
  BY RemoveAtIs
<1>2. Last(s) = s[n] /\ s[n] \in T BY DEF Last
<1> HIDE DEF u
<1> DEFINE v == Append(u, s[n])
<1>3. v \in Seq(T) /\ Len(v) = n /\ v[n] = s[n] /\ \A j \in 1 .. n - 1 : v[j] = u[j]
  BY <1>1, <1>2, AppendProperties
<1> HIDE DEF v
<1>4. ASSUME NEW j \in 1 .. n PROVE t[j] = v[j]
  <2>1. CASE j = n BY <1>3, <2>1 DEF IsDoubled
  <2>2. CASE j # n
    <3>1. j \in 1 .. n - 1 /\ j < n BY <2>2
    <3> QED BY <1>1, <1>3, <3>1 DEF IsDoubled, IsRemoved
  <2> QED BY <2>1, <2>2
<1>5. t = v BY <1>3, <1>4, SeqEqual
<1> QED BY <1>2, <1>5 DEF u, v

\* The least of a nonempty set of naturals.
LEMMA MinIs ==
  ASSUME NEW S \in SUBSET Nat, S # {}
  PROVE  Min(S) \in S /\ \A k \in S : Min(S) <= k
<1>1. PICK n \in S : \A k \in S : n <= k BY LeastNat
<1> QED BY <1>1 DEF Min

-----------------------------------------------------------------------------
(* The arrays. *)

\* OrderArray's cells in use ascend.
InOrder ==
  kind = "OrderArray" => \A j, k \in 0 .. length - 1 : j <= k => cells[j] <= cells[k]

\* What a search of a sorted array finds between left and right.
Finds(s, d, left, right, r) ==
  IF \E k \in left .. right : s[k] = d THEN r \in left .. right /\ s[r] = d ELSE r = -1

LEMMA HalveFinds ==
  ASSUME NEW n \in Nat, NEW s, \A k \in 0 .. n - 1 : s[k] \in Int, NEW d \in Int,
         \A j, k \in 0 .. n - 1 : j <= k => s[j] <= s[k]
  PROVE  Finds(s, d, 0, n - 1, Halving(s, n, d))
<1> DEFINE S == (0 .. n) \X (-1 .. n - 1)
           mid(p) == (p[1] + p[2]) \div 2
           stop == {p \in S : p[1] > p[2] \/ s[mid(p)] = d}
           out == [p \in S |-> IF p[1] > p[2] THEN -1 ELSE mid(p)]
           step == [p \in S |-> IF s[mid(p)] > d THEN <<p[1], mid(p) - 1>>
                                                     ELSE <<mid(p) + 1, p[2]>>]
           m == [p \in S |-> IF p[1] > p[2] THEN 0 ELSE p[2] - p[1] + 1]
           found == CHOOSE f : f = [p \in S |->
                      IF p[1] > p[2] THEN -1
                      ELSE IF s[mid(p)] = d THEN mid(p)
                      ELSE IF s[mid(p)] > d THEN f[<<p[1], mid(p) - 1>>]
                      ELSE f[<<mid(p) + 1, p[2]>>]]
<1>1. ASSUME NEW p \in S, ~ (p[1] > p[2])
      PROVE  /\ mid(p) \in p[1] .. p[2] /\ mid(p) \in 0 .. n - 1
             /\ <<p[1], mid(p) - 1>> \in S /\ <<mid(p) + 1, p[2]>> \in S
  <2>1. p[1] \in 0 .. n /\ p[2] \in -1 .. n - 1 OBVIOUS
  <2>2. PICK c \in Int : c = mid(p) /\ p[1] <= c /\ c <= p[2] BY <1>1, <2>1
  <2>3. c - 1 \in -1 .. n - 1 /\ c + 1 \in 0 .. n /\ c \in 0 .. n - 1
    BY <2>1, <2>2
  <2> QED BY <2>1, <2>2, <2>3
<1>2. m \in [S -> 0 .. n] OBVIOUS
<1>3. \A p \in S \ stop : step[p] \in S /\ m[step[p]] < m[p]
  <2> SUFFICES ASSUME NEW p \in S \ stop PROVE step[p] \in S /\ m[step[p]] < m[p] OBVIOUS
  <2>1. ~ (p[1] > p[2]) OBVIOUS
  <2>2. step[p] \in S BY <1>1, <2>1
  <2>3. CASE s[mid(p)] > d
    <3>1. step[p] = <<p[1], mid(p) - 1>> BY <2>3
    <3>2. m[<<p[1], mid(p) - 1>>] < m[p]
      <4>1. PICK c \in p[1] .. p[2] : c = mid(p) BY <1>1, <2>1
      <4>2. <<p[1], c - 1>> \in S /\ p[1] \in Int /\ p[2] \in Int BY <1>1, <2>1, <4>1
      <4>3. m[<<p[1], c - 1>>] = IF p[1] > c - 1 THEN 0 ELSE c - 1 - p[1] + 1 BY <4>2
      <4>4. m[p] = p[2] - p[1] + 1 BY <2>1
      <4> QED BY <2>1, <4>1, <4>2, <4>3, <4>4
    <3> QED BY <2>2, <3>1, <3>2
  <2>4. CASE ~ (s[mid(p)] > d)
    <3>1. step[p] = <<mid(p) + 1, p[2]>> BY <2>4
    <3>2. m[<<mid(p) + 1, p[2]>>] < m[p]
      <4>1. PICK c \in p[1] .. p[2] : c = mid(p) BY <1>1, <2>1
      <4>2. <<c + 1, p[2]>> \in S /\ p[1] \in Int /\ p[2] \in Int BY <1>1, <2>1, <4>1
      <4>3. m[<<c + 1, p[2]>>] = IF c + 1 > p[2] THEN 0 ELSE p[2] - (c + 1) + 1 BY <4>2
      <4>4. m[p] = p[2] - p[1] + 1 BY <2>1
      <4> QED BY <2>1, <4>1, <4>2, <4>3, <4>4
    <3> QED BY <2>2, <3>1, <3>2
  <2> QED BY <2>3, <2>4
<1>4. PICK f : f = [p \in S |-> IF p \in stop THEN out[p] ELSE f[step[p]]]
  <2> HIDE DEF S, stop, out, step, m
  <2>1. stop \in SUBSET S BY DEF stop
  <2>2. Shrinks(S, stop, m, step) BY <1>3 DEF Shrinks
  <2>3. \E f : IsLoop(f, S, stop, out, step) BY <1>2, <2>1, <2>2, LoopEnds
  <2> QED BY <2>3 DEF IsLoop
<1>5. ASSUME NEW p \in S
      PROVE  f[p] = IF p[1] > p[2] THEN -1
                    ELSE IF s[mid(p)] = d THEN mid(p)
                    ELSE IF s[mid(p)] > d THEN f[<<p[1], mid(p) - 1>>]
                    ELSE f[<<mid(p) + 1, p[2]>>]
  <2>1. f[p] = IF p \in stop THEN out[p] ELSE f[step[p]] BY <1>4
  <2>2. p \in stop <=> (p[1] > p[2] \/ s[mid(p)] = d) OBVIOUS
  <2>3. out[p] = IF p[1] > p[2] THEN -1 ELSE mid(p) OBVIOUS
  <2>4. step[p] = IF s[mid(p)] > d THEN <<p[1], mid(p) - 1>> ELSE <<mid(p) + 1, p[2]>>
    OBVIOUS
  <2> HIDE DEF S, stop, out, step, mid
  <2> QED BY <2>1, <2>2, <2>3, <2>4
<1>6. f = [p \in S |-> IF p[1] > p[2] THEN -1
                       ELSE IF s[mid(p)] = d THEN mid(p)
                       ELSE IF s[mid(p)] > d THEN f[<<p[1], mid(p) - 1>>]
                       ELSE f[<<mid(p) + 1, p[2]>>]]
  <2>1. f = [p \in S |-> f[p]] BY <1>4
  <2> HIDE DEF S, mid
  <2> QED BY <1>5, <2>1
<1>7. found = [p \in S |-> IF p[1] > p[2] THEN -1
                           ELSE IF s[mid(p)] = d THEN mid(p)
                           ELSE IF s[mid(p)] > d THEN found[<<p[1], mid(p) - 1>>]
                           ELSE found[<<mid(p) + 1, p[2]>>]]
  <2> HIDE DEF S, mid
  <2> QED BY <1>6
<1>8. ASSUME NEW p \in S
      PROVE  found[p] = IF p[1] > p[2] THEN -1
                        ELSE IF s[mid(p)] = d THEN mid(p)
                        ELSE IF s[mid(p)] > d THEN found[<<p[1], mid(p) - 1>>]
                        ELSE found[<<mid(p) + 1, p[2]>>]
  <2> HIDE DEF S, mid, found
  <2> QED BY <1>7
<1>9. Halving(s, n, d) = found[<<0, n - 1>>] BY DEF Halving
<1> HIDE DEF found
\* By induction over the width: the least one that would fail.
<1> DEFINE Width(p) == p[2] - p[1] + 1
           Right(p) == Finds(s, d, p[1], p[2], found[p])
           Wrong == {least \in Nat : \E p \in S : Width(p) <= least /\ ~ Right(p)}
<1>10. Wrong = {}
  <2> SUFFICES ASSUME Wrong # {} PROVE FALSE OBVIOUS
  <2>1. PICK least \in Wrong : \A k \in Wrong : least <= k
    <3>1. Wrong \in SUBSET Nat OBVIOUS
    <3> HIDE DEF Wrong
    <3> QED BY <3>1, LeastNat
  <2>2. PICK p \in S : Width(p) <= least /\ ~ Right(p) BY <2>1
  <2>3. PICK l \in 0 .. n, r \in -1 .. n - 1 : p = <<l, r>> OBVIOUS
  <2>4. least \in Nat OBVIOUS
  <2>5. CASE l > r
    <3>1. found[p] = -1 BY <1>8, <2>3, <2>5
    <3>2. ~ \E k \in l .. r : s[k] = d BY <2>5
    <3> QED BY <2>2, <2>3, <3>1, <3>2 DEF Finds
  <2>6. CASE ~ (l > r)
    <3>1. PICK c \in l .. r : c = mid(p) BY <1>1, <2>3, <2>6
    <3>2. /\ c \in 0 .. n - 1 /\ <<l, c - 1>> \in S /\ <<c + 1, r>> \in S
      BY <1>1, <2>3, <2>6, <3>1
    <3>3. found[p] = IF s[c] = d THEN c
                     ELSE IF s[c] > d THEN found[<<l, c - 1>>] ELSE found[<<c + 1, r>>]
      <4>1. ~ (p[1] > p[2]) /\ p[1] = l /\ p[2] = r BY <2>3, <2>6
      <4> HIDE DEF mid, S
      <4> QED BY <1>8, <3>1, <4>1
    <3>4. ASSUME NEW q \in S, Width(q) < least PROVE Right(q)
      <4>1. PICK l1 \in 0 .. n, r1 \in -1 .. n - 1 : q = <<l1, r1>> OBVIOUS
      <4>2. Width(q) = r1 - l1 + 1 BY <4>1
      <4>3. Width(q) <= least - 1 /\ least - 1 \in Int BY <2>4, <3>4, <4>2
      <4>4. CASE least - 1 \in Nat
        <5>1. least - 1 \notin Wrong BY <2>1, <2>4
        <5> HIDE DEF Right, Width, S
        <5> QED BY <4>3, <4>4, <5>1
      <4>5. CASE least = 0
        <5>1. l1 > r1 BY <4>2, <4>3, <4>5
        <5>2. found[q] = -1 BY <1>8, <4>1, <5>1
        <5>3. ~ \E k \in l1 .. r1 : s[k] = d BY <5>1
        <5> QED BY <4>1, <5>2, <5>3 DEF Finds
      <4> QED BY <2>4, <4>4, <4>5
    <3>5. r - l + 1 <= least BY <2>2, <2>3
    <3>6. Finds(s, d, l, c - 1, found[<<l, c - 1>>])
      <4>1. Width(<<l, c - 1>>) < least BY <2>4, <3>5
      <4>2. Right(<<l, c - 1>>)
        <5> HIDE DEF Right, Width, S
        <5> QED BY <3>2, <3>4, <4>1
      <4> QED BY <4>2
    <3>7. Finds(s, d, c + 1, r, found[<<c + 1, r>>])
      <4>1. Width(<<c + 1, r>>) < least BY <2>4, <3>5
      <4>2. Right(<<c + 1, r>>)
        <5> HIDE DEF Right, Width, S
        <5> QED BY <3>2, <3>4, <4>1
      <4> QED BY <4>2
    <3>8. ~ Finds(s, d, l, r, found[p]) BY <2>2, <2>3
    <3>9. \A k \in l .. r : k \in 0 .. n - 1 /\ s[k] \in Int BY <2>3
    <3> HIDE DEF S, mid, Right, Width, Wrong
    <3>10. CASE s[c] = d
      BY <3>1, <3>3, <3>8, <3>10 DEF Finds
    <3>11. CASE s[c] > d
      <4>1. found[p] = found[<<l, c - 1>>] BY <3>2, <3>3, <3>11
      <4>2. \A k \in l .. r : s[k] = d => k \in l .. c - 1
        BY <3>2, <3>9, <3>11
      <4> QED BY <3>1, <3>6, <3>8, <4>1, <4>2 DEF Finds
    <3>12. CASE s[c] < d
      <4>1. found[p] = found[<<c + 1, r>>] BY <3>2, <3>3, <3>12
      <4>2. \A k \in l .. r : s[k] = d => k \in c + 1 .. r
        BY <3>2, <3>9, <3>12
      <4> QED BY <3>1, <3>7, <3>8, <4>1, <4>2 DEF Finds
    <3> QED BY <3>2, <3>10, <3>11, <3>12
  <2> QED BY <2>3, <2>5, <2>6
<1>11. Right(<<0, n - 1>>)
  <2>1. <<0, n - 1>> \in S /\ Width(<<0, n - 1>>) = n OBVIOUS
  <2>2. n \notin Wrong
    <3> HIDE DEF Wrong
    <3> QED BY <1>10
  <2> HIDE DEF Right, S
  <2> QED BY <2>1, <2>2
<1> QED BY <1>9, <1>11

\* What holds of the cells in every state.
ArrShape ==
  /\ kind \in {"Array", "OrderArray", "Stack", "LinkedList"}
  /\ cells \in [ArrCell -> Int]
  /\ length \in 0 .. Cells

\* The ints among those in use are the ones the cells in use hold.
LEMMA HadIs ==
  ASSUME length \in Nat, NEW d
  PROVE  d \in ToSet(ArrContents) <=> \E k \in 0 .. length - 1 : cells[k] = d
<1>1. DOMAIN ArrContents = 1 .. length /\ \A k \in 1 .. length : ArrContents[k] = cells[k - 1]
  BY DEF ArrContents
<1>2. ASSUME NEW k \in 0 .. length - 1, cells[k] = d PROVE d \in ToSet(ArrContents)
  <2>1. k + 1 \in 1 .. length /\ (k + 1) - 1 = k OBVIOUS
  <2>2. ArrContents[k + 1] = d BY <1>1, <1>2, <2>1
  <2> QED BY <1>1, <2>1, <2>2 DEF ToSet
<1>3. ASSUME NEW k \in 1 .. length, ArrContents[k] = d
      PROVE  \E j \in 0 .. length - 1 : cells[j] = d
  <2>1. k - 1 \in 0 .. length - 1 OBVIOUS
  <2> QED BY <1>1, <1>3, <2>1
<1> QED BY <1>1, <1>2, <1>3 DEF ToSet

LEMMA LocatedFinds ==
  ASSUME ArrShape, InOrder, kind \in {"Array", "OrderArray"}, NEW d \in Int
  PROVE  Finds(cells, d, 0, length - 1, Located(d))
<1>1. length \in Nat /\ \A k \in 0 .. length - 1 : cells[k] \in Int
  BY CellsAssumption DEF ArrShape, ArrCell
<1>2. CASE kind = "OrderArray"
  <2>1. Finds(cells, d, 0, length - 1, Halve(d)) BY <1>1, <1>2, HalveFinds DEF InOrder, Halve
  <2> QED BY <1>2, <2>1 DEF Located
<1>3. CASE kind = "Array"
  <2>2. d \in ToSet(ArrContents) <=> \E k \in 0 .. length - 1 : cells[k] = d BY <1>1, HadIs
  <2> DEFINE S == {k \in 0 .. length - 1 : cells[k] = d}
  <2>3. CASE d \in ToSet(ArrContents)
    <3>1. S \in SUBSET Nat /\ S # {} BY <1>1, <2>2, <2>3
    <3>2. Linear(d) = Min(S) BY <2>3 DEF Linear
    <3>3. Min(S) \in S
      <4> HIDE DEF S
      <4> QED BY <3>1, MinIs
    <3> QED BY <1>3, <3>2, <3>3 DEF Finds, Located
  <2>4. CASE d \notin ToSet(ArrContents)
    <3>1. Linear(d) = -1 BY <2>4 DEF Linear
    <3> QED BY <1>3, <2>2, <2>4, <3>1 DEF Finds, Located
  <2> QED BY <2>3, <2>4
<1> QED BY <1>2, <1>3
-----------------------------------------------------------------------------
\* Inserting keeps the cells in order, and taking out does, finished or not.
LEMMA InsertKeepsOrder ==
  ASSUME ArrShape, InOrder, NEW d \in Ints, insertOrdered(d)
  PROVE  ArrShape' /\ InOrder'
<1>0. /\ length \in Nat /\ Cells \in Nat /\ length <= Cells /\ d \in Int
      /\ \A k \in 0 .. Cells - 1 : cells[k] \in Int
      /\ DOMAIN cells = 0 .. Cells - 1
  BY CellsAssumption DEF ArrShape, ArrCell
<1>1. kind = "OrderArray" /\ kind' = kind BY DEF insertOrdered
<1>2. CASE ArrIsFull
  BY <1>1, <1>2 DEF insertOrdered, ArrShape, InOrder
<1>3. CASE ~ ArrIsFull
  <2> DEFINE S == {length} \cup {k \in 0 .. length - 1 : cells[k] > d}
  <2>1. S \in SUBSET Nat /\ S # {} BY <1>0
  <2>2. PICK l \in S : l = Min(S) /\ \A k \in S : l <= k
    <3> HIDE DEF S
    <3> QED BY <2>1, MinIs
  <2>3. l \in 0 .. length BY <1>0
  <2>4. cells' = Inserted(l, d) /\ length' = length + 1 BY <1>3, <2>2 DEF insertOrdered
  <2>5. length + 1 \in 0 .. Cells /\ length + 1 \in Nat BY <1>0, <1>3 DEF ArrIsFull
  <2>6. ASSUME NEW k \in 0 .. Cells - 1
        PROVE  cells'[k] = IF k = l THEN d ELSE IF k \in l + 1 .. length THEN cells[k - 1] ELSE cells[k]
    BY <2>4 DEF Inserted, ArrCell
  <2>7. ASSUME NEW k \in 0 .. Cells - 1 PROVE cells'[k] \in Int
    <3>1. k \in l + 1 .. length => k - 1 \in 0 .. Cells - 1 BY <1>0, <2>3
    <3> QED BY <1>0, <2>6, <3>1
  <2>8. cells' \in [ArrCell -> Int]
    <3>1. cells' = [k \in 0 .. Cells - 1 |-> cells'[k]] BY <2>4 DEF Inserted, ArrCell
    <3> QED BY <2>7, <3>1 DEF ArrCell
  <2>9. \A k \in 0 .. length - 1 : k < l => cells[k] <= d
    <3> SUFFICES ASSUME NEW k \in 0 .. length - 1, k < l PROVE cells[k] <= d OBVIOUS
    <3>1. k \notin S BY <2>2, <2>3, <1>0
    <3>2. cells[k] \in Int BY <1>0
    <3> QED BY <1>0, <3>1, <3>2
  <2>10. l < length => cells[l] > d BY <2>2, <1>0
  <2> HIDE DEF S
  <2>11. ASSUME NEW j \in 0 .. length, NEW k \in 0 .. length, j <= k
         PROVE  cells'[j] <= cells'[k]
    <3>0. j \in 0 .. Cells - 1 /\ k \in 0 .. Cells - 1 BY <1>0, <2>5
    <3>1. \A x, y \in 0 .. length - 1 : x <= y => cells[x] <= cells[y] BY <1>1 DEF InOrder
    <3>2. \A x \in 0 .. length - 1 : x >= l => cells[x] >= d
      <4> SUFFICES ASSUME NEW x \in 0 .. length - 1, x >= l PROVE cells[x] >= d OBVIOUS
      <4>1. l \in 0 .. length - 1 /\ l < length BY <1>0, <2>3
      <4>2. cells[l] <= cells[x] /\ cells[l] > d BY <2>10, <3>1, <4>1
      <4>3. cells[l] \in Int /\ cells[x] \in Int BY <1>0, <2>5, <4>1
      <4> QED BY <1>0, <4>2, <4>3
    <3> DEFINE old(x) == IF x < l THEN x ELSE x - 1
    <3>3. ASSUME NEW x \in 0 .. length, x # l
          PROVE  old(x) \in 0 .. length - 1 /\ cells'[x] = cells[old(x)]
      <4>1. x \in 0 .. Cells - 1 BY <1>0, <2>5
      <4>2. CASE x < l
        <5>1. ~ (x \in l + 1 .. length) BY <2>3, <4>2
        <5> QED BY <1>0, <2>3, <2>6, <4>1, <4>2, <5>1
      <4>3. CASE ~ (x < l)
        <5>1. x \in l + 1 .. length BY <1>0, <2>3, <3>3, <4>3
        <5>2. x - 1 \in 0 .. length - 1 BY <1>0, <2>3, <5>1
        <5> QED BY <2>6, <3>3, <4>1, <4>3, <5>1, <5>2
      <4> QED BY <4>2, <4>3
    <3>4. cells'[l] = d BY <1>0, <2>3, <2>5, <2>6
    <3>5. CASE j = l /\ k = l BY <1>0, <3>4, <3>5
    <3>6. CASE j = l /\ k # l
      <4>1. k > l BY <1>0, <2>3, <2>11, <3>6
      <4>2. cells'[k] = cells[k - 1] /\ k - 1 \in 0 .. length - 1 /\ k - 1 >= l
        BY <1>0, <2>3, <3>3, <3>6, <4>1
      <4> QED BY <3>2, <3>4, <3>6, <4>2
    <3>7. CASE j # l /\ k = l
      <4>1. j < l BY <1>0, <2>3, <2>11, <3>7
      <4>2. cells'[j] = cells[j] /\ j \in 0 .. length - 1 BY <3>3, <3>7, <4>1
      <4> QED BY <2>9, <3>4, <3>7, <4>1, <4>2
    <3>8. CASE j # l /\ k # l
      <4>1. old(j) \in 0 .. length - 1 /\ old(k) \in 0 .. length - 1
            /\ cells'[j] = cells[old(j)] /\ cells'[k] = cells[old(k)]
        BY <3>3, <3>8
      <4>2. old(j) <= old(k) BY <1>0, <2>3, <2>11, <3>8
      <4> HIDE DEF old
      <4> QED BY <3>1, <4>1, <4>2
    <3> QED BY <3>5, <3>6, <3>7, <3>8
  <2>12. InOrder'
    <3>1. length' - 1 = length BY <1>0, <2>4
    <3> QED BY <2>11, <3>1 DEF InOrder
  <2>13. ArrShape' BY <1>1, <2>4, <2>5, <2>8 DEF ArrShape
  <2> QED BY <2>12, <2>13
<1> QED BY <1>2, <1>3
\* What delete does to an object that holds d, wherever the search found it.
LEMMA DeleteShifts ==
  ASSUME ArrShape, InOrder, NEW d \in Ints, delete(d), \E k \in 0 .. length - 1 : cells[k] = d
  PROVE  \E l \in 0 .. length - 1 :
           /\ cells[l] = d /\ kind' = kind /\ kind \in {"Array", "OrderArray"}
           /\ cells' \in [ArrCell -> Int]
           /\ \/ /\ kind = "OrderArray" /\ ArrIsFull /\ call'.thrown /\ length' = length
                 /\ \A k \in 0 .. length - 1 :
                      cells'[k] = IF k >= l /\ k < length - 1 THEN cells[k + 1] ELSE cells[k]
              \/ /\ ~ call'.thrown /\ length' = length - 1
                 /\ \A k \in 0 .. length - 2 : cells'[k] = IF k >= l THEN cells[k + 1] ELSE cells[k]
<1>0. /\ length \in Nat /\ Cells \in Nat /\ length <= Cells /\ d \in Int
      /\ \A k \in 0 .. Cells - 1 : cells[k] \in Int
      /\ DOMAIN cells = 0 .. Cells - 1
  BY CellsAssumption DEF ArrShape, ArrCell
<1>1. kind \in {"Array", "OrderArray"} /\ kind' = kind BY DEF delete
<1>2. PICK l \in 0 .. length - 1 : l = Located(d) /\ cells[l] = d
  BY <1>0, <1>1, LocatedFinds DEF Finds
<1>3. length # 0 /\ ~ ArrIsEmpty /\ Located(d) # -1 BY <1>0, <1>2 DEF ArrIsEmpty
<1> DEFINE bound == IF kind = "Array" \/ ArrIsFull THEN length - 1 ELSE length
<1>4. /\ cells' = Shifted(l, bound)
      /\ IF kind = "OrderArray" /\ ArrIsFull
           THEN Throws("delete", d) /\ UNCHANGED length
           ELSE Returns("delete", d, l) /\ length' = length - 1
  BY <1>2, <1>3 DEF delete
<1>5. bound \in {length - 1, length} /\ (ArrIsFull => bound = length - 1)
      /\ (~ ArrIsFull => length < Cells)
  BY <1>0 DEF ArrIsFull
<1> HIDE DEF bound
<1>6. ASSUME NEW k \in 0 .. Cells - 1
      PROVE  cells'[k] = IF k >= l /\ k < bound THEN cells[k + 1] ELSE cells[k]
  <2>1. cells'[k] = IF k \in l .. bound - 1 THEN cells[k + 1] ELSE cells[k]
    BY <1>4 DEF Shifted, ArrCell
  <2>2. k \in l .. bound - 1 <=> k >= l /\ k < bound BY <1>0, <1>5
  <2> QED BY <2>1, <2>2
<1>7. cells' \in [ArrCell -> Int]
  <2>1. cells' = [k \in 0 .. Cells - 1 |-> cells'[k]] BY <1>4 DEF Shifted, ArrCell
  <2>2. ASSUME NEW k \in 0 .. Cells - 1 PROVE cells'[k] \in Int
    <3>1. k >= l /\ k < bound => k + 1 \in 0 .. Cells - 1 BY <1>0, <1>5 DEF ArrIsFull
    <3> QED BY <1>0, <1>6, <3>1
  <2> QED BY <2>1, <2>2 DEF ArrCell
<1>8. CASE kind = "OrderArray" /\ ArrIsFull
  <2>1. call'.thrown /\ length' = length BY <1>4, <1>8 DEF Throws
  <2>2. \A k \in 0 .. length - 1 :
          cells'[k] = IF k >= l /\ k < length - 1 THEN cells[k + 1] ELSE cells[k]
    BY <1>0, <1>5, <1>6, <1>8
  <2> QED BY <1>1, <1>2, <1>7, <1>8, <2>1, <2>2
<1>9. CASE ~ (kind = "OrderArray" /\ ArrIsFull)
  <2>1. ~ call'.thrown /\ length' = length - 1 BY <1>4, <1>9 DEF Returns
  <2>2. \A k \in 0 .. length - 2 : cells'[k] = IF k >= l THEN cells[k + 1] ELSE cells[k]
    BY SMTT(30), <1>0, <1>5, <1>6
  <2> QED BY <1>1, <1>2, <1>7, <2>1, <2>2
<1> QED BY <1>8, <1>9

\* delete of an int that is not there.
LEMMA DeleteNothing ==
  ASSUME ArrShape, InOrder, NEW d \in Ints, delete(d), ~ \E k \in 0 .. length - 1 : cells[k] = d
  PROVE  UNCHANGED <<kind, cells, length>>
<1>1. d \in Int BY CellsAssumption
<1>2. kind \in {"Array", "OrderArray"} /\ kind' = kind BY DEF delete
<1>3. Located(d) = -1 BY <1>1, <1>2, LocatedFinds DEF Finds
<1> QED BY <1>2, <1>3 DEF delete

LEMMA DeleteKeepsOrder ==
  ASSUME ArrShape, InOrder, NEW d \in Ints, delete(d)
  PROVE  ArrShape' /\ InOrder'
<1>0. length \in Nat /\ Cells \in Nat /\ length <= Cells /\ d \in Int
      /\ \A k \in 0 .. Cells - 1 : cells[k] \in Int
  BY CellsAssumption DEF ArrShape, ArrCell
<1>1. CASE \E k \in 0 .. length - 1 : cells[k] = d
  <2>1. PICK l \in 0 .. length - 1 :
           /\ cells[l] = d /\ kind' = kind /\ kind \in {"Array", "OrderArray"}
           /\ cells' \in [ArrCell -> Int]
           /\ \/ /\ kind = "OrderArray" /\ ArrIsFull /\ call'.thrown /\ length' = length
                 /\ \A k \in 0 .. length - 1 :
                      cells'[k] = IF k >= l /\ k < length - 1 THEN cells[k + 1] ELSE cells[k]
              \/ /\ ~ call'.thrown /\ length' = length - 1
                 /\ \A k \in 0 .. length - 2 : cells'[k] = IF k >= l THEN cells[k + 1] ELSE cells[k]
    BY <1>1, DeleteShifts
  <2>2. (length' = length \/ length' = length - 1) /\ length' \in Nat BY <1>0, <2>1
  <2>3. ArrShape'
    <3>1. length' \in 0 .. Cells BY <1>0, <2>2
    <3> QED BY <2>1, <3>1 DEF ArrShape
  <2>3a. PICK m \in Nat : m = length' BY <2>2
  <2>3b. m \in Nat /\ (m = length \/ m = length - 1) BY <2>2, <2>3a
  <2>4. ASSUME NEW k \in 0 .. m - 1
        PROVE  \E j \in {k, k + 1} : j \in 0 .. length - 1 /\ cells'[k] = cells[j] /\ (k < l => j = k)
                            /\ (k >= l => j = k + 1 \/ k = length - 1)
    <3>1. k \in 0 .. length - 1 BY <1>0, <2>3b, <2>4
    <3>2. CASE m = length - 1
      <4>0. k \in 0 .. length - 2 BY <1>0, <2>3b, <3>2, <2>4
      <4>1. cells'[k] = IF k >= l THEN cells[k + 1] ELSE cells[k] BY <1>0, <2>3a, <2>1, <3>2, <4>0
      <4>2. CASE k >= l
        <5>1. k + 1 \in 0 .. length - 1 BY <1>0, <4>0
        <5> QED BY <4>1, <4>2, <5>1
      <4>3. CASE ~ (k >= l) BY <3>1, <4>1, <4>3
      <4> QED BY <4>2, <4>3
    <3>3. CASE m = length
      <4>0. length' # length - 1 BY <1>0, <2>3a, <3>3
      <4>1. cells'[k] = IF k >= l /\ k < length - 1 THEN cells[k + 1] ELSE cells[k]
        BY <2>1, <3>1, <4>0
      <4>2. CASE k >= l /\ k < length - 1
        <5>1. k + 1 \in 0 .. length - 1 BY <1>0, <3>1, <4>2
        <5> QED BY <4>1, <4>2, <5>1
      <4>3. CASE ~ (k >= l /\ k < length - 1)
        <5>1. k >= l => k = length - 1 BY <1>0, <3>1, <4>3
        <5> QED BY <3>1, <4>1, <4>3, <5>1
      <4> QED BY <4>2, <4>3
    <3> QED BY <2>3b, <3>2, <3>3
  <2>5. ASSUME kind = "OrderArray", NEW j \in 0 .. m - 1, NEW k \in 0 .. m - 1, j <= k
        PROVE  cells'[j] <= cells'[k]
    <3>1. PICK x \in {j, j + 1} :
            x \in 0 .. length - 1 /\ cells'[j] = cells[x] /\ (j < l => x = j)
            /\ (j >= l => x = j + 1 \/ j = length - 1)
      BY <2>4
    <3>2. PICK y \in {k, k + 1} :
            y \in 0 .. length - 1 /\ cells'[k] = cells[y] /\ (k < l => y = k)
            /\ (k >= l => y = k + 1 \/ k = length - 1)
      BY <2>4
    <3>3. x <= y
      <4>1. CASE j = k /\ k < l BY <3>1, <3>2, <4>1
      <4>2. CASE j = k /\ k >= l BY <1>0, <2>3b, <3>1, <3>2, <4>2
      <4>3. CASE j < k BY <1>0, <2>3b, <3>1, <3>2, <4>3
      <4> QED BY <1>0, <2>3b, <2>5, <4>1, <4>2, <4>3
    <3> QED BY <2>5, <3>1, <3>2, <3>3 DEF InOrder
  <2>6. InOrder' BY <2>1, <2>3a, <2>5 DEF InOrder
  <2> QED BY <2>3, <2>6
<1>2. CASE ~ \E k \in 0 .. length - 1 : cells[k] = d
  BY <1>2, DeleteNothing DEF ArrShape, InOrder
<1> QED BY <1>1, <1>2

LEMMA ArrInitOK == ArrInit => ArrShape /\ InOrder /\ ContainIsRight
BY CellsAssumption DEF ArrInit, ArrShape, InOrder, ContainIsRight, ArrCell

LEMMA ArrNextOrder == ArrShape /\ InOrder /\ [ArrNext]_arrayVars => ArrShape' /\ InOrder'
<1> SUFFICES ASSUME ArrShape, InOrder, [ArrNext]_arrayVars PROVE ArrShape' /\ InOrder' OBVIOUS
<1>0. length \in Nat /\ Cells \in Nat /\ length <= Cells /\ Ints \subseteq Int
  BY CellsAssumption DEF ArrShape
<1>1. CASE UNCHANGED <<kind, cells, length>>
  BY <1>1 DEF ArrShape, InOrder
<1>2. ASSUME NEW d \in Ints, insertLast(d) PROVE ArrShape' /\ InOrder'
  <2>1. kind = "Array" /\ kind' = kind BY <1>2 DEF insertLast
  <2>2. CASE ArrIsFull BY <1>2, <2>1, <2>2 DEF insertLast, ArrShape, InOrder
  <2>3. CASE ~ ArrIsFull
    <3>1. cells' = [cells EXCEPT ![length] = d] /\ length' = length + 1 BY <1>2, <2>3 DEF insertLast
    <3>2. length + 1 \in 0 .. Cells BY <1>0, <2>3 DEF ArrIsFull
    <3>3. d \in Int BY <1>0
    <3> QED BY <2>1, <3>1, <3>2, <3>3 DEF ArrShape, InOrder
  <2> QED BY <2>2, <2>3
<1>3. ASSUME NEW d \in Ints, push(d) PROVE ArrShape' /\ InOrder'
  <2>1. kind = "Stack" /\ kind' = kind BY <1>3 DEF push
  <2>2. CASE ArrIsFull BY <1>3, <2>1, <2>2 DEF push, ArrShape, InOrder
  <2>3. CASE ~ ArrIsFull
    <3>1. cells' = [cells EXCEPT ![length] = d] /\ length' = length + 1 BY <1>3, <2>3 DEF push
    <3>2. length + 1 \in 0 .. Cells BY <1>0, <2>3 DEF ArrIsFull
    <3>3. d \in Int BY <1>0
    <3> QED BY <2>1, <3>1, <3>2, <3>3 DEF ArrShape, InOrder
  <2> QED BY <2>2, <2>3
<1>4. ASSUME NEW d \in Ints, NEW index \in -1 .. Cells + 1, insertAt(index, d)
      PROVE  ArrShape' /\ InOrder'
  <2> DEFINE hit == index \in 1 .. length - 1
             lowest == IF hit THEN index + 1 ELSE 1
  <2>1. kind = "Array" /\ kind' = kind BY <1>4 DEF insertAt
  <2>2. CASE ArrIsFull \/ index \notin 0 .. length
    BY <1>4, <2>1, <2>2 DEF insertAt, ArrShape, InOrder
  <2>3. CASE ~ (ArrIsFull \/ index \notin 0 .. length)
    <3>1. /\ cells' = [k \in ArrCell |-> IF hit /\ k = index THEN d
                                          ELSE IF k \in (lowest + 1) .. length THEN cells[k - 1]
                                          ELSE cells[k]]
          /\ length' = IF hit THEN length + 1 ELSE length
      BY <1>4, <2>3 DEF insertAt
    <3>2. length' \in 0 .. Cells BY <1>0, <2>3, <3>1 DEF ArrIsFull
    <3>3. d \in Int BY <1>0
    <3>4. ASSUME NEW k \in ArrCell
          PROVE  k \in (lowest + 1) .. length => k - 1 \in ArrCell
      BY <1>0 DEF ArrCell
    <3>5. \A k \in ArrCell : cells[k] \in Int BY DEF ArrShape
    <3> HIDE DEF hit, lowest
    <3>6. cells' \in [ArrCell -> Int] BY <3>1, <3>3, <3>4, <3>5
    <3> QED BY <2>1, <3>2, <3>6 DEF ArrShape, InOrder
  <2> QED BY <2>2, <2>3
<1>5. CASE pop
  <2>1. kind = "Stack" /\ kind' = kind /\ cells' = cells BY <1>5 DEF pop
  <2>2. length' \in 0 .. Cells BY <1>0, <1>5 DEF pop, ArrIsEmpty
  <2> QED BY <2>1, <2>2 DEF ArrShape, InOrder
<1>6. ASSUME NEW d \in Ints, contain(d) PROVE UNCHANGED <<kind, cells, length>>
  BY <1>6 DEF contain
<1>7. ASSUME NEW index \in -1 .. Cells + 1, get(index) PROVE UNCHANGED <<kind, cells, length>>
  BY <1>7 DEF get
<1>8. CASE peek BY <1>1, <1>8 DEF peek
<1>9. CASE UNCHANGED arrayVars BY <1>1, <1>9 DEF arrayVars
<1>10. CASE ArrNext
  BY <1>1, <1>2, <1>3, <1>4, <1>5, <1>6, <1>7, <1>8, <1>10, InsertKeepsOrder, DeleteKeepsOrder
  DEF ArrNext
<1> QED BY <1>9, <1>10

LEMMA ContainFinds ==
  ASSUME ArrShape, InOrder, NEW d \in Ints, contain(d)
  PROVE  ContainIsRight'
<1>0. length \in Nat /\ d \in Int BY CellsAssumption DEF ArrShape
<1>1. kind \in {"Array", "OrderArray"} /\ UNCHANGED <<kind, cells, length>> BY DEF contain
<1>2. ArrContents' = ArrContents BY <1>1 DEF ArrContents
<1>3. d \in ToSet(ArrContents) <=> \E k \in 0 .. length - 1 : cells[k] = d BY <1>0, HadIs
<1>4. CASE ArrIsEmpty
  <2>1. call'.thrown \/ call' = [op |-> "contain", arg |-> d, result |-> -1, thrown |-> FALSE]
    BY <1>1, <1>4 DEF contain, RefusesEmpty, Throws, Returns
  <2>2. d \notin ToSet(ArrContents) BY <1>3, <1>4 DEF ArrIsEmpty
  <2> QED BY <1>2, <2>1, <2>2 DEF ContainIsRight
<1>5. CASE ~ ArrIsEmpty
  <2>1. call' = [op |-> "contain", arg |-> d, result |-> Located(d), thrown |-> FALSE]
    BY <1>5 DEF contain, Returns
  <2>2. Finds(cells, d, 0, length - 1, Located(d)) BY <1>0, <1>1, LocatedFinds
  <2>3. call'.arg = d /\ call'.result = Located(d) BY <2>1
  <2>4. IF d \in ToSet(ArrContents)
          THEN Located(d) \in 0 .. length - 1 /\ cells[Located(d)] = d ELSE Located(d) = -1
    BY <1>3, <2>2 DEF Finds
  <2> QED BY <1>1, <1>2, <2>3, <2>4 DEF ContainIsRight
<1> QED BY <1>4, <1>5

LEMMA ArrNextContain ==
  ASSUME ArrShape, InOrder, ContainIsRight, [ArrNext]_arrayVars
  PROVE  ContainIsRight'
<1>1. CASE UNCHANGED arrayVars BY <1>1 DEF arrayVars, ContainIsRight, ArrContents
<1>2. CASE \E d \in Ints : contain(d) BY <1>2, ContainFinds
<1>3. ASSUME NEW d \in Ints, insertLast(d) \/ insertOrdered(d) \/ delete(d) \/ push(d)
      PROVE  call'.op # "contain"
  BY <1>3 DEF insertLast, insertOrdered, delete, push, Returns, Throws, RefusesEmpty
<1>4. ASSUME NEW d \in Ints, NEW index \in -1 .. Cells + 1, insertAt(index, d)
      PROVE  call'.op # "contain"
  BY <1>4 DEF insertAt, Returns, Throws
<1>5. ASSUME NEW index \in -1 .. Cells + 1, get(index) PROVE call'.op # "contain"
  BY <1>5 DEF get, Returns, Throws
<1>6. CASE pop \/ peek
  <2>1. call'.op # "contain" BY <1>6 DEF pop, peek, Returns
  <2> QED BY <2>1 DEF ContainIsRight
<1>7. CASE call'.op # "contain" BY <1>7 DEF ContainIsRight
<1> QED BY <1>1, <1>2, <1>3, <1>4, <1>5, <1>6, <1>7 DEF ArrNext

\* What a search of the containers answers is right, whatever calls came before.
THEOREM ContainAlwaysRight == ArrSpec => []ContainIsRight
<1>1. ArrInit => ArrShape /\ InOrder /\ ContainIsRight BY ArrInitOK
<1>2. ArrShape /\ InOrder /\ ContainIsRight /\ [ArrNext]_arrayVars
        => (ArrShape /\ InOrder /\ ContainIsRight)'
  BY ArrNextOrder, ArrNextContain
<1> QED BY <1>1, <1>2, PTL DEF ArrSpec
-----------------------------------------------------------------------------
\* The first n cells as a sequence.
CellSeq(c, n) == [k \in 1 .. n |-> c[k - 1]]

LEMMA CellSeqIs ==
  ASSUME NEW n \in Nat, NEW c, \A k \in 0 .. n - 1 : c[k] \in Int
  PROVE  /\ CellSeq(c, n) \in Seq(Int) /\ Len(CellSeq(c, n)) = n
         /\ \A k \in 1 .. n : CellSeq(c, n)[k] = c[k - 1]
<1>1. ASSUME NEW k \in 1 .. n PROVE c[k - 1] \in Int
  <2>1. k - 1 \in 0 .. n - 1 OBVIOUS
  <2> QED BY <2>1
<1>2. CellSeq(c, n) \in [1 .. n -> Int] BY <1>1 DEF CellSeq
<1> QED BY <1>2 DEF CellSeq

LEMMA FirstCellsIs ==
  ASSUME NEW n \in 0 .. Cells, NEW c \in [ArrCell -> Int]
  PROVE  /\ CellSeq(c, n) \in Seq(Int) /\ Len(CellSeq(c, n)) = n /\ n \in Nat
         /\ \A k \in 1 .. n : CellSeq(c, n)[k] = c[k - 1]
<1>1. n \in Nat /\ \A k \in 0 .. n - 1 : c[k] \in Int BY CellsAssumption DEF ArrCell
<1> QED BY <1>1, CellSeqIs

\* The ints in use, before and after a call.
LEMMA ContentsIs ==
  ASSUME ArrShape
  PROVE  /\ ArrContents \in Seq(Int) /\ Len(ArrContents) = length /\ length \in Nat
         /\ \A k \in 1 .. length : ArrContents[k] = cells[k - 1]
<1>1. length \in 0 .. Cells /\ cells \in [ArrCell -> Int] BY DEF ArrShape
<1>2. ArrContents = CellSeq(cells, length) BY DEF ArrContents, CellSeq
<1> QED BY <1>1, <1>2, FirstCellsIs

LEMMA NewContentsIs ==
  ASSUME ArrShape'
  PROVE  /\ ArrContents' \in Seq(Int) /\ Len(ArrContents') = length' /\ length' \in Nat
         /\ \A k \in 1 .. length' : ArrContents'[k] = cells'[k - 1]
<1>1. length' \in 0 .. Cells /\ cells' \in [ArrCell -> Int] BY DEF ArrShape
<1>2. ArrContents' = CellSeq(cells', length') BY DEF ArrContents, CellSeq
<1> QED BY <1>1, <1>2, FirstCellsIs

LEMMA ContentsInserted ==
  ASSUME ArrShape, ArrShape', NEW l \in 0 .. length, NEW d \in Int, length' = length + 1,
         \A k \in 0 .. length :
           cells'[k] = IF k < l THEN cells[k] ELSE IF k = l THEN d ELSE cells[k - 1]
  PROVE  \E k \in 1 .. length + 1 : ArrContents' = InsertAt(ArrContents, k, d)
<1> DEFINE s == ArrContents
           t == ArrContents'
<1>1. s \in Seq(Int) /\ Len(s) = length /\ length \in Nat
      /\ \A k \in 1 .. length : s[k] = cells[k - 1]
  BY ContentsIs
<1>2. t \in Seq(Int) /\ Len(t) = length + 1 /\ \A k \in 1 .. length + 1 : t[k] = cells'[k - 1]
  BY NewContentsIs
<1> HIDE DEF s, t
<1>3. ASSUME NEW j \in 1 .. length + 1
      PROVE  t[j] = IF j < l + 1 THEN s[j] ELSE IF j = l + 1 THEN d ELSE s[j - 1]
  <2>1. j - 1 \in 0 .. length BY <1>1
  <2>2. t[j] = IF j - 1 < l THEN cells[j - 1] ELSE IF j - 1 = l THEN d ELSE cells[(j - 1) - 1]
    BY <1>2, <2>1
  <2>3. CASE j < l + 1
    <3>1. j \in 1 .. length /\ j - 1 < l BY <1>1, <2>3
    <3> QED BY <1>1, <2>2, <2>3, <3>1
  <2>4. CASE j = l + 1
    <3>1. j - 1 = l BY <1>1, <2>4
    <3> QED BY <1>1, <2>2, <2>4, <3>1
  <2>5. CASE ~ (j < l + 1) /\ j # l + 1
    <3>1. j - 1 \in 1 .. length /\ ~ (j - 1 < l) /\ j - 1 # l BY <1>1, <2>5
    <3>2. s[j - 1] = cells[(j - 1) - 1] BY <1>1, <3>1
    <3> QED BY <2>2, <2>5, <3>1, <3>2
  <2> QED BY <2>3, <2>4, <2>5
<1>4. l + 1 \in 1 .. length + 1 BY <1>1
<1>5. IsInserted(t, s, length, l + 1, d) BY <1>3 DEF IsInserted
<1>6. t = InsertAt(s, l + 1, d) BY <1>1, <1>2, <1>4, <1>5, InsertedIs
<1> QED BY <1>4, <1>6 DEF s, t

LEMMA ContentsRemoved ==
  ASSUME ArrShape, ArrShape', NEW l \in 0 .. length - 1, length' = length - 1,
         \A k \in 0 .. length - 2 : cells'[k] = IF k >= l THEN cells[k + 1] ELSE cells[k]
  PROVE  ArrContents' = RemoveAt(ArrContents, l + 1)
<1> DEFINE s == ArrContents
           t == ArrContents'
<1>1. s \in Seq(Int) /\ Len(s) = length /\ length \in Nat
      /\ \A k \in 1 .. length : s[k] = cells[k - 1]
  BY ContentsIs
<1>2. t \in Seq(Int) /\ Len(t) = length - 1 /\ \A k \in 1 .. length - 1 : t[k] = cells'[k - 1]
  BY NewContentsIs
<1> HIDE DEF s, t
<1>3. ASSUME NEW j \in 1 .. length - 1
      PROVE  t[j] = IF j < l + 1 THEN s[j] ELSE s[j + 1]
  <2>1. j - 1 \in 0 .. length - 2 /\ j \in 1 .. length /\ j + 1 \in 1 .. length BY <1>1
  <2>2. t[j] = IF j - 1 >= l THEN cells[(j - 1) + 1] ELSE cells[j - 1] BY <1>2, <2>1
  <2>3. CASE j < l + 1
    <3>1. ~ (j - 1 >= l) BY <1>1, <2>3
    <3> QED BY <1>1, <2>1, <2>2, <2>3, <3>1
  <2>4. CASE ~ (j < l + 1)
    <3>1. j - 1 >= l /\ (j - 1) + 1 = (j + 1) - 1 BY <1>1, <2>4
    <3>2. s[j + 1] = cells[(j + 1) - 1] BY <1>1, <2>1
    <3> QED BY <2>2, <2>4, <3>1, <3>2
  <2> QED BY <2>3, <2>4
<1>4. l + 1 \in 1 .. length BY <1>1
<1>5. IsRemoved(t, s, length, l + 1) BY <1>3 DEF IsRemoved
<1>6. t = RemoveAt(s, l + 1) BY <1>1, <1>2, <1>4, <1>5, RemovedIs
<1> QED BY <1>6 DEF s, t

LEMMA ContentsDoubled ==
  ASSUME ArrShape, ArrShape', NEW l \in 0 .. length - 1, length' = length,
         \A k \in 0 .. length - 1 :
           cells'[k] = IF k >= l /\ k < length - 1 THEN cells[k + 1] ELSE cells[k]
  PROVE  ArrContents' = Append(RemoveAt(ArrContents, l + 1), Last(ArrContents))
<1> DEFINE s == ArrContents
           t == ArrContents'
<1>1. s \in Seq(Int) /\ Len(s) = length /\ length \in Nat
      /\ \A k \in 1 .. length : s[k] = cells[k - 1]
  BY ContentsIs
<1>2. t \in Seq(Int) /\ Len(t) = length /\ \A k \in 1 .. length : t[k] = cells'[k - 1]
  BY NewContentsIs
<1> HIDE DEF s, t
<1>3. ASSUME NEW j \in 1 .. length
      PROVE  t[j] = IF j < l + 1 THEN s[j] ELSE IF j < length THEN s[j + 1] ELSE s[length]
  <2>1. j - 1 \in 0 .. length - 1 BY <1>1
  <2>2. t[j] = IF j - 1 >= l /\ j - 1 < length - 1 THEN cells[(j - 1) + 1] ELSE cells[j - 1]
    BY <1>2, <2>1
  <2>3. s[j] = cells[j - 1] BY <1>1
  <2>4. CASE j < l + 1
    <3>1. ~ (j - 1 >= l) BY <1>1, <2>4
    <3> QED BY <2>2, <2>3, <2>4, <3>1
  <2>5. CASE ~ (j < l + 1) /\ j < length
    <3>1. j - 1 >= l /\ j - 1 < length - 1 /\ (j - 1) + 1 = (j + 1) - 1 /\ j + 1 \in 1 .. length
      BY <1>1, <2>5
    <3>2. s[j + 1] = cells[(j + 1) - 1] BY <1>1, <3>1
    <3> QED BY <2>2, <2>5, <3>1, <3>2
  <2>6. CASE ~ (j < l + 1) /\ ~ (j < length)
    <3>1. j = length /\ ~ (j - 1 < length - 1) BY <1>1, <2>6
    <3> QED BY <2>2, <2>3, <2>6, <3>1
  <2> QED BY <2>4, <2>5, <2>6
<1>4. l + 1 \in 1 .. length BY <1>1
<1>5. IsDoubled(t, s, length, l + 1) BY <1>3 DEF IsDoubled
<1>6. t = Append(RemoveAt(s, l + 1), Last(s)) BY <1>1, <1>2, <1>4, <1>5, DoubledIs
<1> QED BY <1>6 DEF s, t

\* What ArrayEdits says of a call.
ArrEdit ==
  LET d == call'.arg
      had == d \in ToSet(ArrContents)
  IN  /\ call'.op \in {"insert", "push"} =>
           IF ArrIsFull THEN ArrContents' = ArrContents
                     ELSE \E k \in 1..(length + 1) : ArrContents' = InsertAt(ArrContents, k, d)
      /\ call'.op = "delete" /\ ~had => ArrContents' = ArrContents
      /\ call'.op = "delete" /\ had =>
           \E k \in DOMAIN ArrContents :
             /\ ArrContents[k] = d
             /\ IF call'.thrown
                  THEN /\ kind = "OrderArray" /\ ArrIsFull
                       /\ ArrContents' = Append(RemoveAt(ArrContents, k), Last(ArrContents))
                  ELSE ArrContents' = RemoveAt(ArrContents, k)
      /\ call'.op = "pop" =>
           ArrContents' = IF ArrIsEmpty THEN <<>> ELSE RemoveAt(ArrContents, length)
      /\ call'.op \in {"contain", "get", "peek"} => ArrContents' = ArrContents

LEMMA QueriesEdit ==
  ASSUME NEW op \in {"contain", "insertAt", "get", "peek"}, call'.op = op,
         op = "insertAt" \/ UNCHANGED <<cells, length>>
  PROVE  ArrEdit
<1>1. op = "insertAt" \/ ArrContents' = ArrContents BY DEF ArrContents
<1> QED BY <1>1 DEF ArrEdit

\* The calls that put an int behind the last one.
LEMMA LastEdit ==
  ASSUME ArrShape, ArrShape', NEW d \in Ints,
         call'.op \in {"insert", "push"} /\ call'.arg = d,
         IF ArrIsFull THEN UNCHANGED <<cells, length>>
                      ELSE cells' = [cells EXCEPT ![length] = d] /\ length' = length + 1
  PROVE  ArrEdit
<1>0. /\ length \in Nat /\ length <= Cells /\ Cells \in Nat /\ d \in Int
      /\ DOMAIN cells = 0 .. Cells - 1
  BY CellsAssumption DEF ArrShape, ArrCell
<1>1. CASE ArrIsFull
  <2>1. ArrContents' = ArrContents BY <1>1 DEF ArrContents
  <2> QED BY <1>1, <2>1 DEF ArrEdit
<1>2. CASE ~ ArrIsFull
  <2>1. cells' = [cells EXCEPT ![length] = d] /\ length' = length + 1 BY <1>2
  <2>2. length \in 0 .. Cells - 1 /\ length \in 0 .. length BY <1>0, <1>2 DEF ArrIsFull
  <2>3. ASSUME NEW k \in 0 .. length
        PROVE  cells'[k] = IF k < length THEN cells[k] ELSE IF k = length THEN d ELSE cells[k - 1]
    <3>1. k \in 0 .. Cells - 1 /\ (k < length \/ k = length) /\ ~ (k < length /\ k = length)
      BY <1>0, <2>2
    <3> QED BY <1>0, <2>1, <3>1
  <2>4. \E k \in 1 .. length + 1 : ArrContents' = InsertAt(ArrContents, k, d)
    BY <1>0, <2>1, <2>2, <2>3, ContentsInserted
  <2> QED BY <1>2, <2>4 DEF ArrEdit
<1> QED BY <1>1, <1>2

LEMMA OrderedEdit ==
  ASSUME ArrShape, ArrShape', NEW d \in Ints, insertOrdered(d)
  PROVE  ArrEdit
<1>0. /\ length \in Nat /\ length <= Cells /\ Cells \in Nat /\ d \in Int
      /\ DOMAIN cells = 0 .. Cells - 1
  BY CellsAssumption DEF ArrShape, ArrCell
<1>a. call'.op = "insert" /\ call'.arg = d BY DEF insertOrdered, Returns
<1>1. CASE ArrIsFull
  <2>1. ArrContents' = ArrContents BY <1>1 DEF ArrContents, insertOrdered
  <2> QED BY <1>a, <1>1, <2>1 DEF ArrEdit
<1>2. CASE ~ ArrIsFull
  <2> DEFINE S == {length} \cup {k \in 0 .. length - 1 : cells[k] > d}
  <2>1. S \in SUBSET Nat /\ S # {} /\ S \subseteq 0 .. length BY <1>0
  <2>2. PICK l \in 0 .. length : l = Min(S)
    <3> HIDE DEF S
    <3> QED BY <2>1, MinIs
  <2>3. cells' = Inserted(l, d) /\ length' = length + 1 BY <1>2, <2>2 DEF insertOrdered
  <2> HIDE DEF S
  <2>4. length < Cells BY <1>0, <1>2 DEF ArrIsFull
  <2>5. ASSUME NEW k \in 0 .. length
        PROVE  cells'[k] = IF k < l THEN cells[k] ELSE IF k = l THEN d ELSE cells[k - 1]
    <3>1. k \in 0 .. Cells - 1 BY <1>0, <2>4
    <3>2. cells'[k] = IF k = l THEN d ELSE IF k \in l + 1 .. length THEN cells[k - 1] ELSE cells[k]
      BY <2>3, <3>1 DEF Inserted, ArrCell
    <3>3. k \in l + 1 .. length <=> ~ (k < l) /\ k # l BY <1>0
    <3>4. k < l => k # l BY <1>0
    <3> QED BY <3>2, <3>3, <3>4
  <2>6. \E k \in 1 .. length + 1 : ArrContents' = InsertAt(ArrContents, k, d)
    BY <1>0, <2>3, <2>5, ContentsInserted
  <2> QED BY <1>a, <1>2, <2>6 DEF ArrEdit
<1> QED BY <1>1, <1>2

LEMMA DeleteEdit ==
  ASSUME ArrShape, ArrShape', InOrder, NEW d \in Ints, delete(d)
  PROVE  ArrEdit
<1>0. length \in Nat BY CellsAssumption DEF ArrShape
<1>a. call'.op = "delete" /\ call'.arg = d BY DEF delete, Returns, Throws, RefusesEmpty
<1>b. d \in ToSet(ArrContents) <=> \E k \in 0 .. length - 1 : cells[k] = d BY <1>0, HadIs
<1>1. CASE ~ \E k \in 0 .. length - 1 : cells[k] = d
  <2>1. UNCHANGED <<cells, length>> BY <1>1, DeleteNothing
  <2>2. ArrContents' = ArrContents BY <2>1 DEF ArrContents
  <2> QED BY <1>a, <1>b, <1>1, <2>2 DEF ArrEdit
<1>2. CASE \E k \in 0 .. length - 1 : cells[k] = d
  <2>1. PICK l \in 0 .. length - 1 :
           /\ cells[l] = d
           /\ \/ /\ kind = "OrderArray" /\ ArrIsFull /\ call'.thrown /\ length' = length
                 /\ \A k \in 0 .. length - 1 :
                      cells'[k] = IF k >= l /\ k < length - 1 THEN cells[k + 1] ELSE cells[k]
              \/ /\ ~ call'.thrown /\ length' = length - 1
                 /\ \A k \in 0 .. length - 2 : cells'[k] = IF k >= l THEN cells[k + 1] ELSE cells[k]
    BY <1>2, DeleteShifts
  <2>2. /\ DOMAIN ArrContents = 1 .. length
        /\ \A k \in 1 .. length : ArrContents[k] = cells[k - 1]
    BY DEF ArrContents
  <2>3. l + 1 \in 1 .. length /\ (l + 1) - 1 = l BY <1>0
  <2>4. l + 1 \in DOMAIN ArrContents /\ ArrContents[l + 1] = d BY <2>1, <2>2, <2>3
  <2>5. IF call'.thrown
          THEN /\ kind = "OrderArray" /\ ArrIsFull
               /\ ArrContents' = Append(RemoveAt(ArrContents, l + 1), Last(ArrContents))
          ELSE ArrContents' = RemoveAt(ArrContents, l + 1)
    <3>1. CASE call'.thrown
      <4>1. /\ length' = length
            /\ \A k \in 0 .. length - 1 :
                 cells'[k] = IF k >= l /\ k < length - 1 THEN cells[k + 1] ELSE cells[k]
        BY <2>1, <3>1
      <4>2. ArrContents' = Append(RemoveAt(ArrContents, l + 1), Last(ArrContents))
        BY <4>1, ContentsDoubled
      <4>3. kind = "OrderArray" /\ ArrIsFull BY <2>1, <3>1
      <4> QED BY <3>1, <4>2, <4>3
    <3>2. CASE ~ call'.thrown
      <4>1. /\ length' = length - 1
            /\ \A k \in 0 .. length - 2 : cells'[k] = IF k >= l THEN cells[k + 1] ELSE cells[k]
        BY <2>1, <3>2
      <4>2. ArrContents' = RemoveAt(ArrContents, l + 1) BY <4>1, ContentsRemoved
      <4> QED BY <3>2, <4>2
    <3> QED BY <3>1, <3>2
  <2>6. \E k \in DOMAIN ArrContents :
          /\ ArrContents[k] = d
          /\ IF call'.thrown
               THEN /\ kind = "OrderArray" /\ ArrIsFull
                    /\ ArrContents' = Append(RemoveAt(ArrContents, k), Last(ArrContents))
               ELSE ArrContents' = RemoveAt(ArrContents, k)
    BY <2>4, <2>5
  <2> QED BY <1>a, <1>b, <1>2, <2>6 DEF ArrEdit
<1> QED BY <1>1, <1>2

LEMMA PopEdit ==
  ASSUME ArrShape, ArrShape', pop
  PROVE  ArrEdit
<1>0. length \in Nat /\ cells' = cells /\ call'.op = "pop"
  BY CellsAssumption DEF ArrShape, pop, Returns
<1>1. CASE ArrIsEmpty
  <2>1. ArrContents' = <<>> BY <1>0, <1>1 DEF ArrContents, ArrIsEmpty, pop
  <2> QED BY <1>0, <1>1, <2>1 DEF ArrEdit
<1>2. CASE ~ ArrIsEmpty
  <2>1. length' = length - 1 /\ length - 1 \in 0 .. length - 1
    BY <1>0, <1>2 DEF ArrIsEmpty, pop
  <2>2. \A k \in 0 .. length - 2 :
          cells'[k] = IF k >= length - 1 THEN cells[k + 1] ELSE cells[k]
    BY <1>0
  <2>3. PICK l \in 0 .. length - 1 : l = length - 1 BY <2>1
  <2>4. ArrContents' = RemoveAt(ArrContents, l + 1)
    BY <2>1, <2>2, <2>3, ContentsRemoved
  <2>5. l + 1 = length BY <1>0, <2>3
  <2> QED BY <1>0, <1>2, <2>4, <2>5 DEF ArrEdit
<1> QED BY <1>1, <1>2

LEMMA ArrNextEdits ==
  ASSUME ArrShape, ArrShape', InOrder, ArrNext
  PROVE  ArrEdit
<1>1. ASSUME NEW d \in Ints, contain(d) PROVE ArrEdit
  <2>1. call'.op = "contain" /\ UNCHANGED <<cells, length>>
    BY <1>1 DEF contain, RefusesEmpty, Returns, Throws
  <2> QED BY <2>1, QueriesEdit
<1>2. ASSUME NEW d \in Ints, insertLast(d) PROVE ArrEdit
  <2>1. call'.op = "insert" /\ call'.arg = d BY <1>2 DEF insertLast, Returns, Throws
  <2>2. IF ArrIsFull THEN UNCHANGED <<cells, length>>
                     ELSE cells' = [cells EXCEPT ![length] = d] /\ length' = length + 1
    BY <1>2 DEF insertLast
  <2> QED BY <2>1, <2>2, LastEdit
<1>3. ASSUME NEW d \in Ints, push(d) PROVE ArrEdit
  <2>1. call'.op = "push" /\ call'.arg = d BY <1>3 DEF push, Returns
  <2>2. IF ArrIsFull THEN UNCHANGED <<cells, length>>
                     ELSE cells' = [cells EXCEPT ![length] = d] /\ length' = length + 1
    BY <1>3 DEF push
  <2> QED BY <2>1, <2>2, LastEdit
<1>4. ASSUME NEW d \in Ints, NEW index \in -1 .. Cells + 1, insertAt(index, d) PROVE ArrEdit
  <2>1. call'.op = "insertAt" BY <1>4 DEF insertAt, Returns, Throws
  <2> QED BY <2>1, QueriesEdit
<1>5. ASSUME NEW index \in -1 .. Cells + 1, get(index) PROVE ArrEdit
  <2>1. call'.op = "get" /\ UNCHANGED <<cells, length>> BY <1>5 DEF get, Returns, Throws
  <2> QED BY <2>1, QueriesEdit
<1>6. CASE peek
  <2>1. call'.op = "peek" /\ UNCHANGED <<cells, length>> BY <1>6 DEF peek, Returns
  <2> QED BY <2>1, QueriesEdit
<1> QED BY <1>1, <1>2, <1>3, <1>4, <1>5, <1>6, OrderedEdit, DeleteEdit, PopEdit DEF ArrNext

\* The calls of Array, OrderArray and Stack edit the ints in use as ArrayEdits says, for every
\* number of cells and every set of ints.
THEOREM ArraysAlwaysEdit == ArrSpec => ArrayEdits
<1>1. ArrInit => ArrShape /\ InOrder BY ArrInitOK
<1>2. ArrShape /\ InOrder /\ [ArrNext]_arrayVars => (ArrShape /\ InOrder)' BY ArrNextOrder
<1>3. ArrShape /\ ArrShape' /\ InOrder /\ [ArrNext]_arrayVars => [ArrEdit]_arrayVars
  BY ArrNextEdits
<1>4. ArrSpec => [][ArrEdit]_arrayVars BY <1>1, <1>2, <1>3, PTL DEF ArrSpec
<1> QED BY <1>4 DEF ArrayEdits, ArrEdit

-----------------------------------------------------------------------------
(* The list. *)

NodeOrNull == Node \cup {Null}

LEMMA NodesAreNumbers == Node \subseteq Nat /\ NodeOrNull \subseteq Nat
<1>1. ASSUME NEW x \in Node PROVE x \in Nat BY <1>1, MaxNodesAssumption DEF Node
<1>2. Null \in Nat BY DEF Null
<1> QED BY <1>1, <1>2 DEF NodeOrNull

\* The node reached from n by k of the references nx.
Walk(nx, n, k) ==
  LET walk[j \in 0..k] == IF j = 0 THEN n ELSE IF walk[j - 1] = Null THEN Null ELSE nx[walk[j - 1]]
  IN  walk[k]

\* c holds the nodes of a list, in order: the references lead from one to the next, and end.
Linked(hd, nx, c) ==
  /\ hd = IF Len(c) = 0 THEN Null ELSE c[1]
  /\ \A i \in 1 .. Len(c) : nx[c[i]] = IF i < Len(c) THEN c[i + 1] ELSE Null

LEMMA WalkFollows ==
  ASSUME NEW nx \in [Node -> NodeOrNull], NEW hd, NEW c \in Seq(Node), Linked(hd, nx, c),
         NEW l \in Nat, Len(c) = l, NEW k \in 0 .. l
  PROVE  Walk(nx, hd, k) = IF k < l THEN c[k + 1] ELSE Null
<1>0. hd = (IF l = 0 THEN Null ELSE c[1]) /\ \A i \in 1 .. l : c[i] \in Node
  BY DEF Linked
<1>1. hd \in NodeOrNull BY <1>0 DEF NodeOrNull
<1> DEFINE step == [p \in (1 .. k) \X NodeOrNull |-> IF p[2] = Null THEN Null ELSE nx[p[2]]]
           walk == CHOOSE f : f = [j \in 0 .. k |-> IF j = 0 THEN hd
                                          ELSE IF f[j - 1] = Null THEN Null ELSE nx[f[j - 1]]]
<1>2. ASSUME NEW j \in 1 .. k, NEW t \in NodeOrNull
      PROVE  step[<<j, t>>] = IF t = Null THEN Null ELSE nx[t]
  <2>1. <<j, t>> \in (1 .. k) \X NodeOrNull OBVIOUS
  <2> QED BY <2>1
<1>3. Stays(k, NodeOrNull, step)
  BY <1>2 DEF NodeOrNull, Stays
<1> HIDE DEF step
<1>4. PICK f : /\ f \in [0 .. k -> NodeOrNull] /\ f[0] = hd
               /\ \A j \in 1 .. k : f[j] = step[<<j, f[j - 1]>>]
  <2>1. k \in Nat OBVIOUS
  <2>2. \E f : Runs(f, k, NodeOrNull, hd, step) BY <1>1, <1>3, <2>1, LoopRuns
  <2> QED BY <2>2 DEF Runs
<1>5. f = [j \in 0 .. k |-> IF j = 0 THEN hd ELSE IF f[j - 1] = Null THEN Null ELSE nx[f[j - 1]]]
  <2>1. f = [j \in 0 .. k |-> f[j]] BY <1>4
  <2>2. ASSUME NEW j \in 0 .. k
        PROVE  f[j] = IF j = 0 THEN hd ELSE IF f[j - 1] = Null THEN Null ELSE nx[f[j - 1]]
    <3>1. CASE j = 0 BY <1>4, <3>1
    <3>2. CASE j # 0
      <4>1. j \in 1 .. k /\ j - 1 \in 0 .. k BY <3>2
      <4>2. f[j - 1] \in NodeOrNull BY <1>4, <4>1
      <4> QED BY <1>2, <1>4, <3>2, <4>1, <4>2
    <3> QED BY <3>1, <3>2
  <2> QED BY <2>1, <2>2
<1>6. walk = [j \in 0 .. k |-> IF j = 0 THEN hd
                               ELSE IF walk[j - 1] = Null THEN Null ELSE nx[walk[j - 1]]]
  BY <1>5
<1>7. Walk(nx, hd, k) = walk[k] BY DEF Walk
<1> HIDE DEF walk
<1>8. \A j \in 0 .. k : walk[j] = IF j = 0 THEN hd
                                  ELSE IF walk[j - 1] = Null THEN Null ELSE nx[walk[j - 1]]
  BY <1>6
<1> DEFINE P == {j \in 0 .. k : walk[j] = IF j < l THEN c[j + 1] ELSE Null}
<1>9. 0 \in P
  <2>1. 0 \in 0 .. k OBVIOUS
  <2>2. walk[0] = hd BY <1>8, <2>1
  <2> QED BY <1>0, <2>1, <2>2
<1>10. ASSUME NEW j \in 0 .. k - 1, j \in P PROVE j + 1 \in P
  <2>1. j + 1 \in 0 .. k /\ j + 1 # 0 /\ (j + 1) - 1 = j /\ j < l OBVIOUS
  <2>2. walk[j] = c[j + 1] BY <1>10, <2>1
  <2>3. j + 1 \in 1 .. l BY <2>1
  <2>4. c[j + 1] # Null BY <1>0, <2>3 DEF Node, Null
  <2>5. walk[j + 1] = nx[c[j + 1]] BY <1>8, <2>1, <2>2, <2>4
  <2>6. nx[c[j + 1]] = IF j + 1 < l THEN c[(j + 1) + 1] ELSE Null BY <2>3 DEF Linked
  <2> QED BY <2>1, <2>5, <2>6
<1>11. \A j \in 0 .. k : j \in P
  <2> HIDE DEF P
  <2> QED BY <1>9, <1>10, UpToInduction
<1>12. k \in P BY <1>11
<1> QED BY <1>7, <1>12

LengthOf(hd, nx) == Min({k \in 0..MaxNodes : Walk(nx, hd, k) = Null})
ChainOf(hd, nx) == [k \in 1..LengthOf(hd, nx) |-> Walk(nx, hd, k - 1)]

LEMMA ChainFollows ==
  ASSUME NEW nx \in [Node -> NodeOrNull], NEW hd, NEW c \in Seq(Node), Linked(hd, nx, c),
         Len(c) <= MaxNodes
  PROVE  LengthOf(hd, nx) = Len(c) /\ ChainOf(hd, nx) = c
<1>1. PICK l \in 0 .. MaxNodes : Len(c) = l BY MaxNodesAssumption
<1>2. ASSUME NEW k \in 0 .. l PROVE Walk(nx, hd, k) = IF k < l THEN c[k + 1] ELSE Null
  <2>1. l \in Nat OBVIOUS
  <2> QED BY <1>1, <2>1, WalkFollows
<1>3. ASSUME NEW k \in 0 .. l - 1 PROVE Walk(nx, hd, k) \in Node /\ Walk(nx, hd, k) # Null
  <2>1. k \in 0 .. l /\ k < l /\ k + 1 \in 1 .. l OBVIOUS
  <2>2. c[k + 1] \in Node BY <1>1, <2>1
  <2> QED BY <1>2, <2>1, <2>2 DEF Node, Null
<1>4. Walk(nx, hd, l) = Null
  <2>1. l \in 0 .. l /\ ~ (l < l) OBVIOUS
  <2> QED BY <1>2, <2>1
<1> DEFINE S == {k \in 0 .. MaxNodes : Walk(nx, hd, k) = Null}
<1>5. S \in SUBSET Nat /\ l \in S BY <1>4, MaxNodesAssumption
<1>6. \A k \in S : l <= k
  <2> SUFFICES ASSUME NEW k \in S, ~ (l <= k) PROVE FALSE OBVIOUS
  <2>1. k \in 0 .. l - 1
    <3>1. k \in Nat /\ l \in Nat BY MaxNodesAssumption
    <3> QED BY <3>1
  <2>2. Walk(nx, hd, k) = Null OBVIOUS
  <2> QED BY <1>3, <2>1, <2>2
<1>7. LengthOf(hd, nx) = Min(S) BY DEF LengthOf
<1> HIDE DEF S
<1>8. Min(S) \in S /\ \A k \in S : Min(S) <= k BY <1>5, MinIs
<1>9. LengthOf(hd, nx) = l
  <2>1. PICK m \in Nat : m = Min(S) BY <1>5, <1>8
  <2>2. m <= l /\ l <= m BY <1>5, <1>6, <1>8, <2>1
  <2>3. m = l BY <2>2
  <2> QED BY <1>7, <2>1, <2>3
<1>10. ChainOf(hd, nx) = [k \in 1 .. l |-> Walk(nx, hd, k - 1)] BY <1>9 DEF ChainOf
<1>11. ASSUME NEW k \in 1 .. l PROVE Walk(nx, hd, k - 1) = c[k] /\ c[k] \in Node
  <2>1. k - 1 \in 0 .. l /\ k - 1 < l /\ (k - 1) + 1 = k OBVIOUS
  <2>2. c[k] \in Node BY <1>1
  <2> QED BY <1>2, <2>1, <2>2
<1> DEFINE d == [k \in 1 .. l |-> Walk(nx, hd, k - 1)]
<1>12. d \in Seq(Node) /\ Len(d) = l /\ \A k \in 1 .. l : d[k] = c[k]
  <2>1. d \in [1 .. l -> Node] BY <1>11
  <2> QED BY <1>11, <2>1
<1> HIDE DEF d
<1>13. d = c BY <1>1, <1>12, SeqEqual
<1> QED BY <1>1, <1>9, <1>10, <1>13 DEF d
-----------------------------------------------------------------------------
\* A heap of cr nodes, of which the list c is linked from hd: its nodes and their elements are
\* all different, and the nodes not created yet are as they will be.
Good(hd, nx, dt, cr, c) ==
  /\ dt \in [Node -> Node] /\ nx \in [Node -> NodeOrNull] /\ cr \in 0 .. MaxNodes
  /\ c \in Seq(Node) /\ Len(c) <= cr /\ Linked(hd, nx, c)
  /\ \A i \in 1 .. Len(c) : c[i] <= cr
  /\ \A i, j \in 1 .. Len(c) : i # j => c[i] # c[j] /\ dt[c[i]] # dt[c[j]]
  /\ \A n \in Node : IF n <= cr THEN dt[n] <= cr /\ nx[n] <= cr ELSE dt[n] = n /\ nx[n] = Null

LEMMA GoodSkip ==
  ASSUME NEW hd, NEW nx, NEW dt, NEW cr, NEW c, Good(hd, nx, dt, cr, c), cr < MaxNodes
  PROVE  Good(hd, nx, dt, cr + 1, c)
<1>0. cr \in Nat /\ cr <= MaxNodes /\ MaxNodes \in Nat /\ Len(c) \in Nat
  BY MaxNodesAssumption DEF Good
<1>1. cr + 1 \in 0 .. MaxNodes /\ Len(c) <= cr + 1 BY <1>0 DEF Good
<1>2. \A i \in 1 .. Len(c) : c[i] <= cr + 1
  <2>1. \A i \in 1 .. Len(c) : c[i] \in Node /\ c[i] <= cr BY DEF Good
  <2> QED BY <1>0, <2>1 DEF Node
<1>3. ASSUME NEW n \in Node
      PROVE  IF n <= cr + 1 THEN dt[n] <= cr + 1 /\ nx[n] <= cr + 1 ELSE dt[n] = n /\ nx[n] = Null
  <2>1. n \in Nat /\ dt[n] \in Nat /\ nx[n] \in Nat BY <1>0 DEF Good, Node, NodeOrNull, Null
  <2>2. IF n <= cr THEN dt[n] <= cr /\ nx[n] <= cr ELSE dt[n] = n /\ nx[n] = Null BY DEF Good
  <2>3. CASE n <= cr BY <1>0, <2>1, <2>2, <2>3
  <2>4. CASE ~ (n <= cr) BY <1>0, <2>1, <2>2, <2>4 DEF Null
  <2> QED BY <2>3, <2>4
<1> QED BY <1>1, <1>2, <1>3 DEF Good

\* A node more, before position k.
LEMMA GoodInsert ==
  ASSUME NEW hd, NEW nx, NEW dt, NEW cr, NEW c, Good(hd, nx, dt, cr, c), cr < MaxNodes,
         NEW l \in Nat, Len(c) = l, NEW k \in 1 .. l + 1, NEW n, n = cr + 1,
         NEW hd2, hd2 = (IF k = 1 THEN n ELSE hd), NEW nx2 \in [Node -> NodeOrNull],
         \A m \in Node : nx2[m] = IF m = n THEN (IF k <= l THEN c[k] ELSE Null)
                                   ELSE IF k > 1 /\ m = c[k - 1] THEN n ELSE nx[m],
         NEW d \in Seq(Node), Len(d) = l + 1, IsInserted(d, c, l, k, n)
  PROVE  Good(hd2, nx2, dt, n, d)
<1>0. /\ cr \in Nat /\ cr <= MaxNodes /\ MaxNodes \in Nat /\ n \in Node /\ l <= cr
      /\ \A i \in 1 .. l : c[i] \in Node /\ c[i] <= cr /\ c[i] # n
      /\ \A i, j \in 1 .. l : i # j => c[i] # c[j] /\ dt[c[i]] # dt[c[j]]
      /\ dt \in [Node -> Node] /\ nx \in [Node -> NodeOrNull]
      /\ \A i \in 1 .. l : dt[c[i]] <= cr
      /\ dt[n] = n
  <2>1. cr \in Nat /\ MaxNodes \in Nat /\ n \in Node BY MaxNodesAssumption DEF Good, Node
  <2>2. \A i \in 1 .. l : c[i] \in Node /\ c[i] <= cr BY DEF Good
  <2>3. \A i \in 1 .. l : c[i] # n BY <2>1, <2>2 DEF Node
  <2>4. ~ (n <= cr) BY <2>1
  <2>5. dt \in [Node -> Node] /\ nx \in [Node -> NodeOrNull] /\ l <= cr /\ cr <= MaxNodes BY <2>1 DEF Good
  <2>6. \A m \in Node : (m <= cr => dt[m] <= cr) /\ (~ (m <= cr) => dt[m] = m) BY DEF Good
  <2>7. dt[n] = n BY <2>1, <2>4, <2>6
  <2>8. \A i \in 1 .. l : dt[c[i]] <= cr BY <2>2, <2>6
  <2>9. \A i, j \in 1 .. l : i # j => c[i] # c[j] /\ dt[c[i]] # dt[c[j]] BY DEF Good
  <2> QED BY <2>1, <2>2, <2>3, <2>5, <2>7, <2>8, <2>9
<1>1. hd = (IF l = 0 THEN Null ELSE c[1])
      /\ \A i \in 1 .. l : nx[c[i]] = IF i < l THEN c[i + 1] ELSE Null
  BY DEF Good, Linked
<1>2. \A j \in 1 .. l + 1 : d[j] = IF j < k THEN c[j] ELSE IF j = k THEN n ELSE c[j - 1]
  BY DEF IsInserted
<1> DEFINE old(j) == IF j < k THEN j ELSE j - 1
<1>3. ASSUME NEW j \in 1 .. l + 1, j # k PROVE old(j) \in 1 .. l /\ d[j] = c[old(j)]
  <2>1. CASE j < k BY <1>2, <1>3, <2>1
  <2>2. CASE ~ (j < k)
    <3>1. j - 1 \in 1 .. l BY <1>3, <2>2
    <3> QED BY <1>2, <1>3, <2>2, <3>1
  <2> QED BY <2>1, <2>2
<1>4. d[k] = n BY <1>2
<1>5. hd2 = d[1]
  <2>1. CASE k = 1 BY <1>4, <2>1
  <2>2. CASE k # 1
    <3>1. 1 < k /\ 1 \in 1 .. l + 1 /\ l # 0 BY <2>2
    <3> QED BY <1>1, <1>2, <2>2, <3>1
  <2> QED BY <2>1, <2>2
<1>6. ASSUME NEW i \in 1 .. l + 1 PROVE nx2[d[i]] = IF i < l + 1 THEN d[i + 1] ELSE Null
  <2>1. CASE i = k
    <3>1. nx2[n] = IF k <= l THEN c[k] ELSE Null BY <1>0
    <3>2. CASE k <= l
      <4>1. i < l + 1 /\ i + 1 \in 1 .. l + 1 /\ ~ (i + 1 < k) /\ i + 1 # k /\ (i + 1) - 1 = k
        BY <2>1, <3>2
      <4>2. d[i + 1] = c[k] BY <1>2, <4>1
      <4> QED BY <1>4, <2>1, <3>1, <3>2, <4>1, <4>2
    <3>3. CASE ~ (k <= l)
      <4>1. ~ (i < l + 1) BY <2>1, <3>3
      <4> QED BY <1>4, <2>1, <3>1, <3>3, <4>1
    <3> QED BY <3>2, <3>3
  <2>2. CASE i < k /\ i + 1 = k
    <3>1. d[i] = c[i] /\ i \in 1 .. l /\ k > 1 /\ i = k - 1 /\ i < l + 1 BY <1>2, <2>2
    <3>2. nx2[c[i]] = n BY <1>0, <3>1
    <3> QED BY <1>4, <2>2, <3>1, <3>2
  <2>3. CASE i < k /\ i + 1 # k
    <3>1. i \in 1 .. l /\ i + 1 \in 1 .. l /\ i + 1 \in 1 .. l + 1 /\ i + 1 < k /\ i < l /\ i < l + 1
          /\ k - 1 \in 1 .. l /\ i # k - 1
      BY <2>3
    <3>2. d[i] = c[i] /\ d[i + 1] = c[i + 1] BY <1>2, <2>3, <3>1
    <3>3. nx2[c[i]] = nx[c[i]] BY <1>0, <3>1
    <3> QED BY <1>1, <3>1, <3>2, <3>3
  <2>4. CASE ~ (i < k) /\ i # k
    <3>1. PICK j \in 1 .. l : j = i - 1 BY <2>4
    <3>2. d[i] = c[j] /\ (k > 1 => k - 1 \in 1 .. l /\ j # k - 1) /\ (i < l + 1 <=> j < l)
      BY <1>2, <2>4, <3>1
    <3>3. nx2[c[j]] = nx[c[j]] BY <1>0, <3>2
    <3>4. nx[c[j]] = IF j < l THEN c[j + 1] ELSE Null BY <1>1
    <3>5. i < l + 1 => d[i + 1] = c[j + 1]
      <4> SUFFICES ASSUME i < l + 1 PROVE d[i + 1] = c[j + 1] OBVIOUS
      <4>1. i + 1 \in 1 .. l + 1 /\ ~ (i + 1 < k) /\ i + 1 # k /\ (i + 1) - 1 = j + 1 BY <2>4, <3>1
      <4> QED BY <1>2, <4>1
    <3> QED BY <3>2, <3>3, <3>4, <3>5
  <2> QED BY <2>1, <2>2, <2>3, <2>4
<1>7. Linked(hd2, nx2, d)
  <2>1. Len(d) # 0 BY <1>0
  <2> QED BY <1>5, <1>6, <2>1 DEF Linked
<1>8. ASSUME NEW i \in 1 .. l + 1 PROVE d[i] <= n
  <2>1. CASE i = k BY <1>0, <1>4, <2>1
  <2>2. CASE i # k
    <3>1. d[i] \in Node /\ d[i] <= cr BY <1>0, <1>3, <2>2
    <3> QED BY <1>0, <3>1 DEF Node
  <2> QED BY <2>1, <2>2
<1>9. ASSUME NEW i \in 1 .. l + 1, NEW j \in 1 .. l + 1, i # j
      PROVE  d[i] # d[j] /\ dt[d[i]] # dt[d[j]]
  <2>0. ASSUME NEW x \in 1 .. l PROVE dt[c[x]] # n
    <3>1. c[x] \in Node /\ dt[c[x]] <= cr /\ dt \in [Node -> Node] BY <1>0
    <3>2. dt[c[x]] \in Node BY <3>1
    <3>3. \A y \in Node : y <= cr => y # n BY <1>0 DEF Node
    <3> QED BY <3>1, <3>2, <3>3
  <2>1. CASE i = k
    <3>1. j # k BY <1>9, <2>1
    <3> QED BY <1>0, <1>3, <1>4, <2>0, <2>1, <3>1
  <2>2. CASE j = k
    <3>1. i # k BY <1>9, <2>2
    <3> QED BY <1>0, <1>3, <1>4, <2>0, <2>2, <3>1
  <2>3. CASE i # k /\ j # k
    <3>1. old(i) # old(j) BY <1>9, <2>3
    <3>2. old(i) \in 1 .. l /\ old(j) \in 1 .. l /\ d[i] = c[old(i)] /\ d[j] = c[old(j)]
      BY <1>3, <2>3
    <3> HIDE DEF old
    <3> QED BY <1>0, <3>1, <3>2
  <2> QED BY <2>1, <2>2, <2>3
<1>10. ASSUME NEW m \in Node
       PROVE  IF m <= n THEN dt[m] <= n /\ nx2[m] <= n ELSE dt[m] = m /\ nx2[m] = Null
  <2>1. m \in Nat /\ dt[m] \in Nat /\ nx[m] \in Nat /\ nx2[m] \in Nat
    <3>1. Node \subseteq Nat /\ NodeOrNull \subseteq Nat BY NodesAreNumbers
    <3>2. dt[m] \in Node /\ nx[m] \in NodeOrNull /\ nx2[m] \in NodeOrNull BY <1>0
    <3> QED BY <3>1, <3>2
  <2>2. IF m <= cr THEN dt[m] <= cr /\ nx[m] <= cr ELSE dt[m] = m /\ nx[m] = Null BY DEF Good
  <2>3. CASE m = n
    <3>1. nx2[m] = IF k <= l THEN c[k] ELSE Null BY <2>3
    <3>2. k <= l => c[k] <= cr /\ c[k] \in Nat BY <1>0 DEF Node
    <3>3. nx2[m] <= n BY <1>0, <3>1, <3>2 DEF Null
    <3> QED BY <1>0, <2>3, <3>3
  <2>4. CASE m # n /\ m <= cr
    <3>1. nx2[m] = n \/ nx2[m] = nx[m] BY <2>4
    <3>2. nx2[m] <= n BY <1>0, <2>1, <2>2, <2>4, <3>1
    <3>3. m <= n /\ dt[m] <= n BY <1>0, <2>1, <2>2, <2>4
    <3> QED BY <3>2, <3>3
  <2>5. CASE m # n /\ ~ (m <= cr)
    <3>1. ~ (m <= n) BY <1>0, <2>1, <2>5
    <3>2. k > 1 => k - 1 \in 1 .. l BY <1>0
    <3>3. ~ (k > 1 /\ m = c[k - 1]) BY <1>0, <2>5, <3>2
    <3>4. nx2[m] = nx[m] BY <2>5, <3>3
    <3> QED BY <2>2, <2>5, <3>1, <3>4
  <2> QED BY <2>3, <2>4, <2>5
<1>11. n \in 0 .. MaxNodes /\ Len(d) <= n BY <1>0
<1> QED BY <1>0, <1>7, <1>8, <1>9, <1>10, <1>11 DEF Good

\* What of Good the next lemmas need of an arbitrary node of the list.
Nodes(hd, nx, dt, cr, c, l) ==
  /\ cr \in Nat /\ cr <= MaxNodes /\ MaxNodes \in Nat /\ l <= cr
  /\ dt \in [Node -> Node] /\ nx \in [Node -> NodeOrNull]
  /\ hd = (IF l = 0 THEN Null ELSE c[1])
  /\ \A i \in 1 .. l : c[i] \in Node /\ c[i] <= cr /\ nx[c[i]] <= cr /\ dt[c[i]] <= cr
  /\ \A i \in 1 .. l : nx[c[i]] = IF i < l THEN c[i + 1] ELSE Null
  /\ \A i, j \in 1 .. l : i # j => c[i] # c[j] /\ dt[c[i]] # dt[c[j]]

LEMMA GoodNodes ==
  ASSUME NEW hd, NEW nx, NEW dt, NEW cr, NEW c, Good(hd, nx, dt, cr, c), NEW l \in Nat, Len(c) = l
  PROVE  Nodes(hd, nx, dt, cr, c, l)
<1>1. cr \in Nat /\ cr <= MaxNodes /\ MaxNodes \in Nat /\ l <= cr
  BY MaxNodesAssumption DEF Good
<1>2. dt \in [Node -> Node] /\ nx \in [Node -> NodeOrNull] BY DEF Good
<1>3. \A i \in 1 .. l : c[i] \in Node /\ c[i] <= cr BY DEF Good
<1>4. \A m \in Node : m <= cr => dt[m] <= cr /\ nx[m] <= cr BY DEF Good
<1>5. \A i \in 1 .. l : nx[c[i]] <= cr /\ dt[c[i]] <= cr BY <1>3, <1>4
<1>6. /\ hd = (IF l = 0 THEN Null ELSE c[1])
      /\ \A i \in 1 .. l : nx[c[i]] = IF i < l THEN c[i + 1] ELSE Null
  BY DEF Good, Linked
<1>7. \A i, j \in 1 .. l : i # j => c[i] # c[j] /\ dt[c[i]] # dt[c[j]] BY DEF Good
<1> QED BY <1>1, <1>2, <1>3, <1>5, <1>6, <1>7 DEF Nodes

\* The node at position k unlinked.
LEMMA GoodRemove ==
  ASSUME NEW hd, NEW nx, NEW dt, NEW cr, NEW c, Good(hd, nx, dt, cr, c),
         NEW l \in Nat, Len(c) = l, NEW k \in 1 .. l,
         NEW hd2, hd2 = (IF k = 1 THEN nx[hd] ELSE hd), NEW nx2 \in [Node -> NodeOrNull],
         \A m \in Node : nx2[m] = IF k > 1 /\ m = c[k - 1] THEN nx[c[k]] ELSE nx[m],
         NEW d \in Seq(Node), Len(d) = l - 1, IsRemoved(d, c, l, k)
  PROVE  Good(hd2, nx2, dt, cr, d)
<1>a. Nodes(hd, nx, dt, cr, c, l) BY GoodNodes
<1>0. /\ cr \in Nat /\ cr <= MaxNodes /\ MaxNodes \in Nat /\ l <= cr
      /\ dt \in [Node -> Node] /\ nx \in [Node -> NodeOrNull]
      /\ hd = (IF l = 0 THEN Null ELSE c[1])
      /\ \A i \in 1 .. l : c[i] \in Node /\ c[i] <= cr /\ nx[c[i]] <= cr /\ dt[c[i]] <= cr
      /\ \A i \in 1 .. l : nx[c[i]] = IF i < l THEN c[i + 1] ELSE Null
      /\ \A i, j \in 1 .. l : i # j => c[i] # c[j] /\ dt[c[i]] # dt[c[j]]
  BY <1>a DEF Nodes
<1>2. \A j \in 1 .. l - 1 : d[j] = IF j < k THEN c[j] ELSE c[j + 1] BY DEF IsRemoved
<1> DEFINE old(j) == IF j < k THEN j ELSE j + 1
<1>3. ASSUME NEW j \in 1 .. l - 1 PROVE old(j) \in 1 .. l /\ d[j] = c[old(j)]
  BY <1>2
<1>5. hd2 = IF Len(d) = 0 THEN Null ELSE d[1]
  <2>1. CASE k = 1
    <3>1. hd = c[1] /\ 1 \in 1 .. l BY <1>0, <2>1
    <3>2. hd2 = IF 1 < l THEN c[1 + 1] ELSE Null BY <1>0, <2>1, <3>1
    <3>3. 1 < l => 1 \in 1 .. l - 1 /\ d[1] = c[1 + 1] BY <1>2, <2>1
    <3>4. 1 < l <=> l - 1 # 0 BY <3>1
    <3> QED BY <3>2, <3>3, <3>4
  <2>2. CASE k # 1
    <3>1. 1 < k /\ 1 \in 1 .. l - 1 /\ l # 0 /\ l - 1 # 0 BY <2>2
    <3>2. d[1] = c[1] BY <1>2, <3>1
    <3> QED BY <1>0, <2>2, <3>1, <3>2
  <2> QED BY <2>1, <2>2
<1>6. ASSUME NEW i \in 1 .. l - 1 PROVE nx2[d[i]] = IF i < l - 1 THEN d[i + 1] ELSE Null
  <2>1. CASE i < k /\ i + 1 = k
    <3>1. d[i] = c[i] /\ i \in 1 .. l /\ k > 1 /\ i = k - 1 /\ k \in 1 .. l BY <1>2, <2>1
    <3>2. nx2[c[i]] = nx[c[k]] BY <1>0, <3>1
    <3>3. nx[c[k]] = IF k < l THEN c[k + 1] ELSE Null BY <1>0
    <3>4. k < l <=> i < l - 1 BY <2>1
    <3>5. k < l => d[i + 1] = c[k + 1]
      <4> SUFFICES ASSUME k < l PROVE d[i + 1] = c[k + 1] OBVIOUS
      <4>1. k \in 1 .. l - 1 /\ ~ (k < k) OBVIOUS
      <4> QED BY <1>2, <2>1, <4>1
    <3> QED BY <3>1, <3>2, <3>3, <3>4, <3>5
  <2>2. CASE i < k /\ i + 1 # k
    <3>1. i \in 1 .. l /\ i + 1 \in 1 .. l - 1 /\ i + 1 < k /\ i < l /\ i < l - 1
          /\ k - 1 \in 1 .. l /\ i # k - 1
      BY <2>2
    <3>2. d[i] = c[i] /\ d[i + 1] = c[i + 1] BY <1>2, <2>2, <3>1
    <3>3. nx2[c[i]] = nx[c[i]] BY <1>0, <3>1
    <3> QED BY <1>0, <3>1, <3>2, <3>3
  <2>3. CASE ~ (i < k)
    <3>1. PICK j \in 1 .. l : j = i + 1 OBVIOUS
    <3>2. d[i] = c[j] /\ (k > 1 => k - 1 \in 1 .. l /\ j # k - 1) /\ (i < l - 1 <=> j < l)
      BY <1>2, <2>3, <3>1
    <3>3. nx2[c[j]] = nx[c[j]] BY <1>0, <3>2
    <3>4. nx[c[j]] = IF j < l THEN c[j + 1] ELSE Null BY <1>0
    <3>5. i < l - 1 => d[i + 1] = c[j + 1]
      <4> SUFFICES ASSUME i < l - 1 PROVE d[i + 1] = c[j + 1] OBVIOUS
      <4>1. i + 1 \in 1 .. l - 1 /\ ~ (i + 1 < k) /\ (i + 1) + 1 = j + 1 BY <2>3, <3>1
      <4> QED BY <1>2, <4>1
    <3> QED BY <3>2, <3>3, <3>4, <3>5
  <2> QED BY <2>1, <2>2, <2>3
<1>7. Linked(hd2, nx2, d) BY <1>5, <1>6 DEF Linked
<1>8. ASSUME NEW i \in 1 .. l - 1 PROVE d[i] <= cr BY <1>0, <1>3
<1>9. ASSUME NEW i \in 1 .. l - 1, NEW j \in 1 .. l - 1, i # j
      PROVE  d[i] # d[j] /\ dt[d[i]] # dt[d[j]]
  <2>1. old(i) # old(j) BY <1>9
  <2>2. old(i) \in 1 .. l /\ old(j) \in 1 .. l /\ d[i] = c[old(i)] /\ d[j] = c[old(j)] BY <1>3
  <2> HIDE DEF old
  <2> QED BY SMTT(30), <1>0, <2>1, <2>2
<1>10. ASSUME NEW m \in Node
       PROVE  IF m <= cr THEN dt[m] <= cr /\ nx2[m] <= cr ELSE dt[m] = m /\ nx2[m] = Null
  <2>1. IF m <= cr THEN dt[m] <= cr /\ nx[m] <= cr ELSE dt[m] = m /\ nx[m] = Null BY DEF Good
  <2>2. CASE k > 1 /\ m = c[k - 1]
    <3>1. k - 1 \in 1 .. l BY <2>2
    <3>2. m <= cr /\ nx2[m] = nx[c[k]] BY <1>0, <2>2, <3>1
    <3> QED BY <1>0, <2>1, <3>2
  <2>3. CASE ~ (k > 1 /\ m = c[k - 1])
    <3>1. nx2[m] = nx[m] BY <2>3
    <3> QED BY <2>1, <3>1
  <2> QED BY <2>2, <2>3
<1>11. cr \in 0 .. MaxNodes /\ Len(d) <= cr BY <1>0
<1> QED BY <1>0, <1>7, <1>8, <1>9, <1>10, <1>11 DEF Good

\* Other elements in the nodes.
GoodElements(dt, cr, c) ==
  /\ dt \in [Node -> Node]
  /\ \A i, j \in 1 .. Len(c) : i # j => dt[c[i]] # dt[c[j]]
  /\ \A m \in Node : IF m <= cr THEN dt[m] <= cr ELSE dt[m] = m

LEMMA GoodData ==
  ASSUME NEW hd, NEW nx, NEW dt, NEW cr, NEW c, Good(hd, nx, dt, cr, c), NEW dt2,
         GoodElements(dt2, cr, c)
  PROVE  Good(hd, nx, dt2, cr, c)
BY DEF Good, GoodElements

\* g is f with its value at b copied to a.
Copied(g, f, a, b) == \A m \in Node : g[m] = IF m = a THEN f[b] ELSE f[m]

\* The elements of the nodes d are those of the nodes c without the one at p.
Without(e, d, f, c, l, p) ==
  \A i \in 1 .. l - 1 : e[d[i]] = IF i < p THEN f[c[i]] ELSE f[c[i + 1]]

\* The element and the reference of the successor copied into the node at position p: the
\* successor leaves the list, and the element that was at p.
LEMMA GoodCopy ==
  ASSUME NEW hd, NEW nx, NEW dt, NEW cr, NEW c, Good(hd, nx, dt, cr, c),
         NEW l \in Nat, Len(c) = l, NEW p \in 1 .. l - 1,
         NEW d \in Seq(Node), Len(d) = l - 1, NEW q \in 1 .. l, q - 1 = p, IsRemoved(d, c, l, q),
         NEW nx2 \in [Node -> NodeOrNull], NEW dt2 \in [Node -> Node],
         Copied(nx2, nx, c[p], c[q]), Copied(dt2, dt, c[p], c[q])
  PROVE  /\ Good(hd, nx2, dt2, cr, d)
         /\ Without(dt2, d, dt, c, l, p)
<1> USE DEF Copied
<1>a. Nodes(hd, nx, dt, cr, c, l) BY GoodNodes
<1>0. /\ cr \in Nat /\ cr <= MaxNodes /\ MaxNodes \in Nat /\ l <= cr
      /\ dt \in [Node -> Node] /\ nx \in [Node -> NodeOrNull]
      /\ hd = (IF l = 0 THEN Null ELSE c[1])
      /\ \A i \in 1 .. l : c[i] \in Node /\ c[i] <= cr /\ nx[c[i]] <= cr /\ dt[c[i]] <= cr
      /\ \A i \in 1 .. l : nx[c[i]] = IF i < l THEN c[i + 1] ELSE Null
      /\ \A i, j \in 1 .. l : i # j => c[i] # c[j] /\ dt[c[i]] # dt[c[j]]
  BY <1>a DEF Nodes
<1>1. /\ p \in 1 .. l /\ p < l /\ q > 1 /\ q # 1 /\ q = p + 1
      /\ c[p] \in Node /\ c[q] \in Node
  BY <1>0
<1>4. \A m \in Node : nx2[m] = IF q > 1 /\ m = c[q - 1] THEN nx[c[q]] ELSE nx[m]
  BY <1>1
<1>6. Good(hd, nx2, dt, cr, d) BY <1>1, <1>4, GoodRemove
<1>7. \A j \in 1 .. l - 1 : d[j] = IF j < q THEN c[j] ELSE c[j + 1] BY DEF IsRemoved
<1> DEFINE old(i) == IF i < p THEN i ELSE i + 1
<1>8. ASSUME NEW i \in 1 .. l - 1 PROVE old(i) \in 1 .. l /\ dt2[d[i]] = dt[c[old(i)]]
  <2>1. CASE i < p
    <3>1. i \in 1 .. l /\ i < q /\ i # p BY <1>1, <2>1
    <3>2. d[i] = c[i] /\ c[i] # c[p] /\ c[i] \in Node BY <1>0, <1>1, <1>7, <3>1
    <3> QED BY <2>1, <3>1, <3>2
  <2>2. CASE i = p
    <3>1. i < q /\ q = i + 1 BY <1>1, <2>2
    <3>2. d[i] = c[p] BY <1>7, <2>2, <3>1
    <3>3. ~ (i < p) BY <2>2
    <3>4. old(i) = i + 1 BY <3>3
    <3>5. dt2[d[i]] = dt[c[q]] BY <1>1, <3>2
    <3> QED BY <1>1, <3>1, <3>4, <3>5
  <2>3. CASE ~ (i < p) /\ i # p
    <3>1. ~ (i < q) /\ i + 1 \in 1 .. l /\ i + 1 # p BY <1>1, <2>3
    <3>2. d[i] = c[i + 1] /\ c[i + 1] # c[p] /\ c[i + 1] \in Node BY <1>0, <1>1, <1>7, <3>1
    <3> QED BY <2>3, <3>1, <3>2
  <2> QED BY <2>1, <2>2, <2>3
<1>9. \A i, j \in 1 .. Len(d) : i # j => dt2[d[i]] # dt2[d[j]]
  <2> SUFFICES ASSUME NEW i \in 1 .. l - 1, NEW j \in 1 .. l - 1, i # j
               PROVE  dt2[d[i]] # dt2[d[j]]
    OBVIOUS
  <2>1. old(i) # old(j) OBVIOUS
  <2>2. old(i) \in 1 .. l /\ old(j) \in 1 .. l /\ dt2[d[i]] = dt[c[old(i)]] /\ dt2[d[j]] = dt[c[old(j)]]
    BY <1>8
  <2> HIDE DEF old
  <2> QED BY SMTT(30), <1>0, <2>1, <2>2
<1>10. \A m \in Node : IF m <= cr THEN dt2[m] <= cr ELSE dt2[m] = m
  <2> SUFFICES ASSUME NEW m \in Node PROVE IF m <= cr THEN dt2[m] <= cr ELSE dt2[m] = m OBVIOUS
  <2>1. IF m <= cr THEN dt[m] <= cr ELSE dt[m] = m BY DEF Good
  <2>2. CASE m = c[p] BY <1>0, <1>1, <2>2
  <2>3. CASE m # c[p] BY <2>1, <2>3
  <2> QED BY <2>2, <2>3
<1>11. GoodElements(dt2, cr, d) BY <1>9, <1>10 DEF GoodElements
<1>12. Good(hd, nx2, dt2, cr, d) BY <1>6, <1>11, GoodData
<1> QED BY <1>8, <1>12 DEF Without

\* The same of a node that is not in the list: the list does not change.
LEMMA GoodDetached ==
  ASSUME NEW hd, NEW nx, NEW dt, NEW cr, NEW c, Good(hd, nx, dt, cr, c),
         NEW l \in Nat, Len(c) = l, NEW n \in Node, n <= cr, nx[n] # Null, \A i \in 1 .. l : c[i] # n,
         NEW nx2 \in [Node -> NodeOrNull], NEW dt2 \in [Node -> Node],
         Copied(nx2, nx, n, nx[n]), Copied(dt2, dt, n, nx[n])
  PROVE  /\ Good(hd, nx2, dt2, cr, c)
         /\ \A i \in 1 .. l : dt2[c[i]] = dt[c[i]]
<1>a. Nodes(hd, nx, dt, cr, c, l) BY GoodNodes
<1>0. /\ cr \in Nat /\ cr <= MaxNodes /\ MaxNodes \in Nat /\ l <= cr
      /\ dt \in [Node -> Node] /\ nx \in [Node -> NodeOrNull]
      /\ hd = (IF l = 0 THEN Null ELSE c[1])
      /\ \A i \in 1 .. l : c[i] \in Node /\ c[i] <= cr /\ nx[c[i]] <= cr /\ dt[c[i]] <= cr
      /\ \A i \in 1 .. l : nx[c[i]] = IF i < l THEN c[i + 1] ELSE Null
      /\ \A i, j \in 1 .. l : i # j => c[i] # c[j] /\ dt[c[i]] # dt[c[j]]
  BY <1>a DEF Nodes
<1>1. \A m \in Node : IF m <= cr THEN dt[m] <= cr /\ nx[m] <= cr ELSE dt[m] = m /\ nx[m] = Null
  BY DEF Good
<1>2. nx[n] \in Node /\ nx[n] <= cr BY <1>0, <1>1 DEF NodeOrNull
<1>3. dt[nx[n]] \in Node /\ dt[nx[n]] <= cr /\ nx[nx[n]] \in NodeOrNull /\ nx[nx[n]] <= cr
  BY <1>0, <1>1, <1>2
<1>5. \A m \in Node : /\ nx2[m] = IF m = n THEN nx[nx[n]] ELSE nx[m]
                      /\ dt2[m] = IF m = n THEN dt[nx[n]] ELSE dt[m]
  BY DEF Copied
<1>6. \A i \in 1 .. l : dt2[c[i]] = dt[c[i]] /\ nx2[c[i]] = nx[c[i]] BY <1>0, <1>5
<1>7. Linked(hd, nx2, c) BY <1>0, <1>6 DEF Linked
<1>8. ASSUME NEW m \in Node
      PROVE  IF m <= cr THEN dt2[m] <= cr /\ nx2[m] <= cr ELSE dt2[m] = m /\ nx2[m] = Null
  <2>1. CASE m = n BY <1>3, <1>5, <2>1
  <2>2. CASE m # n BY <1>1, <1>5, <2>2
  <2> QED BY <2>1, <2>2
<1>9. \A i, j \in 1 .. l : i # j => c[i] # c[j] /\ dt2[c[i]] # dt2[c[j]] BY <1>0, <1>6
<1>10. c \in Seq(Node) /\ Len(c) <= cr /\ cr \in 0 .. MaxNodes BY DEF Good
<1> QED BY <1>0, <1>6, <1>7, <1>8, <1>9, <1>10 DEF Good
-----------------------------------------------------------------------------
\* A list that is Good is the one the walk from the first node finds.
LEMMA GoodChain ==
  ASSUME NEW hd, NEW nx, NEW dt, NEW cr, NEW c, Good(hd, nx, dt, cr, c)
  PROVE  LengthOf(hd, nx) = Len(c) /\ ChainOf(hd, nx) = c
<1>1. nx \in [Node -> NodeOrNull] /\ c \in Seq(Node) /\ Linked(hd, nx, c) BY DEF Good
<1>2. Len(c) <= MaxNodes
  <2>1. Len(c) \in Nat /\ cr \in 0 .. MaxNodes /\ Len(c) <= cr BY DEF Good
  <2> QED BY <2>1, MaxNodesAssumption
<1> QED BY <1>1, <1>2, ChainFollows

LEMMA ChainIsGood ==
  ASSUME NEW c, Good(headNode, next, data, created, c)
  PROVE  Chain = c /\ Length = Len(c)
<1>1. Length = LengthOf(headNode, next) BY DEF Length, LengthOf, After, Walk
<1>2. Chain = ChainOf(headNode, next) BY <1>1 DEF Chain, ChainOf, After, Walk
<1> QED BY <1>1, <1>2, GoodChain

LEMMA NewChainIsGood ==
  ASSUME NEW c, Good(headNode', next', data', created', c)
  PROVE  Chain' = c
<1>1. Length' = LengthOf(headNode', next') BY DEF Length, LengthOf, After, Walk
<1>2. Chain' = ChainOf(headNode', next') BY <1>1 DEF Chain, ChainOf, After, Walk
<1> QED BY <1>2, GoodChain

\* The elements of the nodes c.
ElementsOf(dt, c) == [k \in DOMAIN c |-> dt[c[k]]]

LEMMA ElementsAre ==
  ASSUME NEW dt \in [Node -> Node], NEW c \in Seq(Node), NEW l \in Nat, Len(c) = l
  PROVE  /\ ElementsOf(dt, c) \in Seq(Node) /\ Len(ElementsOf(dt, c)) = l
         /\ \A k \in 1 .. l : ElementsOf(dt, c)[k] = dt[c[k]]
<1>1. DOMAIN c = 1 .. l /\ \A k \in 1 .. l : c[k] \in Node OBVIOUS
<1>2. ElementsOf(dt, c) = [k \in 1 .. l |-> dt[c[k]]] BY <1>1 DEF ElementsOf
<1>3. ElementsOf(dt, c) \in [1 .. l -> Node] BY <1>1, <1>2
<1> QED BY <1>2, <1>3

\* A node that holds the element it was found with is the one of the list that has it.
Holding ==
  \A h \in Holder, i \in 1 .. Len(Chain) :
    foundAs[h] = data[Chain[i]] /\ foundAs[h] \notin moved => held[h] = Chain[i]

ListOK ==
  /\ Good(headNode, next, data, created, Chain)
  /\ held \in [Holder -> 0 .. created] /\ foundAs \in [Holder -> 0 .. created]
  /\ Holding

\* What a call does to the elements.
Edited ==
  \/ Elements' = Elements
  \/ /\ created \in Nat /\ created + 1 \in ToSet(Elements') \ ToSet(Elements)
     /\ \E k \in 1 .. Len(Elements) + 1 : Elements' = InsertAt(Elements, k, created + 1)
  \/ \E k \in DOMAIN Elements : Elements' = RemoveAt(Elements, k)

LEMMA ListInitOK == ListInit => ListOK /\ Elements = <<>>
<1> SUFFICES ASSUME ListInit PROVE ListOK /\ Elements = <<>> OBVIOUS
<1> USE MaxNodesAssumption
<1>1. Good(headNode, next, data, created, <<>>)
  <2>1. \A n \in Node : n \in Nat /\ ~ (n <= 0) BY DEF Node
  <2>2. Linked(Null, next, <<>>) BY DEF Linked
  <2> QED BY <2>1, <2>2 DEF ListInit, Good, NodeOrNull
<1>2. Chain = <<>> BY <1>1, ChainIsGood
<1>3. Elements = <<>> BY <1>2 DEF Elements
<1>4. held \in [Holder -> 0 .. created] /\ foundAs \in [Holder -> 0 .. created]
  BY DEF ListInit, Null
<1>5. Holding BY <1>2 DEF Holding
<1> QED BY <1>1, <1>2, <1>3, <1>4, <1>5 DEF ListOK

\* The holders keep what they have, and the nodes of the list are as before, except that one
\* has an element nobody found yet or one that was moved.
LEMMA HoldingKept ==
  ASSUME ListOK, held' = held, foundAs' = foundAs, moved \subseteq moved',
         \A i \in 1 .. Len(Chain') :
           \/ \E j \in 1 .. Len(Chain) : Chain'[i] = Chain[j] /\ data'[Chain'[i]] = data[Chain[j]]
           \/ data'[Chain'[i]] \notin 0 .. created
           \/ data'[Chain'[i]] \in moved'
  PROVE  Holding'
BY DEF ListOK, Holding

\* The call puts a new node n, with its number as its element, in the place k of the list.
PutsIn(l, k, n) ==
  /\ created < MaxNodes /\ n = created + 1 /\ created' = n /\ data' = data
  /\ held' = held /\ foundAs' = foundAs /\ moved' = moved
  /\ headNode' = (IF k = 1 THEN n ELSE headNode) /\ next' \in [Node -> NodeOrNull]
  /\ \A m \in Node : next'[m] = IF m = n THEN (IF k <= l THEN Chain[k] ELSE Null)
                                 ELSE IF k > 1 /\ m = Chain[k - 1] THEN n ELSE next[m]

LEMMA InsertStep ==
  ASSUME ListOK, NEW l \in Nat, Len(Chain) = l, NEW k \in 1 .. l + 1, NEW n, PutsIn(l, k, n)
  PROVE  ListOK' /\ Edited
<1> DEFINE c == Chain
           dt == data
<1>a. n = created + 1 /\ created < MaxNodes BY DEF PutsIn
<1>1. Good(headNode, next, dt, created, c) BY DEF ListOK
<1>2. Nodes(headNode, next, dt, created, c, l) BY <1>1, GoodNodes
<1>3. c \in Seq(Node) /\ Len(c) = l BY <1>1 DEF Good
<1>4. created \in Nat /\ created <= MaxNodes /\ MaxNodes \in Nat /\ created < MaxNodes
  BY <1>2, <1>a DEF Nodes
<1>5. n \in Node /\ ~ (n <= created) /\ created + 1 \notin 0 .. created BY <1>4, <1>a DEF Node
<1> HIDE DEF c
<1> DEFINE d == InsertAt(c, k, n)
<1>6. d \in Seq(Node) /\ Len(d) = l + 1 /\ IsInserted(d, c, l, k, n) BY <1>3, <1>5, InsertAtIs
<1> HIDE DEF d
<1>7. Good(headNode', next', dt, n, d)
  <2>1. \A m \in Node : next'[m] = IF m = n THEN (IF k <= l THEN c[k] ELSE Null)
                                     ELSE IF k > 1 /\ m = c[k - 1] THEN n ELSE next[m]
    BY DEF c, PutsIn
  <2>2. headNode' = (IF k = 1 THEN n ELSE headNode) /\ next' \in [Node -> NodeOrNull]
    BY DEF PutsIn
  <2> QED BY <1>1, <1>3, <1>6, <1>a, <2>1, <2>2, GoodInsert
<1>8. data' = dt /\ created' = n BY DEF PutsIn
<1>9. Chain' = d BY <1>7, <1>8, NewChainIsGood
<1>10. /\ \A j \in 1 .. l + 1 : d[j] = IF j < k THEN c[j] ELSE IF j = k THEN n ELSE c[j - 1]
       /\ \A i \in 1 .. l : c[i] \in Node /\ dt[c[i]] <= created
       /\ dt \in [Node -> Node] /\ dt[n] = n
  BY <1>1, <1>2, <1>5, <1>6 DEF IsInserted, Nodes, Good
<1> HIDE DEF dt
<1>11. Holding'
  <2>1. held' = held /\ foundAs' = foundAs /\ moved \subseteq moved' BY DEF PutsIn
  <2>2. ASSUME NEW i \in 1 .. l + 1
        PROVE  \/ \E j \in 1 .. l : d[i] = c[j] /\ dt[d[i]] = dt[c[j]]
               \/ dt[d[i]] \notin 0 .. created
    <3>1. CASE i < k BY <1>10, <3>1
    <3>2. CASE i = k
      <4>1. dt[d[i]] = n BY <1>10, <3>2
      <4> QED BY <1>5, <1>a, <4>1
    <3>3. CASE ~ (i < k) /\ i # k
      <4>1. i - 1 \in 1 .. l BY <3>3
      <4> QED BY <1>10, <3>3, <4>1
    <3> QED BY <3>1, <3>2, <3>3
  <2> QED BY <1>3, <1>6, <1>8, <1>9, <2>1, <2>2, HoldingKept DEF c, dt
<1>12. ListOK'
  <2>1. held' \in [Holder -> 0 .. n] /\ foundAs' \in [Holder -> 0 .. n]
    BY <1>4, <1>a DEF ListOK, PutsIn
  <2> QED BY <1>7, <1>8, <1>9, <1>11, <2>1 DEF ListOK
<1>13. Edited
  <2> DEFINE s == Elements
             t == Elements'
  <2>1. s = ElementsOf(dt, c) /\ t = ElementsOf(dt, d)
    BY <1>8, <1>9 DEF Elements, ElementsOf, c, dt
  <2> HIDE DEF s, t
  <2>2. s \in Seq(Node) /\ Len(s) = l /\ \A j \in 1 .. l : s[j] = dt[c[j]]
    BY <1>3, <1>10, <2>1, ElementsAre
  <2>3. l + 1 \in Nat OBVIOUS
  <2>4. t \in Seq(Node) /\ Len(t) = l + 1 /\ \A j \in 1 .. l + 1 : t[j] = dt[d[j]]
    BY <1>6, <1>10, <2>1, <2>3, ElementsAre
  <2>5. IsInserted(t, s, l, k, n)
    <3>1. ASSUME NEW j \in 1 .. l + 1
          PROVE  t[j] = IF j < k THEN s[j] ELSE IF j = k THEN n ELSE s[j - 1]
      <4>1. CASE j < k BY <1>10, <2>2, <2>4, <4>1
      <4>2. CASE j = k BY <1>10, <2>2, <2>4, <4>2
      <4>3. CASE ~ (j < k) /\ j # k
        <5>1. j - 1 \in 1 .. l BY <4>3
        <5> QED BY <1>10, <2>2, <2>4, <4>3, <5>1
      <4> QED BY <4>1, <4>2, <4>3
    <3> QED BY <3>1 DEF IsInserted
  <2>6. t = InsertAt(s, k, n)
    <3>1. s \in Seq(Node) /\ t \in Seq(Node) /\ Len(s) = l /\ Len(t) = l + 1 BY <2>2, <2>4
    <3>2. n \in Node BY <1>5
    <3> QED BY <2>5, <3>1, <3>2, InsertedIs
  <2>7. n \notin ToSet(s)
    <3> SUFFICES ASSUME NEW j \in 1 .. l, s[j] = n PROVE FALSE BY <2>2 DEF ToSet
    <3>1. n <= created BY <1>10, <2>2
    <3> QED BY <1>5, <3>1
  <2>8. n \in ToSet(t)
    <3>1. k \in DOMAIN t /\ t[k] = n BY <2>4, <2>5 DEF IsInserted
    <3> QED BY <3>1 DEF ToSet
  <2> QED BY <1>4, <1>a, <2>2, <2>6, <2>7, <2>8 DEF Edited, s, t
<1> QED BY <1>12, <1>13

\* The call takes the node at k out of the list.
TakesOut(l, k) ==
  /\ created' = created /\ data' = data
  /\ held' = held /\ foundAs' = foundAs /\ moved' = moved
  /\ headNode' = (IF k = 1 THEN next[headNode] ELSE headNode) /\ next' \in [Node -> NodeOrNull]
  /\ \A m \in Node : next'[m] = IF k > 1 /\ m = Chain[k - 1] THEN next[Chain[k]] ELSE next[m]

LEMMA RemoveStep ==
  ASSUME ListOK, NEW l \in Nat, Len(Chain) = l, NEW k \in 1 .. l, TakesOut(l, k)
  PROVE  ListOK' /\ Edited
<1> DEFINE c == Chain
           dt == data
<1>1. Good(headNode, next, dt, created, c) BY DEF ListOK
<1>2. Nodes(headNode, next, dt, created, c, l) BY <1>1, GoodNodes
<1>3. c \in Seq(Node) /\ Len(c) = l BY <1>1 DEF Good
<1>4. \A m \in Node : next'[m] = IF k > 1 /\ m = c[k - 1] THEN next[c[k]] ELSE next[m]
  BY DEF TakesOut
<1> HIDE DEF c
<1> DEFINE d == RemoveAt(c, k)
<1>6. d \in Seq(Node) /\ Len(d) = l - 1 /\ IsRemoved(d, c, l, k) BY <1>3, RemoveAtIs
<1> HIDE DEF d
<1>7. Good(headNode', next', dt, created, d)
  <2>2. headNode' = (IF k = 1 THEN next[headNode] ELSE headNode) /\ next' \in [Node -> NodeOrNull]
    BY DEF TakesOut
  <2> QED BY <1>1, <1>3, <1>4, <1>6, <2>2, GoodRemove
<1>8. data' = dt /\ created' = created BY DEF TakesOut
<1>9. Chain' = d BY <1>7, <1>8, NewChainIsGood
<1>10. /\ \A j \in 1 .. l - 1 : d[j] = IF j < k THEN c[j] ELSE c[j + 1]
       /\ dt \in [Node -> Node]
  BY <1>1, <1>6 DEF IsRemoved, Good
<1> HIDE DEF dt
<1>11. Holding'
  <2>1. held' = held /\ foundAs' = foundAs /\ moved \subseteq moved' BY DEF TakesOut
  <2>2. ASSUME NEW i \in 1 .. l - 1
        PROVE  \E j \in 1 .. l : d[i] = c[j] /\ dt[d[i]] = dt[c[j]]
    <3>1. i \in 1 .. l /\ i + 1 \in 1 .. l OBVIOUS
    <3> QED BY <1>10, <3>1
  <2> QED BY <1>3, <1>6, <1>8, <1>9, <2>1, <2>2, HoldingKept DEF c, dt
<1>12. ListOK'
  <2>1. held' \in [Holder -> 0 .. created] /\ foundAs' \in [Holder -> 0 .. created]
    BY DEF ListOK, TakesOut
  <2> QED BY <1>7, <1>8, <1>9, <1>11, <2>1 DEF ListOK
<1>13. Edited
  <2> DEFINE s == Elements
             t == Elements'
  <2>1. s = ElementsOf(dt, c) /\ t = ElementsOf(dt, d)
    BY <1>8, <1>9 DEF Elements, ElementsOf, c, dt
  <2> HIDE DEF s, t
  <2>2. s \in Seq(Node) /\ Len(s) = l /\ \A j \in 1 .. l : s[j] = dt[c[j]]
    BY <1>3, <1>10, <2>1, ElementsAre
  <2>3. l - 1 \in Nat OBVIOUS
  <2>4. t \in Seq(Node) /\ Len(t) = l - 1 /\ \A j \in 1 .. l - 1 : t[j] = dt[d[j]]
    BY <1>6, <1>10, <2>1, <2>3, ElementsAre
  <2>5. IsRemoved(t, s, l, k)
    <3>1. ASSUME NEW j \in 1 .. l - 1
          PROVE  t[j] = IF j < k THEN s[j] ELSE s[j + 1]
      <4>1. j \in 1 .. l /\ j + 1 \in 1 .. l OBVIOUS
      <4>2. d[j] = IF j < k THEN c[j] ELSE c[j + 1] BY <1>10
      <4>3. t[j] = dt[d[j]] BY <2>4
      <4>4. s[j] = dt[c[j]] /\ s[j + 1] = dt[c[j + 1]] BY <2>2, <4>1
      <4> QED BY <4>2, <4>3, <4>4
    <3> QED BY <3>1 DEF IsRemoved
  <2>6. t = RemoveAt(s, k)
    <3>1. s \in Seq(Node) /\ t \in Seq(Node) /\ Len(s) = l /\ Len(t) = l - 1 BY <2>2, <2>4
    <3> QED BY <2>5, <3>1, RemovedIs
  <2>7. k \in DOMAIN s BY <2>2
  <2> QED BY <2>6, <2>7 DEF Edited, s, t
<1> QED BY <1>12, <1>13

\* The call leaves the nodes of the list, perhaps having created one that is not in it.
LEMMA SkipStep ==
  ASSUME ListOK, UNCHANGED <<headNode, next, data, handles>>,
         created' = created \/ (created < MaxNodes /\ created' = created + 1)
  PROVE  ListOK' /\ Elements' = Elements
<1>1. Good(headNode, next, data, created, Chain) BY DEF ListOK
<1>2. Good(headNode, next, data, created', Chain)
  <2>1. CASE created' = created BY <1>1, <2>1
  <2>2. CASE created < MaxNodes /\ created' = created + 1 BY <1>1, <2>2, GoodSkip
  <2> QED BY <2>1, <2>2
<1>3. Good(headNode', next', data', created', Chain) BY <1>2
<1>4. Chain' = Chain BY <1>3, NewChainIsGood
<1>5. Holding' BY <1>4 DEF ListOK, Holding, handles
<1>6. held' \in [Holder -> 0 .. created'] /\ foundAs' \in [Holder -> 0 .. created']
  <2>1. created \in Nat BY <1>1, MaxNodesAssumption DEF Good
  <2>2. 0 .. created \subseteq 0 .. created' BY <2>1
  <2> QED BY <2>2 DEF ListOK, handles
<1>7. Elements' = Elements BY <1>4 DEF Elements
<1> QED BY <1>3, <1>4, <1>5, <1>6, <1>7 DEF ListOK

\* The call copies the successor of n into n.
CopiesInto(n) ==
  /\ n \in Node /\ n <= created /\ next[n] # Null
  /\ CopySuccessor(n) /\ moved' = moved \cup {data[next[n]]}
  /\ headNode' = headNode /\ created' = created /\ held' = held /\ foundAs' = foundAs

\* n is the node at p of the list: the element at p leaves it.
LEMMA CopyStep ==
  ASSUME ListOK, NEW l \in Nat, Len(Chain) = l, NEW n, CopiesInto(n), NEW p \in 1 .. l, Chain[p] = n
  PROVE  ListOK' /\ p \in DOMAIN Elements /\ Elements' = RemoveAt(Elements, p)
<1> DEFINE c == Chain
           dt == data
           nx == next
<1>1. Good(headNode, nx, dt, created, c) BY DEF ListOK
<1>2. Nodes(headNode, nx, dt, created, c, l) BY <1>1, GoodNodes
<1>3. c \in Seq(Node) /\ Len(c) = l /\ nx \in [Node -> NodeOrNull] /\ dt \in [Node -> Node]
  BY <1>1 DEF Good
<1>4. c[p] \in Node /\ nx[c[p]] # Null BY DEF CopiesInto
<1> HIDE DEF c
<1>5. nx[c[p]] = IF p < l THEN c[p + 1] ELSE Null BY <1>2 DEF Nodes
<1>6. PICK q \in 1 .. l : q - 1 = p
  <2>1. p < l BY <1>4, <1>5
  <2>2. p + 1 \in 1 .. l BY <2>1
  <2> QED BY <2>2
<1>7. nx[c[p]] = c[q] /\ c[q] \in Node /\ p \in 1 .. l - 1 BY <1>3, <1>4, <1>5, <1>6
<1> DEFINE d == RemoveAt(c, q)
<1>8. d \in Seq(Node) /\ Len(d) = l - 1 /\ IsRemoved(d, c, l, q) BY <1>3, RemoveAtIs
<1> HIDE DEF d
<1>9. /\ next' \in [Node -> NodeOrNull] /\ data' \in [Node -> Node]
      /\ Copied(next', nx, c[p], c[q]) /\ Copied(data', dt, c[p], c[q])
  <2>1. n = c[p] BY DEF c
  <2>2. nx[c[q]] \in NodeOrNull /\ dt[c[q]] \in Node BY <1>3, <1>7
  <2>3. next' = [nx EXCEPT ![c[p]] = nx[c[q]]] /\ data' = [dt EXCEPT ![c[p]] = dt[c[q]]]
    BY <1>7, <2>1 DEF CopiesInto, CopySuccessor
  <2> HIDE DEF nx, dt
  <2> QED BY <1>3, <1>4, <2>2, <2>3 DEF Copied
<1>10. /\ Good(headNode, next', data', created, d)
       /\ \A i \in 1 .. l - 1 : data'[d[i]] = IF i < p THEN dt[c[i]] ELSE dt[c[i + 1]]
  <2>1. Good(headNode, next', data', created, d) /\ Without(data', d, dt, c, l, p)
    BY <1>1, <1>3, <1>6, <1>7, <1>8, <1>9, GoodCopy
  <2> QED BY <2>1 DEF Without
<1>11. headNode' = headNode /\ created' = created BY DEF CopiesInto
<1>12. Chain' = d BY <1>10, <1>11, NewChainIsGood
<1> HIDE DEF nx, dt
<1>13. Holding'
  <2>1. held' = held /\ foundAs' = foundAs /\ moved \subseteq moved' BY DEF CopiesInto
  <2>2. dt[c[q]] \in moved' BY <1>7 DEF CopiesInto, nx, dt, c
  <2>3. ASSUME NEW i \in 1 .. l - 1
        PROVE  \/ \E j \in 1 .. l : d[i] = c[j] /\ data'[d[i]] = dt[c[j]]
               \/ data'[d[i]] \in moved'
    <3>1. i \in 1 .. l /\ i + 1 \in 1 .. l OBVIOUS
    <3>2. CASE i < p
      <4>1. d[i] = c[i] BY <1>6, <1>8, <3>2 DEF IsRemoved
      <4> QED BY <1>10, <3>1, <3>2, <4>1
    <3>3. CASE i = p
      <4>1. data'[d[i]] = dt[c[i + 1]] BY <1>10, <3>3
      <4>2. i + 1 = q BY <1>6, <3>3
      <4> QED BY <2>2, <4>1, <4>2
    <3>4. CASE ~ (i < p) /\ i # p
      <4>1. d[i] = c[i + 1] BY <1>6, <1>8, <3>4 DEF IsRemoved
      <4> QED BY <1>10, <3>1, <3>4, <4>1
    <3> QED BY <3>2, <3>3, <3>4
  <2> QED BY <1>3, <1>8, <1>12, <2>1, <2>3, HoldingKept DEF c, dt
<1>14. ListOK'
  <2>1. held' \in [Holder -> 0 .. created] /\ foundAs' \in [Holder -> 0 .. created]
    BY DEF ListOK, CopiesInto
  <2> QED BY <1>10, <1>11, <1>12, <1>13, <2>1 DEF ListOK
<1> DEFINE s == Elements
           t == Elements'
<1>15. s = ElementsOf(dt, c) /\ t = ElementsOf(data', d)
  BY <1>12 DEF Elements, ElementsOf, c, dt
<1> HIDE DEF s, t
<1>16. s \in Seq(Node) /\ Len(s) = l /\ \A j \in 1 .. l : s[j] = dt[c[j]]
  BY <1>3, <1>15, ElementsAre
<1>17. l - 1 \in Nat OBVIOUS
<1>18. t \in Seq(Node) /\ Len(t) = l - 1 /\ \A j \in 1 .. l - 1 : t[j] = data'[d[j]]
  BY <1>8, <1>9, <1>15, <1>17, ElementsAre
<1>19. IsRemoved(t, s, l, p)
  <2>1. ASSUME NEW j \in 1 .. l - 1
        PROVE  t[j] = IF j < p THEN s[j] ELSE s[j + 1]
    <3>1. j \in 1 .. l /\ j + 1 \in 1 .. l OBVIOUS
    <3> QED BY <1>10, <1>16, <1>18, <3>1
  <2> QED BY <2>1 DEF IsRemoved
<1>20. t = RemoveAt(s, p)
  <2>1. s \in Seq(Node) /\ t \in Seq(Node) /\ Len(s) = l /\ Len(t) = l - 1 BY <1>16, <1>18
  <2> QED BY <1>19, <2>1, RemovedIs
<1>21. p \in DOMAIN s BY <1>16
<1> QED BY <1>14, <1>20, <1>21 DEF s, t

\* n has left the list: the list is as before.
LEMMA CopyDetachedStep ==
  ASSUME ListOK, NEW l \in Nat, Len(Chain) = l, NEW n, CopiesInto(n), \A p \in 1 .. l : Chain[p] # n
  PROVE  ListOK' /\ Elements' = Elements
<1> DEFINE c == Chain
<1>1. Good(headNode, next, data, created, c) BY DEF ListOK
<1>2. n \in Node /\ n <= created /\ next[n] # Null /\ CopySuccessor(n) BY DEF CopiesInto
<1>3. next' = [next EXCEPT ![n] = next[next[n]]] /\ data' = [data EXCEPT ![n] = data[next[n]]]
  BY <1>2 DEF CopySuccessor
<1>a. /\ next' \in [Node -> NodeOrNull] /\ data' \in [Node -> Node]
      /\ Copied(next', next, n, next[n]) /\ Copied(data', data, n, next[n])
  <2>1. next \in [Node -> NodeOrNull] /\ data \in [Node -> Node] BY <1>1 DEF Good
  <2>2. next[n] \in Node BY <1>2, <2>1 DEF NodeOrNull
  <2> QED BY <1>2, <1>3, <2>1, <2>2 DEF Copied
<1>4. Good(headNode, next', data', created, c) /\ \A i \in 1 .. l : data'[c[i]] = data[c[i]]
  <2>1. Len(c) = l /\ \A p \in 1 .. l : c[p] # n OBVIOUS
  <2> HIDE DEF c
  <2> QED BY <1>1, <1>2, <1>a, <2>1, GoodDetached
<1>5. headNode' = headNode /\ created' = created BY DEF CopiesInto
<1>6. Chain' = c BY <1>4, <1>5, NewChainIsGood
<1>7. c \in Seq(Node) /\ DOMAIN c = 1 .. l BY <1>1 DEF Good
<1>8. held' = held /\ foundAs' = foundAs /\ moved \subseteq moved' BY DEF CopiesInto
<1>9. Holding'
  <2> HIDE DEF c
  <2> QED BY <1>4, <1>6, <1>7, <1>8, HoldingKept DEF c
<1>10. Elements' = Elements BY <1>4, <1>6, <1>7 DEF Elements
<1>11. held' \in [Holder -> 0 .. created] /\ foundAs' \in [Holder -> 0 .. created]
  BY <1>8 DEF ListOK
<1> QED BY <1>4, <1>5, <1>6, <1>9, <1>10, <1>11 DEF ListOK

\* A holder gets a node of the list, or none.
LEMMA FindStep ==
  ASSUME ListOK, NEW h \in Holder, NEW index, FindNode(h, index)
  PROVE  ListOK' /\ Elements' = Elements
<1> DEFINE c == Chain
           n == IF index \in 1 .. Length THEN c[index] ELSE Null
           e == IF n = Null THEN Null ELSE data[n]
<1>1. Good(headNode, next, data, created, c) BY DEF ListOK
<1>2. Length = Len(c) BY <1>1, ChainIsGood
<1>3. PICK l \in Nat : Len(c) = l BY <1>1 DEF Good
<1>4. Nodes(headNode, next, data, created, c, l) BY <1>1, <1>3, GoodNodes
<1>5. held' = [held EXCEPT ![h] = n] BY DEF FindNode
<1>a. held \in [Holder -> 0 .. created] /\ foundAs \in [Holder -> 0 .. created] BY DEF ListOK
<1>b. held'[h] = n BY <1>5, <1>a
<1>6. foundAs' = [foundAs EXCEPT ![h] = e]
  <2>1. foundAs' = [foundAs EXCEPT ![h] = IF held'[h] = Null THEN Null ELSE data[held'[h]]]
    BY DEF FindNode
  <2> HIDE DEF n
  <2>2. e = IF held'[h] = Null THEN Null ELSE data[held'[h]] BY <1>b
  <2> HIDE DEF e
  <2> QED BY <2>1, <2>2
<1>7. UNCHANGED <<data, next, headNode, created, moved>> BY DEF FindNode
<1>8. Chain' = c
  <2>1. Good(headNode', next', data', created', c) BY <1>1, <1>7
  <2> QED BY <2>1, NewChainIsGood
<1>9. \/ n = Null /\ e = Null
      \/ \E i \in 1 .. l : n = c[i] /\ e = data[c[i]] /\ n \in 0 .. created /\ e \in 0 .. created
  <2>1. CASE index \in 1 .. Length
    <3>1. index \in 1 .. l /\ n = c[index] BY <1>2, <1>3, <2>1
    <3>2. c[index] \in Node /\ c[index] <= created /\ data[c[index]] <= created /\ created \in Nat
      BY <1>4, <3>1 DEF Nodes
    <3>3. data[c[index]] \in Node BY <1>1, <3>2 DEF Good
    <3>4. c[index] # Null BY <3>2 DEF Node, Null
    <3>5. e = data[c[index]] BY <3>1, <3>4
    <3>6. c[index] \in 0 .. created /\ data[c[index]] \in 0 .. created BY <3>2, <3>3 DEF Node
    <3> QED BY <3>1, <3>5, <3>6
  <2>2. CASE index \notin 1 .. Length BY <2>2
  <2> QED BY <2>1, <2>2
<1> HIDE DEF n, e, c
<1>10. /\ \A g \in Holder : held'[g] = IF g = h THEN n ELSE held[g]
       /\ \A g \in Holder : foundAs'[g] = IF g = h THEN e ELSE foundAs[g]
  BY <1>5, <1>6, <1>a
<1>11. \A i, j \in 1 .. l : i # j => data[c[i]] # data[c[j]] BY <1>4 DEF Nodes
<1>12. \A i \in 1 .. l : data[c[i]] # Null
  <2>1. \A i \in 1 .. l : c[i] \in Node BY <1>4 DEF Nodes
  <2>2. \A m \in Node : data[m] \in Node BY <1>1 DEF Good
  <2> QED BY <2>1, <2>2 DEF Node, Null
<1>13. Holding'
  <2> SUFFICES ASSUME NEW g \in Holder, NEW i \in 1 .. l,
                      foundAs'[g] = data[c[i]], foundAs'[g] \notin moved
               PROVE  held'[g] = c[i]
    BY <1>3, <1>7, <1>8 DEF Holding
  <2>1. CASE g = h
    <3>1. held'[g] = n /\ e = data[c[i]] BY <1>10, <2>1
    <3>2. PICK j \in 1 .. l : n = c[j] /\ e = data[c[j]] BY <1>9, <1>12, <3>1
    <3>3. i = j BY <1>11, <3>1, <3>2
    <3> QED BY <3>1, <3>2, <3>3
  <2>2. CASE g # h
    <3>1. held'[g] = held[g] /\ foundAs[g] = data[c[i]] /\ foundAs[g] \notin moved BY <1>10, <2>2
    <3> QED BY <1>3, <3>1 DEF ListOK, Holding, c
  <2> QED BY <2>1, <2>2
<1>14. held' \in [Holder -> 0 .. created] /\ foundAs' \in [Holder -> 0 .. created]
  <2>1. 0 \in 0 .. created
    <3>1. created \in Nat BY <1>4 DEF Nodes
    <3> QED BY <3>1
  <2>2. n \in 0 .. created /\ e \in 0 .. created BY <1>9, <2>1 DEF Null
  <2> QED BY <1>5, <1>6, <1>a, <2>2
<1>15. Elements' = Elements BY <1>7, <1>8 DEF Elements, c
<1>16. Chain = c BY DEF c
<1> QED BY <1>1, <1>7, <1>8, <1>13, <1>14, <1>15, <1>16 DEF ListOK

\* What deleteNode(Node) does.
LEMMA DeleteStep ==
  ASSUME ListOK, NEW h \in Holder, DeleteNode(h)
  PROVE  /\ ListOK'
         /\ \/ Elements' = Elements
            \/ \E k \in DOMAIN Elements : Elements' = RemoveAt(Elements, k)
         /\ npe' => Elements' = Elements
         /\ ~ npe' => \A k \in DOMAIN Elements : Chain[k] = held[h] => Elements' = RemoveAt(Elements, k)
<1> DEFINE n == held[h]
<1>c. Chain \in Seq(Node) BY DEF ListOK, Good
<1>0. PICK l \in Nat : Len(Chain) = l
  <2>2. Len(Chain) \in Nat BY <1>c
  <2> QED BY <2>2
<1>a. DOMAIN Elements = 1 .. l
  <2>1. DOMAIN Elements = DOMAIN Chain BY DEF Elements
  <2>2. DOMAIN Chain = 1 .. Len(Chain) BY <1>c
  <2> QED BY <1>0, <2>1, <2>2
<1>b. \A k \in 1 .. l : Chain[k] # Null
  <2>1. \A k \in 1 .. Len(Chain) : Chain[k] \in Node BY <1>c
  <2> QED BY <1>0, <2>1 DEF Node, Null
<1>1. CASE n # Null /\ next[n] # Null
  <2>1. n \in Node /\ n <= created
    <3>1. n \in 0 .. created /\ created \in 0 .. MaxNodes BY DEF ListOK, Good
    <3> QED BY <1>1, <3>1, MaxNodesAssumption DEF Node, Null
  <2>2. CopiesInto(n) /\ npe' = FALSE BY <1>1, <2>1 DEF DeleteNode, CopiesInto
  <2> HIDE DEF n
  <2>3. CASE \E p \in 1 .. l : Chain[p] = n
    <3>1. PICK p \in 1 .. l : Chain[p] = n BY <2>3
    <3>2. ListOK' /\ p \in DOMAIN Elements /\ Elements' = RemoveAt(Elements, p)
      BY <1>0, <2>2, <3>1, CopyStep
    <3>3. \A k \in 1 .. l : Chain[k] = n => k = p
      <4>1. Good(headNode, next, data, created, Chain) BY DEF ListOK
      <4>2. Nodes(headNode, next, data, created, Chain, l) BY <1>0, <4>1, GoodNodes
      <4> QED BY <3>1, <4>2 DEF Nodes
    <3> QED BY <1>a, <2>2, <3>2, <3>3 DEF n
  <2>4. CASE \A p \in 1 .. l : Chain[p] # n
    <3>1. ListOK' /\ Elements' = Elements BY <1>0, <2>2, <2>4, CopyDetachedStep
    <3> QED BY <1>a, <2>2, <2>4, <3>1 DEF n
  <2> QED BY <2>3, <2>4
<1>2. CASE ~ (n # Null /\ next[n] # Null)
  <2>1. UNCHANGED <<headNode, next, data, handles>> /\ created' = created
    BY <1>2 DEF DeleteNode, handles
  <2>2. ListOK' /\ Elements' = Elements BY <2>1, SkipStep
  <2>3. npe' = (n # Null /\ next[n] = Null) BY DEF DeleteNode
  <2>4. ~ npe' => n = Null BY <1>2, <2>3
  <2> QED BY <1>a, <1>b, <2>2, <2>4
<1> QED BY <1>1, <1>2

\* A call either leaves the list, or adds a node or takes one out, or copies one's successor.
LEMMA AddStep ==
  ASSUME ListOK, AddNode
  PROVE  ListOK' /\ Edited
<1>1. Good(headNode, next, data, created, Chain) BY DEF ListOK
<1>2. PICK l \in Nat : Len(Chain) = l
  <2>1. Len(Chain) \in Nat BY <1>1 DEF Good
  <2> QED BY <2>1
<1>3. Nodes(headNode, next, data, created, Chain, l) BY <1>1, <1>2, GoodNodes
<1>4. PICK n \in Node : n = created + 1
  <2>1. created + 1 \in Node BY <1>3 DEF Nodes, Node, AddNode
  <2> QED BY <2>1
<1>5. PICK k \in 1 .. l + 1 : k = l + 1 OBVIOUS
<1>a. headNode = (IF l = 0 THEN Null ELSE Chain[1]) /\ \A i \in 1 .. l : Chain[i] \in Node BY <1>3 DEF Nodes
<1>6. next \in [Node -> NodeOrNull] /\ n \in NodeOrNull BY <1>1 DEF Good, NodeOrNull
<1>b. ~ (n <= created)
  <2>1. created \in Nat BY <1>3 DEF Nodes
  <2> QED BY <1>4, <2>1
<1>7. next[n] = Null BY <1>1, <1>b DEF Good
<1>8. PutsIn(l, k, n)
  <2>1. CASE l = 0
    <3>1. headNode = Null /\ k = 1 /\ ~ (k <= l) BY <1>5, <1>a, <2>1
    <3>2. headNode' = n /\ next' = next BY <1>4, <3>1 DEF AddNode
    <3> QED BY <1>4, <1>6, <1>7, <3>1, <3>2 DEF PutsIn, AddNode, handles
  <2>2. CASE l # 0
    <3>1. k > 1 /\ k - 1 = l /\ k # 1 /\ ~ (k <= l) /\ l \in 1 .. l /\ 1 \in 1 .. l BY <1>5, <2>2
    <3>2. headNode # Null BY <1>a, <2>2, <3>1 DEF Node, Null
    <3>3. Last(Chain) = Chain[l] BY <1>2 DEF Last
    <3>4. next' = [next EXCEPT ![Chain[l]] = n] /\ headNode' = headNode
      BY <1>4, <3>2, <3>3 DEF AddNode
    <3>5. Chain[l] \in Node /\ Chain[l] # n
      <4>1. Chain[l] <= created BY <1>3, <3>1 DEF Nodes
      <4> QED BY <1>a, <1>b, <3>1, <4>1
    <3>6. next' \in [Node -> NodeOrNull]
          /\ \A m \in Node : next'[m] = IF m = Chain[l] THEN n ELSE next[m]
      BY <1>6, <3>4, <3>5
    <3>7. \A m \in Node : next'[m] = IF m = n THEN (IF k <= l THEN Chain[k] ELSE Null)
                                    ELSE IF k > 1 /\ m = Chain[k - 1] THEN n ELSE next[m]
      BY <1>7, <3>1, <3>5, <3>6
    <3> QED BY <1>4, <3>1, <3>4, <3>6, <3>7 DEF PutsIn, AddNode, handles
  <2> QED BY <2>1, <2>2
<1> QED BY <1>2, <1>8, InsertStep

LEMMA AddAtStep ==
  ASSUME ListOK, NEW index \in Int, AddNodeAt(index)
  PROVE  ListOK' /\ Edited
<1>1. Good(headNode, next, data, created, Chain) BY DEF ListOK
<1>2. PICK l \in Nat : Len(Chain) = l
  <2>1. Len(Chain) \in Nat BY <1>1 DEF Good
  <2> QED BY <2>1
<1>c. Length = l BY <1>1, <1>2, ChainIsGood
<1>3. CASE index \in 1 .. l
  <2>3. Nodes(headNode, next, data, created, Chain, l) BY <1>1, <1>2, GoodNodes
  <2>4. PICK n \in Node : n = created + 1
    <3>1. created + 1 \in Node BY <2>3 DEF Nodes, Node, AddNodeAt
    <3> QED BY <3>1
  <2>a. headNode = (IF l = 0 THEN Null ELSE Chain[1]) /\ \A i \in 1 .. l : Chain[i] \in Node BY <2>3 DEF Nodes
  <2>6. next \in [Node -> NodeOrNull] /\ n \in NodeOrNull BY <1>1 DEF Good, NodeOrNull
  <2>b. ~ (n <= created)
    <3>1. created \in Nat BY <2>3 DEF Nodes
    <3> QED BY <2>4, <3>1
  <2>7. Chain[index] \in NodeOrNull BY <1>3, <2>a DEF NodeOrNull
  <2>8. index \in 0 .. l /\ index <= l /\ index \in 1 .. l + 1 BY <1>3
  <2>9. AddBefore(index, n) /\ created' = n BY <1>3, <1>c, <2>4, <2>8 DEF AddNodeAt
  <2>10. PutsIn(l, index, n)
    <3>1. CASE index = 1
      <4>1. headNode' = n /\ next' = [next EXCEPT ![n] = headNode] BY <2>9, <3>1 DEF AddBefore
      <4>2. headNode = Chain[1] BY <1>3, <2>a, <3>1
      <4>3. next' \in [Node -> NodeOrNull]
            /\ \A m \in Node : next'[m] = IF m = n THEN Chain[index] ELSE next[m]
        BY <2>6, <2>7, <3>1, <4>1, <4>2
      <4> QED BY <2>4, <2>8, <2>9, <3>1, <4>1, <4>3 DEF PutsIn, AddNodeAt, handles
    <3>2. CASE index # 1
      <4>1. index - 1 \in 1 .. l /\ index > 1 BY <1>3, <3>2
      <4>2. headNode' = headNode /\ next' = [next EXCEPT ![Chain[index - 1]] = n, ![n] = Chain[index]]
        BY <2>9, <3>2 DEF AddBefore
      <4>3. Chain[index - 1] \in Node /\ Chain[index - 1] # n
        <5>1. Chain[index - 1] <= created BY <2>3, <4>1 DEF Nodes
        <5> QED BY <2>a, <2>b, <4>1, <5>1
      <4>4. next' \in [Node -> NodeOrNull]
            /\ \A m \in Node : next'[m] = IF m = n THEN Chain[index]
                                          ELSE IF m = Chain[index - 1] THEN n ELSE next[m]
        BY <2>6, <2>7, <4>2, <4>3
      <4> QED BY <2>4, <2>8, <2>9, <3>2, <4>1, <4>2, <4>4 DEF PutsIn, AddNodeAt, handles
    <3> QED BY <3>1, <3>2
  <2> QED BY <1>2, <2>8, <2>10, InsertStep
<1>4. CASE index \notin 1 .. l
  <2>1. UNCHANGED <<headNode, next, data, handles>> BY <1>4, <1>c DEF AddNodeAt
  <2>2. created' = created \/ (created < MaxNodes /\ created' = created + 1) BY DEF AddNodeAt
  <2>3. ListOK' /\ Elements' = Elements BY <2>1, <2>2, SkipStep
  <2> QED BY <2>3 DEF Edited
<1> QED BY <1>3, <1>4

LEMMA DeleteAtStep ==
  ASSUME ListOK, NEW index \in Int, DeleteNodeAt(index)
  PROVE  ListOK' /\ Edited
<1>1. Good(headNode, next, data, created, Chain) BY DEF ListOK
<1>2. PICK l \in Nat : Len(Chain) = l
  <2>1. Len(Chain) \in Nat BY <1>1 DEF Good
  <2> QED BY <2>1
<1>3. Length = l BY <1>1, <1>2, ChainIsGood
<1>4. next \in [Node -> NodeOrNull] /\ created' = created /\ data' = data
      /\ held' = held /\ foundAs' = foundAs /\ moved' = moved
  BY <1>1 DEF Good, DeleteNodeAt, handles
<1>5. CASE index \in 1 .. l
  <2>1. headNode' = (IF index = 1 THEN next[headNode] ELSE headNode) BY <1>3, <1>5 DEF DeleteNodeAt
  <2>2. next' \in [Node -> NodeOrNull]
        /\ \A m \in Node : next'[m] = IF index > 1 /\ m = Chain[index - 1] THEN next[Chain[index]]
                                       ELSE next[m]
    <3>1. CASE index = 1
      <4>1. next' = next BY <3>1 DEF DeleteNodeAt
      <4> QED BY <1>4, <3>1, <4>1
    <3>2. CASE index # 1
      <4>1. index \in 2 .. l /\ index - 1 \in 1 .. l /\ index > 1 BY <1>5, <3>2
      <4>2. next' = [next EXCEPT ![Chain[index - 1]] = next[Chain[index]]]
        BY <1>3, <4>1 DEF DeleteNodeAt
      <4>3. Chain[index] \in Node /\ Chain[index - 1] \in Node
        <5>1. Nodes(headNode, next, data, created, Chain, l) BY <1>1, <1>2, GoodNodes
        <5> QED BY <1>5, <4>1, <5>1 DEF Nodes
      <4>4. next[Chain[index]] \in NodeOrNull BY <1>4, <4>3
      <4> QED BY <1>4, <4>1, <4>2, <4>3, <4>4
    <3> QED BY <3>1, <3>2
  <2>3. TakesOut(l, index) BY <1>4, <2>1, <2>2 DEF TakesOut
  <2> QED BY <1>2, <1>5, <2>3, RemoveStep
<1>6. CASE index \notin 1 .. l
  <2>1. UNCHANGED <<headNode, next>>
    <3>1. ~ (index = 1 /\ Length > 0) /\ index \notin 2 .. Length BY <1>3, <1>6
    <3> QED BY <3>1 DEF DeleteNodeAt
  <2>2. ListOK' /\ Elements' = Elements BY <1>4, <2>1, SkipStep DEF handles
  <2> QED BY <2>2 DEF Edited
<1> QED BY <1>5, <1>6

LEMMA ListNextOK ==
  ASSUME ListOK, [ListNext]_listVars
  PROVE  ListOK' /\ Edited
<1>1. CASE AddNode BY <1>1, AddStep
<1>2. ASSUME NEW index \in Int, AddNodeAt(index) \/ DeleteNodeAt(index) PROVE ListOK' /\ Edited
  BY <1>2, AddAtStep, DeleteAtStep
<1>3. ASSUME NEW h \in Holder, NEW index, FindNode(h, index) PROVE ListOK' /\ Edited
  <2>1. ListOK' /\ Elements' = Elements BY <1>3, FindStep
  <2> QED BY <2>1 DEF Edited
<1>4. ASSUME NEW h \in Holder, DeleteNode(h) PROVE ListOK' /\ Edited
  <2>1. ListOK' /\ (Elements' = Elements \/ \E k \in DOMAIN Elements : Elements' = RemoveAt(Elements, k))
    BY <1>4, DeleteStep
  <2> QED BY <2>1 DEF Edited
<1>5. CASE UNCHANGED listVars
  <2>1. UNCHANGED <<headNode, next, data, handles>> /\ created' = created
    BY <1>5 DEF listVars, handles
  <2>2. ListOK' /\ Elements' = Elements BY <2>1, SkipStep
  <2> QED BY <2>2 DEF Edited
<1>6. -1 .. (MaxNodes + 1) \subseteq Int BY MaxNodesAssumption
<1> QED BY <1>1, <1>2, <1>3, <1>4, <1>5, <1>6 DEF ListNext

\* The elements of the list of LinkedList are a sequence to which every call adds at most one
\* new element, or from which it takes at most one.
THEOREM ListIsAlwaysASequence == ListSpec => ListIsSequence
<1>1. ListInit => ListOK /\ Sequence!Init BY ListInitOK DEF Sequence!Init
<1>2. ListOK /\ [ListNext]_listVars => ListOK' BY ListNextOK
<1>3. ListOK /\ [ListNext]_listVars => [Sequence!Next]_Elements
  <2> SUFFICES ASSUME ListOK, [ListNext]_listVars PROVE [Sequence!Next]_Elements OBVIOUS
  <2>1. Edited BY ListNextOK
  <2>2. CASE Elements' = Elements BY <2>2
  <2>3. CASE \E k \in DOMAIN Elements : Elements' = RemoveAt(Elements, k)
    BY <2>3 DEF Sequence!Next, Sequence!TakeOut, Sequence!RemoveAt, RemoveAt
  <2>4. CASE \E k \in 1 .. Len(Elements) + 1 : Elements' = InsertAt(Elements, k, created + 1)
             /\ created + 1 \in ToSet(Elements') \ ToSet(Elements)
    <3> HIDE DEF Elements
    <3>1. PICK k \in 1 .. Len(Elements) + 1, e \in ToSet(Elements') \ ToSet(Elements) :
                 Elements' = InsertAt(Elements, k, e)
      BY <2>4
    <3>2. Sequence!Add
      BY <3>1 DEF Sequence!Add, Sequence!InsertAt, InsertAt, Sequence!ToSet, ToSet
    <3> QED BY <3>2 DEF Sequence!Next
  <2> QED BY <2>1, <2>2, <2>3, <2>4 DEF Edited
<1> QED BY <1>1, <1>2, <1>3, PTL DEF ListSpec, ListIsSequence, Sequence!Spec

\* deleteNode(Node) takes out the element its caller had found in the node, and no other, if it
\* is still in the list, was not moved, and is not the last.
THEOREM HeldNodeAlwaysDeletesItsElement == ListSpec => HeldNodeDeletesItsElement
<1>1. ListInit => ListOK BY ListInitOK
<1>2. ListOK /\ [ListNext]_listVars => ListOK' BY ListNextOK
<1> DEFINE A == \A h \in Holder :
                  /\ DeleteNode(h)
                  /\ foundAs[h] \in ToSet(Elements) \ moved
                  => IF npe' THEN Elements' = Elements
                     ELSE \E k \in DOMAIN Elements :
                            Elements[k] = foundAs[h] /\ Elements' = RemoveAt(Elements, k)
<1>3. ListOK => A
  <2> SUFFICES ASSUME ListOK, NEW h \in Holder, DeleteNode(h),
                      foundAs[h] \in ToSet(Elements) \ moved
               PROVE  IF npe' THEN Elements' = Elements
                      ELSE \E k \in DOMAIN Elements :
                             Elements[k] = foundAs[h] /\ Elements' = RemoveAt(Elements, k)
    OBVIOUS
  <2>1. DOMAIN Elements = DOMAIN Chain /\ \A k \in DOMAIN Elements : Elements[k] = data[Chain[k]]
    BY DEF Elements
  <2>2. PICK k \in DOMAIN Elements : Elements[k] = foundAs[h]
    BY <2>1 DEF ToSet
  <2>3. k \in 1 .. Len(Chain)
    <3>1. Chain \in Seq(Node) BY DEF ListOK, Good
    <3>2. DOMAIN Chain = 1 .. Len(Chain) BY <3>1
    <3> QED BY <2>1, <2>2, <3>2
  <2>4. held[h] = Chain[k] BY <2>1, <2>2, <2>3 DEF ListOK, Holding
  <2> QED BY <2>2, <2>4, DeleteStep
<1> QED BY <1>1, <1>2, <1>3, PTL DEF ListSpec, HeldNodeDeletesItsElement

-----------------------------------------------------------------------------
(* The arrays that are sorted. *)

LEMMA LengthIs ==
  ASSUME NEW n \in Nat, NEW E, NEW s \in [0 .. n - 1 -> E]
  PROVE  ArrayLength(s) = n
<1>1. 0 \in Int /\ n - 1 \in Int OBVIOUS
<1>2. Cardinality(0 .. n - 1) = IF 0 > n - 1 THEN 0 ELSE (n - 1) - 0 + 1 BY <1>1, FS_Interval
<1>3. DOMAIN s = 0 .. n - 1 OBVIOUS
<1>4. Cardinality(DOMAIN s) = n BY <1>2, <1>3
<1> QED BY <1>4 DEF ArrayLength

\* p tells where each element of t stood in s: t has the elements of s, moved about within
\* lo .. hi.
Moves(p, s, t, n, lo, hi) ==
  /\ p \in [0 .. n - 1 -> 0 .. n - 1]
  /\ \A x, y \in 0 .. n - 1 : p[x] = p[y] => x = y
  /\ \A y \in 0 .. n - 1 : \E x \in 0 .. n - 1 : p[x] = y
  /\ \A x \in 0 .. n - 1 : t[x] = s[p[x]]
  /\ \A x \in 0 .. n - 1 : IF x \in lo .. hi THEN p[x] \in lo .. hi ELSE p[x] = x

IsArray(s, n) == n \in Nat /\ s \in [0 .. n - 1 -> Int]

Shuffled(s, t, n, lo, hi) ==
  IsArray(s, n) /\ IsArray(t, n) /\ \E p : Moves(p, s, t, n, lo, hi)

LEMMA NotShuffled ==
  ASSUME NEW s, NEW n, IsArray(s, n), NEW lo, NEW hi
  PROVE  Shuffled(s, s, n, lo, hi)
<1> DEFINE p == [x \in 0 .. n - 1 |-> x]
<1>1. Moves(p, s, s, n, lo, hi) BY DEF Moves
<1> HIDE DEF p
<1> QED BY <1>1 DEF Shuffled

LEMMA ShuffledTwice ==
  ASSUME NEW r, NEW s, NEW t, NEW n, NEW lo, NEW hi, Shuffled(r, s, n, lo, hi),
         Shuffled(s, t, n, lo, hi)
  PROVE  Shuffled(r, t, n, lo, hi)
<1>1. PICK p : Moves(p, r, s, n, lo, hi) BY DEF Shuffled
<1>2. PICK q : Moves(q, s, t, n, lo, hi) BY DEF Shuffled
<1> DEFINE m == [x \in 0 .. n - 1 |-> p[q[x]]]
<1>3. \A x \in 0 .. n - 1 : q[x] \in 0 .. n - 1 /\ p[x] \in 0 .. n - 1 BY <1>1, <1>2 DEF Moves
<1>4. \A x \in 0 .. n - 1 : m[x] = p[q[x]] OBVIOUS
<1>5. m \in [0 .. n - 1 -> 0 .. n - 1] BY <1>3
<1> HIDE DEF m
<1>6. ASSUME NEW x \in 0 .. n - 1, NEW y \in 0 .. n - 1, m[x] = m[y] PROVE x = y
  <2>1. p[q[x]] = p[q[y]] BY <1>4, <1>6
  <2>2. q[x] = q[y]
    <3>1. \A u, v \in 0 .. n - 1 : p[u] = p[v] => u = v BY <1>1 DEF Moves
    <3> QED BY <1>3, <2>1, <3>1
  <2> QED BY <1>2, <2>2 DEF Moves
<1>7. ASSUME NEW y \in 0 .. n - 1 PROVE \E x \in 0 .. n - 1 : m[x] = y
  <2>1. PICK z \in 0 .. n - 1 : p[z] = y BY <1>1 DEF Moves
  <2>2. PICK x \in 0 .. n - 1 : q[x] = z BY <1>2 DEF Moves
  <2> QED BY <1>4, <2>1, <2>2
<1>8. ASSUME NEW x \in 0 .. n - 1
      PROVE  t[x] = r[m[x]] /\ IF x \in lo .. hi THEN m[x] \in lo .. hi ELSE m[x] = x
  <2>1. q[x] \in 0 .. n - 1 /\ m[x] = p[q[x]] BY <1>3, <1>4
  <2>2. t[x] = s[q[x]] /\ s[q[x]] = r[p[q[x]]] BY <1>1, <1>2, <2>1 DEF Moves
  <2>3. IF x \in lo .. hi THEN q[x] \in lo .. hi ELSE q[x] = x BY <1>2 DEF Moves
  <2>4. IF q[x] \in lo .. hi THEN p[q[x]] \in lo .. hi ELSE p[q[x]] = q[x]
    BY <1>1, <2>1 DEF Moves
  <2> QED BY <2>1, <2>2, <2>3, <2>4
<1>9. Moves(m, r, t, n, lo, hi) BY <1>5, <1>6, <1>7, <1>8 DEF Moves
<1> QED BY <1>9 DEF Shuffled

LEMMA ShuffledMore ==
  ASSUME NEW s, NEW t, NEW n, NEW lo \in Int, NEW hi \in Int, Shuffled(s, t, n, lo, hi),
         NEW lo1 \in Int, NEW hi1 \in Int, lo1 <= lo, hi <= hi1
  PROVE  Shuffled(s, t, n, lo1, hi1)
<1>1. PICK p : Moves(p, s, t, n, lo, hi) BY DEF Shuffled
<1>2. ASSUME NEW x \in 0 .. n - 1 PROVE IF x \in lo1 .. hi1 THEN p[x] \in lo1 .. hi1 ELSE p[x] = x
  <2>1. IF x \in lo .. hi THEN p[x] \in lo .. hi ELSE p[x] = x BY <1>1 DEF Moves
  <2>2. n \in Int /\ x \in Int BY DEF Shuffled, IsArray
  <2>3. CASE x \in lo .. hi
    <3>1. PICK z \in lo .. hi : z = p[x] BY <2>1, <2>3
    <3>2. z \in lo1 .. hi1 /\ x \in lo1 .. hi1 BY <2>3
    <3> QED BY <3>1, <3>2
  <2>4. CASE x \notin lo .. hi BY <2>1, <2>4
  <2> QED BY <2>3, <2>4
<1>3. Moves(p, s, t, n, lo1, hi1) BY <1>1, <1>2 DEF Moves
<1> QED BY <1>3 DEF Shuffled

LEMMA SwapShuffles ==
  ASSUME NEW s, NEW n, IsArray(s, n), NEW lo, NEW hi,
         NEW x \in 0 .. n - 1, NEW y \in 0 .. n - 1, x \in lo .. hi, y \in lo .. hi
  PROVE  Shuffled(s, Swap(s, x, y), n, lo, hi)
<1> DEFINE p == [z \in 0 .. n - 1 |-> IF z = x THEN y ELSE IF z = y THEN x ELSE z]
           t == [z \in 0 .. n - 1 |-> s[p[z]]]
<1>1. p \in [0 .. n - 1 -> 0 .. n - 1] OBVIOUS
<1>2. Swap(s, x, y) = t
  <2>1. s = [z \in 0 .. n - 1 |-> s[z]] BY DEF IsArray
  <2> QED BY <2>1 DEF Swap, IsArray
<1>3. IsArray(t, n) BY <1>1 DEF IsArray
<1>4. \A z \in 0 .. n - 1 : p[z] = IF z = x THEN y ELSE IF z = y THEN x ELSE z OBVIOUS
<1>5. \A z \in 0 .. n - 1 : t[z] = s[p[z]] OBVIOUS
<1> HIDE DEF p, t
<1>6. ASSUME NEW z \in 0 .. n - 1 PROVE \E u \in 0 .. n - 1 : p[u] = z BY <1>4
<1>7. \A u, v \in 0 .. n - 1 : p[u] = p[v] => u = v BY <1>4
<1>8. \A z \in 0 .. n - 1 : IF z \in lo .. hi THEN p[z] \in lo .. hi ELSE p[z] = z BY <1>4
<1>9. Moves(p, s, t, n, lo, hi) BY <1>1, <1>5, <1>6, <1>7, <1>8 DEF Moves
<1> QED BY <1>2, <1>3, <1>9 DEF Shuffled

\* Where an element of t comes from.
LEMMA ShuffledFrom ==
  ASSUME NEW s, NEW t, NEW n, NEW lo, NEW hi, Shuffled(s, t, n, lo, hi), NEW x \in 0 .. n - 1
  PROVE  /\ x \in lo .. hi => \E y \in 0 .. n - 1 : y \in lo .. hi /\ t[x] = s[y]
         /\ x \notin lo .. hi => t[x] = s[x]
         /\ s[x] \in Int /\ t[x] \in Int
<1>1. PICK p : Moves(p, s, t, n, lo, hi) BY DEF Shuffled
<1>2. p[x] \in 0 .. n - 1 /\ t[x] = s[p[x]] BY <1>1 DEF Moves
<1>3. IF x \in lo .. hi THEN p[x] \in lo .. hi ELSE p[x] = x BY <1>1 DEF Moves
<1> QED BY <1>2, <1>3 DEF Shuffled, IsArray

LEMMA ShuffledWithin ==
  ASSUME NEW s, NEW t, NEW n, NEW lo, NEW hi, Shuffled(s, t, n, lo, hi), NEW x \in lo .. hi,
         x \in 0 .. n - 1
  PROVE  \E y \in lo .. hi : y \in 0 .. n - 1 /\ t[x] = s[y]
<1>1. PICK p : Moves(p, s, t, n, lo, hi) BY DEF Shuffled
<1>2. p[x] \in 0 .. n - 1 /\ t[x] = s[p[x]] BY <1>1 DEF Moves
<1>3. p[x] \in lo .. hi BY <1>1 DEF Moves
<1> QED BY <1>2, <1>3

LEMMA ShuffledCount ==
  ASSUME NEW s, NEW t, NEW n, NEW lo, NEW hi, Shuffled(s, t, n, lo, hi), NEW v
  PROVE  Count(t, v) = Count(s, v)
<1>1. PICK p : Moves(p, s, t, n, lo, hi) BY DEF Shuffled
<1> DEFINE S == {x \in 0 .. n - 1 : s[x] = v}
           T == {x \in 0 .. n - 1 : t[x] = v}
           b == [x \in T |-> p[x]]
<1>2. DOMAIN s = 0 .. n - 1 /\ DOMAIN t = 0 .. n - 1 /\ n \in Nat BY DEF Shuffled, IsArray
<1>3. b \in [T -> S] BY <1>1 DEF Moves
<1>4. \A x, y \in T : b[x] = b[y] => x = y BY <1>1 DEF Moves
<1>5. \A y \in S : \E x \in T : b[x] = y
  <2> TAKE y \in S
  <2>1. PICK x \in 0 .. n - 1 : p[x] = y BY <1>1 DEF Moves
  <2>2. x \in T BY <1>1, <2>1 DEF Moves
  <2> QED BY <2>1, <2>2
<1>6. IsFiniteSet(T)
  <2>1. IsFiniteSet(0 .. n - 1) BY <1>2, FS_Interval
  <2>2. T \subseteq 0 .. n - 1 OBVIOUS
  <2> HIDE DEF T
  <2> QED BY <2>1, <2>2, FS_Subset
<1>7. Count(t, v) = Cardinality(T) /\ Count(s, v) = Cardinality(S) BY <1>2 DEF Count
<1> HIDE DEF b, S, T
<1>8. b \in Bijection(T, S) BY <1>3, <1>4, <1>5 DEF Bijection, Injection, Surjection, IsInjective
<1>9. ExistsBijection(T, S) BY <1>8 DEF ExistsBijection
<1>10. Cardinality(T) = Cardinality(S) BY <1>6, <1>9, FS_Bijection
<1> QED BY <1>7, <1>10
-----------------------------------------------------------------------------
(* The loops of the sorts. *)

\* What round k of each loop makes of r.
RoundOf(c, r, k) ==
  CASE c.loop = "pass"     -> Compared(r, k - 1)
    [] c.loop = "exchange" -> NextRound(r, c.n - k)
    [] c.loop = "close"    -> CloseIn(r, c.base)
    [] c.loop = "merge"    -> MergeStep(r, c.s, c.mid, c.right)
    [] c.loop = "shift"    -> ShiftUp(r, c.delta, c.base)
    [] c.loop = "insert"   -> Placed(r, c.delta, k - 1)
    [] c.loop = "shell"    -> ShellRound(r)
    [] c.loop = "narrow"   -> Narrowed(r, c.s, c.base)
    [] c.loop = "binary"   -> BinaryInsert(r, k - 1)
    [] c.loop = "select"   -> Selected(r, k - 1)

IsSortLoop(f, c, n, start) ==
  f = [k \in 0 .. n |-> IF k = 0 THEN start ELSE RoundOf(c, f[k - 1], k)]

LEMMA SortLoopExists ==
  ASSUME NEW n \in Nat, NEW c, NEW start
  PROVE  \E f : IsSortLoop(f, c, n, start)
<1> DEFINE P == {m \in 0 .. n : \E f : IsSortLoop(f, c, m, start)}
<1>1. 0 \in P
  <2> DEFINE f == [k \in 0 .. 0 |-> start]
  <2>1. \A k \in 0 .. 0 : f[k] = IF k = 0 THEN start ELSE RoundOf(c, f[k - 1], k) OBVIOUS
  <2>2. f = [k \in 0 .. 0 |-> f[k]] OBVIOUS
  <2> HIDE DEF f
  <2>3. IsSortLoop(f, c, 0, start) BY <2>1, <2>2 DEF IsSortLoop
  <2> QED BY <2>3
<1>2. ASSUME NEW m \in 0 .. n - 1, m \in P PROVE m + 1 \in P
  <2>1. PICK g : IsSortLoop(g, c, m, start) BY <1>2
  <2>2. \A k \in 0 .. m : g[k] = IF k = 0 THEN start ELSE RoundOf(c, g[k - 1], k)
    BY <2>1 DEF IsSortLoop
  <2> DEFINE h == [k \in 0 .. m + 1 |-> IF k = m + 1 THEN RoundOf(c, g[m], k) ELSE g[k]]
  <2>3. ASSUME NEW k \in 0 .. m + 1 PROVE h[k] = IF k = 0 THEN start ELSE RoundOf(c, h[k - 1], k)
    <3>1. CASE k = m + 1
      <4>1. k - 1 = m /\ m \in 0 .. m + 1 /\ m # m + 1 /\ k # 0 BY <3>1
      <4>2. h[k] = RoundOf(c, g[m], k) BY <3>1
      <4>3. h[k - 1] = g[m] BY <4>1
      <4> HIDE DEF h
      <4> QED BY <4>1, <4>2, <4>3
    <3>2. CASE k # m + 1
      <4>1. k \in 0 .. m BY <3>2
      <4>2. h[k] = g[k] BY <3>2
      <4>3. k # 0 => k - 1 \in 0 .. m + 1 /\ k - 1 # m + 1 OBVIOUS
      <4>4. k # 0 => h[k - 1] = g[k - 1] BY <4>3
      <4>5. g[k] = IF k = 0 THEN start ELSE RoundOf(c, g[k - 1], k) BY <2>2, <4>1
      <4> HIDE DEF h
      <4> QED BY <4>2, <4>4, <4>5
    <3> QED BY <3>1, <3>2
  <2>4. h = [k \in 0 .. m + 1 |-> h[k]] OBVIOUS
  <2> HIDE DEF h
  <2>5. IsSortLoop(h, c, m + 1, start) BY <2>3, <2>4 DEF IsSortLoop
  <2> QED BY <2>5
<1>3. n \in P
  <2> HIDE DEF P
  <2>1. \A k \in 0 .. n : k \in P BY <1>1, <1>2, UpToInduction
  <2> QED BY <2>1
<1> QED BY <1>3

\* f[k] is what the loop has after k rounds.
HasRounds(f, c, n, start) ==
  f[0] = start /\ \A k \in 1 .. n : f[k] = RoundOf(c, f[k - 1], k)

LEMMA RoundsOfLoop ==
  ASSUME NEW n \in Nat, NEW c, NEW start, NEW f, IsSortLoop(f, c, n, start)
  PROVE  HasRounds(f, c, n, start)
<1>1. \A k \in 0 .. n : f[k] = IF k = 0 THEN start ELSE RoundOf(c, f[k - 1], k)
  BY DEF IsSortLoop
<1>2. 0 \in 0 .. n /\ \A k \in 1 .. n : k \in 0 .. n /\ k # 0 OBVIOUS
<1> QED BY <1>1, <1>2 DEF HasRounds

-----------------------------------------------------------------------------
(* BubbleSort. *)

LEMMA PassRounds ==
  ASSUME NEW s, NEW i \in Nat
  PROVE  \E f : /\ BubbleRound(s, i) = f[i] /\ f[0] = [a |-> s, exchange |-> FALSE]
                /\ \A k \in 1 .. i : f[k] = Compared(f[k - 1], k - 1)
<1> DEFINE start == [a |-> s, exchange |-> FALSE]
           c == [loop |-> "pass"]
           OneStep(f) == f = [j \in 0 .. i |-> IF j = 0 THEN start ELSE Compared(f[j - 1], j - 1)]
           loop == CHOOSE f : OneStep(f)
<1>1. \A r, k : RoundOf(c, r, k) = Compared(r, k - 1) BY DEF RoundOf
<1>2. BubbleRound(s, i) = loop[i] BY DEF BubbleRound
<1> HIDE DEF c, start
<1>3. PICK f : IsSortLoop(f, c, i, start) BY SortLoopExists
<1>4. \A g : IsSortLoop(g, c, i, start) <=> OneStep(g) BY <1>1 DEF IsSortLoop
<1> HIDE DEF OneStep
<1>5. IsSortLoop(loop, c, i, start) BY <1>3, <1>4
<1> HIDE DEF loop
<1>6. HasRounds(loop, c, i, start) BY <1>5, RoundsOfLoop
<1> QED BY <1>1, <1>2, <1>6 DEF HasRounds, start

\* A part of an array in order.
Ordered(s, lo, hi) == \A x, y \in lo .. hi : x <= y => s[x] <= s[y]

\* After j comparisons of a round the greatest element so far is at j, and a round without an
\* exchange has changed nothing.
PassOk(r, s, n, i, j) ==
  /\ Shuffled(s, r.a, n, 0, i) /\ r.exchange \in BOOLEAN
  /\ \A x \in 0 .. j : r.a[x] <= r.a[j]
  /\ ~ r.exchange => r.a = s /\ Ordered(s, 0, j)

LEMMA ComparedOk ==
  ASSUME NEW s, NEW n \in Nat, NEW i \in 0 .. n - 1, NEW j \in 0 .. i - 1, NEW r,
         PassOk(r, s, n, i, j)
  PROVE  PassOk(Compared(r, j), s, n, i, j + 1)
<1>1. /\ j \in 0 .. n - 1 /\ j + 1 \in 0 .. n - 1 /\ j \in 0 .. i /\ j + 1 \in 0 .. i
      /\ j + 1 \in Int /\ j # j + 1
  OBVIOUS
<1>2. IsArray(r.a, n) BY DEF PassOk, Shuffled
<1>3. \A x \in 0 .. n - 1 : r.a[x] \in Int BY <1>2 DEF IsArray
<1>4. \A x \in 0 .. j : r.a[x] <= r.a[j] BY DEF PassOk
<1>5. CASE r.a[j] > r.a[j + 1]
  <2> DEFINE t == Swap(r.a, j, j + 1)
  <2>1. Compared(r, j) = [a |-> t, exchange |-> TRUE] BY <1>5 DEF Compared
  <2>2. Shuffled(r.a, t, n, 0, i) BY <1>1, <1>2, SwapShuffles
  <2>3. Shuffled(s, t, n, 0, i) BY <2>2, ShuffledTwice DEF PassOk
  <2>4. \A x \in 0 .. n - 1 : t[x] = IF x = j + 1 THEN r.a[j] ELSE IF x = j THEN r.a[j + 1] ELSE r.a[x]
    BY <1>1, <1>2 DEF Swap, IsArray
  <2> HIDE DEF t
  <2>5. ASSUME NEW x \in 0 .. j + 1 PROVE t[x] <= t[j + 1]
    <3>1. t[j + 1] = r.a[j] BY <1>1, <2>4
    <3>2. x \in 0 .. n - 1 OBVIOUS
    <3>3. CASE x = j + 1 BY <1>1, <1>3, <2>4, <3>3
    <3>4. CASE x = j BY <1>1, <1>3, <1>5, <2>4, <3>1, <3>4
    <3>5. CASE x # j /\ x # j + 1
      <4>1. x \in 0 .. j BY <3>5
      <4>2. t[x] = r.a[x] BY <2>4, <3>2, <3>5
      <4> QED BY <1>4, <3>1, <4>1, <4>2
    <3> QED BY <3>3, <3>4, <3>5
  <2> QED BY <2>1, <2>3, <2>5 DEF PassOk
<1>6. CASE ~ (r.a[j] > r.a[j + 1])
  <2>1. Compared(r, j) = r BY <1>6 DEF Compared
  <2>2. r.a[j] <= r.a[j + 1] BY <1>1, <1>3, <1>6
  <2>3. ASSUME NEW x \in 0 .. j + 1 PROVE r.a[x] <= r.a[j + 1]
    <3>1. CASE x = j + 1 BY <1>1, <1>3, <3>1
    <3>2. CASE x # j + 1
      <4>1. x \in 0 .. j /\ x \in 0 .. n - 1 BY <3>2
      <4> QED BY <1>1, <1>3, <1>4, <2>2, <4>1
    <3> QED BY <3>1, <3>2
  <2>4. ~ r.exchange => r.a = s /\ Ordered(s, 0, j + 1)
    <3>1. SUFFICES ASSUME ~ r.exchange PROVE Ordered(s, 0, j + 1) BY DEF PassOk
    <3>2. r.a = s /\ Ordered(s, 0, j) BY <3>1 DEF PassOk
    <3>3. ASSUME NEW x \in 0 .. j + 1, NEW y \in 0 .. j + 1, x <= y PROVE s[x] <= s[y]
      <4>1. CASE y = j + 1 BY <2>3, <3>2, <4>1
      <4>2. CASE y # j + 1
        <5>1. x \in 0 .. j /\ y \in 0 .. j BY <3>3, <4>2
        <5> QED BY <3>2, <3>3, <5>1 DEF Ordered
      <4> QED BY <4>1, <4>2
    <3> QED BY <3>3 DEF Ordered
  <2> QED BY <2>1, <2>3, <2>4 DEF PassOk
<1> QED BY <1>5, <1>6

LEMMA RoundOk ==
  ASSUME NEW s, NEW n \in Nat, NEW i \in 0 .. n - 1, IsArray(s, n)
  PROVE  PassOk(BubbleRound(s, i), s, n, i, i)
<1>1. i \in Nat OBVIOUS
<1>2. PICK f : /\ BubbleRound(s, i) = f[i] /\ f[0] = [a |-> s, exchange |-> FALSE]
               /\ \A k \in 1 .. i : f[k] = Compared(f[k - 1], k - 1)
  BY <1>1, PassRounds
<1> DEFINE P == {j \in 0 .. i : PassOk(f[j], s, n, i, j)}
<1>3. 0 \in P
  <2>1. Shuffled(s, s, n, 0, i) BY NotShuffled
  <2>2. 0 \in 0 .. n - 1 /\ s[0] \in Int BY DEF IsArray
  <2>3. f[0].a = s /\ f[0].exchange = FALSE BY <1>2
  <2>4. Ordered(s, 0, 0) /\ \A x \in 0 .. 0 : s[x] <= s[0] BY <2>2 DEF Ordered
  <2>5. PassOk(f[0], s, n, i, 0) BY <2>1, <2>3, <2>4 DEF PassOk
  <2> QED BY <2>5
<1>4. ASSUME NEW j \in 0 .. i - 1, j \in P PROVE j + 1 \in P
  <2>1. j + 1 \in 1 .. i /\ (j + 1) - 1 = j OBVIOUS
  <2>2. f[j + 1] = Compared(f[j], j) BY <1>2, <2>1
  <2>3. PassOk(f[j], s, n, i, j) BY <1>4
  <2>4. PassOk(f[j + 1], s, n, i, j + 1) BY <2>2, <2>3, ComparedOk
  <2> QED BY <2>1, <2>4
<1>5. i \in P
  <2> HIDE DEF P
  <2>1. \A j \in 0 .. i : j \in P BY <1>1, <1>3, <1>4, UpToInduction
  <2> QED BY <2>1
<1> QED BY <1>2, <1>5

LEMMA ExchangeRounds ==
  ASSUME NEW s, NEW n \in Nat, ArrayLength(s) = n
  PROVE  \E f : /\ ExchangeSort(s) = f[n].a /\ f[0] = [a |-> s, exchange |-> TRUE]
                /\ \A k \in 1 .. n : f[k] = NextRound(f[k - 1], n - k)
<1> DEFINE start == [a |-> s, exchange |-> TRUE]
           c == [loop |-> "exchange", n |-> n]
           OneStep(f) == f = [k \in 0 .. n |-> IF k = 0 THEN start ELSE NextRound(f[k - 1], n - k)]
           loop == CHOOSE f : OneStep(f)
<1>1. \A r, k : RoundOf(c, r, k) = NextRound(r, n - k) BY DEF RoundOf
<1>2. ExchangeSort(s) = loop[n].a BY DEF ExchangeSort
<1> HIDE DEF c, start
<1>3. PICK f : IsSortLoop(f, c, n, start) BY SortLoopExists
<1>4. \A g : IsSortLoop(g, c, n, start) <=> OneStep(g) BY <1>1 DEF IsSortLoop
<1> HIDE DEF OneStep
<1>5. IsSortLoop(loop, c, n, start) BY <1>3, <1>4
<1> HIDE DEF loop
<1>6. HasRounds(loop, c, n, start) BY <1>5, RoundsOfLoop
<1> QED BY <1>1, <1>2, <1>6 DEF HasRounds, start

\* After k rounds the k greatest elements are in their places, and after one without an
\* exchange all are.
ExchangeOk(r, s, n, k) ==
  /\ Shuffled(s, r.a, n, 0, n - 1) /\ r.exchange \in BOOLEAN
  /\ \A x, y \in 0 .. n - 1 : x <= y /\ y >= n - k => r.a[x] <= r.a[y]
  /\ ~ r.exchange => Ordered(r.a, 0, n - 1)

LEMMA NextRoundOk ==
  ASSUME NEW s, NEW n \in Nat, NEW k \in 0 .. n - 1, NEW r, ExchangeOk(r, s, n, k)
  PROVE  ExchangeOk(NextRound(r, n - (k + 1)), s, n, k + 1)
<1>0. PICK i \in 0 .. n - 1 : i = n - (k + 1) /\ n - k = i + 1 OBVIOUS
<1>1. IsArray(r.a, n) /\ r.exchange \in BOOLEAN BY DEF ExchangeOk, Shuffled
<1>2. \A x \in 0 .. n - 1 : r.a[x] \in Int BY <1>1 DEF IsArray
<1>3. \A x, y \in 0 .. n - 1 : x <= y /\ y >= i + 1 => r.a[x] <= r.a[y] BY <1>0 DEF ExchangeOk
<1>4. CASE r.exchange /\ i > 0
  <2> DEFINE q == BubbleRound(r.a, i)
  <2>1. NextRound(r, i) = q BY <1>4 DEF NextRound
  <2>2. PassOk(q, r.a, n, i, i) BY <1>1, RoundOk
  <2> HIDE DEF q
  <2>3. Shuffled(r.a, q.a, n, 0, i) /\ q.exchange \in BOOLEAN BY <2>2 DEF PassOk
  <2>4. Shuffled(s, q.a, n, 0, n - 1)
    <3>1. Shuffled(r.a, q.a, n, 0, n - 1) BY <2>3, ShuffledMore
    <3> QED BY <3>1, ShuffledTwice DEF ExchangeOk
  <2>5. ASSUME NEW x \in 0 .. n - 1, NEW y \in 0 .. n - 1, x <= y, y >= i PROVE q.a[x] <= q.a[y]
    <3>1. CASE y = i
      <4>1. x \in 0 .. i BY <2>5, <3>1
      <4> QED BY <2>2, <3>1, <4>1 DEF PassOk
    <3>2. CASE y # i
      <4>1. y >= i + 1 /\ y \notin 0 .. i BY <2>5, <3>2
      <4>2. q.a[y] = r.a[y] BY <2>3, <4>1, ShuffledFrom
      <4>3. PICK z \in 0 .. n - 1 : z <= y /\ q.a[x] = r.a[z]
        <5>1. CASE x \in 0 .. i
          <6>1. PICK z \in 0 .. n - 1 : z \in 0 .. i /\ q.a[x] = r.a[z]
            BY <2>3, <5>1, ShuffledFrom
          <6>2. z <= y BY <4>1, <6>1
          <6> QED BY <6>1, <6>2
        <5>2. CASE x \notin 0 .. i BY <2>3, <2>5, <5>2, ShuffledFrom
        <5> QED BY <5>1, <5>2
      <4> QED BY <1>3, <4>1, <4>2, <4>3
    <3> QED BY <3>1, <3>2
  <2>6. ASSUME ~ q.exchange PROVE Ordered(q.a, 0, n - 1)
    <3>1. q.a = r.a /\ Ordered(r.a, 0, i) BY <2>2, <2>6 DEF PassOk
    <3>2. ASSUME NEW x \in 0 .. n - 1, NEW y \in 0 .. n - 1, x <= y PROVE r.a[x] <= r.a[y]
      <4>1. CASE y >= i + 1 BY <1>3, <3>2, <4>1
      <4>2. CASE ~ (y >= i + 1)
        <5>1. x \in 0 .. i /\ y \in 0 .. i BY <3>2, <4>2
        <5> QED BY <3>1, <3>2, <5>1 DEF Ordered
      <4> QED BY <4>1, <4>2
    <3> QED BY <3>1, <3>2 DEF Ordered
  <2>7. n - (k + 1) = i BY <1>0
  <2> QED BY <2>1, <2>3, <2>4, <2>5, <2>6, <2>7 DEF ExchangeOk
<1>5. CASE ~ (r.exchange /\ i > 0)
  <2>1. NextRound(r, i) = r BY <1>5 DEF NextRound
  <2>2. ASSUME NEW x \in 0 .. n - 1, NEW y \in 0 .. n - 1, x <= y, y >= i PROVE r.a[x] <= r.a[y]
    <3>1. CASE ~ r.exchange BY <2>2, <3>1 DEF ExchangeOk, Ordered
    <3>2. CASE i = 0
      <4>1. CASE y >= i + 1 BY <1>3, <2>2, <4>1
      <4>2. CASE ~ (y >= i + 1)
        <5>1. x = y BY <2>2, <3>2, <4>2
        <5> QED BY <1>2, <5>1
      <4> QED BY <4>1, <4>2
    <3> QED BY <1>1, <1>5, <3>1, <3>2
  <2>3. n - (k + 1) = i BY <1>0
  <2> QED BY <2>1, <2>2, <2>3 DEF ExchangeOk
<1> QED BY <1>0, <1>4, <1>5

\* t has the elements of s, in order.
SortedFrom(s, t, n) == Shuffled(s, t, n, 0, n - 1) /\ Ordered(t, 0, n - 1)

LEMMA ExchangeSortSorts ==
  ASSUME NEW s, NEW n, IsArray(s, n)
  PROVE  SortedFrom(s, ExchangeSort(s), n)
<1>0. n \in Nat /\ ArrayLength(s) = n BY LengthIs DEF IsArray
<1>1. PICK f : /\ ExchangeSort(s) = f[n].a /\ f[0] = [a |-> s, exchange |-> TRUE]
               /\ \A k \in 1 .. n : f[k] = NextRound(f[k - 1], n - k)
  BY <1>0, ExchangeRounds
<1> DEFINE P == {k \in 0 .. n : ExchangeOk(f[k], s, n, k)}
<1>2. 0 \in P
  <2>1. Shuffled(s, s, n, 0, n - 1) BY NotShuffled
  <2>2. f[0].a = s /\ f[0].exchange = TRUE BY <1>1
  <2>3. \A y \in 0 .. n - 1 : ~ (y >= n - 0) BY <1>0
  <2>4. ExchangeOk(f[0], s, n, 0) BY <2>1, <2>2, <2>3 DEF ExchangeOk
  <2> QED BY <1>0, <2>4
<1>3. ASSUME NEW k \in 0 .. n - 1, k \in P PROVE k + 1 \in P
  <2>1. k + 1 \in 1 .. n /\ (k + 1) - 1 = k BY <1>0
  <2>2. f[k + 1] = NextRound(f[k], n - (k + 1)) BY <1>1, <2>1
  <2>3. ExchangeOk(f[k], s, n, k) BY <1>3
  <2>4. ExchangeOk(f[k + 1], s, n, k + 1) BY <1>0, <2>2, <2>3, NextRoundOk
  <2> QED BY <2>1, <2>4
<1>4. n \in P
  <2> HIDE DEF P
  <2>1. \A k \in 0 .. n : k \in P BY <1>0, <1>2, <1>3, UpToInduction
  <2> QED BY <1>0, <2>1
<1>5. ExchangeOk(f[n], s, n, n) BY <1>4
<1>6. \A x, y \in 0 .. n - 1 : y >= n - n BY <1>0
<1> QED BY <1>1, <1>5, <1>6 DEF ExchangeOk, SortedFrom, Ordered

-----------------------------------------------------------------------------
(* DirectInsertSort and ShellSort. *)

LEMMA ShiftRounds ==
  ASSUME NEW s, NEW delta, NEW i \in Nat
  PROVE  \E f : /\ InsertSort(s, delta, i) = [f[i].a EXCEPT ![f[i].j + delta] = s[i]]
                /\ f[0] = [a |-> s, j |-> i - delta]
                /\ \A k \in 1 .. i : f[k] = ShiftUp(f[k - 1], delta, s[i])
<1> DEFINE start == [a |-> s, j |-> i - delta]
           c == [loop |-> "shift", delta |-> delta, base |-> s[i]]
           OneStep(f) == f = [k \in 0 .. i |-> IF k = 0 THEN start ELSE ShiftUp(f[k - 1], delta, s[i])]
           loop == CHOOSE f : OneStep(f)
<1>1. \A r, k : RoundOf(c, r, k) = ShiftUp(r, delta, s[i]) BY DEF RoundOf
<1>2. InsertSort(s, delta, i) = [loop[i].a EXCEPT ![loop[i].j + delta] = s[i]] BY DEF InsertSort
<1> HIDE DEF c, start
<1>3. PICK f : IsSortLoop(f, c, i, start) BY SortLoopExists
<1>4. \A g : IsSortLoop(g, c, i, start) <=> OneStep(g) BY <1>1 DEF IsSortLoop
<1> HIDE DEF OneStep
<1>5. IsSortLoop(loop, c, i, start) BY <1>3, <1>4
<1> HIDE DEF loop
<1>6. HasRounds(loop, c, i, start) BY <1>5, RoundsOfLoop
<1>7. loop[0] = [a |-> s, j |-> i - delta] BY <1>6 DEF HasRounds, start
<1>8. \A k \in 1 .. i : loop[k] = ShiftUp(loop[k - 1], delta, s[i]) BY <1>1, <1>6 DEF HasRounds
<1> QED BY <1>2, <1>7, <1>8

\* The array with the element that is moved put where the loop is.
Filled(r, delta, v) == [r.a EXCEPT ![r.j + delta] = v]

\* An array in order but for the elements before the one at h that are greater than it.
OrderedBut(s, hi, h) == \A x, y \in 0 .. hi : x <= y /\ y # h => s[x] <= s[y]

ShiftOk(r, s, n, delta, i) ==
  /\ IsArray(r.a, n) /\ r.j \in Int /\ r.j + delta \in 0 .. i
  /\ Shuffled(s, Filled(r, delta, s[i]), n, 0, i)
  /\ delta = 1 /\ Ordered(s, 0, i - 1) => OrderedBut(Filled(r, delta, s[i]), i, r.j + 1)

\* The loop is over.
ShiftEnds(r, v) == ~ (r.j >= 0 /\ r.a[r.j] > v)

LEMMA ShiftUpOk ==
  ASSUME NEW s, NEW n \in Nat, NEW i \in 0 .. n - 1, NEW delta \in Nat \ {0}, IsArray(s, n),
         NEW r, ShiftOk(r, s, n, delta, i)
  PROVE  ShiftOk(ShiftUp(r, delta, s[i]), s, n, delta, i)
<1> DEFINE v == s[i]
           b == Filled(r, delta, v)
<1>1. CASE ShiftEnds(r, v) BY <1>1 DEF ShiftUp, ShiftEnds
<1>2. CASE ~ ShiftEnds(r, v)
  <2>1. PICK j \in Int : j = r.j /\ j >= 0 /\ j + delta \in 0 .. i BY <1>2 DEF ShiftOk, ShiftEnds
  <2>2. PICK h \in 0 .. n - 1 : h = j + delta /\ h \in 0 .. i BY <2>1
  <2>3. j \in 0 .. n - 1 /\ j \in 0 .. i /\ j # h /\ h \in Int BY <2>1, <2>2
  <2>4. IsArray(r.a, n) /\ r.a[j] > v /\ v \in Int BY <1>2, <2>1 DEF ShiftOk, ShiftEnds, IsArray
  <2>5. \A x \in 0 .. n - 1 : r.a[x] \in Int BY <2>4 DEF IsArray
  <2> DEFINE q == [a |-> [r.a EXCEPT ![h] = r.a[j]], j |-> j - delta]
             t == Filled(q, delta, v)
  <2>6. ShiftUp(r, delta, v) = q BY <1>2, <2>1, <2>2 DEF ShiftUp, ShiftEnds
  <2>7. j - delta \in Int /\ (j - delta) + delta = j BY <2>1
  <2>8. t = [[r.a EXCEPT ![h] = r.a[j]] EXCEPT ![j] = v] BY <2>7 DEF Filled
  <2>9. IsArray(q.a, n) /\ IsArray(t, n)
    <3>1. r.a[j] \in Int /\ v \in Int BY <2>3, <2>4, <2>5
    <3> QED BY <2>4, <2>8, <3>1 DEF IsArray
  <2>10. \A x \in 0 .. n - 1 : t[x] = IF x = j THEN v ELSE IF x = h THEN r.a[j] ELSE r.a[x]
    BY <2>3, <2>4, <2>8 DEF IsArray
  <2>11. b = [r.a EXCEPT ![h] = v] BY <2>1, <2>2 DEF Filled
  <2>12. IsArray(b, n) BY <2>4, <2>11 DEF IsArray
  <2>13. \A x \in 0 .. n - 1 : b[x] = IF x = h THEN v ELSE r.a[x] BY <2>4, <2>11 DEF IsArray
  <2>q. q.j = j - delta /\ q.j \in Int /\ q.j + delta = j BY <2>7
  <2> HIDE DEF b, t, q
  <2>14. t = Swap(b, j, h)
    <3> DEFINE w == Swap(b, j, h)
    <3>1. IsArray(w, n)
      <4>1. b[j] \in Int /\ b[h] \in Int BY <2>3, <2>12 DEF IsArray
      <4> QED BY <2>12, <4>1 DEF IsArray, Swap
    <3>2. \A x \in 0 .. n - 1 : w[x] = IF x = h THEN b[j] ELSE IF x = j THEN b[h] ELSE b[x]
      BY <2>12 DEF IsArray, Swap
    <3> HIDE DEF w
    <3>3. ASSUME NEW x \in 0 .. n - 1 PROVE t[x] = w[x] BY <2>3, <2>10, <2>13, <3>2
    <3>4. t = [x \in 0 .. n - 1 |-> t[x]] /\ w = [x \in 0 .. n - 1 |-> w[x]]
      BY <2>9, <3>1 DEF IsArray
    <3>5. t = w BY <3>3, <3>4
    <3> QED BY <3>5 DEF w
  <2>15. Shuffled(s, t, n, 0, i)
    <3>1. Shuffled(b, t, n, 0, i) BY <2>2, <2>3, <2>12, <2>14, SwapShuffles
    <3>2. Shuffled(s, b, n, 0, i) BY DEF ShiftOk, b
    <3> QED BY <3>1, <3>2, ShuffledTwice
  <2>16. ASSUME delta = 1, Ordered(s, 0, i - 1) PROVE OrderedBut(t, i, q.j + 1)
    <3>1. q.j + 1 = j /\ h = j + 1 BY <2>2, <2>q, <2>16
    <3>2. \A x, y \in 0 .. i : x <= y /\ y # h => b[x] <= b[y]
      <4>1. r.j + 1 = h BY <2>1, <2>2, <2>16
      <4> QED BY <2>16, <4>1 DEF ShiftOk, OrderedBut, b
    <3>3. ASSUME NEW x \in 0 .. i, NEW y \in 0 .. i, x <= y, y # j PROVE t[x] <= t[y]
      <4>1. x \in 0 .. n - 1 /\ y \in 0 .. n - 1 OBVIOUS
      <4>2. CASE y = h
        <5>1. t[y] = r.a[j] /\ b[j] = r.a[j] BY <2>3, <2>10, <2>13, <4>1, <4>2
        <5>2. CASE x = h BY <2>3, <2>5, <4>2, <5>1, <5>2
        <5>3. CASE x = j BY <2>4, <2>5, <2>3, <2>10, <4>1, <5>1, <5>3
        <5>4. CASE x # h /\ x # j
          <6>1. t[x] = r.a[x] /\ b[x] = r.a[x] BY <2>10, <2>13, <4>1, <5>4
          <6>2. x <= j BY <3>1, <3>3, <4>2, <5>4
          <6> QED BY <2>3, <3>2, <5>1, <6>1, <6>2
        <5> QED BY <5>2, <5>3, <5>4
      <4>3. CASE y # h
        <5>1. t[y] = b[y] BY <2>10, <2>13, <3>3, <4>1, <4>3
        <5>2. CASE x = j
          <6>1. t[x] = b[h] BY <2>2, <2>10, <2>13, <4>1, <5>2
          <6>2. h <= y BY <3>1, <3>3, <4>3, <5>2
          <6> QED BY <2>2, <3>2, <4>3, <5>1, <6>1, <6>2
        <5>3. CASE x = h
          <6>1. t[x] = b[j] BY <2>3, <2>10, <2>13, <4>1, <5>3
          <6>2. j <= y BY <3>1, <3>3, <5>3
          <6> QED BY <2>3, <3>2, <4>3, <5>1, <6>1, <6>2
        <5>4. CASE x # h /\ x # j
          <6>1. t[x] = b[x] BY <2>10, <2>13, <4>1, <5>4
          <6> QED BY <3>2, <3>3, <4>3, <5>1, <6>1
        <5> QED BY <5>2, <5>3, <5>4
      <4> QED BY <4>2, <4>3
    <3> QED BY <3>1, <3>3 DEF OrderedBut
  <2>17. ShiftOk(q, s, n, delta, i)
    <3>1. q.j + delta \in 0 .. i BY <2>q, <2>3
    <3>2. Filled(q, delta, s[i]) = t BY DEF t
    <3> QED BY <2>q, <2>9, <2>15, <2>16, <3>1, <3>2 DEF ShiftOk
  <2> QED BY <2>6, <2>17
<1> QED BY <1>1, <1>2

LEMMA InsertSortOk ==
  ASSUME NEW s, NEW n \in Nat, NEW i \in 0 .. n - 1, NEW delta \in Nat \ {0}, IsArray(s, n),
         delta <= i
  PROVE  /\ Shuffled(s, InsertSort(s, delta, i), n, 0, i)
         /\ delta = 1 /\ Ordered(s, 0, i - 1) => Ordered(InsertSort(s, delta, i), 0, i)
<1>1. i \in Nat /\ s[i] \in Int BY DEF IsArray
<1>2. PICK f : /\ InsertSort(s, delta, i) = [f[i].a EXCEPT ![f[i].j + delta] = s[i]]
               /\ f[0] = [a |-> s, j |-> i - delta]
               /\ \A k \in 1 .. i : f[k] = ShiftUp(f[k - 1], delta, s[i])
  BY <1>1, ShiftRounds
<1> DEFINE P == {k \in 0 .. i : /\ ShiftOk(f[k], s, n, delta, i)
                                /\ ShiftEnds(f[k], s[i]) \/ f[k].j <= i - delta - k}
<1>3. 0 \in P
  <2>1. f[0].a = s /\ f[0].j = i - delta BY <1>2
  <2>2. i - delta \in Int /\ (i - delta) + delta = i /\ i \in 0 .. i OBVIOUS
  <2>3. Filled(f[0], delta, s[i]) = s BY <2>1, <2>2 DEF Filled, IsArray
  <2>4. delta = 1 /\ Ordered(s, 0, i - 1) => OrderedBut(s, i, f[0].j + 1)
    <3>1. SUFFICES ASSUME delta = 1, Ordered(s, 0, i - 1),
                          NEW x \in 0 .. i, NEW y \in 0 .. i, x <= y, y # i
                   PROVE  s[x] <= s[y]
      BY <2>1, <2>2 DEF OrderedBut
    <3>2. x \in 0 .. i - 1 /\ y \in 0 .. i - 1 BY <3>1
    <3> QED BY <3>1, <3>2 DEF Ordered
  <2>5. Shuffled(s, s, n, 0, i) BY NotShuffled
  <2>6. ShiftOk(f[0], s, n, delta, i) BY <2>1, <2>2, <2>3, <2>4, <2>5 DEF ShiftOk
  <2>7. f[0].j <= i - delta - 0 BY <2>1
  <2> QED BY <1>1, <2>6, <2>7
<1>4. ASSUME NEW k \in 0 .. i - 1, k \in P PROVE k + 1 \in P
  <2>1. k + 1 \in 1 .. i /\ k + 1 \in 0 .. i /\ (k + 1) - 1 = k OBVIOUS
  <2>2. f[k + 1] = ShiftUp(f[k], delta, s[i]) BY <1>2, <2>1
  <2>3. ShiftOk(f[k], s, n, delta, i) BY <1>4
  <2>4. ShiftOk(f[k + 1], s, n, delta, i) BY <2>2, <2>3, ShiftUpOk
  <2>5. ShiftEnds(f[k + 1], s[i]) \/ f[k + 1].j <= i - delta - (k + 1)
    <3>1. CASE ShiftEnds(f[k], s[i])
      <4>1. f[k + 1] = f[k] BY <2>2, <3>1 DEF ShiftUp, ShiftEnds
      <4> QED BY <3>1, <4>1
    <3>2. CASE ~ ShiftEnds(f[k], s[i])
      <4>1. f[k + 1].j = f[k].j - delta BY <2>2, <3>2 DEF ShiftUp, ShiftEnds
      <4>2. f[k].j <= i - delta - k /\ f[k].j \in Int BY <1>4, <2>3, <3>2 DEF ShiftOk
      <4> QED BY <4>1, <4>2
    <3> QED BY <3>1, <3>2
  <2> QED BY <2>1, <2>4, <2>5
<1>5. i \in P
  <2> HIDE DEF P
  <2>1. \A k \in 0 .. i : k \in P BY <1>1, <1>3, <1>4, UpToInduction
  <2> QED BY <2>1
<1>6. ShiftOk(f[i], s, n, delta, i) BY <1>5
<1>7. ShiftEnds(f[i], s[i])
  <2>1. ShiftEnds(f[i], s[i]) \/ f[i].j <= i - delta - i BY <1>5
  <2>2. f[i].j \in Int BY <1>6 DEF ShiftOk
  <2> QED BY <2>1, <2>2 DEF ShiftEnds
<1> DEFINE t == Filled(f[i], delta, s[i])
<1>8. InsertSort(s, delta, i) = t BY <1>2 DEF Filled
<1>9. Shuffled(s, t, n, 0, i) BY <1>6 DEF ShiftOk
<1>10. ASSUME delta = 1, Ordered(s, 0, i - 1) PROVE Ordered(t, 0, i)
  <2>1. OrderedBut(t, i, f[i].j + 1) BY <1>6, <1>10 DEF ShiftOk
  <2>2. PICK j \in Int : j = f[i].j /\ j + 1 \in 0 .. i BY <1>6, <1>10 DEF ShiftOk
  <2>3. IsArray(f[i].a, n) /\ IsArray(t, n) BY <1>6 DEF ShiftOk, Shuffled
  <2>4. \A x \in 0 .. n - 1 : t[x] = IF x = j + 1 THEN s[i] ELSE f[i].a[x]
    BY <1>10, <2>2, <2>3 DEF Filled, IsArray
  <2>5. \A x \in 0 .. n - 1 : t[x] \in Int BY <2>3 DEF IsArray
  <2> HIDE DEF t
  <2>6. ASSUME NEW x \in 0 .. i, NEW y \in 0 .. i, x <= y PROVE t[x] <= t[y]
    <3>1. CASE y # j + 1 BY <2>1, <2>2, <2>6, <3>1 DEF OrderedBut
    <3>2. CASE y = j + 1 /\ x = y BY <2>5, <3>2
    <3>3. CASE y = j + 1 /\ x # y
      <4>1. x <= j /\ j \in 0 .. i /\ j \in 0 .. n - 1 /\ j # j + 1 BY <2>2, <2>6, <3>3
      <4>2. t[x] <= t[j] BY <2>1, <2>2, <4>1 DEF OrderedBut
      <4>3. t[j] = f[i].a[j] /\ t[y] = s[i] BY <2>2, <2>4, <3>3, <4>1
      <4>4. ~ (f[i].a[j] > s[i]) BY <1>7, <2>2, <4>1 DEF ShiftEnds
      <4>5. t[j] <= t[y] BY <1>1, <2>5, <4>1, <4>3, <4>4
      <4> QED BY <2>5, <4>1, <4>2, <4>5
    <3> QED BY <3>1, <3>2, <3>3
  <2> QED BY <2>6 DEF Ordered
<1> HIDE DEF t
<1> QED BY <1>8, <1>9, <1>10

LEMMA InsertRounds ==
  ASSUME NEW s, NEW delta, NEW n \in Nat, ArrayLength(s) = n
  PROVE  \E f : /\ InsertFrom(s, delta) = f[n] /\ f[0] = s
                /\ \A k \in 1 .. n : f[k] = Placed(f[k - 1], delta, k - 1)
<1> DEFINE c == [loop |-> "insert", delta |-> delta]
           OneStep(f) == f = [k \in 0 .. n |-> IF k = 0 THEN s ELSE Placed(f[k - 1], delta, k - 1)]
           loop == CHOOSE f : OneStep(f)
<1>1. \A r, k : RoundOf(c, r, k) = Placed(r, delta, k - 1) BY DEF RoundOf
<1>2. InsertFrom(s, delta) = loop[n] BY DEF InsertFrom
<1> HIDE DEF c
<1>3. PICK f : IsSortLoop(f, c, n, s) BY SortLoopExists
<1>4. \A g : IsSortLoop(g, c, n, s) <=> OneStep(g) BY <1>1 DEF IsSortLoop
<1> HIDE DEF OneStep
<1>5. IsSortLoop(loop, c, n, s) BY <1>3, <1>4
<1> HIDE DEF loop
<1>6. HasRounds(loop, c, n, s) BY <1>5, RoundsOfLoop
<1>7. loop[0] = s BY <1>6 DEF HasRounds
<1>8. \A k \in 1 .. n : loop[k] = Placed(loop[k - 1], delta, k - 1) BY <1>1, <1>6 DEF HasRounds
<1> QED BY <1>2, <1>7, <1>8

\* Of the array's first k elements, moved about; in order where the groups are one.
InsertedOk(s, t, n, delta, k) ==
  Shuffled(s, t, n, 0, n - 1) /\ (delta = 1 => Ordered(t, 0, k - 1))

LEMMA PlacedOk ==
  ASSUME NEW s, NEW t, NEW n \in Nat, NEW delta \in Nat \ {0}, NEW k \in 0 .. n - 1,
         InsertedOk(s, t, n, delta, k)
  PROVE  InsertedOk(s, Placed(t, delta, k), n, delta, k + 1)
<1>1. IsArray(t, n) BY DEF InsertedOk, Shuffled
<1>2. (k + 1) - 1 = k OBVIOUS
<1>3. CASE k < delta
  <2>1. Placed(t, delta, k) = t BY <1>3 DEF Placed
  <2>2. ASSUME delta = 1 PROVE Ordered(t, 0, k)
    <3>1. k = 0 BY <1>3, <2>2
    <3>2. t[0] \in Int BY <1>1, <3>1 DEF IsArray
    <3> QED BY <3>1, <3>2 DEF Ordered
  <2> QED BY <1>2, <2>1, <2>2 DEF InsertedOk
<1>4. CASE ~ (k < delta)
  <2> DEFINE u == InsertSort(t, delta, k)
  <2>1. Placed(t, delta, k) = u BY <1>4 DEF Placed
  <2>2. delta <= k BY <1>4
  <2>3. /\ Shuffled(t, u, n, 0, k)
        /\ delta = 1 /\ Ordered(t, 0, k - 1) => Ordered(u, 0, k)
    BY <1>1, <2>2, InsertSortOk
  <2> HIDE DEF u
  <2>4. Shuffled(t, u, n, 0, n - 1) BY <2>3, ShuffledMore
  <2>5. Shuffled(s, u, n, 0, n - 1) BY <2>4, ShuffledTwice DEF InsertedOk
  <2> QED BY <1>2, <2>1, <2>3, <2>5 DEF InsertedOk
<1> QED BY <1>3, <1>4

LEMMA InsertFromOk ==
  ASSUME NEW s, NEW n, IsArray(s, n), NEW delta \in Nat \ {0}
  PROVE  /\ Shuffled(s, InsertFrom(s, delta), n, 0, n - 1)
         /\ delta = 1 => Ordered(InsertFrom(s, delta), 0, n - 1)
<1>0. n \in Nat /\ ArrayLength(s) = n BY LengthIs DEF IsArray
<1>1. PICK f : /\ InsertFrom(s, delta) = f[n] /\ f[0] = s
               /\ \A k \in 1 .. n : f[k] = Placed(f[k - 1], delta, k - 1)
  BY <1>0, InsertRounds
<1> DEFINE P == {k \in 0 .. n : InsertedOk(s, f[k], n, delta, k)}
<1>2. 0 \in P
  <2>1. Shuffled(s, f[0], n, 0, n - 1) BY <1>1, NotShuffled
  <2>2. Ordered(f[0], 0, 0 - 1) BY DEF Ordered
  <2> QED BY <1>0, <2>1, <2>2 DEF InsertedOk
<1>3. ASSUME NEW k \in 0 .. n - 1, k \in P PROVE k + 1 \in P
  <2>1. k + 1 \in 1 .. n /\ k + 1 \in 0 .. n /\ (k + 1) - 1 = k BY <1>0
  <2>2. f[k + 1] = Placed(f[k], delta, k) BY <1>1, <2>1
  <2>3. InsertedOk(s, f[k], n, delta, k) BY <1>3
  <2>4. InsertedOk(s, f[k + 1], n, delta, k + 1) BY <1>0, <2>2, <2>3, PlacedOk
  <2> QED BY <2>1, <2>4
<1>4. n \in P
  <2> HIDE DEF P
  <2>1. \A k \in 0 .. n : k \in P BY <1>0, <1>2, <1>3, UpToInduction
  <2> QED BY <1>0, <2>1
<1>5. InsertedOk(s, f[n], n, delta, n) BY <1>4
<1> QED BY <1>1, <1>5 DEF InsertedOk

LEMMA DirectInsertSortSorts ==
  ASSUME NEW s, NEW n, IsArray(s, n)
  PROVE  SortedFrom(s, DirectInsertSort(s), n)
<1>1. 1 \in Nat \ {0} OBVIOUS
<1> QED BY <1>1, InsertFromOk DEF DirectInsertSort, SortedFrom

LEMMA ShellRounds ==
  ASSUME NEW s, NEW n \in Nat, ArrayLength(s) = n
  PROVE  \E f : /\ ShellSort(s) = f[n].a /\ f[0] = [a |-> s, delta |-> n \div 2]
                /\ \A k \in 1 .. n : f[k] = ShellRound(f[k - 1])
<1> DEFINE start == [a |-> s, delta |-> n \div 2]
           c == [loop |-> "shell"]
           OneStep(f) == f = [k \in 0 .. n |-> IF k = 0 THEN start ELSE ShellRound(f[k - 1])]
           loop == CHOOSE f : OneStep(f)
<1>1. \A r, k : RoundOf(c, r, k) = ShellRound(r) BY DEF RoundOf
<1>2. ShellSort(s) = loop[n].a BY DEF ShellSort
<1> HIDE DEF c, start
<1>3. PICK f : IsSortLoop(f, c, n, start) BY SortLoopExists
<1>4. \A g : IsSortLoop(g, c, n, start) <=> OneStep(g) BY <1>1 DEF IsSortLoop
<1> HIDE DEF OneStep
<1>5. IsSortLoop(loop, c, n, start) BY <1>3, <1>4
<1> HIDE DEF loop
<1>6. HasRounds(loop, c, n, start) BY <1>5, RoundsOfLoop
<1>7. loop[0] = [a |-> s, delta |-> n \div 2] BY <1>6 DEF HasRounds, start
<1>8. \A k \in 1 .. n : loop[k] = ShellRound(loop[k - 1]) BY <1>1, <1>6 DEF HasRounds
<1> QED BY <1>2, <1>7, <1>8

\* The distance halves, and the round at distance 1 leaves the array in order.
ShellOk(s, r, n, k) ==
  /\ Shuffled(s, r.a, n, 0, n - 1) /\ r.delta \in Nat
  /\ r.delta = 0 \/ r.delta <= n - k
  /\ r.delta = 0 => Ordered(r.a, 0, n - 1)

LEMMA ShellRoundOk ==
  ASSUME NEW s, NEW r, NEW n \in Nat, NEW k \in 0 .. n - 1, ShellOk(s, r, n, k)
  PROVE  ShellOk(s, ShellRound(r), n, k + 1)
<1>1. PICK d \in Nat : d = r.delta BY DEF ShellOk
<1>2. CASE d = 0
  <2>1. ShellRound(r) = r BY <1>1, <1>2 DEF ShellRound
  <2> QED BY <1>1, <1>2, <2>1 DEF ShellOk
<1>3. CASE d # 0
  <2> DEFINE u == InsertFrom(r.a, d)
  <2>1. ShellRound(r) = [a |-> u, delta |-> d \div 2]
    <3>1. r.delta > 0 BY <1>1, <1>3
    <3> QED BY <1>1, <3>1 DEF ShellRound
  <2>2. d \in Nat \ {0} /\ IsArray(r.a, n) BY <1>3 DEF ShellOk, Shuffled
  <2>3. Shuffled(r.a, u, n, 0, n - 1) /\ (d = 1 => Ordered(u, 0, n - 1)) BY <2>2, InsertFromOk
  <2> HIDE DEF u
  <2>4. Shuffled(s, u, n, 0, n - 1) BY <2>3, ShuffledTwice DEF ShellOk
  <2>5. d \div 2 \in Nat /\ d \div 2 < d /\ (d \div 2 = 0 => d = 1) BY <1>3
  <2>6. d <= n - k BY <1>1, <1>3 DEF ShellOk
  <2>7. d \div 2 <= n - (k + 1) BY <2>5, <2>6
  <2> QED BY <2>1, <2>3, <2>4, <2>5, <2>7 DEF ShellOk
<1> QED BY <1>2, <1>3

LEMMA ShellSortSorts ==
  ASSUME NEW s, NEW n, IsArray(s, n)
  PROVE  SortedFrom(s, ShellSort(s), n)
<1>0. n \in Nat /\ ArrayLength(s) = n BY LengthIs DEF IsArray
<1>1. PICK f : /\ ShellSort(s) = f[n].a /\ f[0] = [a |-> s, delta |-> n \div 2]
               /\ \A k \in 1 .. n : f[k] = ShellRound(f[k - 1])
  BY <1>0, ShellRounds
<1> DEFINE P == {k \in 0 .. n : ShellOk(s, f[k], n, k)}
<1>2. 0 \in P
  <2>1. f[0].a = s /\ f[0].delta = n \div 2 BY <1>1
  <2>2. Shuffled(s, s, n, 0, n - 1) BY NotShuffled
  <2>3. n \div 2 \in Nat /\ n \div 2 <= n - 0 /\ (n \div 2 = 0 => n = 0 \/ n = 1) BY <1>0
  <2>4. ASSUME n \div 2 = 0 PROVE Ordered(s, 0, n - 1)
    <3>1. \A x, y \in 0 .. n - 1 : x = y BY <2>3, <2>4
    <3>2. \A x \in 0 .. n - 1 : s[x] \in Int BY DEF IsArray
    <3>3. \A x, y \in 0 .. n - 1 : s[x] <= s[y] BY <3>1, <3>2
    <3> QED BY <3>3 DEF Ordered
  <2>5. ShellOk(s, f[0], n, 0) BY <2>1, <2>2, <2>3, <2>4 DEF ShellOk
  <2> QED BY <1>0, <2>5
<1>3. ASSUME NEW k \in 0 .. n - 1, k \in P PROVE k + 1 \in P
  <2>1. k + 1 \in 1 .. n /\ k + 1 \in 0 .. n /\ (k + 1) - 1 = k BY <1>0
  <2>2. f[k + 1] = ShellRound(f[k]) BY <1>1, <2>1
  <2>3. ShellOk(s, f[k], n, k) BY <1>3
  <2>4. ShellOk(s, f[k + 1], n, k + 1) BY <1>0, <2>2, <2>3, ShellRoundOk
  <2> QED BY <2>1, <2>4
<1>4. n \in P
  <2> HIDE DEF P
  <2>1. \A k \in 0 .. n : k \in P BY <1>0, <1>2, <1>3, UpToInduction
  <2> QED BY <1>0, <2>1
<1>5. ShellOk(s, f[n], n, n) BY <1>4
<1>6. Ordered(f[n].a, 0, n - 1)
  <2>1. f[n].delta = 0 BY <1>0, <1>5 DEF ShellOk
  <2> QED BY <1>5, <2>1 DEF ShellOk
<1> QED BY <1>1, <1>5, <1>6 DEF ShellOk, SortedFrom

-----------------------------------------------------------------------------
(* BinaryInsertSort. *)

LEMMA NarrowRounds ==
  ASSUME NEW s, NEW i \in Nat
  PROVE  \E f : /\ InsertPoint(s, i) = f[i].left /\ f[0] = [left |-> 0, right |-> i - 1]
                /\ \A k \in 1 .. i : f[k] = Narrowed(f[k - 1], s, s[i])
<1> DEFINE start == [left |-> 0, right |-> i - 1]
           c == [loop |-> "narrow", s |-> s, base |-> s[i]]
           OneStep(f) == f = [k \in 0 .. i |-> IF k = 0 THEN start ELSE Narrowed(f[k - 1], s, s[i])]
           loop == CHOOSE f : OneStep(f)
<1>1. \A r, k : RoundOf(c, r, k) = Narrowed(r, s, s[i]) BY DEF RoundOf
<1>2. InsertPoint(s, i) = loop[i].left BY DEF InsertPoint
<1> HIDE DEF c, start
<1>3. PICK f : IsSortLoop(f, c, i, start) BY SortLoopExists
<1>4. \A g : IsSortLoop(g, c, i, start) <=> OneStep(g) BY <1>1 DEF IsSortLoop
<1> HIDE DEF OneStep
<1>5. IsSortLoop(loop, c, i, start) BY <1>3, <1>4
<1> HIDE DEF loop
<1>6. HasRounds(loop, c, i, start) BY <1>5, RoundsOfLoop
<1>7. loop[0] = [left |-> 0, right |-> i - 1] BY <1>6 DEF HasRounds, start
<1>8. \A k \in 1 .. i : loop[k] = Narrowed(loop[k - 1], s, s[i]) BY <1>1, <1>6 DEF HasRounds
<1> QED BY <1>2, <1>7, <1>8

LEMMA InsertPointWithin ==
  ASSUME NEW s, NEW i \in Nat
  PROVE  InsertPoint(s, i) \in 0 .. i
<1>1. PICK f : /\ InsertPoint(s, i) = f[i].left /\ f[0] = [left |-> 0, right |-> i - 1]
               /\ \A k \in 1 .. i : f[k] = Narrowed(f[k - 1], s, s[i])
  BY NarrowRounds
<1> DEFINE Part == [left : 0 .. i, right : -1 .. i - 1]
           P == {k \in 0 .. i : f[k] \in Part}
<1>2. 0 \in P BY <1>1
<1>3. ASSUME NEW k \in 0 .. i - 1, k \in P PROVE k + 1 \in P
  <2>1. k + 1 \in 1 .. i /\ k + 1 \in 0 .. i /\ (k + 1) - 1 = k OBVIOUS
  <2>2. f[k + 1] = Narrowed(f[k], s, s[i]) BY <1>1, <2>1
  <2>3. PICK r \in Part : r = f[k] BY <1>3
  <2> DEFINE mid == (r.left + r.right) \div 2
  <2>4. Narrowed(r, s, s[i]) \in Part
    <3>1. CASE r.left >= r.right BY <3>1 DEF Narrowed
    <3>2. CASE ~ (r.left >= r.right)
      <4>1. r.left \in 0 .. i /\ r.right \in -1 .. i - 1 OBVIOUS
      <4>2. mid \in 0 .. i - 1 /\ mid + 1 \in 0 .. i /\ mid - 1 \in -1 .. i - 1 BY <3>2, <4>1
      <4>3. [r EXCEPT !.right = mid - 1] \in Part /\ [r EXCEPT !.left = mid + 1] \in Part BY <4>2
      <4>4. \/ Narrowed(r, s, s[i]) = [r EXCEPT !.right = mid - 1]
            \/ Narrowed(r, s, s[i]) = [r EXCEPT !.left = mid + 1]
        BY <3>2 DEF Narrowed
      <4> HIDE DEF mid, Part
      <4> QED BY <4>3, <4>4
    <3> QED BY <3>1, <3>2
  <2> HIDE DEF Part
  <2> QED BY <2>1, <2>2, <2>3, <2>4
<1>4. i \in P
  <2> HIDE DEF P
  <2>1. \A k \in 0 .. i : k \in P BY <1>2, <1>3, UpToInduction
  <2> QED BY <2>1
<1> QED BY <1>1, <1>4

LEMMA BinaryInsertOk ==
  ASSUME NEW s, NEW n, IsArray(s, n), NEW i \in 0 .. n - 1
  PROVE  Shuffled(s, BinaryInsert(s, i), n, 0, n - 1)
<1>1. PICK q \in 0 .. i : q = InsertPoint(s, i)
  <2>1. i \in Nat BY DEF IsArray
  <2> QED BY <2>1, InsertPointWithin
<1>2. n \in Nat /\ DOMAIN s = 0 .. n - 1 BY DEF IsArray
<1> DEFINE m == [x \in 0 .. n - 1 |-> IF x = q THEN i ELSE IF x \in (q + 1) .. i THEN x - 1 ELSE x]
           t == [x \in 0 .. n - 1 |-> IF x = q THEN s[i] ELSE IF x \in (q + 1) .. i THEN s[x - 1] ELSE s[x]]
<1>3. BinaryInsert(s, i) = t BY <1>1, <1>2 DEF BinaryInsert
<1>4. \A x \in 0 .. n - 1 : m[x] = IF x = q THEN i ELSE IF x \in (q + 1) .. i THEN x - 1 ELSE x
  OBVIOUS
<1>5. \A x \in 0 .. n - 1 :
        t[x] = IF x = q THEN s[i] ELSE IF x \in (q + 1) .. i THEN s[x - 1] ELSE s[x]
  OBVIOUS
<1>6. \A x \in 0 .. n - 1 : t[x] = s[m[x]] BY <1>4, <1>5
<1>7. \A x \in 0 .. n - 1 : m[x] \in 0 .. n - 1 BY <1>2, <1>4
<1>8. m \in [0 .. n - 1 -> 0 .. n - 1] BY <1>7
<1>9. t = [x \in 0 .. n - 1 |-> t[x]] OBVIOUS
<1> HIDE DEF m, t
<1>10. IsArray(t, n)
  <2>1. \A x \in 0 .. n - 1 : s[x] \in Int BY DEF IsArray
  <2>2. \A x \in 0 .. n - 1 : t[x] \in Int BY <1>6, <1>7, <2>1
  <2> QED BY <1>2, <1>9, <2>2 DEF IsArray
<1>11. \A x, y \in 0 .. n - 1 : m[x] = m[y] => x = y BY <1>2, <1>4
<1>12. ASSUME NEW y \in 0 .. n - 1 PROVE \E x \in 0 .. n - 1 : m[x] = y
  <2>1. CASE y = i
    <3>1. q \in 0 .. n - 1 BY <1>2
    <3> QED BY <1>4, <2>1, <3>1
  <2>2. CASE y \in q .. (i - 1)
    <3>1. y + 1 \in 0 .. n - 1 /\ y + 1 # q /\ y + 1 \in (q + 1) .. i /\ (y + 1) - 1 = y BY <1>2, <2>2
    <3> QED BY <1>4, <3>1
  <2>3. CASE y # i /\ y \notin q .. (i - 1) BY <1>2, <1>4, <2>3
  <2> QED BY <2>1, <2>2, <2>3
<1>13. \A x \in 0 .. n - 1 : IF x \in 0 .. n - 1 THEN m[x] \in 0 .. n - 1 ELSE m[x] = x BY <1>7
<1>14. Moves(m, s, t, n, 0, n - 1) BY <1>6, <1>8, <1>11, <1>12, <1>13 DEF Moves
<1> QED BY <1>3, <1>10, <1>14 DEF Shuffled

LEMMA BinaryRounds ==
  ASSUME NEW s, NEW n \in Nat, ArrayLength(s) = n
  PROVE  \E f : /\ BinaryInsertSort(s) = f[n] /\ f[0] = s
                /\ \A k \in 1 .. n : f[k] = BinaryInsert(f[k - 1], k - 1)
<1> DEFINE c == [loop |-> "binary"]
           OneStep(f) == f = [k \in 0 .. n |-> IF k = 0 THEN s ELSE BinaryInsert(f[k - 1], k - 1)]
           loop == CHOOSE f : OneStep(f)
<1>1. \A r, k : RoundOf(c, r, k) = BinaryInsert(r, k - 1) BY DEF RoundOf
<1>2. BinaryInsertSort(s) = loop[n] BY DEF BinaryInsertSort
<1> HIDE DEF c
<1>3. PICK f : IsSortLoop(f, c, n, s) BY SortLoopExists
<1>4. \A g : IsSortLoop(g, c, n, s) <=> OneStep(g) BY <1>1 DEF IsSortLoop
<1> HIDE DEF OneStep
<1>5. IsSortLoop(loop, c, n, s) BY <1>3, <1>4
<1> HIDE DEF loop
<1>6. HasRounds(loop, c, n, s) BY <1>5, RoundsOfLoop
<1>7. loop[0] = s BY <1>6 DEF HasRounds
<1>8. \A k \in 1 .. n : loop[k] = BinaryInsert(loop[k - 1], k - 1) BY <1>1, <1>6 DEF HasRounds
<1> QED BY <1>2, <1>7, <1>8

LEMMA BinaryInsertSortKeeps ==
  ASSUME NEW s, NEW n, IsArray(s, n)
  PROVE  Shuffled(s, BinaryInsertSort(s), n, 0, n - 1)
<1>0. n \in Nat /\ ArrayLength(s) = n BY LengthIs DEF IsArray
<1>1. PICK f : /\ BinaryInsertSort(s) = f[n] /\ f[0] = s
               /\ \A k \in 1 .. n : f[k] = BinaryInsert(f[k - 1], k - 1)
  BY <1>0, BinaryRounds
<1> DEFINE P == {k \in 0 .. n : Shuffled(s, f[k], n, 0, n - 1)}
<1>2. 0 \in P BY <1>0, <1>1, NotShuffled
<1>3. ASSUME NEW k \in 0 .. n - 1, k \in P PROVE k + 1 \in P
  <2>1. k + 1 \in 1 .. n /\ k + 1 \in 0 .. n /\ (k + 1) - 1 = k BY <1>0
  <2>2. f[k + 1] = BinaryInsert(f[k], k) BY <1>1, <2>1
  <2>3. Shuffled(s, f[k], n, 0, n - 1) BY <1>3
  <2>4. IsArray(f[k], n) BY <2>3 DEF Shuffled
  <2>5. Shuffled(f[k], f[k + 1], n, 0, n - 1) BY <2>2, <2>4, BinaryInsertOk
  <2>6. Shuffled(s, f[k + 1], n, 0, n - 1) BY <2>3, <2>5, ShuffledTwice
  <2> QED BY <2>1, <2>6
<1>4. n \in P
  <2> HIDE DEF P
  <2>1. \A k \in 0 .. n : k \in P BY <1>0, <1>2, <1>3, UpToInduction
  <2> QED BY <1>0, <2>1
<1> QED BY <1>1, <1>4

-----------------------------------------------------------------------------
(* SimpleSelectSort. *)

\* The index of a least element of a part of an array.
Least(s, j, lo, hi) == j \in lo .. hi /\ \A k \in lo .. hi : s[j] <= s[k]

LEMMA LeastExists ==
  ASSUME NEW s, NEW n, IsArray(s, n), NEW i \in 0 .. n - 1
  PROVE  \E j : Least(s, j, i, n - 1)
<1>1. n \in Nat /\ \A x \in 0 .. n - 1 : s[x] \in Int BY DEF IsArray
<1> DEFINE m == (n - 1) - i
           P == {k \in 0 .. m : \E j : Least(s, j, i, i + k)}
<1>2. m \in Nat /\ i + m = n - 1 /\ i + 0 = i BY <1>1
<1>3. 0 \in P
  <2>1. Least(s, i, i, i + 0) BY <1>1 DEF Least
  <2> QED BY <1>2, <2>1
<1>4. ASSUME NEW k \in 0 .. m - 1, k \in P PROVE k + 1 \in P
  <2>0. k + 1 \in 0 .. m BY <1>2
  <2>1. PICK j : Least(s, j, i, i + k) BY <1>4
  <2>2. PICK h \in 0 .. n - 1 : h = i + (k + 1) /\ h \in i .. h BY <1>1, <1>2
  <2>3. \A x \in i .. h : x \in 0 .. n - 1 /\ (x = h \/ x \in i .. (i + k)) BY <1>1, <2>2
  <2>4. j \in i .. h /\ j \in 0 .. n - 1 BY <1>1, <2>1, <2>2 DEF Least
  <2>5. CASE s[j] <= s[h]
    <3>1. Least(s, j, i, h) BY <2>1, <2>3, <2>4, <2>5 DEF Least
    <3> QED BY <2>0, <2>2, <3>1
  <2>6. CASE ~ (s[j] <= s[h])
    <3>1. s[h] <= s[j] /\ s[h] \in Int /\ s[j] \in Int BY <1>1, <2>4, <2>6
    <3>2. ASSUME NEW x \in i .. h PROVE s[h] <= s[x]
      <4>1. x \in 0 .. n - 1 /\ s[x] \in Int BY <1>1, <2>3
      <4>2. CASE x = h BY <3>1, <4>2
      <4>3. CASE x # h
        <5>1. s[j] <= s[x] BY <2>1, <2>3, <4>3 DEF Least
        <5> QED BY <3>1, <4>1, <5>1
      <4> QED BY <4>2, <4>3
    <3>3. Least(s, h, i, h) BY <2>2, <3>2 DEF Least
    <3> QED BY <2>0, <2>2, <3>3
  <2> QED BY <2>5, <2>6
<1>5. m \in P
  <2>1. m \in 0 .. m BY <1>2
  <2> HIDE DEF P, m
  <2>2. \A k \in 0 .. m : k \in P BY <1>2, <1>3, <1>4, UpToInduction
  <2> QED BY <2>1, <2>2
<1> QED BY <1>2, <1>5

LEMMA MinIndexIs ==
  ASSUME NEW s, NEW n, IsArray(s, n), NEW i \in 0 .. n - 1
  PROVE  Least(s, MinIndex(s, i), i, n - 1)
<1> DEFINE rest == i .. (n - 1)
           S == {j \in rest : \A k \in rest : s[j] <= s[k]}
<1>1. n \in Nat /\ ArrayLength(s) = n BY LengthIs DEF IsArray
<1>2. MinIndex(s, i) = Min(S) BY <1>1 DEF MinIndex
<1>3. S \in SUBSET Nat BY <1>1
<1>4. S # {}
  <2>1. PICK j : Least(s, j, i, n - 1) BY LeastExists
  <2> QED BY <2>1 DEF Least
<1>5. \A j \in S : Least(s, j, i, n - 1) BY DEF Least
<1> HIDE DEF S
<1> QED BY <1>2, <1>3, <1>4, <1>5, MinIs

\* The first k elements are in their places.
SelectOk(s, t, n, k) ==
  /\ Shuffled(s, t, n, 0, n - 1)
  /\ \A x, y \in 0 .. n - 1 : x < k /\ x <= y => t[x] <= t[y]

LEMMA SelectedOk ==
  ASSUME NEW s, NEW t, NEW n \in Nat, NEW k \in 0 .. n - 1, SelectOk(s, t, n, k)
  PROVE  SelectOk(s, Selected(t, k), n, k + 1)
<1>1. IsArray(t, n) BY DEF SelectOk, Shuffled
<1>2. \A x \in 0 .. n - 1 : t[x] \in Int BY <1>1 DEF IsArray
<1>3. PICK m \in 0 .. n - 1 : m = MinIndex(t, k) /\ k <= m /\ \A x \in k .. n - 1 : t[m] <= t[x]
  <2>1. Least(t, MinIndex(t, k), k, n - 1) BY <1>1, MinIndexIs
  <2> QED BY <2>1 DEF Least
<1> DEFINE u == Swap(t, k, m)
<1>4. Selected(t, k) = u BY <1>3 DEF Selected
<1>5. Shuffled(t, u, n, 0, n - 1) BY <1>1, SwapShuffles
<1>6. \A x \in 0 .. n - 1 : u[x] = IF x = m THEN t[k] ELSE IF x = k THEN t[m] ELSE t[x]
  BY <1>1 DEF Swap, IsArray
<1> HIDE DEF u
<1>7. Shuffled(s, u, n, 0, n - 1) BY <1>5, ShuffledTwice DEF SelectOk
<1>8. ASSUME NEW x \in 0 .. n - 1, NEW y \in 0 .. n - 1, x < k + 1, x <= y PROVE u[x] <= u[y]
  <2>1. PICK z \in 0 .. n - 1 : u[y] = t[z] /\ x <= z BY <1>3, <1>6, <1>8
  <2>2. CASE x = k
    <3>1. u[x] = t[m] BY <1>6, <2>2
    <3>2. z \in k .. n - 1 BY <2>1, <2>2
    <3> QED BY <1>3, <2>1, <3>1, <3>2
  <2>3. CASE x # k
    <3>1. x < k /\ x # m BY <1>3, <1>8, <2>3
    <3>2. u[x] = t[x] BY <1>6, <2>3, <3>1
    <3> QED BY <2>1, <3>1, <3>2 DEF SelectOk
  <2> QED BY <2>2, <2>3
<1> QED BY <1>4, <1>7, <1>8 DEF SelectOk

LEMMA SelectRounds ==
  ASSUME NEW s, NEW n \in Nat, ArrayLength(s) = n
  PROVE  \E f : /\ SelectSort(s) = f[n] /\ f[0] = s
                /\ \A k \in 1 .. n : f[k] = Selected(f[k - 1], k - 1)
<1> DEFINE c == [loop |-> "select"]
           OneStep(f) == f = [k \in 0 .. n |-> IF k = 0 THEN s ELSE Selected(f[k - 1], k - 1)]
           loop == CHOOSE f : OneStep(f)
<1>1. \A r, k : RoundOf(c, r, k) = Selected(r, k - 1) BY DEF RoundOf
<1>2. SelectSort(s) = loop[n] BY DEF SelectSort
<1> HIDE DEF c
<1>3. PICK f : IsSortLoop(f, c, n, s) BY SortLoopExists
<1>4. \A g : IsSortLoop(g, c, n, s) <=> OneStep(g) BY <1>1 DEF IsSortLoop
<1> HIDE DEF OneStep
<1>5. IsSortLoop(loop, c, n, s) BY <1>3, <1>4
<1> HIDE DEF loop
<1>6. HasRounds(loop, c, n, s) BY <1>5, RoundsOfLoop
<1>7. loop[0] = s BY <1>6 DEF HasRounds
<1>8. \A k \in 1 .. n : loop[k] = Selected(loop[k - 1], k - 1) BY <1>1, <1>6 DEF HasRounds
<1> QED BY <1>2, <1>7, <1>8

LEMMA SelectSortSorts ==
  ASSUME NEW s, NEW n, IsArray(s, n)
  PROVE  SortedFrom(s, SelectSort(s), n)
<1>0. n \in Nat /\ ArrayLength(s) = n BY LengthIs DEF IsArray
<1>1. PICK f : /\ SelectSort(s) = f[n] /\ f[0] = s
               /\ \A k \in 1 .. n : f[k] = Selected(f[k - 1], k - 1)
  BY <1>0, SelectRounds
<1> DEFINE P == {k \in 0 .. n : SelectOk(s, f[k], n, k)}
<1>2. 0 \in P
  <2>1. Shuffled(s, f[0], n, 0, n - 1) BY <1>1, NotShuffled
  <2>2. \A x \in 0 .. n - 1 : ~ (x < 0) BY <1>0
  <2> QED BY <1>0, <2>1, <2>2 DEF SelectOk
<1>3. ASSUME NEW k \in 0 .. n - 1, k \in P PROVE k + 1 \in P
  <2>1. k + 1 \in 1 .. n /\ k + 1 \in 0 .. n /\ (k + 1) - 1 = k BY <1>0
  <2>2. f[k + 1] = Selected(f[k], k) BY <1>1, <2>1
  <2>3. SelectOk(s, f[k], n, k) BY <1>3
  <2>4. SelectOk(s, f[k + 1], n, k + 1) BY <1>0, <2>2, <2>3, SelectedOk
  <2> QED BY <2>1, <2>4
<1>4. n \in P
  <2> HIDE DEF P
  <2>1. \A k \in 0 .. n : k \in P BY <1>0, <1>2, <1>3, UpToInduction
  <2> QED BY <1>0, <2>1
<1>5. SelectOk(s, f[n], n, n) BY <1>4
<1>6. \A x \in 0 .. n - 1 : x < n BY <1>0
<1> QED BY <1>1, <1>5, <1>6 DEF SelectOk, SortedFrom, Ordered

-----------------------------------------------------------------------------
(* MergeSort.merge. *)

\* s with tmp written back to left .. right.
WrittenBack(s, left, right, tmp) ==
  [k \in DOMAIN s |-> IF k \in left .. right THEN tmp[k - left + 1] ELSE s[k]]

MergeLoop(f, s, left, mid, right) ==
  /\ Merge(s, left, mid, right) = WrittenBack(s, left, right, f[right - left + 1].tmp)
  /\ f[0] = [i |-> left, j |-> mid + 1, tmp |-> <<>>]
  /\ \A k \in 1 .. (right - left + 1) : f[k] = MergeStep(f[k - 1], s, mid, right)

LEMMA MergeRounds ==
  ASSUME NEW s, NEW left \in Int, NEW mid \in Int, NEW right \in Int, left <= right
  PROVE  \E f : MergeLoop(f, s, left, mid, right)
<1> DEFINE n == right - left + 1
           start == [i |-> left, j |-> mid + 1, tmp |-> <<>>]
           c == [loop |-> "merge", s |-> s, mid |-> mid, right |-> right]
           OneStep(f) == f = [k \in 0 .. n |-> IF k = 0 THEN start ELSE MergeStep(f[k - 1], s, mid, right)]
           loop == CHOOSE f : OneStep(f)
<1>0. n \in Nat OBVIOUS
<1>1. \A r, k : RoundOf(c, r, k) = MergeStep(r, s, mid, right) BY DEF RoundOf
<1>2. Merge(s, left, mid, right) = WrittenBack(s, left, right, loop[n].tmp)
  BY DEF Merge, WrittenBack
<1> HIDE DEF c, start
<1>3. PICK f : IsSortLoop(f, c, n, start) BY <1>0, SortLoopExists
<1>4. \A g : IsSortLoop(g, c, n, start) <=> OneStep(g) BY <1>1 DEF IsSortLoop
<1> HIDE DEF OneStep
<1>5. IsSortLoop(loop, c, n, start) BY <1>3, <1>4
<1> HIDE DEF loop
<1>6. HasRounds(loop, c, n, start) BY <1>0, <1>5, RoundsOfLoop
<1>7. loop[0] = [i |-> left, j |-> mid + 1, tmp |-> <<>>] BY <1>6 DEF HasRounds, start
<1>8. \A k \in 1 .. n : loop[k] = MergeStep(loop[k - 1], s, mid, right) BY <1>1, <1>6 DEF HasRounds
<1>9. MergeLoop(loop, s, left, mid, right) BY <1>2, <1>7, <1>8 DEF MergeLoop
<1> QED BY <1>9

\* o tells where in s, among the indices in Out, each element of tmp stood.
Origin(o, tmp, s, Out, k) ==
  /\ o \in [1 .. k -> Out]
  /\ \A x, y \in 1 .. k : o[x] = o[y] => x = y
  /\ \A y \in Out : \E x \in 1 .. k : o[x] = y
  /\ \A x \in 1 .. k : tmp[x] = s[o[x]]

\* tmp is what stood in Out, in order, and what is left of left .. right is not less.
TakenOk(tmp, s, Out, left, right, k) ==
  /\ tmp \in Seq(Int) /\ Len(tmp) = k /\ k \in Nat
  /\ Out \subseteq left .. right
  /\ \E o : Origin(o, tmp, s, Out, k)
  /\ \A x, y \in 1 .. k : x <= y => tmp[x] <= tmp[y]
  /\ \A x \in 1 .. k, y \in (left .. right) \ Out : tmp[x] <= s[y]

LEMMA TakeNext ==
  ASSUME NEW tmp, NEW s, NEW Out, NEW left \in Int, NEW right \in Int, NEW k,
         TakenOk(tmp, s, Out, left, right, k), NEW h \in left .. right, h \notin Out, s[h] \in Int,
         \A y \in (left .. right) \ Out : s[h] <= s[y]
  PROVE  TakenOk(Append(tmp, s[h]), s, Out \cup {h}, left, right, k + 1)
<1> DEFINE u == Append(tmp, s[h])
           V1 == Out \cup {h}
<1>1. tmp \in Seq(Int) /\ Len(tmp) = k /\ k \in Nat BY DEF TakenOk
<1>2. u \in Seq(Int) /\ Len(u) = k + 1 /\ \A x \in 1 .. k + 1 : u[x] = IF x = k + 1 THEN s[h] ELSE tmp[x]
  BY <1>1
<1>3. PICK o : Origin(o, tmp, s, Out, k) BY DEF TakenOk
<1> DEFINE q == [x \in 1 .. k + 1 |-> IF x = k + 1 THEN h ELSE o[x]]
<1>4. \A x \in 1 .. k + 1 : q[x] = IF x = k + 1 THEN h ELSE o[x] OBVIOUS
<1>5. \A x \in 1 .. k + 1 : x # k + 1 => x \in 1 .. k BY <1>1
<1>6. \A x \in 1 .. k : x \in 1 .. k + 1 /\ x # k + 1 /\ o[x] \in Out BY <1>1, <1>3 DEF Origin
<1>7. \A x \in 1 .. k + 1 : q[x] \in V1 BY <1>4, <1>5, <1>6
<1>8. q \in [1 .. k + 1 -> V1] BY <1>7
<1> HIDE DEF u, q
<1>9. ASSUME NEW x \in 1 .. k + 1, NEW y \in 1 .. k + 1, q[x] = q[y] PROVE x = y
  <2>1. CASE x = k + 1 \/ y = k + 1 BY <1>4, <1>5, <1>6, <1>9, <2>1
  <2>2. CASE x # k + 1 /\ y # k + 1
    <3>1. o[x] = o[y] /\ x \in 1 .. k /\ y \in 1 .. k BY <1>4, <1>5, <1>9, <2>2
    <3> QED BY <1>3, <3>1 DEF Origin
  <2> QED BY <2>1, <2>2
<1>10. ASSUME NEW y \in V1 PROVE \E x \in 1 .. k + 1 : q[x] = y
  <2>1. CASE y = h
    <3>1. k + 1 \in 1 .. k + 1 BY <1>1
    <3> QED BY <1>4, <2>1, <3>1
  <2>2. CASE y \in Out
    <3>1. PICK x \in 1 .. k : o[x] = y BY <1>3, <2>2 DEF Origin
    <3> QED BY <1>4, <1>6, <3>1
  <2> QED BY <2>1, <2>2
<1>11. ASSUME NEW x \in 1 .. k + 1 PROVE u[x] = s[q[x]]
  <2>1. CASE x = k + 1 BY <1>2, <1>4, <2>1
  <2>2. CASE x # k + 1
    <3>1. x \in 1 .. k BY <1>5, <2>2
    <3>2. tmp[x] = s[o[x]] BY <1>3, <3>1 DEF Origin
    <3> QED BY <1>2, <1>4, <2>2, <3>2
  <2> QED BY <2>1, <2>2
<1>12. Origin(q, u, s, V1, k + 1) BY <1>8, <1>9, <1>10, <1>11 DEF Origin
<1>13. \A x \in 1 .. k : tmp[x] <= s[h] BY DEF TakenOk
<1>14. ASSUME NEW x \in 1 .. k + 1, NEW y \in 1 .. k + 1, x <= y PROVE u[x] <= u[y]
  <2>1. CASE x = k + 1
    <3>1. y = k + 1 BY <1>1, <1>14, <2>1
    <3> QED BY <1>2, <2>1, <3>1
  <2>2. CASE x # k + 1 /\ y = k + 1 BY <1>2, <1>5, <1>13, <2>2
  <2>3. CASE x # k + 1 /\ y # k + 1
    <3>1. x \in 1 .. k /\ y \in 1 .. k BY <1>5, <2>3
    <3>2. tmp[x] <= tmp[y] BY <1>14, <3>1 DEF TakenOk
    <3> QED BY <1>2, <2>3, <3>2
  <2> QED BY <2>1, <2>2, <2>3
<1>15. ASSUME NEW x \in 1 .. k + 1, NEW y \in (left .. right) \ V1 PROVE u[x] <= s[y]
  <2>1. y \in (left .. right) \ Out OBVIOUS
  <2>2. CASE x = k + 1 BY <1>2, <2>1, <2>2
  <2>3. CASE x # k + 1
    <3>1. x \in 1 .. k BY <1>5, <2>3
    <3>2. tmp[x] <= s[y] BY <2>1, <3>1 DEF TakenOk
    <3> QED BY <1>2, <2>3, <3>2
  <2> QED BY <2>2, <2>3
<1>16. V1 \subseteq left .. right BY DEF TakenOk
<1> HIDE DEF V1
<1>17. TakenOk(u, s, V1, left, right, k + 1)
  BY <1>1, <1>2, <1>12, <1>14, <1>15, <1>16 DEF TakenOk
<1> QED BY <1>17 DEF u, V1

\* The indices whose elements have been taken.
Used(i, j, left, mid, right) == {y \in left .. right : y < i \/ (mid < y /\ y < j)}

MergeOk(m, s, left, mid, right, k) ==
  /\ m \in [i : left .. mid + 1, j : mid + 1 .. right + 1, tmp : Seq(Int)]
  /\ (m.i - left) + (m.j - (mid + 1)) = k
  /\ TakenOk(m.tmp, s, Used(m.i, m.j, left, mid, right), left, right, k)

LEMMA MergeOkIs ==
  ASSUME NEW s, NEW left, NEW mid, NEW right, NEW k, NEW i \in left .. mid + 1,
         NEW j \in mid + 1 .. right + 1, NEW tmp \in Seq(Int), (i - left) + (j - (mid + 1)) = k,
         TakenOk(tmp, s, Used(i, j, left, mid, right), left, right, k)
  PROVE  MergeOk([i |-> i, j |-> j, tmp |-> tmp], s, left, mid, right, k)
BY DEF MergeOk

\* An array with its two halves in order.
Halves(s, n, left, mid, right) ==
  /\ IsArray(s, n) /\ left \in Int /\ mid \in Int /\ right \in Int
  /\ 0 <= left /\ left <= mid /\ mid < right /\ right <= n - 1
  /\ Ordered(s, left, mid) /\ Ordered(s, mid + 1, right)

LEMMA TakenNextOk ==
  ASSUME NEW s, NEW n, NEW left, NEW mid, NEW right, Halves(s, n, left, mid, right),
         NEW k \in 0 .. (right - left), NEW m, MergeOk(m, s, left, mid, right, k)
  PROVE  MergeOk(MergeStep(m, s, mid, right), s, left, mid, right, k + 1)
<1>0. /\ left \in Int /\ mid \in Int /\ right \in Int /\ n \in Nat
      /\ 0 <= left /\ left <= mid /\ mid < right /\ right <= n - 1
  BY DEF Halves, IsArray
<1>1. PICK i \in left .. mid + 1, j \in mid + 1 .. right + 1 : m.i = i /\ m.j = j BY DEF MergeOk
<1>2. (i - left) + (j - (mid + 1)) = k BY <1>1 DEF MergeOk
<1>3. \A x \in left .. right : s[x] \in Int /\ x \in Int
  <2>1. \A x \in 0 .. n - 1 : s[x] \in Int BY DEF Halves, IsArray
  <2>2. \A x \in left .. right : x \in 0 .. n - 1 BY <1>0
  <2> QED BY <2>1, <2>2
<1> DEFINE Out == Used(i, j, left, mid, right)
<1>4. TakenOk(m.tmp, s, Out, left, right, k) BY <1>1 DEF MergeOk
<1>5. \A y \in (left .. right) \ Out : y \in i .. mid \/ y \in j .. right BY <1>0 DEF Used
<1>6. ASSUME NEW y \in i .. mid, i <= mid PROVE s[i] <= s[y]
  <2>1. i \in left .. mid /\ y \in left .. mid /\ i <= y BY <1>0, <1>6
  <2> QED BY <2>1 DEF Halves, Ordered
<1>7. ASSUME NEW y \in j .. right, j <= right PROVE s[j] <= s[y]
  <2>1. j \in mid + 1 .. right /\ y \in mid + 1 .. right /\ j <= y BY <1>0, <1>7
  <2> QED BY <2>1 DEF Halves, Ordered
<1>8. m = [i |-> i, j |-> j, tmp |-> m.tmp] /\ m.tmp \in Seq(Int) BY <1>1 DEF MergeOk
<1>9. CASE i <= mid /\ (j > right \/ s[i] <= s[j])
  <2>1. i \in left .. right /\ i \notin Out /\ s[i] \in Int BY <1>0, <1>3, <1>9 DEF Used
  <2>2. ASSUME NEW y \in (left .. right) \ Out PROVE s[i] <= s[y]
    <3>1. CASE y \in i .. mid BY <1>6, <1>9, <3>1
    <3>2. CASE y \in j .. right
      <4>1. j <= right /\ j \in left .. right BY <1>0, <3>2
      <4>2. s[j] <= s[y] BY <1>7, <3>2, <4>1
      <4>3. s[i] <= s[j] BY <1>0, <1>9, <4>1
      <4>4. s[j] \in Int /\ s[y] \in Int BY <1>3, <4>1
      <4> QED BY <2>1, <4>2, <4>3, <4>4
    <3> QED BY <1>5, <3>1, <3>2
  <2>3. TakenOk(Append(m.tmp, s[i]), s, Out \cup {i}, left, right, k + 1)
    <3> HIDE DEF Out
    <3> QED BY <1>0, <1>4, <2>1, <2>2, TakeNext
  <2>4. Out \cup {i} = Used(i + 1, j, left, mid, right) BY <1>0, <1>9 DEF Used
  <2>5. MergeStep(m, s, mid, right) = [i |-> i + 1, j |-> j, tmp |-> Append(m.tmp, s[i])]
    BY <1>1, <1>8, <1>9 DEF MergeStep
  <2>6. i + 1 \in left .. mid + 1 /\ ((i + 1) - left) + (j - (mid + 1)) = k + 1
    BY <1>0, <1>2, <1>9
  <2>7. Append(m.tmp, s[i]) \in Seq(Int) BY <1>8, <2>1
  <2> HIDE DEF Out
  <2>8. j \in mid + 1 .. right + 1 OBVIOUS
  <2> QED BY <2>3, <2>4, <2>5, <2>6, <2>7, <2>8, MergeOkIs
<1>10. CASE ~ (i <= mid /\ (j > right \/ s[i] <= s[j]))
  <2>1. j <= right BY <1>0, <1>2, <1>10
  <2>2. j \in left .. right /\ j \notin Out /\ s[j] \in Int BY <1>0, <1>3, <2>1 DEF Used
  <2>3. ASSUME NEW y \in (left .. right) \ Out PROVE s[j] <= s[y]
    <3>1. CASE y \in j .. right BY <1>7, <2>1, <3>1
    <3>2. CASE y \in i .. mid
      <4>1. i <= mid /\ i \in left .. right BY <1>0, <3>2
      <4>2. ~ (s[i] <= s[j]) /\ s[i] <= s[y] BY <1>6, <1>10, <3>2, <4>1
      <4>3. s[i] \in Int /\ s[y] \in Int BY <1>3, <4>1
      <4> QED BY <2>2, <4>2, <4>3
    <3> QED BY <1>5, <3>1, <3>2
  <2>4. TakenOk(Append(m.tmp, s[j]), s, Out \cup {j}, left, right, k + 1)
    <3> HIDE DEF Out
    <3> QED BY <1>0, <1>4, <2>2, <2>3, TakeNext
  <2>5. Out \cup {j} = Used(i, j + 1, left, mid, right) BY <1>0, <2>1 DEF Used
  <2>6. MergeStep(m, s, mid, right) = [i |-> i, j |-> j + 1, tmp |-> Append(m.tmp, s[j])]
    BY <1>1, <1>8, <1>10 DEF MergeStep
  <2>7. j + 1 \in mid + 1 .. right + 1 /\ (i - left) + ((j + 1) - (mid + 1)) = k + 1
    BY <1>0, <1>2, <2>1
  <2>8. Append(m.tmp, s[j]) \in Seq(Int) BY <1>8, <2>2
  <2> HIDE DEF Out
  <2>9. i \in left .. mid + 1 OBVIOUS
  <2> QED BY <2>4, <2>5, <2>6, <2>7, <2>8, <2>9, MergeOkIs
<1> QED BY <1>9, <1>10

LEMMA MergeSorts ==
  ASSUME NEW s, NEW n, NEW left, NEW mid, NEW right, Halves(s, n, left, mid, right)
  PROVE  /\ Shuffled(s, Merge(s, left, mid, right), n, left, right)
         /\ Ordered(Merge(s, left, mid, right), left, right)
<1>0. /\ left \in Int /\ mid \in Int /\ right \in Int /\ n \in Nat /\ IsArray(s, n)
      /\ 0 <= left /\ left <= mid /\ mid < right /\ right <= n - 1 /\ left <= right
  BY DEF Halves, IsArray
<1> DEFINE w == right - left + 1
<1>m. PICK f : MergeLoop(f, s, left, mid, right) BY <1>0, MergeRounds
<1>1. /\ Merge(s, left, mid, right) = WrittenBack(s, left, right, f[w].tmp)
      /\ f[0] = [i |-> left, j |-> mid + 1, tmp |-> <<>>]
      /\ \A k \in 1 .. w : f[k] = MergeStep(f[k - 1], s, mid, right)
  BY <1>m DEF MergeLoop
<1> DEFINE P == {k \in 0 .. w : MergeOk(f[k], s, left, mid, right, k)}
<1>2. w \in Nat /\ w - 1 = right - left BY <1>0
<1>3. 0 \in P
  <2> DEFINE m == [i |-> left, j |-> mid + 1, tmp |-> <<>>]
  <2>1. m \in [i : left .. mid + 1, j : mid + 1 .. right + 1, tmp : Seq(Int)] BY <1>0
  <2>2. (m.i - left) + (m.j - (mid + 1)) = 0 BY <1>0
  <2>3. Used(left, mid + 1, left, mid, right) = {} BY <1>0 DEF Used
  <2>4. TakenOk(<<>>, s, {}, left, right, 0)
    <3>1. Origin(<<>>, <<>>, s, {}, 0) BY DEF Origin
    <3> QED BY <3>1 DEF TakenOk
  <2>5. MergeOk(m, s, left, mid, right, 0) BY <2>1, <2>2, <2>3, <2>4 DEF MergeOk
  <2> QED BY <1>1, <1>2, <2>5
<1>4. ASSUME NEW k \in 0 .. w - 1, k \in P PROVE k + 1 \in P
  <2>1. k + 1 \in 1 .. w /\ k + 1 \in 0 .. w /\ (k + 1) - 1 = k /\ k \in 0 .. (right - left) BY <1>2
  <2>2. f[k + 1] = MergeStep(f[k], s, mid, right) BY <1>1, <2>1
  <2>3. MergeOk(f[k], s, left, mid, right, k) BY <1>4
  <2>4. MergeOk(f[k + 1], s, left, mid, right, k + 1) BY <2>1, <2>2, <2>3, TakenNextOk
  <2> QED BY <2>1, <2>4
<1>5. w \in P
  <2>1. w \in 0 .. w BY <1>2
  <2> HIDE DEF P, w
  <2>2. \A k \in 0 .. w : k \in P BY <1>2, <1>3, <1>4, UpToInduction
  <2> QED BY <2>1, <2>2
<1>6. MergeOk(f[w], s, left, mid, right, w) BY <1>5
<1> DEFINE tmp == f[w].tmp
<1>7. TakenOk(tmp, s, left .. right, left, right, w)
  <2>1. PICK i \in left .. mid + 1, j \in mid + 1 .. right + 1 :
           f[w].i = i /\ f[w].j = j /\ (i - left) + (j - (mid + 1)) = right - left + 1
    BY <1>6 DEF MergeOk
  <2>2. i = mid + 1 /\ j = right + 1 BY <1>0, <2>1
  <2>3. Used(mid + 1, right + 1, left, mid, right) = left .. right BY <1>0 DEF Used
  <2>4. TakenOk(tmp, s, Used(i, j, left, mid, right), left, right, w) BY <1>6, <2>1 DEF MergeOk
  <2> HIDE DEF tmp, w
  <2> QED BY <2>2, <2>3, <2>4
<1>8. PICK o : Origin(o, tmp, s, left .. right, w) BY <1>7 DEF TakenOk
<1>9. tmp \in Seq(Int) /\ Len(tmp) = w BY <1>7 DEF TakenOk
<1> DEFINE t == [k \in 0 .. n - 1 |-> IF k \in left .. right THEN tmp[k - left + 1] ELSE s[k]]
           p == [x \in 0 .. n - 1 |-> IF x \in left .. right THEN o[x - left + 1] ELSE x]
<1>10. Merge(s, left, mid, right) = t
  <2>1. DOMAIN s = 0 .. n - 1 BY <1>0 DEF IsArray
  <2> QED BY <1>1, <2>1 DEF WrittenBack
<1>11. \A x \in left .. right : x - left + 1 \in 1 .. w /\ x \in 0 .. n - 1 BY <1>0
<1>12. \A x \in 0 .. n - 1 : t[x] = IF x \in left .. right THEN tmp[x - left + 1] ELSE s[x] OBVIOUS
<1>13. \A x \in 0 .. n - 1 : p[x] = IF x \in left .. right THEN o[x - left + 1] ELSE x OBVIOUS
<1>14. \A x \in 1 .. w : o[x] \in left .. right /\ tmp[x] = s[o[x]] BY <1>8 DEF Origin
<1>15. t = [x \in 0 .. n - 1 |-> t[x]] /\ p = [x \in 0 .. n - 1 |-> p[x]] OBVIOUS
<1> HIDE DEF t, p, tmp, P
<1>16. ASSUME NEW x \in 0 .. n - 1
       PROVE  /\ t[x] = s[p[x]] /\ p[x] \in 0 .. n - 1
              /\ IF x \in left .. right THEN p[x] \in left .. right ELSE p[x] = x
  <2>1. CASE x \in left .. right
    <3>1. x - left + 1 \in 1 .. w BY <1>11, <2>1
    <3>2. p[x] = o[x - left + 1] /\ t[x] = tmp[x - left + 1] BY <1>12, <1>13, <2>1
    <3>3. o[x - left + 1] \in left .. right /\ tmp[x - left + 1] = s[o[x - left + 1]]
      BY <1>14, <3>1
    <3> QED BY <1>11, <2>1, <3>2, <3>3
  <2>2. CASE x \notin left .. right BY <1>12, <1>13, <2>2
  <2> QED BY <2>1, <2>2
<1>17. p \in [0 .. n - 1 -> 0 .. n - 1] BY <1>15, <1>16
<1>18. IsArray(t, n)
  <2>1. \A x \in 0 .. n - 1 : s[x] \in Int BY <1>0 DEF IsArray
  <2>2. \A x \in 0 .. n - 1 : t[x] \in Int BY <1>16, <2>1
  <2> QED BY <1>0, <1>15, <2>2 DEF IsArray
<1>19. ASSUME NEW x \in 0 .. n - 1, NEW y \in 0 .. n - 1, p[x] = p[y] PROVE x = y
  <2>1. CASE x \in left .. right /\ y \in left .. right
    <3>1. o[x - left + 1] = o[y - left + 1] BY <1>13, <1>19, <2>1
    <3>2. x - left + 1 = y - left + 1 BY <1>8, <1>11, <2>1, <3>1 DEF Origin
    <3>3. x \in Int /\ y \in Int OBVIOUS
    <3> QED BY <1>0, <3>2, <3>3
  <2>2. CASE ~ (x \in left .. right /\ y \in left .. right) BY <1>16, <1>19, <2>2
  <2> QED BY <2>1, <2>2
<1>20. ASSUME NEW y \in 0 .. n - 1 PROVE \E x \in 0 .. n - 1 : p[x] = y
  <2>1. CASE y \in left .. right
    <3>1. PICK z \in 1 .. w : o[z] = y BY <1>8, <2>1 DEF Origin
    <3>2. PICK x \in left .. right : x = z + left - 1 /\ x - left + 1 = z BY <1>0
    <3> QED BY <1>11, <1>13, <3>1, <3>2
  <2>2. CASE y \notin left .. right BY <1>13, <2>2
  <2> QED BY <2>1, <2>2
<1>21. Moves(p, s, t, n, left, right) BY <1>16, <1>17, <1>19, <1>20 DEF Moves
<1>22. ASSUME NEW x \in left .. right, NEW y \in left .. right, x <= y PROVE t[x] <= t[y]
  <2>1. x - left + 1 <= y - left + 1 BY <1>0, <1>22
  <2>2. tmp[x - left + 1] <= tmp[y - left + 1] BY <1>7, <1>11, <2>1 DEF TakenOk
  <2> QED BY <1>11, <1>12, <2>2
<1> QED BY <1>0, <1>10, <1>18, <1>21, <1>22 DEF Shuffled, Ordered

-----------------------------------------------------------------------------
(* QuickSort.getMiddle. *)

LEMMA CloseRounds ==
  ASSUME NEW s, NEW low \in Int, NEW high \in Int, low <= high
  PROVE  \E f : /\ GetMiddle(s, low, high)
                     = [a |-> [f[high - low].a EXCEPT ![f[high - low].low] = s[low]],
                        middle |-> f[high - low].low]
                /\ f[0] = [a |-> s, low |-> low, high |-> high]
                /\ \A k \in 1 .. (high - low) : f[k] = CloseIn(f[k - 1], s[low])
<1> DEFINE n == high - low
           start == [a |-> s, low |-> low, high |-> high]
           c == [loop |-> "close", base |-> s[low]]
           OneStep(f) == f = [k \in 0 .. n |-> IF k = 0 THEN start ELSE CloseIn(f[k - 1], s[low])]
           loop == CHOOSE f : OneStep(f)
<1>0. n \in Nat OBVIOUS
<1>1. \A r, k : RoundOf(c, r, k) = CloseIn(r, s[low]) BY DEF RoundOf
<1>2. GetMiddle(s, low, high)
        = [a |-> [loop[n].a EXCEPT ![loop[n].low] = s[low]], middle |-> loop[n].low]
  BY DEF GetMiddle
<1> HIDE DEF c, start
<1>3. PICK f : IsSortLoop(f, c, n, start) BY <1>0, SortLoopExists
<1>4. \A g : IsSortLoop(g, c, n, start) <=> OneStep(g) BY <1>1 DEF IsSortLoop
<1> HIDE DEF OneStep
<1>5. IsSortLoop(loop, c, n, start) BY <1>3, <1>4
<1> HIDE DEF loop
<1>6. HasRounds(loop, c, n, start) BY <1>0, <1>5, RoundsOfLoop
<1>7. loop[0] = [a |-> s, low |-> low, high |-> high] BY <1>6 DEF HasRounds, start
<1>8. \A k \in 1 .. n : loop[k] = CloseIn(loop[k - 1], s[low]) BY <1>1, <1>6 DEF HasRounds
<1> QED BY <1>2, <1>7, <1>8

LEMMA MaxWithin ==
  ASSUME NEW l \in Int, NEW h \in Int, NEW S \in SUBSET (l .. h), S # {}
  PROVE  Max(S) \in S /\ \A k \in S : k <= Max(S)
<1> DEFINE D == {h - k : k \in S}
<1>1. \A k \in S : h - k \in Nat OBVIOUS
<1>2. D \in SUBSET Nat /\ D # {} BY <1>1
<1>3. PICK d \in D : \A e \in D : d <= e
  <2> HIDE DEF D
  <2> QED BY <1>2, LeastNat
<1>4. PICK m \in S : d = h - m BY <1>3
<1>5. ASSUME NEW k \in S PROVE m >= k
  <2>1. h - m <= h - k BY <1>3, <1>4
  <2>2. m \in Int /\ k \in Int OBVIOUS
  <2> QED BY <2>1, <2>2
<1>6. \E x \in S : \A y \in S : x >= y BY <1>5
<1>7. Max(S) \in S /\ \A y \in S : Max(S) >= y BY <1>6 DEF Max
<1>8. \A k \in S : k \in Int OBVIOUS
<1> QED BY <1>7, <1>8

\* The array with the base put where the hole is.
Hole(a, h, base) == [a EXCEPT ![h] = base]

\* Element y goes where the hole was: the hole is at y.
LEMMA HoleMoves ==
  ASSUME NEW a, NEW n, IsArray(a, n), NEW base \in Int, NEW x \in 0 .. n - 1, NEW y \in 0 .. n - 1,
         NEW lo, NEW hi, x \in lo .. hi, y \in lo .. hi, NEW s, Shuffled(s, Hole(a, x, base), n, lo, hi)
  PROVE  Shuffled(s, Hole([a EXCEPT ![x] = a[y]], y, base), n, lo, hi)
<1> DEFINE b == Hole(a, x, base)
           d == [a EXCEPT ![x] = a[y]]
           t == Hole(d, y, base)
           w == Swap(b, x, y)
<1>1. n \in Nat /\ \A z \in 0 .. n - 1 : a[z] \in Int BY DEF IsArray
<1>2. IsArray(d, n) BY <1>1 DEF IsArray
<1>3. \A z \in 0 .. n - 1 : d[z] = IF z = x THEN a[y] ELSE a[z] BY DEF IsArray
<1>4. IsArray(b, n) BY DEF IsArray, Hole
<1>5. \A z \in 0 .. n - 1 : b[z] = IF z = x THEN base ELSE a[z] BY DEF IsArray, Hole
<1> HIDE DEF d, b
<1>6. IsArray(t, n) BY <1>2 DEF IsArray, Hole
<1>7. \A z \in 0 .. n - 1 : t[z] = IF z = y THEN base ELSE d[z] BY <1>2 DEF IsArray, Hole
<1>8. IsArray(w, n)
  <2>1. b[x] \in Int /\ b[y] \in Int BY <1>4 DEF IsArray
  <2> QED BY <1>4, <2>1 DEF IsArray, Swap
<1>9. \A z \in 0 .. n - 1 : w[z] = IF z = y THEN b[x] ELSE IF z = x THEN b[y] ELSE b[z]
  BY <1>4 DEF IsArray, Swap
<1>10. Shuffled(b, w, n, lo, hi) BY <1>4, SwapShuffles
<1> HIDE DEF t, w
<1>11. ASSUME NEW z \in 0 .. n - 1 PROVE t[z] = w[z] BY <1>3, <1>5, <1>7, <1>9
<1>12. t = [z \in 0 .. n - 1 |-> t[z]] /\ w = [z \in 0 .. n - 1 |-> w[z]] BY <1>6, <1>8 DEF IsArray
<1>13. t = w BY <1>11, <1>12
<1>14. Shuffled(s, b, n, lo, hi) BY DEF b
<1>15. Shuffled(s, t, n, lo, hi) BY <1>10, <1>13, <1>14, ShuffledTwice
<1> QED BY <1>15 DEF t, d

\* What lies outside the pointers is on its side of the base, and the hole is at low.
CloseOk(r, s, n, low, high, base) ==
  /\ IsArray(r.a, n) /\ r.low \in low .. high /\ r.high \in low .. high /\ r.low <= r.high
  /\ Shuffled(s, Hole(r.a, r.low, base), n, low, high)
  /\ \A x \in low .. high : x < r.low => r.a[x] <= base
  /\ \A x \in low .. high : x > r.high => r.a[x] >= base

LEMMA CloseInOk ==
  ASSUME NEW s, NEW n \in Nat, NEW low \in 0 .. n - 1, NEW high \in 0 .. n - 1, NEW base \in Int,
         NEW r, CloseOk(r, s, n, low, high, base)
  PROVE  /\ CloseOk(CloseIn(r, base), s, n, low, high, base)
         /\ \/ CloseIn(r, base).low = CloseIn(r, base).high
            \/ CloseIn(r, base).high - CloseIn(r, base).low < r.high - r.low
<1>1. PICK l0 \in low .. high, h0 \in low .. high : r.low = l0 /\ r.high = h0 /\ l0 <= h0
  BY DEF CloseOk
<1>2. CASE ~ (l0 < h0)
  <2>1. CloseIn(r, base) = r BY <1>1, <1>2 DEF CloseIn
  <2> QED BY <1>1, <1>2, <2>1
<1>3. CASE l0 < h0
  <2>1. IsArray(r.a, n) /\ \A x \in 0 .. n - 1 : r.a[x] \in Int BY DEF CloseOk, IsArray
  <2>2. \A x \in low .. high : x \in 0 .. n - 1 /\ x \in Int OBVIOUS
  <2> DEFINE H == {l0} \cup {k \in l0 .. h0 : r.a[k] < base}
  <2>3. PICK h \in l0 .. h0 : /\ h = Max(H) /\ (h = l0 \/ r.a[h] < base)
                              /\ \A x \in l0 .. h0 : x > h => r.a[x] >= base
    <3>1. H \in SUBSET (l0 .. h0) /\ H # {} BY <1>3
    <3>2. Max(H) \in H /\ \A k \in H : k <= Max(H)
      <4>1. l0 \in Int /\ h0 \in Int OBVIOUS
      <4> HIDE DEF H
      <4> QED BY <3>1, <4>1, MaxWithin
    <3>3. PICK h \in l0 .. h0 : h = Max(H) BY <3>1, <3>2
    <3>4. h = l0 \/ r.a[h] < base
      <4>1. \A k \in H : k = l0 \/ r.a[k] < base OBVIOUS
      <4> HIDE DEF H
      <4> QED BY <3>2, <3>3, <4>1
    <3>5. ASSUME NEW x \in l0 .. h0, x > h PROVE r.a[x] >= base
      <4>1. x \notin H BY <3>2, <3>3, <3>5
      <4>2. ~ (r.a[x] < base) BY <4>1
      <4>3. x \in low .. high OBVIOUS
      <4>4. r.a[x] \in Int BY <2>1, <2>2, <4>3
      <4> QED BY <4>2, <4>4
    <3> QED BY <3>3, <3>4, <3>5
  <2>4. h \in low .. high /\ l0 \in low .. high /\ l0 \in 0 .. n - 1 /\ h \in 0 .. n - 1 BY <2>2
  <2> DEFINE fr == [r.a EXCEPT ![l0] = r.a[h]]
             L == {h} \cup {k \in l0 .. h : fr[k] > base}
  <2>5. IsArray(fr, n) BY <2>1, <2>4 DEF IsArray
  <2>6. \A x \in 0 .. n - 1 : fr[x] = IF x = l0 THEN r.a[h] ELSE r.a[x] BY <2>1 DEF IsArray
  <2>7. PICK l \in l0 .. h : l = Min(L) /\ \A x \in l0 .. h : x < l => fr[x] <= base
    <3>1. L \in SUBSET Nat /\ L # {} BY <2>4
    <3>2. Min(L) \in L /\ \A k \in L : Min(L) <= k
      <4> HIDE DEF L
      <4> QED BY <3>1, MinIs
    <3>3. L \subseteq l0 .. h OBVIOUS
    <3>4. PICK l \in l0 .. h : l = Min(L) BY <3>2, <3>3
    <3>5. ASSUME NEW x \in l0 .. h, x < l PROVE fr[x] <= base
      <4>1. x \notin L BY <3>2, <3>4, <3>5
      <4>2. ~ (fr[x] > base) BY <4>1
      <4>3. x \in 0 .. n - 1 BY <2>4
      <4>4. fr[x] \in Int BY <2>5, <4>3 DEF IsArray
      <4> HIDE DEF fr
      <4> QED BY <4>2, <4>4
    <3> QED BY <3>4, <3>5
  <2> DEFINE aa == [fr EXCEPT ![h] = fr[l]]
  <2>8. CloseIn(r, base) = [a |-> aa, low |-> l, high |-> h] BY <1>1, <1>3, <2>3, <2>7 DEF CloseIn
  <2>9. l \in 0 .. n - 1 /\ l \in low .. high /\ l <= h BY <2>4
  <2>10. Shuffled(s, Hole(fr, h, base), n, low, high)
    <3>1. Shuffled(s, Hole(r.a, l0, base), n, low, high) BY <1>1 DEF CloseOk
    <3> QED BY <2>1, <2>4, <3>1, HoleMoves
  <2> HIDE DEF fr
  <2>11. Shuffled(s, Hole(aa, l, base), n, low, high) BY <2>4, <2>5, <2>9, <2>10, HoleMoves
  <2>12. IsArray(aa, n)
    <3>1. fr[l] \in Int BY <2>5, <2>9 DEF IsArray
    <3> QED BY <2>5, <2>4, <3>1 DEF IsArray
  <2>13. \A x \in 0 .. n - 1 : aa[x] = IF x = h THEN fr[l] ELSE fr[x] BY <2>5 DEF IsArray
  <2> HIDE DEF aa
  <2>14. ASSUME NEW x \in low .. high, x < l PROVE aa[x] <= base
    <3>1. x \in 0 .. n - 1 /\ x # h BY <2>2, <2>9, <2>14
    <3>2. aa[x] = fr[x] BY <2>13, <3>1
    <3>3. CASE x >= l0
      <4>1. x \in l0 .. h BY <2>14, <3>3
      <4> QED BY <2>7, <2>14, <3>2, <4>1
    <3>4. CASE ~ (x >= l0)
      <4>1. x < l0 /\ x # l0 BY <3>4
      <4>2. r.a[x] <= base BY <1>1, <4>1 DEF CloseOk
      <4> QED BY <2>6, <3>1, <3>2, <4>1, <4>2
    <3> QED BY <3>3, <3>4
  <2>15. ASSUME NEW x \in low .. high, x > h PROVE aa[x] >= base
    <3>1. x \in 0 .. n - 1 /\ x # h /\ x # l0 BY <2>2, <2>3, <2>15
    <3>2. aa[x] = r.a[x] BY <2>6, <2>13, <3>1
    <3>3. CASE x <= h0
      <4>1. x \in l0 .. h0 BY <2>15, <3>3
      <4> QED BY <2>3, <2>15, <3>2, <4>1
    <3>4. CASE ~ (x <= h0)
      <4>1. x > h0 BY <3>4
      <4> QED BY <1>1, <3>2, <4>1 DEF CloseOk
    <3> QED BY <3>3, <3>4
  <2>16. l = h \/ h - l < h0 - l0
    <3>1. CASE h = l0 BY <3>1
    <3>2. CASE h # l0
      <4>1. r.a[h] < base /\ fr[l0] = r.a[h] BY <2>3, <2>4, <2>6, <3>2
      <4>2. CASE l = l0
        <5>1. l \in L BY <2>7, MinIs, <2>4
        <5> QED BY <4>1, <4>2, <5>1, <2>1, <2>4
      <4>3. CASE l # l0 BY <4>3
      <4> QED BY <4>2, <4>3
    <3> QED BY <3>1, <3>2
  <2>17. CloseOk([a |-> aa, low |-> l, high |-> h], s, n, low, high, base)
    BY <2>4, <2>9, <2>11, <2>12, <2>14, <2>15 DEF CloseOk
  <2> QED BY <1>1, <2>8, <2>16, <2>17
<1> QED BY <1>2, <1>3

\* The base is at m, what is not greater below it, what is not less above.
Split(s, t, n, lo, hi, m) ==
  /\ Shuffled(s, t, n, lo, hi) /\ m \in lo .. hi
  /\ \A x \in lo .. hi : x < m => t[x] <= t[m]
  /\ \A x \in lo .. hi : x > m => t[x] >= t[m]

LEMMA GetMiddleSplits ==
  ASSUME NEW s, NEW n, IsArray(s, n), NEW low \in 0 .. n - 1, NEW high \in 0 .. n - 1, low < high
  PROVE  Split(s, GetMiddle(s, low, high).a, n, low, high, GetMiddle(s, low, high).middle)
<1> DEFINE w == high - low
           base == s[low]
<1>0. n \in Nat /\ base \in Int /\ w \in Nat BY DEF IsArray
<1>1. PICK f : /\ GetMiddle(s, low, high)
                     = [a |-> [f[high - low].a EXCEPT ![f[high - low].low] = s[low]],
                        middle |-> f[high - low].low]
               /\ f[0] = [a |-> s, low |-> low, high |-> high]
               /\ \A k \in 1 .. (high - low) : f[k] = CloseIn(f[k - 1], s[low])
  <2>1. low \in Int /\ high \in Int /\ low <= high OBVIOUS
  <2> HIDE DEF w, base
  <2> QED BY <2>1, CloseRounds
<1> DEFINE P == {k \in 0 .. w : /\ CloseOk(f[k], s, n, low, high, base)
                                /\ f[k].low = f[k].high \/ f[k].high - f[k].low <= w - k}
<1>2. 0 \in P
  <2>1. f[0].a = s /\ f[0].low = low /\ f[0].high = high BY <1>1
  <2>2. Hole(s, low, base) = s BY DEF Hole, IsArray
  <2>3. Shuffled(s, s, n, low, high) BY NotShuffled
  <2>4. \A x \in low .. high : ~ (x < low) /\ ~ (x > high) OBVIOUS
  <2>5. CloseOk(f[0], s, n, low, high, base) BY <2>1, <2>2, <2>3, <2>4 DEF CloseOk
  <2> QED BY <1>0, <2>1, <2>5
<1>3. ASSUME NEW k \in 0 .. w - 1, k \in P PROVE k + 1 \in P
  <2>1. k + 1 \in 1 .. (high - low) /\ k + 1 \in 0 .. w /\ (k + 1) - 1 = k OBVIOUS
  <2>2. f[k + 1] = CloseIn(f[k], base) BY <1>1, <2>1
  <2>3. CloseOk(f[k], s, n, low, high, base) BY <1>3
  <2>4. /\ CloseOk(f[k + 1], s, n, low, high, base)
        /\ \/ f[k + 1].low = f[k + 1].high
           \/ f[k + 1].high - f[k + 1].low < f[k].high - f[k].low
    <3> HIDE DEF base
    <3> QED BY <1>0, <2>2, <2>3, CloseInOk
  <2>5. PICK a1 \in Int, a2 \in Int, b1 \in Int, b2 \in Int :
          f[k].low = a1 /\ f[k].high = a2 /\ f[k + 1].low = b1 /\ f[k + 1].high = b2 /\ b1 <= b2
    BY <2>3, <2>4 DEF CloseOk
  <2>6. a1 = a2 \/ a2 - a1 <= w - k BY <1>3, <2>5
  <2>7. b1 = b2 \/ b2 - b1 < a2 - a1 BY <2>4, <2>5
  <2>8. b1 = b2 \/ b2 - b1 <= w - (k + 1) BY <1>0, <2>5, <2>6, <2>7
  <2> QED BY <2>1, <2>4, <2>5, <2>8
<1>4. w \in P
  <2> HIDE DEF P
  <2>1. \A k \in 0 .. w : k \in P BY <1>0, <1>2, <1>3, UpToInduction
  <2> QED BY <1>0, <2>1
<1>5. CloseOk(f[w], s, n, low, high, base) BY <1>4
<1>6. PICK m \in low .. high : f[w].low = m /\ f[w].high = m
  <2>1. PICK a1 \in low .. high, a2 \in low .. high : f[w].low = a1 /\ f[w].high = a2 /\ a1 <= a2
    BY <1>5 DEF CloseOk
  <2>2. a1 = a2 \/ a2 - a1 <= w - w BY <1>4, <2>1
  <2>3. a1 = a2 BY <1>0, <2>1, <2>2
  <2> QED BY <2>1, <2>3
<1> DEFINE t == Hole(f[w].a, m, base)
<1>7. GetMiddle(s, low, high).a = t /\ GetMiddle(s, low, high).middle = m BY <1>1, <1>6 DEF Hole
<1>8. Shuffled(s, t, n, low, high) BY <1>5, <1>6 DEF CloseOk
<1>9. IsArray(f[w].a, n) BY <1>5 DEF CloseOk
<1>10. \A x \in 0 .. n - 1 : t[x] = IF x = m THEN base ELSE f[w].a[x] BY <1>9 DEF Hole, IsArray
<1>11. \A x \in low .. high : x \in 0 .. n - 1 /\ x \in Int BY <1>0
<1> HIDE DEF t, base
<1>12. \A x \in low .. high : x < m => t[x] <= t[m]
  <2> TAKE x \in low .. high
  <2>1. SUFFICES ASSUME x < m PROVE t[x] <= t[m] OBVIOUS
  <2>2. f[w].a[x] <= base BY <1>5, <1>6, <2>1 DEF CloseOk
  <2> QED BY <1>10, <1>11, <2>1, <2>2
<1>13. \A x \in low .. high : x > m => t[x] >= t[m]
  <2> TAKE x \in low .. high
  <2>1. SUFFICES ASSUME x > m PROVE t[x] >= t[m] OBVIOUS
  <2>2. f[w].a[x] >= base BY <1>5, <1>6, <2>1 DEF CloseOk
  <2> QED BY <1>10, <1>11, <2>1, <2>2
<1> QED BY <1>7, <1>8, <1>12, <1>13 DEF Split

-----------------------------------------------------------------------------
(* The recursion of QuickSort and of MergeSort. *)

\* A call that sorts s from lo to hi.
IsCall(c, s, n, lo, hi) ==
  /\ c = <<s, lo, hi>> /\ n \in 0 .. MaxLen /\ s \in [0 .. n - 1 -> SortInts]
  /\ lo \in 0 .. MaxLen /\ hi \in -1 .. MaxLen - 1 /\ hi < n

LEMMA CallParts ==
  ASSUME NEW c \in Calls
  PROVE  /\ IsCall(c, c[1], ArrayLength(c[1]), c[2], c[3])
         /\ IsArray(c[1], ArrayLength(c[1]))
<1>1. c \in Arrays \X (0 .. MaxLen) \X (-1 .. (MaxLen - 1)) /\ c[3] < ArrayLength(c[1])
  BY DEF Calls
<1>2. c[1] \in Arrays /\ c[2] \in 0 .. MaxLen /\ c[3] \in -1 .. MaxLen - 1 /\ c = <<c[1], c[2], c[3]>>
  BY <1>1
<1>3. PICK n \in 0 .. MaxLen : c[1] \in [0 .. n - 1 -> SortInts] BY <1>2 DEF Arrays
<1>4. ArrayLength(c[1]) = n
  <2>1. n \in Nat OBVIOUS
  <2> QED BY <1>3, <2>1, LengthIs
<1>5. SortInts \subseteq Int BY SortIntsAssumption, SMT
<1>6. IsArray(c[1], n) BY <1>3, <1>5 DEF IsArray
<1> QED BY <1>1, <1>2, <1>3, <1>4, <1>6 DEF IsCall

LEMMA CallIs ==
  ASSUME NEW c, NEW s, NEW n, NEW lo, NEW hi, IsCall(c, s, n, lo, hi)
  PROVE  c \in Calls /\ ArrayLength(s) = n /\ c[1] = s /\ c[2] = lo /\ c[3] = hi /\ IsArray(s, n)
<1>1. ArrayLength(s) = n
  <2>1. n \in Nat BY DEF IsCall
  <2> QED BY <2>1, LengthIs DEF IsCall
<1>2. s \in Arrays BY DEF IsCall, Arrays
<1>3. c \in Calls BY <1>1, <1>2 DEF IsCall, Calls
<1>4. SortInts \subseteq Int BY SortIntsAssumption, SMT
<1>5. n \in 0 .. MaxLen /\ s \in [0 .. n - 1 -> SortInts] BY DEF IsCall
<1>6. s = [x \in 0 .. n - 1 |-> s[x]] /\ \A x \in 0 .. n - 1 : s[x] \in Int BY <1>4, <1>5
<1>7. IsArray(s, n) BY <1>5, <1>6, SortIntsAssumption DEF IsArray
<1> QED BY <1>1, <1>3, <1>7 DEF IsCall

LEMMA ShuffledTyped ==
  ASSUME NEW s, NEW t, NEW n, NEW lo, NEW hi, NEW E, Shuffled(s, t, n, lo, hi),
         s \in [0 .. n - 1 -> E]
  PROVE  t \in [0 .. n - 1 -> E]
<1>1. PICK p : Moves(p, s, t, n, lo, hi) BY DEF Shuffled
<1>2. t = [x \in 0 .. n - 1 |-> t[x]] BY DEF Shuffled, IsArray
<1>3. \A x \in 0 .. n - 1 : p[x] \in 0 .. n - 1 /\ t[x] = s[p[x]] BY <1>1 DEF Moves
<1>4. \A x \in 0 .. n - 1 : t[x] \in E BY <1>3
<1> QED BY <1>2, <1>4

\* How many steps the part of a call has.
CallSize(c) == IF c[2] < c[3] THEN c[3] - c[2] ELSE 0

\* t is what the call should return.
CallDone(c, t) ==
  /\ Shuffled(c[1], t, ArrayLength(c[1]), c[2], c[3])
  /\ Ordered(t, c[2], c[3])

\* The two calls that a call makes, and what it makes of the second's result.
FirstCall(m, c) ==
  IF m = "quick" THEN <<GetMiddle(c[1], c[2], c[3]).a, c[2], GetMiddle(c[1], c[2], c[3]).middle - 1>>
                 ELSE <<c[1], c[2], (c[2] + c[3]) \div 2>>

SecondCall(m, c, b) ==
  IF m = "quick" THEN <<b, GetMiddle(c[1], c[2], c[3]).middle + 1, c[3]>>
                 ELSE <<b, (c[2] + c[3]) \div 2 + 1, c[3]>>

CallResult(m, c, t) == IF m = "quick" THEN t ELSE Merge(t, c[2], (c[2] + c[3]) \div 2, c[3])

CallBody(m, f, c) ==
  IF c[2] < c[3] THEN CallResult(m, c, f[SecondCall(m, c, f[FirstCall(m, c)])]) ELSE c[1]

\* The calls are smaller, and when both do what they should so does the one that makes them.
PartsOk(m, c) ==
  /\ FirstCall(m, c) \in Calls /\ CallSize(FirstCall(m, c)) < CallSize(c)
  /\ \A b : CallDone(FirstCall(m, c), b) =>
       /\ SecondCall(m, c, b) \in Calls /\ CallSize(SecondCall(m, c, b)) < CallSize(c)
       /\ \A t : CallDone(SecondCall(m, c, b), t) => CallDone(c, CallResult(m, c, t))

\* The middle of two different ints lies from the first on and before the second.
LEMMA Midpoint ==
  ASSUME NEW lo \in Int, NEW hi \in Int, lo < hi
  PROVE  LET mid == (lo + hi) \div 2 IN mid \in Int /\ lo <= mid /\ mid < hi
OBVIOUS

LEMMA MergeParts ==
  ASSUME NEW c \in Calls, c[2] < c[3]
  PROVE  PartsOk("merge", c)
<1>1. PICK s, n, lo, hi :
         /\ s = c[1] /\ n = ArrayLength(c[1]) /\ lo = c[2] /\ hi = c[3]
         /\ IsCall(c, s, n, lo, hi) /\ IsArray(s, n) /\ lo < hi
  BY CallParts
<1>2. /\ n \in 0 .. MaxLen /\ lo \in 0 .. MaxLen /\ hi \in -1 .. MaxLen - 1 /\ hi < n
      /\ s \in [0 .. n - 1 -> SortInts] /\ MaxLen \in Nat
  BY <1>1, SortIntsAssumption DEF IsCall
<1>3. PICK mid \in Int : mid = (lo + hi) \div 2 /\ lo <= mid /\ mid < hi
  <2>1. lo \in Int /\ hi \in Int /\ lo < hi BY <1>1, <1>2
  <2>2. (lo + hi) \div 2 \in Int /\ lo <= (lo + hi) \div 2 /\ (lo + hi) \div 2 < hi
    BY <2>1, Midpoint
  <2> QED BY <2>2
<1> DEFINE d == <<s, lo, mid>>
<1>4. FirstCall("merge", c) = d BY <1>1, <1>3 DEF FirstCall
<1>5. IsCall(d, s, n, lo, mid)
  <2>1. mid \in -1 .. MaxLen - 1 /\ mid < n BY <1>2, <1>3
  <2> QED BY <1>2, <2>1 DEF IsCall
<1>6. d \in Calls /\ d[1] = s /\ d[2] = lo /\ d[3] = mid /\ ArrayLength(s) = n BY <1>5, CallIs
<1>7. CallSize(c) = hi - lo BY <1>1 DEF CallSize
<1>8. CallSize(d) < hi - lo BY <1>1, <1>2, <1>3, <1>6 DEF CallSize
<1> HIDE DEF d
<1>9. ASSUME NEW b, CallDone(d, b)
      PROVE  /\ SecondCall("merge", c, b) \in Calls /\ CallSize(SecondCall("merge", c, b)) < hi - lo
             /\ \A t : CallDone(SecondCall("merge", c, b), t) => CallDone(c, CallResult("merge", c, t))
  <2>1. Shuffled(s, b, n, lo, mid) /\ Ordered(b, lo, mid) BY <1>6, <1>9 DEF CallDone
  <2> DEFINE e == <<b, mid + 1, hi>>
  <2>2. SecondCall("merge", c, b) = e BY <1>1, <1>3 DEF SecondCall
  <2>3. b \in [0 .. n - 1 -> SortInts] BY <1>2, <2>1, ShuffledTyped
  <2>4. IsCall(e, b, n, mid + 1, hi) BY <1>2, <1>3, <2>3 DEF IsCall
  <2>5. e \in Calls /\ e[1] = b /\ e[2] = mid + 1 /\ e[3] = hi /\ ArrayLength(b) = n BY <2>4, CallIs
  <2>6. CallSize(e) < hi - lo BY <1>1, <1>2, <1>3, <2>5 DEF CallSize
  <2> HIDE DEF e
  <2>7. ASSUME NEW t, CallDone(e, t) PROVE CallDone(c, CallResult("merge", c, t))
    <3>1. Shuffled(b, t, n, mid + 1, hi) /\ Ordered(t, mid + 1, hi) BY <2>5, <2>7 DEF CallDone
    <3>2. Ordered(t, lo, mid)
      <4>1. ASSUME NEW x \in lo .. mid PROVE t[x] = b[x]
        <5>1. x \in 0 .. n - 1 /\ x \notin mid + 1 .. hi BY <1>2, <1>3
        <5> QED BY <3>1, <5>1, ShuffledFrom
      <4> QED BY <2>1, <4>1 DEF Ordered
    <3>3. IsArray(t, n) BY <3>1 DEF Shuffled
    <3>4. Halves(t, n, lo, mid, hi) BY <1>2, <1>3, <3>1, <3>2, <3>3 DEF Halves
    <3> DEFINE u == Merge(t, lo, mid, hi)
    <3>5. Shuffled(t, u, n, lo, hi) /\ Ordered(u, lo, hi) BY <3>4, MergeSorts
    <3>6. CallResult("merge", c, t) = u BY <1>1, <1>3 DEF CallResult
    <3> HIDE DEF u
    <3>7. lo \in Int /\ mid \in Int /\ hi \in Int /\ mid + 1 \in Int /\ lo <= mid + 1 /\ mid <= hi /\ lo <= lo /\ hi <= hi
      BY <1>2, <1>3
    <3>8. Shuffled(s, b, n, lo, hi) BY <2>1, <3>7, ShuffledMore
    <3>9. Shuffled(b, t, n, lo, hi) BY <3>1, <3>7, ShuffledMore
    <3>10. Shuffled(s, t, n, lo, hi) BY <3>8, <3>9, ShuffledTwice
    <3>11. Shuffled(s, u, n, lo, hi) BY <3>5, <3>10, ShuffledTwice
    <3> QED BY <1>1, <3>5, <3>6, <3>11 DEF CallDone
  <2> QED BY <2>2, <2>5, <2>6, <2>7
<1> QED BY <1>4, <1>6, <1>7, <1>8, <1>9 DEF PartsOk

LEMMA QuickParts ==
  ASSUME NEW c \in Calls, c[2] < c[3]
  PROVE  PartsOk("quick", c)
<1>1. PICK s, n, lo, hi :
         /\ s = c[1] /\ n = ArrayLength(c[1]) /\ lo = c[2] /\ hi = c[3]
         /\ IsCall(c, s, n, lo, hi) /\ IsArray(s, n) /\ lo < hi
  BY CallParts
<1>2. /\ n \in 0 .. MaxLen /\ lo \in 0 .. MaxLen /\ hi \in -1 .. MaxLen - 1 /\ hi < n
      /\ s \in [0 .. n - 1 -> SortInts] /\ MaxLen \in Nat
  BY <1>1, SortIntsAssumption DEF IsCall
<1>3. PICK q, mid : q = GetMiddle(s, lo, hi).a /\ mid = GetMiddle(s, lo, hi).middle OBVIOUS
<1>4. Split(s, q, n, lo, hi, mid)
  <2>1. lo \in 0 .. n - 1 /\ hi \in 0 .. n - 1 BY <1>1, <1>2
  <2> QED BY <1>1, <1>3, <2>1, GetMiddleSplits
<1>5. Shuffled(s, q, n, lo, hi) /\ mid \in lo .. hi /\ mid \in Int BY <1>2, <1>4 DEF Split
<1>6. q \in [0 .. n - 1 -> SortInts] BY <1>2, <1>5, ShuffledTyped
<1> DEFINE d == <<q, lo, mid - 1>>
<1>7. FirstCall("quick", c) = d BY <1>1, <1>3 DEF FirstCall
<1>8. IsCall(d, q, n, lo, mid - 1) BY <1>1, <1>2, <1>5, <1>6 DEF IsCall
<1>9. d \in Calls /\ d[1] = q /\ d[2] = lo /\ d[3] = mid - 1 /\ ArrayLength(q) = n BY <1>8, CallIs
<1>10. CallSize(c) = hi - lo BY <1>1 DEF CallSize
<1>11. CallSize(d) < hi - lo BY <1>1, <1>2, <1>5, <1>9 DEF CallSize
<1> HIDE DEF d
<1>12. ASSUME NEW b, CallDone(d, b)
       PROVE  /\ SecondCall("quick", c, b) \in Calls /\ CallSize(SecondCall("quick", c, b)) < hi - lo
              /\ \A t : CallDone(SecondCall("quick", c, b), t) => CallDone(c, CallResult("quick", c, t))
  <2>1. Shuffled(q, b, n, lo, mid - 1) /\ Ordered(b, lo, mid - 1) BY <1>9, <1>12 DEF CallDone
  <2> DEFINE e == <<b, mid + 1, hi>>
  <2>2. SecondCall("quick", c, b) = e BY <1>1, <1>3 DEF SecondCall
  <2>3. b \in [0 .. n - 1 -> SortInts] BY <1>6, <2>1, ShuffledTyped
  <2>4. IsCall(e, b, n, mid + 1, hi) BY <1>2, <1>5, <2>3 DEF IsCall
  <2>5. e \in Calls /\ e[1] = b /\ e[2] = mid + 1 /\ e[3] = hi /\ ArrayLength(b) = n BY <2>4, CallIs
  <2>6. CallSize(e) < hi - lo BY <1>1, <1>2, <1>5, <2>5 DEF CallSize
  <2> HIDE DEF e
  <2>7. ASSUME NEW t, CallDone(e, t) PROVE CallDone(c, CallResult("quick", c, t))
    <3>1. Shuffled(b, t, n, mid + 1, hi) /\ Ordered(t, mid + 1, hi) BY <2>5, <2>7 DEF CallDone
    <3>2. /\ lo \in Int /\ hi \in Int /\ mid + 1 \in Int /\ mid - 1 \in Int /\ lo <= mid + 1
          /\ mid - 1 <= hi /\ lo <= lo /\ hi <= hi
      BY <1>2, <1>5
    <3>3. Shuffled(q, b, n, lo, hi) BY <2>1, <3>2, ShuffledMore
    <3>4. Shuffled(b, t, n, lo, hi) BY <3>1, <3>2, ShuffledMore
    <3>5. Shuffled(s, b, n, lo, hi) BY <1>5, <3>3, ShuffledTwice
    <3>6. Shuffled(s, t, n, lo, hi) BY <3>4, <3>5, ShuffledTwice
    <3>7. \A x \in lo .. hi : x \in 0 .. n - 1 /\ x \in Int BY <1>2
    <3>8. mid \in 0 .. n - 1 /\ mid \notin lo .. mid - 1 /\ mid \notin mid + 1 .. hi BY <1>5, <3>7
    <3>9. t[mid] = q[mid]
      <4>1. b[mid] = q[mid] BY <2>1, <3>8, ShuffledFrom
      <4>2. t[mid] = b[mid] BY <3>1, <3>8, ShuffledFrom
      <4> QED BY <4>1, <4>2
    <3>10. ASSUME NEW x \in lo .. hi, x < mid PROVE t[x] = b[x] /\ t[x] <= t[mid]
      <4>1. x \in 0 .. n - 1 /\ x \in lo .. mid - 1 /\ x \notin mid + 1 .. hi BY <1>5, <3>7, <3>10
      <4>2. t[x] = b[x] BY <3>1, <4>1, ShuffledFrom
      <4>3. PICK y \in lo .. mid - 1 : y \in 0 .. n - 1 /\ b[x] = q[y]
        <5> DEFINE top == mid - 1
        <5>1. Shuffled(q, b, n, lo, top) /\ x \in lo .. top /\ x \in 0 .. n - 1 BY <2>1, <4>1
        <5> HIDE DEF top
        <5>2. \E y \in lo .. top : y \in 0 .. n - 1 /\ b[x] = q[y] BY <5>1, ShuffledWithin
        <5> QED BY <5>2 DEF top
      <4>4. y \in lo .. hi /\ y < mid BY <1>2, <1>5, <4>3
      <4>5. q[y] <= q[mid] BY <1>4, <4>4 DEF Split
      <4> QED BY <3>9, <4>2, <4>3, <4>5
    <3>11. ASSUME NEW x \in lo .. hi, x > mid PROVE t[mid] <= t[x]
      <4>1. x \in 0 .. n - 1 /\ x \in mid + 1 .. hi BY <1>5, <3>7, <3>11
      <4>2. PICK y \in 0 .. n - 1 : y \in mid + 1 .. hi /\ t[x] = b[y]
        BY <1>2, <1>5, <3>1, <4>1, ShuffledFrom
      <4>3. y \in lo .. hi /\ y > mid /\ y \notin lo .. mid - 1 BY <1>2, <1>5, <4>2
      <4>4. b[y] = q[y] BY <2>1, <4>3, ShuffledFrom
      <4>5. q[y] >= q[mid] BY <1>4, <4>3 DEF Split
      <4>6. q[y] \in Int /\ q[mid] \in Int
        <5>1. IsArray(q, n) BY <1>5 DEF Shuffled
        <5> QED BY <3>8, <5>1 DEF IsArray
      <4> QED BY <3>9, <4>2, <4>4, <4>5, <4>6
    <3>12. \A x \in 0 .. n - 1 : t[x] \in Int BY <3>6 DEF Shuffled, IsArray
    <3>13. ASSUME NEW x \in lo .. hi, NEW y \in lo .. hi, x <= y PROVE t[x] <= t[y]
      <4>0. t[x] \in Int /\ t[y] \in Int /\ t[mid] \in Int BY <3>7, <3>8, <3>12
      <4>1. CASE x = y BY <4>0, <4>1
      <4>2. CASE y < mid
        <5>1. x \in lo .. mid - 1 /\ y \in lo .. mid - 1 /\ x < mid BY <1>5, <3>7, <3>13, <4>2
        <5>2. b[x] <= b[y] BY <2>1, <3>13, <5>1 DEF Ordered
        <5> QED BY <3>10, <4>2, <5>1, <5>2
      <4>3. CASE x < mid /\ y = mid BY <3>10, <4>3
      <4>4. CASE x < mid /\ y > mid
        <5>1. t[x] <= t[mid] /\ t[mid] <= t[y] BY <3>10, <3>11, <4>4
        <5> QED BY <4>0, <5>1
      <4>5. CASE x = mid /\ y > mid BY <3>11, <4>5
      <4>6. CASE x > mid
        <5>1. x \in mid + 1 .. hi /\ y \in mid + 1 .. hi BY <1>5, <3>7, <3>13, <4>6
        <5> QED BY <3>1, <3>13, <5>1 DEF Ordered
      <4> QED BY <1>5, <3>7, <3>13, <4>1, <4>2, <4>3, <4>4, <4>5, <4>6
    <3>14. Ordered(t, lo, hi) BY <3>13 DEF Ordered
    <3>15. CallResult("quick", c, t) = t BY DEF CallResult
    <3> QED BY <1>1, <3>6, <3>14, <3>15 DEF CallDone
  <2> QED BY <2>2, <2>5, <2>6, <2>7
<1> QED BY <1>7, <1>9, <1>10, <1>11, <1>12 DEF PartsOk

Methods == {"quick", "merge"}

\* f answers the calls smaller than c as it should.
AnswersBelow(f, c) == \A d \in Calls : CallSize(d) < CallSize(c) => CallDone(d, f[d])

LEMMA BodyOk ==
  ASSUME NEW m \in Methods, NEW c \in Calls, NEW f, AnswersBelow(f, c)
  PROVE  /\ CallDone(c, CallBody(m, f, c))
         /\ \A g : (\A d \in Calls : CallSize(d) < CallSize(c) => g[d] = f[d]) =>
                     CallBody(m, g, c) = CallBody(m, f, c)
<1>1. CASE c[2] < c[3]
  <2>1. PartsOk(m, c) BY <1>1, MergeParts, QuickParts DEF Methods
  <2> DEFINE d == FirstCall(m, c)
             e == SecondCall(m, c, f[d])
  <2>2. d \in Calls /\ CallSize(d) < CallSize(c) BY <2>1 DEF PartsOk
  <2>3. CallDone(d, f[d]) BY <2>2 DEF AnswersBelow
  <2>4. e \in Calls /\ CallSize(e) < CallSize(c) BY <2>1, <2>3 DEF PartsOk
  <2>5. CallDone(e, f[e]) BY <2>4 DEF AnswersBelow
  <2>6. CallDone(c, CallResult(m, c, f[e])) BY <2>1, <2>3, <2>5 DEF PartsOk
  <2>7. CallBody(m, f, c) = CallResult(m, c, f[e]) BY <1>1 DEF CallBody
  <2>8. ASSUME NEW g, \A x \in Calls : CallSize(x) < CallSize(c) => g[x] = f[x]
        PROVE  CallBody(m, g, c) = CallBody(m, f, c)
    <3>1. g[d] = f[d] /\ g[e] = f[e] BY <2>2, <2>4, <2>8
    <3>2. CallBody(m, g, c) = CallResult(m, c, g[SecondCall(m, c, g[d])]) BY <1>1 DEF CallBody
    <3> HIDE DEF d
    <3> QED BY <2>7, <3>1, <3>2
  <2> HIDE DEF d, e
  <2> QED BY <2>6, <2>7, <2>8
<1>2. CASE ~ (c[2] < c[3])
  <2>1. \A g : CallBody(m, g, c) = c[1] BY <1>2 DEF CallBody
  <2>2. PICK s, n, lo, hi :
           /\ s = c[1] /\ n = ArrayLength(c[1]) /\ lo = c[2] /\ hi = c[3]
           /\ IsCall(c, s, n, lo, hi) /\ IsArray(s, n) /\ ~ (lo < hi)
    BY <1>2, CallParts
  <2>3. lo \in Nat /\ hi \in Int /\ hi < n /\ n \in Nat /\ \A x \in 0 .. n - 1 : s[x] \in Int
    <3>1. lo \in 0 .. MaxLen /\ hi \in -1 .. MaxLen - 1 /\ hi < n BY <2>2 DEF IsCall
    <3> QED BY <2>2, <3>1, SortIntsAssumption DEF IsArray
  <2>4. Shuffled(s, s, n, lo, hi) BY <2>2, NotShuffled
  <2>5. Ordered(s, lo, hi)
    <3>1. ASSUME NEW x \in lo .. hi, NEW y \in lo .. hi, x <= y PROVE s[x] <= s[y]
      <4>1. x = y /\ x \in 0 .. n - 1 BY <2>2, <2>3, <3>1
      <4> QED BY <2>3, <4>1
    <3> QED BY <3>1 DEF Ordered
  <2>6. CallDone(c, c[1]) BY <2>2, <2>4, <2>5 DEF CallDone
  <2> QED BY <2>1, <2>6
<1> QED BY <1>1, <1>2

LEMMA SizeIs ==
  ASSUME NEW c \in Calls
  PROVE  CallSize(c) \in 0 .. MaxLen
<1>1. c[2] \in 0 .. MaxLen /\ c[3] \in -1 .. MaxLen - 1 BY CallParts DEF IsCall
<1> QED BY <1>1, SortIntsAssumption, SMT DEF CallSize

IsRecursion(m, f) == f = [c \in Calls |-> CallBody(m, f, c)]

SolvedTo(m, f, k) ==
  \A c \in Calls : CallSize(c) <= k => f[c] = CallBody(m, f, c) /\ CallDone(c, f[c])

LEMMA RecursionExists ==
  ASSUME NEW m \in Methods
  PROVE  \E f : IsRecursion(m, f)
<1> DEFINE P == {k \in 0 .. MaxLen : \E f : SolvedTo(m, f, k)}
<1>0. MaxLen \in Nat BY SortIntsAssumption, SMT
<1>1. ASSUME NEW k \in Nat, NEW f, \A c \in Calls : CallSize(c) < k => f[c] = CallBody(m, f, c) /\ CallDone(c, f[c])
      PROVE  \E g : SolvedTo(m, g, k)
  <2> DEFINE g == [c \in Calls |-> IF CallSize(c) < k THEN f[c] ELSE CallBody(m, f, c)]
  <2>1. \A c \in Calls : g[c] = IF CallSize(c) < k THEN f[c] ELSE CallBody(m, f, c) OBVIOUS
  <2> HIDE DEF g
  <2>2. ASSUME NEW c \in Calls, CallSize(c) <= k
        PROVE  g[c] = CallBody(m, g, c) /\ CallDone(c, g[c])
    <3>1. \A d \in Calls : CallSize(d) < CallSize(c) => CallSize(d) < k
      <4>1. \A d \in Calls : CallSize(d) \in Int BY <1>0, SizeIs
      <4> QED BY <2>2, <4>1
    <3>2. AnswersBelow(f, c) BY <1>1, <3>1 DEF AnswersBelow
    <3>3. \A d \in Calls : CallSize(d) < CallSize(c) => g[d] = f[d] BY <2>1, <3>1
    <3>4. CallDone(c, CallBody(m, f, c)) /\ CallBody(m, g, c) = CallBody(m, f, c)
      BY <3>2, <3>3, BodyOk
    <3>5. g[c] = CallBody(m, f, c) BY <1>1, <2>1
    <3> QED BY <3>4, <3>5
  <2> QED BY <2>2 DEF SolvedTo
<1>2. \A c \in Calls : CallSize(c) \in Int /\ CallSize(c) >= 0 /\ CallSize(c) <= MaxLen
  BY <1>0, SizeIs
<1>3. 0 \in P
  <2> DEFINE f == [c \in Calls |-> c[1]]
  <2>1. \A c \in Calls : ~ (CallSize(c) < 0) BY <1>2
  <2> HIDE DEF f
  <2>2. \E g : SolvedTo(m, g, 0) BY <1>1, <2>1
  <2> QED BY <1>0, <2>2
<1>4. ASSUME NEW k \in 0 .. MaxLen - 1, k \in P PROVE k + 1 \in P
  <2>1. PICK f : SolvedTo(m, f, k) BY <1>4
  <2>2. \A c \in Calls : CallSize(c) < k + 1 => CallSize(c) <= k BY <1>2
  <2>3. \A c \in Calls : CallSize(c) < k + 1 => f[c] = CallBody(m, f, c) /\ CallDone(c, f[c])
    BY <2>1, <2>2 DEF SolvedTo
  <2>4. k + 1 \in Nat /\ k + 1 \in 0 .. MaxLen BY <1>0
  <2>5. \E g : SolvedTo(m, g, k + 1) BY <1>1, <2>3, <2>4
  <2> QED BY <2>4, <2>5
<1>5. MaxLen \in P
  <2> HIDE DEF P
  <2>1. \A k \in 0 .. MaxLen : k \in P BY <1>0, <1>3, <1>4, UpToInduction
  <2> QED BY <1>0, <2>1
<1>6. PICK f : SolvedTo(m, f, MaxLen) BY <1>5
<1> DEFINE g == [c \in Calls |-> f[c]]
<1>7. ASSUME NEW c \in Calls PROVE g[c] = CallBody(m, g, c)
  <2>1. f[c] = CallBody(m, f, c) BY <1>2, <1>6 DEF SolvedTo
  <2>2. AnswersBelow(f, c) BY <1>2, <1>6 DEF SolvedTo, AnswersBelow
  <2>3. \A d \in Calls : CallSize(d) < CallSize(c) => g[d] = f[d] OBVIOUS
  <2>4. g[c] = f[c] OBVIOUS
  <2> HIDE DEF g
  <2>5. CallBody(m, g, c) = CallBody(m, f, c) BY <2>2, <2>3, BodyOk
  <2> QED BY <2>1, <2>4, <2>5
<1>8. g = [c \in Calls |-> g[c]] OBVIOUS
<1> HIDE DEF g
<1>9. IsRecursion(m, g) BY <1>7, <1>8 DEF IsRecursion
<1> QED BY <1>9

LEMMA RecursionSorts ==
  ASSUME NEW m \in Methods, NEW f, IsRecursion(m, f)
  PROVE  \A c \in Calls : CallDone(c, f[c])
<1> DEFINE P == {k \in 0 .. MaxLen : \A c \in Calls : CallSize(c) <= k => CallDone(c, f[c])}
<1>0. MaxLen \in Nat BY SortIntsAssumption, SMT
<1>1. \A c \in Calls : f[c] = CallBody(m, f, c) BY DEF IsRecursion
<1>2. \A c \in Calls : CallSize(c) \in Int /\ CallSize(c) >= 0 /\ CallSize(c) <= MaxLen
  BY <1>0, SizeIs
<1>3. ASSUME NEW c \in Calls, AnswersBelow(f, c) PROVE CallDone(c, f[c])
  BY <1>1, <1>3, BodyOk
<1>4. 0 \in P
  <2>1. ASSUME NEW c \in Calls, CallSize(c) <= 0 PROVE CallDone(c, f[c])
    <3>1. AnswersBelow(f, c) BY <1>2, <2>1 DEF AnswersBelow
    <3> QED BY <1>3, <3>1
  <2> QED BY <1>0, <2>1
<1>5. ASSUME NEW k \in 0 .. MaxLen - 1, k \in P PROVE k + 1 \in P
  <2>1. ASSUME NEW c \in Calls, CallSize(c) <= k + 1 PROVE CallDone(c, f[c])
    <3>1. \A d \in Calls : CallSize(d) < CallSize(c) => CallSize(d) <= k BY <1>2, <2>1
    <3>2. AnswersBelow(f, c) BY <1>5, <3>1 DEF AnswersBelow
    <3> QED BY <1>3, <3>2
  <2> QED BY <1>0, <2>1
<1>6. MaxLen \in P
  <2> HIDE DEF P
  <2>1. \A k \in 0 .. MaxLen : k \in P BY <1>0, <1>4, <1>5, UpToInduction
  <2> QED BY <1>0, <2>1
<1> QED BY <1>2, <1>6

\* What the whole array's call returns.
LEMMA WholeCall ==
  ASSUME NEW m \in Methods, NEW f, IsRecursion(m, f), NEW n \in 0 .. MaxLen,
         NEW s \in [0 .. n - 1 -> SortInts]
  PROVE  ArrayLength(s) = n /\ SortedFrom(s, f[<<s, 0, n - 1>>], n)
<1> DEFINE c == <<s, 0, n - 1>>
<1>1. IsCall(c, s, n, 0, n - 1)
  <2>1. 0 \in 0 .. MaxLen /\ n - 1 \in -1 .. MaxLen - 1 /\ n - 1 < n BY SortIntsAssumption, SMT
  <2> QED BY <2>1 DEF IsCall
<1>2. c \in Calls /\ ArrayLength(s) = n /\ c[1] = s /\ c[2] = 0 /\ c[3] = n - 1 BY <1>1, CallIs
<1> HIDE DEF c
<1>3. CallDone(c, f[c]) BY <1>2, RecursionSorts
<1>4. SortedFrom(s, f[c], n) BY <1>2, <1>3 DEF CallDone, SortedFrom
<1> QED BY <1>2, <1>4 DEF c

LEMMA QuickSortSorts ==
  ASSUME NEW n \in 0 .. MaxLen, NEW s \in [0 .. n - 1 -> SortInts]
  PROVE  SortedFrom(s, QuickSort(s), n)
<1> DEFINE Body(f, c) ==
             LET p == GetMiddle(c[1], c[2], c[3])
                 below == f[<<p.a, c[2], p.middle - 1>>]
             IN  IF c[2] < c[3] THEN f[<<below, p.middle + 1, c[3]>>] ELSE c[1]
           OneStep(f) == f = [c \in Calls |-> Body(f, c)]
           solved == CHOOSE f : OneStep(f)
<1>1. QuickSort(s) = solved[<<s, 0, ArrayLength(s) - 1>>] BY DEF QuickSort
<1>2. \A f, c : CallBody("quick", f, c) = Body(f, c)
  BY DEF CallBody, CallResult, SecondCall, FirstCall
<1> HIDE DEF Body
<1>3. \A f : IsRecursion("quick", f) <=> OneStep(f) BY <1>2 DEF IsRecursion
<1> HIDE DEF OneStep
<1>4. "quick" \in Methods BY DEF Methods
<1>5. PICK f : IsRecursion("quick", f) BY <1>4, RecursionExists
<1>6. IsRecursion("quick", solved) BY <1>3, <1>5
<1> HIDE DEF solved
<1>7. ArrayLength(s) = n /\ SortedFrom(s, solved[<<s, 0, n - 1>>], n) BY <1>4, <1>6, WholeCall
<1> QED BY <1>1, <1>7

LEMMA MergeSortSorts ==
  ASSUME NEW n \in 0 .. MaxLen, NEW s \in [0 .. n - 1 -> SortInts]
  PROVE  SortedFrom(s, MergeSort(s), n)
<1> DEFINE Body(f, c) ==
             LET mid == (c[2] + c[3]) \div 2
                 below == f[<<c[1], c[2], mid>>]
             IN  IF c[2] < c[3] THEN Merge(f[<<below, mid + 1, c[3]>>], c[2], mid, c[3]) ELSE c[1]
           OneStep(f) == f = [c \in Calls |-> Body(f, c)]
           solved == CHOOSE f : OneStep(f)
<1>1. MergeSort(s) = solved[<<s, 0, ArrayLength(s) - 1>>] BY DEF MergeSort
<1>2. \A f, c : CallBody("merge", f, c) = Body(f, c)
  BY DEF CallBody, CallResult, SecondCall, FirstCall
<1> HIDE DEF Body
<1>3. \A f : IsRecursion("merge", f) <=> OneStep(f) BY <1>2 DEF IsRecursion
<1> HIDE DEF OneStep
<1>4. "merge" \in Methods BY DEF Methods
<1>5. PICK f : IsRecursion("merge", f) BY <1>4, RecursionExists
<1>6. IsRecursion("merge", solved) BY <1>3, <1>5
<1> HIDE DEF solved
<1>7. ArrayLength(s) = n /\ SortedFrom(s, solved[<<s, 0, n - 1>>], n) BY <1>4, <1>6, WholeCall
<1> QED BY <1>1, <1>7

-----------------------------------------------------------------------------
(* The array, the method that ran, and what a search returned. *)

\* What holds between the array before the call, the array, and the method.
SortOK ==
  /\ input \in Arrays
  /\ ran = "none" => arr = input
  /\ ran \in {"selectSort", "binarySearch"} => SortedFrom(input, arr, ArrayLength(input))
  /\ ComparisonSortsSort
  /\ SearchFinds

LEMMA ArraysAre ==
  ASSUME NEW s \in Arrays
  PROVE  /\ ArrayLength(s) \in 0 .. MaxLen /\ s \in [0 .. ArrayLength(s) - 1 -> SortInts]
         /\ IsArray(s, ArrayLength(s))
<1>1. PICK n \in 0 .. MaxLen : s \in [0 .. n - 1 -> SortInts] BY DEF Arrays
<1>2. MaxLen \in Nat /\ SortInts \subseteq Int BY SortIntsAssumption, SMT
<1>3. n \in Nat BY <1>2
<1>4. ArrayLength(s) = n BY <1>1, <1>3, LengthIs
<1>5. s = [x \in 0 .. n - 1 |-> s[x]] /\ \A x \in 0 .. n - 1 : s[x] \in Int BY <1>1, <1>2
<1>6. IsArray(s, n) BY <1>3, <1>5 DEF IsArray
<1> QED BY <1>1, <1>4, <1>6

LEMMA ShuffledSame ==
  ASSUME NEW s, NEW t, NEW n, NEW lo, NEW hi, Shuffled(s, t, n, lo, hi)
  PROVE  SameElements(t, s)
BY ShuffledCount DEF SameElements

LEMMA SortedIs ==
  ASSUME NEW s, NEW t, NEW n, SortedFrom(s, t, n)
  PROVE  Ascending(t) /\ SameElements(t, s)
<1>1. Shuffled(s, t, n, 0, n - 1) /\ Ordered(t, 0, n - 1) BY DEF SortedFrom
<1>2. IsArray(t, n) BY <1>1 DEF Shuffled
<1>3. DOMAIN t = 0 .. n - 1 /\ \A k \in 0 .. n - 1 : k \in Int /\ k <= k + 1 BY <1>2 DEF IsArray
<1>4. Ascending(t) BY <1>1, <1>3 DEF Ascending, Ordered
<1>5. SameElements(t, s) BY <1>1, ShuffledSame
<1> QED BY <1>4, <1>5

\* Each of the sorts, on an array of any length.
LEMMA SortsOk ==
  ASSUME NEW s \in Arrays
  PROVE  LET n == ArrayLength(s)
         IN  /\ SortedFrom(s, ExchangeSort(s), n) /\ SortedFrom(s, QuickSort(s), n)
             /\ SortedFrom(s, MergeSort(s), n) /\ SortedFrom(s, DirectInsertSort(s), n)
             /\ SortedFrom(s, ShellSort(s), n) /\ SortedFrom(s, SelectSort(s), n)
             /\ Shuffled(s, BinaryInsertSort(s), n, 0, n - 1)
<1> DEFINE n == ArrayLength(s)
<1>1. n \in 0 .. MaxLen /\ s \in [0 .. n - 1 -> SortInts] /\ IsArray(s, n) BY ArraysAre
<1> HIDE DEF n
<1>2. SortedFrom(s, QuickSort(s), n) BY <1>1, QuickSortSorts
<1>3. SortedFrom(s, MergeSort(s), n) BY <1>1, MergeSortSorts
<1>4. /\ SortedFrom(s, ExchangeSort(s), n) /\ SortedFrom(s, DirectInsertSort(s), n)
      /\ SortedFrom(s, ShellSort(s), n) /\ SortedFrom(s, SelectSort(s), n)
      /\ Shuffled(s, BinaryInsertSort(s), n, 0, n - 1)
  BY <1>1, ExchangeSortSorts, DirectInsertSortSorts, ShellSortSorts, SelectSortSorts,
     BinaryInsertSortKeeps
<1> QED BY <1>2, <1>3, <1>4 DEF n

LEMMA SortInitOK == SortInit => SortOK
BY DEF SortInit, SortOK, ComparisonSortsSort, SearchFinds

\* A search of the array that SimpleSelectSort left.
LEMMA SearchStep ==
  ASSUME SortOK, RunBinarySearch
  PROVE  SearchFinds'
<1> DEFINE n == ArrayLength(input)
<1>1. SortedFrom(input, arr, n) BY DEF SortOK, RunBinarySearch
<1>2. PICK element \in SortInts : search' = <<element, Halving(arr, ArrayLength(arr), element)>>
  BY DEF RunBinarySearch
<1>3. UNCHANGED <<input, arr>> BY DEF RunBinarySearch
<1> HIDE DEF n
<1>4. Shuffled(input, arr, n, 0, n - 1) /\ Ordered(arr, 0, n - 1) BY <1>1 DEF SortedFrom
<1>5. IsArray(arr, n) BY <1>4 DEF Shuffled
<1>6. n \in Nat /\ DOMAIN arr = 0 .. n - 1 /\ \A k \in 0 .. n - 1 : arr[k] \in Int BY <1>5 DEF IsArray
<1>7. ArrayLength(arr) = n
  <2>1. arr \in [0 .. n - 1 -> Int] BY <1>5 DEF IsArray
  <2> QED BY <1>6, <2>1, LengthIs
<1>8. element \in Int BY SortIntsAssumption, SMT
<1>9. Finds(arr, element, 0, n - 1, Halving(arr, n, element))
  BY <1>4, <1>6, <1>8, HalveFinds DEF Ordered
<1>10. Count(input, element) = 0 <=> ~ \E k \in 0 .. n - 1 : arr[k] = element
  <2> DEFINE S == {k \in DOMAIN arr : arr[k] = element}
  <2>1. Count(input, element) = Cardinality(S) BY <1>4, ShuffledCount DEF Count
  <2>2. IsFiniteSet(S)
    <3>1. IsFiniteSet(0 .. n - 1) BY <1>6, FS_Interval
    <3>2. S \subseteq 0 .. n - 1 BY <1>6
    <3> HIDE DEF S
    <3> QED BY <3>1, <3>2, FS_Subset
  <2>3. S = {} <=> ~ \E k \in 0 .. n - 1 : arr[k] = element BY <1>6
  <2> HIDE DEF S
  <2>4. Cardinality(S) = 0 <=> S = {} BY <2>2, FS_EmptySet
  <2> QED BY <2>1, <2>3, <2>4
<1>11. IF Count(input, element) = 0 THEN Halving(arr, n, element) = -1
       ELSE Halving(arr, n, element) \in DOMAIN arr /\ arr[Halving(arr, n, element)] = element
  BY <1>6, <1>9, <1>10 DEF Finds
<1>12. search'[1] = element /\ search'[2] = Halving(arr, n, element) BY <1>2, <1>7
<1> QED BY <1>3, <1>11, <1>12 DEF SearchFinds

LEMMA SortStep ==
  ASSUME SortOK, NEW method, NEW result, Sorted(method, result),
         method # "binarySearch",
         method \in {"exchangeSort", "quickSort", "mergeSort", "directInsertSort", "shellSort", "selectSort"}
           => SortedFrom(arr, result, ArrayLength(arr)),
         method = "binaryInsertSort" => Shuffled(arr, result, ArrayLength(arr), 0, ArrayLength(arr) - 1),
         method # "none"
  PROVE  SortOK'
<1>1. ran = "none" /\ ran' = method /\ arr' = result /\ UNCHANGED <<input, search, thrown>>
  BY DEF Sorted
<1>2. arr = input /\ input' \in Arrays BY <1>1 DEF SortOK
<1>3. SearchFinds' BY <1>1 DEF SearchFinds
<1>4. ASSUME method \in {"exchangeSort", "quickSort", "mergeSort", "directInsertSort", "shellSort", "selectSort"}
      PROVE  SortOK'
  <2>1. SortedFrom(input', arr', ArrayLength(input')) BY <1>1, <1>2, <1>4
  <2>2. Ascending(arr') /\ SameElements(arr', input') BY <2>1, SortedIs
  <2>3. ComparisonSortsSort' BY <1>1, <1>4, <2>2 DEF ComparisonSortsSort, Ascending, SameElements, Count
  <2> QED BY <1>1, <1>2, <1>3, <2>1, <2>3 DEF SortOK, SortedFrom, ArrayLength, Shuffled, Ordered
<1>5. ASSUME method \notin {"exchangeSort", "quickSort", "mergeSort", "directInsertSort", "shellSort", "selectSort"}
      PROVE  SortOK'
  <2>1. method = "binaryInsertSort" => SameElements(arr', input')
    BY <1>1, <1>2, ShuffledSame
  <2>2. ComparisonSortsSort' BY <1>1, <1>5, <2>1 DEF ComparisonSortsSort, SameElements, Count
  <2>3. ran' \notin {"none", "selectSort", "binarySearch"} BY <1>1, <1>5
  <2> QED BY <1>2, <1>3, <2>2, <2>3 DEF SortOK
<1> QED BY <1>4, <1>5

LEMMA SortNextOK == SortOK /\ [SortNext]_sorterVars => SortOK'
<1> SUFFICES ASSUME SortOK, [SortNext]_sorterVars PROVE SortOK' OBVIOUS
<1>1. CASE UNCHANGED sorterVars
  BY <1>1 DEF SortOK, sorterVars, ComparisonSortsSort, SearchFinds, SortedFrom, Ascending, SameElements,
     Count, ArrayLength, Shuffled, Ordered
<1>2. ASSUME ran = "none" PROVE arr = input /\ arr \in Arrays BY <1>2 DEF SortOK
<1>3. CASE RunExchangeSort
  <2>1. SortedFrom(arr, ExchangeSort(arr), ArrayLength(arr))
    BY <1>2, <1>3, SortsOk DEF RunExchangeSort, Sorted
  <2> QED BY <1>3, <2>1, SortStep DEF RunExchangeSort
<1>4. CASE RunQuickSort
  <2>1. SortedFrom(arr, QuickSort(arr), ArrayLength(arr)) BY <1>2, <1>4, SortsOk DEF RunQuickSort, Sorted
  <2> QED BY <1>4, <2>1, SortStep DEF RunQuickSort
<1>5. CASE RunMergeSort
  <2>1. SortedFrom(arr, MergeSort(arr), ArrayLength(arr)) BY <1>2, <1>5, SortsOk DEF RunMergeSort, Sorted
  <2> QED BY <1>5, <2>1, SortStep DEF RunMergeSort
<1>6. CASE RunDirectInsertSort
  <2>1. SortedFrom(arr, DirectInsertSort(arr), ArrayLength(arr))
    BY <1>2, <1>6, SortsOk DEF RunDirectInsertSort, Sorted
  <2> QED BY <1>6, <2>1, SortStep DEF RunDirectInsertSort
<1>7. CASE RunBinaryInsertSort
  <2>1. Shuffled(arr, BinaryInsertSort(arr), ArrayLength(arr), 0, ArrayLength(arr) - 1)
    BY <1>2, <1>7, SortsOk DEF RunBinaryInsertSort, Sorted
  <2> QED BY <1>7, <2>1, SortStep DEF RunBinaryInsertSort
<1>8. CASE RunShellSort
  <2>1. SortedFrom(arr, ShellSort(arr), ArrayLength(arr)) BY <1>2, <1>8, SortsOk DEF RunShellSort, Sorted
  <2> QED BY <1>8, <2>1, SortStep DEF RunShellSort
<1>9. CASE RunSelectSort
  <2>1. SortedFrom(arr, SelectSort(arr), ArrayLength(arr)) BY <1>2, <1>9, SortsOk DEF RunSelectSort, Sorted
  <2> QED BY <1>9, <2>1, SortStep DEF RunSelectSort
<1>10. CASE RunRadixSort
  <2>1. ran' = "radixSort" /\ UNCHANGED <<input, search>> BY <1>10 DEF RunRadixSort
  <2> QED BY <2>1 DEF SortOK, ComparisonSortsSort, SearchFinds
<1>11. CASE RunBinarySearch
  <2>1. ran = "selectSort" /\ ran' = "binarySearch" /\ UNCHANGED <<input, arr>>
    BY <1>11 DEF RunBinarySearch
  <2>2. SearchFinds' BY <1>11, SearchStep
  <2>3. ComparisonSortsSort' BY <2>1 DEF ComparisonSortsSort
  <2>4. (SortedFrom(input, arr, ArrayLength(input)))'
    BY <2>1 DEF SortOK, SortedFrom, ArrayLength, Shuffled, Ordered
  <2> QED BY <2>1, <2>2, <2>3, <2>4 DEF SortOK
<1> QED BY <1>1, <1>3, <1>4, <1>5, <1>6, <1>7, <1>8, <1>9, <1>10, <1>11 DEF SortNext

\* One object at a time: a step of the classes is a step of each of them, or leaves it alone.
LEMMA ClassSteps ==
  [AlgNext]_<<class, vars, containerVars, sorterVars, yuvVars>> =>
    [SortNext]_sorterVars /\ [ArrNext]_arrayVars
BY DEF AlgNext, ContNext, containerVars

\* Whatever the array and its length, BubbleSort, QuickSort, MergeSort, DirectInsertSort,
\* ShellSort and SimpleSelectSort leave it in ascending order with the elements it had, and
\* BinaryInsertSort with the elements it had.
THEOREM SortsAlwaysSort == AlgSpec => []ComparisonSortsSort
<1>1. AlgInit => SortOK BY SortInitOK DEF AlgInit
<1>2. SortOK /\ [AlgNext]_<<class, vars, containerVars, sorterVars, yuvVars>> => SortOK'
  BY SortNextOK, ClassSteps
<1>3. SortOK => ComparisonSortsSort BY DEF SortOK
<1> QED BY <1>1, <1>2, <1>3, PTL DEF AlgSpec

\* Whatever the array, a binary search after SimpleSelectSort finds what was in it; and so do
\* Array's and OrderArray's searches after any calls.
THEOREM SearchesAlwaysFind == AlgSpec => []SearchesFind
<1> DEFINE AllOK == SortOK /\ ArrShape /\ InOrder /\ ContainIsRight
<1>1. AlgInit => AllOK BY SortInitOK, ArrInitOK DEF AlgInit, ContInit
<1>2. AllOK /\ [AlgNext]_<<class, vars, containerVars, sorterVars, yuvVars>> => AllOK'
  <2> SUFFICES ASSUME AllOK, [AlgNext]_<<class, vars, containerVars, sorterVars, yuvVars>> PROVE AllOK'
    OBVIOUS
  <2>1. [SortNext]_sorterVars /\ [ArrNext]_arrayVars BY ClassSteps
  <2>2. SortOK' BY <2>1, SortNextOK
  <2>3. ArrShape' /\ InOrder' BY <2>1, ArrNextOrder
  <2>4. ContainIsRight' BY <2>1, ArrNextContain
  <2> QED BY <2>2, <2>3, <2>4
<1>3. AllOK => SearchesFind BY DEF SortOK, SearchesFind
<1> QED BY <1>1, <1>2, <1>3, PTL DEF AlgSpec
=============================================================================
