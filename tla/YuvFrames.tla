----------------------------- MODULE YuvFrames ------------------------------
(***************************************************************************)
(* The native conversions of HandleYUV (native_yuv.cpp): a frame of the    *)
(* camera is rotated and its colour format changed within one byte array.  *)
(* A byte is the index it had when the camera delivered it.                *)
(***************************************************************************)
EXTENDS Integers

CONSTANT FrameSizes    \* <<width, height>>

ASSUME FrameSizesAssumption ==
    \A s \in FrameSizes : /\ s[1] \in Nat \ {0} /\ s[1] % 2 = 0
                          /\ s[2] \in Nat \ {0} /\ s[2] % 2 = 0

VARIABLES
    frame,        \* format, size and bytes
    called        \* the last call: its name, degrees, and whether it was undone

yuvVars == <<frame, called>>

Frame(format, w, h, data) == [format |-> format, width |-> w, height |-> h, data |-> data]

FrameInit ==
    /\ \E s \in FrameSizes, f \in {"NV21", "YV12"} :
           frame = Frame(f, s[1], s[2], [k \in 0 .. (s[1] * s[2] * 3) \div 2 - 1 |-> k])
    /\ called = <<"none", 0, FALSE>>

-----------------------------------------------------------------------------
(* The functions.  d is the array, wh the number of luma bytes.            *)

NativeYV12ToNV21(d, wh) ==
    [k \in DOMAIN d |->
        LET i == (k - wh) \div 2
        IN  IF k < wh THEN d[k]
            ELSE IF (k - wh) % 2 = 1 THEN d[wh + wh \div 4 + i] ELSE d[wh + i]]

\* U and V change places in each pair.
NativeNV21ToYUV420sp(d, wh) ==
    [k \in DOMAIN d |->
        IF k < wh THEN d[k] ELSE IF (k - wh) % 2 = 0 THEN d[k + 1] ELSE d[k - 1]]

NativeNV21ToYUV420p(d, wh) ==
    [k \in DOMAIN d |->
        LET i == k - wh
        IN  IF k < wh THEN d[k]
            ELSE IF i < wh \div 4 THEN d[wh + 2 * i + 1] ELSE d[wh + 2 * (i - wh \div 4)]]

\* mutation: the chroma of a turned picture is read from the top
Pair90FromTop(k, w, h) == w * (k % (h \div 2)) + 2 * (k \div (h \div 2))

\* The luma byte and the chroma pair number k of the result: columns become
\* rows, from the left or from the right, and are read upwards.
Luma90(k, w, h) == w * (h - 1 - (k % h)) + k \div h
Pair90(k, w, h) == w * (h \div 2 - 1 - (k % (h \div 2))) + 2 * (k \div (h \div 2))

Luma180(k, w, h) == w * h - 1 - k
Pair180(k, w, h) == w * (h \div 2) - 2 - 2 * k

Luma270(k, w, h) == w * (h - 1 - (k % h)) + w - 1 - k \div h
Pair270(k, w, h) == w * (h \div 2 - 1 - (k % (h \div 2))) + w - 2 - 2 * (k \div (h \div 2))

\* A chroma pair keeps the order of its bytes.
Moved(d, wh, luma, pair) ==
    [k \in DOMAIN d |->
        IF k < wh THEN d[luma[k]] ELSE d[wh + pair[(k - wh) \div 2] + ((k - wh) % 2)]]

NativeRotateBackNV21(d, w, h, degree) ==
    LET wh == w * h
        fromY == [k \in 0 .. wh - 1 |->
                    IF degree = 90 THEN Luma90(k, w, h)
                    ELSE IF degree = 180 THEN Luma180(k, w, h) ELSE Luma270(k, w, h)]
        fromUV == [k \in 0 .. wh \div 4 - 1 |->
                    IF degree = 90 THEN Pair90(k, w, h)
                    ELSE IF degree = 180 THEN Pair180(k, w, h) ELSE Pair270(k, w, h)]
    IN  Moved(d, wh, fromY, fromUV)

-----------------------------------------------------------------------------
(* A call.  GetByteArrayElements gives the elements or a copy of them, as  *)
(* the virtual machine likes.  The result is set into the array; then the  *)
(* elements are released, and a copy, which the function has only read, is *)
(* written back over the result.                                           *)
NativeReturns(name, degree, result) ==
    \E copied \in BOOLEAN :
        /\ frame' = IF copied THEN frame ELSE result
        /\ called' = <<name, degree, copied>>

LumaLength == frame.width * frame.height

YV12ToNV21 ==
    /\ frame.format = "YV12"
    /\ NativeReturns("YV12ToNV21", 0,
               Frame("NV21", frame.width, frame.height,
                     NativeYV12ToNV21(frame.data, LumaLength)))

NV21ToYUV420sp ==
    /\ frame.format = "NV21"
    /\ NativeReturns("NV21ToYUV420sp", 0,
               Frame("YUV420sp", frame.width, frame.height,
                     NativeNV21ToYUV420sp(frame.data, LumaLength)))

NV21ToYUV420p ==
    /\ frame.format = "NV21"
    /\ NativeReturns("NV21ToYUV420p", 0,
               Frame("YUV420p", frame.width, frame.height,
                     NativeNV21ToYUV420p(frame.data, LumaLength)))

RotateBackNV21(degree) ==
    /\ frame.format = "NV21"
    /\ NativeReturns("RotateBackNV21", degree,
               Frame("NV21",
                     IF degree = 180 THEN frame.width ELSE frame.height,
                     IF degree = 180 THEN frame.height ELSE frame.width,
                     NativeRotateBackNV21(frame.data, frame.width, frame.height, degree)))

\* nativeRotateFrontNV21 is not declared extern "C": Java does not find it.
RotateFrontNV21 ==
    /\ frame.format = "NV21"
    /\ called' = <<"UnsatisfiedLinkError", 0, FALSE>> /\ UNCHANGED frame

FrameNext ==
    \/ YV12ToNV21 \/ NV21ToYUV420sp \/ NV21ToYUV420p
    \/ \E degree \in {90, 180, 270} : RotateBackNV21(degree)
    \/ RotateFrontNV21

FrameSpec == FrameInit /\ [][FrameNext]_yuvVars

-----------------------------------------------------------------------------
(* What the formats mean: three planes as functions of row and column.     *)

Grid(h, w) == (0 .. h - 1) \X (0 .. w - 1)

\* Where chroma sample n of a quarter plane of q is.
U(format, n, q) ==
    CASE format = "YV12" -> q + n
      [] format = "NV21" -> 2 * n + 1
      [] format = "YUV420sp" -> 2 * n
      [] format = "YUV420p" -> n
V(format, n, q) ==
    CASE format = "YV12" -> n
      [] format = "NV21" -> 2 * n
      [] format = "YUV420sp" -> 2 * n + 1
      [] format = "YUV420p" -> q + n

Picture(f) ==
    LET w == f.width
        wh == f.width * f.height
        chroma == Grid(f.height \div 2, w \div 2)
        N(p) == (w \div 2) * p[1] + p[2]
    IN  [y |-> [p \in Grid(f.height, w) |-> f.data[w * p[1] + p[2]]],
         u |-> [p \in chroma |-> f.data[wh + U(f.format, N(p), wh \div 4)]],
         v |-> [p \in chroma |-> f.data[wh + V(f.format, N(p), wh \div 4)]]]

\* A plane of h rows and w columns turned clockwise by 90 degrees.
Turned(plane, h, w) == [p \in Grid(w, h) |-> plane[<<h - 1 - p[2], p[1]>>]]

\* The plane turned by the degrees.
Expected(plane, h, w, degree) ==
    CASE degree = 0 -> plane
      [] degree = 90 -> Turned(plane, h, w)
      [] degree = 180 -> Turned(Turned(plane, h, w), w, h)
      [] degree = 270 -> Turned(Turned(Turned(plane, h, w), w, h), h, w)

\* A step after which the frame shows what it showed, luma and both chroma planes turned alike.
ShowsPictureTurned(degree) ==
    LET old == Picture(frame)
        new == Picture(frame')
        h == frame.height
        w == frame.width
    IN  /\ new.y = Expected(old.y, h, w, degree)
        /\ new.u = Expected(old.u, h \div 2, w \div 2, degree)
        /\ new.v = Expected(old.v, h \div 2, w \div 2, degree)

(***************************************************************************)
(* In any sequence of conversions each one that works on the elements of   *)
(* the array itself shows the same picture in the new format, or the       *)
(* picture turned by 90 or 180 degrees; one that Java does not find leaves *)
(* the frame as it was (native_yuv.cpp:15-108, 174-218).                   *)
(***************************************************************************)
PicturesKept ==
    [][IF called'[1] = "UnsatisfiedLinkError" THEN frame' = frame
       ELSE ~called'[3] /\ called'[2] # 270 => ShowsPictureTurned(called'[2])]_yuvVars

\* YuvUtils.java:24 names 90, 180 and 270 as degrees of one rotation.  Violated: the loops of
\* native_yuv.cpp:219-235 take columns and rows both from the end, so that left and right
\* are exchanged as well.
TurnedBy270 == [][~called'[3] /\ called'[2] = 270 => ShowsPictureTurned(270)]_yuvVars

\* The format a function is called for.
FormatAfter ==
    [YV12ToNV21 |-> "NV21", NV21ToYUV420sp |-> "YUV420sp", NV21ToYUV420p |-> "YUV420p",
     RotateBackNV21 |-> "NV21"]

\* A conversion that returns success is in the array: native_yuv.cpp:39, 70, 102 and 237 say
\* that the result overwrites it.  Violated where GetByteArrayElements gives a copy: releasing
\* it with mode 0 (lines 41, 72, 104 and 240) writes the old bytes back over the result.
ReturnedIsConverted ==
    [][called'[1] \in DOMAIN FormatAfter /\ called'[2] # 270 =>
         /\ frame'.format = FormatAfter[called'[1]]
         /\ ShowsPictureTurned(called'[2])]_yuvVars
=============================================================================
