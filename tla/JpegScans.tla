------------------------------ MODULE JpegScans ------------------------------
(***************************************************************************)
(* The geometry of a JPEG image and of its scans, as libjpeg's compressor  *)
(* (jcmaster.c) and its decompressor (jdinput.c) both compute it, and the  *)
(* scripts of scans that the compressor accepts.                           *)
(*                                                                         *)
(* An image is a record                                                    *)
(*   [width, height, comps, script, optimize, restart_in_rows,             *)
(*    restart_interval, quality]                                           *)
(* where comps is the sequence of components in the order of the frame     *)
(* header, each [h, v, q, dc, ac] (sampling factors, table numbers),        *)
(* and script is the sequence of scans, <<>> when scan_info is NULL.  A    *)
(* scan is [comps, Ss, Se, Ah, Al], comps the indices of its components.   *)
(* Components are numbered from 1, rows, columns and coefficients from 0.  *)
(* Coefficients are in zigzag order.  DCTSIZE is the edge of a block in    *)
(* samples and DCTSIZE2 its number of coefficients; they are independent   *)
(* here, so that a small instance keeps blocks small and bands long.       *)
(***************************************************************************)
EXTENDS Integers, Sequences, FiniteSets, FiniteSetsExt, SequencesExt

CONSTANTS DCTSIZE, DCTSIZE2,
          MAX_DIMENSION,          \* JPEG_MAX_DIMENSION
          MAX_SAMP_FACTOR, MAX_COMPS_IN_SCAN,
          C_MAX_BLOCKS_IN_MCU,    \* blocks the single-MCU buffer holds
          MAX_AH_AL,              \* largest point transform in a script
          MAX_INTERVAL            \* the 65535 of a DRI marker

ASSUME ScansAssumption ==
    /\ DCTSIZE \in Nat \ {0} /\ DCTSIZE2 \in Nat \ {0}
    /\ MAX_DIMENSION \in Nat \ {0} /\ MAX_SAMP_FACTOR \in Nat \ {0}
    /\ MAX_COMPS_IN_SCAN \in Nat \ {0} /\ C_MAX_BLOCKS_IN_MCU \in Nat \ {0}
    /\ MAX_AH_AL \in Nat /\ MAX_INTERVAL \in Nat \ {0}

DivRoundUp(a, b) == (a + b - 1) \div b
RoundUp(a, b) == b * DivRoundUp(a, b)

\* What is left over of n blocks in their last group of m, m when none is.
LastGroup(n, m) == IF n % m = 0 THEN m ELSE n % m

-----------------------------------------------------------------------------
(* The frame.                                                              *)

Comps(img) == 1 .. Len(img.comps)
MaxH(img) == Max({1} \cup {img.comps[ci].h : ci \in Comps(img)})
MaxV(img) == Max({1} \cup {img.comps[ci].v : ci \in Comps(img)})

\* The checks of initial_setup that these parameters can fail.
SetupOk(img) ==
    /\ img.height \in 1 .. MAX_DIMENSION /\ img.width \in 1 .. MAX_DIMENSION
    /\ img.comps # <<>>
    /\ \A ci \in Comps(img) : /\ img.comps[ci].h \in 1 .. MAX_SAMP_FACTOR
                              /\ img.comps[ci].v \in 1 .. MAX_SAMP_FACTOR

WidthInBlocks(img, ci) ==
    DivRoundUp(img.width * img.comps[ci].h, MaxH(img) * DCTSIZE)
HeightInBlocks(img, ci) ==
    DivRoundUp(img.height * img.comps[ci].v, MaxV(img) * DCTSIZE)
TotalIMcuRows(img) == DivRoundUp(img.height, MaxV(img) * DCTSIZE)

-----------------------------------------------------------------------------
(* The script of scans.                                                    *)

\* The scan of a sequential image without a script: every component, whole.
WholeScan(img) == [comps |-> [ci \in Comps(img) |-> ci],
                   Ss |-> 0, Se |-> DCTSIZE2 - 1, Ah |-> 0, Al |-> 0]

NumScans(img) == IF img.script = <<>> THEN 1 ELSE Len(img.script)
ScanOf(img, n) == IF img.script = <<>> THEN WholeScan(img) ELSE img.script[n + 1]

InScan(scan, ci) == \E i \in DOMAIN scan.comps : scan.comps[i] = ci
Covers(scan, ci, k) == InScan(scan, ci) /\ k \in scan.Ss .. scan.Se

\* Progressive mode is decided by the first scan alone.
Progressive(img) ==
    /\ img.script # <<>>
    /\ img.script[1].Ss # 0 \/ img.script[1].Se # DCTSIZE2 - 1

\* last_bitpos: the point transform of the last of the first n scans that
\* covers coefficient k of component ci, -1 when none does.
LastBit(script, n, ci, k) ==
    LET sent == {m \in 1 .. n : Covers(script[m], ci, k)}
    IN  IF sent = {} THEN -1 ELSE script[Max(sent)].Al

ValidComponents(img, scan) ==
    /\ Len(scan.comps) \in 1 .. MAX_COMPS_IN_SCAN
    /\ \A i \in DOMAIN scan.comps :
          /\ scan.comps[i] \in Comps(img)
          /\ i > 1 => scan.comps[i] > scan.comps[i - 1]

ValidProgression(img, n) ==
    LET scan == img.script[n]
        last(ci, k) == LastBit(img.script, n - 1, ci, k)
    IN  /\ scan.Ss \in 0 .. DCTSIZE2 - 1 /\ scan.Se \in scan.Ss .. DCTSIZE2 - 1
        /\ scan.Ah \in 0 .. MAX_AH_AL /\ scan.Al \in 0 .. MAX_AH_AL
        /\ scan.Ss = 0 => scan.Se = 0
        /\ scan.Ss # 0 => Len(scan.comps) = 1
        /\ \A i \in DOMAIN scan.comps :
              LET ci == scan.comps[i]
              IN  /\ scan.Ss # 0 => last(ci, 0) >= 0
                  /\ \A k \in scan.Ss .. scan.Se :
                        IF last(ci, k) < 0
                        THEN scan.Ah = 0
                        ELSE scan.Ah = last(ci, k) /\ scan.Al = scan.Ah - 1

ValidSequential(img, n) ==
    LET scan == img.script[n]
    IN  /\ scan.Ss = 0 /\ scan.Se = DCTSIZE2 - 1 /\ scan.Ah = 0 /\ scan.Al = 0
        /\ \A i \in DOMAIN scan.comps : \A m \in 1 .. n - 1 :
              ~ InScan(img.script[m], scan.comps[i])

\* validate_script raises no error.
ValidScript(img) ==
    /\ \A n \in DOMAIN img.script :
          /\ ValidComponents(img, img.script[n])
          /\ IF Progressive(img) THEN ValidProgression(img, n)
                                 ELSE ValidSequential(img, n)
    /\ \A ci \in Comps(img) : LastBit(img.script, Len(img.script), ci, 0) >= 0

-----------------------------------------------------------------------------
(* The units of a scan: per_scan_setup.                                    *)

Interleaved(scan) == Len(scan.comps) > 1

McusPerRow(img, scan) ==
    IF Interleaved(scan) THEN DivRoundUp(img.width, MaxH(img) * DCTSIZE)
                         ELSE WidthInBlocks(img, scan.comps[1])

\* i is a position in scan.comps (an index of cur_comp_info).
McuWidth(img, scan, i) == IF Interleaved(scan) THEN img.comps[scan.comps[i]].h ELSE 1
McuHeight(img, scan, i) == IF Interleaved(scan) THEN img.comps[scan.comps[i]].v ELSE 1
LastColWidth(img, scan, i) ==
    LastGroup(WidthInBlocks(img, scan.comps[i]), McuWidth(img, scan, i))

\* In a scan of one component: its block rows in the last row of iMCUs.
LastRowHeight(img, scan, i) ==
    LastGroup(HeightInBlocks(img, scan.comps[i]), img.comps[scan.comps[i]].v)

\* MCU_membership: the position in the scan of each block of an MCU.
Membership(img, scan) ==
    FlattenSeq([i \in DOMAIN scan.comps |->
        [b \in 1 .. McuWidth(img, scan, i) * McuHeight(img, scan, i) |-> i]])
BlocksInMcu(img, scan) == Len(Membership(img, scan))

\* Places of the blocks of an MCU: component position, row and column in it.
Places(img, scan) ==
    FlattenSeq([i \in DOMAIN scan.comps |->
        [b \in 1 .. McuWidth(img, scan, i) * McuHeight(img, scan, i) |->
            [i |-> i, y |-> (b - 1) \div McuWidth(img, scan, i),
             x |-> (b - 1) % McuWidth(img, scan, i)]]])

\* Whether the block at place p of an MCU is one of the image, and does not
\* only pad it: MCU number mcu of the row at this offset in row r of iMCUs.
IsRealBlock(img, scan, r, offset, mcu, p) ==
    /\ \/ r < TotalIMcuRows(img) - 1
       \/ offset + p.y < LastRowHeight(img, scan, p.i)
    /\ \/ mcu < McusPerRow(img, scan) - 1
       \/ p.x < LastColWidth(img, scan, p.i)

ScanSetupOk(img, scan) ==
    Interleaved(scan) => /\ Len(scan.comps) <= MAX_COMPS_IN_SCAN
                         /\ BlocksInMcu(img, scan) <= C_MAX_BLOCKS_IN_MCU

\* The restart interval of a scan; restart_in_rows overrides the interval
\* set before, which the compression object keeps from scan to scan.
RestartInterval(img, scan, interval) ==
    IF img.restart_in_rows > 0
    THEN Min({img.restart_in_rows * McusPerRow(img, scan), MAX_INTERVAL})
    ELSE interval

\* start_iMCU_row: MCU rows that make up row r of iMCUs in a scan.
McuRowsPerIMcuRow(img, scan, r) ==
    IF Interleaved(scan) THEN 1
    ELSE IF r < TotalIMcuRows(img) - 1 THEN img.comps[scan.comps[1]].v
         ELSE LastRowHeight(img, scan, 1)
=============================================================================
