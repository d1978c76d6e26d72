------------------------------ MODULE JpegProofs ------------------------------
(***************************************************************************)
(* Proofs about JpegCompress: the rows of an image are accounted for in    *)
(* every call, suspended or not, the passes end with the last scan of the  *)
(* script, and the correction bits of a refinement fit their buffer; for   *)
(* every image, every number of rows in a call and every block size, alone *)
(* and as one half of JpegFile.                                            *)
(***************************************************************************)
EXTENDS JpegFile, FiniteSetTheorems, SequenceTheorems, WellFoundedInduction, TLAPS

InCall == pc \in {"process", "encode"}
Held == IF suspended THEN 1 ELSE 0

\* A row of iMCUs is full and waits for the compressor.
Full == rowgroup_ctr = DCTSIZE

CompressTypes ==
    /\ pc \in {"app", "process", "encode", "passes", "crank"}
    /\ global_state \in {"START", "SCANNING"}
    /\ img \in Images /\ optimize_coding \in BOOLEAN
    /\ rows_to_go \in Nat /\ next_scanline \in Nat /\ num_lines \in Nat /\ in_row_ctr \in Nat
    /\ rowgroup_ctr \in Nat /\ cur_iMCU_row \in Nat /\ suspended \in BOOLEAN
    /\ next_buf_row \in Nat /\ color_buf \in Seq(Int)
    /\ scan_number \in Nat /\ pass_number \in Nat /\ total_passes \in Nat
    /\ is_last_pass \in BOOLEAN

\* The library is in a call only while an image is under way.
CallInv == pc # "app" => global_state = "SCANNING"

\* What the counters of jcapistd.c, jcprepct.c and jcmainct.c have in
\* common; the conversion buffer is never left full.
CountInv ==
    /\ SetupOk(img)
    /\ rows_to_go + next_scanline + (IF InCall THEN in_row_ctr ELSE 0) + Held = img.height
    /\ InCall => in_row_ctr <= num_lines /\ next_scanline + num_lines <= img.height
    /\ Len(color_buf) = next_buf_row /\ next_buf_row < MaxV(img)

\* Where a full row of iMCUs can be: it waits between calls only if the one
\* before was suspended, and it has taken a row of a call that was not.
RowInv ==
    /\ rowgroup_ctr <= DCTSIZE
    /\ Full => cur_iMCU_row < TotalIMcuRows(img)
    /\ suspended => Full
    /\ pc = "encode" => Full
    /\ ~ InCall /\ ~ suspended => ~ Full
    /\ InCall /\ ~ suspended /\ Full => in_row_ctr >= 1
    /\ InCall /\ suspended => in_row_ctr = 0 /\ num_lines >= 1

RowsInv == CompressTypes /\ CallInv /\ (global_state = "SCANNING" => CountInv /\ RowInv)

\* The pass that pass_number counts, from the scan and the kind of pass.
PassInv ==
    /\ total_passes = IF optimize_coding THEN 2 * NumScans(img) ELSE NumScans(img)
    /\ error = "none" /\ pc \notin {"passes", "crank"} =>
          pass_type = "main" /\ scan_number = 0 /\ pass_number = 0
          /\ is_last_pass = (total_passes = 1)
    /\ pc \in {"passes", "crank"} =>
          /\ pass_type \in {"huff_opt", "output"}
          /\ ~ optimize_coding => pass_type = "output" /\ pass_number = scan_number
          /\ optimize_coding =>
                pass_number = 2 * scan_number + (IF pass_type = "output" THEN 1 ELSE 0)
    /\ pc = "passes" => pass_number <= total_passes /\ is_last_pass = (pass_number = total_passes)
    /\ pc = "crank" =>
          pass_number < total_passes /\ is_last_pass = (pass_number = total_passes - 1)

PassesInv == RowsInv /\ (global_state = "SCANNING" => PassInv)


-----------------------------------------------------------------------------
(* Images and extremes of sets.                                            *)

\* The smaller of two numbers, as the code's comparisons choose it.
LEMMA MinOfTwo ==
  ASSUME NEW a \in Int, NEW b \in Int
  PROVE  Min({a, b}) = IF a <= b THEN a ELSE b
<1>1. CASE a <= b
  <2>1. /\ a \in {a, b} /\ \A y \in {a, b} : a <= y
        /\ \A x \in {a, b} : (\A y \in {a, b} : x <= y) => x = a
    BY <1>1
  <2> QED
    BY <1>1, <2>1 DEF Min
<1>2. CASE ~ (a <= b)
  <2>1. /\ b \in {a, b} /\ \A y \in {a, b} : b <= y
        /\ \A x \in {a, b} : (\A y \in {a, b} : x <= y) => x = b
    BY <1>2
  <2> QED
    BY <1>2, <2>1 DEF Min
<1> QED
  BY <1>1, <1>2

\* A nonempty set of numbers with a bound has a maximum.
LEMMA MaxOfBounded ==
  ASSUME NEW S \in SUBSET Nat, S # {}, NEW n \in Nat, \A s \in S : s <= n
  PROVE  Max(S) \in S /\ \A s \in S : s <= Max(S)
<1> DEFINE Above(x) == {y \in S : y > x}
           Family == {Above(x) : x \in S}
<1>1. Family # {} /\ Family \subseteq FiniteSubsetsOf(S)
  <2>1. IsFiniteSet(S)
    BY FS_BoundedSetOfNaturals
  <2>2. \A x \in S : Above(x) \in SUBSET S /\ IsFiniteSet(Above(x))
    BY <2>1, FS_Subset
  <2> QED
    BY <2>2 DEF FiniteSubsetsOf
<1>2. PICK least \in Family : \A A \in Family : ~ (<<A, least>> \in StrictSubsetOrdering(S))
  <2> HIDE DEF Family
  <2> QED
    BY <1>1, FS_StrictSubsetOrderingWellFounded, WFMin
<1>3. PICK x \in S : least = Above(x)
  OBVIOUS
<1>4. ASSUME NEW y \in S, y > x PROVE FALSE
  <2>1. Above(y) \subseteq Above(x) /\ y \in Above(x) /\ y \notin Above(y)
    <3>1. \A z \in S : z \in Int
      OBVIOUS
    <3>2. x \in Int /\ y \in Int /\ y > x
      BY <1>4, <3>1
    <3>3. ASSUME NEW z \in S, z > y PROVE z > x
      BY <3>1, <3>2, <3>3
    <3>4. ~ (y > y)
      BY <3>2
    <3> HIDE DEF Family
    <3>5. Above(y) \subseteq Above(x)
      BY <3>3
    <3>6. y \in Above(x)
      BY <3>2
    <3>7. y \notin Above(y)
      BY <3>4
    <3> QED
      BY <3>5, <3>6, <3>7
  <2>2. Above(y) \in SUBSET S /\ Above(x) \in SUBSET S
    OBVIOUS
  <2>3. Above(y) \in Family
    OBVIOUS
  <2> HIDE DEF Above, Family
  <2>4. <<Above(y), Above(x)>> \in StrictSubsetOrdering(S)
    BY <2>1, <2>2 DEF StrictSubsetOrdering
  <2> QED
    BY <1>2, <1>3, <2>3, <2>4
<1>5. \E m \in S : \A y \in S : m >= y
  BY <1>4
<1> QED
  BY <1>5 DEF Max

LEMMA ImageFacts ==
  ASSUME NEW image \in Images
  PROVE  /\ image.height \in Nat /\ image.optimize \in BOOLEAN
         /\ NumScans(image) \in Nat \ {0}
         /\ SetupOk(image) => MaxV(image) \in Nat \ {0} /\ image.height >= 1
<1>1. image.height \in Nat /\ image.optimize \in BOOLEAN
  BY DEF Images
<1>2. NumScans(image) \in Nat \ {0}
  BY DEF Images, NumScans
<1>3. ASSUME SetupOk(image) PROVE MaxV(image) \in Nat \ {0} /\ image.height >= 1
  <2> DEFINE S == {1} \cup {image.comps[ci].v : ci \in Comps(image)}
  <2>1. \A ci \in Comps(image) : image.comps[ci].v \in 1 .. MAX_SAMP_FACTOR
    BY <1>3 DEF SetupOk
  <2>2. S \in SUBSET Nat /\ 1 \in S /\ \A s \in S : s <= MAX_SAMP_FACTOR
    BY <2>1, ScansAssumption
  <2>3. MAX_SAMP_FACTOR \in Nat
    BY ScansAssumption
  <2> HIDE DEF S
  <2>4. Max(S) \in S /\ Max(S) >= 1
    BY <2>2, <2>3, MaxOfBounded
  <2>5. MaxV(image) = Max(S)
    BY DEF MaxV, S
  <2>6. image.height >= 1
    BY <1>3, <1>1 DEF SetupOk
  <2> QED
    <3>1. PICK m \in S : m = Max(S) /\ m >= 1
      BY <2>4
    <3>2. m \in Nat /\ m # 0
      BY <2>2, <3>1
    <3> QED
      BY <2>5, <2>6, <3>1, <3>2
<1> QED
  BY <1>1, <1>2, <1>3

-----------------------------------------------------------------------------
(* Type correctness.                                                       *)

LEMMA TypesStart ==
  ASSUME CInit
  PROVE  CompressTypes /\ global_state = "START" /\ pc = "app"
<1>1. NoImage \in Images
  BY DEF NoImage, Images
<1>2. <<>> \in Seq(Int)
  OBVIOUS
<1> QED
  BY <1>1, <1>2 DEF CInit, CompressTypes

LEMMA TypesAfterStart ==
  ASSUME CompressTypes, NEW all \in BOOLEAN, StartCompress(all)
  PROVE  CompressTypes'
<1> USE DEF CompressTypes
<1> DEFINE optimize == optimize_coding \/ Progressive(img)
<1>1. img.height \in Nat /\ NumScans(img) \in Nat
  BY ImageFacts
<1>2. optimize \in BOOLEAN
  BY DEF Progressive
<1>3. <<>> \in Seq(Int)
  OBVIOUS
<1> HIDE DEF optimize
<1>4. CASE ~ (SetupOk(img) /\ (img.script = <<>> \/ ValidScript(img)))
  <2>1. /\ Fails("BadParameters") /\ UNCHANGED optimize_coding
    BY <1>4 DEF StartCompress
  <2> QED
    BY <2>1 DEF Fails, callVars, masterVars, prepVars, mainVars
<1>5. CASE SetupOk(img) /\ (img.script = <<>> \/ ValidScript(img))
           /\ ~ ScanReady(optimize, ScanOf(img, 0))
  <2>1. /\ Fails("BadScan") /\ optimize_coding' = optimize
    BY <1>5 DEF StartCompress, optimize
  <2> QED
    BY <1>2, <2>1 DEF Fails, callVars, masterVars, prepVars, mainVars
<1>6. CASE SetupOk(img) /\ (img.script = <<>> \/ ValidScript(img))
           /\ ScanReady(optimize, ScanOf(img, 0))
  <2>1. /\ optimize_coding' = optimize /\ scan_number' = 0 /\ pass_number' = 0
        /\ total_passes' = IF optimize THEN 2 * NumScans(img) ELSE NumScans(img)
        /\ is_last_pass' = (total_passes' = 1)
        /\ PrepareMainPass(optimize)
        /\ color_buf' = <<>> /\ next_scanline' = 0 /\ num_lines' = 0 /\ in_row_ctr' = 0
        /\ global_state' = "SCANNING" /\ UNCHANGED <<img, pc>>
    BY <1>6 DEF StartCompress, optimize
  <2>2. /\ rows_to_go' = img.height /\ next_buf_row' = 0
        /\ rowgroup_ctr' = 0 /\ cur_iMCU_row' = 0 /\ suspended' = FALSE
    BY <2>1 DEF PrepareMainPass
  <2>3. total_passes' \in Nat
    BY <1>1, <1>2, <2>1
  <2> QED
    BY <1>1, <1>2, <1>3, <2>1, <2>2, <2>3
<1> QED
  BY <1>4, <1>5, <1>6

-----------------------------------------------------------------------------
(* The rows of an image.                                                   *)

\* expand_bottom_edge fills a buffer to the number of rows asked for.
LEMMA ExpandFills ==
  ASSUME NEW rows \in Seq(Int), rows # <<>>, NEW n \in Nat, Len(rows) <= n
  PROVE  ExpandBottomEdge(rows, n) \in Seq(Int) /\ Len(ExpandBottomEdge(rows, n)) = n
<1>1. Last(rows) \in Int
  BY DEF Last
<1> DEFINE k == n - Len(rows)
           more == [i \in 1 .. k |-> Last(rows)]
<1>2. k \in Nat /\ Len(rows) + k = n
  OBVIOUS
<1> HIDE DEF k
<1>3. more \in Seq(Int) /\ Len(more) = k
  BY <1>1, <1>2
<1>4. ExpandBottomEdge(rows, n) = rows \o more
  BY DEF ExpandBottomEdge, k
<1> HIDE DEF more
<1> QED
  BY <1>2, <1>3, <1>4

\* A turn of the loop takes at least one row, no more than the call was
\* given and no more than the image has left.
LEMMA RowsTaken ==
  ASSUME RowsInv, PreProcessData
  PROVE  \E n \in Nat \ {0} :
            /\ in_row_ctr' = in_row_ctr + n /\ n <= num_lines - in_row_ctr
            /\ rows_to_go' = rows_to_go - n /\ n <= rows_to_go
            /\ color_buf' \in Seq(Int) /\ next_buf_row' \in Nat
            /\ Len(color_buf') = next_buf_row' /\ next_buf_row' < MaxV(img)
            /\ rowgroup_ctr' \in {rowgroup_ctr, rowgroup_ctr + 1, DCTSIZE}
<1>1. /\ CompressTypes /\ CountInv /\ RowInv /\ pc = "process" /\ rowgroup_ctr < DCTSIZE
      /\ in_row_ctr < num_lines
  BY DEF RowsInv, CallInv, PreProcessData
<1>2. ~ suspended
  BY <1>1 DEF RowInv, Full, CompressTypes
<1>3. MaxV(img) \in Nat \ {0} /\ img.height \in Nat
  BY <1>1, ImageFacts DEF CompressTypes, CountInv
<1> DEFINE numrows == Min({MaxV(img) - next_buf_row, num_lines - in_row_ctr})
           taken == color_buf \o [i \in 1 .. numrows |-> next_scanline + in_row_ctr + i - 1]
           bottom == rows_to_go = numrows
           buf == IF bottom THEN ExpandBottomEdge(taken, MaxV(img)) ELSE taken
           full == Len(buf) = MaxV(img)
<1>4. /\ in_row_ctr' = in_row_ctr + numrows /\ rows_to_go' = rows_to_go - numrows
      /\ next_buf_row' = (IF full THEN 0 ELSE Len(buf))
      /\ color_buf' = (IF full THEN <<>> ELSE buf)
      /\ rowgroup_ctr' = (IF bottom THEN DCTSIZE ELSE IF full THEN rowgroup_ctr + 1
                          ELSE rowgroup_ctr)
  BY DEF PreProcessData
<1>5. PICK n \in Nat \ {0} : /\ n = numrows
                            /\ n <= MaxV(img) - next_buf_row /\ n <= num_lines - in_row_ctr
  <2>1. PICK a \in Int, b \in Int : a = MaxV(img) - next_buf_row /\ b = num_lines - in_row_ctr
    BY <1>1, <1>3 DEF CompressTypes
  <2>2. a >= 1 /\ b >= 1
    BY <1>1, <1>3, <2>1 DEF CompressTypes, CountInv
  <2>3. numrows = Min({a, b})
    BY <2>1
  <2> HIDE DEF numrows
  <2> QED
    BY <2>1, <2>2, <2>3, MinOfTwo
<1> HIDE DEF numrows
<1>6. n <= rows_to_go
  <2>1. rows_to_go + next_scanline + in_row_ctr = img.height
    BY <1>1, <1>2, <1>3 DEF CountInv, InCall, Held, CompressTypes
  <2>2. next_scanline + num_lines <= img.height
    BY <1>1 DEF CountInv, InCall
  <2> QED
    BY <1>1, <1>3, <1>5, <2>1, <2>2 DEF CompressTypes
<1>7. taken \in Seq(Int) /\ Len(taken) = next_buf_row + n /\ taken # <<>>
  <2> DEFINE new == [i \in 1 .. n |-> next_scanline + in_row_ctr + i - 1]
  <2>1. new \in Seq(Int) /\ Len(new) = n
    <3>1. next_scanline + in_row_ctr \in Int
      BY <1>1 DEF CompressTypes
    <3> QED
      BY <1>5, <3>1
  <2>2. taken = color_buf \o new
    BY <1>5
  <2>3. color_buf \in Seq(Int) /\ Len(color_buf) = next_buf_row /\ next_buf_row \in Nat
    BY <1>1 DEF CompressTypes, CountInv
  <2> HIDE DEF new, taken, buf, full, bottom
  <2>4. taken \in Seq(Int) /\ Len(taken) = Len(color_buf) + Len(new)
    BY <2>1, <2>2, <2>3, ConcatProperties
  <2>5. Len(taken) = next_buf_row + n
    BY <2>1, <2>3, <2>4
  <2>6. taken # <<>>
    BY <1>5, <2>3, <2>5, EmptySeq
  <2> QED
    BY <2>4, <2>5, <2>6
<1> HIDE DEF taken
<1>8. buf \in Seq(Int) /\ Len(buf) \in Nat /\ Len(buf) <= MaxV(img)
  <2>1. next_buf_row + n <= MaxV(img)
    BY <1>1, <1>3, <1>5 DEF CompressTypes
  <2>2. CASE bottom
    BY <1>3, <1>7, <2>1, <2>2, ExpandFills
  <2>3. CASE ~ bottom
    BY <1>7, <2>1, <2>3
  <2> QED
    BY <2>2, <2>3
<1> HIDE DEF buf, bottom
<1>9. color_buf' \in Seq(Int) /\ Len(color_buf') = next_buf_row'
  BY <1>4, <1>8
<1>10. next_buf_row' \in Nat /\ next_buf_row' < MaxV(img)
  BY <1>3, <1>4, <1>8
<1>11. rowgroup_ctr' \in {rowgroup_ctr, rowgroup_ctr + 1, DCTSIZE}
  BY <1>4
<1> QED
  BY <1>4, <1>5, <1>6, <1>9, <1>10, <1>11

\* The variables the invariants speak of, but for where the call is and for
\* the count of passes.
countVars == <<img, optimize_coding, global_state, next_scanline, num_lines, in_row_ctr,
             rows_to_go, next_buf_row, color_buf, rowgroup_ctr, cur_iMCU_row, suspended>>
countedPasses == <<pass_type, scan_number, pass_number, total_passes, is_last_pass>>

LEMMA RowsStay ==
  ASSUME RowsInv, UNCHANGED <<countVars, countedPasses, pc>>
  PROVE  RowsInv'
BY DEF RowsInv, CompressTypes, CallInv, CountInv, RowInv, countVars, countedPasses, InCall, Held, Full

\* Outside the loop of a call the rows are as they were, whatever the passes
\* do and whether or not the image goes on.
LEMMA RowsStayInPasses ==
  ASSUME RowsInv, UNCHANGED countVars,
         pc \in {"app", "passes", "crank"}, pc' \in {"app", "passes", "crank"},
         pc' # "app" => global_state = "SCANNING",
         scan_number' \in Nat, pass_number' \in Nat, total_passes' \in Nat,
         is_last_pass' \in BOOLEAN
  PROVE  RowsInv'
<1>1. CompressTypes'
  BY DEF RowsInv, CompressTypes, countVars
<1>2. CallInv'
  BY DEF CallInv, countVars
<1>3. ASSUME global_state' = "SCANNING" PROVE CountInv' /\ RowInv'
  BY <1>3 DEF RowsInv, CountInv, RowInv, countVars, InCall, Held, Full
<1> QED
  BY <1>1, <1>2, <1>3 DEF RowsInv

LEMMA StartCountsRows ==
  ASSUME RowsInv, NEW all \in BOOLEAN, StartCompress(all)
  PROVE  RowsInv'
<1>1. /\ CompressTypes' /\ CompressTypes /\ pc = "app" /\ global_state = "START"
  BY TypesAfterStart DEF RowsInv, StartCompress, Idle
<1>2. CASE global_state' # "SCANNING"
  <2>1. pc' = "app"
    <3>1. CASE ~ (SetupOk(img) /\ (img.script = <<>> \/ ValidScript(img)))
      BY <3>1 DEF StartCompress, Fails
    <3>2. CASE SetupOk(img) /\ (img.script = <<>> \/ ValidScript(img))
      BY <1>1, <3>2 DEF StartCompress, Fails
    <3> QED
      BY <3>1, <3>2
  <2> QED
    BY <1>1, <1>2, <2>1 DEF RowsInv, CallInv
<1>3. CASE global_state' = "SCANNING"
  <2>1. PICK optimize : /\ SetupOk(img) /\ PrepareMainPass(optimize) /\ color_buf' = <<>>
                        /\ next_scanline' = 0 /\ num_lines' = 0 /\ in_row_ctr' = 0
                        /\ UNCHANGED <<img, pc>>
    BY <1>1, <1>3 DEF StartCompress, Fails
  <2>2. /\ rows_to_go' = img.height /\ next_buf_row' = 0
        /\ rowgroup_ctr' = 0 /\ cur_iMCU_row' = 0 /\ suspended' = FALSE
    BY <2>1 DEF PrepareMainPass
  <2>3. MaxV(img) \in Nat \ {0} /\ img.height \in Nat /\ DCTSIZE \in Nat \ {0}
    BY <1>1, <2>1, ImageFacts, ScansAssumption DEF CompressTypes
  <2>4. ~ InCall' /\ Held' = 0 /\ ~ Full'
    BY <1>1, <2>1, <2>2, <2>3 DEF InCall, Held, Full
  <2>5. MaxV(img)' = MaxV(img)
    BY <2>1 DEF MaxV, Comps
  <2>6. CountInv'
    <3>1. Len(color_buf') = 0
      BY <2>1
    <3>2. SetupOk(img)'
      BY <2>1 DEF SetupOk, Comps
    <3> QED
      BY <2>1, <2>2, <2>3, <2>4, <2>5, <3>1, <3>2 DEF CountInv
  <2>7. RowInv'
    BY <1>1, <2>1, <2>2, <2>3, <2>4 DEF RowInv, InCall
  <2> QED
    BY <1>1, <1>3, <2>6, <2>7 DEF RowsInv, CallInv
<1> QED
  BY <1>2, <1>3

LEMMA CallCountsRows ==
  ASSUME RowsInv, NEW lines \in LineCounts, WriteScanlines(lines)
  PROVE  RowsInv'
<1>1. /\ CompressTypes /\ CountInv /\ RowInv /\ pc = "app" /\ next_scanline < img.height
      /\ in_row_ctr' = 0 /\ pc' = "process" /\ global_state = "SCANNING"
      /\ num_lines' = Min({lines, img.height - next_scanline})
      /\ UNCHANGED <<img, optimize_coding, global_state, next_scanline, rows_to_go, next_buf_row,
                     color_buf, rowgroup_ctr, cur_iMCU_row, suspended, countedPasses>>
  BY DEF RowsInv, WriteScanlines, Idle, paramVars, prepVars, mainVars, countedPasses
<1>2. PICK given \in Nat : /\ num_lines' = given /\ given >= 1
                          /\ next_scanline + given <= img.height
  <2>1. PICK left \in Int : left = img.height - next_scanline /\ left >= 1
    BY <1>1, ImageFacts DEF CompressTypes
  <2>2. lines \in Nat /\ lines >= 1
    BY CompressAssumption
  <2>3. num_lines' = Min({lines, left})
    BY <1>1, <2>1
  <2>4. next_scanline \in Nat /\ img.height \in Nat
    BY <1>1, ImageFacts DEF CompressTypes
  <2> QED
    BY <2>1, <2>2, <2>3, <2>4, MinOfTwo
<1>3. CompressTypes'
  BY <1>1, <1>2 DEF CompressTypes, countedPasses
<1>4. CountInv'
  BY <1>1, <1>2 DEF CountInv, InCall, Held, SetupOk, Comps, MaxV, CompressTypes
<1>5. RowInv'
  BY <1>1, <1>2 DEF RowInv, InCall, Full, TotalIMcuRows, MaxV, Comps
<1> QED
  BY <1>1, <1>3, <1>4, <1>5 DEF RowsInv, CallInv

LEMMA TakingCountsRows ==
  ASSUME RowsInv, PreProcessData
  PROVE  RowsInv'
<1>1. /\ CompressTypes /\ CountInv /\ RowInv /\ pc = "process" /\ global_state = "SCANNING"
      /\ rowgroup_ctr < DCTSIZE /\ cur_iMCU_row < TotalIMcuRows(img)
      /\ UNCHANGED <<img, optimize_coding, global_state, pc, next_scanline, num_lines,
                     cur_iMCU_row, suspended, countedPasses>>
  BY DEF RowsInv, CallInv, PreProcessData, paramVars, masterVars, countedPasses
<1>2. PICK n \in Nat \ {0} :
            /\ in_row_ctr' = in_row_ctr + n /\ n <= num_lines - in_row_ctr
            /\ rows_to_go' = rows_to_go - n /\ n <= rows_to_go
            /\ color_buf' \in Seq(Int) /\ next_buf_row' \in Nat
            /\ Len(color_buf') = next_buf_row' /\ next_buf_row' < MaxV(img)
            /\ rowgroup_ctr' \in {rowgroup_ctr, rowgroup_ctr + 1, DCTSIZE}
  BY RowsTaken
<1>3. ~ suspended /\ ~ suspended' /\ DCTSIZE \in Nat
  BY <1>1, ScansAssumption DEF RowInv, Full, CompressTypes
<1>4. CompressTypes'
  BY <1>1, <1>2, <1>3 DEF CompressTypes, countedPasses
<1>5. CountInv'
  <2>1. rows_to_go + next_scanline + in_row_ctr = img.height
    BY <1>1, <1>3, ImageFacts DEF CountInv, InCall, Held, CompressTypes
  <2>2. rows_to_go' + next_scanline' + in_row_ctr' = img.height'
    BY <1>1, <1>2, <2>1, ImageFacts DEF CompressTypes
  <2>3. rows_to_go' + next_scanline' + (IF InCall' THEN in_row_ctr' ELSE 0) + Held' = img.height'
    <3>1. InCall' /\ Held' = 0 BY <1>1, <1>3 DEF InCall, Held
    <3>2. rows_to_go' \in Nat /\ next_scanline' \in Nat /\ in_row_ctr' \in Nat
      BY <1>4 DEF CompressTypes
    <3> QED BY <2>2, <3>1, <3>2
  <2>4. in_row_ctr' <= num_lines' /\ next_scanline' + num_lines' <= img.height'
    BY <1>1, <1>2 DEF CountInv, InCall, CompressTypes
  <2> QED
    BY <1>1, <1>2, <2>3, <2>4 DEF CountInv, SetupOk, Comps, MaxV
<1>6. RowInv'
  BY <1>1, <1>2, <1>3 DEF RowInv, InCall, Full, TotalIMcuRows, MaxV, Comps, CompressTypes
<1> QED
  BY <1>1, <1>4, <1>5, <1>6 DEF RowsInv, CallInv

\* A call that returns gives its rows back to the count of the application.
LEMMA ReturnCountsRows ==
  ASSUME RowsInv, WriteScanlinesReturns
  PROVE  RowsInv'
<1>1. /\ CompressTypes /\ CountInv /\ RowInv /\ pc = "process" /\ global_state = "SCANNING"
      /\ cur_iMCU_row = TotalIMcuRows(img) \/ rowgroup_ctr < DCTSIZE
      /\ pc' = "app" /\ next_scanline' = next_scanline + in_row_ctr
      /\ UNCHANGED <<img, optimize_coding, global_state, num_lines, in_row_ctr, rows_to_go,
                     next_buf_row, color_buf, rowgroup_ctr, cur_iMCU_row, suspended,
                     countedPasses>>
  BY DEF RowsInv, CallInv, WriteScanlinesReturns, paramVars, masterVars, prepVars, mainVars,
         countedPasses
<1>2. ~ Full
  BY <1>1, ScansAssumption DEF RowInv, Full, CompressTypes
<1>3. CompressTypes'
  BY <1>1 DEF CompressTypes, countedPasses
<1>4. CountInv'
  <2>1. ~ suspended /\ ~ suspended'
    BY <1>1, <1>2 DEF RowInv
  <2>2. rows_to_go + next_scanline + in_row_ctr = img.height
    BY <1>1, <2>1, ImageFacts DEF CountInv, InCall, Held, CompressTypes
  <2>3. rows_to_go' + next_scanline' + (IF InCall' THEN in_row_ctr' ELSE 0) + Held' = img.height'
    BY <1>1, <2>1, <2>2, ImageFacts DEF InCall, Held, CompressTypes
  <2> QED
    BY <1>1, <2>3 DEF CountInv, SetupOk, Comps, MaxV, InCall
<1>5. RowInv'
  BY <1>1, <1>2 DEF RowInv, InCall, Full, TotalIMcuRows, MaxV, Comps
<1> QED
  BY <1>1, <1>3, <1>4, <1>5 DEF RowsInv, CallInv

LEMMA SendingCountsRows ==
  ASSUME RowsInv, SendIMcuRow
  PROVE  RowsInv'
<1>1. /\ CompressTypes /\ CountInv /\ RowInv /\ pc = "process" /\ global_state = "SCANNING"
      /\ Full /\ pc' = "encode" /\ UNCHANGED <<countVars, countedPasses>>
  BY DEF RowsInv, CallInv, SendIMcuRow, Full, paramVars, callVars, masterVars, prepVars, mainVars,
         countVars, countedPasses
<1>2. CompressTypes'
  BY <1>1 DEF CompressTypes, countVars, countedPasses
<1>3. CountInv' /\ RowInv'
  BY <1>1 DEF CountInv, RowInv, countVars, InCall, Held, Full
<1> QED
  BY <1>1, <1>2, <1>3 DEF RowsInv, CallInv, countVars

\* The compressor took the row of iMCUs: a row held back is counted now.
LEMMA CodingCountsRows ==
  ASSUME RowsInv, IMcuRowCoded
  PROVE  RowsInv'
<1>1. /\ CompressTypes /\ CountInv /\ RowInv /\ pc = "encode" /\ global_state = "SCANNING"
      /\ pc' = "process" /\ in_row_ctr' = (IF suspended THEN in_row_ctr + 1 ELSE in_row_ctr)
      /\ suspended' = FALSE /\ rowgroup_ctr' = 0 /\ cur_iMCU_row' = cur_iMCU_row + 1
      /\ UNCHANGED <<img, optimize_coding, global_state, next_scanline, num_lines, rows_to_go,
                     next_buf_row, color_buf, countedPasses>>
  BY DEF RowsInv, CallInv, IMcuRowCoded, paramVars, masterVars, prepVars, countedPasses
<1>2. DCTSIZE \in Nat \ {0}
  BY ScansAssumption
<1>3. CompressTypes'
  <2>1. in_row_ctr' \in Nat /\ cur_iMCU_row' \in Nat
    BY <1>1 DEF CompressTypes
  <2>2. pc' \in {"app", "process", "encode", "passes", "crank"} /\ suspended' \in BOOLEAN
    BY <1>1
  <2> QED
    BY <1>1, <2>1, <2>2 DEF CompressTypes, countedPasses
<1>4. rows_to_go + next_scanline + in_row_ctr' = img.height /\ in_row_ctr' <= num_lines
  <2>1. CASE suspended
    <3>1. rows_to_go + next_scanline + 1 = img.height /\ in_row_ctr' = 1 /\ num_lines >= 1
      BY <1>1, <2>1, ImageFacts DEF CountInv, RowInv, InCall, Held, CompressTypes
    <3> QED
      BY <3>1
  <2>2. CASE ~ suspended
    BY <1>1, <2>2, ImageFacts DEF CountInv, InCall, Held, CompressTypes
  <2> QED
    BY <2>1, <2>2
<1>5. CountInv'
  <2>1. rows_to_go' + next_scanline' + (IF InCall' THEN in_row_ctr' ELSE 0) + Held' = img.height'
    BY <1>1, <1>3, <1>4, ImageFacts DEF InCall, Held, CompressTypes
  <2> QED
    BY <1>1, <1>4, <2>1 DEF CountInv, SetupOk, Comps, MaxV, InCall
<1>6. RowInv'
  BY <1>1, <1>2 DEF RowInv, InCall, Full
<1> QED
  BY <1>1, <1>3, <1>5, <1>6 DEF RowsInv, CallInv

\* A call that is suspended holds one row back, however often it is
\* suspended in the same row of iMCUs.
LEMMA SuspensionCountsRows ==
  ASSUME RowsInv, Suspend
  PROVE  RowsInv'
<1>1. /\ CompressTypes /\ CountInv /\ RowInv /\ pc = "encode" /\ global_state = "SCANNING"
      /\ in_row_ctr' = (IF suspended THEN in_row_ctr ELSE in_row_ctr - 1)
      /\ suspended' = TRUE /\ next_scanline' = next_scanline + in_row_ctr' /\ pc' = "app"
      /\ UNCHANGED <<img, optimize_coding, global_state, num_lines, rows_to_go, next_buf_row,
                     color_buf, rowgroup_ctr, cur_iMCU_row, countedPasses>>
  BY DEF RowsInv, CallInv, Suspend, HeldBack, paramVars, masterVars, prepVars, countedPasses
<1>2. in_row_ctr' \in Nat /\ Full
  BY <1>1 DEF RowInv, InCall, CompressTypes
<1>3. CompressTypes'
  BY <1>1, <1>2 DEF CompressTypes, countedPasses
<1>4. rows_to_go + next_scanline' + 1 = img.height
  <2>1. CASE suspended
    BY <1>1, <2>1, ImageFacts DEF CountInv, RowInv, InCall, Held, CompressTypes
  <2>2. CASE ~ suspended
    <3>1. rows_to_go + next_scanline + in_row_ctr = img.height
      BY <1>1, <2>2, ImageFacts DEF CountInv, InCall, Held, CompressTypes
    <3>2. in_row_ctr' = in_row_ctr - 1
      BY <1>1, <2>2
    <3> QED
      BY <1>1, <3>1, <3>2, ImageFacts DEF CompressTypes
  <2> QED
    BY <2>1, <2>2
<1>5. CountInv'
  <2>1. rows_to_go' + next_scanline' + (IF InCall' THEN in_row_ctr' ELSE 0) + Held' = img.height'
    BY <1>1, <1>3, <1>4, ImageFacts DEF InCall, Held, CompressTypes
  <2> QED
    BY <1>1, <2>1 DEF CountInv, SetupOk, Comps, MaxV, InCall
<1>6. RowInv'
  BY <1>1, <1>2 DEF RowInv, InCall, Full, TotalIMcuRows, MaxV, Comps
<1> QED
  BY <1>1, <1>3, <1>5, <1>6 DEF RowsInv, CallInv

-----------------------------------------------------------------------------
(* The passes leave the rows alone.                                        *)

LEMMA FinishedPassTypes ==
  ASSUME CompressTypes, FinishPassMaster
  PROVE  scan_number' \in Nat /\ pass_number' \in Nat
BY DEF CompressTypes, FinishPassMaster

LEMMA PreparedPassTypes ==
  ASSUME CompressTypes, PreparePass
  PROVE  pass_number' \in Nat /\ is_last_pass' \in BOOLEAN
<1>1. CASE Gathers
  BY <1>1 DEF CompressTypes, PreparePass, PrepareGatherPass
<1>2. CASE ~ Gathers
  <2>1. pass_number' = PassOfOutput
    BY <1>2 DEF PreparePass, PrepareOutputPass
  <2> QED
    BY <2>1 DEF CompressTypes, PreparePass, PassOfOutput
<1> QED
  BY <1>1, <1>2

LEMMA PassesCountRows ==
  ASSUME RowsInv, FinishCompress \/ PreparePass \/ PassFails \/ PassEnds
  PROVE  RowsInv'
<1>1. CompressTypes
  BY DEF RowsInv
<1>2. CASE FinishCompress
  <2>1. /\ UNCHANGED countVars /\ UNCHANGED <<total_passes, is_last_pass>>
        /\ pc = "app" /\ pc' = "passes" /\ global_state = "SCANNING"
    BY <1>2 DEF FinishCompress, Idle, paramVars, callVars, prepVars, mainVars, countVars
  <2>2. scan_number' \in Nat /\ pass_number' \in Nat
    BY <1>1, <1>2, FinishedPassTypes DEF FinishCompress
  <2> QED
    BY <1>1, <2>1, <2>2, RowsStayInPasses DEF CompressTypes
<1>3. CASE PreparePass
  <2>1. /\ UNCHANGED countVars /\ UNCHANGED <<total_passes, scan_number>>
        /\ pc = "passes" /\ pc' = "crank" /\ global_state = "SCANNING"
    BY <1>3 DEF RowsInv, CallInv, PreparePass, callVars, prepVars, mainVars, countVars
  <2> QED
    BY <1>1, <1>3, <2>1, PreparedPassTypes, RowsStayInPasses DEF CompressTypes
<1>4. CASE PassFails
  <2>1. /\ UNCHANGED countVars /\ UNCHANGED <<total_passes, scan_number, pass_number, is_last_pass>>
        /\ pc = "passes" /\ pc' = "app"
    BY <1>4 DEF PassFails, Fails, callVars, masterVars, prepVars, mainVars, countVars
  <2> QED
    BY <1>1, <2>1, RowsStayInPasses DEF CompressTypes
<1>5. CASE PassEnds
  <2>1. /\ UNCHANGED countVars /\ UNCHANGED <<total_passes, is_last_pass>>
        /\ pc = "crank" /\ pc' = "passes" /\ global_state = "SCANNING"
    BY <1>5 DEF RowsInv, CallInv, PassEnds, paramVars, callVars, prepVars, mainVars, countVars
  <2>2. scan_number' \in Nat /\ pass_number' \in Nat
    BY <1>1, <1>5, FinishedPassTypes DEF PassEnds
  <2> QED
    BY <1>1, <2>1, <2>2, RowsStayInPasses DEF CompressTypes
<1> QED
  BY <1>2, <1>3, <1>4, <1>5

-----------------------------------------------------------------------------
(* The rows, whatever the application does.                                *)

\* The calls that have to do with neither rows nor passes.
OtherCall == SuppressTables \/ WriteTables \/ WriteMarker \/ CompressMcu \/ IMcuRowOutput

LEMMA OtherCallsStay ==
  ASSUME OtherCall
  PROVE  UNCHANGED <<countVars, countedPasses, pc, error>>
<1> USE DEF countVars, countedPasses, paramVars, callVars, masterVars, prepVars, mainVars
<1>1. CASE SuppressTables
  BY <1>1 DEF SuppressTables
<1>2. CASE WriteTables
  BY <1>2 DEF WriteTables
<1>3. CASE WriteMarker
  BY <1>3 DEF WriteMarker
<1>4. CASE CompressMcu
  BY <1>4 DEF CompressMcu
<1>5. CASE IMcuRowOutput
  BY <1>5 DEF IMcuRowOutput
<1> QED
  BY <1>1, <1>2, <1>3, <1>4, <1>5 DEF OtherCall

LEMMA EndsCountRows ==
  ASSUME RowsInv, Abort \/ CannotSuspend \/ WriteTrailer
  PROVE  RowsInv'
<1> USE DEF countVars, countedPasses, paramVars, callVars, masterVars, prepVars, mainVars
<1>1. CompressTypes
  BY DEF RowsInv
<1>2. CASE CannotSuspend
  <2>1. /\ UNCHANGED <<countVars, countedPasses>> /\ pc' = "app" /\ pc \in {"passes", "crank"}
    BY <1>2 DEF CannotSuspend
  <2> QED
    BY <1>1, <2>1, RowsStayInPasses DEF CompressTypes
<1>3. CASE Abort \/ WriteTrailer
  <2>1. /\ global_state' = "START" /\ pc' = "app"
        /\ UNCHANGED <<img, optimize_coding, callVars, prepVars, mainVars, countedPasses>>
    <3>1. CASE Abort
      BY <3>1 DEF Abort
    <3>2. CASE WriteTrailer
      BY <3>2 DEF WriteTrailer
    <3> QED
      BY <1>3, <3>1, <3>2
  <2>2. CompressTypes'
    BY <1>1, <2>1 DEF CompressTypes
  <2> QED
    BY <2>1, <2>2 DEF RowsInv, CallInv
<1> QED
  BY <1>2, <1>3

LEMMA StepCountsRows ==
  ASSUME RowsInv, CNext
  PROVE  RowsInv'
<1>1. ASSUME NEW s \in Settings, SetParameters(s) PROVE RowsInv'
  <2>1. /\ CompressTypes /\ global_state = "START" /\ pc = "app"
        /\ img' = s /\ optimize_coding' = s.optimize
        /\ UNCHANGED <<global_state, pc, callVars, countedPasses, prepVars, mainVars>>
    BY <1>1 DEF RowsInv, SetParameters, Idle, masterVars, countedPasses
  <2>2. s \in Images /\ s.optimize \in BOOLEAN
    BY CompressAssumption, ImageFacts
  <2>3. CompressTypes'
    BY <2>1, <2>2 DEF CompressTypes, callVars, prepVars, mainVars, countedPasses
  <2> QED
    BY <2>1, <2>3 DEF RowsInv, CallInv
<1>2. ASSUME NEW all \in BOOLEAN, StartCompress(all) PROVE RowsInv'
  BY <1>2, StartCountsRows
<1>3. ASSUME NEW lines \in LineCounts, WriteScanlines(lines) PROVE RowsInv'
  BY <1>3, CallCountsRows
<1>4. CASE OtherCall
  BY <1>4, OtherCallsStay, RowsStay
<1>5. CASE Abort \/ CannotSuspend \/ WriteTrailer
  BY <1>5, EndsCountRows
<1>6. CASE FinishCompress \/ PreparePass \/ PassFails \/ PassEnds
  BY <1>6, PassesCountRows
<1>7. CASE PreProcessData
  BY <1>7, TakingCountsRows
<1>8. CASE WriteScanlinesReturns
  BY <1>8, ReturnCountsRows
<1>9. CASE SendIMcuRow
  BY <1>9, SendingCountsRows
<1>10. CASE IMcuRowCoded
  BY <1>10, CodingCountsRows
<1>11. CASE Suspend
  BY <1>11, SuspensionCountsRows
<1> QED
  BY <1>1, <1>2, <1>3, <1>4, <1>5, <1>6, <1>7, <1>8, <1>9, <1>10, <1>11
     DEF CNext, LibraryStep, OtherCall

LEMMA RowsInvIsEnough ==
  ASSUME RowsInv
  PROVE  RowsAccounted
<1>1. SUFFICES ASSUME global_state = "SCANNING" PROVE RowsAccounted
  BY DEF RowsAccounted
<1> DEFINE inCall == IF pc \in {"process", "encode"} THEN in_row_ctr ELSE 0
           held == IF suspended THEN 1 ELSE 0
<1>2. CompressTypes /\ CountInv
  BY <1>1 DEF RowsInv
<1>3. rows_to_go + next_scanline + inCall + held = img.height
  BY <1>2 DEF CountInv, InCall, Held
<1>4. rows_to_go >= 0 /\ next_scanline >= 0 /\ inCall >= 0
  BY <1>2 DEF CompressTypes
<1>5. pc \in {"process", "encode"} => in_row_ctr <= num_lines
  BY <1>2 DEF CountInv, InCall
<1> QED
  BY <1>3, <1>4, <1>5 DEF RowsAccounted

-----------------------------------------------------------------------------
(* JpegFile takes steps of the compression object, or leaves it as it is   *)
(* but for the file that is carried away.                                  *)

LEMMA FileStepsCompress ==
  ASSUME [FNext]_fvars
  PROVE  CNext \/ UNCHANGED <<countVars, countedPasses, pc, error>>
<1> USE DEF countVars, countedPasses, paramVars, callVars, masterVars, prepVars, mainVars
<1>1. CASE Deliver
  BY <1>1 DEF Deliver, cvars
<1>2. CASE Discard
  BY <1>2 DEF Discard
<1>3. CASE Compresses
  BY <1>3 DEF Compresses
<1>4. CASE Reads
  BY <1>4 DEF Reads, cvars
<1>5. CASE UNCHANGED fvars
  BY <1>5 DEF fvars, cvars
<1> QED
  BY <1>1, <1>2, <1>3, <1>4, <1>5 DEF FNext, Done

LEMMA StartCounts ==
  ASSUME CInit
  PROVE  RowsInv
BY TypesStart DEF RowsInv, CallInv

\* Every source row of an image is in one place: what jcapistd.c counts for the application, jcprepct.c for
\* the image and jcmainct.c for the call agree in every state, whatever the
\* size of blocks and images, the rows in a call and the suspensions.
THEOREM ObjectAccountsForRows == CSpec => []RowsAccounted
<1>1. CInit => RowsInv
  BY StartCounts
<1>2. RowsInv /\ [CNext]_cvars => RowsInv'
  <2>1. ASSUME UNCHANGED cvars PROVE UNCHANGED <<countVars, countedPasses, pc>>
    BY <2>1 DEF cvars, countVars, countedPasses, paramVars, callVars, masterVars, prepVars, mainVars
  <2> QED
    BY <2>1, StepCountsRows, RowsStay
<1>3. RowsInv => RowsAccounted
  BY RowsInvIsEnough
<1> QED
  BY <1>1, <1>2, <1>3, PTL DEF CSpec

\* The same with the file carried to a reader and losses on its way.
THEOREM RowsAreAccounted == FSpec => []RowsAccounted
<1>1. FInit => RowsInv
  BY StartCounts DEF FInit
<1>2. RowsInv /\ [FNext]_fvars => RowsInv'
  BY FileStepsCompress, StepCountsRows, RowsStay
<1>3. RowsInv => RowsAccounted
  BY RowsInvIsEnough
<1> QED
  BY <1>1, <1>2, <1>3, PTL DEF FSpec

-----------------------------------------------------------------------------
(* The passes.                                                             *)

LEMMA PassesStay ==
  ASSUME PassesInv, UNCHANGED <<countVars, countedPasses, pc, error>>
  PROVE  PassesInv'
<1>1. RowsInv'
  BY RowsStay DEF PassesInv
<1>2. PassInv => PassInv'
  BY DEF PassInv, countVars, countedPasses
<1> QED
  BY <1>1, <1>2 DEF PassesInv, countVars

\* In the calls of the first pass nothing is counted.
LEMMA FirstPassCountsNothing ==
  ASSUME PassesInv, RowsInv', UNCHANGED <<img, optimize_coding, global_state, countedPasses, error>>,
         pc' \notin {"passes", "crank"},
         pc \in {"passes", "crank"} => error' # "none"
  PROVE  PassesInv'
<1>1. ASSUME global_state' = "SCANNING" PROVE PassInv'
  <2>1. PassInv
    BY <1>1 DEF PassesInv
  <2> QED
    BY <2>1 DEF PassInv, countedPasses
<1> QED
  BY <1>1 DEF PassesInv

LEMMA FailureCountsNothing ==
  ASSUME PassesInv, RowsInv', UNCHANGED <<img, optimize_coding, global_state, countedPasses>>,
         pc' = "app", error' # "none"
  PROVE  PassesInv'
<1>1. ASSUME global_state' = "SCANNING" PROVE PassInv'
  <2>1. PassInv
    BY <1>1 DEF PassesInv
  <2> QED
    BY <2>1 DEF PassInv, countedPasses
<1> QED
  BY <1>1 DEF PassesInv

LEMMA StartCountsPasses ==
  ASSUME PassesInv, RowsInv', NEW all \in BOOLEAN, StartCompress(all)
  PROVE  PassesInv'
<1>1. CompressTypes /\ global_state = "START" /\ pc = "app" /\ error = "none"
  BY DEF PassesInv, RowsInv, StartCompress, Idle
<1>2. ASSUME global_state' = "SCANNING" PROVE PassInv'
  <2>1. PICK optimize \in BOOLEAN :
           /\ optimize_coding' = optimize
           /\ pass_type' = "main" /\ scan_number' = 0 /\ pass_number' = 0
           /\ total_passes' = (IF optimize THEN 2 * NumScans(img) ELSE NumScans(img))
           /\ is_last_pass' = (total_passes' = 1)
           /\ UNCHANGED <<img, pc, error>>
    <3>1. (optimize_coding \/ Progressive(img)) \in BOOLEAN
      BY <1>1 DEF CompressTypes, Progressive
    <3> QED
      BY <1>1, <1>2, <3>1 DEF StartCompress, Fails
  <2>2. NumScans(img)' = NumScans(img)
    BY <2>1 DEF NumScans
  <2>3. pc' = "app"
    BY <1>1, <2>1
  <2> QED
    BY <2>1, <2>2, <2>3 DEF PassInv
<1> QED
  BY <1>2 DEF PassesInv

LEMMA BetweenPasses ==
  ASSUME PassInv, UNCHANGED <<img, optimize_coding, total_passes>>, pc' = "passes",
         pass_type' \in {"huff_opt", "output"},
         ~ optimize_coding => pass_type' = "output" /\ pass_number' = scan_number',
         optimize_coding =>
            pass_number' = 2 * scan_number' + (IF pass_type' = "output" THEN 1 ELSE 0),
         pass_number' <= total_passes, is_last_pass' = (pass_number' = total_passes)
  PROVE  PassInv'
<1>1. total_passes' = IF optimize_coding' THEN 2 * NumScans(img)' ELSE NumScans(img)'
  BY DEF PassInv, NumScans
<1> QED
  BY <1>1 DEF PassInv

LEMMA WithinPass ==
  ASSUME PassInv, UNCHANGED <<img, optimize_coding, total_passes>>, pc' = "crank",
         pass_type' \in {"huff_opt", "output"},
         ~ optimize_coding => pass_type' = "output" /\ pass_number' = scan_number',
         optimize_coding =>
            pass_number' = 2 * scan_number' + (IF pass_type' = "output" THEN 1 ELSE 0),
         pass_number' < total_passes, is_last_pass' = (pass_number' = total_passes - 1)
  PROVE  PassInv'
<1>1. total_passes' = IF optimize_coding' THEN 2 * NumScans(img)' ELSE NumScans(img)'
  BY DEF PassInv, NumScans
<1> QED
  BY <1>1 DEF PassInv

\* The end of a pass, of the first one or of another.
LEMMA FinishCountsPasses ==
  ASSUME PassesInv, RowsInv', FinishCompress \/ PassEnds
  PROVE  PassesInv'
<1>1. /\ CompressTypes /\ PassInv /\ FinishPassMaster /\ pc' = "passes"
      /\ UNCHANGED <<img, optimize_coding, total_passes, is_last_pass>>
  <2>1. CASE FinishCompress
    BY <2>1 DEF PassesInv, RowsInv, FinishCompress, paramVars
  <2>2. CASE PassEnds
    BY <2>2 DEF PassesInv, RowsInv, CallInv, PassEnds, paramVars
  <2> QED
    BY <2>1, <2>2
<1>2. /\ pass_type' = (IF pass_type = "output" /\ optimize_coding THEN "huff_opt" ELSE "output")
      /\ scan_number' = (IF pass_type = "output" \/ (pass_type = "main" /\ ~ optimize_coding)
                         THEN scan_number + 1 ELSE scan_number)
      /\ pass_number' = pass_number + 1
  BY <1>1 DEF FinishPassMaster
<1>3. NumScans(img) \in Nat \ {0}
  BY <1>1, ImageFacts DEF CompressTypes
<1>4. /\ pc = "app" => error = "none"
      /\ pc \in {"app", "crank"}
  BY DEF FinishCompress, PassEnds, Idle
<1>5. PICK N \in Nat \ {0} : N = NumScans(img)
  BY <1>3
<1>6. total_passes = IF optimize_coding THEN 2 * N ELSE N
  BY <1>1, <1>5 DEF PassInv
<1>7. ASSUME pc = "app" PROVE PassInv'
  <2>1. pass_type = "main" /\ scan_number = 0 /\ pass_number = 0
        /\ is_last_pass = (total_passes = 1)
    BY <1>1, <1>4, <1>7 DEF PassInv
  <2>2. /\ pass_type' = "output" /\ pass_number' = 1
        /\ scan_number' = IF optimize_coding THEN 0 ELSE 1
    BY <1>1, <1>2, <2>1 DEF CompressTypes
  <2>3. 1 <= total_passes
    BY <1>1, <1>6 DEF CompressTypes
  <2>4. is_last_pass' = (pass_number' = total_passes)
    <3>1. (pass_number' = total_passes) <=> (total_passes = 1)
      BY <2>2
    <3> QED
      BY <1>1, <2>1, <3>1
  <2>5. ~ optimize_coding => pass_number' = scan_number'
    BY <2>2
  <2>6. optimize_coding =>
            pass_number' = 2 * scan_number' + (IF pass_type' = "output" THEN 1 ELSE 0)
    BY <2>2
  <2>7. pass_number' <= total_passes
    BY <2>2, <2>3
  <2> QED
    BY <1>1, <2>2, <2>4, <2>5, <2>6, <2>7, BetweenPasses
<1>8. ASSUME pc = "crank" PROVE PassInv'
  <2>1. /\ pass_type \in {"huff_opt", "output"}
        /\ ~ optimize_coding => pass_type = "output" /\ pass_number = scan_number
        /\ optimize_coding =>
              pass_number = 2 * scan_number + (IF pass_type = "output" THEN 1 ELSE 0)
        /\ pass_number < total_passes /\ is_last_pass = (pass_number = total_passes - 1)
    BY <1>1, <1>8 DEF PassInv
  <2>2. pass_number' <= total_passes
    BY <1>1, <1>2, <2>1 DEF CompressTypes
  <2>3. is_last_pass' = (pass_number' = total_passes)
    <3>1. (pass_number' = total_passes) <=> (pass_number = total_passes - 1)
      BY <1>1, <1>2 DEF CompressTypes
    <3> QED
      BY <1>1, <2>1, <3>1
  <2>4. CASE ~ optimize_coding
    <3>1. pass_type' = "output" /\ pass_number' = scan_number'
      BY <1>2, <2>1, <2>4
    <3> QED
      BY <1>1, <2>2, <2>3, <2>4, <3>1, BetweenPasses
  <2>5. CASE optimize_coding
    <3>1. pass_type' \in {"huff_opt", "output"}
      BY <1>2
    <3>2. pass_number' = 2 * scan_number' + (IF pass_type' = "output" THEN 1 ELSE 0)
      <4>1. CASE pass_type = "output"
        BY <1>1, <1>2, <2>1, <2>5, <4>1 DEF CompressTypes
      <4>2. CASE pass_type = "huff_opt"
        BY <1>1, <1>2, <2>1, <2>5, <4>2 DEF CompressTypes
      <4> QED
        BY <2>1, <4>1, <4>2
    <3> QED
      BY <1>1, <2>2, <2>3, <2>5, <3>1, <3>2, BetweenPasses
  <2> QED
    BY <1>1, <2>4, <2>5 DEF CompressTypes
<1>9. PassInv'
  BY <1>4, <1>7, <1>8
<1> QED
  BY <1>9 DEF PassesInv

LEMMA PrepareCountsPasses ==
  ASSUME PassesInv, RowsInv', PreparePass
  PROVE  PassesInv'
<1>1. /\ CompressTypes /\ PassInv /\ pc = "passes" /\ ~ is_last_pass /\ pc' = "crank"
      /\ is_last_pass' = (pass_number' = total_passes - 1)
      /\ UNCHANGED <<img, optimize_coding, scan_number, total_passes>>
  BY DEF PassesInv, RowsInv, CallInv, PreparePass
<1>2. /\ pass_type \in {"huff_opt", "output"}
      /\ ~ optimize_coding => pass_type = "output" /\ pass_number = scan_number
      /\ optimize_coding =>
            pass_number = 2 * scan_number + (IF pass_type = "output" THEN 1 ELSE 0)
      /\ pass_number <= total_passes /\ is_last_pass = (pass_number = total_passes)
  BY <1>1 DEF PassInv
<1>3. pass_number < total_passes
  <2>1. pass_number # total_passes
    BY <1>1, <1>2
  <2> QED
    BY <1>1, <1>2, <2>1 DEF CompressTypes
<1>4. PICK N \in Nat \ {0} : N = NumScans(img)
  BY <1>1, ImageFacts DEF CompressTypes
<1>5. total_passes = IF optimize_coding THEN 2 * N ELSE N
  BY <1>1, <1>4 DEF PassInv
<1>6. SUFFICES PassInv'
  BY DEF PassesInv
<1>7. CASE Gathers
  <2>1. pass_type = "huff_opt" /\ UNCHANGED <<pass_type, pass_number>>
    BY <1>7 DEF Gathers, PreparePass, PrepareGatherPass
  <2> QED
    BY <1>1, <1>2, <1>3, <2>1, WithinPass
<1>8. CASE ~ Gathers
  <2>1. pass_type' = "output"
        /\ pass_number' = IF pass_type = "huff_opt" THEN pass_number + 1 ELSE pass_number
    BY <1>8 DEF PreparePass, PrepareOutputPass, PassOfOutput
  <2>2. CASE pass_type = "output"
    BY <1>1, <1>2, <1>3, <2>1, <2>2, WithinPass
  <2>3. CASE pass_type = "huff_opt"
    <3>1. optimize_coding /\ pass_number = 2 * scan_number /\ pass_number' = pass_number + 1
      BY <1>1, <1>2, <2>1, <2>3 DEF CompressTypes
    <3>2. pass_number' < total_passes
      <4>1. total_passes = 2 * N
        BY <1>5, <3>1
      <4>2. PICK n \in Nat : n = scan_number
        BY <1>1 DEF CompressTypes
      <4>3. 2 * n < 2 * N
        BY <1>3, <3>1, <4>1, <4>2
      <4>4. 2 * n + 1 < 2 * N
        BY <4>3
      <4> QED
        BY <3>1, <4>1, <4>2, <4>4
    <3> QED
      BY <1>1, <2>1, <3>1, <3>2, WithinPass
  <2> QED
    BY <1>2, <2>2, <2>3
<1> QED
  BY <1>7, <1>8

LEMMA StepCountsPasses ==
  ASSUME PassesInv, CNext
  PROVE  PassesInv'
<1> USE DEF paramVars, masterVars, countedPasses
<1>1. RowsInv /\ RowsInv' /\ CompressTypes /\ CallInv
  BY StepCountsRows DEF PassesInv, RowsInv
<1>2. ASSUME NEW s \in Settings, SetParameters(s) PROVE PassesInv'
  <2>1. global_state' = "START"
    BY <1>2 DEF SetParameters
  <2> QED
    BY <1>1, <2>1 DEF PassesInv
<1>3. ASSUME NEW all \in BOOLEAN, StartCompress(all) PROVE PassesInv'
  BY <1>1, <1>3, StartCountsPasses
<1>4. ASSUME NEW lines \in LineCounts, WriteScanlines(lines) PROVE PassesInv'
  <2>1. /\ UNCHANGED <<img, optimize_coding, global_state, countedPasses, error>>
        /\ pc = "app" /\ pc' = "process"
    BY <1>4 DEF WriteScanlines, Idle
  <2> QED
    BY <1>1, <2>1, FirstPassCountsNothing
<1>5. CASE OtherCall
  BY <1>5, OtherCallsStay, PassesStay
<1>6. CASE Abort \/ WriteTrailer
  <2>1. global_state' = "START"
    BY <1>6 DEF Abort, WriteTrailer
  <2> QED
    BY <1>1, <2>1 DEF PassesInv
<1>7. CASE CannotSuspend \/ PassFails
  <2>1. /\ UNCHANGED <<img, optimize_coding, global_state, countedPasses>>
        /\ pc' = "app" /\ error' # "none"
    BY <1>7 DEF CannotSuspend, PassFails, Fails
  <2> QED
    BY <1>1, <2>1, FailureCountsNothing
<1>8. CASE FinishCompress \/ PassEnds
  BY <1>1, <1>8, FinishCountsPasses
<1>9. CASE PreparePass
  BY <1>1, <1>9, PrepareCountsPasses
<1>10. CASE PreProcessData \/ WriteScanlinesReturns \/ SendIMcuRow \/ IMcuRowCoded \/ Suspend
  <2>1. /\ UNCHANGED <<img, optimize_coding, global_state, countedPasses, error>>
        /\ pc \in {"process", "encode"} /\ pc' \in {"app", "process", "encode"}
    BY <1>10 DEF PreProcessData, WriteScanlinesReturns, SendIMcuRow, IMcuRowCoded, Suspend
  <2> QED
    BY <1>1, <2>1, FirstPassCountsNothing
<1> QED
  BY <1>2, <1>3, <1>4, <1>5, <1>6, <1>7, <1>8, <1>9, <1>10
     DEF CNext, LibraryStep, OtherCall

LEMMA PassesInvIsEnough ==
  ASSUME PassesInv
  PROVE  EveryScanIsWritten
<1>1. SUFFICES ASSUME pc \in {"passes", "crank"} PROVE EveryScanIsWritten
  BY DEF EveryScanIsWritten
<1>2. CompressTypes /\ PassInv
  BY <1>1 DEF PassesInv, RowsInv, CallInv
<1>3. PICK N \in Nat \ {0}, n \in Nat, p \in Nat, total \in Nat :
         N = NumScans(img) /\ n = scan_number /\ p = pass_number /\ total = total_passes
  BY <1>2, ImageFacts DEF CompressTypes
<1>4. /\ total = IF optimize_coding THEN 2 * N ELSE N
      /\ ~ optimize_coding => p = n
      /\ optimize_coding => p = 2 * n + (IF pass_type = "output" THEN 1 ELSE 0)
      /\ pc = "passes" => p <= total /\ is_last_pass = (p = total)
      /\ pc = "crank" => p < total
  BY <1>1, <1>2, <1>3 DEF PassInv
<1>5. p < total <=> n < N
  <2>1. CASE ~ optimize_coding
    BY <1>4, <2>1
  <2>2. CASE optimize_coding
    <3>1. total = 2 * N /\ (p = 2 * n \/ p = 2 * n + 1)
      BY <1>4, <2>2
    <3> QED
      BY <3>1
  <2> QED
    BY <1>2, <2>1, <2>2 DEF CompressTypes
<1>6. (n < N) <=> ~ (pc = "passes" /\ is_last_pass)
  <2>1. CASE pc = "crank"
    BY <1>4, <1>5, <2>1
  <2>2. CASE pc = "passes"
    <3>1. p = total <=> ~ (p < total)
      BY <1>4, <2>2
    <3>2. is_last_pass <=> ~ (p < total)
      BY <1>2, <1>4, <2>2, <3>1 DEF CompressTypes
    <3> QED
      BY <1>5, <2>2, <3>2
  <2> QED
    BY <1>1, <2>1, <2>2
<1> QED
  BY <1>3, <1>6 DEF EveryScanIsWritten

\* The passes of an image end with the last scan of its script, neither
\* before it nor after it: what total_passes counts at the start and what
\* pass_number counts on the way (jcmaster.c) agree for every script,
\* optimized or not, with any number of DC refinements in it.
THEOREM EveryScanIsCounted == FSpec => []EveryScanIsWritten
<1>1. FInit => PassesInv
  BY StartCounts, TypesStart DEF FInit, PassesInv
<1>2. PassesInv /\ [FNext]_fvars => PassesInv'
  BY FileStepsCompress, StepCountsPasses, PassesStay
<1>3. PassesInv => EveryScanIsWritten
  BY PassesInvIsEnough
<1> QED
  BY <1>1, <1>2, <1>3, PTL DEF FSpec

-----------------------------------------------------------------------------
(* Loops over the coefficients of a band.                                  *)

\* Every nonempty set of naturals has a least one.
LEMMA LeastNat ==
  ASSUME NEW S \in SUBSET Nat, S # {}
  PROVE  \E n \in S : \A k \in S : n <= k
<1>1. PICK n \in S : \A k \in S : ~ (<<k, n>> \in OpToRel(<, Nat))
  BY NatLessThanWellFounded, WFMin
<1>2. ASSUME NEW k \in S PROVE n <= k
  <2>1. ~ (<<k, n>> \in OpToRel(<, Nat)) BY <1>1
  <2>2. ~ (k < n) BY <2>1 DEF OpToRel
  <2> QED BY <2>2
<1> QED BY <1>2

\* Induction up to n.
LEMMA UpToInduction ==
  ASSUME NEW n \in Nat, NEW P, 0 \in P, \A k \in 0 .. n - 1 : k \in P => k + 1 \in P
  PROVE  \A k \in 0 .. n : k \in P
<1> DEFINE Bad == {k \in 0 .. n : k \notin P}
<1>1. Bad = {}
  <2> SUFFICES ASSUME Bad # {} PROVE FALSE OBVIOUS
  <2>1. PICK m \in Bad : \A k \in Bad : m <= k
    <3>1. Bad \in SUBSET Nat OBVIOUS
    <3> HIDE DEF Bad
    <3> QED BY <3>1, LeastNat
  <2>2. m # 0 /\ m \in 0 .. n BY <2>1
  <2>3. m - 1 \in 0 .. n - 1 /\ m - 1 \notin Bad /\ m - 1 \in 0 .. n BY <2>1, <2>2
  <2>4. m - 1 \in P BY <2>3
  <2>5. (m - 1) + 1 \in P BY <2>3, <2>4
  <2>6. (m - 1) + 1 = m BY <2>2
  <2> QED BY <2>1, <2>5, <2>6
<1> QED BY <1>1

\* What the two programs for AC coefficients do with coefficient k, from what is fixed for the
\* scan and the block.
AfterAC(c, a, k) == NextAC(c.tbl, a, Signed(c.block[k], PointAC(c.block[k], c.scan.Al)))
AfterRefined(c, a, k) ==
  NextRefined(c.tbl, c.last, a, k, PointAC(c.block[k], c.scan.Al), c.block[k] < 0)
After(c, a, k) == IF c.refines THEN AfterRefined(c, a, k) ELSE AfterAC(c, a, k)

\* f[S] is the outcome for the coefficients at the places S of the band.
IsFold(f, c, band, n, start) ==
  f = [S \in SUBSET (1 .. n) |->
         IF S = {} THEN start ELSE After(c, f[S \ {Max(S)}], band[Max(S)])]

\* The greatest number of a set of them, and what is below it.
LEMMA MaxLeaves ==
  ASSUME NEW n \in Nat, NEW S \in SUBSET (1 .. n), S # {}
  PROVE  /\ Max(S) \in 1 .. n /\ S \ {Max(S)} \in SUBSET (1 .. n)
         /\ \A m \in Nat : S \subseteq 1 .. m => Max(S) <= m /\ S \ {Max(S)} \subseteq 1 .. (m - 1)
<1>1. S \in SUBSET Nat /\ \A s \in S : s <= n OBVIOUS
<1>2. Max(S) \in S /\ \A s \in S : s <= Max(S) BY <1>1, MaxOfBounded
<1>3. PICK x \in S : x = Max(S) BY <1>2
<1>4. ASSUME NEW m \in Nat, S \subseteq 1 .. m PROVE x <= m /\ S \ {x} \subseteq 1 .. (m - 1)
  <2>1. x \in 1 .. m BY <1>4
  <2>2. ASSUME NEW s \in S \ {x} PROVE s \in 1 .. (m - 1)
    <3>1. s \in 1 .. m /\ s <= x /\ s # x BY <1>2, <1>3, <1>4
    <3> QED BY <2>1, <3>1
  <2> QED BY <2>1, <2>2
<1> QED BY <1>3, <1>4

LEMMA FoldExists ==
  ASSUME NEW n \in Nat, NEW c, NEW band, NEW start
  PROVE  \E f : IsFold(f, c, band, n, start)
<1> DEFINE Outcome(f, S) == IF S = {} THEN start ELSE After(c, f[S \ {Max(S)}], band[Max(S)])
           Solves(f, m) == \A S \in SUBSET (1 .. n) : S \subseteq 1 .. m => f[S] = Outcome(f, S)
           Good == {m \in 0 .. n : \E f : Solves(f, m)}
<1>1. 0 \in Good
  <2> DEFINE f == [S \in SUBSET (1 .. n) |-> start]
  <2>1. ASSUME NEW S \in SUBSET (1 .. n), S \subseteq 1 .. 0 PROVE f[S] = Outcome(f, S)
    <3>1. S = {} BY <2>1
    <3> QED BY <3>1
  <2>2. Solves(f, 0)
    <3> HIDE DEF f, Outcome
    <3> QED BY <2>1
  <2> HIDE DEF f, Solves
  <2> QED BY <2>2
<1>2. ASSUME NEW m \in 0 .. n - 1, m \in Good PROVE m + 1 \in Good
  <2>1. PICK g : Solves(g, m) BY <1>2
  <2> DEFINE f == [S \in SUBSET (1 .. n) |-> Outcome(g, S)]
  <2>2. ASSUME NEW S \in SUBSET (1 .. n), S \subseteq 1 .. (m + 1) PROVE f[S] = Outcome(f, S)
    <3>1. f[S] = Outcome(g, S) OBVIOUS
    <3>2. CASE S = {} BY <3>1, <3>2
    <3>3. CASE S # {}
      <4> DEFINE R == S \ {Max(S)}
      <4>1. m + 1 \in Nat /\ (m + 1) - 1 = m OBVIOUS
      <4>2. R \in SUBSET (1 .. n) /\ R \subseteq 1 .. ((m + 1) - 1) BY <2>2, <3>3, <4>1, MaxLeaves
      <4>3. R \subseteq 1 .. m BY <4>1, <4>2
      <4>4. g[R] = Outcome(g, R)
        <5> HIDE DEF Outcome, R
        <5> QED BY <2>1, <4>2, <4>3
      <4>5. f[R] = g[R]
        <5> HIDE DEF Outcome, R
        <5> QED BY <4>2, <4>4
      <4> HIDE DEF f
      <4>6. Outcome(g, S) = Outcome(f, S) BY <3>3, <4>5
      <4> QED BY <3>1, <4>6
    <3> QED BY <3>2, <3>3
  <2>3. Solves(f, m + 1)
    <3> HIDE DEF f, Outcome
    <3> QED BY <2>2
  <2>4. m + 1 \in 0 .. n OBVIOUS
  <2> HIDE DEF f, Solves
  <2> QED BY <2>3, <2>4
<1>3. n \in Good
  <2> HIDE DEF Good
  <2>1. \A k \in 0 .. n : k \in Good BY <1>1, <1>2, UpToInduction
  <2> QED BY <2>1
<1>4. PICK g : Solves(g, n) BY <1>3
<1> DEFINE f == [S \in SUBSET (1 .. n) |-> g[S]]
<1>5. ASSUME NEW S \in SUBSET (1 .. n) PROVE f[S] = Outcome(f, S)
  <2>1. g[S] = Outcome(g, S)
    <3> HIDE DEF Outcome
    <3> QED BY <1>4
  <2>2. f[S] = g[S] OBVIOUS
  <2>3. CASE S = {} BY <2>1, <2>2, <2>3
  <2>4. CASE S # {}
    <3>1. S \ {Max(S)} \in SUBSET (1 .. n) OBVIOUS
    <3>2. f[S \ {Max(S)}] = g[S \ {Max(S)}] BY <3>1
    <3> HIDE DEF f
    <3> QED BY <2>1, <2>2, <2>4, <3>2
  <2> QED BY <2>3, <2>4
<1>6. f = [S \in SUBSET (1 .. n) |-> f[S]] OBVIOUS
<1>7. f = [S \in SUBSET (1 .. n) |-> Outcome(f, S)]
  <2> HIDE DEF f, Outcome
  <2> QED BY <1>5, <1>6
<1> HIDE DEF f
<1>8. IsFold(f, c, band, n, start) BY <1>7 DEF IsFold
<1> QED BY <1>8

\* So the loop has the outcomes of its first k coefficients, for every k.
Rounds(at, c, band, n, start) ==
  at[0] = start /\ \A k \in 1 .. n : at[k] = After(c, at[k - 1], band[k])

LEMMA FoldRuns ==
  ASSUME NEW n \in Nat, NEW c, NEW band, NEW start, NEW f, IsFold(f, c, band, n, start)
  PROVE  \E at : at[n] = f[1 .. n] /\ Rounds(at, c, band, n, start)
<1> DEFINE at == [k \in 0 .. n |-> f[1 .. k]]
<1>1. ASSUME NEW S \in SUBSET (1 .. n)
      PROVE  f[S] = IF S = {} THEN start ELSE After(c, f[S \ {Max(S)}], band[Max(S)])
  BY DEF IsFold
<1>2. at[0] = start
  <2>1. 1 .. 0 = {} /\ {} \in SUBSET (1 .. n) /\ 0 \in 0 .. n OBVIOUS
  <2>2. at[0] = f[{}] BY <2>1
  <2> QED BY <1>1, <2>1, <2>2
<1>3. ASSUME NEW k \in 1 .. n PROVE at[k] = After(c, at[k - 1], band[k])
  <2>1. 1 .. k \in SUBSET (1 .. n) /\ 1 .. k # {} /\ k \in 1 .. k OBVIOUS
  <2>2. Max(1 .. k) = k
    <3>1. 1 .. k \in SUBSET Nat /\ \A s \in 1 .. k : s <= k OBVIOUS
    <3>2. Max(1 .. k) \in 1 .. k /\ \A s \in 1 .. k : s <= Max(1 .. k)
      BY <2>1, <3>1, MaxOfBounded
    <3>3. PICK x \in 1 .. k : x = Max(1 .. k) BY <3>2
    <3>4. k <= x BY <2>1, <3>2, <3>3
    <3>5. x = k BY <3>3, <3>4
    <3> QED BY <3>3, <3>5
  <2>3. (1 .. k) \ {k} = 1 .. (k - 1)
    <3>1. ASSUME NEW x PROVE x \in (1 .. k) \ {k} <=> x \in 1 .. (k - 1) OBVIOUS
    <3> QED BY <3>1
  <2>4. f[1 .. k] = After(c, f[1 .. (k - 1)], band[k]) BY <1>1, <2>1, <2>2, <2>3
  <2>5. k \in 0 .. n /\ k - 1 \in 0 .. n OBVIOUS
  <2>6. at[k] = f[1 .. k] /\ at[k - 1] = f[1 .. (k - 1)] BY <2>5
  <2> QED BY <2>4, <2>6
<1>4. at[n] = f[1 .. n]
  <2>1. n \in 0 .. n OBVIOUS
  <2> QED BY <2>1
<1> HIDE DEF at
<1> QED BY <1>2, <1>3, <1>4 DEF Rounds

-----------------------------------------------------------------------------
(* The correction bits.                                                    *)

\* What the entropy encoder keeps has a run of blocks and the bits of these blocks, elements
\* of S, which wait only while the run does.
EntShape(e, S) ==
  /\ {"EOBRUN", "BE", "last_dc_val", "restarts_to_go", "next_restart_num"} \subseteq DOMAIN e
  /\ e.EOBRUN \in Nat /\ e.BE \in Seq(S)
  /\ e.BE # <<>> => e.EOBRUN > 0

\* And it can take one more block.
EntOk(e, S) ==
  /\ EntShape(e, S)
  /\ e.EOBRUN < MAX_EOBRUN /\ Len(e.BE) + DCTSIZE2 - 1 <= MAX_CORR_BITS

\* Nothing waits.
Drained(e) == e.EOBRUN = 0 /\ e.BE = <<>>

LEMMA DrainedIsOk ==
  ASSUME NEW S, NEW e, EntShape(e, S), Drained(e)
  PROVE  EntOk(e, S)
<1>1. Len(e.BE) = 0 BY DEF Drained
<1> QED BY <1>1, EntropyAssumption, ScansAssumption DEF EntOk, Drained

\* emit_eobrun leaves nothing behind.
LEMMA EmitDrains ==
  ASSUME NEW S, NEW acc, EntShape(acc.ent, S), NEW tbl
  PROVE  EntOk(EmitEobrun(tbl, acc).ent, S) /\ Drained(EmitEobrun(tbl, acc).ent)
<1>1. CASE acc.ent.EOBRUN = 0
  <2>1. EmitEobrun(tbl, acc) = acc BY <1>1 DEF EmitEobrun
  <2>2. Drained(acc.ent) BY <1>1 DEF EntShape, Drained
  <2> QED BY <2>1, <2>2, DrainedIsOk
<1>2. CASE acc.ent.EOBRUN # 0
  <2> DEFINE e == [acc.ent EXCEPT !.EOBRUN = 0, !.BE = <<>>]
  <2>1. EmitEobrun(tbl, acc).ent = e BY <1>2 DEF EmitEobrun, Result
  <2>2. EntShape(e, S) /\ Drained(e) BY DEF EntShape, Drained
  <2> HIDE DEF e
  <2> QED BY <2>1, <2>2, DrainedIsOk
<1> QED BY <1>1, <1>2

\* A block that ends a run adds its bits, no more than a band has.
LEMMA CountEobKeeps ==
  ASSUME NEW S, NEW e, EntOk(e, S), NEW items, NEW tbl,
         NEW bits \in Seq(S), Len(bits) <= DCTSIZE2 - 1
  PROVE  EntOk(CountEob(tbl, Result(e, items), bits).ent, S)
<1> DEFINE acc == Result(e, items)
           more == [acc EXCEPT !.ent.EOBRUN = @ + 1, !.ent.BE = @ \o bits]
           e2 == [e EXCEPT !.EOBRUN = @ + 1, !.BE = @ \o bits]
<1>1. more.ent = e2 BY DEF Result, EntOk, EntShape
<1>2. CountEob(tbl, acc, bits) = IF Overflows(more.ent) THEN EmitEobrun(tbl, more) ELSE more
  BY DEF CountEob
<1>3. EntShape(e2, S) /\ e2.EOBRUN <= MAX_EOBRUN
  BY EntropyAssumption DEF EntOk, EntShape
<1> HIDE DEF more, e2
<1>4. CASE Overflows(more.ent)
  BY <1>1, <1>2, <1>3, <1>4, EmitDrains
<1>5. CASE ~ Overflows(more.ent)
  <2>1. e2.EOBRUN # MAX_EOBRUN /\ ~ (Len(e2.BE) > MAX_CORR_BITS - DCTSIZE2 + 1)
    BY <1>1, <1>5 DEF Overflows
  <2>2. Len(e2.BE) \in Nat /\ e2.EOBRUN \in Nat BY <1>3 DEF EntShape
  <2>3. EntOk(e2, S)
    BY <1>3, <2>1, <2>2, EntropyAssumption, ScansAssumption DEF EntOk
  <2> QED BY <1>1, <1>2, <1>5, <2>3
<1> QED BY <1>4, <1>5

\* A coefficient of the first pass.
ACOk(a, S) == {"ent", "r", "items"} \subseteq DOMAIN a /\ EntOk(a.ent, S)

LEMMA NextACKeeps ==
  ASSUME NEW S, NEW a, ACOk(a, S), NEW tbl, NEW x
  PROVE  ACOk(NextAC(tbl, a, x), S)
<1>1. CASE x = 0
  <2> DEFINE b == [a EXCEPT !.r = @ + 1]
  <2>1. NextAC(tbl, a, x) = b BY <1>1 DEF NextAC
  <2>2. DOMAIN b = DOMAIN a /\ b.ent = a.ent BY DEF ACOk
  <2> QED BY <2>1, <2>2 DEF ACOk
<1>2. CASE x # 0
  <2> DEFINE flushed == EmitEobrun(tbl, Result(a.ent, a.items))
             coded == EncodeCoef(tbl, [r |-> a.r, items |-> flushed.items], x)
  <2>1. NextAC(tbl, a, x) = [ent |-> flushed.ent, r |-> coded.r, items |-> coded.items]
    BY <1>2 DEF NextAC
  <2>2. EntOk(flushed.ent, S)
    <3>1. Result(a.ent, a.items).ent = a.ent BY DEF Result
    <3>2. EntShape(Result(a.ent, a.items).ent, S) BY <3>1 DEF ACOk, EntOk
    <3> QED BY <3>2, EmitDrains
  <2> HIDE DEF flushed, coded
  <2> QED BY <2>1, <2>2 DEF ACOk
<1> QED BY <1>1, <1>2

\* After j coefficients of a refinement at most j bits wait for the next symbol.
RefinedOk(a, S, j) ==
  /\ {"ent", "r", "BR", "items"} \subseteq DOMAIN a /\ EntOk(a.ent, S)
  /\ a.BR \in Seq(S) /\ Len(a.BR) <= j

LEMMA SendWithBitsKeeps ==
  ASSUME NEW S, NEW j \in Nat, NEW a, RefinedOk(a, S, j), NEW tbl, NEW symbol, NEW extra
  PROVE  RefinedOk(SendWithBits(tbl, a, symbol, extra), S, j)
<1> DEFINE flushed == EmitEobrun(tbl, Result(a.ent, a.items))
           more == Append(flushed.items, Sym(AC, tbl, symbol)) \o extra \o BufferedBits(a.BR)
           b == [a EXCEPT !.ent = flushed.ent, !.BR = <<>>, !.items = more]
<1>1. SendWithBits(tbl, a, symbol, extra) = b BY DEF SendWithBits
<1>2. EntOk(flushed.ent, S)
  <2>1. Result(a.ent, a.items).ent = a.ent BY DEF Result
  <2>2. EntShape(Result(a.ent, a.items).ent, S) BY <2>1 DEF RefinedOk, EntOk
  <2> QED BY <2>2, EmitDrains
<1> HIDE DEF flushed, more
<1>3. DOMAIN b = DOMAIN a /\ b.ent = flushed.ent /\ b.BR = <<>> BY DEF RefinedOk
<1>4. <<>> \in Seq(S) /\ Len(<<>>) <= j OBVIOUS
<1> HIDE DEF b
<1> QED BY <1>1, <1>2, <1>3, <1>4 DEF RefinedOk

LEMMA SendRunsKeeps ==
  ASSUME NEW S, NEW j \in Nat, NEW a, RefinedOk(a, S, j), NEW tbl
  PROVE  RefinedOk(SendRuns(tbl, a), S, j)
<1>1. CASE a.r <= MAX_RUN BY <1>1 DEF SendRuns
<1>2. CASE ~ (a.r <= MAX_RUN)
  <2> DEFINE b == SendWithBits(tbl, a, ZRL, <<>>)
             d == [b EXCEPT !.r = RestOfRun(@), !.items = @ \o ZeroRuns(tbl, a.r - (MAX_RUN + 1))]
  <2>1. SendRuns(tbl, a) = d BY <1>2 DEF SendRuns
  <2>2. RefinedOk(b, S, j) BY SendWithBitsKeeps
  <2> HIDE DEF b
  <2>3. DOMAIN d = DOMAIN b /\ d.ent = b.ent /\ d.BR = b.BR BY <2>2 DEF RefinedOk
  <2> HIDE DEF d
  <2> QED BY <2>1, <2>2, <2>3 DEF RefinedOk
<1> QED BY <1>1, <1>2

LEMMA NextRefinedKeeps ==
  ASSUME NEW S, NEW j \in Nat, NEW a, RefinedOk(a, S, j), NEW tbl, NEW last, NEW k,
         NEW level, level % 2 \in S, NEW negative
  PROVE  RefinedOk(NextRefined(tbl, last, a, k, level, negative), S, j + 1)
<1> DEFINE ran == IF k <= last THEN SendRuns(tbl, a) ELSE a
<1>1. RefinedOk(ran, S, j) BY SendRunsKeeps
<1>2. ASSUME NEW b, RefinedOk(b, S, j) PROVE RefinedOk(b, S, j + 1)
  BY <1>2 DEF RefinedOk
<1> HIDE DEF ran
<1>3. CASE level = 0
  <2> DEFINE b == [a EXCEPT !.r = @ + 1]
  <2>1. NextRefined(tbl, last, a, k, level, negative) = b BY <1>3 DEF NextRefined
  <2>2. DOMAIN b = DOMAIN a /\ b.ent = a.ent /\ b.BR = a.BR BY DEF RefinedOk
  <2> HIDE DEF b
  <2>3. RefinedOk(b, S, j) BY <2>2 DEF RefinedOk
  <2> QED BY <1>2, <2>1, <2>3
<1>4. CASE level = 1
  <2> DEFINE b == SendWithBits(tbl, ran, RunSize(ran.r, 1),
                               << <<"bits", 1, IF negative THEN 0 ELSE 1>> >>)
             d == [b EXCEPT !.r = 0]
  <2>1. NextRefined(tbl, last, a, k, level, negative) = d BY <1>4 DEF NextRefined, ran
  <2>2. RefinedOk(b, S, j) BY <1>1, SendWithBitsKeeps
  <2> HIDE DEF b
  <2>3. DOMAIN d = DOMAIN b /\ d.ent = b.ent /\ d.BR = b.BR BY <2>2 DEF RefinedOk
  <2> HIDE DEF d
  <2>4. RefinedOk(d, S, j) BY <2>2, <2>3 DEF RefinedOk
  <2> QED BY <1>2, <2>1, <2>4
<1>5. CASE level # 0 /\ level # 1
  <2> DEFINE b == [ran EXCEPT !.BR = Append(@, level % 2)]
  <2>1. NextRefined(tbl, last, a, k, level, negative) = b BY <1>5 DEF NextRefined, ran
  <2>2. DOMAIN b = DOMAIN ran /\ b.ent = ran.ent /\ b.BR = Append(ran.BR, level % 2)
    BY <1>1 DEF RefinedOk
  <2>3. ran.BR \in Seq(S) /\ Len(ran.BR) <= j BY <1>1 DEF RefinedOk
  <2>4. Append(ran.BR, level % 2) \in Seq(S) /\ Len(Append(ran.BR, level % 2)) <= j + 1
    BY <2>3
  <2> HIDE DEF b
  <2> QED BY <1>1, <2>1, <2>2, <2>4 DEF RefinedOk
<1> QED BY <1>3, <1>4, <1>5

\* The band of an AC scan has at most DCTSIZE2 - 1 coefficients.
ACBand(s) == s.Ss \in 1 .. DCTSIZE2 - 1 /\ s.Se \in s.Ss .. DCTSIZE2 - 1

LEMMA BandFacts ==
  ASSUME NEW s, ACBand(s)
  PROVE  \E n \in Nat : /\ n <= DCTSIZE2 - 1 /\ DOMAIN Band(s) = 1 .. n
                        /\ \A k \in 1 .. n : Band(s)[k] \in s.Ss .. s.Se
<1> DEFINE n == s.Se - s.Ss + 1
<1>1. /\ s.Ss \in Nat /\ s.Se \in Nat /\ s.Ss >= 1 /\ s.Ss <= s.Se /\ s.Se <= DCTSIZE2 - 1
  BY ScansAssumption DEF ACBand
<1>2. n \in Nat /\ n <= DCTSIZE2 - 1 BY <1>1, ScansAssumption
<1>3. Band(s) = [k \in 1 .. n |-> s.Ss + k - 1] BY DEF Band
<1>4. ASSUME NEW k \in 1 .. n PROVE s.Ss + k - 1 \in s.Ss .. s.Se BY <1>1
<1> HIDE DEF n
<1> QED BY <1>2, <1>3, <1>4

LEMMA ACFirstKeeps ==
  ASSUME NEW S, NEW s, ACBand(s), NEW tbl, NEW block, NEW acc, EntOk(acc.ent, S)
  PROVE  EntOk(EncodeACFirst(s, tbl, block, acc).ent, S)
<1>1. PICK n \in Nat : n <= DCTSIZE2 - 1 /\ DOMAIN Band(s) = 1 .. n BY BandFacts
<1> DEFINE band == Band(s)
           start == [r |-> 0, ent |-> acc.ent, items |-> acc.items]
           c == [refines |-> FALSE, tbl |-> tbl, block |-> block, scan |-> s]
           OneStep(f) == f = [T \in SUBSET DOMAIN band |->
                                IF T = {} THEN start
                                ELSE NextAC(tbl, f[T \ {Max(T)}],
                                            Signed(block[band[Max(T)]],
                                                   PointAC(block[band[Max(T)]], s.Al)))]
           iter == CHOOSE f : OneStep(f)
           done == FoldLeft(LAMBDA a, k : NextAC(tbl, a, Signed(block[k], PointAC(block[k], s.Al))),
                            [r |-> 0, ent |-> acc.ent, items |-> acc.items], Band(s))
<1>2. done = iter[DOMAIN band] BY DEF FoldLeft, MapThenFoldSet
<1>3. ASSUME NEW a, NEW k
      PROVE  After(c, a, k) = NextAC(tbl, a, Signed(block[k], PointAC(block[k], s.Al)))
  BY DEF After, AfterAC
<1>4. EncodeACFirst(s, tbl, block, acc)
        = IF done.r > 0 THEN CountEob(tbl, Result(done.ent, done.items), <<>>)
          ELSE Result(done.ent, done.items)
  BY DEF EncodeACFirst
<1> HIDE DEF done, band, start, c
<1>5. ASSUME NEW f PROVE OneStep(f) <=> IsFold(f, c, band, n, start)
  <2> DEFINE next(T) == NextAC(tbl, f[T \ {Max(T)}],
                               Signed(block[band[Max(T)]], PointAC(block[band[Max(T)]], s.Al)))
             after(T) == After(c, f[T \ {Max(T)}], band[Max(T)])
  <2>1. \A T : next(T) = after(T) BY <1>3
  <2>2. OneStep(f) <=> f = [T \in SUBSET DOMAIN band |-> IF T = {} THEN start ELSE next(T)]
    OBVIOUS
  <2>3. IsFold(f, c, band, n, start)
          <=> f = [T \in SUBSET (1 .. n) |-> IF T = {} THEN start ELSE after(T)]
    BY DEF IsFold
  <2>4. DOMAIN band = 1 .. n BY <1>1 DEF band
  <2> HIDE DEF OneStep, next, after
  <2>5. [T \in SUBSET DOMAIN band |-> IF T = {} THEN start ELSE next(T)]
          = [T \in SUBSET (1 .. n) |-> IF T = {} THEN start ELSE after(T)]
    BY <2>1, <2>4
  <2> QED BY <2>2, <2>3, <2>5
<1>6. IsFold(iter, c, band, n, start)
  <2>1. \E f : OneStep(f) BY <1>5, FoldExists
  <2>2. OneStep(iter) BY <2>1
  <2> HIDE DEF OneStep, iter
  <2> QED BY <1>5, <2>2
<1> HIDE DEF OneStep, iter
<1>7. PICK at : at[n] = iter[1 .. n] /\ Rounds(at, c, band, n, start) BY <1>6, FoldRuns
<1> DEFINE P == {k \in 0 .. n : ACOk(at[k], S)}
<1>8. 0 \in P
  <2>1. at[0] = start BY <1>7 DEF Rounds
  <2>2. ACOk(start, S) BY DEF ACOk, start
  <2> QED BY <2>1, <2>2
<1>9. ASSUME NEW k \in 0 .. n - 1, k \in P PROVE k + 1 \in P
  <2>1. k + 1 \in 1 .. n /\ (k + 1) - 1 = k OBVIOUS
  <2>2. at[k + 1] = After(c, at[k], band[k + 1]) BY <1>7, <2>1 DEF Rounds
  <2>3. ACOk(at[k], S) BY <1>9
  <2>4. ACOk(at[k + 1], S) BY <1>3, <2>2, <2>3, NextACKeeps
  <2> QED BY <2>1, <2>4
<1>10. ACOk(at[n], S)
  <2> HIDE DEF P
  <2>1. n \in P BY <1>8, <1>9, UpToInduction
  <2> QED BY <2>1 DEF P
<1>11. EntOk(done.ent, S) BY <1>1, <1>2, <1>7, <1>10 DEF ACOk, band
<1>12. CASE done.r > 0
  <2>1. <<>> \in Seq(S) /\ Len(<<>>) <= DCTSIZE2 - 1 BY ScansAssumption
  <2> QED BY <1>4, <1>11, <1>12, <2>1, CountEobKeeps
<1>13. CASE ~ (done.r > 0) BY <1>4, <1>11, <1>13 DEF Result
<1> QED BY <1>12, <1>13

LEMMA ACRefineKeeps ==
  ASSUME NEW S, NEW s, ACBand(s), NEW tbl, NEW block, NEW acc, EntOk(acc.ent, S),
         \A k \in s.Ss .. s.Se : PointAC(block[k], s.Al) % 2 \in S
  PROVE  EntOk(EncodeACRefine(s, tbl, block, acc).ent, S)
<1>1. PICK n \in Nat : /\ n <= DCTSIZE2 - 1 /\ DOMAIN Band(s) = 1 .. n
                       /\ \A k \in 1 .. n : Band(s)[k] \in s.Ss .. s.Se
  BY BandFacts
<1> DEFINE level(k) == PointAC(block[k], s.Al)
           newly == {k \in s.Ss .. s.Se : level(k) = 1}
           last == IF newly = {} THEN -1 ELSE Max(newly)
           band == Band(s)
           start == [ent |-> acc.ent, r |-> 0, BR |-> <<>>, items |-> acc.items]
           c == [refines |-> TRUE, tbl |-> tbl, block |-> block, scan |-> s, last |-> last]
           OneStep(f) == f = [T \in SUBSET DOMAIN band |->
                                IF T = {} THEN start
                                ELSE NextRefined(tbl, last, f[T \ {Max(T)}], band[Max(T)],
                                                 level(band[Max(T)]), block[band[Max(T)]] < 0)]
           iter == CHOOSE f : OneStep(f)
           done == FoldLeft(LAMBDA a, k : NextRefined(tbl, last, a, k, level(k), block[k] < 0),
                            [ent |-> acc.ent, r |-> 0, BR |-> <<>>, items |-> acc.items], Band(s))
<1>2. done = iter[DOMAIN band] BY DEF FoldLeft, MapThenFoldSet
<1>3. ASSUME NEW a, NEW k
      PROVE  After(c, a, k) = NextRefined(tbl, last, a, k, level(k), block[k] < 0)
  <2>1. c.refines = TRUE /\ c.tbl = tbl /\ c.block = block /\ c.scan = s /\ c.last = last OBVIOUS
  <2> HIDE DEF c, last
  <2> QED BY <2>1 DEF After, AfterRefined
<1>4. EncodeACRefine(s, tbl, block, acc)
        = IF done.r > 0 \/ done.BR # <<>> THEN CountEob(tbl, Result(done.ent, done.items), done.BR)
          ELSE Result(done.ent, done.items)
  BY DEF EncodeACRefine
<1> HIDE DEF done, band, start, c, last
<1>5. ASSUME NEW f PROVE OneStep(f) <=> IsFold(f, c, band, n, start)
  <2> DEFINE next(T) == NextRefined(tbl, last, f[T \ {Max(T)}], band[Max(T)],
                                    level(band[Max(T)]), block[band[Max(T)]] < 0)
             after(T) == After(c, f[T \ {Max(T)}], band[Max(T)])
  <2>1. \A T : next(T) = after(T)
    <3> HIDE DEF level
    <3> QED BY <1>3
  <2>2. OneStep(f) <=> f = [T \in SUBSET DOMAIN band |-> IF T = {} THEN start ELSE next(T)]
    OBVIOUS
  <2>3. IsFold(f, c, band, n, start)
          <=> f = [T \in SUBSET (1 .. n) |-> IF T = {} THEN start ELSE after(T)]
    BY DEF IsFold
  <2>4. DOMAIN band = 1 .. n BY <1>1 DEF band
  <2> HIDE DEF OneStep, next, after
  <2>5. [T \in SUBSET DOMAIN band |-> IF T = {} THEN start ELSE next(T)]
          = [T \in SUBSET (1 .. n) |-> IF T = {} THEN start ELSE after(T)]
    BY <2>1, <2>4
  <2> QED BY <2>2, <2>3, <2>5
<1>6. IsFold(iter, c, band, n, start)
  <2>1. \E f : OneStep(f) BY <1>5, FoldExists
  <2>2. OneStep(iter) BY <2>1
  <2> HIDE DEF OneStep, iter
  <2> QED BY <1>5, <2>2
<1> HIDE DEF OneStep, iter
<1>7. PICK at : at[n] = iter[1 .. n] /\ Rounds(at, c, band, n, start) BY <1>6, FoldRuns
<1> DEFINE P == {k \in 0 .. n : RefinedOk(at[k], S, k)}
<1>8. 0 \in P
  <2>1. at[0] = start BY <1>7 DEF Rounds
  <2>2. RefinedOk(start, S, 0) BY DEF RefinedOk, start
  <2> QED BY <2>1, <2>2
<1>9. ASSUME NEW k \in 0 .. n - 1, k \in P PROVE k + 1 \in P
  <2>1. k + 1 \in 1 .. n /\ (k + 1) - 1 = k OBVIOUS
  <2>2. at[k + 1] = After(c, at[k], band[k + 1]) BY <1>7, <2>1 DEF Rounds
  <2>3. RefinedOk(at[k], S, k) /\ k \in Nat BY <1>9
  <2>4. level(band[k + 1]) % 2 \in S BY <1>1, <2>1 DEF band
  <2>5. RefinedOk(at[k + 1], S, k + 1)
    <3> HIDE DEF level
    <3> QED BY <1>3, <2>2, <2>3, <2>4, NextRefinedKeeps
  <2> QED BY <2>1, <2>5
<1>10. RefinedOk(at[n], S, n)
  <2> HIDE DEF P
  <2>1. n \in P BY <1>8, <1>9, UpToInduction
  <2> QED BY <2>1 DEF P
<1>11. EntOk(done.ent, S) /\ done.BR \in Seq(S) /\ Len(done.BR) <= DCTSIZE2 - 1
  <2>1. done = at[n] BY <1>1, <1>2, <1>7 DEF band
  <2>2. Len(done.BR) \in Nat /\ Len(done.BR) <= n BY <1>10, <2>1 DEF RefinedOk
  <2> QED BY <1>1, <1>10, <2>1, <2>2, ScansAssumption DEF RefinedOk
<1>12. CASE done.r > 0 \/ done.BR # <<>>
  BY <1>4, <1>11, <1>12, CountEobKeeps
<1>13. CASE ~ (done.r > 0 \/ done.BR # <<>>) BY <1>4, <1>11, <1>13 DEF Result
<1> QED BY <1>12, <1>13

\* The steps that touch neither the run nor the bits.
SameRun(e, e2) == DOMAIN e2 = DOMAIN e /\ e2.EOBRUN = e.EOBRUN /\ e2.BE = e.BE

LEMMA SameRunOk ==
  ASSUME NEW S, NEW e, EntOk(e, S), NEW e2, SameRun(e, e2)
  PROVE  EntOk(e2, S)
BY DEF EntOk, EntShape, SameRun

LEMMA OtherStateKeepsRun ==
  ASSUME NEW S, NEW e, EntOk(e, S), NEW interval, NEW member, NEW value
  PROVE  /\ EntOk(CountMcu(e, interval), S) /\ EntOk(ResetDc(e), S)
         /\ EntOk(KeepDc(e, member, value), S)
         /\ EntOk([e EXCEPT !.restarts_to_go = interval], S)
         /\ EntOk([e EXCEPT !.restarts_to_go = @ - 1], S)
<1> USE DEF EntOk, EntShape, SameRun
<1>1. SameRun(e, CountMcu(e, interval)) BY DEF CountMcu
<1>2. SameRun(e, ResetDc(e)) BY DEF ResetDc
<1>3. SameRun(e, KeepDc(e, member, value)) BY DEF KeepDc
<1>4. SameRun(e, [e EXCEPT !.restarts_to_go = interval]) OBVIOUS
<1>5. SameRun(e, [e EXCEPT !.restarts_to_go = @ - 1]) OBVIOUS
<1> QED BY <1>1, <1>2, <1>3, <1>4, <1>5, SameRunOk

LEMMA MoreElements ==
  ASSUME NEW S, NEW T, S \subseteq T, NEW e, EntOk(e, S)
  PROVE  EntOk(e, T)
<1>1. e.BE \in Seq(T) BY DEF EntOk, EntShape
<1> QED BY <1>1 DEF EntOk, EntShape

\* The sequential encoders.
LEMMA SequentialKeeps ==
  ASSUME NEW S, NEW e, EntOk(e, S), NEW image, NEW s, NEW interval, NEW blocks
  PROVE  /\ EntOk(EncodeMcuHuff(image, s, interval, e, blocks).ent, S)
         /\ EntOk(EncodeMcuGather(image, s, interval, e, blocks).ent, S)
<1>1. ASSUME NEW e2, EntOk(e2, S), NEW gathers
      PROVE  EntOk(EncodeBlocks(image, s, e2, blocks, gathers).ent, S)
  <2> DEFINE member == Membership(image, s)
             value == [b \in DOMAIN member |-> blocks[b][0]]
  <2>1. EncodeBlocks(image, s, e2, blocks, gathers).ent = KeepDc(e2, member, value)
    BY DEF EncodeBlocks, Result
  <2> HIDE DEF member, value
  <2> QED BY <1>1, <2>1, OtherStateKeepsRun
<1>2. EntOk(EncodeMcuHuff(image, s, interval, e, blocks).ent, S)
  <2> DEFINE ready == IF RestartDue(e, interval) THEN ResetDc(e) ELSE e
             coded == EncodeBlocks(image, s, ready, blocks, FALSE)
  <2>1. EncodeMcuHuff(image, s, interval, e, blocks).ent = CountMcu(coded.ent, interval)
    BY DEF EncodeMcuHuff, Result
  <2>2. EntOk(ready, S) BY OtherStateKeepsRun
  <2> HIDE DEF ready
  <2>3. EntOk(coded.ent, S) BY <1>1, <2>2
  <2> HIDE DEF coded
  <2> QED BY <2>1, <2>3, OtherStateKeepsRun
<1>3. EntOk(EncodeMcuGather(image, s, interval, e, blocks).ent, S)
  <2> DEFINE reset == IF RestartDue(e, interval)
                      THEN [ResetDc(e) EXCEPT !.restarts_to_go = interval] ELSE e
             ready == IF interval > 0 THEN [reset EXCEPT !.restarts_to_go = @ - 1] ELSE reset
  <2>1. EncodeMcuGather(image, s, interval, e, blocks)
          = EncodeBlocks(image, s, ready, blocks, TRUE)
    BY DEF EncodeMcuGather
  <2>2. EntOk(ResetDc(e), S) BY OtherStateKeepsRun
  <2>3. EntOk([ResetDc(e) EXCEPT !.restarts_to_go = interval], S) BY <2>2, OtherStateKeepsRun
  <2>4. EntOk(reset, S) BY <2>3
  <2> HIDE DEF reset
  <2>5. EntOk([reset EXCEPT !.restarts_to_go = @ - 1], S) BY <2>4, OtherStateKeepsRun
  <2>6. EntOk(ready, S) BY <2>4, <2>5
  <2> HIDE DEF ready
  <2> QED BY <1>1, <2>1, <2>6
<1> QED BY <1>2, <1>3

\* The four kinds of progressive scans.
LEMMA ProgressiveKeeps ==
  ASSUME NEW S, NEW e, EntOk(e, S), NEW image, NEW s, NEW interval, NEW blocks,
         s.Ss # 0 => ACBand(s)
  PROVE  \E T : EntOk(EncodeMcuProgressive(image, s, interval, e, blocks).ent, T)
<1> DEFINE tbl == AcTable(image, s)
           start == EmitRestart(s, tbl, interval, e)
           bits == {PointAC(blocks[1][k], s.Al) % 2 : k \in s.Ss .. s.Se}
           T == S \cup bits
           coded == CASE s.Ss = 0 /\ s.Ah = 0 -> EncodeDCFirst(image, s, blocks, start)
                      [] s.Ss = 0 /\ s.Ah # 0 -> EncodeDCRefine(s, blocks, start)
                      [] s.Ss # 0 /\ s.Ah = 0 -> EncodeACFirst(s, tbl, blocks[1], start)
                      [] s.Ss # 0 /\ s.Ah # 0 -> EncodeACRefine(s, tbl, blocks[1], start)
<1>1. EncodeMcuProgressive(image, s, interval, e, blocks).ent = CountMcu(coded.ent, interval)
  BY DEF EncodeMcuProgressive, Result
<1>2. EntOk(start.ent, S)
  <2>1. CASE ~ RestartDue(e, interval) BY <2>1 DEF EmitRestart, Result
  <2>2. CASE RestartDue(e, interval)
    <3> DEFINE flushed == EmitEobrun(tbl, Result(e, <<>>))
               cleared == [flushed.ent EXCEPT !.EOBRUN = 0, !.BE = <<>>]
    <3>1. start.ent = IF s.Ss = 0 THEN ResetDc(flushed.ent) ELSE cleared
      BY <2>2 DEF EmitRestart, Result
    <3>2. EntOk(flushed.ent, S)
      <4>1. Result(e, <<>>).ent = e BY DEF Result
      <4>2. EntShape(Result(e, <<>>).ent, S) BY <4>1 DEF EntOk
      <4> QED BY <4>2, EmitDrains
    <3> HIDE DEF flushed, start
    <3>3. EntOk(ResetDc(flushed.ent), S) BY <3>2, OtherStateKeepsRun
    <3>4. EntOk(cleared, S)
      <4>1. EntShape(cleared, S) /\ Drained(cleared) BY <3>2 DEF EntOk, EntShape, Drained
      <4> HIDE DEF cleared
      <4> QED BY <4>1, DrainedIsOk
    <3> HIDE DEF cleared
    <3> QED BY <3>1, <3>3, <3>4
  <2> QED BY <2>1, <2>2
<1>3. EntOk(start.ent, T)
  <2> HIDE DEF start, bits
  <2> QED BY <1>2, MoreElements
<1> HIDE DEF start, tbl
<1>4. SUFFICES EntOk(coded.ent, T)
  <2> HIDE DEF coded, T
  <2>1. ASSUME EntOk(coded.ent, T) PROVE EntOk(CountMcu(coded.ent, interval), T)
    BY <2>1, OtherStateKeepsRun
  <2> QED BY <1>1, <2>1
<1>5. CASE s.Ss = 0 /\ s.Ah = 0
  <2> DEFINE member == Membership(image, s)
             value == [b \in DOMAIN member |-> PointDC(blocks[b][0], s.Al)]
  <2>1. EncodeDCFirst(image, s, blocks, start).ent = KeepDc(start.ent, member, value)
    BY DEF EncodeDCFirst, Result
  <2>2. coded = EncodeDCFirst(image, s, blocks, start) BY <1>5
  <2>3. coded.ent = KeepDc(start.ent, member, value)
    <3> HIDE DEF member, value, coded
    <3> QED BY <2>1, <2>2
  <2> HIDE DEF member, value, T, coded
  <2>4. EntOk(KeepDc(start.ent, member, value), T) BY <1>3, OtherStateKeepsRun
  <2> QED BY <2>3, <2>4
<1>6. CASE s.Ss = 0 /\ s.Ah # 0
  <2>1. coded.ent = start.ent
    <3>1. coded = EncodeDCRefine(s, blocks, start) BY <1>6
    <3> HIDE DEF coded
    <3> QED BY <3>1 DEF EncodeDCRefine, Result
  <2> HIDE DEF T, coded
  <2> QED BY <1>3, <2>1
<1>7. CASE s.Ss # 0 /\ s.Ah = 0
  <2>1. coded = EncodeACFirst(s, tbl, blocks[1], start) BY <1>7
  <2>2. ACBand(s) BY <1>7
  <2> HIDE DEF T, coded
  <2> QED BY <1>3, <2>1, <2>2, ACFirstKeeps
<1>8. CASE s.Ss # 0 /\ s.Ah # 0
  <2>1. coded = EncodeACRefine(s, tbl, blocks[1], start) BY <1>8
  <2>2. ACBand(s) BY <1>8
  <2>3. \A k \in s.Ss .. s.Se : PointAC(blocks[1][k], s.Al) % 2 \in T OBVIOUS
  <2> HIDE DEF T, coded
  <2> QED BY <1>3, <2>1, <2>2, <2>3, ACRefineKeeps
<1> QED BY <1>5, <1>6, <1>7, <1>8

-----------------------------------------------------------------------------
(* The entropy encoder of an object.                                       *)

ScriptOk(image) == image.script = <<>> \/ ValidScript(image)

\* The passes of an image whose script was accepted, a call that has not failed, and an entropy
\* encoder that can take one more block.
EntropyInv ==
  /\ PassesInv
  /\ pc # "app" => error = "none"
  /\ global_state = "SCANNING" => ScriptOk(img)
  /\ \E S : EntOk(ent, S)

\* A progressive MCU is coded only in a scan of the script.
LEMMA ScanIsValid ==
  ASSUME EntropyInv, pc \in {"encode", "crank"}, Progressive(img), scan.Ss # 0
  PROVE  ACBand(scan)
<1>1. CompressTypes /\ PassInv /\ global_state = "SCANNING" /\ ScriptOk(img) /\ error = "none"
  BY DEF EntropyInv, PassesInv, RowsInv, CallInv
<1>2. img.script # <<>> /\ img \in Images BY <1>1 DEF Progressive, CompressTypes
<1>3. ValidScript(img) BY <1>1, <1>2 DEF ScriptOk
<1>4. NumScans(img) = Len(img.script) /\ Len(img.script) \in Nat \ {0}
      /\ DOMAIN img.script = 1 .. Len(img.script)
  BY <1>2 DEF NumScans, Images
<1>5. scan_number \in Nat /\ scan_number < NumScans(img)
  <2>1. CASE pc = "encode" BY <1>1, <1>4, <2>1 DEF PassInv, CompressTypes
  <2>2. CASE pc = "crank"
    <3>1. EveryScanIsWritten BY PassesInvIsEnough DEF EntropyInv
    <3> QED BY <1>1, <2>2, <3>1 DEF EveryScanIsWritten, CompressTypes
  <2> QED BY <2>1, <2>2
<1>6. scan_number + 1 \in DOMAIN img.script BY <1>4, <1>5
<1>7. scan = img.script[scan_number + 1] BY <1>2 DEF scan, ScanOf
<1>8. ValidProgression(img, scan_number + 1) BY <1>3, <1>6 DEF ValidScript
<1>9. scan.Ss \in 0 .. DCTSIZE2 - 1 /\ scan.Se \in scan.Ss .. DCTSIZE2 - 1
  BY <1>7, <1>8 DEF ValidProgression
<1> QED BY <1>9, ScansAssumption DEF ACBand

LEMMA McuKeeps ==
  ASSUME EntropyInv, CompressMcu
  PROVE  \E S : EntOk(ent', S)
<1> DEFINE blocks == IF MultiPass THEN McuFromArrays ELSE McuFromSamples
<1>1. ent' = EncodeMcu(blocks).ent /\ pc \in {"encode", "crank"} BY DEF CompressMcu, TakeCoded
<1>2. PICK S : EntOk(ent, S) BY DEF EntropyInv
<1> HIDE DEF blocks
<1>3. CASE Progressive(img)
  <2>1. scan.Ss # 0 => ACBand(scan) BY <1>1, <1>3, ScanIsValid
  <2>2. EncodeMcu(blocks) = EncodeMcuProgressive(img, scan, restart_interval, ent, blocks)
    BY <1>3 DEF EncodeMcu
  <2> QED BY <1>1, <1>2, <2>1, <2>2, ProgressiveKeeps
<1>4. CASE ~ Progressive(img)
  <2>1. EncodeMcu(blocks) = IF gather
                            THEN EncodeMcuGather(img, scan, restart_interval, ent, blocks)
                            ELSE EncodeMcuHuff(img, scan, restart_interval, ent, blocks)
    BY <1>4 DEF EncodeMcu
  <2> QED BY <1>1, <1>2, <2>1, SequentialKeeps
<1> QED BY <1>3, <1>4

LEMMA NewPassFits ==
  ASSUME NEW s, NEW interval
  PROVE  \E S : EntOk(InitialState(s, interval), S)
<1>1. EntShape(InitialState(s, interval), {}) /\ Drained(InitialState(s, interval))
  BY DEF InitialState, EntShape, Drained
<1> QED BY <1>1, DrainedIsOk

LEMMA EndOfPassFits ==
  ASSUME EntropyInv, FinishPassMaster
  PROVE  \E S : EntOk(ent', S)
<1>1. PICK S : EntOk(ent, S) BY DEF EntropyInv
<1> DEFINE end == IF Progressive(img) THEN FinishScan(img, scan, ent) ELSE Result(ent, <<>>)
<1>2. ent' = end.ent BY DEF FinishPassMaster, FinishPassEntropy
<1>3. Result(ent, <<>>).ent = ent BY DEF Result
<1>4. EntShape(Result(ent, <<>>).ent, S) BY <1>1, <1>3 DEF EntOk
<1>5. EntOk(EmitEobrun(AcTable(img, scan), Result(ent, <<>>)).ent, S) BY <1>4, EmitDrains
<1>6. EntOk(FinishScan(img, scan, ent).ent, S) BY <1>1, <1>3, <1>5 DEF FinishScan
<1>7. EntOk(end.ent, S) BY <1>1, <1>3, <1>6
<1> QED BY <1>2, <1>7

LEMMA StepKeepsFit ==
  ASSUME EntropyInv, CNext
  PROVE  EntropyInv'
<1> USE DEF paramVars, entropyVars
<1>1. PassesInv' BY StepCountsPasses DEF EntropyInv
<1>2. (pc # "app" => error = "none")'
  <2> USE DEF EntropyInv, PassesInv, RowsInv, CallInv, CompressTypes
  <2>1. CASE pc' = "app" BY <2>1
  <2>2. CASE pc' # "app" /\ UNCHANGED <<pc, error>>
    BY <2>2
  <2> QED
    BY <2>1, <2>2
       DEF CNext, LibraryStep, SetParameters, SuppressTables, WriteTables, StartCompress, Fails, WriteMarker,
           Abort, WriteScanlines, FinishCompress, Suspend, CannotSuspend, PreProcessData,
           WriteScanlinesReturns, SendIMcuRow, CompressMcu, IMcuRowCoded, PreparePass, PassFails,
           IMcuRowOutput, PassEnds, WriteTrailer, Idle
<1>3. (global_state = "SCANNING" => ScriptOk(img))'
  <2>1. CASE UNCHANGED <<img, global_state>> BY <2>1 DEF EntropyInv
  <2>2. CASE global_state' # "SCANNING" BY <2>2
  <2>3. ASSUME NEW all \in BOOLEAN, StartCompress(all), global_state' = "SCANNING"
        PROVE  ScriptOk(img)'
    <3>1. ScriptOk(img) /\ img' = img
      BY <2>3 DEF StartCompress, Fails, Idle, ScriptOk
    <3> QED BY <3>1
  <2> QED
    BY <2>1, <2>2, <2>3
       DEF CNext, LibraryStep, SetParameters, SuppressTables, WriteTables, Fails, WriteMarker,
           Abort, WriteScanlines, FinishCompress, Suspend, CannotSuspend, PreProcessData,
           WriteScanlinesReturns, SendIMcuRow, CompressMcu, IMcuRowCoded, PreparePass, PassFails,
           IMcuRowOutput, PassEnds, WriteTrailer, Idle
<1>4. \E S : EntOk(ent', S)
  <2>1. CASE UNCHANGED ent BY <2>1 DEF EntropyInv
  <2>2. CASE CompressMcu BY <2>2, McuKeeps
  <2>3. CASE FinishCompress \/ PassEnds BY <2>3, EndOfPassFits DEF FinishCompress, PassEnds
  <2>4. CASE PreparePass
    <3>1. \E g, interval : StartPassEntropy(g, scan, interval)
      BY <2>4 DEF PreparePass, PrepareGatherPass, PrepareOutputPass
    <3> QED BY <3>1, NewPassFits DEF StartPassEntropy
  <2>5. ASSUME NEW all \in BOOLEAN, StartCompress(all) PROVE \E S : EntOk(ent', S)
    <3>1. UNCHANGED ent \/ \E g, s, interval : StartPassEntropy(g, s, interval)
      BY <2>5 DEF StartCompress, Fails, PrepareMainPass
    <3> QED BY <2>1, <3>1, NewPassFits DEF StartPassEntropy
  <2> QED
    BY <2>1, <2>2, <2>3, <2>4, <2>5
       DEF CNext, LibraryStep, SetParameters, SuppressTables, WriteTables, Fails, WriteMarker,
           Abort, WriteScanlines, Suspend, CannotSuspend, PreProcessData, WriteScanlinesReturns,
           SendIMcuRow, IMcuRowCoded, PassFails, IMcuRowOutput, WriteTrailer
<1> QED BY <1>1, <1>2, <1>3, <1>4 DEF EntropyInv

LEMMA FitStays ==
  ASSUME EntropyInv, UNCHANGED <<countVars, countedPasses, pc, error, ent>>
  PROVE  EntropyInv'
<1>1. PassesInv' BY PassesStay DEF EntropyInv
<1>2. UNCHANGED <<img, global_state>> BY DEF countVars
<1> QED BY <1>1, <1>2 DEF EntropyInv

LEMMA FileStepsEncode ==
  ASSUME [FNext]_fvars
  PROVE  CNext \/ UNCHANGED <<countVars, countedPasses, pc, error, ent>>
<1> USE DEF countVars, countedPasses, paramVars, callVars, masterVars, prepVars, mainVars, entropyVars
<1>1. CASE Deliver BY <1>1 DEF Deliver, cvars
<1>2. CASE Discard BY <1>2 DEF Discard
<1>3. CASE Compresses BY <1>3 DEF Compresses
<1>4. CASE Reads BY <1>4 DEF Reads, cvars
<1>5. CASE UNCHANGED fvars BY <1>5 DEF fvars, cvars
<1> QED BY <1>1, <1>2, <1>3, <1>4, <1>5 DEF FNext, Done

LEMMA EntropyInvIsEnough ==
  ASSUME EntropyInv
  PROVE  CorrectionBitsFit
<1>1. PICK S : EntOk(ent, S) BY DEF EntropyInv
<1> QED BY <1>1 DEF EntOk, EntShape, CorrectionBitsFit

LEMMA StartFits ==
  ASSUME CInit
  PROVE  EntropyInv
<1>1. PassesInv /\ global_state = "START" /\ pc = "app"
  BY StartCounts, TypesStart DEF PassesInv
<1>2. \E S : EntOk(ent, S) BY NewPassFits DEF CInit
<1> QED BY <1>1, <1>2 DEF EntropyInv

\* The run of blocks and the correction bits that wait with it never exceed what the encoder
\* has for them, in any scan of any script that validate_script accepts, for blocks and a buffer
\* of any size with the room of one block between them (jcphuff.c).
THEOREM CorrectionBitsAlwaysFit == FSpec => []CorrectionBitsFit
<1>1. FInit => EntropyInv BY StartFits DEF FInit
<1>2. EntropyInv /\ [FNext]_fvars => EntropyInv' BY FileStepsEncode, StepKeepsFit, FitStays
<1>3. EntropyInv => CorrectionBitsFit BY EntropyInvIsEnough
<1> QED BY <1>1, <1>2, <1>3, PTL DEF FSpec
=============================================================================
