------------------------------- MODULE JpegFile ------------------------------
(***************************************************************************)
(* An application that compresses images with one libjpeg object and reads *)
(* the files back with another, in turn.  Both objects live on from file   *)
(* to file, so that tables can be sent in a file of their own and left out *)
(* of the images.  On its way a file can lose whole restart intervals.     *)
(***************************************************************************)
EXTENDS JpegCompress, JpegDecompress

CONSTANTS Plans,          \* what the application makes in turn: images, or
                          \* NoImage for a file of tables
          MaxLost         \* restart intervals a file can lose in a row

ASSUME FileAssumption == MaxLost \in Nat

VARIABLES plan,
          delivered,      \* what was sent: the image, its tables, the losses
          reading,
          withheld        \* a file was given up, or its tables held back

fvars == <<cvars, dvars, plan, delivered, reading, withheld>>

-----------------------------------------------------------------------------
(* What must come back.                                                    *)

\* Sample row j of component ci: the source rows it is made from, the last
\* ones again below the bottom of the image.
SampleRow(image, ci, j) ==
    LET k == MaxV(image) \div image.comps[ci].v
        groups == DivRoundUp(image.height, MaxV(image))
        row == Min({j, groups * image.comps[ci].v - 1})
    IN  [i \in 1 .. k |-> Min({row * k + i, image.height}) - 1]

SourceBlock(image, ci, row, col) ==
    Coefs(ci, [j \in 1 .. DCTSIZE |-> SampleRow(image, ci, row * DCTSIZE + j - 1)], col)

\* A coefficient to the precision that the scans of the image send.
Sent(image, ci, k, x) ==
    LET bit == IF Progressive(image) THEN LastBit(image.script, NumScans(image), ci, k) ELSE 0
    IN  IF bit < 0 THEN 0
        ELSE IF k = 0 THEN PointDC(x, bit) * 2 ^ bit
        ELSE Signed(x, PointAC(x, bit)) * 2 ^ bit

SentBlock(image, ci, row, col) ==
    [k \in 0 .. DCTSIZE2 - 1 |-> Sent(image, ci, k, SourceBlock(image, ci, row, col)[k])]

BlocksOf(image) ==
    UNION {{<<ci, row, col>> : row \in 0 .. HeightInBlocks(image, ci) - 1,
                               col \in 0 .. WidthInBlocks(image, ci) - 1}
           : ci \in Comps(image)}

-----------------------------------------------------------------------------
(* Losses.  An interval is <<n, m>>: interval m, from 0, of scan n, from 1. *)

\* The interval a block belongs to in a scan of its component.
McuNumber(image, s, ci, row, col) ==
    IF Interleaved(s)
    THEN (row \div image.comps[ci].v) * McusPerRow(image, s) + col \div image.comps[ci].h
    ELSE row * McusPerRow(image, s) + col

IntervalOf(image, n, ci, row, col) ==
    LET s == ScanOf(image, n - 1)
    IN  <<n, McuNumber(image, s, ci, row, col)
                \div RestartInterval(image, s, image.restart_interval)>>

\* The scan an item of the file belongs to, and the restarts before it there.
ScanAt(file, p) == Cardinality({q \in 1 .. p : file[q].t = "SOS"})
IntervalAt(file, p) ==
    <<ScanAt(file, p),
      Cardinality({q \in 1 .. p : file[q].t = "RST" /\ ScanAt(file, q) = ScanAt(file, p)})>>

Intervals(file) ==
    {IntervalAt(file, p) : p \in {q \in DOMAIN file : IsData(file[q])}}

\* An interval is lost with its data and with the marker before it.
Without(file, lost) ==
    LET kept == {p \in DOMAIN file :
                    file[p].t \in {"ECS", "RST"} => IntervalAt(file, p) \notin lost}
        place(p) == Cardinality({q \in kept : q < p}) + 1
    IN  [i \in 1 .. Cardinality(kept) |-> file[CHOOSE p \in kept : place(p) = i]]

\* A burst of losses within one scan that has restarts.
Losses(file) ==
    {{}} \cup {Intervals(file) \cap {<<first[1], i>> : i \in first[2] .. first[2] + count - 1} :
                  first \in {a \in Intervals(file) : <<a[1], 1>> \in Intervals(file)},
                  count \in 1 .. MaxLost}

-----------------------------------------------------------------------------
FInit ==
    /\ CInit /\ DInit
    /\ plan \in Plans /\ delivered = <<>> /\ reading = FALSE /\ withheld = FALSE

\* A bound: losses and late data are met one at a time, by files that were
\* written without delay.
WroteAtOnce == suspensions = 0

FileWritten == out # <<>> /\ Last(out).t = "EOI"

\* A file is complete: it is sent, perhaps with losses.
Deliver ==
    /\ ~ reading /\ Idle /\ global_state = "START"
    /\ FileWritten
    /\ reading' = TRUE
    /\ \E lost \in Losses(out) :
          /\ lost # {} => WroteAtOnce
          /\ src' = Without(out, lost)
          /\ delivered' = <<[image |-> img, file |-> out, tables |-> tables, lost |-> lost,
                             known |-> dtables]>>
    /\ pos' = 1 /\ used' = 0
    /\ UNCHANGED <<cvars, plan, withheld, dstate, dcall, derror, warnings, markerVars, inputVars,
                   dtableVars, dentropyVars, arrays, inPlaceVars, outputVars, starvations>>

\* The file has been read, or given up.
Discard ==
    /\ reading /\ DIdle /\ dstate = "START" /\ pos > Len(src)
    /\ reading' = FALSE /\ delivered' = <<>>
    /\ src' = <<>> /\ pos' = 1 /\ picture' = <<>> /\ arrays' = <<>> /\ out' = <<>>
    /\ UNCHANGED <<paramVars, global_state, pc, error, callVars, masterVars, prepVars, mainVars,
                   coefVars, entropyVars, tableVars, last_restart_interval, images, suspensions,
                   plan, withheld, dstate, dcall, derror, warnings, used, markerVars, inputVars,
                   dtableVars, dentropyVars, inPlaceVars, output_iMCU_row, rowVars,
                   starvations>>

\* The application keeps to its plan; a finished file is sent before anything
\* else is done with the object.
Compresses ==
    /\ ~ reading /\ ~ FileWritten
    /\ CNext
    /\ withheld' = (withheld \/ SuppressTables \/ Abort)
    /\ img' # img => \E i \in images + 1 .. Len(plan) : img' = plan[i]
    /\ images' # images =>
          /\ images < Len(plan)
          /\ plan[images'] = IF global_state' = "SCANNING" \/ error' # "none" THEN img
                             ELSE NoImage
    /\ UNCHANGED <<dvars, plan, delivered, reading>>

Reads ==
    /\ reading
    /\ DNext
    /\ starvations' # starvations => WroteAtOnce /\ delivered[1].lost = {}
    /\ UNCHANGED <<cvars, plan, delivered, reading, withheld>>

\* The plan is done: the one state where nothing more happens.  Anywhere
\* else, inside a call of either object above all, some step is possible.
Done ==
    /\ ~ reading /\ Idle /\ global_state = "START" /\ images = Len(plan)
    /\ ~ FileWritten
    /\ UNCHANGED fvars

FNext == Deliver \/ Discard \/ Compresses \/ Reads \/ Done

FSpec == FInit /\ [][FNext]_fvars

-----------------------------------------------------------------------------
(* Properties.                                                             *)

Shipped == delivered[1]

IsImage == \E p \in DOMAIN Shipped.file : Shipped.file[p].t = "SOF"

\* The tables that the frame and its scans name.
NamedTables(image) ==
    {<<Q, image.comps[ci].q>> : ci \in Comps(image)}
    \cup UNION {UsedTables(image, ScanOf(image, n - 1)) : n \in 1 .. NumScans(image)}

\* Those of them the file does not bring are those the reader has.
TablesKnown ==
    LET brought == {Shipped.file[p].key :
                       p \in {q \in DOMAIN Shipped.file : Shipped.file[q].t \in {"DQT", "DHT"}}}
    IN  IsImage =>
        \A key \in NamedTables(Shipped.image) \ brought :
            key \in DOMAIN Shipped.known /\ Shipped.known[key] = Shipped.tables[key]

\* The block is in no lost interval of any scan.
Undamaged(key) ==
    Shipped.lost = {} \/
    \A n \in 1 .. NumScans(Shipped.image) :
        InScan(ScanOf(Shipped.image, n - 1), key[1]) =>
            IntervalOf(Shipped.image, n, key[1], key[2], key[3]) \notin Shipped.lost

\* A file whose tables the reader knows, and every file if none was given up
\* and no table held back so far, is read to its end without an error, and
\* without a warning if nothing of it was lost; every block of the image that
\* is not in a lost interval comes back to the precision that was sent, with
\* the quantization table it was made with (the compressor's passes, the
\* sent_table flags of the marker writer, both entropy coders, the restart
\* logic and jpeg_resync_to_restart, the input controller).
PictureComesBack ==
    reading /\ (TablesKnown \/ ~ withheld) =>
        /\ derror = "none"
        /\ Shipped.lost = {} => warnings = {}
        /\ dstate = "STOPPING" /\ IsImage =>
              /\ DOMAIN picture = BlocksOf(Shipped.image)
              /\ \A key \in DOMAIN picture :
                    /\ picture[key].quant =
                          <<Shipped.tables[<<Q, Shipped.image.comps[key[1]].q>>]>>
                    /\ Undamaged(key) =>
                          picture[key].block =
                             SentBlock(Shipped.image, key[1], key[2], key[3])
=============================================================================
