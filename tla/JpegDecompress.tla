---------------------------- MODULE JpegDecompress ---------------------------
(***************************************************************************)
(* The libjpeg decompression object: the calls of jdapimin.c and           *)
(* jdapistd.c, the input controller (jdinput.c), the marker reader         *)
(* (jdmarker.c), the coefficient (jdcoefct.c) and main (jdmainct.c)        *)
(* controllers and the passes of the entropy decoders.                     *)
(*                                                                         *)
(* The object reads src, a file in the form JpegCompress writes it; the    *)
(* data may arrive late, and a call then returns and is made again.  One   *)
(* step is a call, a marker, a restart, an MCU, a row of iMCUs put out, or *)
(* a return.  The inverse transform is left out: the picture is the set of *)
(* blocks given to it, each with its quantization table.                   *)
(***************************************************************************)
EXTENDS JpegDecoding

CONSTANTS D_MAX_BLOCKS_IN_MCU,
          MaxBufferLines,     \* rows the application asks for in one call
          MaxStarvations      \* times the data is late

ASSUME DecompressAssumption ==
    MaxBufferLines \in Nat \ {0} /\ MaxStarvations \in Nat /\ D_MAX_BLOCKS_IN_MCU \in Nat

VARIABLES
    dstate,             \* global_state, DSTATE_...
    dcall,              \* the call under way, "app" when there is none
    derror, warnings,
    src, pos, used,     \* the file, the next item of it, its bits used
    saw_SOI, frame, dscan, input_scan_number, next_restart_num, drestart_interval,
                        \* jdmarker.c; frame is <<>> before a SOF
    inheaders, consume, has_multiple_scans, eoi_reached,
                        \* jdinput.c: consume is "markers" or "data"
    dtables,            \* quantization and Huffman tables of the object
    quant_table,        \* the copy each component keeps, <<>> before
    coef_bits, derived_tbls, dent,  \* the entropy decoder
    arrays,             \* coefficient arrays of a file of several scans
    input_iMCU_row, dmcu_ctr, dMCU_vert_offset,     \* jdcoefct.c, input
    output_iMCU_row, output_scanline,
    buffer_full, rowgroup, next_row_out,            \* jdmainct.c, jdsample.c
    picture,            \* blocks given to the inverse transform
    starvations

sourceVars == <<src, pos, used>>
markerVars == <<saw_SOI, frame, dscan, input_scan_number, next_restart_num, drestart_interval>>
inputVars == <<inheaders, consume, has_multiple_scans, eoi_reached>>
dtableVars == <<dtables, quant_table>>
dentropyVars == <<coef_bits, derived_tbls, dent>>
inPlaceVars == <<input_iMCU_row, dmcu_ctr, dMCU_vert_offset>>
rowVars == <<output_scanline, buffer_full, rowgroup, next_row_out>>
outputVars == <<output_iMCU_row, rowVars, picture>>
dvars == <<dstate, dcall, derror, warnings, sourceVars, markerVars, inputVars, dtableVars,
           dentropyVars, arrays, inPlaceVars, outputVars, starvations>>

-----------------------------------------------------------------------------
(* The data source.                                                        *)

Segment == IF pos <= Len(src) /\ IsData(src[pos]) THEN src[pos].bits ELSE <<>>

\* Whole bytes that are passed over are reported, unless the bit buffer had
\* taken them before.
DataPassed == {{}} \cup IF Len(Segment) - used >= 8 THEN {{"EXTRANEOUS_DATA"}} ELSE {}

\* The marker read next.
NextRec == src[NextMarker(src, pos)]

-----------------------------------------------------------------------------
(* Passes over the input: start_input_pass.                                *)

DCNeeded(s) == ~ frame.progressive \/ (s.Ss = 0 /\ s.Ah = 0)
ACNeeded(s) == ~ frame.progressive \/ s.Ss # 0
TablesNeeded(s) ==
    {<<DC, s.td[i]>> : i \in {j \in DOMAIN s.comps : DCNeeded(s)}}
    \cup {<<AC, s.ta[i]>> : i \in {j \in DOMAIN s.comps : ACNeeded(s)}}

BadProgression(s) ==
    \/ s.Ss = 0 /\ s.Se # 0
    \/ s.Ss # 0 /\ (s.Ss > s.Se \/ s.Se >= DCTSIZE2 \/ Interleaved(s))
    \/ s.Ah # 0 /\ s.Al # s.Ah - 1

\* Tables that std_huff_tables or the file put in the slots.
PassError(s, tabs) ==
    IF Interleaved(s) /\ BlocksInMcu(frame, s) > D_MAX_BLOCKS_IN_MCU THEN "BAD_MCU_SIZE"
    ELSE IF \E i \in DOMAIN s.comps : /\ quant_table[s.comps[i]] = <<>>
                                      /\ <<"Q", frame.comps[s.comps[i]].q>> \notin DOMAIN tabs
         THEN "NO_QUANT_TABLE"
    ELSE IF frame.progressive /\ BadProgression(s) THEN "BAD_PROGRESSION"
    ELSE IF \E key \in TablesNeeded(s) : key \notin DOMAIN tabs THEN "NO_HUFF_TABLE"
    ELSE IF \E key \in TablesNeeded(s) : ~ WellFormed(tabs[key], key[1] = DC)
         THEN "BAD_HUFF_TABLE"
    ELSE "none"

\* latch_quant_tables: a component keeps the table it had in its first scan.
LatchQuantTables(s, tabs) ==
    [ci \in Comps(frame) |->
        IF quant_table[ci] = <<>> /\ InScan(s, ci)
        THEN <<tabs[<<"Q", frame.comps[ci].q>>]>> ELSE quant_table[ci]]

\* start_pass of the decoders: a scan out of its order is only a warning.
ScanWarnings(s, bits) ==
    IF ~ frame.progressive
    THEN IF s.Ss # 0 \/ s.Se # DCTSIZE2 - 1 \/ s.Ah # 0 \/ s.Al # 0
         THEN {"NOT_SEQUENTIAL"} ELSE {}
    ELSE IF \E i \in DOMAIN s.comps :
              LET b == bits[s.comps[i]]
              IN  \/ s.Ss # 0 /\ b[0] < 0
                  \/ \E k \in s.Ss .. s.Se : s.Ah # Max({b[k], 0})
         THEN {"BOGUS_PROGRESSION"} ELSE {}

StartInputPass(s, tabs, bits) ==
    /\ quant_table' = LatchQuantTables(s, tabs)
    /\ warnings' = warnings \cup ScanWarnings(s, bits)
    /\ coef_bits' =
          IF ~ frame.progressive THEN bits
          ELSE [ci \in Comps(frame) |-> [k \in 0 .. DCTSIZE2 - 1 |->
                   IF Covers(s, ci, k) THEN s.Al ELSE bits[ci][k]]]
    /\ derived_tbls' = [key \in TablesNeeded(s) |->
                           [table |-> tabs[key], derived |-> MakeDDerivedTbl(tabs[key])]]
    /\ dent' = [last_dc_val |-> [i \in DOMAIN s.comps |-> 0], EOBRUN |-> 0,
                restarts_to_go |-> drestart_interval, insufficient_data |-> FALSE]
    /\ input_iMCU_row' = 0 /\ dmcu_ctr' = 0 /\ dMCU_vert_offset' = 0
    /\ consume' = "data" /\ used' = 0

-----------------------------------------------------------------------------
(* Calls.                                                                  *)

NoScan == [comps |-> <<>>, td |-> <<>>, ta |-> <<>>, Ss |-> 0, Se |-> 0, Ah |-> 0, Al |-> 0]

DInit ==
    /\ dstate = "START" /\ dcall = "app" /\ derror = "none" /\ warnings = {}
    /\ src = <<>> /\ pos = 1 /\ used = 0
    /\ saw_SOI = FALSE /\ frame = <<>> /\ dscan = NoScan /\ input_scan_number = 0
    /\ next_restart_num = 0 /\ drestart_interval = 0
    /\ inheaders = TRUE /\ consume = "markers" /\ has_multiple_scans = FALSE
    /\ eoi_reached = FALSE
    /\ dtables = <<>> /\ quant_table = <<>> /\ coef_bits = <<>> /\ derived_tbls = <<>>
    /\ dent = [last_dc_val |-> <<>>, EOBRUN |-> 0, restarts_to_go |-> 0,
               insufficient_data |-> FALSE]
    /\ arrays = <<>> /\ input_iMCU_row = 0 /\ dmcu_ctr = 0 /\ dMCU_vert_offset = 0
    /\ output_iMCU_row = 0 /\ output_scanline = 0
    /\ buffer_full = FALSE /\ rowgroup = 0 /\ next_row_out = 0
    /\ picture = <<>> /\ starvations = 0

DIdle == dcall = "app" /\ derror = "none"

\* jpeg_read_header; the first call for a file resets the input controller
\* and the marker reader.
ReadHeader ==
    /\ DIdle /\ dstate \in {"START", "INHEADER"} /\ pos <= Len(src)
    /\ dcall' = "read_header"
    /\ IF dstate = "INHEADER"
       THEN UNCHANGED <<dstate, warnings, markerVars, inputVars>>
       ELSE /\ dstate' = "INHEADER" /\ warnings' = {}
            /\ saw_SOI' = FALSE /\ frame' = <<>> /\ input_scan_number' = 0
            /\ inheaders' = TRUE /\ consume' = "markers"
            /\ has_multiple_scans' = FALSE /\ eoi_reached' = FALSE
            /\ UNCHANGED <<dscan, next_restart_num, drestart_interval>>
    /\ UNCHANGED <<derror, sourceVars, dtableVars, dentropyVars, arrays, inPlaceVars,
                   outputVars, starvations>>

Blank(ci) ==
    [row \in 1 .. RoundUp(HeightInBlocks(frame, ci), frame.comps[ci].v) |->
        [col \in 1 .. RoundUp(WidthInBlocks(frame, ci), frame.comps[ci].h) |-> ZeroBlock]]

\* jpeg_start_decompress, the first time: jinit_master_decompress selects
\* the modules and starts the first pass over the input.  A sequential
\* decoder puts the sample Huffman tables in the slots that are empty.
StartDecompress ==
    LET tabs == IF frame.progressive THEN dtables ELSE dtables @@ StdTables
        bits == [ci \in Comps(frame) |-> [k \in 0 .. DCTSIZE2 - 1 |-> -1]]
    IN  /\ DIdle /\ dstate = "READY"
        /\ dtables' = tabs
        /\ output_iMCU_row' = 0 /\ output_scanline' = 0
        /\ buffer_full' = FALSE /\ rowgroup' = 0 /\ next_row_out' = MaxV(frame)
        /\ picture' = <<>>
        /\ arrays' = IF has_multiple_scans THEN [ci \in Comps(frame) |-> Blank(ci)] ELSE <<>>
        /\ IF PassError(dscan, tabs) = "none"
           THEN /\ StartInputPass(dscan, tabs, bits)
                /\ IF has_multiple_scans
                   THEN dstate' = "PRELOAD" /\ dcall' = "start_decompress"
                   ELSE dstate' = "SCANNING" /\ UNCHANGED dcall
                /\ UNCHANGED derror
           ELSE /\ derror' = PassError(dscan, tabs)
                /\ UNCHANGED <<dstate, dcall, warnings, quant_table, dentropyVars, inPlaceVars,
                               consume, used>>
        /\ UNCHANGED <<src, pos, markerVars, inheaders, has_multiple_scans, eoi_reached,
                       starvations>>

\* The call made again after it was suspended.
StartDecompressAgain ==
    /\ DIdle /\ dstate = "PRELOAD"
    /\ dcall' = "start_decompress"
    /\ UNCHANGED <<dstate, derror, warnings, sourceVars, markerVars, inputVars, dtableVars,
                   dentropyVars, arrays, inPlaceVars, outputVars, starvations>>

ReadScanlines ==
    /\ DIdle /\ dstate = "SCANNING" /\ output_scanline < frame.height
    /\ dcall' = "read_scanlines"
    /\ UNCHANGED <<dstate, derror, warnings, sourceVars, markerVars, inputVars, dtableVars,
                   dentropyVars, arrays, inPlaceVars, outputVars, starvations>>

\* jpeg_finish_decompress, and the same call made again.
FinishDecompress ==
    /\ DIdle
    /\ dstate = "STOPPING" \/ (dstate = "SCANNING" /\ output_scanline >= frame.height)
    /\ dstate' = "STOPPING" /\ dcall' = "finish_decompress"
    /\ UNCHANGED <<derror, warnings, sourceVars, markerVars, inputVars, dtableVars,
                   dentropyVars, arrays, inPlaceVars, outputVars, starvations>>

\* jpeg_abort, after an error.
DAbort ==
    /\ dcall = "app" /\ derror # "none"
    /\ derror' = "none" /\ dstate' = "START" /\ pos' = Len(src) + 1
    /\ UNCHANGED <<dcall, warnings, src, used, markerVars, inputVars, dtableVars, dentropyVars,
                   arrays, inPlaceVars, outputVars, starvations>>

\* Data that is late ends the call.  Everything but a refinement of AC
\* coefficients is begun again from where it was.
Suspended ==
    /\ dcall # "app" /\ starvations < MaxStarvations
    /\ dcall = "read_scanlines" => ~ buffer_full /\ ~ has_multiple_scans
    /\ starvations' = starvations + 1 /\ dcall' = "app"
    /\ UNCHANGED <<dstate, derror, warnings, sourceVars, markerVars, inputVars, dtableVars,
                   dentropyVars, arrays, inPlaceVars, outputVars>>

-----------------------------------------------------------------------------
(* Markers: consume_markers and read_markers.                              *)

ReadsMarkers ==
    /\ dcall \in {"read_header", "start_decompress", "finish_decompress"}
    /\ consume = "markers" /\ ~ eoi_reached

MarkerError(m) ==
    IF ~ saw_SOI /\ m.t # "SOI" THEN "NO_SOI"
    ELSE IF saw_SOI /\ m.t = "SOI" THEN "SOI_DUPLICATE"
    ELSE IF m.t = "SOF" /\ frame # <<>> THEN "SOF_DUPLICATE"
    ELSE IF m.t = "SOF" /\ (m.height = 0 \/ m.width = 0 \/ m.comps = <<>>) THEN "EMPTY_IMAGE"
    ELSE IF m.t = "EOI" /\ inheaders /\ frame # <<>> THEN "SOF_NO_SOS"
    ELSE IF m.t # "SOS" THEN "none"
    ELSE IF frame = <<>> THEN "SOS_NO_SOF"
    ELSE IF Len(m.comps) \notin 1 .. MAX_COMPS_IN_SCAN THEN "BAD_LENGTH"
    ELSE IF \E i \in DOMAIN m.comps : m.comps[i].ci \notin i .. Len(frame.comps)
         THEN "BAD_COMPONENT_ID"
    ELSE IF inheaders /\ ~ SetupOk(frame) THEN "BAD_SAMPLING"
    ELSE IF ~ inheaders /\ ~ has_multiple_scans THEN "EOI_EXPECTED"
    ELSE "none"

ScanRead(m) ==
    [comps |-> [i \in DOMAIN m.comps |-> m.comps[i].ci],
     td |-> [i \in DOMAIN m.comps |-> m.comps[i].td],
     ta |-> [i \in DOMAIN m.comps |-> m.comps[i].ta],
     Ss |-> m.Ss, Se |-> m.Se, Ah |-> m.Ah, Al |-> m.Al]

\* The error of a marker; a later scan can also be refused by its pass.
ErrorAt(m) ==
    IF MarkerError(m) = "none" /\ m.t = "SOS" /\ ~ inheaders
    THEN PassError(ScanRead(m), dtables) ELSE MarkerError(m)

Passed == pos' = NextMarker(src, pos) + 1 /\ used' = 0 /\ UNCHANGED src

\* get_soi, get_sof, get_dht, get_dqt, get_dri; comments and stray restart
\* markers change nothing.
ReadMarker ==
    /\ ReadsMarkers
    /\ NextRec.t \notin {"SOS", "EOI"} /\ ErrorAt(NextRec) = "none"
    /\ \E passed \in DataPassed : warnings' = warnings \cup passed
    /\ Passed
    /\ saw_SOI' = TRUE
    /\ frame' = IF NextRec.t = "SOF" THEN NextRec ELSE frame
    /\ drestart_interval' = CASE NextRec.t = "SOI" -> 0
                              [] NextRec.t = "DRI" -> NextRec.n
                              [] OTHER -> drestart_interval
    /\ dtables' = IF NextRec.t \in {"DHT", "DQT"} THEN (NextRec.key :> NextRec.table) @@ dtables
                  ELSE dtables
    /\ UNCHANGED <<dstate, dcall, derror, dscan, input_scan_number, next_restart_num, inputVars,
                   quant_table, dentropyVars, arrays, inPlaceVars, outputVars, starvations>>

\* The first SOS ends the header: initial_setup.
ReadFirstSos ==
    /\ ReadsMarkers /\ inheaders
    /\ NextRec.t = "SOS" /\ ErrorAt(NextRec) = "none"
    /\ Passed
    /\ dscan' = ScanRead(NextRec)
    /\ input_scan_number' = input_scan_number + 1 /\ next_restart_num' = 0
    /\ inheaders' = FALSE
    /\ has_multiple_scans' = (frame.progressive \/ Len(NextRec.comps) < Len(frame.comps))
    /\ quant_table' = [ci \in Comps(frame) |-> <<>>]
    /\ dstate' = "READY" /\ dcall' = "app"
    /\ UNCHANGED <<derror, warnings, saw_SOI, frame, drestart_interval, consume, eoi_reached,
                   dtables, dentropyVars, arrays, inPlaceVars, outputVars, starvations>>

\* A later SOS starts another pass over the input.
ReadNextSos ==
    LET s == ScanRead(NextRec)
    IN  /\ ReadsMarkers /\ ~ inheaders
        /\ NextRec.t = "SOS" /\ ErrorAt(NextRec) = "none"
        /\ StartInputPass(s, dtables, coef_bits)
        /\ pos' = NextMarker(src, pos) + 1
        /\ dscan' = s
        /\ input_scan_number' = input_scan_number + 1 /\ next_restart_num' = 0
        /\ UNCHANGED <<dstate, dcall, derror, src, saw_SOI, frame, drestart_interval, inheaders,
                       has_multiple_scans, eoi_reached, dtables, arrays, outputVars,
                       starvations>>

\* The end of the file: of one with tables alone, of the scans that
\* jpeg_start_decompress absorbs, or of what jpeg_finish_decompress reads;
\* the first and the last end in jpeg_abort.
ReadEoi ==
    /\ ReadsMarkers
    /\ NextRec.t = "EOI" /\ ErrorAt(NextRec) = "none"
    /\ \E passed \in DataPassed : warnings' = warnings \cup passed
    /\ Passed
    /\ eoi_reached' = TRUE
    /\ dcall' = "app"
    /\ dstate' = IF dcall = "start_decompress" THEN "SCANNING" ELSE "START"
    /\ UNCHANGED <<derror, markerVars, inheaders, consume, has_multiple_scans, dtableVars,
                   dentropyVars, arrays, inPlaceVars, outputVars, starvations>>

ReadFails ==
    /\ ReadsMarkers /\ ErrorAt(NextRec) # "none"
    /\ derror' = ErrorAt(NextRec) /\ dcall' = "app"
    /\ UNCHANGED <<dstate, warnings, sourceVars, markerVars, inputVars, dtableVars, dentropyVars,
                   arrays, inPlaceVars, outputVars, starvations>>

\* jpeg_finish_decompress of a file whose end has been read before.
Finished ==
    /\ dcall = "finish_decompress" /\ eoi_reached
    /\ dcall' = "app" /\ dstate' = "START"
    /\ UNCHANGED <<derror, warnings, sourceVars, markerVars, inputVars, dtableVars, dentropyVars,
                   arrays, inPlaceVars, outputVars, starvations>>

-----------------------------------------------------------------------------
(* Data: decompress_onepass and consume_data.                              *)

\* The library takes data: in a file of one scan to fill the row buffer.
ReadsData ==
    /\ consume = "data"
    /\ \/ dcall = "start_decompress"
       \/ dcall = "read_scanlines" /\ ~ buffer_full

DRowUnfinished == dMCU_vert_offset < McuRowsPerIMcuRow(frame, dscan, input_iMCU_row)
DRestartDue == drestart_interval > 0 /\ dent.restarts_to_go = 0

\* process_restart.  The flag stays up when the marker is left unread.
ProcessRestart ==
    LET found == ReadRestart(src, pos, next_restart_num)
    IN  /\ ReadsData /\ DRowUnfinished /\ DRestartDue
        /\ \E passed \in DataPassed : warnings' = warnings \cup passed \cup found.warn
        /\ pos' = found.pos /\ used' = 0
        /\ next_restart_num' = (next_restart_num + 1) % 8
        /\ dent' = [last_dc_val |-> [i \in DOMAIN dscan.comps |-> 0], EOBRUN |-> 0,
                    restarts_to_go |-> drestart_interval,
                    insufficient_data |-> found.left /\ dent.insufficient_data]
        /\ UNCHANGED <<dstate, dcall, derror, src, saw_SOI, frame, dscan, input_scan_number,
                       drestart_interval, inputVars, dtableVars, coef_bits, derived_tbls, arrays,
                       inPlaceVars, outputVars, starvations>>

\* Component, row and column of each block of the MCU that is due.
McuBlocks ==
    LET places == Places(frame, dscan)
    IN  [b \in DOMAIN places |->
            LET p == places[b]
                ci == dscan.comps[p.i]
            IN  [ci |-> ci, i |-> p.i,
                 row |-> input_iMCU_row * frame.comps[ci].v + dMCU_vert_offset + p.y,
                 col |-> dmcu_ctr * McuWidth(frame, dscan, p.i) + p.x,
                 real |-> IsRealBlock(frame, dscan, input_iMCU_row, dMCU_vert_offset,
                                      dmcu_ctr, p)]]

BlockBefore(b) ==
    IF has_multiple_scans THEN arrays[b.ci][b.row + 1][b.col + 1] ELSE ZeroBlock

\* decode_mcu: the blocks after it and the state of the decoder.  Partial
\* is what a refinement leaves when only `have` bits of the segment came.
DecodeMcu(at, have) ==
    LET Decode(a, i, block) ==
            LET last == a.last[i]
                dc == derived_tbls[<<DC, dscan.td[i]>>]
                ac == derived_tbls[<<AC, dscan.ta[i]>>]
            IN  CASE ~ frame.progressive ->
                        DecodeBlock(Segment, dc, ac, a.rd, block, last)
                  [] frame.progressive /\ dscan.Ss = 0 /\ dscan.Ah = 0 ->
                        DecodeDCFirst(Segment, dc, a.rd, block, last, dscan.Al)
                  [] frame.progressive /\ dscan.Ss = 0 /\ dscan.Ah # 0 ->
                        DecodeDCRefine(Segment, a.rd, block, dscan.Al)
                  [] frame.progressive /\ dscan.Ss # 0 /\ dscan.Ah = 0 ->
                        DecodeACFirst(Segment, ac, a.rd, block, a.EOBRUN, dscan)
                  [] frame.progressive /\ dscan.Ss # 0 /\ dscan.Ah # 0 ->
                        DecodeACRefine(Segment, ac, a.rd, block, a.EOBRUN, dscan, have)
        Add(a, i, d) ==
            [a EXCEPT !.blocks = Append(@, d.block), !.rd = d.rd, !.EOBRUN = d.EOBRUN,
                      !.last[i] = d.last, !.partial = d.partial]
        Step(a, b) ==
            Add(a, at[b].i,
                Decode(a, at[b].i, BlockBefore(at[b])) @@
                [last |-> a.last[at[b].i], EOBRUN |-> a.EOBRUN, partial |-> ZeroBlock])
    IN  FoldLeft(Step, [blocks |-> <<>>, rd |-> [at |-> used, warn |-> {}], partial |-> ZeroBlock,
                        last |-> dent.last_dc_val, EOBRUN |-> dent.EOBRUN],
                 [b \in DOMAIN at |-> b])

\* The arrays with the blocks of the MCU put back.
Stored(at, blocks) ==
    FoldLeft(LAMBDA arr, b :
                 [arr EXCEPT ![at[b].ci][at[b].row + 1][at[b].col + 1] = blocks[b]],
             arrays, [b \in DOMAIN blocks |-> b])

\* The blocks of the MCU that are given to the inverse transform at once.
Shown(at, blocks) ==
    LET real == {b \in DOMAIN at : at[b].real}
    IN  [key \in {<<at[b].ci, at[b].row, at[b].col>> : b \in real} |->
            LET b == CHOOSE b \in real : key = <<at[b].ci, at[b].row, at[b].col>>
            IN  [block |-> blocks[b], quant |-> quant_table[at[b].ci]]]

AfterMcu(at, blocks) ==
    IF has_multiple_scans
    THEN arrays' = Stored(at, blocks) /\ UNCHANGED picture
    ELSE picture' = Shown(at, blocks) @@ picture /\ UNCHANGED arrays

\* One MCU.  When the segment ends within it, zeros are read and the flag
\* goes up; while it is up, an MCU adds nothing.
TakeMcu(at, d, counted) ==
    LET hit == d.rd.at > Len(Segment)
    IN  /\ AfterMcu(at, d.blocks)
        /\ dent' = [last_dc_val |-> d.last, EOBRUN |-> d.EOBRUN,
                    restarts_to_go |-> counted, insufficient_data |-> hit]
        /\ used' = Min({d.rd.at, Len(Segment)})
        /\ warnings' = warnings \cup d.rd.warn \cup IF hit THEN {"HIT_MARKER"} ELSE {}

ConsumeMcu ==
    LET at == McuBlocks
        blank == [b \in DOMAIN at |-> BlockBefore(at[b])]
        counted == IF drestart_interval = 0 THEN dent.restarts_to_go ELSE dent.restarts_to_go - 1
    IN  /\ ReadsData /\ DRowUnfinished /\ ~ DRestartDue
        /\ IF dent.insufficient_data
           THEN /\ AfterMcu(at, blank)
                /\ dent' = [dent EXCEPT !.restarts_to_go = counted]
                /\ UNCHANGED <<used, warnings>>
           ELSE TakeMcu(at, DecodeMcu(at, Len(Segment)), counted)
        /\ IF dmcu_ctr + 1 < McusPerRow(frame, dscan)
           THEN dmcu_ctr' = dmcu_ctr + 1 /\ UNCHANGED dMCU_vert_offset
           ELSE dmcu_ctr' = 0 /\ dMCU_vert_offset' = dMCU_vert_offset + 1
        /\ UNCHANGED <<dstate, dcall, derror, src, pos, markerVars, inputVars, dtableVars,
                       coef_bits, derived_tbls, input_iMCU_row, output_iMCU_row, rowVars, starvations>>

\* The bytes of a refinement run out in the middle of a block.
Interrupted(d, have) ==
    /\ have < d.rd.at
    /\ arrays' = Stored(McuBlocks, <<d.partial>>)

RefinementSuspended(have) ==
    /\ ReadsData /\ DRowUnfinished /\ ~ DRestartDue
    /\ frame.progressive /\ dscan.Ss # 0 /\ dscan.Ah # 0
    /\ ~ dent.insufficient_data
    /\ starvations < MaxStarvations /\ starvations' = starvations + 1
    /\ have % 8 = 0 /\ used < have
    /\ Interrupted(DecodeMcu(McuBlocks, have), have)
    /\ dcall' = "app"
    /\ UNCHANGED <<dstate, derror, warnings, sourceVars, markerVars, inputVars, dtableVars,
                   dentropyVars, inPlaceVars, outputVars>>

\* The end of a row of iMCUs; after the last one finish_input_pass.
InputRowEnds ==
    /\ ReadsData /\ ~ DRowUnfinished
    /\ input_iMCU_row' = input_iMCU_row + 1 /\ dmcu_ctr' = 0 /\ dMCU_vert_offset' = 0
    /\ consume' = IF input_iMCU_row = TotalIMcuRows(frame) - 1 THEN "markers" ELSE consume
    /\ IF has_multiple_scans
       THEN UNCHANGED <<output_iMCU_row, buffer_full>>
       ELSE output_iMCU_row' = output_iMCU_row + 1 /\ buffer_full' = TRUE
    /\ UNCHANGED <<dstate, dcall, derror, warnings, sourceVars, markerVars, inheaders,
                   has_multiple_scans, eoi_reached, dtableVars, dentropyVars, arrays,
                   output_scanline, rowgroup, next_row_out, picture, starvations>>

-----------------------------------------------------------------------------
(* Output.                                                                 *)

\* decompress_data: a row of iMCUs from the arrays.
OutputFromArrays ==
    LET rows(ci) ==
            LET v == frame.comps[ci].v
                n == IF output_iMCU_row < TotalIMcuRows(frame) - 1 THEN v
                     ELSE LastGroup(HeightInBlocks(frame, ci), v)
            IN  output_iMCU_row * v .. output_iMCU_row * v + n - 1
        shown == UNION {{<<ci, row, col>> : row \in rows(ci),
                                            col \in 0 .. WidthInBlocks(frame, ci) - 1}
                        : ci \in Comps(frame)}
    IN  /\ dcall = "read_scanlines" /\ has_multiple_scans /\ ~ buffer_full
        /\ picture' = [key \in shown |-> [block |-> arrays[key[1]][key[2] + 1][key[3] + 1],
                                          quant |-> quant_table[key[1]]]] @@ picture
        /\ output_iMCU_row' = output_iMCU_row + 1 /\ buffer_full' = TRUE
        /\ UNCHANGED <<dstate, dcall, derror, warnings, sourceVars, markerVars, inputVars,
                       dtableVars, dentropyVars, arrays, inPlaceVars, output_scanline, rowgroup,
                       next_row_out, starvations>>

\* process_data_simple_main with the row buffer full: the rows the call
\* returns, of one row group at most and none below the image.
EmitRows ==
    LET first == IF next_row_out >= MaxV(frame) THEN 0 ELSE next_row_out
        rows == Min({MaxV(frame) - first, frame.height - output_scanline, MaxBufferLines})
        emptied == first + rows >= MaxV(frame)
        last == emptied /\ rowgroup + 1 >= DCTSIZE
    IN  /\ dcall = "read_scanlines" /\ buffer_full
        /\ next_row_out' = first + rows
        /\ output_scanline' = output_scanline + rows
        /\ rowgroup' = IF last THEN 0 ELSE IF emptied THEN rowgroup + 1 ELSE rowgroup
        /\ buffer_full' = ~ last
        /\ dcall' = "app"
        /\ UNCHANGED <<dstate, derror, warnings, sourceVars, markerVars, inputVars, dtableVars,
                       dentropyVars, arrays, inPlaceVars, output_iMCU_row, picture, starvations>>

ReaderStep ==
    \/ ReadMarker \/ ReadFirstSos \/ ReadNextSos \/ ReadEoi \/ ReadFails \/ Finished
    \/ ProcessRestart \/ ConsumeMcu \/ InputRowEnds \/ OutputFromArrays \/ EmitRows

DNext ==
    \/ ReadHeader \/ StartDecompress \/ StartDecompressAgain \/ ReadScanlines
    \/ FinishDecompress \/ DAbort
    \/ Suspended \/ (\E have \in 0 .. Len(Segment) : RefinementSuspended(have))
    \/ ReaderStep
=============================================================================
