----------------------------- MODULE JpegCompress ----------------------------
(***************************************************************************)
(* The libjpeg compression object: the calls of jcapimin.c and jcapistd.c, *)
(* the master (jcmaster.c), main (jcmainct.c), preprocessing (jcprepct.c)  *)
(* and coefficient (jccoefct.c) controllers, the entropy encoder's passes  *)
(* and the marker writer (jcmarker.c).                                     *)
(*                                                                         *)
(* The application sets parameters, starts, writes scanlines in batches of *)
(* any size and finishes; the destination may suspend the compressor.  One *)
(* step is a call, a batch of rows taken into the conversion buffer, a row *)
(* of iMCUs sent on, an MCU coded, or a return.  A sample row is the tuple *)
(* of the source rows it was made from; the transform is the constant      *)
(* operator Coefs.  The file is a sequence of markers and of segments of   *)
(* bits.                                                                   *)
(***************************************************************************)
EXTENDS JpegEntropy

CONSTANTS Settings,           \* images, with all that the application sets for them
          Coefs(_, _, _),     \* block of a component from sample rows, column
          LineCounts,         \* rows the application passes in one call
          MaxImages, MaxSuspensions

\* What an application may set; the library checks the rest.
Images ==
    [width : Nat, height : Nat, quality : Nat, optimize : BOOLEAN,
     comps : Seq([h : Nat, v : Nat, q : Nat, dc : Nat, ac : Nat]),
     script : Seq([comps : Seq(Nat), Ss : Nat, Se : Nat, Ah : Nat, Al : Nat]),
     restart_in_rows : Nat, restart_interval : Nat]

ASSUME CompressAssumption ==
    /\ Settings \subseteq Images
    /\ LineCounts \subseteq Nat \ {0}
    /\ MaxImages \in Nat /\ MaxSuspensions \in Nat

VARIABLES
    img,                \* the parameters of the object
    global_state,       \* START or SCANNING
    pc,                 \* where in the library the thread is
    error,              \* the error the last call ended with
    next_scanline,
    num_lines, in_row_ctr,                          \* of the call under way
    pass_type, scan_number, pass_number, total_passes,
    is_last_pass, call_pass_startup,                \* jcmaster.c
    rows_to_go, next_buf_row, color_buf,            \* jcprepct.c
    rowgroup_ctr, cur_iMCU_row, suspended, main_buf,\* jcmainct.c
    iMCU_row_num, mcu_ctr, MCU_vert_offset, whole_image, \* jccoefct.c
    gather, ent, freq, derived,                     \* the entropy encoder
    tables, sent,       \* quantization and Huffman tables, those sent
    optimize_coding, restart_interval, last_restart_interval,
    out,                \* the file being written
    images,             \* images started so far
    suspensions         \* suspensions of the destination so far

callVars == <<next_scanline, num_lines, in_row_ctr>>
masterVars == <<pass_type, scan_number, pass_number, total_passes,
                is_last_pass, call_pass_startup>>
prepVars == <<rows_to_go, next_buf_row, color_buf>>
mainVars == <<rowgroup_ctr, cur_iMCU_row, suspended, main_buf>>
coefVars == <<iMCU_row_num, mcu_ctr, MCU_vert_offset, whole_image>>
entropyVars == <<gather, ent, freq, derived>>
tableVars == <<tables, sent>>
paramVars == <<img, optimize_coding, restart_interval>>
cvars == <<paramVars, global_state, pc, error, callVars, masterVars, prepVars,
           mainVars, coefVars, entropyVars, tableVars, last_restart_interval,
           out, images, suspensions>>

Q == "Q"
Marker(type) == [t |-> type]

scan == ScanOf(img, scan_number)
MultiPass == total_passes > 1
LastIMcuRow == TotalIMcuRows(img) - 1

-----------------------------------------------------------------------------
(* The marker writer: each operator gives the file and the sent_table      *)
(* flags after it, from f = [out, sent, dri].                              *)

\* emit_dqt and emit_dht: a table that was sent is not sent again.
EmitTable(f, key) ==
    IF key \in f.sent THEN f
    ELSE [f EXCEPT !.out = Append(@, [t |-> IF key[1] = Q THEN "DQT" ELSE "DHT",
                                      key |-> key, table |-> tables[key]]),
                   !.sent = @ \cup {key}]

EmitTables(f, keys) == FoldLeft(EmitTable, f, keys)

SofMarker ==
    [t |-> "SOF", progressive |-> Progressive(img),
     height |-> img.height, width |-> img.width,
     comps |-> [ci \in Comps(img) |->
                   [h |-> img.comps[ci].h, v |-> img.comps[ci].v, q |-> img.comps[ci].q]]]

WriteFrameHeader(f) ==
    LET tabled == EmitTables(f, [ci \in Comps(img) |-> <<Q, img.comps[ci].q>>])
    IN  [tabled EXCEPT !.out = Append(@, SofMarker)]

\* Tables are named only where the scan uses them.
SosMarker(s) ==
    [t |-> "SOS", Ss |-> s.Ss, Se |-> s.Se, Ah |-> s.Ah, Al |-> s.Al,
     comps |-> [i \in DOMAIN s.comps |->
                   [ci |-> s.comps[i],
                    td |-> IF s.Ss = 0 /\ s.Ah = 0 THEN img.comps[s.comps[i]].dc ELSE 0,
                    ta |-> IF s.Se # 0 THEN img.comps[s.comps[i]].ac ELSE 0]]]

WriteScanHeader(f, s, interval) ==
    LET keys(c) == (IF s.Ss = 0 /\ s.Ah = 0 THEN << <<DC, c.dc>> >> ELSE <<>>)
                   \o (IF s.Se # 0 THEN << <<AC, c.ac>> >> ELSE <<>>)
        tabled == EmitTables(f, FlattenSeq([i \in DOMAIN s.comps |->
                                               keys(img.comps[s.comps[i]])]))
        dri == IF interval = f.dri THEN tabled
               ELSE [tabled EXCEPT !.out = Append(@, [t |-> "DRI", n |-> interval]),
                                   !.dri = interval]
    IN  [dri EXCEPT !.out = Append(@, SosMarker(s))]

File == [out |-> out, sent |-> sent, dri |-> last_restart_interval]
Becomes(f) == out' = f.out /\ sent' = f.sent /\ last_restart_interval' = f.dri

(* Bits.  A segment begins on a byte; its end is filled with ones.         *)

PutBits(file, bits) ==
    IF bits = <<>> THEN file
    ELSE IF Last(file).t = "ECS"
         THEN [file EXCEPT ![Len(file)].bits = @ \o bits]
         ELSE Append(file, [t |-> "ECS", bits |-> bits])

FlushBits(file) ==
    IF Last(file).t # "ECS" THEN file
    ELSE [file EXCEPT ![Len(file)].bits =
             @ \o [n \in 1 .. RoundUp(Len(@), 8) - Len(@) |-> 1]]

PutItem(file, item) ==
    IF item[1] = "RST" THEN Append(FlushBits(file), [t |-> "RST", n |-> item[2]])
    ELSE PutBits(file, ItemBits(derived, item))

PutItems(file, items) == FoldLeft(PutItem, file, items)

-----------------------------------------------------------------------------
(* The entropy encoder's passes.                                           *)

\* start_pass of either encoder: a pass that writes derives the codes of the
\* tables the scan uses, and refuses a table that is missing or bad.
TablesReady(g, s) ==
    g \/ \A key \in UsedTables(img, s) :
            key \in DOMAIN tables /\ EncoderAccepts(tables[key], key[1] = DC)

StartPassEntropy(g, s, interval) ==
    /\ gather' = g
    /\ ent' = InitialState(s, interval)
    /\ freq' = <<>>
    /\ derived' = IF g THEN derived
                  ELSE [key \in UsedTables(img, s) |-> MakeCDerivedTbl(tables[key])]

EncodeMcu(blocks) ==
    IF Progressive(img) THEN EncodeMcuProgressive(img, scan, restart_interval, ent, blocks)
    ELSE IF gather THEN EncodeMcuGather(img, scan, restart_interval, ent, blocks)
    ELSE EncodeMcuHuff(img, scan, restart_interval, ent, blocks)

\* finish_pass of either encoder.  A pass that gathered makes the tables of
\* the scan, which will have to be sent; a pass that wrote flushes its bits.
FinishPassEntropy ==
    LET end == IF Progressive(img) THEN FinishScan(img, scan, ent) ELSE Result(ent, <<>>)
        counts == CountSymbols(freq, end.items)
        made == UsedTables(img, scan)
    IN  /\ ent' = end.ent
        /\ IF gather
           THEN /\ tables' = [key \in made |-> GenOptimalTable(CountsOf(counts, key[1], key[2]))]
                             @@ tables
                /\ sent' = sent \ made
                /\ UNCHANGED out
           ELSE /\ out' = FlushBits(PutItems(out, end.items))
                /\ UNCHANGED <<tables, sent>>
        /\ UNCHANGED <<gather, freq, derived>>

-----------------------------------------------------------------------------
(* The master: prepare_for_pass and finish_pass_master.                    *)

\* select_scan_parameters and per_scan_setup can refuse the scan.
ScanReady(g, s) == ScanSetupOk(img, s) /\ TablesReady(g, s)

StartPassCoef ==
    /\ iMCU_row_num' = 0 /\ mcu_ctr' = 0 /\ MCU_vert_offset' = 0

\* The first pass, begun by jpeg_start_compress.
PrepareMainPass(optimize) ==
    /\ StartPassEntropy(optimize, ScanOf(img, 0),
                        RestartInterval(img, ScanOf(img, 0), restart_interval))
    /\ restart_interval' = RestartInterval(img, ScanOf(img, 0), restart_interval)
    /\ StartPassCoef
    /\ rows_to_go' = img.height /\ next_buf_row' = 0
    /\ rowgroup_ctr' = 0 /\ cur_iMCU_row' = 0 /\ suspended' = FALSE
    /\ call_pass_startup' = ~ optimize

\* A DC refinement needs no table and has no pass that gathers.
SkipsGather(s) == s.Ss = 0 /\ s.Ah # 0
Gathers == pass_type = "huff_opt" /\ ~ SkipsGather(scan)

\* mutation: the pass that was skipped is not counted
PassNotCounted == pass_number

\* A pass that gathers is counted even when it is skipped.
PassOfOutput == IF pass_type = "huff_opt" THEN pass_number + 1 ELSE pass_number

PrepareGatherPass ==
    LET interval == RestartInterval(img, scan, restart_interval)
    IN  /\ StartPassEntropy(TRUE, scan, interval)
        /\ restart_interval' = interval
        /\ UNCHANGED <<pass_type, pass_number, out, sent, last_restart_interval>>

PrepareOutputPass ==
    LET interval == RestartInterval(img, scan, restart_interval)
        framed == IF scan_number = 0 THEN WriteFrameHeader(File) ELSE File
    IN  /\ StartPassEntropy(FALSE, scan, interval)
        /\ restart_interval' = interval
        /\ Becomes(WriteScanHeader(framed, scan, interval))
        /\ pass_type' = "output"
        /\ pass_number' = PassOfOutput

FinishPassMaster ==
    /\ FinishPassEntropy
    /\ pass_type' = IF pass_type = "output" /\ optimize_coding THEN "huff_opt" ELSE "output"
    /\ scan_number' = IF pass_type = "output" \/ (pass_type = "main" /\ ~ optimize_coding)
                      THEN scan_number + 1 ELSE scan_number
    /\ pass_number' = pass_number + 1

-----------------------------------------------------------------------------
(* Calls of the application between images.                                *)

\* An object just created.
NoImage == [width |-> 0, height |-> 0, comps |-> <<>>, script |-> <<>>, optimize |-> FALSE,
            restart_in_rows |-> 0, restart_interval |-> 0, quality |-> 0]

CInit ==
    /\ img = NoImage /\ optimize_coding = FALSE /\ restart_interval = 0
    /\ global_state = "START" /\ pc = "app" /\ error = "none"
    /\ next_scanline = 0 /\ num_lines = 0 /\ in_row_ctr = 0
    /\ pass_type = "main" /\ scan_number = 0 /\ pass_number = 0 /\ total_passes = 0
    /\ is_last_pass = FALSE /\ call_pass_startup = FALSE
    /\ rows_to_go = 0 /\ next_buf_row = 0 /\ color_buf = <<>>
    /\ rowgroup_ctr = 0 /\ cur_iMCU_row = 0 /\ suspended = FALSE /\ main_buf = <<>>
    /\ iMCU_row_num = 0 /\ mcu_ctr = 0 /\ MCU_vert_offset = 0 /\ whole_image = <<>>
    /\ gather = FALSE /\ ent = InitialState([comps |-> <<>>], 0)
    /\ freq = <<>> /\ derived = <<>>
    /\ tables = <<>> /\ sent = {} /\ last_restart_interval = 0
    /\ out = <<>> /\ images = 0 /\ suspensions = 0

Idle == pc = "app" /\ error = "none"

\* jpeg_set_defaults and what the application sets after it.  The sample
\* Huffman tables go into empty slots only.
SetParameters(s) ==
    LET quants == {<<Q, 0>>, <<Q, 1>>}
        empty == DOMAIN StdTables \ DOMAIN tables
    IN  /\ Idle /\ global_state = "START" /\ images < MaxImages
        /\ img' = s /\ optimize_coding' = s.optimize /\ restart_interval' = s.restart_interval
        /\ tables' = [key \in quants |-> <<s.quality, key[2]>>] @@ [key \in empty |-> StdTables[key]] @@ tables
        /\ sent' = sent \ (quants \cup empty)
        /\ UNCHANGED <<global_state, pc, error, callVars, masterVars, prepVars, mainVars,
                       coefVars, entropyVars, last_restart_interval, out, images, suspensions>>

\* jpeg_suppress_tables.
SuppressTables ==
    /\ Idle /\ global_state = "START" /\ sent # DOMAIN tables
    /\ sent' = DOMAIN tables
    /\ UNCHANGED <<paramVars, global_state, pc, error, callVars, masterVars, prepVars, mainVars,
                   coefVars, entropyVars, tables, last_restart_interval, out, images, suspensions>>

\* jpeg_write_tables: an abbreviated file of the tables not yet sent.
WriteTables ==
    LET slots == << <<Q, 0>>, <<Q, 1>>, <<DC, 0>>, <<AC, 0>>, <<DC, 1>>, <<AC, 1>> >>
        f == EmitTables([File EXCEPT !.out = <<Marker("SOI")>>],
                        SelectSeq(slots, LAMBDA key : key \in DOMAIN tables))
    IN  /\ Idle /\ global_state = "START" /\ tables # <<>> /\ images < MaxImages
        /\ images' = images + 1
        /\ out' = Append(f.out, Marker("EOI")) /\ sent' = f.sent /\ last_restart_interval' = 0
        /\ UNCHANGED <<paramVars, global_state, pc, error, callVars, masterVars, prepVars,
                       mainVars, coefVars, entropyVars, tables, suspensions>>

\* The call fails: the application gets the error and the object is unusable
\* until jpeg_abort.
Fails(e) ==
    /\ error' = e /\ pc' = "app"
    /\ UNCHANGED <<img, global_state, callVars, masterVars, prepVars, mainVars, coefVars,
                   entropyVars, suspensions>>

StartCompress(write_all_tables) ==
    LET cleared == IF write_all_tables THEN {} ELSE sent
        optimize == optimize_coding \/ Progressive(img)
    IN  /\ Idle /\ global_state = "START"
        /\ images < MaxImages /\ images' = images + 1
        /\ IF ~ (SetupOk(img) /\ (img.script = <<>> \/ ValidScript(img)))
           THEN /\ Fails("BadParameters")
                /\ sent' = cleared /\ out' = <<>>
                /\ UNCHANGED <<optimize_coding, restart_interval, tables, last_restart_interval>>
           ELSE IF ~ ScanReady(optimize, ScanOf(img, 0))
           THEN /\ Fails("BadScan")
                /\ sent' = cleared /\ out' = <<Marker("SOI")>>
                /\ optimize_coding' = optimize
                /\ UNCHANGED <<restart_interval, tables, last_restart_interval>>
           ELSE /\ sent' = cleared /\ out' = <<Marker("SOI")>> /\ last_restart_interval' = 0
                /\ optimize_coding' = optimize
                /\ pass_type' = "main" /\ scan_number' = 0 /\ pass_number' = 0
                /\ total_passes' = IF optimize THEN 2 * NumScans(img) ELSE NumScans(img)
                /\ is_last_pass' = (total_passes' = 1)
                /\ PrepareMainPass(optimize)
                /\ color_buf' = <<>> /\ main_buf' = [ci \in Comps(img) |-> <<>>]
                /\ whole_image' = [ci \in Comps(img) |-> <<>>]
                /\ next_scanline' = 0 /\ num_lines' = 0 /\ in_row_ctr' = 0
                /\ global_state' = "SCANNING"
                /\ UNCHANGED <<img, pc, error, tables, suspensions>>

\* jpeg_write_marker: a comment before the first scanline.
WriteMarker ==
    /\ Idle /\ global_state = "SCANNING" /\ next_scanline = 0 /\ num_lines = 0
    /\ Len(out) = 1
    /\ out' = Append(out, Marker("COM"))
    /\ UNCHANGED <<paramVars, global_state, pc, error, callVars, masterVars, prepVars, mainVars,
                   coefVars, entropyVars, tableVars, last_restart_interval, images, suspensions>>

\* jpeg_abort.
Abort ==
    /\ pc = "app" /\ error # "none"
    /\ error' = "none" /\ global_state' = "START"
    /\ UNCHANGED <<paramVars, pc, callVars, masterVars, prepVars, mainVars, coefVars, entropyVars,
                   tableVars, last_restart_interval, out, images, suspensions>>

-----------------------------------------------------------------------------
(* jpeg_write_scanlines, and process_data_simple_main within it.           *)

\* The call begins; the first one of a single-pass image writes the headers.
WriteScanlines(lines) ==
    /\ Idle /\ global_state = "SCANNING" /\ next_scanline < img.height
    /\ num_lines' = Min({lines, img.height - next_scanline}) /\ in_row_ctr' = 0
    /\ pc' = "process"
    /\ call_pass_startup' = FALSE
    /\ IF call_pass_startup
       THEN Becomes(WriteScanHeader(WriteFrameHeader(File), scan, restart_interval))
       ELSE UNCHANGED <<out, sent, last_restart_interval>>
    /\ UNCHANGED <<paramVars, global_state, error, next_scanline, pass_type, scan_number,
                   pass_number, total_passes, is_last_pass, prepVars, mainVars, coefVars,
                   entropyVars, tables, images, suspensions>>

\* The sample rows component ci gets from a full conversion buffer.
Downsample(ci, rows) ==
    LET k == MaxV(img) \div img.comps[ci].v
    IN  [s \in 1 .. img.comps[ci].v |-> SubSeq(rows, (s - 1) * k + 1, s * k)]

\* expand_bottom_edge: the last row again, up to n rows.
ExpandBottomEdge(rows, n) == rows \o [i \in 1 .. n - Len(rows) |-> Last(rows)]

\* One turn of the loop of pre_process_data: rows into the conversion
\* buffer, which is padded at the bottom of the image and emptied when full;
\* at the bottom the row of iMCUs is padded too.
PreProcessData ==
    LET numrows == Min({MaxV(img) - next_buf_row, num_lines - in_row_ctr})
        first == next_scanline + in_row_ctr
        taken == color_buf \o [i \in 1 .. numrows |-> first + i - 1]
        bottom == rows_to_go = numrows
        buf == IF bottom THEN ExpandBottomEdge(taken, MaxV(img)) ELSE taken
        full == Len(buf) = MaxV(img)
        filled == [ci \in Comps(img) |-> main_buf[ci] \o Downsample(ci, buf)]
    IN  /\ pc = "process" /\ cur_iMCU_row < TotalIMcuRows(img)
        /\ rowgroup_ctr < DCTSIZE /\ in_row_ctr < num_lines
        /\ in_row_ctr' = in_row_ctr + numrows
        /\ rows_to_go' = rows_to_go - numrows
        /\ next_buf_row' = IF full THEN 0 ELSE Len(buf)
        /\ color_buf' = IF full THEN <<>> ELSE buf
        /\ rowgroup_ctr' = IF bottom THEN DCTSIZE ELSE IF full THEN rowgroup_ctr + 1
                           ELSE rowgroup_ctr
        /\ main_buf' =
              IF bottom THEN [ci \in Comps(img) |->
                                 ExpandBottomEdge(filled[ci], DCTSIZE * img.comps[ci].v)]
              ELSE IF full THEN filled ELSE main_buf
        /\ UNCHANGED <<paramVars, global_state, pc, error, next_scanline, num_lines, masterVars,
                       cur_iMCU_row, suspended, coefVars, entropyVars, tableVars,
                       last_restart_interval, out, images, suspensions>>

\* The call returns: the rows it was given are used up, or all are coded.
WriteScanlinesReturns ==
    /\ pc = "process"
    /\ \/ cur_iMCU_row = TotalIMcuRows(img)
       \/ rowgroup_ctr < DCTSIZE /\ in_row_ctr = num_lines
    /\ pc' = "app" /\ next_scanline' = next_scanline + in_row_ctr
    /\ UNCHANGED <<paramVars, global_state, error, num_lines, in_row_ctr, masterVars, prepVars,
                   mainVars, coefVars, entropyVars, tableVars, last_restart_interval, out,
                   images, suspensions>>

-----------------------------------------------------------------------------
(* The coefficient controller.                                             *)

\* A block made by the transform of DCTSIZE sample rows of the buffer.
BlockAt(ci, block_row, col) ==
    Coefs(ci, SubSeq(main_buf[ci], block_row * DCTSIZE + 1, (block_row + 1) * DCTSIZE), col)

\* A block that pads: all zero but for the DC value of another.
DummyBlock(of) == [k \in 0 .. DCTSIZE2 - 1 |-> IF k = 0 THEN of[0] ELSE 0]

\* compress_data: the MCU straight from the sample rows; what lies beyond
\* the right or the bottom edge repeats the DC value of the block before.
McuFromSamples ==
    LET Add(blocks, p) ==
            Append(blocks,
                   IF IsRealBlock(img, scan, iMCU_row_num, MCU_vert_offset, mcu_ctr, p)
                   THEN BlockAt(scan.comps[p.i], MCU_vert_offset + p.y,
                                           mcu_ctr * McuWidth(img, scan, p.i) + p.x)
                   ELSE DummyBlock(Last(blocks)))
    IN  FoldLeft(Add, <<>>, Places(img, scan))

\* compress_first_pass: the block rows of component ci, padded to whole MCUs.
StripOf(ci) ==
    LET v == img.comps[ci].v
        h == img.comps[ci].h
        across == WidthInBlocks(img, ci)
        padded == RoundUp(across, h)
        block_rows == IF iMCU_row_num < LastIMcuRow THEN v
                      ELSE LastGroup(HeightInBlocks(img, ci), v)
        row[br \in 0 .. v - 1] ==
            IF br < block_rows
            THEN [col \in 1 .. padded |->
                     IF col <= across THEN BlockAt(ci, br, col - 1)
                     ELSE DummyBlock(BlockAt(ci, br, across - 1))]
            ELSE [col \in 1 .. padded |-> DummyBlock(row[br - 1][RoundUp(col, h)])]
    IN  [br \in 1 .. v |-> row[br - 1]]

\* A full row of iMCUs goes to the compressor; in a multi-pass image its
\* blocks are first stored in the virtual arrays, again after a suspension.
SendIMcuRow ==
    /\ pc = "process" /\ cur_iMCU_row < TotalIMcuRows(img) /\ rowgroup_ctr = DCTSIZE
    /\ pc' = "encode"
    /\ whole_image' =
          IF ~ MultiPass THEN whole_image
          ELSE [ci \in Comps(img) |->
                   SubSeq(whole_image[ci], 1, iMCU_row_num * img.comps[ci].v) \o StripOf(ci)]
    /\ UNCHANGED <<paramVars, global_state, error, callVars, masterVars, prepVars, mainVars,
                   iMCU_row_num, mcu_ctr, MCU_vert_offset, entropyVars, tableVars,
                   last_restart_interval, out, images, suspensions>>

\* compress_output: the MCU from the virtual arrays.
McuFromArrays ==
    [b \in DOMAIN Places(img, scan) |->
        LET p == Places(img, scan)[b]
            ci == scan.comps[p.i]
        IN  whole_image[ci][iMCU_row_num * img.comps[ci].v + MCU_vert_offset + p.y + 1]
                           [mcu_ctr * McuWidth(img, scan, p.i) + p.x + 1]]

RowUnfinished == MCU_vert_offset < McuRowsPerIMcuRow(img, scan, iMCU_row_num)

NextMcu ==
    IF mcu_ctr + 1 < McusPerRow(img, scan)
    THEN mcu_ctr' = mcu_ctr + 1 /\ UNCHANGED MCU_vert_offset
    ELSE mcu_ctr' = 0 /\ MCU_vert_offset' = MCU_vert_offset + 1

\* One MCU is coded, in any pass.
TakeCoded(coded) ==
    /\ ~ (Progressive(img) /\ ~ gather /\ MissingCode(derived, coded.items))
    /\ ent' = coded.ent
    /\ IF gather THEN freq' = CountSymbols(freq, coded.items) /\ UNCHANGED out
                 ELSE out' = PutItems(out, coded.items) /\ UNCHANGED freq

CompressMcu ==
    /\ pc \in {"encode", "crank"} /\ RowUnfinished
    /\ TakeCoded(EncodeMcu(IF MultiPass THEN McuFromArrays ELSE McuFromSamples))
    /\ NextMcu
    /\ UNCHANGED <<paramVars, global_state, pc, error, callVars, masterVars, prepVars, mainVars,
                   iMCU_row_num, whole_image, gather, derived, tableVars,
                   last_restart_interval, images, suspensions>>

\* A row of iMCUs is coded in the first pass.  If the call was suspended in
\* it before, the row that was held back is now given up as consumed.
IMcuRowCoded ==
    /\ pc = "encode" /\ ~ RowUnfinished
    /\ pc' = "process"
    /\ in_row_ctr' = IF suspended THEN in_row_ctr + 1 ELSE in_row_ctr
    /\ suspended' = FALSE /\ rowgroup_ctr' = 0 /\ cur_iMCU_row' = cur_iMCU_row + 1
    /\ main_buf' = [ci \in Comps(img) |-> <<>>]
    /\ iMCU_row_num' = iMCU_row_num + 1 /\ mcu_ctr' = 0 /\ MCU_vert_offset' = 0
    /\ UNCHANGED <<paramVars, global_state, error, next_scanline, num_lines, masterVars, prepVars,
                   whole_image, entropyVars, tableVars, last_restart_interval, out, images,
                   suspensions>>

\* mutation: a call suspended again in the same row gives up another one
HeldBackAgain == in_row_ctr - 1

\* The rows a suspended call owns up to: all but the last it took, so that
\* the application calls again.
HeldBack == IF suspended THEN in_row_ctr ELSE in_row_ctr - 1

\* The destination has no room for the MCU: the call returns.
Suspend ==
    /\ pc = "encode" /\ RowUnfinished /\ ~ gather /\ ~ Progressive(img)
    /\ suspensions < MaxSuspensions /\ suspensions' = suspensions + 1
    /\ in_row_ctr' = HeldBack
    /\ suspended' = TRUE
    /\ next_scanline' = next_scanline + in_row_ctr'
    /\ pc' = "app"
    /\ UNCHANGED <<paramVars, global_state, error, num_lines, masterVars, prepVars, rowgroup_ctr,
                   cur_iMCU_row, main_buf, coefVars, entropyVars, tableVars,
                   last_restart_interval, out, images>>

-----------------------------------------------------------------------------
(* jpeg_finish_compress: the end of the first pass and all the others.     *)

FinishCompress ==
    /\ Idle /\ global_state = "SCANNING" /\ next_scanline >= img.height
    /\ FinishPassMaster
    /\ pc' = "passes"
    /\ UNCHANGED <<paramVars, global_state, error, callVars, total_passes, is_last_pass,
                   call_pass_startup, prepVars, mainVars, coefVars, last_restart_interval,
                   images, suspensions>>

\* prepare_for_pass of a pass after the first.
PreparePass ==
    /\ pc = "passes" /\ ~ is_last_pass
    /\ ScanReady(Gathers, scan)
    /\ pc' = "crank"
    /\ IF Gathers THEN PrepareGatherPass ELSE PrepareOutputPass
    /\ StartPassCoef
    /\ is_last_pass' = (pass_number' = total_passes - 1)
    /\ call_pass_startup' = FALSE
    /\ UNCHANGED <<img, optimize_coding, global_state, error, callVars, scan_number,
                   total_passes, prepVars, mainVars, whole_image, tables, images, suspensions>>

PassFails ==
    /\ pc = "passes" /\ ~ is_last_pass
    /\ ~ ScanReady(Gathers, scan)
    /\ Fails("BadScan")
    /\ UNCHANGED <<optimize_coding, restart_interval, tableVars, last_restart_interval, out,
                   images>>

IMcuRowOutput ==
    /\ pc = "crank" /\ ~ RowUnfinished /\ iMCU_row_num < LastIMcuRow
    /\ iMCU_row_num' = iMCU_row_num + 1 /\ mcu_ctr' = 0 /\ MCU_vert_offset' = 0
    /\ UNCHANGED <<paramVars, global_state, pc, error, callVars, masterVars, prepVars, mainVars,
                   whole_image, entropyVars, tableVars, last_restart_interval, out, images,
                   suspensions>>

PassEnds ==
    /\ pc = "crank" /\ ~ RowUnfinished /\ iMCU_row_num = LastIMcuRow
    /\ FinishPassMaster
    /\ iMCU_row_num' = iMCU_row_num + 1 /\ mcu_ctr' = 0 /\ MCU_vert_offset' = 0
    /\ pc' = "passes"
    /\ UNCHANGED <<paramVars, global_state, error, callVars, total_passes, is_last_pass,
                   call_pass_startup, prepVars, mainVars, whole_image, last_restart_interval,
                   images, suspensions>>

\* Outside the first pass of a sequential image the compressor cannot
\* suspend; a full destination is an error that ends the call.
CannotSuspend ==
    /\ \/ pc = "crank" /\ RowUnfinished /\ ~ gather
       \/ pc = "passes" /\ (~ is_last_pass => ~ Gathers)
    /\ suspensions < MaxSuspensions /\ suspensions' = suspensions + 1
    /\ error' = "CantSuspend" /\ pc' = "app"
    /\ UNCHANGED <<paramVars, global_state, callVars, masterVars, prepVars, mainVars, coefVars,
                   entropyVars, tableVars, last_restart_interval, out, images>>

\* The trailer; jpeg_abort then makes the object ready for another image.
WriteTrailer ==
    /\ pc = "passes" /\ is_last_pass
    /\ out' = Append(out, Marker("EOI"))
    /\ global_state' = "START" /\ pc' = "app"
    /\ UNCHANGED <<paramVars, error, callVars, masterVars, prepVars, mainVars, coefVars,
                   entropyVars, tableVars, last_restart_interval, images, suspensions>>

LibraryStep ==
    \/ PreProcessData \/ WriteScanlinesReturns \/ SendIMcuRow \/ CompressMcu \/ IMcuRowCoded
    \/ PreparePass \/ PassFails \/ IMcuRowOutput \/ PassEnds \/ WriteTrailer

CNext ==
    \/ \E s \in Settings : SetParameters(s)
    \/ SuppressTables \/ WriteTables
    \/ \E all \in BOOLEAN : StartCompress(all)
    \/ WriteMarker \/ Abort
    \/ \E lines \in LineCounts : WriteScanlines(lines)
    \/ FinishCompress
    \/ Suspend \/ CannotSuspend
    \/ LibraryStep

CSpec == CInit /\ [][CNext]_cvars /\ WF_cvars(LibraryStep)

-----------------------------------------------------------------------------
(* Properties.                                                             *)

\* While an image is read, every source row is in one place: still to come
\* from the application, or given back to the count of it by a finished call,
\* or taken by the call under way and no more than it was given, or the one
\* row held back by a suspension (jcprepct.c and jcmainct.c count the same
\* rows apart).  The count of the call never goes below zero, where it would
\* wrap.
RowsAccounted ==
    global_state = "SCANNING" =>
        LET inCall == IF pc \in {"process", "encode"} THEN in_row_ctr ELSE 0
            held == IF suspended THEN 1 ELSE 0
        IN  /\ rows_to_go + next_scanline + inCall + held = img.height
            /\ rows_to_go >= 0 /\ next_scanline >= 0 /\ inCall >= 0
            /\ pc \in {"process", "encode"} => in_row_ctr <= num_lines

\* The passes after the first end with the last scan of the script, neither
\* before it nor after it: total_passes counts two passes for each scan of
\* an optimized image, and a DC refinement takes one (jcmaster.c).
EveryScanIsWritten ==
    pc \in {"passes", "crank"} =>
        (scan_number < NumScans(img) <=> ~ (pc = "passes" /\ is_last_pass))

\* Between MCUs the run of end-of-block blocks is below its limit and the
\* correction bits leave room for those of one more block, which the buffer
\* takes before it is looked at again; bits wait only while a run does, for
\* emit_eobrun sends them with it and not without (encode_mcu_AC_refine).
CorrectionBitsFit ==
    /\ ent.EOBRUN < MAX_EOBRUN /\ Len(ent.BE) + DCTSIZE2 - 1 <= MAX_CORR_BITS
    /\ ent.BE # <<>> => ent.EOBRUN > 0
=============================================================================
