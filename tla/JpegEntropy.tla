----------------------------- MODULE JpegEntropy -----------------------------
(***************************************************************************)
(* The Huffman entropy encoders of libjpeg: jchuff.c for sequential and    *)
(* jcphuff.c for progressive scans.  Encoding one MCU is a function of the *)
(* scan, of the state the encoder keeps between MCUs and of the blocks; it *)
(* gives the next state and what is emitted, a sequence of items           *)
(*   <<"sym", class, tbl, symbol>>  a Huffman symbol of table tbl          *)
(*   <<"bits", n, v>>               n plain bits                           *)
(*   <<"RST", n>>                   the end of the segment and a restart   *)
(* which a pass that gathers statistics counts and a pass that writes      *)
(* turns into the bits of the file.                                        *)
(*                                                                         *)
(* The state is [last_dc_val, restarts_to_go, next_restart_num, EOBRUN,    *)
(* BE]: BE is the sequence of the correction bits that wait in bit_buffer. *)
(***************************************************************************)
EXTENDS JpegScans, JpegTables

CONSTANTS MAX_RUN,            \* 15: longest run of zeros in one symbol
          MAX_EOBRUN,         \* 0x7FFF: end-of-block run that is forced out
          MAX_CORR_BITS,      \* 1000: correction bits the buffer holds
          StdTables           \* the sample Huffman tables of slots 0 and 1

ASSUME EntropyAssumption ==
    /\ MAX_RUN \in Nat \ {0} /\ MAX_EOBRUN \in Nat \ {0}
    /\ MAX_CORR_BITS \in Nat /\ MAX_CORR_BITS >= DCTSIZE2 - 1

DC == "DC"
AC == "AC"
Sym(class, tbl, symbol) == <<"sym", class, tbl, symbol>>
RunSize(r, nbits) == 16 * r + nbits
ZRL == RunSize(MAX_RUN, 0)      \* 0xF0
EOB == RunSize(0, 0)

Abs(x) == IF x < 0 THEN -x ELSE x

\* JPEG_NBITS: bits of the magnitude of a value that is not negative.
NBits(a) == CHOOSE n \in 0 .. 16 : a < 2 ^ n /\ \A m \in 0 .. n - 1 : a >= 2 ^ m

\* The value that follows its symbol: itself, or the complement of its
\* magnitude when negative.
ExtraBits(x) ==
    LET n == NBits(Abs(x))
    IN  IF n = 0 THEN <<>>
        ELSE << <<"bits", n, IF x < 0 THEN x + 2 ^ n - 1 ELSE x>> >>

\* Emission of the run lengths longer than a symbol can tell.
ZeroRuns(tbl, r) == [n \in 1 .. r \div (MAX_RUN + 1) |-> Sym(AC, tbl, ZRL)]
RestOfRun(r) == r % (MAX_RUN + 1)

InitialState(scan, interval) ==
    [last_dc_val |-> [i \in DOMAIN scan.comps |-> 0],
     restarts_to_go |-> interval, next_restart_num |-> 0, EOBRUN |-> 0, BE |-> <<>>]

\* The update of the restart state after an MCU.
CountMcu(ent, interval) ==
    IF interval = 0 THEN ent
    ELSE IF ent.restarts_to_go = 0
         THEN [ent EXCEPT !.restarts_to_go = interval - 1,
                          !.next_restart_num = (@ + 1) % 8]
         ELSE [ent EXCEPT !.restarts_to_go = @ - 1]

RestartDue(ent, interval) == interval > 0 /\ ent.restarts_to_go = 0
ResetDc(ent) == [ent EXCEPT !.last_dc_val = [i \in DOMAIN @ |-> 0]]

Result(ent, items) == [ent |-> ent, items |-> items]

-----------------------------------------------------------------------------
(* jchuff.c: the pass that writes, encode_mcu_huff.                        *)

\* One step of kloop for coefficient x.
EncodeCoef(tbl, acc, x) ==
    IF x = 0 THEN [acc EXCEPT !.r = @ + 1]
    ELSE [r |-> 0,
          items |-> acc.items \o ZeroRuns(tbl, acc.r)
                    \o <<Sym(AC, tbl, RunSize(RestOfRun(acc.r), NBits(Abs(x))))>>
                    \o ExtraBits(x)]

EncodeOneBlock(comp, block, last) ==
    LET diff == block[0] - last
        ac == FoldLeft(LAMBDA acc, k : EncodeCoef(comp.ac, acc, block[k]),
                       [r |-> 0, items |-> <<>>], [k \in 1 .. DCTSIZE2 - 1 |-> k])
    IN  <<Sym(DC, comp.dc, NBits(Abs(diff)))>> \o ExtraBits(diff) \o ac.items
        \o IF ac.r > 0 THEN <<Sym(AC, comp.ac, EOB)>> ELSE <<>>

(* jchuff.c, the pass that counts: encode_mcu_gather is a second program   *)
(* for the same symbols, with a restart state of its own.                  *)

\* The symbols a coefficient adds to the counts.
TestCoef(tbl, acc, x) ==
    IF x = 0 THEN [acc EXCEPT !.r = @ + 1]
    ELSE LET zrls == CHOOSE n \in 0 .. acc.r : acc.r - n * (MAX_RUN + 1) \in 0 .. MAX_RUN
         IN  [r |-> 0,
              items |-> acc.items \o [n \in 1 .. zrls |-> Sym(AC, tbl, ZRL)]
                        \o <<Sym(AC, tbl, RunSize(acc.r - zrls * (MAX_RUN + 1),
                                                  NBits(Abs(x))))>>]

HtestOneBlock(comp, block, last) ==
    LET ac == FoldLeft(LAMBDA acc, k : TestCoef(comp.ac, acc, block[k]),
                       [r |-> 0, items |-> <<>>], [k \in 1 .. DCTSIZE2 - 1 |-> k])
    IN  <<Sym(DC, comp.dc, NBits(Abs(block[0] - last)))>> \o ac.items
        \o IF ac.r > 0 THEN <<Sym(AC, comp.ac, EOB)>> ELSE <<>>

\* The DC value that each block of an MCU is predicted from, the one before
\* it of its component; value[b] is the value of block b, which belongs to
\* position member[b] of the scan.
Predicted(ent, member, value, b) ==
    LET before == {m \in 1 .. b - 1 : member[m] = member[b]}
    IN  IF before = {} THEN ent.last_dc_val[member[b]] ELSE value[Max(before)]

\* The values kept for the next MCU.
KeepDc(ent, member, value) ==
    LET blocks(i) == {b \in DOMAIN member : member[b] = i}
    IN  [ent EXCEPT !.last_dc_val =
            [i \in DOMAIN @ |-> IF blocks(i) = {} THEN @[i] ELSE value[Max(blocks(i))]]]

\* The blocks of an MCU, in the pass that gathers or in the one that writes.
EncodeBlocks(img, scan, ent, blocks, gathers) ==
    LET member == Membership(img, scan)
        value == [b \in DOMAIN member |-> blocks[b][0]]
        comp(b) == img.comps[scan.comps[member[b]]]
        last(b) == Predicted(ent, member, value, b)
    IN  Result(KeepDc(ent, member, value),
               FlattenSeq([b \in DOMAIN member |->
                   IF gathers THEN HtestOneBlock(comp(b), blocks[b], last(b))
                              ELSE EncodeOneBlock(comp(b), blocks[b], last(b))]))

EncodeMcuHuff(img, scan, interval, ent, blocks) ==
    LET due == RestartDue(ent, interval)
        coded == EncodeBlocks(img, scan, IF due THEN ResetDc(ent) ELSE ent,
                              blocks, FALSE)
    IN  Result(CountMcu(coded.ent, interval),
               (IF due THEN << <<"RST", ent.next_restart_num>> >> ELSE <<>>)
               \o coded.items)

EncodeMcuGather(img, scan, interval, ent, blocks) ==
    LET due == RestartDue(ent, interval)
        reset == IF due THEN [ResetDc(ent) EXCEPT !.restarts_to_go = interval] ELSE ent
        ready == IF interval > 0 THEN [reset EXCEPT !.restarts_to_go = @ - 1] ELSE reset
    IN  EncodeBlocks(img, scan, ready, blocks, TRUE)

-----------------------------------------------------------------------------
(* jcphuff.c: the four kinds of progressive scans, for either pass.        *)

BufferedBits(bits) == [n \in DOMAIN bits |-> <<"bits", 1, bits[n]>>]

\* emit_eobrun: the run that is pending, then the correction bits of its
\* blocks.
EmitEobrun(tbl, acc) ==
    IF acc.ent.EOBRUN = 0 THEN acc
    ELSE LET n == NBits(acc.ent.EOBRUN) - 1
         IN  Result([acc.ent EXCEPT !.EOBRUN = 0, !.BE = <<>>],
                    acc.items \o <<Sym(AC, tbl, RunSize(n, 0))>>
                    \o (IF n = 0 THEN <<>>
                        ELSE << <<"bits", n, acc.ent.EOBRUN % 2 ^ n>> >>)
                    \o BufferedBits(acc.ent.BE))

\* emit_restart, when one is due, at the head of an MCU.
EmitRestart(scan, tbl, interval, ent) ==
    IF ~ RestartDue(ent, interval) THEN Result(ent, <<>>)
    ELSE LET flushed == EmitEobrun(tbl, Result(ent, <<>>))
         IN  Result(IF scan.Ss = 0 THEN ResetDc(flushed.ent)
                    ELSE [flushed.ent EXCEPT !.EOBRUN = 0, !.BE = <<>>],
                    Append(flushed.items, <<"RST", ent.next_restart_num>>))

\* Arithmetic shift for DC, division towards 0 for AC.
PointDC(x, Al) == x \div 2 ^ Al
PointAC(x, Al) == Abs(x) \div 2 ^ Al
Signed(x, a) == IF x < 0 THEN -a ELSE a

EncodeDCFirst(img, scan, blocks, acc) ==
    LET member == Membership(img, scan)
        value == [b \in DOMAIN member |-> PointDC(blocks[b][0], scan.Al)]
        diff(b) == value[b] - Predicted(acc.ent, member, value, b)
        symbol(b) == Sym(DC, img.comps[scan.comps[member[b]]].dc, NBits(Abs(diff(b))))
    IN  Result(KeepDc(acc.ent, member, value),
               acc.items \o FlattenSeq([b \in DOMAIN member |->
                                            <<symbol(b)>> \o ExtraBits(diff(b))]))

\* The Al'th bit of each DC coefficient.
EncodeDCRefine(scan, blocks, acc) ==
    Result(acc.ent,
           acc.items \o [b \in DOMAIN blocks |->
                            <<"bits", 1, PointDC(blocks[b][0], scan.Al) % 2>>])

\* mutation: the bits of one more block are not thought of
OverflowsNow(ent) == ent.EOBRUN = MAX_EOBRUN \/ Len(ent.BE) >= MAX_CORR_BITS

\* One more block could overflow the counter or the buffer.
Overflows(ent) ==
    ent.EOBRUN = MAX_EOBRUN \/ Len(ent.BE) > MAX_CORR_BITS - DCTSIZE2 + 1

\* The run of blocks that end here grows by one; it is forced out before it
\* could overflow.
CountEob(tbl, acc, bits) ==
    LET more == [acc EXCEPT !.ent.EOBRUN = @ + 1, !.ent.BE = @ \o bits]
    IN  IF Overflows(more.ent) THEN EmitEobrun(tbl, more) ELSE more

Band(scan) == [n \in 1 .. scan.Se - scan.Ss + 1 |-> scan.Ss + n - 1]

\* One step of kloop for the coefficient x that this scan sends.
NextAC(tbl, a, x) ==
    LET flushed == EmitEobrun(tbl, Result(a.ent, a.items))
        coded == EncodeCoef(tbl, [r |-> a.r, items |-> flushed.items], x)
    IN  IF x = 0 THEN [a EXCEPT !.r = @ + 1]
        ELSE [ent |-> flushed.ent, r |-> coded.r, items |-> coded.items]

EncodeACFirst(scan, tbl, block, acc) ==
    LET done == FoldLeft(LAMBDA a, k : NextAC(tbl, a, Signed(block[k], PointAC(block[k], scan.Al))),
                         [r |-> 0, ent |-> acc.ent, items |-> acc.items], Band(scan))
        end == Result(done.ent, done.items)
    IN  IF done.r > 0 THEN CountEob(tbl, end, <<>>) ELSE end

\* Refinement of a band: a coefficient that is newly nonzero is coded with
\* the run of still-zero coefficients before it; each one that was nonzero
\* adds a correction bit (BR), sent after the next symbol.  r counts the
\* zeros since that symbol.

\* A symbol, its extra bits, and the correction bits that waited for it.
SendWithBits(tbl, a, symbol, extra) ==
    LET flushed == EmitEobrun(tbl, Result(a.ent, a.items))
    IN  [a EXCEPT !.ent = flushed.ent, !.BR = <<>>,
                  !.items = Append(flushed.items, Sym(AC, tbl, symbol)) \o extra
                            \o BufferedBits(a.BR)]

\* The loop over the runs that are too long for a symbol: the bits go with
\* the first.
SendRuns(tbl, a) ==
    IF a.r <= MAX_RUN THEN a
    ELSE [SendWithBits(tbl, a, ZRL, <<>>) EXCEPT
             !.r = RestOfRun(@), !.items = @ \o ZeroRuns(tbl, a.r - (MAX_RUN + 1))]

\* level is the magnitude of coefficient k; runs are sent up to the last one
\* that is newly nonzero.
NextRefined(tbl, last, a, k, level, negative) ==
    LET sent == IF k <= last THEN SendRuns(tbl, a) ELSE a
    IN  CASE level = 0 -> [a EXCEPT !.r = @ + 1]
          [] level = 1 -> [SendWithBits(tbl, sent, RunSize(sent.r, 1),
                                        << <<"bits", 1, IF negative THEN 0 ELSE 1>> >>)
                              EXCEPT !.r = 0]
          [] OTHER -> [sent EXCEPT !.BR = Append(@, level % 2)]

EncodeACRefine(scan, tbl, block, acc) ==
    LET level(k) == PointAC(block[k], scan.Al)
        newly == {k \in scan.Ss .. scan.Se : level(k) = 1}
        last == IF newly = {} THEN -1 ELSE Max(newly)        \* EOB
        done == FoldLeft(LAMBDA a, k : NextRefined(tbl, last, a, k, level(k), block[k] < 0),
                         [ent |-> acc.ent, r |-> 0, BR |-> <<>>, items |-> acc.items],
                         Band(scan))
        end == Result(done.ent, done.items)
    IN  IF done.r > 0 \/ done.BR # <<>> THEN CountEob(tbl, end, done.BR) ELSE end

\* ac_tbl_no of a progressive scan.
AcTable(img, scan) == img.comps[scan.comps[1]].ac

EncodeMcuProgressive(img, scan, interval, ent, blocks) ==
    LET tbl == AcTable(img, scan)
        Coded(start) ==
            CASE scan.Ss = 0 /\ scan.Ah = 0 -> EncodeDCFirst(img, scan, blocks, start)
              [] scan.Ss = 0 /\ scan.Ah # 0 -> EncodeDCRefine(scan, blocks, start)
              [] scan.Ss # 0 /\ scan.Ah = 0 -> EncodeACFirst(scan, tbl, blocks[1], start)
              [] scan.Ss # 0 /\ scan.Ah # 0 -> EncodeACRefine(scan, tbl, blocks[1], start)
        Counted(coded) == Result(CountMcu(coded.ent, interval), coded.items)
    IN  Counted(Coded(EmitRestart(scan, tbl, interval, ent)))

\* What is still buffered at the end of a scan.
FinishScan(img, scan, ent) ==
    IF scan.Ss = 0 THEN Result(ent, <<>>)
    ELSE EmitEobrun(AcTable(img, scan), Result(ent, <<>>))

-----------------------------------------------------------------------------
(* The items of a pass.                                                    *)

\* Classes and tables a scan uses.  A sequential scan uses both classes, a
\* DC refinement none.
UsedTables(img, scan) ==
    LET numbers(f(_)) == {f(img.comps[scan.comps[i]]) : i \in DOMAIN scan.comps}
        dc == {<<DC, n>> : n \in numbers(LAMBDA c : c.dc)}
        ac == {<<AC, n>> : n \in numbers(LAMBDA c : c.ac)}
    IN  IF ~ Progressive(img) THEN dc \cup ac
        ELSE IF scan.Ss # 0 THEN ac
        ELSE IF scan.Ah = 0 THEN dc ELSE {}

\* count_ptrs: the counts of the symbols of each table, as a bag of symbols.
CountSymbols(freq, items) ==
    FoldLeft(LAMBDA f, item :
        IF item[1] # "sym" THEN f
        ELSE LET key == <<item[2], item[3], item[4]>>
             IN  IF key \in DOMAIN f THEN [f EXCEPT ![key] = @ + 1] ELSE f @@ (key :> 1),
        freq, items)

CountsOf(freq, class, tbl) ==
    [s \in {key[3] : key \in {k \in DOMAIN freq : k[1] = class /\ k[2] = tbl}} |->
        freq[<<class, tbl, s>>]]

BitsOf(n, v) == [i \in 1 .. n |-> (v \div 2 ^ (n - i)) % 2]

\* Bits of an item that is not a restart; derived[<<class, tbl>>] is the
\* code of each table.
ItemBits(derived, item) ==
    IF item[1] = "bits" THEN BitsOf(item[2], item[3])
    ELSE LET c == CodeOf(derived[<<item[2], item[3]>>], item[4])
         IN  BitsOf(c.size, c.code)

\* The progressive encoder refuses a symbol that has no code.
MissingCode(derived, items) ==
    \E n \in DOMAIN items :
        /\ items[n][1] = "sym"
        /\ CodeOf(derived[<<items[n][2], items[n][3]>>], items[n][4]).size = 0
=============================================================================
