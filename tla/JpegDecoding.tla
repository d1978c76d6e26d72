----------------------------- MODULE JpegDecoding ----------------------------
(***************************************************************************)
(* The Huffman entropy decoders of libjpeg: jdhuff.c for sequential and    *)
(* jdphuff.c for progressive scans, and the search for a restart marker    *)
(* (jdmarker.c).  Decoding one block is a function of the bits of the      *)
(* segment, of the position in them and of what the block holds.           *)
(*                                                                         *)
(* A reading is [at, warn]: the bits used so far, beyond the last of which *)
(* zeros are read, and the warnings given.  A table is [table, derived].   *)
(***************************************************************************)
EXTENDS JpegEntropy

ZeroBlock == [k \in 0 .. DCTSIZE2 - 1 |-> 0]

Peek(bits, at, n) == [i \in 1 .. n |-> IF at + i <= Len(bits) THEN bits[at + i] ELSE 0]
GetBits(bits, at, n) == Value(Peek(bits, at, n))

\* HUFF_EXTEND.
Extend(x, s) == IF s > 0 /\ x < 2 ^ (s - 1) THEN x - 2 ^ s + 1 ELSE x

\* HUFF_DECODE: the next symbol, taken apart, and the reading after it.
TakenApart(rd, d) ==
    [r |-> d.symbol \div 16, s |-> d.symbol % 16,
     rd |-> [at |-> rd.at + d.size,
             warn |-> IF d.known THEN rd.warn ELSE rd.warn \cup {"HUFF_BAD_CODE"}]]
NextSymbol(bits, rd, tbl) ==
    TakenApart(rd, HuffDecode(tbl.table, tbl.derived, Peek(bits, rd.at, MAX_CODE_LEN)))

Skip(rd, n) == [rd EXCEPT !.at = @ + n]

\* A coefficient index that runs over the end of the block is caught there.
InBlock(k) == Min({k, DCTSIZE2 - 1})

\* The difference of a DC value from the one before.
DiffOf(bits, rd, s) == [diff |-> Extend(GetBits(bits, rd.at, s), s), rd |-> Skip(rd, s)]
NextDiff(bits, rd, tbl) ==
    LET Diff(sym) == DiffOf(bits, sym.rd, 16 * sym.r + sym.s)
    IN  Diff(NextSymbol(bits, rd, tbl))

-----------------------------------------------------------------------------
(* jdhuff.c: a block of a sequential scan.                                 *)

\* One turn of the loop over the AC coefficients, at coefficient a.k, with
\* symbol sym.
TakeSymbol(bits, a, sym, Al) ==
    IF sym.s # 0
    THEN [a EXCEPT !.block[InBlock(a.k + sym.r)] =
                       Extend(GetBits(bits, sym.rd.at, sym.s), sym.s) * 2 ^ Al,
                   !.rd = Skip(sym.rd, sym.s), !.k = @ + sym.r + 1]
    ELSE IF sym.r = MAX_RUN THEN [a EXCEPT !.rd = sym.rd, !.k = @ + MAX_RUN + 1]
    ELSE [a EXCEPT !.rd = sym.rd, !.ended = TRUE, !.r = sym.r]
DecodeCoef(bits, tbl, a, Al) == TakeSymbol(bits, a, NextSymbol(bits, a.rd, tbl), Al)

\* The turns of the loop for the band Ss .. Se of a block.
DecodeBand(bits, tbl, rd, block, Ss, Se, Al) ==
    FoldLeft(LAMBDA a, n : IF a.ended \/ a.k > Se THEN a ELSE DecodeCoef(bits, tbl, a, Al),
             [k |-> Ss, rd |-> rd, block |-> block, ended |-> FALSE, r |-> 0],
             [n \in 1 .. Se - Ss + 1 |-> n])

DecodeBlock(bits, dctbl, actbl, rd, block, last) ==
    LET Rest(dc) == DecodeBand(bits, actbl, dc.rd, [block EXCEPT ![0] = last + dc.diff],
                               1, DCTSIZE2 - 1, 0)
        Whole(ac) == [block |-> ac.block, rd |-> ac.rd, last |-> ac.block[0]]
    IN  Whole(Rest(NextDiff(bits, rd, dctbl)))

-----------------------------------------------------------------------------
(* jdphuff.c: a block of each kind of progressive scan.                    *)

DecodeDCFirst(bits, tbl, rd, block, last, Al) ==
    LET Shifted(dc) == [block |-> [block EXCEPT ![0] = (last + dc.diff) * 2 ^ Al],
                        rd |-> dc.rd, last |-> last + dc.diff]
    IN  Shifted(NextDiff(bits, rd, tbl))

\* Bit Al of x in two's complement.
HasBit(x, Al) == (x \div 2 ^ Al) % 2 = 1

DecodeDCRefine(bits, rd, block, Al) ==
    [rd |-> Skip(rd, 1),
     block |-> IF GetBits(bits, rd.at, 1) = 1 /\ ~ HasBit(block[0], Al)
               THEN [block EXCEPT ![0] = @ + 2 ^ Al] ELSE block]

\* A run of blocks that end here, r its symbol; this block is one of them.
EobRun(bits, rd, r) == 2 ^ r + GetBits(bits, rd.at, r)

DecodeACFirst(bits, tbl, rd, block, EOBRUN, scan) ==
    LET Ended(a) == [block |-> a.block,
                     rd |-> IF a.ended THEN Skip(a.rd, a.r) ELSE a.rd,
                     EOBRUN |-> IF a.ended THEN EobRun(bits, a.rd, a.r) - 1 ELSE 0]
    IN  IF EOBRUN > 0 THEN [block |-> block, rd |-> rd, EOBRUN |-> EOBRUN - 1]
        ELSE Ended(DecodeBand(bits, tbl, rd, block, scan.Ss, scan.Se, scan.Al))

\* mutation: a correction is made again after a suspension
CorrectAgain(x, bit, Al) ==
    IF bit = 0 THEN x ELSE IF x >= 0 THEN x + 2 ^ Al ELSE x - 2 ^ Al

\* The correction bit of coefficient x, which was nonzero; done again after
\* a suspension it changes nothing.
Correct(x, bit, Al) ==
    IF bit = 0 \/ HasBit(x, Al) THEN x ELSE IF x >= 0 THEN x + 2 ^ Al ELSE x - 2 ^ Al

\* Refinement of a band.  Only the first `have` bits of the segment have
\* arrived: a block that needs more is left with the corrections it got from
\* those, and with none of its newly nonzero coefficients.  At a
\* coefficient, sought says that the symbol whose zeros are being counted
\* was read before.
RefineSymbol(bits, a, sym, Al) ==
    LET read == [a EXCEPT !.rd = sym.rd, !.r = sym.r, !.new = 0, !.sought = TRUE]
        new == IF GetBits(bits, sym.rd.at, 1) = 1 THEN 2 ^ Al ELSE - (2 ^ Al)
    IN  IF sym.s # 0
        THEN [read EXCEPT !.new = new, !.rd = Skip(sym.rd, 1),
                          !.rd.warn = @ \cup IF sym.s = 1 THEN {} ELSE {"HUFF_BAD_CODE"}]
        ELSE IF sym.r = MAX_RUN THEN read
        ELSE [read EXCEPT !.rd = Skip(sym.rd, sym.r), !.EOBRUN = EobRun(bits, sym.rd, sym.r)]

RefineCoef(bits, a, k, Al, have) ==
    LET Corrected(x) == [a EXCEPT !.block[k] = x, !.rd = Skip(@, 1),
                                  !.partial[k] = IF a.rd.at < have THEN x ELSE @]
    IN  IF a.block[k] # 0 THEN Corrected(Correct(a.block[k], GetBits(bits, a.rd.at, 1), Al))
        ELSE IF a.EOBRUN > 0 THEN a
        ELSE IF a.r > 0 THEN [a EXCEPT !.r = @ - 1]
        ELSE [a EXCEPT !.block[k] = a.new, !.sought = FALSE]

\* At the end of the band a symbol that is still sought stands there.
RefinedBlock(done, Se) ==
    IF done.sought /\ done.EOBRUN = 0 /\ done.new # 0
    THEN [done.block EXCEPT ![InBlock(Se + 1)] = done.new] ELSE done.block

DecodeACRefine(bits, tbl, rd, block, EOBRUN, scan, have) ==
    LET Step(a, k) ==
            RefineCoef(bits,
                       IF a.EOBRUN > 0 \/ a.sought THEN a
                       ELSE RefineSymbol(bits, a, NextSymbol(bits, a.rd, tbl), scan.Al),
                       k, scan.Al, have)
        Refined(done) == [rd |-> done.rd, EOBRUN |-> Max({done.EOBRUN - 1, 0}),
                          partial |-> done.partial, block |-> RefinedBlock(done, scan.Se)]
    IN  Refined(FoldLeft(Step, [rd |-> rd, block |-> block, partial |-> block, r |-> 0, new |-> 0,
                                sought |-> FALSE, EOBRUN |-> EOBRUN], Band(scan)))

-----------------------------------------------------------------------------
(* Restart markers.                                                        *)

IsData(rec) == rec.t = "ECS"

\* next_marker: markers follow one another up to the end of the file.
NextMarker(src, p) == Min({q \in p .. Len(src) : ~ IsData(src[q])})

\* jpeg_resync_to_restart from the marker at p: where reading goes on, and
\* whether the marker there is left to be read again.
Resync(src, p, desired) ==
    LET near(q, distances) == \E d \in distances : src[q].n = (desired + d) % 8
        from[q \in p .. Len(src)] ==
            IF src[q].t # "RST" \/ near(q, {1, 2}) THEN [pos |-> q, left |-> TRUE]
            ELSE IF near(q, {7, 6}) THEN from[NextMarker(src, q + 1)]
            ELSE [pos |-> q + 1, left |-> FALSE]
    IN  from[p]

\* read_restart_marker.
ReadRestart(src, pos, desired) ==
    LET p == NextMarker(src, pos)
    IN  IF src[p] = [t |-> "RST", n |-> desired]
        THEN [pos |-> p + 1, left |-> FALSE, warn |-> {}]
        ELSE Resync(src, p, desired) @@ [warn |-> {"MUST_RESYNC"}]
=============================================================================
