--------------------------- MODULE MCJpegAndBall ----------------------------
(* Small images for JpegFile: blocks of 2 x 2 samples with six             *)
(* coefficients, codes of at most 5 bits, runs of at most 2 zeros.  A ball *)
(* of two pixels on a display of four by six.                              *)
EXTENDS JpegAndBall

MCWidths == {4, 6}

Luma   == [h |-> 2, v |-> 2, q |-> 0, dc |-> 0, ac |-> 0]
Chroma == [h |-> 1, v |-> 1, q |-> 1, dc |-> 1, ac |-> 1]
Grey   == [h |-> 1, v |-> 1, q |-> 0, dc |-> 0, ac |-> 0]

MkScan(comps, Ss, Se, Ah, Al) ==
    [comps |-> comps, Ss |-> Ss, Se |-> Se, Ah |-> Ah, Al |-> Al]
LastK == DCTSIZE2 - 1

Plain(across, down, comps) ==
    [width |-> across, height |-> down, comps |-> comps, script |-> <<>>, optimize |-> FALSE,
     restart_in_rows |-> 0, restart_interval |-> 0, quality |-> 50]

\* Spectral selection and successive approximation of both components.
Progression ==
    << MkScan(<<1, 2>>, 0, 0, 0, 1), MkScan(<<1>>, 1, LastK, 0, 1), MkScan(<<2>>, 1, 2, 0, 0),
       MkScan(<<1, 2>>, 0, 0, 1, 0), MkScan(<<1>>, 1, LastK, 1, 0), MkScan(<<2>>, 3, LastK, 0, 0) >>

Colour    == Plain(6, 5, <<Luma, Chroma>>)
Optimized == [Plain(5, 6, <<Luma, Chroma>>) EXCEPT !.optimize = TRUE, !.restart_in_rows = 1]
Scans     == [Plain(6, 5, <<Luma, Chroma>>) EXCEPT
                 !.script = << MkScan(<<1>>, 0, LastK, 0, 0), MkScan(<<2>>, 0, LastK, 0, 0) >>,
                 !.restart_in_rows = 1]
Progress  == [Plain(6, 5, <<Luma, Chroma>>) EXCEPT
                 !.script = Progression, !.restart_interval = 3]
Restarts  == [Plain(7, 5, <<Grey>>) EXCEPT !.restart_interval = 1]
Small     == Plain(3, 2, <<Grey>>)
Better    == [Small EXCEPT !.quality = 90]
Tuned     == [Small EXCEPT !.optimize = TRUE]
Partial   == [Small EXCEPT !.script = <<MkScan(<<1>>, 0, 0, 0, 1), MkScan(<<1>>, 1, 3, 0, 1)>>]
SmallScans == [Plain(3, 2, <<Grey, Chroma>>) EXCEPT
                 !.script = << MkScan(<<1>>, 0, LastK, 0, 0), MkScan(<<2>>, 0, LastK, 0, 0) >>]

\* Refused: a refinement of nothing, and a scan with too large an MCU, as the
\* first and as a later one.
Unordered == [Small EXCEPT !.script = <<MkScan(<<1>>, 0, 0, 1, 0)>>]
Oversized == [Plain(3, 2, <<Luma, Luma, Luma>>) EXCEPT
                 !.script = << MkScan(<<2, 3>>, 0, LastK, 0, 0), MkScan(<<1>>, 0, LastK, 0, 0) >>]
Unfit     == [Oversized EXCEPT
                 !.script = << MkScan(<<1>>, 0, LastK, 0, 0), MkScan(<<2, 3>>, 0, LastK, 0, 0) >>]

MCSettings == {Colour, Optimized, Scans, Progress, Restarts, Small, Better, Tuned, Partial,
               SmallScans, Unordered, Oversized, Unfit}
MCPlans == {<<Colour>>, <<Optimized>>, <<Scans>>, <<Progress>>, <<Restarts>>,
            <<NoImage, Small>>, <<Small, Better>>, <<Tuned, Partial>>, <<Small, SmallScans>>,
            <<Unordered, Small>>, <<Oversized, Small>>, <<Unfit>>}

\* A transform that tells apart the rows, the component and the column, with
\* many zeros, some ones and some larger values.
SumOf(s) == FoldLeft(+, 0, s)
MCCoefs(ci, rows, col) ==
    LET seed == 7 * ci + 5 * col
                + SumOf([j \in DOMAIN rows |->
                            (j + 1) * SumOf([i \in DOMAIN rows[j] |-> (i + 2) * rows[j][i]])])
        levels == <<0, 0, 0, 0, 0, 1, -1, 2, -3, 3, 0>>
    IN  [k \in 0 .. DCTSIZE2 - 1 |->
            IF k = 0 THEN (seed % 7) - 3 ELSE levels[((seed * (k + 1) + 3 * k * k) % 11) + 1]]

\* Sample tables with a code for every symbol of the values above.
MCStdTables ==
    [key \in {DC, AC} \X {0, 1} |->
        GenOptimalTable([s \in IF key[1] = DC THEN 0 .. 3
                               ELSE {ZRL, EOB} \cup {RunSize(r, n) : r \in 0 .. MAX_RUN, n \in 1 .. 2}
                         |-> 1])]
=============================================================================
