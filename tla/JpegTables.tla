------------------------------ MODULE JpegTables -----------------------------
(***************************************************************************)
(* Huffman tables of libjpeg: the table jpeg_gen_optimal_table builds for  *)
(* the symbols it counted, the code the encoder derives from a table       *)
(* (jpeg_make_c_derived_tbl) and the way the decoder reads it              *)
(* (jpeg_make_d_derived_tbl and jpeg_huff_decode).                         *)
(*                                                                         *)
(* A table is [bits, huffval]: bits[l] codes of length l, and the symbols  *)
(* in the order of their codes.  A symbol is 16 * run + size.              *)
(***************************************************************************)
EXTENDS Integers, Sequences, FiniteSets, FiniteSetsExt, SequencesExt, Functions

CONSTANTS MAX_CODE_LEN,       \* 16: the longest code JPEG allows
          MAX_CLEN,           \* 32: the longest the tree may give
          MAX_SYMBOLS,        \* 256: symbols a table can hold
          MAX_DC_SYMBOL,      \* 15: largest size of a DC difference
          MAX_AC_SYMBOL       \* 255

ASSUME TablesAssumption ==
    /\ MAX_CODE_LEN \in Nat \ {0} /\ MAX_CLEN \in Nat /\ MAX_CLEN >= MAX_CODE_LEN
    /\ MAX_SYMBOLS \in Nat /\ MAX_DC_SYMBOL \in Nat /\ MAX_AC_SYMBOL \in Nat

Lengths == 1 .. MAX_CODE_LEN

\* The symbol added to every tree, so that no symbol that is used gets the
\* code of all ones; its number is larger than every other.
Pseudo == MAX_AC_SYMBOL + 1

-----------------------------------------------------------------------------
(* jpeg_gen_optimal_table.                                                 *)

\* Of the symbols in S, one of the smallest frequency, the largest of these.
Rarest(freq, S) ==
    CHOOSE c \in S : \A d \in S : \/ freq[c] < freq[d]
                                  \/ freq[c] = freq[d] /\ c >= d

\* One merge of the two rarest branches; a branch is named by the symbol c1
\* that heads its chain, members is the chain.
Merge(tree) ==
    LET c1 == Rarest(tree.freq, DOMAIN tree.freq)
        c2 == Rarest(tree.freq, DOMAIN tree.freq \ {c1})
        branch == tree.members[c1] \cup tree.members[c2]
        heads == DOMAIN tree.freq \ {c2}
    IN  [freq |-> [c \in heads |-> IF c = c1 THEN tree.freq[c1] + tree.freq[c2]
                                             ELSE tree.freq[c]],
         members |-> [c \in heads |-> IF c = c1 THEN branch ELSE tree.members[c]],
         size |-> [c \in DOMAIN tree.size |->
                      IF c \in branch THEN tree.size[c] + 1 ELSE tree.size[c]]]

\* Code size of each counted symbol and of the pseudo-symbol.
CodeSizes(count) ==
    LET symbols == DOMAIN count \cup {Pseudo}
        freq == [c \in symbols |-> IF c = Pseudo THEN 1 ELSE count[c]]
        start == [freq |-> freq, members |-> [c \in symbols |-> {c}],
                  size |-> [c \in symbols |-> 0]]
        after[n \in 0 .. Cardinality(symbols)] ==
            IF n = 0 THEN start ELSE Merge(after[n - 1])
    IN  after[Cardinality(symbols) - 1].size

\* The adjustment of K.2 for one pair of codes of length i > MAX_CODE_LEN.
ShortenPair(bits, i) ==
    LET j == Max({l \in 1 .. i - 2 : bits[l] > 0})
        less == [bits EXCEPT ![i] = @ - 2, ![i - 1] = @ + 1]
    IN  [less EXCEPT ![j + 1] = @ + 2, ![j] = @ - 1]

ShortenLength(bits, i) ==
    FoldLeft(LAMBDA b, n : ShortenPair(b, i), bits, [n \in 1 .. bits[i] \div 2 |-> n])

\* The lengths from MAX_CLEN down to MAX_CODE_LEN + 1 are emptied in turn.
LimitLengths(bits) ==
    FoldLeft(ShortenLength, bits,
             [n \in 1 .. MAX_CLEN - MAX_CODE_LEN |-> MAX_CLEN + 1 - n])

DropPseudo(bits) ==
    [bits EXCEPT ![Max({l \in DOMAIN bits : bits[l] > 0})] = @ - 1]

GenOptimalTable(count) ==
    LET size == CodeSizes(count)
        full == [l \in 1 .. MAX_CLEN |->
                    Cardinality({c \in DOMAIN size : size[c] = l})]
        before(a, b) == size[a] < size[b] \/ (size[a] = size[b] /\ a < b)
        final == DropPseudo(LimitLengths(full))
    IN  [bits |-> [l \in Lengths |-> final[l]],
         huffval |-> [p \in 1 .. Cardinality(DOMAIN count) |->
                        CHOOSE s \in DOMAIN count :
                            Cardinality({a \in DOMAIN count : before(a, s)}) = p - 1]]

-----------------------------------------------------------------------------
(* The codes of a table, Figures C.1 to C.3.                               *)

NumCodes(table) == FoldFunction(+, 0, table.bits)

\* First code of each length, and one more than the last of it.
FirstCode(table) ==
    LET first[l \in Lengths] ==
            IF l = 1 THEN 0 ELSE 2 * (first[l - 1] + table.bits[l - 1])
    IN  first

\* Both derivations refuse a table of too many codes, one whose codes do not
\* fit in their length without the code of all ones, and a symbol too large.
WellFormed(table, isDC) ==
    /\ NumCodes(table) <= MAX_SYMBOLS
    /\ \A l \in Lengths :
          table.bits[l] > 0 => FirstCode(table)[l] + table.bits[l] < 2 ^ l
    /\ \A p \in 1 .. NumCodes(table) :
          table.huffval[p] <= (IF isDC THEN MAX_DC_SYMBOL ELSE MAX_AC_SYMBOL)

\* The encoder also refuses a symbol listed twice.
EncoderAccepts(table, isDC) ==
    /\ WellFormed(table, isDC)
    /\ \A p, q \in 1 .. NumCodes(table) :
          table.huffval[p] = table.huffval[q] => p = q

\* Length and code of the p'th symbol of the table.
CodesBefore(table, l) == FoldFunctionOnSet(+, 0, table.bits, 1 .. l - 1)
LengthAt(table, p) ==
    CHOOSE l \in Lengths : p \in CodesBefore(table, l) + 1 .. CodesBefore(table, l + 1)
CodeAt(table, p) ==
    LET l == LengthAt(table, p)
    IN  [size |-> l, code |-> FirstCode(table)[l] + p - 1 - CodesBefore(table, l)]

\* The encoder's derived table; a symbol without a code has size 0.
MakeCDerivedTbl(table) ==
    [s \in {table.huffval[p] : p \in 1 .. NumCodes(table)} |->
        CodeAt(table, CHOOSE p \in 1 .. NumCodes(table) : table.huffval[p] = s)]
CodeOf(derived, symbol) ==
    IF symbol \in DOMAIN derived THEN derived[symbol] ELSE [size |-> 0, code |-> 0]

-----------------------------------------------------------------------------
(* The decoder's derived table: for each length the largest code, -1 when  *)
(* there is none, and what to add to a code to get its symbol's place.     *)

MakeDDerivedTbl(table) ==
    [l \in Lengths |->
        IF table.bits[l] = 0 THEN [maxcode |-> -1, valoffset |-> 0]
        ELSE [maxcode |-> FirstCode(table)[l] + table.bits[l] - 1,
              valoffset |-> CodesBefore(table, l) + 1 - FirstCode(table)[l]]]

\* The value of the first n bits of a sequence of bits.
Value(bits) == FoldLeft(LAMBDA v, b : 2 * v + b, 0, bits)

\* jpeg_huff_decode at the head of bits, of which there are enough: the
\* symbol and the bits it took; symbol 0 for a code that is in no table.
CodeLength(derived, bits) ==
    Min({MAX_CODE_LEN + 1} \cup
        {l \in Lengths : Value(SubSeq(bits, 1, l)) <= derived[l].maxcode})
SymbolAt(table, derived, bits, l) ==
    IF l > MAX_CODE_LEN THEN [symbol |-> 0, size |-> l, known |-> FALSE]
    ELSE [symbol |-> table.huffval[Value(SubSeq(bits, 1, l)) + derived[l].valoffset],
          size |-> l, known |-> TRUE]
HuffDecode(table, derived, bits) ==
    SymbolAt(table, derived, bits, CodeLength(derived, bits))
=============================================================================
