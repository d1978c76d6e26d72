--------------------------- MODULE MCAlgorithms -----------------------------
(* A queue of three cells and two values, so that the indices wrap at      *)
(* every combination of front and lenght; arrays of four cells over three  *)
(* ints and a list of up to three nodes, two of which callers may keep;    *)
(* every array of up to five ints with one and more digits, of both signs, *)
(* and the two limits of the type; frames as wide as high and wider.       *)
EXTENDS Algorithms

CONSTANTS zero, one, h1, h2

MCElement == {zero, one}
MCInts == {-7, 4, 9}
MCHolder == {h1, h2}
MCSortInts == {IntMin, -12, -3, 4, 10, 21, IntMax}
MCFrameSizes == {<<2, 2>>, <<4, 2>>, <<4, 4>>, <<6, 4>>}
=============================================================================
