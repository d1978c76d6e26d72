----------------------------- MODULE Halvings -------------------------------
(***************************************************************************)
(* The search by halving that OrderArray.contain and the two methods of    *)
(* BinarySearch have in common.                                            *)
(***************************************************************************)
EXTENDS Integers

\* mutation: the search ends when one cell is left
HalvingShort(s, n, d) ==
  LET found[p \in (0..n) \X (-1..(n - 1))] ==
        LET mid == (p[1] + p[2]) \div 2
        IN  IF p[1] >= p[2] THEN -1
            ELSE IF s[mid] = d THEN mid
            ELSE IF s[mid] > d THEN found[<<p[1], mid - 1>>] ELSE found[<<mid + 1, p[2]>>]
  IN  found[<<0, n - 1>>]

\* Where d is among the first n elements of s, -1 if it is not found; p is <<left, right>>.
Halving(s, n, d) ==
  LET found[p \in (0..n) \X (-1..(n - 1))] ==
        LET mid == (p[1] + p[2]) \div 2
        IN  IF p[1] > p[2] THEN -1
            ELSE IF s[mid] = d THEN mid
            ELSE IF s[mid] > d THEN found[<<p[1], mid - 1>>] ELSE found[<<mid + 1, p[2]>>]
  IN  found[<<0, n - 1>>]
=============================================================================
