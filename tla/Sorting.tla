------------------------------ MODULE Sorting -------------------------------
(***************************************************************************)
(* The sorting and searching classes of Algorithms: each method sorts an   *)
(* int array in place, and a binary search looks for an element in an      *)
(* array that SimpleSelectSort has sorted.  The methods are sequential, so *)
(* each is a function from arrays to arrays with the loops of the code;    *)
(* HeapSort.sort is empty.                                                 *)
(*                                                                         *)
(* Arrays are functions on 0..n-1.  Integers are Java's ints: the radix    *)
(* sort meets their limits.                                                *)
(***************************************************************************)
EXTENDS Halvings, Integers, Sequences, SequencesExt, FiniteSetsExt

CONSTANTS
  SortInts,   \* the ints the arrays hold
  MaxLen    \* bound: length of the arrays

IntMax == 2147483647
IntMin == -IntMax - 1

ASSUME SortIntsAssumption == SortInts \subseteq IntMin..IntMax /\ MaxLen \in Nat

VARIABLES
  input,    \* the array before the call
  arr,      \* the array
  ran,      \* the method that ran last, "none" at first
  search,   \* <<>>, or the element searched for and what the search returned
  thrown    \* the call ended with an exception

sorterVars == <<input, arr, ran, search, thrown>>

Arrays == UNION {[0..n-1 -> SortInts] : n \in 0..MaxLen}
ArrayLength(s) == Cardinality(DOMAIN s)
Swap(s, x, y) == [s EXCEPT ![x] = s[y], ![y] = s[x]]

SortTypeOK ==
  /\ input \in Arrays
  /\ arr \in [DOMAIN input -> SortInts]
  /\ ran \in {"none", "exchangeSort", "quickSort", "mergeSort", "radixSort", "directInsertSort",
              "binaryInsertSort", "shellSort", "selectSort", "binarySearch"}
  /\ search \in {<<>>} \cup SortInts \X (-1..(MaxLen - 1))
  /\ thrown \in BOOLEAN

-----------------------------------------------------------------------------
(* A loop is a function of the number of its rounds; a while loop has as   *)
(* many as it can need, and a round after its end changes nothing.         *)

\* BubbleSort: elements j and j + 1 are compared.
Compared(r, j) ==
  IF r.a[j] > r.a[j + 1] THEN [a |-> Swap(r.a, j, j + 1), exchange |-> TRUE] ELSE r

\* mutation: the last pair of a round is not compared
BubbleRoundShort(s, i) ==
  LET pass[j \in 0..(i - 1)] == IF j = 0 THEN [a |-> s, exchange |-> FALSE]
                                ELSE Compared(pass[j - 1], j - 1)
  IN  pass[i - 1]

\* BubbleSort: one round compares neighbours up to position i.
BubbleRound(s, i) ==
  LET pass[j \in 0..i] == IF j = 0 THEN [a |-> s, exchange |-> FALSE]
                          ELSE Compared(pass[j - 1], j - 1)
  IN  pass[i]

\* A round without an exchange is the last.
NextRound(r, i) == IF r.exchange /\ i > 0 THEN BubbleRound(r.a, i) ELSE r

ExchangeSort(s) ==
  LET n == ArrayLength(s)
      round[k \in 0..n] == IF k = 0 THEN [a |-> s, exchange |-> TRUE]
                           ELSE NextRound(round[k - 1], n - k)
  IN  round[n].a

-----------------------------------------------------------------------------
\* QuickSort.getMiddle: the two pointers meet where the base goes; each stops at the first
\* element on the wrong side, or at the other.
CloseIn(r, base) ==
  LET h == Max({r.low} \cup {k \in r.low..r.high : r.a[k] < base})
      fromRight == [r.a EXCEPT ![r.low] = r.a[h]]
      l == Min({h} \cup {k \in r.low..h : fromRight[k] > base})
  IN  IF r.low < r.high
        THEN [a |-> [fromRight EXCEPT ![h] = fromRight[l]], low |-> l, high |-> h]
        ELSE r

GetMiddle(s, low, high) ==
  LET met[k \in 0..(high - low)] == IF k = 0 THEN [a |-> s, low |-> low, high |-> high]
                                    ELSE CloseIn(met[k - 1], s[low])
      end == met[high - low]
  IN  [a |-> [end.a EXCEPT ![end.low] = s[low]], middle |-> end.low]

\* An array and the first and the last index of the part of it that a call sorts.
Calls == {c \in Arrays \X (0..MaxLen) \X (-1..(MaxLen - 1)) : c[3] < ArrayLength(c[1])}

QuickSort(s) ==
  LET sorted[c \in Calls] ==
        LET p == GetMiddle(c[1], c[2], c[3])
            below == sorted[<<p.a, c[2], p.middle - 1>>]
        IN  IF c[2] < c[3] THEN sorted[<<below, p.middle + 1, c[3]>>] ELSE c[1]
  IN  sorted[<<s, 0, ArrayLength(s) - 1>>]

-----------------------------------------------------------------------------
\* MergeSort.merge: the smaller of the two heads first, the left one when they are equal,
\* then what is left of one side.
MergeStep(m, s, mid, right) ==
  IF m.i <= mid /\ (m.j > right \/ s[m.i] <= s[m.j])
    THEN [m EXCEPT !.i = @ + 1, !.tmp = Append(@, s[m.i])]
    ELSE [m EXCEPT !.j = @ + 1, !.tmp = Append(@, s[m.j])]

Merge(s, left, mid, right) ==
  LET taken[k \in 0..(right - left + 1)] ==
        IF k = 0 THEN [i |-> left, j |-> mid + 1, tmp |-> <<>>]
        ELSE MergeStep(taken[k - 1], s, mid, right)
      tmpArray == taken[right - left + 1].tmp
  IN  [k \in DOMAIN s |-> IF k \in left..right THEN tmpArray[k - left + 1] ELSE s[k]]

MergeSort(s) ==
  LET sorted[c \in Calls] ==
        LET mid == (c[2] + c[3]) \div 2
            below == sorted[<<c[1], c[2], mid>>]
        IN  IF c[2] < c[3] THEN Merge(sorted[<<below, mid + 1, c[3]>>], c[2], mid, c[3]) ELSE c[1]
  IN  sorted[<<s, 0, ArrayLength(s) - 1>>]

-----------------------------------------------------------------------------
\* ShellSort.insertSort: element i goes down its group, delta apart, past what is greater.
\* DirectInsertSort's inner loop is this with delta 1.
ShiftUp(r, delta, insertI) ==
  IF r.j >= 0 /\ r.a[r.j] > insertI
    THEN [a |-> [r.a EXCEPT ![r.j + delta] = r.a[r.j]], j |-> r.j - delta]
    ELSE r

InsertSort(s, delta, i) ==
  LET shift[k \in 0..i] == IF k = 0 THEN [a |-> s, j |-> i - delta]
                           ELSE ShiftUp(shift[k - 1], delta, s[i])
      end == shift[i]
  IN  [end.a EXCEPT ![end.j + delta] = s[i]]

Placed(s, delta, i) == IF i < delta THEN s ELSE InsertSort(s, delta, i)

\* Each element from index delta on is inserted into its group.
InsertFrom(s, delta) ==
  LET inserted[k \in 0..ArrayLength(s)] ==
        IF k = 0 THEN s ELSE Placed(inserted[k - 1], delta, k - 1)
  IN  inserted[ArrayLength(s)]

DirectInsertSort(s) == InsertFrom(s, 1)

ShellRound(r) ==
  IF r.delta > 0 THEN [a |-> InsertFrom(r.a, r.delta), delta |-> r.delta \div 2] ELSE r

ShellSort(s) ==
  LET n == ArrayLength(s)
      round[k \in 0..n] == IF k = 0 THEN [a |-> s, delta |-> n \div 2] ELSE ShellRound(round[k - 1])
  IN  round[n].a

-----------------------------------------------------------------------------
\* BinaryInsertSort: the halving of the sorted part stops with one element left uncompared.
Narrowed(r, s, temp) ==
  LET mid == (r.left + r.right) \div 2
  IN  IF r.left >= r.right THEN r
      ELSE IF s[mid] > temp THEN [r EXCEPT !.right = mid - 1]
                            ELSE [r EXCEPT !.left = mid + 1]

InsertPoint(s, i) ==
  LET halved[k \in 0..i] == IF k = 0 THEN [left |-> 0, right |-> i - 1]
                            ELSE Narrowed(halved[k - 1], s, s[i])
  IN  halved[i].left

BinaryInsert(s, i) ==
  LET p == InsertPoint(s, i)
  IN  [k \in DOMAIN s |-> IF k = p THEN s[i] ELSE IF k \in (p + 1)..i THEN s[k - 1] ELSE s[k]]

\* Element 0 goes nowhere.
BinaryInsertSort(s) ==
  LET inserted[k \in 0..ArrayLength(s)] ==
        IF k = 0 THEN s ELSE BinaryInsert(inserted[k - 1], k - 1)
  IN  inserted[ArrayLength(s)]

-----------------------------------------------------------------------------
\* SimpleSelectSort: the first of the least elements from i on is exchanged with element i.
MinIndex(s, i) ==
  LET rest == i..(ArrayLength(s) - 1)
  IN  Min({j \in rest : \A k \in rest : s[j] <= s[k]})

Selected(s, i) == Swap(s, i, MinIndex(s, i))

SelectSort(s) ==
  LET selected[k \in 0..ArrayLength(s)] == IF k = 0 THEN s ELSE Selected(selected[k - 1], k - 1)
  IN  selected[ArrayLength(s)]

-----------------------------------------------------------------------------
\* Math.abs and unary minus: the least int is its own opposite.
Negate(x) == IF x = IntMin THEN x ELSE -x

\* (int) Math.pow(10, k): the cast of a double above the range gives the greatest int.
Pow10(k) == IF k > 9 THEN IntMax ELSE 10^k

Digit(x, i) == (x % Pow10(i + 1)) \div Pow10(i)

\* The digits of the greatest element; none when it is not positive, or nothing is there.
Times(q) == LET max == Max({0} \cup ToSet(q))
            IN  Cardinality({i \in 0..9 : max \div Pow10(i) > 0})

\* One pass of radixSort: the ten queues, one after the other, each in the order of arrival.
Collect(q, i) == FlattenSeq([k \in 1..10 |-> SelectSeq(q, LAMBDA x : Digit(x, i) = k - 1)])

RadixSortPart(q) ==
  LET pass[i \in 0..Times(q)] == IF i = 0 THEN q ELSE Collect(pass[i - 1], i - 1)
  IN  pass[Times(q)]

\* A negative element has a negative digit, and the queues no such index.
RadixThrows(q) == Times(q) > 0 /\ \E x \in ToSet(q) : x < 0

\* The ints m..n of the array, in order.
Slice(s, m, n) == [k \in 1..(n - m + 1) |-> s[m + k - 1]]

Negatives(s) ==
  LET q == SelectSeq(Slice(s, 0, ArrayLength(s) - 1), LAMBDA x : x < 0)
  IN  [k \in DOMAIN q |-> Negate(q[k])]

Positives(s) == SelectSeq(Slice(s, 0, ArrayLength(s) - 1), LAMBDA x : x >= 0)

\* mutation: the negatives are merged from the front
MergeFromFront(negative) ==
  [k \in 1..(Len(negative) - 1) |-> Negate(negative[k + 1])]

\* The merge of RadixSort.sort: the loop over the negatives ends before index 0, so the
\* negative nearest to zero is left out and the last cell is not written.
MergeNegatives(negative) ==
  [k \in 1..(Len(negative) - 1) |-> Negate(negative[Len(negative) - k + 1])]

RadixSort(s) ==
  LET merged == MergeNegatives(RadixSortPart(Negatives(s))) \o RadixSortPart(Positives(s))
  IN  [k \in DOMAIN s |-> IF k < Len(merged) THEN merged[k + 1] ELSE s[k]]

-----------------------------------------------------------------------------
SortInit ==
  /\ input \in Arrays
  /\ arr = input
  /\ ran = "none"
  /\ search = <<>>
  /\ thrown = FALSE

Sorted(method, result) ==
  /\ ran = "none"
  /\ ran' = method
  /\ arr' = result
  /\ UNCHANGED <<input, search, thrown>>

RunExchangeSort == Sorted("exchangeSort", ExchangeSort(arr))
RunQuickSort == Sorted("quickSort", QuickSort(arr))
RunMergeSort == Sorted("mergeSort", MergeSort(arr))
RunDirectInsertSort == Sorted("directInsertSort", DirectInsertSort(arr))
RunBinaryInsertSort == Sorted("binaryInsertSort", BinaryInsertSort(arr))
RunShellSort == Sorted("shellSort", ShellSort(arr))
RunSelectSort == Sorted("selectSort", SelectSort(arr))

\* radixSort reads array[0] of an array of the input's length; an exception comes before
\* anything is written to the array.
RunRadixSort ==
  /\ ran = "none"
  /\ ran' = "radixSort"
  /\ thrown' = (ArrayLength(arr) = 0 \/ RadixThrows(Negatives(arr)) \/ RadixThrows(Positives(arr)))
  /\ arr' = IF thrown' THEN arr ELSE RadixSort(arr)
  /\ UNCHANGED <<input, search>>

RunBinarySearch ==
  /\ ran = "selectSort"
  /\ ran' = "binarySearch"
  /\ \E element \in SortInts : search' = <<element, Halving(arr, ArrayLength(arr), element)>>
  /\ UNCHANGED <<input, arr, thrown>>

SortNext ==
  \/ RunExchangeSort
  \/ RunQuickSort
  \/ RunMergeSort
  \/ RunRadixSort
  \/ RunDirectInsertSort
  \/ RunBinaryInsertSort
  \/ RunShellSort
  \/ RunSelectSort
  \/ RunBinarySearch

-----------------------------------------------------------------------------
Ascending(s) == \A k \in DOMAIN s : k + 1 \in DOMAIN s => s[k] <= s[k + 1]

Count(s, v) == Cardinality({k \in DOMAIN s : s[k] = v})

SameElements(s, t) == \A v \in SortInts : Count(s, v) = Count(t, v)

\* The sorts by comparison keep every element of the array, each as often as before, and all
\* but one leave them in ascending order: the shifts, swaps and merges of BubbleSort,
\* QuickSort, MergeSort, DirectInsertSort, ShellSort and SimpleSelectSort neither lose nor
\* double an element.  BinaryInsertSort does not sort: its halving leaves one element
\* uncompared, and may insert on the wrong side of it.
ComparisonSortsSort ==
  /\ ran \in {"exchangeSort", "quickSort", "mergeSort", "directInsertSort", "shellSort", "selectSort"}
       => Ascending(arr) /\ SameElements(arr, input)
  /\ ran = "binaryInsertSort" => SameElements(arr, input)

\* RadixSort.sort, which did not end with an exception, on an array without the greatest int
\* (whose tenth digit Math.pow's cast turns into 0).  Without negatives the array is sorted.
\* With negatives the cells before the last one are in ascending order, and no element is in
\* them more often than in the input: the negatives come out of their own sort in the opposite
\* order and in front.  (What becomes of all of them is RadixSortMergesNegatives.)
RadixSortKeepsOrder ==
  LET some == \E k \in DOMAIN input : input[k] < 0
      kept == [k \in 0..(ArrayLength(input) - 2) |-> arr[k]]
  IN  ran = "radixSort" /\ ~thrown /\ Count(input, IntMax) = 0 =>
        /\ ~some => Ascending(arr) /\ SameElements(arr, input)
        /\ some => Ascending(kept) /\ \A v \in SortInts : Count(kept, v) <= Count(input, v)

\* The comment at RadixSort.java:43: all the negatives are taken back and merged with the
\* others, and the array is sorted, the limits of int aside.  Violated: the loop at line 45
\* ends before index 0.
RadixSortMergesNegatives ==
  ran = "radixSort" /\ Count(input, IntMin) = 0 /\ Count(input, IntMax) = 0 /\ input # <<>> =>
    Ascending(arr) /\ SameElements(arr, input)

\* RadixSort.sort ends with an exception exactly for the empty array and for the least int
\* next to another negative, and has then changed nothing.
RadixThrowsOnlyAtLimits ==
  ran = "radixSort" =>
    /\ thrown <=> \/ ArrayLength(input) = 0
                  \/ Count(input, IntMin) > 0 /\ \E k \in DOMAIN input : input[k] \in (IntMin + 1)..-1
    /\ thrown => arr = input

\* After SimpleSelectSort, a binary search returns -1 exactly when the element is absent
\* from the array that was sorted, and an index of it otherwise.
SearchFinds ==
  ran = "binarySearch" =>
    LET element == search[1]
        found == search[2]
    IN  IF Count(input, element) = 0 THEN found = -1
                                     ELSE found \in DOMAIN arr /\ arr[found] = element

=============================================================================
