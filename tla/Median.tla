------------------------------- MODULE Median -------------------------------
(***************************************************************************)
(* swap_median (libswap/swap_math.c:184): networks of comparators for the  *)
(* sizes 3, 5, 7, 9 and 25, and Quickselect for the others. An array of n  *)
(* elements is a function on 0 .. n-1, as in C.                            *)
(***************************************************************************)
EXTENDS Integers, Sequences, SequencesExt, Stepwise, FiniteSets, TLC

OutsideArray == -1     \* no element: one beyond the array has been read

Exchange(a, i, j) == [a EXCEPT ![i] = a[j], ![j] = a[i]]

(* PIX_SORT: p names two places; the second of them may come first.        *)
PixSort(a, p) == IF a[p[1]] > a[p[2]] THEN Exchange(a, p[1], p[2]) ELSE a

Network3 == <<
    <<0,1>>, <<1,2>>, <<0,1>> >>

Network5 == <<
    <<0,1>>, <<3,4>>, <<0,3>>, <<1,4>>, <<1,2>>, <<2,3>>, <<1,2>> >>

Network7 == <<
    <<0,5>>, <<0,3>>, <<1,6>>, <<2,4>>, <<0,1>>, <<3,5>>, <<2,6>>,
    <<2,3>>, <<3,6>>, <<4,5>>, <<1,4>>, <<1,3>>, <<3,4>> >>

Network9 == <<
    <<1,2>>, <<4,5>>, <<7,8>>, <<0,1>>, <<3,4>>, <<6,7>>, <<1,2>>,
    <<4,5>>, <<7,8>>, <<0,3>>, <<5,8>>, <<4,7>>, <<3,6>>, <<1,4>>,
    <<2,5>>, <<4,7>>, <<4,2>>, <<6,4>>, <<4,2>> >>

Network25 == <<
    <<0,1>>, <<3,4>>, <<2,4>>, <<2,3>>, <<6,7>>, <<5,7>>, <<5,6>>,
    <<9,10>>, <<8,10>>, <<8,9>>, <<12,13>>, <<11,13>>, <<11,12>>,
    <<15,16>>, <<14,16>>, <<14,15>>, <<18,19>>, <<17,19>>, <<17,18>>,
    <<21,22>>, <<20,22>>, <<20,21>>, <<23,24>>, <<2,5>>, <<3,6>>,
    <<0,6>>, <<0,3>>, <<4,7>>, <<1,7>>, <<1,4>>, <<11,14>>, <<8,14>>,
    <<8,11>>, <<12,15>>, <<9,15>>, <<9,12>>, <<13,16>>, <<10,16>>,
    <<10,13>>, <<20,23>>, <<17,23>>, <<17,20>>, <<21,24>>, <<18,24>>,
    <<18,21>>, <<19,22>>, <<8,17>>, <<9,18>>, <<0,18>>, <<0,9>>,
    <<10,19>>, <<1,19>>, <<1,10>>, <<11,20>>, <<2,20>>, <<2,11>>,
    <<12,21>>, <<3,21>>, <<3,12>>, <<13,22>>, <<4,22>>, <<4,13>>,
    <<14,23>>, <<5,23>>, <<5,14>>, <<15,24>>, <<6,24>>, <<6,15>>,
    <<7,16>>, <<7,19>>, <<13,21>>, <<15,23>>, <<7,13>>, <<7,15>>,
    <<1,9>>, <<3,11>>, <<5,17>>, <<11,17>>, <<9,17>>, <<4,10>>,
    <<6,12>>, <<7,14>>, <<4,6>>, <<4,7>>, <<12,14>>, <<10,14>>, <<6,7>>,
    <<10,12>>, <<6,10>>, <<6,17>>, <<12,17>>, <<7,17>>, <<7,10>>,
    <<12,18>>, <<7,12>>, <<10,18>>, <<12,20>>, <<10,20>>, <<10,12>> >>

Networks == [n \in {3, 5, 7, 9, 25} |->
    CASE n = 3 -> Network3 [] n = 5 -> Network5 [] n = 7 -> Network7
      [] n = 9 -> Network9 [] n = 25 -> Network25]

ByNetwork(a, n) == Loop(PixSort, a, Networks[n])[n \div 2]

---------------------------------------------------------------------------
(* Quickselect.                                                            *)

Size(a) == Cardinality(DOMAIN a)

(* More rounds than any of the loops below goes.                           *)
Rounds(a) == [k \in 1 .. Size(a) |-> k]

(* The do-while loops. Nothing in them looks at the bounds of the array: a *)
(* place out of its domain is one that was read beyond it.                 *)
ScanUp(a, low, ll) ==
    CHOOSE k \in ll + 1 .. Size(a) :
        /\ \A i \in ll + 1 .. k - 1 : a[low] > a[i]
        /\ k \in DOMAIN a => ~(a[low] > a[k])
ScanDown(a, low, hh) ==
    CHOOSE k \in -1 .. hh - 1 :
        /\ \A i \in k + 1 .. hh - 1 : a[i] > a[low]
        /\ k \in DOMAIN a => ~(a[k] > a[low])

(* The median of the low, the middle and the high item goes to low, the    *)
(* smallest to low + 1, the largest to high: the sentinels of the scans.   *)
Pivot(a, low, high) ==
    LET middle == (low + high) \div 2
        b == Loop(PixSort, a, <<<<middle, high>>, <<low, high>>, <<middle, low>>>>)
    IN  Exchange(b, middle, low + 1)

(* Items are exchanged around the pivot until the scans have crossed.      *)
Scanned(p, low) ==
    LET ll == ScanUp(p.arr, low, p.ll)
        hh == ScanDown(p.arr, low, p.hh)
    IN  IF p.crossed THEN p
        ELSE IF {ll, hh} \subseteq DOMAIN p.arr /\ hh >= ll
        THEN [arr |-> Exchange(p.arr, ll, hh), ll |-> ll, hh |-> hh, crossed |-> FALSE]
        ELSE [arr |-> p.arr, ll |-> ll, hh |-> hh, crossed |-> TRUE]

Nibble(a, low, high) ==
    Loop(LAMBDA p, k : Scanned(p, low),
         [arr |-> a, ll |-> low + 1, hh |-> high, crossed |-> FALSE], Rounds(a))

(* Mutant: the upper median.                                               *)
MedianIndexUpper(n) == n \div 2
MedianIndex(n) == (n - 1) \div 2

(* One round: the items from low to high are narrowed around the median,   *)
(* or there are two or less of them and the median is in its place.        *)
Narrowed(s, median) ==
    LET p == Nibble(Pivot(s.arr, s.low, s.high), s.low, s.high)
    IN  IF s.outside \/ s.high <= s.low THEN s
        ELSE IF s.high = s.low + 1
        THEN [s EXCEPT !.arr = PixSort(s.arr, <<s.low, s.high>>), !.high = s.low]
        ELSE IF {p.ll, p.hh} \subseteq DOMAIN s.arr
        THEN [arr  |-> Exchange(p.arr, s.low, p.hh), outside |-> FALSE,
              low  |-> IF p.hh <= median THEN p.ll ELSE s.low,
              high |-> IF p.hh >= median THEN p.hh - 1 ELSE s.high]
        ELSE [s EXCEPT !.outside = TRUE]

Select(a, median) ==
    LET s == Loop(LAMBDA t, k : Narrowed(t, median),
                  [arr |-> a, low |-> 0, high |-> Size(a) - 1, outside |-> FALSE], Rounds(a))
    IN  IF s.outside THEN OutsideArray ELSE s.arr[median]

SwapMedian(a) ==
    LET n == Size(a)
    IN  IF n \in DOMAIN Networks THEN ByNetwork(a, n)
        ELSE Select(a, MedianIndex(n))

---------------------------------------------------------------------------
(* The reference: fewer than half of the elements are below it, and at     *)
(* least half of them are not above it.                                    *)
IsLowerMedian(m, a) ==
    LET n == Cardinality(DOMAIN a)
        below == Cardinality({i \in DOMAIN a : a[i] < m})
        upto  == Cardinality({i \in DOMAIN a : a[i] <= m})
    IN  m \in {a[i] : i \in DOMAIN a} /\ 2 * below < n /\ 2 * upto >= n
=============================================================================
