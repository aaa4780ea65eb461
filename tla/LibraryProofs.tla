--------------------------- MODULE LibraryProofs ---------------------------
(***************************************************************************)
(* Proofs about the loops that several components share.                   *)
(*                                                                         *)
(* First, induction over data. The induction theorems of the library have  *)
(* an operator for a parameter; the same is true of a set, for which least *)
(* elements are enough. From it follows what the loops of Stepwise do: the *)
(* function that Loop defines by recursion exists and holds what is left   *)
(* after each round.                                                       *)
(*                                                                         *)
(* Then, the checksums of Crc. The exclusive or is the sum of bits without *)
(* carries, so a register that is shifted by a bit, and by eight, is a     *)
(* linear function of what it held. A table whose rows follow from one     *)
(* another, as all rows of the two tables do, therefore holds the          *)
(* remainders of the bytes, and a loop over the bytes that looks rows up   *)
(* leaves the remainder of the bits.                                       *)
(***************************************************************************)
EXTENDS Crc, SequenceTheorems, WellFoundedInduction, TLAPS

(* A set of numbers that is not empty has a least one.                     *)
LEMMA LeastOf ==
    ASSUME NEW S \in SUBSET Nat, S # {}
    PROVE  \E x \in S : \A y \in S : x <= y
<1> DEFINE R == {r \in Nat \X Nat : r[1] < r[2]}
<1>1. IsWellFoundedOn(R, Nat)
  BY NatLessThanWellFounded DEF OpToRel
<1>2. PICK x \in S : \A y \in S : ~(<<y, x>> \in R)
  BY <1>1, WFMin
<1>3. ASSUME NEW y \in S PROVE x <= y
  <2>1. x \in Nat /\ y \in Nat /\ <<y, x>> \in Nat \X Nat
    OBVIOUS
  <2>2. ~(<<y, x>>[1] < <<y, x>>[2])
    BY <1>2, <2>1
  <2> QED BY <2>1, <2>2
<1> QED BY <1>3

(* Induction over a set: the library states it for an operator, which the  *)
(* provers cannot take as a parameter.                                     *)
LEMMA SetInduction ==
    ASSUME NEW D \in SUBSET Nat, 0 \in D, \A n \in D : n + 1 \in D
    PROVE  D = Nat
<1> SUFFICES ASSUME Nat \ D # {} PROVE FALSE
  OBVIOUS
<1>1. PICK x \in Nat \ D : \A y \in Nat \ D : x <= y
  <2> DEFINE S == Nat \ D
  <2>1. S \in SUBSET Nat /\ S # {}
    OBVIOUS
  <2> HIDE DEF S
  <2>2. \E x \in S : \A y \in S : x <= y
    BY <2>1, LeastOf
  <2> QED BY <2>2 DEF S
<1>2. x # 0 /\ x - 1 \in Nat
  BY <1>1
<1>3. x - 1 \in D
  BY <1>1, <1>2
<1>4. (x - 1) + 1 \in D
  BY <1>3
<1> QED BY <1>1, <1>2, <1>4

(* n steps of a loop: g[k] is the value after k of them, and f[k] is what   *)
(* the k-th does.                                                          *)
Steps(g, start, f, n) == g[0] = start /\ \A k \in 1 .. n : g[k] = f[k][g[k - 1]]
CanDo(S, start, f, n) == \E g \in [0 .. n -> S] : Steps(g, start, f, n)

(* Steps of a loop can be made one longer.                                 *)
LEMMA OneMore ==
    ASSUME NEW S, NEW start \in S, NEW n \in Nat, NEW f \in [1 .. n -> [S -> S]],
           NEW m \in Nat, m + 1 <= n, CanDo(S, start, f, m)
    PROVE  CanDo(S, start, f, m + 1)
<1>1. PICK g \in [0 .. m -> S] : Steps(g, start, f, m)
  BY DEF CanDo
<1>2. g[0] = start /\ \A k \in 1 .. m : g[k] = f[k][g[k - 1]]
  BY <1>1 DEF Steps
<1> DEFINE h == [k \in 0 .. m + 1 |-> IF k = m + 1 THEN f[m + 1][g[m]] ELSE g[k]]
<1>3. f[m + 1][g[m]] \in S
  <2>1. g[m] \in S /\ m + 1 \in 1 .. n
    OBVIOUS
  <2> QED BY <2>1
<1>4. h \in [0 .. m + 1 -> S] /\ h[0] = start
  <2>1. \A k \in 0 .. m + 1 : k = m + 1 \/ k \in 0 .. m
    OBVIOUS
  <2>2. 0 # m + 1 /\ 0 \in 0 .. m + 1
    OBVIOUS
  <2> QED BY <1>2, <1>3, <2>1, <2>2
<1>5. ASSUME NEW k \in 1 .. m + 1 PROVE h[k] = f[k][h[k - 1]]
  <2>1. k - 1 \in 0 .. m + 1 /\ k - 1 # m + 1 /\ k \in 0 .. m + 1
    OBVIOUS
  <2>2. h[k - 1] = g[k - 1]
    BY <2>1
  <2>3. CASE k = m + 1
    <3>1. h[k] = f[m + 1][g[m]] /\ k - 1 = m
      BY <2>1, <2>3
    <3> QED BY <2>2, <2>3, <3>1
  <2>4. CASE k # m + 1
    <3>1. k \in 1 .. m /\ h[k] = g[k]
      BY <2>1, <2>4
    <3> QED BY <1>2, <2>2, <3>1
  <2> QED BY <2>3, <2>4
<1> HIDE DEF h
<1>6. Steps(h, start, f, m + 1)
  BY <1>4, <1>5 DEF Steps
<1> QED BY <1>4, <1>6 DEF CanDo

(* A loop of any length has values.                                        *)
LEMMA StepsExist ==
    ASSUME NEW S, NEW start \in S, NEW n \in Nat, NEW f \in [1 .. n -> [S -> S]]
    PROVE  \E g \in [0 .. n -> S] : Steps(g, start, f, n)
<1> DEFINE D == {m \in Nat : m <= n => CanDo(S, start, f, m)}
<1>1. 0 \in D
  <2> DEFINE g == [k \in 0 .. 0 |-> start]
  <2>1. g \in [0 .. 0 -> S] /\ Steps(g, start, f, 0)
    BY DEF Steps
  <2> QED BY <2>1 DEF CanDo
<1>2. ASSUME NEW m \in D PROVE m + 1 \in D
  BY OneMore
<1> HIDE DEF D
<1>3. D = Nat
  <2>1. D \in SUBSET Nat
    BY DEF D
  <2> QED BY <1>1, <1>2, <2>1, SetInduction
<1>4. n \in D
  BY <1>3
<1>5. CanDo(S, start, f, n)
  BY <1>4 DEF D
<1> QED BY <1>5 DEF CanDo

---------------------------------------------------------------------------
(* What holds at 0 and goes from each step to the next holds of them all.   *)
LEMMA UpTo ==
    ASSUME NEW n \in Nat, NEW D, 0 \in D, \A k \in 0 .. n - 1 : k \in D => k + 1 \in D
    PROVE  \A k \in 0 .. n : k \in D
<1> DEFINE E == {k \in Nat : k <= n => k \in D}
<1>1. E \in SUBSET Nat /\ 0 \in E
  OBVIOUS
<1>2. ASSUME NEW k \in E PROVE k + 1 \in E
  <2>1. CASE k + 1 <= n
    <3>1. k \in 0 .. n - 1 /\ k \in D
      BY <2>1
    <3> QED BY <3>1
  <2>2. CASE ~(k + 1 <= n)
    BY <2>2
  <2> QED BY <2>1, <2>2
<1> HIDE DEF E
<1>3. E = Nat
  BY <1>1, <1>2, SetInduction
<1> QED BY <1>3 DEF E

(* A function that takes the same steps, wherever it is in S.              *)
Follows(a, S, start, f, n) ==
    a[0] = start /\ \A k \in 1 .. n : a[k - 1] \in S => a[k] = f[k][a[k - 1]]

(* It has the same values as the loop.                                     *)
LEMMA StepsAgree ==
    ASSUME NEW S, NEW start \in S, NEW n \in Nat, NEW f \in [1 .. n -> [S -> S]],
           NEW g \in [0 .. n -> S], Steps(g, start, f, n),
           NEW a, Follows(a, S, start, f, n)
    PROVE  \A k \in 0 .. n : a[k] = g[k]
<1> DEFINE D == {k \in 0 .. n : a[k] = g[k]}
<1>1. /\ g[0] = start /\ \A k \in 1 .. n : g[k] = f[k][g[k - 1]]
      /\ a[0] = start /\ \A k \in 1 .. n : a[k - 1] \in S => a[k] = f[k][a[k - 1]]
  BY DEF Steps, Follows
<1>2. 0 \in D
  BY <1>1
<1>3. ASSUME NEW k \in 0 .. n - 1, k \in D PROVE k + 1 \in D
  <2>1. k \in 0 .. n /\ k + 1 \in 0 .. n /\ k + 1 \in 1 .. n /\ (k + 1) - 1 = k /\ a[k] = g[k]
    BY <1>3
  <2>2. a[k] \in S
    BY <2>1
  <2>3. a[k + 1] = f[k + 1][a[k]] /\ g[k + 1] = f[k + 1][g[k]]
    BY <1>1, <2>1, <2>2
  <2> QED BY <2>1, <2>3
<1> HIDE DEF D
<1>4. \A k \in 0 .. n : k \in D
  BY <1>2, <1>3, UpTo
<1> QED BY <1>4 DEF D

(* The steps of a loop: what they compute, and all that computes it.        *)
LEMMA StepsFollow ==
    ASSUME NEW S, NEW start \in S, NEW n \in Nat, NEW f \in [1 .. n -> [S -> S]]
    PROVE  \E g \in [0 .. n -> S] :
              Steps(g, start, f, n) /\ \A a : Follows(a, S, start, f, n) => a[n] = g[n]
<1>1. PICK g \in [0 .. n -> S] : Steps(g, start, f, n)
  BY StepsExist
<1>2. ASSUME NEW a, Follows(a, S, start, f, n) PROVE a[n] = g[n]
  <2>1. \A k \in 0 .. n : a[k] = g[k]
    BY <1>1, <1>2, StepsAgree
  <2>2. n \in 0 .. n
    OBVIOUS
  <2> QED BY <2>1, <2>2
<1> QED BY <1>1, <1>2

---------------------------------------------------------------------------
(* Selected.                                                               *)

(* g[k] is what has been selected of the first k elements.                 *)
Selects(g, s, S) ==
    /\ g[0] = <<>>
    /\ \A k \in 1 .. Len(s) : g[k] = IF s[k] \in S THEN Append(g[k - 1], s[k]) ELSE g[k - 1]

(* Selected goes through the sequence in steps.                            *)
LEMMA SelectedSteps ==
    ASSUME NEW T, NEW s \in Seq(T), NEW S
    PROVE  \E g \in [0 .. Len(s) -> Seq(T \cap S)] :
              Selects(g, s, S) /\ Selected(s, S) = g[Len(s)]
<1> DEFINE n == Len(s)
           V == Seq(T \cap S)
           f == [k \in 1 .. n |-> [a \in V |-> IF s[k] \in S THEN Append(a, s[k]) ELSE a]]
<1>1. n \in Nat /\ <<>> \in V /\ \A k \in 1 .. n : s[k] \in T
  OBVIOUS
<1>2. ASSUME NEW k \in 1 .. n, NEW a \in V
      PROVE  (IF s[k] \in S THEN Append(a, s[k]) ELSE a) \in V
  BY <1>1
<1> HIDE DEF n, V
<1>3. f \in [1 .. n -> [V -> V]]
  BY <1>2
<1>4. \A k \in 1 .. n : \A a \in V : f[k][a] = IF s[k] \in S THEN Append(a, s[k]) ELSE a
  OBVIOUS
<1> HIDE DEF f
<1>5. PICK g \in [0 .. n -> V] : Steps(g, <<>>, f, n)
  BY <1>1, <1>3, StepsExist
<1>6. g[0] = <<>> /\ \A k \in 1 .. n : g[k] = f[k][g[k - 1]]
  BY <1>5 DEF Steps
<1>7. ASSUME NEW k \in 1 .. n
      PROVE  g[k] = IF s[k] \in S THEN Append(g[k - 1], s[k]) ELSE g[k - 1]
  <2>1. k - 1 \in 0 .. n
    BY <1>1
  <2>2. g[k - 1] \in V
    BY <1>5, <2>1
  <2> QED BY <1>4, <1>6, <2>2
<1>8. g = [k \in 0 .. n |-> IF k = 0 THEN <<>>
                            ELSE IF s[k] \in S THEN Append(g[k - 1], s[k]) ELSE g[k - 1]]
  <2>1. ASSUME NEW k \in 0 .. n
        PROVE  g[k] = IF k = 0 THEN <<>>
                      ELSE IF s[k] \in S THEN Append(g[k - 1], s[k]) ELSE g[k - 1]
    <3>1. k = 0 \/ k \in 1 .. n
      BY <1>1
    <3> QED BY <1>6, <1>7, <3>1
  <2> QED BY <1>5, <2>1
<1> DEFINE after == CHOOSE after :
               after = [k \in 0 .. n |-> IF k = 0 THEN <<>>
                            ELSE IF s[k] \in S THEN Append(after[k - 1], s[k]) ELSE after[k - 1]]
<1>9. after = [k \in 0 .. n |-> IF k = 0 THEN <<>>
                  ELSE IF s[k] \in S THEN Append(after[k - 1], s[k]) ELSE after[k - 1]]
  BY <1>8
<1>10. Selected(s, S) = after[n]
  BY DEF Selected, Loop, n
<1> HIDE DEF after
<1>11. after[0] = <<>>
  BY <1>1, <1>9
<1>12. ASSUME NEW k \in 1 .. n
       PROVE  after[k] = IF s[k] \in S THEN Append(after[k - 1], s[k]) ELSE after[k - 1]
  <2>1. k \in 0 .. n /\ k # 0
    BY <1>1
  <2>2. after[k] = IF k = 0 THEN <<>>
                   ELSE IF s[k] \in S THEN Append(after[k - 1], s[k]) ELSE after[k - 1]
    BY <1>9, <2>1, Zenon
  <2> QED BY <2>1, <2>2
<1>13. \A k \in 0 .. n : k \in {j \in 0 .. n : after[j] = g[j]}
  <2> DEFINE D == {j \in 0 .. n : after[j] = g[j]}
  <2>1. 0 \in D
    BY <1>1, <1>6, <1>11
  <2>2. ASSUME NEW k \in 0 .. n - 1, k \in D PROVE k + 1 \in D
    <3>1. k + 1 \in 1 .. n /\ (k + 1) - 1 = k /\ after[k] = g[k] /\ k + 1 \in 0 .. n
      BY <1>1, <2>2
    <3>2. after[k + 1] = g[k + 1]
      BY <1>7, <1>12, <3>1
    <3> QED BY <3>1, <3>2
  <2> HIDE DEF D
  <2>3. \A k \in 0 .. n : k \in D
    BY <1>1, <2>1, <2>2, UpTo
  <2> QED BY <2>3 DEF D
<1>14. after[n] = g[n]
  <2>1. n \in 0 .. n
    BY <1>1
  <2> QED BY <1>13, <2>1
<1>15. Selects(g, s, S)
  BY <1>6, <1>7 DEF Selects, n
<1>16. Selected(s, S) = g[Len(s)]
  BY <1>10, <1>14 DEF n
<1>17. g \in [0 .. Len(s) -> Seq(T \cap S)]
  BY <1>5 DEF n, V
<1> QED BY <1>15, <1>16, <1>17

(* Selected returns a sequence of selected elements.                       *)
LEMMA SelectedType ==
    ASSUME NEW T, NEW s \in Seq(T), NEW S
    PROVE  Selected(s, S) \in Seq(T \cap S)
<1>1. PICK g \in [0 .. Len(s) -> Seq(T \cap S)] : Selected(s, S) = g[Len(s)]
  BY SelectedSteps
<1>2. Len(s) \in 0 .. Len(s)
  OBVIOUS
<1> QED BY <1>1, <1>2

(* Of nothing, nothing is selected.                                        *)
LEMMA SelectedNone ==
    ASSUME NEW S
    PROVE  Selected(<<>>, S) = <<>>
<1>1. <<>> \in Seq({}) /\ Len(<<>>) = 0
  OBVIOUS
<1>2. PICK g \in [0 .. Len(<<>>) -> Seq({} \cap S)] :
         Selects(g, <<>>, S) /\ Selected(<<>>, S) = g[Len(<<>>)]
  BY <1>1, SelectedSteps
<1> QED BY <1>1, <1>2 DEF Selects

(* One element more is appended if it is selected.                         *)
LEMMA SelectedOne ==
    ASSUME NEW T, NEW s \in Seq(T), NEW e \in T, NEW S
    PROVE  Selected(Append(s, e), S)
              = IF e \in S THEN Append(Selected(s, S), e) ELSE Selected(s, S)
<1> DEFINE n == Len(s)
           t == Append(s, e)
<1>1. n \in Nat /\ t \in Seq(T) /\ Len(t) = n + 1 /\ t[n + 1] = e
      /\ \A k \in 1 .. n : t[k] = s[k]
  OBVIOUS
<1>2. PICK g \in [0 .. Len(s) -> Seq(T \cap S)] : Selects(g, s, S) /\ Selected(s, S) = g[Len(s)]
  BY SelectedSteps
<1> HIDE DEF t
<1>3. PICK h \in [0 .. Len(t) -> Seq(T \cap S)] : Selects(h, t, S) /\ Selected(t, S) = h[Len(t)]
  BY <1>1, SelectedSteps
<1>4. /\ g[0] = <<>> /\ h[0] = <<>>
      /\ \A k \in 1 .. n : g[k] = IF s[k] \in S THEN Append(g[k - 1], s[k]) ELSE g[k - 1]
      /\ \A k \in 1 .. n + 1 : h[k] = IF t[k] \in S THEN Append(h[k - 1], t[k]) ELSE h[k - 1]
  BY <1>1, <1>2, <1>3 DEF Selects
<1> HIDE DEF n
<1> DEFINE D == {j \in 0 .. n : h[j] = g[j]}
<1>5. 0 \in D
  BY <1>1, <1>4
<1>6. ASSUME NEW k \in 0 .. n - 1, k \in D PROVE k + 1 \in D
  <2>1. k + 1 \in 1 .. n /\ k + 1 \in 1 .. n + 1 /\ (k + 1) - 1 = k /\ h[k] = g[k]
          /\ k + 1 \in 0 .. n
    BY <1>1, <1>6
  <2>2. t[k + 1] = s[k + 1]
    BY <1>1, <2>1
  <2>3. h[k + 1] = g[k + 1]
    BY <1>4, <2>1, <2>2
  <2> QED BY <2>1, <2>3
<1> HIDE DEF D
<1>7. \A k \in 0 .. n : k \in D
  BY <1>1, <1>5, <1>6, UpTo
<1>8. h[n] = g[n]
  <2>1. n \in D
    BY <1>1, <1>7
  <2> QED BY <2>1 DEF D
<1>9. h[n + 1] = IF e \in S THEN Append(h[n], e) ELSE h[n]
  <2>1. n + 1 \in 1 .. n + 1 /\ (n + 1) - 1 = n
    BY <1>1
  <2> QED BY <1>1, <1>4, <2>1
<1>10. Selected(s, S) = g[n] /\ Selected(t, S) = h[n + 1]
  BY <1>1, <1>2, <1>3 DEF n
<1>11. Selected(t, S) = IF e \in S THEN Append(Selected(s, S), e) ELSE Selected(s, S)
  BY <1>8, <1>9, <1>10
<1> QED BY <1>11 DEF t

(* What is selected of elements that are all to be selected.               *)
LEMMA SelectedAll ==
    ASSUME NEW S, NEW s \in Seq(S)
    PROVE  Selected(s, S) = s
<1> DEFINE n == Len(s)
<1>1. n \in Nat /\ \A k \in 1 .. n : s[k] \in S
  OBVIOUS
<1>2. PICK g \in [0 .. n -> Seq(S)] : Selects(g, s, S) /\ Selected(s, S) = g[n]
  <2>1. S \cap S = S
    OBVIOUS
  <2>2. \E g \in [0 .. Len(s) -> Seq(S \cap S)] : Selects(g, s, S) /\ Selected(s, S) = g[Len(s)]
    BY SelectedSteps
  <2> QED BY <2>1, <2>2
<1>3. g[0] = <<>> /\ \A k \in 1 .. n : g[k] = Append(g[k - 1], s[k])
  BY <1>1, <1>2 DEF Selects
<1> HIDE DEF n
<1> DEFINE D == {j \in 0 .. n : Len(g[j]) = j /\ \A k \in 1 .. j : g[j][k] = s[k]}
<1>4. 0 \in D
  BY <1>1, <1>3
<1>5. ASSUME NEW k \in 0 .. n - 1, k \in D PROVE k + 1 \in D
  <2>1. /\ k + 1 \in 1 .. n /\ k + 1 \in 0 .. n /\ (k + 1) - 1 = k /\ k \in 0 .. n
        /\ Len(g[k]) = k /\ \A j \in 1 .. k : g[k][j] = s[j]
    BY <1>1, <1>5
  <2>2. g[k + 1] = Append(g[k], s[k + 1]) /\ g[k] \in Seq(S) /\ s[k + 1] \in S
    BY <1>1, <1>2, <1>3, <2>1
  <2>3. /\ Len(g[k + 1]) = k + 1 /\ g[k + 1][k + 1] = s[k + 1]
        /\ \A j \in 1 .. k : g[k + 1][j] = g[k][j]
    BY <2>1, <2>2
  <2>4. ASSUME NEW j \in 1 .. k + 1 PROVE g[k + 1][j] = s[j]
    <3>1. j = k + 1 \/ j \in 1 .. k
      OBVIOUS
    <3> QED BY <2>1, <2>3, <3>1
  <2> QED BY <2>1, <2>3, <2>4
<1> HIDE DEF D
<1>6. \A k \in 0 .. n : k \in D
  BY <1>1, <1>4, <1>5, UpTo
<1>7. /\ g[n] \in Seq(S) /\ Len(g[n]) = Len(s) /\ \A k \in 1 .. Len(s) : g[n][k] = s[k]
  <2>1. n \in 0 .. n /\ n \in D
    BY <1>1, <1>6
  <2> QED BY <1>2, <2>1 DEF D, n
<1>8. g[n] = s
  BY <1>7, SeqEqual
<1> QED BY <1>2, <1>8

---------------------------------------------------------------------------
(* Checksums: words of 16 bits and their bits.                             *)

(* Numbers of 16 bits, and their bits from the lowest on.                  *)
Word16 == {x \in Nat : x < 65536}
Bits16 == [0 .. 15 -> 0 .. 1]
FourBits == 0 .. 15
Four(a, b, c, d) == a + 2 * b + 4 * c + 8 * d
Value(v) ==
    Four(v[0], v[1], v[2], v[3]) + 16 * Four(v[4], v[5], v[6], v[7])
    + 256 * Four(v[8], v[9], v[10], v[11]) + 4096 * Four(v[12], v[13], v[14], v[15])

Lowest(x, b, c, d, e, a) == x = Four(b, c, d, e) + 16 * a

(* Four bits are a number below 16.                                        *)
LEMMA FourType ==
    ASSUME NEW b \in 0 .. 1, NEW c \in 0 .. 1, NEW d \in 0 .. 1, NEW e \in 0 .. 1
    PROVE  Four(b, c, d, e) \in FourBits
  BY DEF Four, FourBits

(* Four bits of a longer number.                                           *)
LEMMA FourIs ==
    ASSUME NEW b \in 0 .. 1, NEW c \in 0 .. 1, NEW d \in 0 .. 1, NEW e \in 0 .. 1, NEW a \in Nat,
           NEW x, Lowest(x, b, c, d, e, a)
    PROVE  /\ x \in Nat /\ x \div 16 = a
           /\ \E h \in Nat : x \div 1 = b + 2 * h
           /\ \E h \in Nat : x \div 2 = c + 2 * h
           /\ \E h \in Nat : x \div 4 = d + 2 * h
           /\ \E h \in Nat : x \div 8 = e + 2 * h
<1>1. x = b + 2 * c + 4 * d + 8 * e + 16 * a
  BY DEF Four, Lowest
<1>2. /\ x \div 1 = b + 2 * (c + 2 * d + 4 * e + 8 * a)
      /\ x \div 2 = c + 2 * (d + 2 * e + 4 * a)
      /\ x \div 4 = d + 2 * (e + 2 * a)
      /\ x \div 8 = e + 2 * a /\ x \div 16 = a /\ x \in Nat
  BY <1>1
<1>3. /\ c + 2 * d + 4 * e + 8 * a \in Nat /\ d + 2 * e + 4 * a \in Nat /\ e + 2 * a \in Nat
  OBVIOUS
<1> QED BY <1>2, <1>3

(* The lowest four bits of a number.                                       *)
LEMMA FourOf ==
    ASSUME NEW x \in Nat
    PROVE  /\ x % 2 \in 0 .. 1 /\ (x \div 2) % 2 \in 0 .. 1 /\ (x \div 4) % 2 \in 0 .. 1
           /\ (x \div 8) % 2 \in 0 .. 1 /\ x \div 16 \in Nat
           /\ Lowest(x, x % 2, (x \div 2) % 2, (x \div 4) % 2, (x \div 8) % 2, x \div 16)
<1>1. /\ x % 2 \in 0 .. 1 /\ (x \div 2) % 2 \in 0 .. 1 /\ (x \div 4) % 2 \in 0 .. 1
      /\ (x \div 8) % 2 \in 0 .. 1 /\ x \div 16 \in Nat /\ x \div 2 \in Nat /\ x \div 4 \in Nat
           /\ x \div 8 \in Nat
  OBVIOUS
<1>2. /\ x = (x % 2) + 2 * (x \div 2) /\ x \div 2 = ((x \div 2) % 2) + 2 * (x \div 4)
      /\ x \div 4 = ((x \div 4) % 2) + 2 * (x \div 8)
           /\ x \div 8 = ((x \div 8) % 2) + 2 * (x \div 16)
  OBVIOUS
<1> QED BY <1>1, <1>2 DEF Four, Lowest

(* The sixteen bits of a word.                                             *)
LEMMA BitType ==
    ASSUME NEW v \in Bits16
    PROVE  /\ v[0] \in 0 .. 1 /\ v[1] \in 0 .. 1 /\ v[2] \in 0 .. 1 /\ v[3] \in 0 .. 1
           /\ v[4] \in 0 .. 1 /\ v[5] \in 0 .. 1 /\ v[6] \in 0 .. 1 /\ v[7] \in 0 .. 1
           /\ v[8] \in 0 .. 1 /\ v[9] \in 0 .. 1 /\ v[10] \in 0 .. 1 /\ v[11] \in 0 .. 1
           /\ v[12] \in 0 .. 1 /\ v[13] \in 0 .. 1 /\ v[14] \in 0 .. 1 /\ v[15] \in 0 .. 1
  BY DEF Bits16

(* The parts of a number of 16 bits, four bits each.                        *)
IsParts(v, a, b, c, d) ==
    /\ Lowest(d, v[12], v[13], v[14], v[15], 0)
    /\ Lowest(c, v[8], v[9], v[10], v[11], d)
    /\ Lowest(b, v[4], v[5], v[6], v[7], c)
    /\ Lowest(a, v[0], v[1], v[2], v[3], b)

Above(x, k, a) == x = k + 16 * a

(* Four parts of four bits, each above the next, make one number.          *)
LEMMA PartsSum ==
    ASSUME NEW k \in FourBits, NEW l \in FourBits, NEW m \in FourBits, NEW n \in FourBits,
           NEW d, NEW c, NEW b, NEW a,
           Above(d, n, 0), Above(c, m, d), Above(b, l, c), Above(a, k, b)
    PROVE  /\ d \in Nat /\ c \in Nat /\ b \in Nat /\ a \in Nat
           /\ d < 16 /\ c < 256 /\ b < 4096 /\ a < 65536
           /\ a = k + 16 * l + 256 * m + 4096 * n
<1>1. d = n
  BY DEF Above, FourBits
<1>2. c = m + 16 * n
  BY <1>1 DEF Above, FourBits
<1>3. b = l + 16 * m + 256 * n
  BY <1>2 DEF Above, FourBits
<1>4. a = k + 16 * l + 256 * m + 4096 * n
  BY <1>3 DEF Above, FourBits
<1>5. /\ m + 16 * n \in Nat /\ l + 16 * m + 256 * n \in Nat
      /\ k + 16 * l + 256 * m + 4096 * n \in Nat
      /\ n < 16 /\ m + 16 * n < 256 /\ l + 16 * m + 256 * n < 4096
      /\ k + 16 * l + 256 * m + 4096 * n < 65536
  BY DEF FourBits
<1> QED BY <1>1, <1>2, <1>3, <1>4, <1>5 DEF FourBits

(* The value of the bits is that of their parts.                           *)
LEMMA PartsAre ==
    ASSUME NEW v \in Bits16, NEW d, NEW c, NEW b, NEW a, IsParts(v, a, b, c, d)
    PROVE  /\ d \in Nat /\ c \in Nat /\ b \in Nat /\ a \in Word16
           /\ Value(v) = a
<1> DEFINE k == Four(v[0], v[1], v[2], v[3])
           l == Four(v[4], v[5], v[6], v[7])
           m == Four(v[8], v[9], v[10], v[11])
           n == Four(v[12], v[13], v[14], v[15])
<1>1. k \in FourBits /\ l \in FourBits /\ m \in FourBits /\ n \in FourBits
  BY BitType, FourType
<1>2. Above(d, n, 0) /\ Above(c, m, d) /\ Above(b, l, c) /\ Above(a, k, b)
  BY DEF IsParts, Lowest, Above
<1>3. Value(v) = k + 16 * l + 256 * m + 4096 * n
  BY DEF Value
<1> HIDE DEF k, l, m, n
<1>4. /\ d \in Nat /\ c \in Nat /\ b \in Nat /\ a \in Nat
      /\ d < 16 /\ c < 256 /\ b < 4096 /\ a < 65536
      /\ a = k + 16 * l + 256 * m + 4096 * n
  BY <1>1, <1>2, PartsSum
<1>5. Value(v) = a
  BY <1>3, <1>4
<1> QED BY <1>4, <1>5 DEF Word16

(* Bits have parts.                                                        *)
LEMMA PartsExist ==
    ASSUME NEW v \in Bits16
    PROVE  \E a, b, c, d : IsParts(v, a, b, c, d)
<1> DEFINE d == Four(v[12], v[13], v[14], v[15]) + 16 * 0
           c == Four(v[8], v[9], v[10], v[11]) + 16 * d
           b == Four(v[4], v[5], v[6], v[7]) + 16 * c
           a == Four(v[0], v[1], v[2], v[3]) + 16 * b
<1>1. IsParts(v, a, b, c, d)
  BY DEF IsParts, Lowest
<1> QED BY <1>1

(* The value of sixteen bits is a word.                                    *)
LEMMA ValueType ==
    ASSUME NEW v \in Bits16
    PROVE  Value(v) \in Word16
<1>1. PICK a, b, c, d : IsParts(v, a, b, c, d)
  BY PartsExist
<1> QED BY <1>1, PartsAre

(* Every number of 16 bits has its bits.                                   *)
LEMMA BitsExist ==
    ASSUME NEW a \in Word16
    PROVE  \E v \in Bits16 : a = Value(v)
<1>1. a \in Nat
  BY DEF Word16
<1>2. PICK b \in Nat : b = a \div 16
  BY <1>1
<1>3. PICK c \in Nat : c = b \div 16
  BY <1>2
<1>4. PICK d \in Nat : d = c \div 16
  BY <1>3
<1>5. d \div 16 = 0
  <2>1. b < 4096
    BY <1>2 DEF Word16
  <2>2. c < 256
    BY <1>3, <2>1
  <2> QED BY <1>4, <2>2
<1> DEFINE q == <<a % 2, (a \div 2) % 2, (a \div 4) % 2, (a \div 8) % 2,
                  b % 2, (b \div 2) % 2, (b \div 4) % 2, (b \div 8) % 2,
                  c % 2, (c \div 2) % 2, (c \div 4) % 2, (c \div 8) % 2,
                  d % 2, (d \div 2) % 2, (d \div 4) % 2, (d \div 8) % 2>>
           v == [i \in 0 .. 15 |-> q[i + 1]]
<1>6. /\ v[0] = a % 2
      /\ v[1] = (a \div 2) % 2
      /\ v[2] = (a \div 4) % 2
      /\ v[3] = (a \div 8) % 2
      /\ v[4] = b % 2
      /\ v[5] = (b \div 2) % 2
      /\ v[6] = (b \div 4) % 2
      /\ v[7] = (b \div 8) % 2
      /\ v[8] = c % 2
      /\ v[9] = (c \div 2) % 2
      /\ v[10] = (c \div 4) % 2
      /\ v[11] = (c \div 8) % 2
      /\ v[12] = d % 2
      /\ v[13] = (d \div 2) % 2
      /\ v[14] = (d \div 4) % 2
      /\ v[15] = (d \div 8) % 2
  OBVIOUS
<1> HIDE DEF q
<1>7. v \in Bits16
  <2>1. ASSUME NEW i \in 0 .. 15 PROVE q[i + 1] \in 0 .. 1
    BY <1>1, <1>2, <1>3, <1>4 DEF q
  <2> QED BY <2>1 DEF Bits16
<1> HIDE DEF v
<1>8. IsParts(v, a, b, c, d)
  <2>1. Lowest(a, v[0], v[1], v[2], v[3], b)
    <3>1. Lowest(a, a % 2, (a \div 2) % 2, (a \div 4) % 2, (a \div 8) % 2, a \div 16)
      BY <1>1, <1>2, <1>3, <1>4, FourOf
    <3> QED BY <1>2, <1>3, <1>4, <1>5, <1>6, <3>1
  <2>2. Lowest(b, v[4], v[5], v[6], v[7], c)
    <3>1. Lowest(b, b % 2, (b \div 2) % 2, (b \div 4) % 2, (b \div 8) % 2, b \div 16)
      BY <1>1, <1>2, <1>3, <1>4, FourOf
    <3> QED BY <1>2, <1>3, <1>4, <1>5, <1>6, <3>1
  <2>3. Lowest(c, v[8], v[9], v[10], v[11], d)
    <3>1. Lowest(c, c % 2, (c \div 2) % 2, (c \div 4) % 2, (c \div 8) % 2, c \div 16)
      BY <1>1, <1>2, <1>3, <1>4, FourOf
    <3> QED BY <1>2, <1>3, <1>4, <1>5, <1>6, <3>1
  <2>4. Lowest(d, v[12], v[13], v[14], v[15], 0)
    <3>1. Lowest(d, d % 2, (d \div 2) % 2, (d \div 4) % 2, (d \div 8) % 2, d \div 16)
      BY <1>1, <1>2, <1>3, <1>4, FourOf
    <3> QED BY <1>2, <1>3, <1>4, <1>5, <1>6, <3>1
  <2> QED BY <2>1, <2>2, <2>3, <2>4 DEF IsParts
<1> QED BY <1>7, <1>8, PartsAre

(* A division by 16 and another is one division.                           *)
LEMMA Further ==
    ASSUME NEW a \in Nat, NEW b \in Nat, a \div 16 = b
    PROVE  /\ a \div 16 = b \div 1 /\ a \div 32 = b \div 2 /\ a \div 64 = b \div 4
             /\ a \div 128 = b \div 8
           /\ a \div 256 = b \div 16 /\ a \div 512 = b \div 32 /\ a \div 1024 = b \div 64
                /\ a \div 2048 = b \div 128
           /\ a \div 4096 = b \div 256 /\ a \div 8192 = b \div 512 /\ a \div 16384 = b \div 1024
                /\ a \div 32768 = b \div 2048
<1>1. /\ a \div 16 = b \div 1 /\ a \div 32 = b \div 2 /\ a \div 64 = b \div 4
           /\ a \div 128 = b \div 8
  OBVIOUS
<1>2. /\ a \div 256 = b \div 16 /\ a \div 512 = b \div 32 /\ a \div 1024 = b \div 64
           /\ a \div 2048 = b \div 128
  OBVIOUS
<1>3. /\ a \div 4096 = b \div 256 /\ a \div 8192 = b \div 512 /\ a \div 16384 = b \div 1024
           /\ a \div 32768 = b \div 2048
  OBVIOUS
<1> QED BY <1>1, <1>2, <1>3

(* Division by a power of two brings a bit to the lowest place.            *)
LEMMA DivIs ==
    ASSUME NEW v \in Bits16
    PROVE  /\ \E h \in Nat : Value(v) \div 1 = v[0] + 2 * h
           /\ \E h \in Nat : Value(v) \div 2 = v[1] + 2 * h
           /\ \E h \in Nat : Value(v) \div 4 = v[2] + 2 * h
           /\ \E h \in Nat : Value(v) \div 8 = v[3] + 2 * h
           /\ \E h \in Nat : Value(v) \div 16 = v[4] + 2 * h
           /\ \E h \in Nat : Value(v) \div 32 = v[5] + 2 * h
           /\ \E h \in Nat : Value(v) \div 64 = v[6] + 2 * h
           /\ \E h \in Nat : Value(v) \div 128 = v[7] + 2 * h
           /\ \E h \in Nat : Value(v) \div 256 = v[8] + 2 * h
           /\ \E h \in Nat : Value(v) \div 512 = v[9] + 2 * h
           /\ \E h \in Nat : Value(v) \div 1024 = v[10] + 2 * h
           /\ \E h \in Nat : Value(v) \div 2048 = v[11] + 2 * h
           /\ \E h \in Nat : Value(v) \div 4096 = v[12] + 2 * h
           /\ \E h \in Nat : Value(v) \div 8192 = v[13] + 2 * h
           /\ \E h \in Nat : Value(v) \div 16384 = v[14] + 2 * h
           /\ \E h \in Nat : Value(v) \div 32768 = v[15] + 2 * h
<1>1. PICK a, b, c, d : IsParts(v, a, b, c, d)
  BY PartsExist
<1>2. /\ d \in Nat /\ c \in Nat /\ b \in Nat /\ a \in Nat /\ 0 \in Nat
      /\ Value(v) = a
  BY <1>1, PartsAre DEF Word16
<1>3. /\ a \div 16 = b
      /\ \E h \in Nat : a \div 1 = v[0] + 2 * h
      /\ \E h \in Nat : a \div 2 = v[1] + 2 * h
      /\ \E h \in Nat : a \div 4 = v[2] + 2 * h
      /\ \E h \in Nat : a \div 8 = v[3] + 2 * h
  <2>1. Lowest(a, v[0], v[1], v[2], v[3], b)
    BY <1>1 DEF IsParts
  <2>2. v[0] \in 0 .. 1 /\ v[1] \in 0 .. 1 /\ v[2] \in 0 .. 1 /\ v[3] \in 0 .. 1
    BY BitType
  <2> QED BY <1>2, <2>1, <2>2, FourIs
<1>4. /\ b \div 16 = c
      /\ \E h \in Nat : b \div 1 = v[4] + 2 * h
      /\ \E h \in Nat : b \div 2 = v[5] + 2 * h
      /\ \E h \in Nat : b \div 4 = v[6] + 2 * h
      /\ \E h \in Nat : b \div 8 = v[7] + 2 * h
  <2>1. Lowest(b, v[4], v[5], v[6], v[7], c)
    BY <1>1 DEF IsParts
  <2>2. v[4] \in 0 .. 1 /\ v[5] \in 0 .. 1 /\ v[6] \in 0 .. 1 /\ v[7] \in 0 .. 1
    BY BitType
  <2> QED BY <1>2, <2>1, <2>2, FourIs
<1>5. /\ c \div 16 = d
      /\ \E h \in Nat : c \div 1 = v[8] + 2 * h
      /\ \E h \in Nat : c \div 2 = v[9] + 2 * h
      /\ \E h \in Nat : c \div 4 = v[10] + 2 * h
      /\ \E h \in Nat : c \div 8 = v[11] + 2 * h
  <2>1. Lowest(c, v[8], v[9], v[10], v[11], d)
    BY <1>1 DEF IsParts
  <2>2. v[8] \in 0 .. 1 /\ v[9] \in 0 .. 1 /\ v[10] \in 0 .. 1 /\ v[11] \in 0 .. 1
    BY BitType
  <2> QED BY <1>2, <2>1, <2>2, FourIs
<1>6. /\ d \div 16 = 0
      /\ \E h \in Nat : d \div 1 = v[12] + 2 * h
      /\ \E h \in Nat : d \div 2 = v[13] + 2 * h
      /\ \E h \in Nat : d \div 4 = v[14] + 2 * h
      /\ \E h \in Nat : d \div 8 = v[15] + 2 * h
  <2>1. Lowest(d, v[12], v[13], v[14], v[15], 0)
    BY <1>1 DEF IsParts
  <2>2. v[12] \in 0 .. 1 /\ v[13] \in 0 .. 1 /\ v[14] \in 0 .. 1 /\ v[15] \in 0 .. 1
    BY BitType
  <2> QED BY <1>2, <2>1, <2>2, FourIs
<1>7. /\ a \div 16 = b \div 1 /\ a \div 32 = b \div 2 /\ a \div 64 = b \div 4
           /\ a \div 128 = b \div 8
      /\ b \div 16 = c \div 1 /\ b \div 32 = c \div 2 /\ b \div 64 = c \div 4
           /\ b \div 128 = c \div 8
      /\ c \div 16 = d \div 1 /\ c \div 32 = d \div 2 /\ c \div 64 = d \div 4
           /\ c \div 128 = d \div 8
  <2>1. a \div 16 = b /\ b \div 16 = c /\ c \div 16 = d
    BY <1>3, <1>4, <1>5
  <2> QED BY <1>2, <2>1, Further
<1>8. /\ a \div 256 = b \div 16 /\ a \div 512 = b \div 32 /\ a \div 1024 = b \div 64
           /\ a \div 2048 = b \div 128
      /\ b \div 256 = c \div 16 /\ b \div 512 = c \div 32 /\ b \div 1024 = c \div 64
           /\ b \div 2048 = c \div 128
      /\ a \div 4096 = b \div 256 /\ a \div 8192 = b \div 512 /\ a \div 16384 = b \div 1024
           /\ a \div 32768 = b \div 2048
  <2>1. a \div 16 = b /\ b \div 16 = c
    BY <1>3, <1>4
  <2> QED BY <1>2, <2>1, Further
<1> HIDE DEF Value
<1> QED BY <1>2, <1>3, <1>4, <1>5, <1>6, <1>7, <1>8

(* The number of sixteen bits.                                             *)
Weighted(b0, b1, b2, b3, b4, b5, b6, b7, b8, b9, b10, b11, b12, b13, b14, b15) ==
    1 * b0 + 2 * b1 + 4 * b2 + 8 * b3 + 16 * b4 + 32 * b5 + 64 * b6 + 128 * b7
    + 256 * b8 + 512 * b9 + 1024 * b10 + 2048 * b11 + 4096 * b12 + 8192 * b13
    + 16384 * b14 + 32768 * b15

AllBits(b0, b1, b2, b3, b4, b5, b6, b7, b8, b9, b10, b11, b12, b13, b14, b15) ==
    /\ b0 \in 0 .. 1 /\ b1 \in 0 .. 1 /\ b2 \in 0 .. 1 /\ b3 \in 0 .. 1 /\ b4 \in 0 .. 1
         /\ b5 \in 0 .. 1 /\ b6 \in 0 .. 1 /\ b7 \in 0 .. 1
    /\ b8 \in 0 .. 1 /\ b9 \in 0 .. 1 /\ b10 \in 0 .. 1 /\ b11 \in 0 .. 1 /\ b12 \in 0 .. 1
         /\ b13 \in 0 .. 1 /\ b14 \in 0 .. 1 /\ b15 \in 0 .. 1

(* Sums of weighted bits: in parts, with a lowest bit, doubled.            *)
LEMMA WeightedIs ==
    ASSUME NEW b0, NEW b1, NEW b2, NEW b3, NEW b4, NEW b5, NEW b6, NEW b7,
           NEW b8, NEW b9, NEW b10, NEW b11, NEW b12, NEW b13, NEW b14, NEW b15,
           AllBits(b0, b1, b2, b3, b4, b5, b6, b7, b8, b9, b10, b11, b12, b13, b14, b15),
             NEW c \in 0 .. 1
    PROVE  /\ Four(b0, b1, b2, b3) + 16 * Four(b4, b5, b6, b7) + 256 * Four(b8, b9, b10, b11)
                + 4096 * Four(b12, b13, b14, b15)
              = Weighted(b0, b1, b2, b3, b4, b5, b6, b7, b8, b9, b10, b11, b12, b13, b14, b15)
           /\ Weighted(c, b0, b1, b2, b3, b4, b5, b6, b7, b8, b9, b10, b11, b12, b13, b14)
              = Weighted(0, b0, b1, b2, b3, b4, b5, b6, b7, b8, b9, b10, b11, b12, b13, b14) + c
           /\ 2 * Weighted(b0, b1, b2, b3, b4, b5, b6, b7, b8, b9, b10, b11, b12, b13, b14, b15)
              = Weighted(0, b0, b1, b2, b3, b4, b5, b6, b7, b8, b9, b10, b11, b12, b13,
                b14) + 65536 * b15
  BY DEF Weighted, Four, AllBits

(* The value of the bits as one sum.                                       *)
LEMMA ValueIs ==
    ASSUME NEW v \in Bits16
    PROVE  Value(v) = Weighted(v[0], v[1], v[2], v[3], v[4], v[5], v[6], v[7], v[8], v[9], v[10],
             v[11], v[12], v[13], v[14], v[15])
<1>1. /\ AllBits(v[0], v[1], v[2], v[3], v[4], v[5], v[6], v[7], v[8], v[9], v[10], v[11], v[12],
           v[13], v[14], v[15])
      /\ 0 \in 0 .. 1
  BY BitType DEF AllBits
<1> QED BY <1>1, WeightedIs DEF Value

(* The bits of an exclusive or.                                            *)
Added(u, v) == [i \in 0 .. 15 |-> (u[i] + v[i]) % 2]

(* Bits added are bits.                                                    *)
LEMMA AddedType ==
    ASSUME NEW u \in Bits16, NEW v \in Bits16
    PROVE  Added(u, v) \in Bits16 /\ \A i \in 0 .. 15 : Added(u, v)[i] = (u[i] + v[i]) % 2
<1>1. \A i \in 0 .. 15 : u[i] \in 0 .. 1 /\ v[i] \in 0 .. 1
  BY DEF Bits16
<1>2. \A b, c \in 0 .. 1 : (b + c) % 2 \in 0 .. 1
  OBVIOUS
<1> QED BY <1>1, <1>2 DEF Bits16, Added

(* The lowest bit of a sum of two numbers.                                 *)
LEMMA LowestOfSum ==
    ASSUME NEW b \in 0 .. 1, NEW c \in 0 .. 1, NEW x, NEW y,
           \E h \in Nat : x = b + 2 * h, \E h \in Nat : y = c + 2 * h
    PROVE  (x + y) % 2 = (b + c) % 2
<1>1. PICK h \in Nat : x = b + 2 * h
  OBVIOUS
<1>2. PICK k \in Nat : y = c + 2 * k
  OBVIOUS
<1> QED BY <1>1, <1>2

(* Xor adds the bits, each without carrying.                               *)
LEMMA XorValue ==
    ASSUME NEW u \in Bits16, NEW v \in Bits16
    PROVE  Xor(Value(u), Value(v)) = Value(Added(u, v))
<1> DEFINE z == Added(u, v)
<1>1. z \in Bits16 /\ \A i \in 0 .. 15 : z[i] = (u[i] + v[i]) % 2
  BY AddedType
<1> HIDE DEF z
<1>2. PICK x : x = Value(u)
  OBVIOUS
<1>3. PICK y : y = Value(v)
  OBVIOUS
<1>4. ((x \div 1) + (y \div 1)) % 2 = z[0]
  <2>1. \E h \in Nat : x \div 1 = u[0] + 2 * h
    BY <1>2, DivIs
  <2>2. \E h \in Nat : y \div 1 = v[0] + 2 * h
    BY <1>3, DivIs
  <2>3. u[0] \in 0 .. 1 /\ v[0] \in 0 .. 1
    BY BitType
  <2>4. z[0] = (u[0] + v[0]) % 2
    BY <1>1
  <2> QED BY <2>1, <2>2, <2>3, <2>4, LowestOfSum
<1>5. ((x \div 2) + (y \div 2)) % 2 = z[1]
  <2>1. \E h \in Nat : x \div 2 = u[1] + 2 * h
    BY <1>2, DivIs
  <2>2. \E h \in Nat : y \div 2 = v[1] + 2 * h
    BY <1>3, DivIs
  <2>3. u[1] \in 0 .. 1 /\ v[1] \in 0 .. 1
    BY BitType
  <2>4. z[1] = (u[1] + v[1]) % 2
    BY <1>1
  <2> QED BY <2>1, <2>2, <2>3, <2>4, LowestOfSum
<1>6. ((x \div 4) + (y \div 4)) % 2 = z[2]
  <2>1. \E h \in Nat : x \div 4 = u[2] + 2 * h
    BY <1>2, DivIs
  <2>2. \E h \in Nat : y \div 4 = v[2] + 2 * h
    BY <1>3, DivIs
  <2>3. u[2] \in 0 .. 1 /\ v[2] \in 0 .. 1
    BY BitType
  <2>4. z[2] = (u[2] + v[2]) % 2
    BY <1>1
  <2> QED BY <2>1, <2>2, <2>3, <2>4, LowestOfSum
<1>7. ((x \div 8) + (y \div 8)) % 2 = z[3]
  <2>1. \E h \in Nat : x \div 8 = u[3] + 2 * h
    BY <1>2, DivIs
  <2>2. \E h \in Nat : y \div 8 = v[3] + 2 * h
    BY <1>3, DivIs
  <2>3. u[3] \in 0 .. 1 /\ v[3] \in 0 .. 1
    BY BitType
  <2>4. z[3] = (u[3] + v[3]) % 2
    BY <1>1
  <2> QED BY <2>1, <2>2, <2>3, <2>4, LowestOfSum
<1>8. ((x \div 16) + (y \div 16)) % 2 = z[4]
  <2>1. \E h \in Nat : x \div 16 = u[4] + 2 * h
    BY <1>2, DivIs
  <2>2. \E h \in Nat : y \div 16 = v[4] + 2 * h
    BY <1>3, DivIs
  <2>3. u[4] \in 0 .. 1 /\ v[4] \in 0 .. 1
    BY BitType
  <2>4. z[4] = (u[4] + v[4]) % 2
    BY <1>1
  <2> QED BY <2>1, <2>2, <2>3, <2>4, LowestOfSum
<1>9. ((x \div 32) + (y \div 32)) % 2 = z[5]
  <2>1. \E h \in Nat : x \div 32 = u[5] + 2 * h
    BY <1>2, DivIs
  <2>2. \E h \in Nat : y \div 32 = v[5] + 2 * h
    BY <1>3, DivIs
  <2>3. u[5] \in 0 .. 1 /\ v[5] \in 0 .. 1
    BY BitType
  <2>4. z[5] = (u[5] + v[5]) % 2
    BY <1>1
  <2> QED BY <2>1, <2>2, <2>3, <2>4, LowestOfSum
<1>10. ((x \div 64) + (y \div 64)) % 2 = z[6]
  <2>1. \E h \in Nat : x \div 64 = u[6] + 2 * h
    BY <1>2, DivIs
  <2>2. \E h \in Nat : y \div 64 = v[6] + 2 * h
    BY <1>3, DivIs
  <2>3. u[6] \in 0 .. 1 /\ v[6] \in 0 .. 1
    BY BitType
  <2>4. z[6] = (u[6] + v[6]) % 2
    BY <1>1
  <2> QED BY <2>1, <2>2, <2>3, <2>4, LowestOfSum
<1>11. ((x \div 128) + (y \div 128)) % 2 = z[7]
  <2>1. \E h \in Nat : x \div 128 = u[7] + 2 * h
    BY <1>2, DivIs
  <2>2. \E h \in Nat : y \div 128 = v[7] + 2 * h
    BY <1>3, DivIs
  <2>3. u[7] \in 0 .. 1 /\ v[7] \in 0 .. 1
    BY BitType
  <2>4. z[7] = (u[7] + v[7]) % 2
    BY <1>1
  <2> QED BY <2>1, <2>2, <2>3, <2>4, LowestOfSum
<1>12. ((x \div 256) + (y \div 256)) % 2 = z[8]
  <2>1. \E h \in Nat : x \div 256 = u[8] + 2 * h
    BY <1>2, DivIs
  <2>2. \E h \in Nat : y \div 256 = v[8] + 2 * h
    BY <1>3, DivIs
  <2>3. u[8] \in 0 .. 1 /\ v[8] \in 0 .. 1
    BY BitType
  <2>4. z[8] = (u[8] + v[8]) % 2
    BY <1>1
  <2> QED BY <2>1, <2>2, <2>3, <2>4, LowestOfSum
<1>13. ((x \div 512) + (y \div 512)) % 2 = z[9]
  <2>1. \E h \in Nat : x \div 512 = u[9] + 2 * h
    BY <1>2, DivIs
  <2>2. \E h \in Nat : y \div 512 = v[9] + 2 * h
    BY <1>3, DivIs
  <2>3. u[9] \in 0 .. 1 /\ v[9] \in 0 .. 1
    BY BitType
  <2>4. z[9] = (u[9] + v[9]) % 2
    BY <1>1
  <2> QED BY <2>1, <2>2, <2>3, <2>4, LowestOfSum
<1>14. ((x \div 1024) + (y \div 1024)) % 2 = z[10]
  <2>1. \E h \in Nat : x \div 1024 = u[10] + 2 * h
    BY <1>2, DivIs
  <2>2. \E h \in Nat : y \div 1024 = v[10] + 2 * h
    BY <1>3, DivIs
  <2>3. u[10] \in 0 .. 1 /\ v[10] \in 0 .. 1
    BY BitType
  <2>4. z[10] = (u[10] + v[10]) % 2
    BY <1>1
  <2> QED BY <2>1, <2>2, <2>3, <2>4, LowestOfSum
<1>15. ((x \div 2048) + (y \div 2048)) % 2 = z[11]
  <2>1. \E h \in Nat : x \div 2048 = u[11] + 2 * h
    BY <1>2, DivIs
  <2>2. \E h \in Nat : y \div 2048 = v[11] + 2 * h
    BY <1>3, DivIs
  <2>3. u[11] \in 0 .. 1 /\ v[11] \in 0 .. 1
    BY BitType
  <2>4. z[11] = (u[11] + v[11]) % 2
    BY <1>1
  <2> QED BY <2>1, <2>2, <2>3, <2>4, LowestOfSum
<1>16. ((x \div 4096) + (y \div 4096)) % 2 = z[12]
  <2>1. \E h \in Nat : x \div 4096 = u[12] + 2 * h
    BY <1>2, DivIs
  <2>2. \E h \in Nat : y \div 4096 = v[12] + 2 * h
    BY <1>3, DivIs
  <2>3. u[12] \in 0 .. 1 /\ v[12] \in 0 .. 1
    BY BitType
  <2>4. z[12] = (u[12] + v[12]) % 2
    BY <1>1
  <2> QED BY <2>1, <2>2, <2>3, <2>4, LowestOfSum
<1>17. ((x \div 8192) + (y \div 8192)) % 2 = z[13]
  <2>1. \E h \in Nat : x \div 8192 = u[13] + 2 * h
    BY <1>2, DivIs
  <2>2. \E h \in Nat : y \div 8192 = v[13] + 2 * h
    BY <1>3, DivIs
  <2>3. u[13] \in 0 .. 1 /\ v[13] \in 0 .. 1
    BY BitType
  <2>4. z[13] = (u[13] + v[13]) % 2
    BY <1>1
  <2> QED BY <2>1, <2>2, <2>3, <2>4, LowestOfSum
<1>18. ((x \div 16384) + (y \div 16384)) % 2 = z[14]
  <2>1. \E h \in Nat : x \div 16384 = u[14] + 2 * h
    BY <1>2, DivIs
  <2>2. \E h \in Nat : y \div 16384 = v[14] + 2 * h
    BY <1>3, DivIs
  <2>3. u[14] \in 0 .. 1 /\ v[14] \in 0 .. 1
    BY BitType
  <2>4. z[14] = (u[14] + v[14]) % 2
    BY <1>1
  <2> QED BY <2>1, <2>2, <2>3, <2>4, LowestOfSum
<1>19. ((x \div 32768) + (y \div 32768)) % 2 = z[15]
  <2>1. \E h \in Nat : x \div 32768 = u[15] + 2 * h
    BY <1>2, DivIs
  <2>2. \E h \in Nat : y \div 32768 = v[15] + 2 * h
    BY <1>3, DivIs
  <2>3. u[15] \in 0 .. 1 /\ v[15] \in 0 .. 1
    BY BitType
  <2>4. z[15] = (u[15] + v[15]) % 2
    BY <1>1
  <2> QED BY <2>1, <2>2, <2>3, <2>4, LowestOfSum
<1>20. Xor(x, y) = Weighted(z[0], z[1], z[2], z[3], z[4], z[5], z[6], z[7], z[8], z[9], z[10],
         z[11], z[12], z[13], z[14], z[15])
  <2>1. Xor(x, y) = Weighted(
        ((x \div 1) + (y \div 1)) % 2, ((x \div 2) + (y \div 2)) % 2,
          ((x \div 4) + (y \div 4)) % 2, ((x \div 8) + (y \div 8)) % 2,
          ((x \div 16) + (y \div 16)) % 2, ((x \div 32) + (y \div 32)) % 2,
          ((x \div 64) + (y \div 64)) % 2, ((x \div 128) + (y \div 128)) % 2,
          ((x \div 256) + (y \div 256)) % 2, ((x \div 512) + (y \div 512)) % 2,
          ((x \div 1024) + (y \div 1024)) % 2, ((x \div 2048) + (y \div 2048)) % 2,
          ((x \div 4096) + (y \div 4096)) % 2, ((x \div 8192) + (y \div 8192)) % 2,
          ((x \div 16384) + (y \div 16384)) % 2, ((x \div 32768) + (y \div 32768)) % 2)
    BY DEF Xor, Weighted
  <2> QED BY <2>1, <1>4, <1>5, <1>6, <1>7, <1>8, <1>9, <1>10, <1>11, <1>12, <1>13, <1>14, <1>15,
            <1>16, <1>17, <1>18, <1>19
<1>21. Value(z) = Weighted(z[0], z[1], z[2], z[3], z[4], z[5], z[6], z[7], z[8], z[9], z[10],
         z[11], z[12], z[13], z[14], z[15])
  BY <1>1, ValueIs
<1>22. Xor(x, y) = Value(z)
  BY <1>20, <1>21
<1> QED BY <1>2, <1>3, <1>22 DEF z

(* Xor of words: a commutative group in which each is its own inverse.     *)
LEMMA XorWord ==
    ASSUME NEW a \in Word16, NEW b \in Word16
    PROVE  Xor(a, b) \in Word16 /\ Xor(a, b) = Xor(b, a)
<1>1. PICK u \in Bits16 : a = Value(u)
  BY BitsExist
<1>2. PICK v \in Bits16 : b = Value(v)
  BY BitsExist
<1>3. Added(u, v) = Added(v, u)
  <2>1. \A i \in 0 .. 15 : (u[i] + v[i]) % 2 = (v[i] + u[i]) % 2
    BY DEF Bits16
  <2> QED BY <2>1 DEF Added
<1>4. Added(u, v) \in Bits16
  BY AddedType
<1>5. Xor(a, b) = Value(Added(u, v)) /\ Xor(b, a) = Value(Added(v, u))
  BY <1>1, <1>2, XorValue
<1> QED BY <1>3, <1>4, <1>5, ValueType

(* The exclusive or is associative.                                        *)
LEMMA XorThree ==
    ASSUME NEW a \in Word16, NEW b \in Word16, NEW c \in Word16
    PROVE  Xor(Xor(a, b), c) = Xor(a, Xor(b, c))
<1>1. PICK u \in Bits16 : a = Value(u)
  BY BitsExist
<1>2. PICK v \in Bits16 : b = Value(v)
  BY BitsExist
<1>3. PICK w \in Bits16 : c = Value(w)
  BY BitsExist
<1>4. Added(u, v) \in Bits16 /\ Added(v, w) \in Bits16
  BY AddedType
<1>5. Added(Added(u, v), w) = Added(u, Added(v, w))
  <2>1. \A i, j, k \in 0 .. 1 : (((i + j) % 2) + k) % 2 = (i + ((j + k) % 2)) % 2
    OBVIOUS
  <2>2. \A i \in 0 .. 15 : u[i] \in 0 .. 1 /\ v[i] \in 0 .. 1 /\ w[i] \in 0 .. 1
    BY DEF Bits16
  <2>3. ASSUME NEW i \in 0 .. 15
        PROVE  (Added(u, v)[i] + w[i]) % 2 = (u[i] + Added(v, w)[i]) % 2
    BY <2>1, <2>2, AddedType
  <2> QED BY <2>3, Zenon DEF Added
<1>6. Xor(a, b) = Value(Added(u, v)) /\ Xor(b, c) = Value(Added(v, w))
  BY <1>1, <1>2, <1>3, XorValue
<1>7. /\ Xor(Xor(a, b), c) = Value(Added(Added(u, v), w))
      /\ Xor(a, Xor(b, c)) = Value(Added(u, Added(v, w)))
  BY <1>1, <1>3, <1>4, <1>6, XorValue
<1> QED BY <1>5, <1>7

(* Zero is a word.                                                         *)
LEMMA ZeroWord == 0 \in Word16
  BY DEF Word16

(* The exclusive or with zero and with itself.                             *)
LEMMA XorZero ==
    ASSUME NEW a \in Word16
    PROVE  Xor(a, 0) = a /\ Xor(0, a) = a /\ Xor(a, a) = 0
<1>1. PICK u \in Bits16 : a = Value(u)
  BY BitsExist
<1> DEFINE o == [i \in 0 .. 15 |-> 0]
<1>2. o \in Bits16 /\ \A i \in 0 .. 15 : o[i] = 0
  BY DEF Bits16
<1>3. Value(o) = 0
  BY <1>2 DEF Value, Four
<1>4. Added(u, o) = u
  <2>1. \A i \in 0 .. 15 : (u[i] + o[i]) % 2 = u[i]
    <3>1. \A b \in 0 .. 1 : (b + 0) % 2 = b
      OBVIOUS
    <3> QED BY <1>2, <3>1 DEF Bits16
  <2> QED BY <2>1 DEF Added, Bits16
<1>5. Added(u, u) = o
  <2>1. \A i \in 0 .. 15 : (u[i] + u[i]) % 2 = 0
    <3>1. \A b \in 0 .. 1 : (b + b) % 2 = 0
      OBVIOUS
    <3> QED BY <3>1 DEF Bits16
  <2> QED BY <2>1 DEF Added
<1> HIDE DEF o
<1>6. Xor(a, 0) = a
  BY <1>1, <1>2, <1>3, <1>4, XorValue
<1>7. Xor(a, a) = 0
  BY <1>1, <1>3, <1>5, XorValue
<1>8. Xor(0, a) = Xor(a, 0)
  BY ZeroWord, XorWord
<1> QED BY <1>6, <1>7, <1>8

(* A shift by one bit to the left, with what comes in from the right.      *)
Shift(a, b) == ((2 * a) % 65536) + (b \div 32768)
Shifted(u, v) == [i \in 0 .. 15 |-> IF i = 0 THEN v[15] ELSE u[i - 1]]

(* The top bit of a value.                                                 *)
LEMMA TopIs ==
    ASSUME NEW v \in Bits16
    PROVE  Value(v) \div 32768 = v[15]
<1>1. PICK h \in Nat : Value(v) \div 32768 = v[15] + 2 * h
  BY DivIs
<1>2. v[15] \in 0 .. 1
  BY BitType
<1>3. Value(v) \in Nat /\ Value(v) < 65536
  BY ValueType DEF Word16
<1>4. \A x \in Nat : x < 65536 => x \div 32768 < 2
  OBVIOUS
<1>5. Value(v) \div 32768 < 2
  BY <1>3, <1>4
<1> HIDE DEF Value
<1> QED BY <1>1, <1>2, <1>5

Twice(y, x, b) == 2 * y = x + 65536 * b

(* What is left of twice a word, its top bit gone.                         *)
LEMMA DoubledIs ==
    ASSUME NEW x \in Nat, NEW y \in Nat, x < 65536, NEW b \in 0 .. 1, Twice(y, x, b)
    PROVE  (2 * y) % 65536 = x
<1>1. CASE b = 0
  BY <1>1 DEF Twice
<1>2. CASE b = 1
  BY <1>2 DEF Twice
<1> QED BY <1>1, <1>2

(* The shift of a value is that of its bits.                               *)
LEMMA ShiftValue ==
    ASSUME NEW u \in Bits16, NEW v \in Bits16
    PROVE  /\ Shifted(u, v) \in Bits16
           /\ Shift(Value(u), Value(v)) = Value(Shifted(u, v))
<1> DEFINE o == [i \in 0 .. 15 |-> IF i = 0 THEN 0 ELSE u[i - 1]]
           z == Shifted(u, v)
<1>1. \A i \in 0 .. 15 : u[i] \in 0 .. 1 /\ v[i] \in 0 .. 1
  BY DEF Bits16
<1>2. o \in Bits16
  BY <1>1 DEF Bits16
<1>3. z \in Bits16
  BY <1>1 DEF Bits16, Shifted
<1>4. /\ o[0] = 0 /\ z[0] = v[15]
      /\ o[1] = u[0] /\ z[1] = u[0] /\ o[2] = u[1] /\ z[2] = u[1] /\ o[3] = u[2] /\ z[3] = u[2]
           /\ o[4] = u[3] /\ z[4] = u[3] /\ o[5] = u[4] /\ z[5] = u[4]
      /\ o[6] = u[5] /\ z[6] = u[5] /\ o[7] = u[6] /\ z[7] = u[6] /\ o[8] = u[7] /\ z[8] = u[7]
           /\ o[9] = u[8] /\ z[9] = u[8] /\ o[10] = u[9] /\ z[10] = u[9]
      /\ o[11] = u[10] /\ z[11] = u[10] /\ o[12] = u[11] /\ z[12] = u[11] /\ o[13] = u[12]
           /\ z[13] = u[12] /\ o[14] = u[13] /\ z[14] = u[13] /\ o[15] = u[14] /\ z[15] = u[14]
  BY DEF Shifted
<1> HIDE DEF o, z
<1>5. /\ Value(z) = Weighted(v[15], u[0], u[1], u[2], u[3], u[4], u[5], u[6], u[7], u[8], u[9],
           u[10], u[11], u[12], u[13], u[14])
      /\ Value(o) = Weighted(0, u[0], u[1], u[2], u[3], u[4], u[5], u[6], u[7], u[8], u[9], u[10],
           u[11], u[12], u[13], u[14])
      /\ Value(u) = Weighted(u[0], u[1], u[2], u[3], u[4], u[5], u[6], u[7], u[8], u[9], u[10],
           u[11], u[12], u[13], u[14], u[15])
  BY <1>2, <1>3, <1>4, ValueIs
<1>6. Value(z) = Value(o) + v[15] /\ 2 * Value(u) = Value(o) + 65536 * u[15]
  <2>1. AllBits(u[0], u[1], u[2], u[3], u[4], u[5], u[6], u[7], u[8], u[9], u[10], u[11], u[12],
          u[13], u[14], u[15])
        /\ v[15] \in 0 .. 1
    BY BitType DEF AllBits
  <2> QED BY <1>5, <2>1, WeightedIs
<1>7. Value(o) \in Nat /\ Value(o) < 65536 /\ Value(u) \in Nat
  BY <1>2, ValueType DEF Word16
<1>8. u[15] \in 0 .. 1 /\ v[15] \in 0 .. 1
  BY BitType
<1>9. (2 * Value(u)) % 65536 = Value(o)
  <2>1. Twice(Value(u), Value(o), u[15])
    BY <1>6 DEF Twice
  <2> QED BY <1>7, <1>8, <2>1, DoubledIs
<1>10. Shift(Value(u), Value(v)) = Value(o) + v[15]
  BY <1>9, TopIs DEF Shift
<1> QED BY <1>3, <1>6, <1>10 DEF z

(* A shift is linear, and so is the bit it pushes out.                     *)
IsLinear(a, b, c, d) == Shift(Xor(a, b), Xor(c, d)) = Xor(Shift(a, c), Shift(b, d))

(* The shift of an exclusive or is that of the shifts.                     *)
LEMMA ShiftLinear ==
    ASSUME NEW a \in Word16, NEW b \in Word16, NEW c \in Word16, NEW d \in Word16
    PROVE  Shift(a, b) \in Word16 /\ IsLinear(a, b, c, d)
<1>1. PICK s \in Bits16 : a = Value(s)
  BY BitsExist
<1>2. PICK t \in Bits16 : b = Value(t)
  BY BitsExist
<1>3. PICK u \in Bits16 : c = Value(u)
  BY BitsExist
<1>4. PICK v \in Bits16 : d = Value(v)
  BY BitsExist
<1>5. /\ Shifted(s, t) \in Bits16 /\ Shifted(s, u) \in Bits16 /\ Shifted(t, v) \in Bits16
      /\ Shift(a, b) = Value(Shifted(s, t)) /\ Shift(a, c) = Value(Shifted(s, u))
      /\ Shift(b, d) = Value(Shifted(t, v))
  BY <1>1, <1>2, <1>3, <1>4, ShiftValue
<1>6. /\ Added(s, t) \in Bits16 /\ Added(u, v) \in Bits16
      /\ \A i \in 0 .. 15 : Added(s, t)[i] = (s[i] + t[i]) % 2 /\ Added(u, v)[i] = (u[i] + v[i]) % 2
  BY AddedType
<1>7. Shifted(Added(s, t), Added(u, v)) = Added(Shifted(s, u), Shifted(t, v))
  <2>1. ASSUME NEW i \in 0 .. 15
        PROVE  (IF i = 0 THEN Added(u, v)[15] ELSE Added(s, t)[i - 1])
               = (Shifted(s, u)[i] + Shifted(t, v)[i]) % 2
    <3>1. CASE i = 0
      BY <1>6, <3>1 DEF Shifted
    <3>2. CASE i # 0
      <4>1. i - 1 \in 0 .. 15
        BY <3>2
      <4> QED BY <1>6, <3>2, <4>1 DEF Shifted
    <3> QED BY <3>1, <3>2
  <2>2. \A x, y : Shifted(x, y) = [i \in 0 .. 15 |-> IF i = 0 THEN y[15] ELSE x[i - 1]]
    BY DEF Shifted
  <2>3. \A x, y : Added(x, y) = [i \in 0 .. 15 |-> (x[i] + y[i]) % 2]
    BY DEF Added
  <2> QED BY <2>1, <2>2, <2>3, Zenon
<1>8. Xor(a, b) = Value(Added(s, t)) /\ Xor(c, d) = Value(Added(u, v))
  BY <1>1, <1>2, <1>3, <1>4, XorValue
<1>9. Shift(Xor(a, b), Xor(c, d)) = Value(Shifted(Added(s, t), Added(u, v)))
  BY <1>6, <1>8, ShiftValue
<1>10. Xor(Shift(a, c), Shift(b, d)) = Value(Added(Shifted(s, u), Shifted(t, v)))
  BY <1>5, XorValue
<1>11. Shift(a, b) \in Word16
  BY <1>5, ValueType
<1> QED BY <1>7, <1>9, <1>10, <1>11 DEF IsLinear

(* The top bit of an exclusive or is the sum of the top bits.              *)
LEMMA TopLinear ==
    ASSUME NEW a \in Word16, NEW b \in Word16
    PROVE  /\ a \div 32768 \in 0 .. 1
           /\ Xor(a, b) \div 32768 = ((a \div 32768) + (b \div 32768)) % 2
<1>1. PICK u \in Bits16 : a = Value(u)
  BY BitsExist
<1>2. PICK v \in Bits16 : b = Value(v)
  BY BitsExist
<1>3. Added(u, v) \in Bits16 /\ Added(u, v)[15] = (u[15] + v[15]) % 2
  BY AddedType
<1>4. Xor(a, b) = Value(Added(u, v))
  BY <1>1, <1>2, XorValue
<1>5. Xor(a, b) \div 32768 = Added(u, v)[15]
  BY <1>3, <1>4, TopIs
<1>6. a \div 32768 = u[15] /\ b \div 32768 = v[15] /\ u[15] \in 0 .. 1
  BY <1>1, <1>2, TopIs, BitType
<1> QED BY <1>3, <1>5, <1>6

(* A register of two words, the high one first; one of 16 bits is the high *)
(* one, with zeros in the other.                                           *)
Register == Word16 \X Word16
Cleared == <<0, 0>>
XorR(a, b) == <<Xor(a[1], b[1]), Xor(a[2], b[2])>>
ShiftR(a) == <<Shift(a[1], a[2]), Shift(a[2], 0)>>
Top(a) == a[1] \div 32768
If(p, t) == IF t = 1 THEN p ELSE Cleared

(* One bit, by the polynomial p.                                           *)
Feed(p, c, bit) == XorR(ShiftR(c), If(p, (Top(c) + bit) % 2))
Turn1(p, c) == Feed(p, c, 0)

(* The halves of a register.                                               *)
LEMMA RegisterIs ==
    ASSUME NEW a \in Register
    PROVE  a[1] \in Word16 /\ a[2] \in Word16 /\ a = <<a[1], a[2]>>
  BY DEF Register

(* A register of zeros.                                                    *)
LEMMA ClearedType == Cleared \in Register /\ Cleared[1] = 0 /\ Cleared[2] = 0
  BY ZeroWord DEF Cleared, Register

(* The exclusive or of registers: type, order, zero and itself.            *)
LEMMA XorRIs ==
    ASSUME NEW a \in Register, NEW b \in Register
    PROVE  /\ XorR(a, b) \in Register /\ XorR(a, b) = XorR(b, a)
           /\ XorR(a, Cleared) = a /\ XorR(Cleared, a) = a /\ XorR(a, a) = Cleared
           /\ XorR(a, b)[1] = Xor(a[1], b[1]) /\ XorR(a, b)[2] = Xor(a[2], b[2])
<1>1. a[1] \in Word16 /\ a[2] \in Word16 /\ b[1] \in Word16 /\ b[2] \in Word16
      /\ a = <<a[1], a[2]>>
  BY RegisterIs
<1>2. Xor(a[1], b[1]) \in Word16 /\ Xor(a[2], b[2]) \in Word16
      /\ Xor(a[1], b[1]) = Xor(b[1], a[1]) /\ Xor(a[2], b[2]) = Xor(b[2], a[2])
  BY <1>1, XorWord
<1>3. Xor(a[1], 0) = a[1] /\ Xor(0, a[1]) = a[1] /\ Xor(a[1], a[1]) = 0
      /\ Xor(a[2], 0) = a[2] /\ Xor(0, a[2]) = a[2] /\ Xor(a[2], a[2]) = 0
  BY <1>1, XorZero
<1>4. XorR(a, b) \in Register /\ XorR(a, b)[1] = Xor(a[1], b[1]) /\ XorR(a, b)[2] = Xor(a[2], b[2])
  BY <1>2 DEF XorR, Register
<1>5. XorR(a, b) = XorR(b, a)
  BY <1>2 DEF XorR
<1>6. XorR(a, Cleared) = a /\ XorR(Cleared, a) = a
  BY <1>1, <1>3, ClearedType DEF XorR
<1>7. XorR(a, a) = Cleared
  BY <1>1, <1>3 DEF XorR, Cleared
<1> QED BY <1>4, <1>5, <1>6, <1>7

(* The exclusive or of registers is associative.                           *)
LEMMA XorRThree ==
    ASSUME NEW a \in Register, NEW b \in Register, NEW c \in Register
    PROVE  XorR(XorR(a, b), c) = XorR(a, XorR(b, c))
<1>1. a[1] \in Word16 /\ a[2] \in Word16 /\ b[1] \in Word16 /\ b[2] \in Word16
      /\ c[1] \in Word16 /\ c[2] \in Word16
  BY RegisterIs
<1>2. /\ Xor(Xor(a[1], b[1]), c[1]) = Xor(a[1], Xor(b[1], c[1]))
      /\ Xor(Xor(a[2], b[2]), c[2]) = Xor(a[2], Xor(b[2], c[2]))
  BY <1>1, XorThree
<1>3. /\ XorR(a, b)[1] = Xor(a[1], b[1]) /\ XorR(a, b)[2] = Xor(a[2], b[2])
      /\ XorR(b, c)[1] = Xor(b[1], c[1]) /\ XorR(b, c)[2] = Xor(b[2], c[2])
  BY XorRIs
<1>4. XorR(XorR(a, b), c) = <<Xor(Xor(a[1], b[1]), c[1]), Xor(Xor(a[2], b[2]), c[2])>>
  BY <1>3, Zenon DEF XorR
<1>5. XorR(a, XorR(b, c)) = <<Xor(a[1], Xor(b[1], c[1])), Xor(a[2], Xor(b[2], c[2]))>>
  BY <1>3, Zenon DEF XorR
<1> QED BY <1>2, <1>4, <1>5

(* The third of a sum may be taken before the second.                      *)
LEMMA XorRSwap ==
    ASSUME NEW a \in Register, NEW b \in Register, NEW c \in Register
    PROVE  XorR(XorR(a, b), c) = XorR(XorR(a, c), b)
<1>1. XorR(XorR(a, b), c) = XorR(a, XorR(b, c)) /\ XorR(XorR(a, c), b) = XorR(a, XorR(c, b))
  BY XorRThree
<1>2. XorR(b, c) = XorR(c, b)
  BY XorRIs
<1> QED BY <1>1, <1>2

(* The shift of registers and their top bits are linear.                   *)
LEMMA ShiftRIs ==
    ASSUME NEW a \in Register, NEW b \in Register
    PROVE  /\ ShiftR(a) \in Register
           /\ ShiftR(XorR(a, b)) = XorR(ShiftR(a), ShiftR(b))
           /\ Top(a) \in 0 .. 1 /\ Top(XorR(a, b)) = (Top(a) + Top(b)) % 2
<1>1. a[1] \in Word16 /\ a[2] \in Word16 /\ b[1] \in Word16 /\ b[2] \in Word16 /\ 0 \in Word16
  BY RegisterIs, ZeroWord
<1>2. XorR(a, b)[1] = Xor(a[1], b[1]) /\ XorR(a, b)[2] = Xor(a[2], b[2])
  BY XorRIs
<1>3. Shift(a[1], a[2]) \in Word16 /\ Shift(a[2], 0) \in Word16
      /\ Shift(Xor(a[1], b[1]), Xor(a[2], b[2])) = Xor(Shift(a[1], a[2]), Shift(b[1], b[2]))
      /\ Shift(Xor(a[2], b[2]), Xor(0, 0)) = Xor(Shift(a[2], 0), Shift(b[2], 0))
  <2>1. Shift(a[1], a[2]) \in Word16
    BY <1>1, ShiftLinear
  <2>2. Shift(a[2], 0) \in Word16
    BY <1>1, ShiftLinear
  <2>3. IsLinear(a[1], b[1], a[2], b[2])
    BY <1>1, ShiftLinear
  <2>4. IsLinear(a[2], b[2], 0, 0)
    BY <1>1, ShiftLinear
  <2> QED BY <2>1, <2>2, <2>3, <2>4 DEF IsLinear
<1>4. Xor(0, 0) = 0
  BY <1>1, XorZero
<1>5. ShiftR(a) \in Register /\ ShiftR(a)[1] = Shift(a[1], a[2]) /\ ShiftR(a)[2] = Shift(a[2], 0)
      /\ ShiftR(b)[1] = Shift(b[1], b[2]) /\ ShiftR(b)[2] = Shift(b[2], 0)
  BY <1>3 DEF ShiftR, Register
<1>6. ShiftR(XorR(a, b)) = <<Shift(Xor(a[1], b[1]), Xor(a[2], b[2])), Shift(Xor(a[2], b[2]), 0)>>
  BY <1>2 DEF ShiftR
<1>7. XorR(ShiftR(a), ShiftR(b)) = <<Xor(Shift(a[1], a[2]), Shift(b[1], b[2])),
                                     Xor(Shift(a[2], 0), Shift(b[2], 0))>>
  BY <1>5 DEF XorR
<1>8. ShiftR(XorR(a, b)) = XorR(ShiftR(a), ShiftR(b))
  BY <1>3, <1>4, <1>6, <1>7
<1>9. Top(a) \in 0 .. 1 /\ Top(XorR(a, b)) = (Top(a) + Top(b)) % 2
  <2>1. a[1] \div 32768 \in 0 .. 1
        /\ Xor(a[1], b[1]) \div 32768 = ((a[1] \div 32768) + (b[1] \div 32768)) % 2
    BY <1>1, TopLinear
  <2> QED BY <1>2, <2>1 DEF Top
<1> QED BY <1>5, <1>8, <1>9

(* A polynomial added once and once more is added as often as the sum      *)
(* says.                                                                   *)
LEMMA IfIs ==
    ASSUME NEW p \in Register, NEW s \in 0 .. 1, NEW t \in 0 .. 1
    PROVE  /\ (s + t) % 2 \in 0 .. 1
           /\ If(p, s) \in Register
           /\ If(p, (s + t) % 2) = XorR(If(p, s), If(p, t))
<1>1. XorR(p, Cleared) = p /\ XorR(Cleared, p) = p /\ XorR(p, p) = Cleared /\ XorR(Cleared,
        Cleared) = Cleared
  BY XorRIs, ClearedType
<1>2. CASE s = 0 /\ t = 0
  BY <1>1, <1>2, ClearedType DEF If
<1>3. CASE s = 1 /\ t = 0
  BY <1>1, <1>3, ClearedType DEF If
<1>4. CASE s = 0 /\ t = 1
  BY <1>1, <1>4, ClearedType DEF If
<1>5. CASE s = 1 /\ t = 1
  BY <1>1, <1>5, ClearedType DEF If
<1> QED BY <1>2, <1>3, <1>4, <1>5

(* A register that is fed a bit is a register.                             *)
LEMMA FeedType ==
    ASSUME NEW p \in Register, NEW c \in Register, NEW bit \in 0 .. 1
    PROVE  Feed(p, c, bit) \in Register
<1>1. ShiftR(c) \in Register /\ Top(c) \in 0 .. 1
  BY ShiftRIs
<1>2. If(p, (Top(c) + bit) % 2) \in Register
  BY <1>1, IfIs
<1> QED BY <1>1, <1>2, XorRIs DEF Feed

(* A register turned is a register.                                        *)
LEMMA Turn1Type ==
    ASSUME NEW p \in Register, NEW c \in Register
    PROVE  Turn1(p, c) \in Register
<1>1. 0 \in 0 .. 1
  OBVIOUS
<1> QED BY <1>1, FeedType DEF Turn1

(* A turn is a shift, with the polynomial if the top bit was set.          *)
LEMMA Turn1Is ==
    ASSUME NEW p \in Register, NEW c \in Register
    PROVE  Turn1(p, c) = XorR(ShiftR(c), If(p, Top(c)))
<1>1. Top(c) \in 0 .. 1
  BY ShiftRIs
<1>2. (Top(c) + 0) % 2 = Top(c)
  BY <1>1
<1> QED BY <1>2 DEF Turn1, Feed

(* To add the top bit of r to the one that is fed is to add r before.      *)
LEMMA FeedMixed ==
    ASSUME NEW p \in Register, NEW c \in Register, NEW r \in Register
    PROVE  Turn1(p, XorR(c, r)) = XorR(Feed(p, c, Top(r)), ShiftR(r))
<1>1. Top(c) \in 0 .. 1 /\ Top(r) \in 0 .. 1 /\ ShiftR(c) \in Register /\ ShiftR(r) \in Register
  BY ShiftRIs
<1>2. PICK m : m = If(p, (Top(c) + Top(r)) % 2)
  OBVIOUS
<1>3. m \in Register
  <2>1. (Top(c) + Top(r)) % 2 \in 0 .. 1
    BY <1>1, IfIs
  <2> QED BY <1>1, <1>2, <2>1, IfIs
<1>4. XorR(c, r) \in Register /\ Top(XorR(c, r)) = (Top(c) + Top(r)) % 2
      /\ ShiftR(XorR(c, r)) = XorR(ShiftR(c), ShiftR(r))
  BY XorRIs, ShiftRIs
<1>5. Turn1(p, XorR(c, r)) = XorR(XorR(ShiftR(c), ShiftR(r)), m)
  BY <1>2, <1>4, Turn1Is
<1>6. Feed(p, c, Top(r)) = XorR(ShiftR(c), m)
  BY <1>2 DEF Feed
<1> QED BY <1>1, <1>3, <1>5, <1>6, XorRSwap

(* A turn is linear.                                                       *)
LEMMA Turn1Linear ==
    ASSUME NEW p \in Register, NEW c \in Register, NEW r \in Register
    PROVE  Turn1(p, XorR(c, r)) = XorR(Turn1(p, c), Turn1(p, r))
<1>1. Top(c) \in 0 .. 1 /\ Top(r) \in 0 .. 1 /\ ShiftR(c) \in Register /\ ShiftR(r) \in Register
  BY ShiftRIs
<1>2. PICK m : m = If(p, Top(c))
  OBVIOUS
<1>3. PICK n : n = If(p, Top(r))
  OBVIOUS
<1>4. m \in Register /\ n \in Register /\ If(p, (Top(c) + Top(r)) % 2) = XorR(m, n)
  BY <1>1, <1>2, <1>3, IfIs
<1>5. Feed(p, c, Top(r)) = XorR(ShiftR(c), XorR(m, n))
  BY <1>4 DEF Feed
<1>6. Turn1(p, XorR(c, r)) = XorR(XorR(ShiftR(c), XorR(m, n)), ShiftR(r))
  BY <1>5, FeedMixed
<1>7. Turn1(p, c) = XorR(ShiftR(c), m) /\ Turn1(p, r) = XorR(ShiftR(r), n)
  BY <1>2, <1>3, Turn1Is
<1>8. XorR(ShiftR(c), m) \in Register /\ XorR(m, n) \in Register
  BY <1>1, <1>4, XorRIs
<1>9. XorR(ShiftR(c), XorR(m, n)) = XorR(XorR(ShiftR(c), m), n)
  BY <1>1, <1>4, XorRThree
<1>10. XorR(XorR(XorR(ShiftR(c), m), n), ShiftR(r)) = XorR(XorR(ShiftR(c), m), XorR(n, ShiftR(r)))
  BY <1>1, <1>4, <1>8, XorRThree
<1>11. XorR(n, ShiftR(r)) = XorR(ShiftR(r), n)
  BY <1>1, <1>4, XorRIs
<1> QED BY <1>6, <1>7, <1>9, <1>10, <1>11

---------------------------------------------------------------------------
(* Eight bits of zero.                                                     *)
Turn2(p, c) == Turn1(p, Turn1(p, c))
Turn4(p, c) == Turn2(p, Turn2(p, c))
Turn8(p, c) == Turn4(p, Turn4(p, c))

(* Eight turns of a register.                                              *)
LEMMA Turn8Type ==
    ASSUME NEW p \in Register, NEW c \in Register
    PROVE  Turn8(p, c) \in Register
<1>1. \A x \in Register : Turn1(p, x) \in Register
  BY Turn1Type
<1>2. \A x \in Register : Turn2(p, x) \in Register
  BY <1>1 DEF Turn2
<1>3. \A x \in Register : Turn4(p, x) \in Register
  BY <1>2 DEF Turn4
<1> QED BY <1>3 DEF Turn8

(* Eight turns are linear.                                                 *)
LEMMA Turn8Linear ==
    ASSUME NEW p \in Register, NEW c \in Register, NEW r \in Register
    PROVE  Turn8(p, XorR(c, r)) = XorR(Turn8(p, c), Turn8(p, r))
<1>1. \A x, y \in Register : Turn1(p, x) \in Register /\ Turn1(p, XorR(x, y)) = XorR(Turn1(p, x),
        Turn1(p, y))
  BY Turn1Type, Turn1Linear
<1>2. \A x, y \in Register : Turn2(p, x) \in Register /\ Turn2(p, XorR(x, y)) = XorR(Turn2(p, x),
        Turn2(p, y))
  BY <1>1 DEF Turn2
<1>3. \A x, y \in Register : Turn4(p, x) \in Register /\ Turn4(p, XorR(x, y)) = XorR(Turn4(p, x),
        Turn4(p, y))
  BY <1>2 DEF Turn4
<1> QED BY <1>3 DEF Turn8

(* It is the same whether one turn comes before or after eight.            *)
LEMMA Turn8Later ==
    ASSUME NEW p, NEW c
    PROVE  Turn8(p, Turn1(p, c)) = Turn1(p, Turn8(p, c))
  BY DEF Turn2, Turn4, Turn8

(* Bytes, as numbers of 16 bits.                                           *)
Byte == 0 .. 255

(* Bytes, and bytes at the top, are words.                                 *)
LEMMA ByteIs ==
    ASSUME NEW b \in Byte
    PROVE  b \in Nat /\ b < 256 /\ b \in Word16 /\ 256 * b \in Word16
  BY DEF Byte, Word16

(* A number of 16 bits is a high byte and a low one.                       *)
LEMMA TwoBytes ==
    ASSUME NEW a \in Word16
    PROVE  /\ a \div 256 \in Byte /\ a % 256 \in Byte
           /\ a = 256 * (a \div 256) + (a % 256)
           /\ (256 * a) % 65536 = 256 * (a % 256)
           /\ (a * 256) % 65536 = 256 * (a % 256)
<1>1. a \in Nat /\ a < 65536
  BY DEF Word16
<1>2. a = 256 * (a \div 256) + (a % 256)
  BY <1>1
<1>3. a \div 256 \in Byte /\ a % 256 \in Byte
  <2>1. a \div 256 \in Nat /\ a \div 256 < 256 /\ a % 256 \in Nat /\ a % 256 < 256
    BY <1>1
  <2>2. \A x \in Nat : x < 256 => x \in Byte
    BY DEF Byte
  <2> QED BY <2>1, <2>2
<1>4. (256 * a) % 65536 = 256 * (a % 256)
  BY <1>1
<1>5. (a * 256) % 65536 = 256 * (a % 256)
  BY <1>1
<1> QED BY <1>2, <1>3, <1>4, <1>5

(* The upper bits of a byte are zero.                                      *)
LEMMA UpperBits ==
    ASSUME NEW w \in Bits16, NEW x \in Byte, x = Value(w)
    PROVE  /\ w[8] = 0 /\ w[9] = 0 /\ w[10] = 0 /\ w[11] = 0
           /\ w[12] = 0 /\ w[13] = 0 /\ w[14] = 0 /\ w[15] = 0
<1>1. x \in Nat /\ x < 256
  BY ByteIs
<1>2. /\ x \div 256 = 0 /\ x \div 512 = 0 /\ x \div 1024 = 0 /\ x \div 2048 = 0
      /\ x \div 4096 = 0 /\ x \div 8192 = 0 /\ x \div 16384 = 0 /\ x \div 32768 = 0
  BY <1>1
<1>3. ASSUME NEW bit \in 0 .. 1, NEW y, y = 0, \E h \in Nat : y = bit + 2 * h
      PROVE  bit = 0
  BY <1>3
<1>4. w[8] = 0
  <2>1. \E h \in Nat : x \div 256 = w[8] + 2 * h
    BY DivIs
  <2>2. w[8] \in 0 .. 1
    BY BitType
  <2> QED BY <1>2, <1>3, <2>1, <2>2
<1>5. w[9] = 0
  <2>1. \E h \in Nat : x \div 512 = w[9] + 2 * h
    BY DivIs
  <2>2. w[9] \in 0 .. 1
    BY BitType
  <2> QED BY <1>2, <1>3, <2>1, <2>2
<1>6. w[10] = 0
  <2>1. \E h \in Nat : x \div 1024 = w[10] + 2 * h
    BY DivIs
  <2>2. w[10] \in 0 .. 1
    BY BitType
  <2> QED BY <1>2, <1>3, <2>1, <2>2
<1>7. w[11] = 0
  <2>1. \E h \in Nat : x \div 2048 = w[11] + 2 * h
    BY DivIs
  <2>2. w[11] \in 0 .. 1
    BY BitType
  <2> QED BY <1>2, <1>3, <2>1, <2>2
<1>8. w[12] = 0
  <2>1. \E h \in Nat : x \div 4096 = w[12] + 2 * h
    BY DivIs
  <2>2. w[12] \in 0 .. 1
    BY BitType
  <2> QED BY <1>2, <1>3, <2>1, <2>2
<1>9. w[13] = 0
  <2>1. \E h \in Nat : x \div 8192 = w[13] + 2 * h
    BY DivIs
  <2>2. w[13] \in 0 .. 1
    BY BitType
  <2> QED BY <1>2, <1>3, <2>1, <2>2
<1>10. w[14] = 0
  <2>1. \E h \in Nat : x \div 16384 = w[14] + 2 * h
    BY DivIs
  <2>2. w[14] \in 0 .. 1
    BY BitType
  <2> QED BY <1>2, <1>3, <2>1, <2>2
<1>11. w[15] = 0
  <2>1. \E h \in Nat : x \div 32768 = w[15] + 2 * h
    BY DivIs
  <2>2. w[15] \in 0 .. 1
    BY BitType
  <2> QED BY <1>2, <1>3, <2>1, <2>2
<1> QED BY <1>4, <1>5, <1>6, <1>7, <1>8, <1>9, <1>10, <1>11

(* Xor of bytes is a byte.                                                 *)
LEMMA XorByte ==
    ASSUME NEW a \in Byte, NEW b \in Byte
    PROVE  Xor(a, b) \in Byte
<1>1. a \in Word16 /\ b \in Word16
  BY ByteIs
<1>2. PICK u \in Bits16 : a = Value(u)
  BY <1>1, BitsExist
<1>3. PICK v \in Bits16 : b = Value(v)
  BY <1>1, BitsExist
<1> DEFINE z == Added(u, v)
<1>4. z \in Bits16 /\ \A i \in 0 .. 15 : z[i] = (u[i] + v[i]) % 2
  BY AddedType
<1> HIDE DEF z
<1>5. /\ z[8] = 0 /\ z[9] = 0 /\ z[10] = 0 /\ z[11] = 0
      /\ z[12] = 0 /\ z[13] = 0 /\ z[14] = 0 /\ z[15] = 0
  <2>1. (0 + 0) % 2 = 0
    OBVIOUS
  <2>2. /\ u[8] = 0 /\ u[9] = 0 /\ u[10] = 0 /\ u[11] = 0
        /\ u[12] = 0 /\ u[13] = 0 /\ u[14] = 0 /\ u[15] = 0
    BY <1>2, UpperBits
  <2>3. /\ v[8] = 0 /\ v[9] = 0 /\ v[10] = 0 /\ v[11] = 0
        /\ v[12] = 0 /\ v[13] = 0 /\ v[14] = 0 /\ v[15] = 0
    BY <1>3, UpperBits
  <2> QED BY <1>4, <2>1, <2>2, <2>3
<1>6. PICK k \in FourBits : k = Four(z[0], z[1], z[2], z[3])
  BY <1>4, BitType, FourType
<1>7. PICK l \in FourBits : l = Four(z[4], z[5], z[6], z[7])
  BY <1>4, BitType, FourType
<1>8. Four(0, 0, 0, 0) = 0
  BY DEF Four
<1>9. Value(z) = k + 16 * l + 256 * 0 + 4096 * 0
  BY <1>5, <1>6, <1>7, <1>8 DEF Value
<1>10. k + 16 * l + 256 * 0 + 4096 * 0 \in Byte
  BY DEF FourBits, Byte
<1>11. Xor(a, b) = Value(z)
  BY <1>2, <1>3, XorValue DEF z
<1> QED BY <1>9, <1>10, <1>11

(* The two bytes of a number, with no bit in common, make it up.           *)
LEMMA XorTwoBytes ==
    ASSUME NEW a \in Word16
    PROVE  a = Xor(256 * (a \div 256), a % 256)
<1>1. PICK u \in Bits16 : a = Value(u)
  BY BitsExist
<1> DEFINE l == [i \in 0 .. 15 |-> IF i < 8 THEN u[i] ELSE 0]
           h == [i \in 0 .. 15 |-> IF i < 8 THEN 0 ELSE u[i]]
<1>2. \A i \in 0 .. 15 : u[i] \in 0 .. 1
  BY DEF Bits16
<1>3. l \in Bits16 /\ h \in Bits16
  BY <1>2 DEF Bits16
<1>4. Added(h, l) = u
  <2>1. \A b \in 0 .. 1 : (b + 0) % 2 = b /\ (0 + b) % 2 = b
    OBVIOUS
  <2>2. ASSUME NEW i \in 0 .. 15 PROVE (h[i] + l[i]) % 2 = u[i]
    BY <1>2, <2>1
  <2> QED BY <2>2 DEF Added, Bits16
<1>5. /\ l[0] = u[0] /\ l[1] = u[1] /\ l[2] = u[2] /\ l[3] = u[3]
      /\ l[4] = u[4] /\ l[5] = u[5] /\ l[6] = u[6] /\ l[7] = u[7]
      /\ l[8] = 0 /\ l[9] = 0 /\ l[10] = 0 /\ l[11] = 0
      /\ l[12] = 0 /\ l[13] = 0 /\ l[14] = 0 /\ l[15] = 0
  OBVIOUS
<1>6. /\ h[0] = 0 /\ h[1] = 0 /\ h[2] = 0 /\ h[3] = 0
      /\ h[4] = 0 /\ h[5] = 0 /\ h[6] = 0 /\ h[7] = 0
      /\ h[8] = u[8] /\ h[9] = u[9] /\ h[10] = u[10] /\ h[11] = u[11]
      /\ h[12] = u[12] /\ h[13] = u[13] /\ h[14] = u[14] /\ h[15] = u[15]
  OBVIOUS
<1> HIDE DEF l, h
<1>7. PICK k0 \in FourBits : k0 = Four(u[0], u[1], u[2], u[3])
  BY BitType, FourType
<1>8. PICK k1 \in FourBits : k1 = Four(u[4], u[5], u[6], u[7])
  BY BitType, FourType
<1>9. PICK k2 \in FourBits : k2 = Four(u[8], u[9], u[10], u[11])
  BY BitType, FourType
<1>10. PICK k3 \in FourBits : k3 = Four(u[12], u[13], u[14], u[15])
  BY BitType, FourType
<1>11. Four(0, 0, 0, 0) = 0
  BY DEF Four
<1>12. Value(u) = k0 + 16 * k1 + 256 * k2 + 4096 * k3
  BY <1>7, <1>8, <1>9, <1>10 DEF Value
<1>13. Value(l) = k0 + 16 * k1 + 256 * 0 + 4096 * 0
  BY <1>5, <1>7, <1>8, <1>11 DEF Value
<1>14. Value(h) = 0 + 16 * 0 + 256 * k2 + 4096 * k3
  BY <1>6, <1>9, <1>10, <1>11 DEF Value
<1>15. Value(u) \div 256 = k2 + 16 * k3 /\ Value(u) % 256 = k0 + 16 * k1
  BY <1>12 DEF FourBits
<1>16. Value(h) = 256 * (a \div 256) /\ Value(l) = a % 256
  BY <1>1, <1>13, <1>14, <1>15 DEF FourBits
<1>17. Xor(Value(h), Value(l)) = Value(Added(h, l))
  BY <1>3, XorValue
<1> QED BY <1>1, <1>4, <1>16, <1>17

(* Eight shifts put a byte into the high half.                             *)
LEMMA ShiftedByte ==
    ASSUME NEW a \in Word16, a < 32768
    PROVE  Shift(a, 0) = 2 * a /\ 2 * a \in Word16
<1>1. a \in Nat /\ 0 \div 32768 = 0
  BY DEF Word16
<1>2. (2 * a) % 65536 = 2 * a /\ 2 * a < 65536
  BY <1>1
<1>3. 2 * a + 0 = 2 * a /\ 2 * a \in Nat
  BY <1>1
<1> QED BY <1>1, <1>2, <1>3 DEF Shift, Word16

Shift2(a) == Shift(Shift(a, 0), 0)
Shift4(a) == Shift2(Shift2(a))
Shift8(a) == Shift4(Shift4(a))

(* A byte shifted by eight.                                                *)
LEMMA Shift8Is ==
    ASSUME NEW b \in Byte
    PROVE  Shift8(b) = 256 * b
<1>1. b \in Nat /\ b < 256 /\ b \in Word16
  BY ByteIs
<1>2. /\ 2 * (2 * b) = 4 * b /\ 2 * (4 * b) = 8 * b /\ 2 * (8 * b) = 16 * b
      /\ 2 * (16 * b) = 32 * b /\ 2 * (32 * b) = 64 * b /\ 2 * (64 * b) = 128 * b
      /\ 2 * (128 * b) = 256 * b
      /\ 2 * b < 32768 /\ 4 * b < 32768 /\ 8 * b < 32768 /\ 16 * b < 32768
      /\ 32 * b < 32768 /\ 64 * b < 32768 /\ 128 * b < 32768 /\ b < 32768
  BY <1>1
<1>3. Shift(b, 0) = 2 * b /\ 2 * b \in Word16
  BY <1>1, <1>2, ShiftedByte
<1>4. Shift(2 * b, 0) = 4 * b /\ 4 * b \in Word16
  BY <1>2, <1>3, ShiftedByte
<1>5. Shift(4 * b, 0) = 8 * b /\ 8 * b \in Word16
  BY <1>2, <1>4, ShiftedByte
<1>6. Shift(8 * b, 0) = 16 * b /\ 16 * b \in Word16
  BY <1>2, <1>5, ShiftedByte
<1>7. Shift(16 * b, 0) = 32 * b /\ 32 * b \in Word16
  BY <1>2, <1>6, ShiftedByte
<1>8. Shift(32 * b, 0) = 64 * b /\ 64 * b \in Word16
  BY <1>2, <1>7, ShiftedByte
<1>9. Shift(64 * b, 0) = 128 * b /\ 128 * b \in Word16
  BY <1>2, <1>8, ShiftedByte
<1>10. Shift(128 * b, 0) = 256 * b
  BY <1>2, <1>9, ShiftedByte
<1> QED BY <1>3, <1>4, <1>5, <1>6, <1>7, <1>8, <1>9, <1>10 DEF Shift2, Shift4, Shift8

(* Shifts by eight are linear.                                             *)
LEMMA Shift8Linear ==
    ASSUME NEW a \in Word16, NEW b \in Word16
    PROVE  Shift8(Xor(a, b)) = Xor(Shift8(a), Shift8(b))
<1>1. \A x, y \in Word16 : Shift(x, 0) \in Word16 /\ Shift(Xor(x, y), 0) = Xor(Shift(x, 0),
        Shift(y, 0))
  <2>1. Xor(0, 0) = 0 /\ 0 \in Word16
    BY ZeroWord, XorZero
  <2>2. ASSUME NEW x \in Word16, NEW y \in Word16
        PROVE  Shift(x, 0) \in Word16 /\ Shift(Xor(x, y), 0) = Xor(Shift(x, 0), Shift(y, 0))
    <3>1. Shift(x, 0) \in Word16 /\ IsLinear(x, y, 0, 0)
      BY <2>1, ShiftLinear
    <3> QED BY <2>1, <3>1 DEF IsLinear
  <2> QED BY <2>2
<1>2. \A x, y \in Word16 : Shift2(x) \in Word16 /\ Shift2(Xor(x, y)) = Xor(Shift2(x), Shift2(y))
  BY <1>1 DEF Shift2
<1>3. \A x, y \in Word16 : Shift4(x) \in Word16 /\ Shift4(Xor(x, y)) = Xor(Shift4(x), Shift4(y))
  BY <1>2 DEF Shift4
<1> QED BY <1>3 DEF Shift8

(* The exclusive or of bytes at the top.                                   *)
LEMMA XorHigh ==
    ASSUME NEW a \in Byte, NEW b \in Byte
    PROVE  Xor(256 * a, 256 * b) = 256 * Xor(a, b)
<1>1. a \in Word16 /\ b \in Word16 /\ Xor(a, b) \in Byte
  BY ByteIs, XorByte
<1>2. Shift8(a) = 256 * a /\ Shift8(b) = 256 * b /\ Shift8(Xor(a, b)) = 256 * Xor(a, b)
  BY <1>1, Shift8Is
<1> QED BY <1>1, <1>2, Shift8Linear

(* A register with nothing in its low half.                                *)
Upper(n) == <<n, 0>>

(* A word in the upper half of a register.                                 *)
LEMMA UpperIs ==
    ASSUME NEW n \in Word16
    PROVE  /\ Upper(n) \in Register /\ Top(Upper(n)) = n \div 32768
           /\ ShiftR(Upper(n)) = Upper((2 * n) % 65536)
           /\ (2 * n) % 65536 \in Word16
<1>1. 0 \div 32768 = 0 /\ (2 * 0) % 65536 = 0 /\ 0 + 0 = 0
  OBVIOUS
<1>2. (2 * n) % 65536 \in Nat /\ (2 * n) % 65536 < 65536
  BY DEF Word16
<1>3. Shift(n, 0) = (2 * n) % 65536 /\ Shift(0, 0) = 0
  BY <1>1, <1>2 DEF Shift
<1>4. Upper(n) \in Register /\ Upper(n)[1] = n /\ Upper(n)[2] = 0
  BY ZeroWord DEF Upper, Register
<1> QED BY <1>2, <1>3, <1>4 DEF ShiftR, Top, Word16, Upper

(* A bit may be fed from the top of a register that is added.              *)
LEMMA FeedOne ==
    ASSUME NEW p \in Register, NEW c \in Register, NEW n \in Word16
    PROVE  Turn1(p, XorR(c, Upper(n))) = XorR(Feed(p, c, n \div 32768), Upper((2 * n) % 65536))
<1>1. Upper(n) \in Register /\ Top(Upper(n)) = n \div 32768
        /\ ShiftR(Upper(n)) = Upper((2 * n) % 65536)
  BY UpperIs
<1>2. Turn1(p, XorR(c, Upper(n))) = XorR(Feed(p, c, Top(Upper(n))), ShiftR(Upper(n)))
  BY <1>1, FeedMixed
<1> QED BY <1>1, <1>2

(* What is left of a byte in a high half after k shifts.                   *)
LEMMA LeftOfByte ==
    ASSUME NEW b \in Byte
    PROVE  /\ 256 * (b % 256) \in Word16 /\ (2 * (256 * (b % 256))) % 65536 = 512 * (b % 128)
              /\ (256 * (b % 256)) \div 32768 = (b \div 128) % 2
           /\ 512 * (b % 128) \in Word16 /\ (2 * (512 * (b % 128))) % 65536 = 1024 * (b % 64)
              /\ (512 * (b % 128)) \div 32768 = (b \div 64) % 2
           /\ 1024 * (b % 64) \in Word16 /\ (2 * (1024 * (b % 64))) % 65536 = 2048 * (b % 32)
              /\ (1024 * (b % 64)) \div 32768 = (b \div 32) % 2
           /\ 2048 * (b % 32) \in Word16 /\ (2 * (2048 * (b % 32))) % 65536 = 4096 * (b % 16)
              /\ (2048 * (b % 32)) \div 32768 = (b \div 16) % 2
           /\ 4096 * (b % 16) \in Word16 /\ (2 * (4096 * (b % 16))) % 65536 = 8192 * (b % 8)
              /\ (4096 * (b % 16)) \div 32768 = (b \div 8) % 2
           /\ 8192 * (b % 8) \in Word16 /\ (2 * (8192 * (b % 8))) % 65536 = 16384 * (b % 4)
              /\ (8192 * (b % 8)) \div 32768 = (b \div 4) % 2
           /\ 16384 * (b % 4) \in Word16 /\ (2 * (16384 * (b % 4))) % 65536 = 32768 * (b % 2)
              /\ (16384 * (b % 4)) \div 32768 = (b \div 2) % 2
           /\ 32768 * (b % 2) \in Word16 /\ (2 * (32768 * (b % 2))) % 65536 = 65536 * (b % 1)
              /\ (32768 * (b % 2)) \div 32768 = (b \div 1) % 2
           /\ 256 * (b % 256) = 256 * b /\ 65536 * (b % 1) = 0
<1>0. b \in Nat /\ b < 256
  BY ByteIs
<1>1. /\ 256 * (b % 256) \in Word16 /\ (2 * (256 * (b % 256))) % 65536 = 512 * (b % 128)
      /\ (256 * (b % 256)) \div 32768 = (b \div 128) % 2
  <2>1. b % 256 \in Nat /\ b % 256 < 256
    BY <1>0
  <2>2. 256 * (b % 256) \in Nat /\ 256 * (b % 256) < 65536
    BY <2>1
  <2>3. (2 * (256 * (b % 256))) % 65536 = 512 * (b % 128)
    BY <1>0
  <2>4. (256 * (b % 256)) \div 32768 = (b \div 128) % 2
    BY <1>0
  <2> QED BY <2>2, <2>3, <2>4 DEF Word16
<1>2. /\ 512 * (b % 128) \in Word16 /\ (2 * (512 * (b % 128))) % 65536 = 1024 * (b % 64)
      /\ (512 * (b % 128)) \div 32768 = (b \div 64) % 2
  <2>1. b % 128 \in Nat /\ b % 128 < 128
    BY <1>0
  <2>2. 512 * (b % 128) \in Nat /\ 512 * (b % 128) < 65536
    BY <2>1
  <2>3. (2 * (512 * (b % 128))) % 65536 = 1024 * (b % 64)
    BY <1>0
  <2>4. (512 * (b % 128)) \div 32768 = (b \div 64) % 2
    BY <1>0
  <2> QED BY <2>2, <2>3, <2>4 DEF Word16
<1>3. /\ 1024 * (b % 64) \in Word16 /\ (2 * (1024 * (b % 64))) % 65536 = 2048 * (b % 32)
      /\ (1024 * (b % 64)) \div 32768 = (b \div 32) % 2
  <2>1. b % 64 \in Nat /\ b % 64 < 64
    BY <1>0
  <2>2. 1024 * (b % 64) \in Nat /\ 1024 * (b % 64) < 65536
    BY <2>1
  <2>3. (2 * (1024 * (b % 64))) % 65536 = 2048 * (b % 32)
    BY <1>0
  <2>4. (1024 * (b % 64)) \div 32768 = (b \div 32) % 2
    BY <1>0
  <2> QED BY <2>2, <2>3, <2>4 DEF Word16
<1>4. /\ 2048 * (b % 32) \in Word16 /\ (2 * (2048 * (b % 32))) % 65536 = 4096 * (b % 16)
      /\ (2048 * (b % 32)) \div 32768 = (b \div 16) % 2
  <2>1. b % 32 \in Nat /\ b % 32 < 32
    BY <1>0
  <2>2. 2048 * (b % 32) \in Nat /\ 2048 * (b % 32) < 65536
    BY <2>1
  <2>3. (2 * (2048 * (b % 32))) % 65536 = 4096 * (b % 16)
    BY <1>0
  <2>4. (2048 * (b % 32)) \div 32768 = (b \div 16) % 2
    BY <1>0
  <2> QED BY <2>2, <2>3, <2>4 DEF Word16
<1>5. /\ 4096 * (b % 16) \in Word16 /\ (2 * (4096 * (b % 16))) % 65536 = 8192 * (b % 8)
      /\ (4096 * (b % 16)) \div 32768 = (b \div 8) % 2
  <2>1. b % 16 \in Nat /\ b % 16 < 16
    BY <1>0
  <2>2. 4096 * (b % 16) \in Nat /\ 4096 * (b % 16) < 65536
    BY <2>1
  <2>3. (2 * (4096 * (b % 16))) % 65536 = 8192 * (b % 8)
    BY <1>0
  <2>4. (4096 * (b % 16)) \div 32768 = (b \div 8) % 2
    BY <1>0
  <2> QED BY <2>2, <2>3, <2>4 DEF Word16
<1>6. /\ 8192 * (b % 8) \in Word16 /\ (2 * (8192 * (b % 8))) % 65536 = 16384 * (b % 4)
      /\ (8192 * (b % 8)) \div 32768 = (b \div 4) % 2
  <2>1. b % 8 \in Nat /\ b % 8 < 8
    BY <1>0
  <2>2. 8192 * (b % 8) \in Nat /\ 8192 * (b % 8) < 65536
    BY <2>1
  <2>3. (2 * (8192 * (b % 8))) % 65536 = 16384 * (b % 4)
    BY <1>0
  <2>4. (8192 * (b % 8)) \div 32768 = (b \div 4) % 2
    BY <1>0
  <2> QED BY <2>2, <2>3, <2>4 DEF Word16
<1>7. /\ 16384 * (b % 4) \in Word16 /\ (2 * (16384 * (b % 4))) % 65536 = 32768 * (b % 2)
      /\ (16384 * (b % 4)) \div 32768 = (b \div 2) % 2
  <2>1. b % 4 \in Nat /\ b % 4 < 4
    BY <1>0
  <2>2. 16384 * (b % 4) \in Nat /\ 16384 * (b % 4) < 65536
    BY <2>1
  <2>3. (2 * (16384 * (b % 4))) % 65536 = 32768 * (b % 2)
    BY <1>0
  <2>4. (16384 * (b % 4)) \div 32768 = (b \div 2) % 2
    BY <1>0
  <2> QED BY <2>2, <2>3, <2>4 DEF Word16
<1>8. /\ 32768 * (b % 2) \in Word16 /\ (2 * (32768 * (b % 2))) % 65536 = 65536 * (b % 1)
      /\ (32768 * (b % 2)) \div 32768 = (b \div 1) % 2
  <2>1. b % 2 \in Nat /\ b % 2 < 2
    BY <1>0
  <2>2. 32768 * (b % 2) \in Nat /\ 32768 * (b % 2) < 65536
    BY <2>1
  <2>3. (2 * (32768 * (b % 2))) % 65536 = 65536 * (b % 1)
    BY <1>0
  <2>4. (32768 * (b % 2)) \div 32768 = (b \div 1) % 2
    BY <1>0
  <2> QED BY <2>2, <2>3, <2>4 DEF Word16
<1>9. 256 * (b % 256) = 256 * b /\ 65536 * (b % 1) = 0
  BY <1>0
<1> QED BY <1>1, <1>2, <1>3, <1>4, <1>5, <1>6, <1>7, <1>8, <1>9

(* The bits of a byte as BitsOf lists them, the top one first.             *)
LEMMA BitsAre ==
    ASSUME NEW b \in Byte
    PROVE  /\ BitsOf(b)[1] = (b \div 128) % 2
           /\ BitsOf(b)[2] = (b \div 64) % 2
           /\ BitsOf(b)[3] = (b \div 32) % 2
           /\ BitsOf(b)[4] = (b \div 16) % 2
           /\ BitsOf(b)[5] = (b \div 8) % 2
           /\ BitsOf(b)[6] = (b \div 4) % 2
           /\ BitsOf(b)[7] = (b \div 2) % 2
           /\ BitsOf(b)[8] = (b \div 1) % 2
  BY DEF BitsOf

(* To feed the bits of a byte is to add the byte at the top, and turn.     *)
LEMMA ByteFed ==
    ASSUME NEW p \in Register, NEW c \in Register, NEW b \in Byte,
           NEW g \in [0 .. 8 -> Register], g[0] = c,
           \A k \in 1 .. 8 : g[k] = Feed(p, g[k - 1], BitsOf(b)[k])
    PROVE  g[8] = Turn8(p, XorR(c, Upper(256 * b)))
<1>0. PICK n0 : n0 = 256 * (b % 256)
  OBVIOUS
<1>1. PICK n1 : n1 = 512 * (b % 128)
  OBVIOUS
<1>2. PICK n2 : n2 = 1024 * (b % 64)
  OBVIOUS
<1>3. PICK n3 : n3 = 2048 * (b % 32)
  OBVIOUS
<1>4. PICK n4 : n4 = 4096 * (b % 16)
  OBVIOUS
<1>5. PICK n5 : n5 = 8192 * (b % 8)
  OBVIOUS
<1>6. PICK n6 : n6 = 16384 * (b % 4)
  OBVIOUS
<1>7. PICK n7 : n7 = 32768 * (b % 2)
  OBVIOUS
<1>8. PICK n8 : n8 = 65536 * (b % 1)
  OBVIOUS
<1>10. /\ n0 \in Word16 /\ (2 * n0) % 65536 = n1 /\ n0 \div 32768 = BitsOf(b)[1]
       /\ n1 \in Word16 /\ (2 * n1) % 65536 = n2 /\ n1 \div 32768 = BitsOf(b)[2]
       /\ n2 \in Word16 /\ (2 * n2) % 65536 = n3 /\ n2 \div 32768 = BitsOf(b)[3]
       /\ n3 \in Word16 /\ (2 * n3) % 65536 = n4 /\ n3 \div 32768 = BitsOf(b)[4]
       /\ n4 \in Word16 /\ (2 * n4) % 65536 = n5 /\ n4 \div 32768 = BitsOf(b)[5]
       /\ n5 \in Word16 /\ (2 * n5) % 65536 = n6 /\ n5 \div 32768 = BitsOf(b)[6]
       /\ n6 \in Word16 /\ (2 * n6) % 65536 = n7 /\ n6 \div 32768 = BitsOf(b)[7]
       /\ n7 \in Word16 /\ (2 * n7) % 65536 = n8 /\ n7 \div 32768 = BitsOf(b)[8]
       /\ n0 = 256 * b /\ n8 = 0
  <2>0. n0 \in Word16 /\ (2 * n0) % 65536 = n1 /\ n0 \div 32768 = BitsOf(b)[1]
    <3>1. BitsOf(b)[1] = (b \div 128) % 2
      BY BitsAre
    <3>2. n0 \in Word16 /\ (2 * n0) % 65536 = n1 /\ n0 \div 32768 = (b \div 128) % 2
      BY <1>0, <1>1, LeftOfByte
    <3> QED BY <3>1, <3>2
  <2>1. n1 \in Word16 /\ (2 * n1) % 65536 = n2 /\ n1 \div 32768 = BitsOf(b)[2]
    <3>1. BitsOf(b)[2] = (b \div 64) % 2
      BY BitsAre
    <3>2. n1 \in Word16 /\ (2 * n1) % 65536 = n2 /\ n1 \div 32768 = (b \div 64) % 2
      BY <1>1, <1>2, LeftOfByte
    <3> QED BY <3>1, <3>2
  <2>2. n2 \in Word16 /\ (2 * n2) % 65536 = n3 /\ n2 \div 32768 = BitsOf(b)[3]
    <3>1. BitsOf(b)[3] = (b \div 32) % 2
      BY BitsAre
    <3>2. n2 \in Word16 /\ (2 * n2) % 65536 = n3 /\ n2 \div 32768 = (b \div 32) % 2
      BY <1>2, <1>3, LeftOfByte
    <3> QED BY <3>1, <3>2
  <2>3. n3 \in Word16 /\ (2 * n3) % 65536 = n4 /\ n3 \div 32768 = BitsOf(b)[4]
    <3>1. BitsOf(b)[4] = (b \div 16) % 2
      BY BitsAre
    <3>2. n3 \in Word16 /\ (2 * n3) % 65536 = n4 /\ n3 \div 32768 = (b \div 16) % 2
      BY <1>3, <1>4, LeftOfByte
    <3> QED BY <3>1, <3>2
  <2>4. n4 \in Word16 /\ (2 * n4) % 65536 = n5 /\ n4 \div 32768 = BitsOf(b)[5]
    <3>1. BitsOf(b)[5] = (b \div 8) % 2
      BY BitsAre
    <3>2. n4 \in Word16 /\ (2 * n4) % 65536 = n5 /\ n4 \div 32768 = (b \div 8) % 2
      BY <1>4, <1>5, LeftOfByte
    <3> QED BY <3>1, <3>2
  <2>5. n5 \in Word16 /\ (2 * n5) % 65536 = n6 /\ n5 \div 32768 = BitsOf(b)[6]
    <3>1. BitsOf(b)[6] = (b \div 4) % 2
      BY BitsAre
    <3>2. n5 \in Word16 /\ (2 * n5) % 65536 = n6 /\ n5 \div 32768 = (b \div 4) % 2
      BY <1>5, <1>6, LeftOfByte
    <3> QED BY <3>1, <3>2
  <2>6. n6 \in Word16 /\ (2 * n6) % 65536 = n7 /\ n6 \div 32768 = BitsOf(b)[7]
    <3>1. BitsOf(b)[7] = (b \div 2) % 2
      BY BitsAre
    <3>2. n6 \in Word16 /\ (2 * n6) % 65536 = n7 /\ n6 \div 32768 = (b \div 2) % 2
      BY <1>6, <1>7, LeftOfByte
    <3> QED BY <3>1, <3>2
  <2>7. n7 \in Word16 /\ (2 * n7) % 65536 = n8 /\ n7 \div 32768 = BitsOf(b)[8]
    <3>1. BitsOf(b)[8] = (b \div 1) % 2
      BY BitsAre
    <3>2. n7 \in Word16 /\ (2 * n7) % 65536 = n8 /\ n7 \div 32768 = (b \div 1) % 2
      BY <1>7, <1>8, LeftOfByte
    <3> QED BY <3>1, <3>2
  <2>8. n0 = 256 * b /\ n8 = 0
    BY <1>0, <1>8, LeftOfByte
  <2> QED BY <2>0, <2>1, <2>2, <2>3, <2>4, <2>5, <2>6, <2>7, <2>8
<1>11. g[0] \in Register /\ g[1] \in Register /\ g[2] \in Register /\ g[3] \in Register
         /\ g[4] \in Register /\ g[5] \in Register /\ g[6] \in Register /\ g[7] \in Register
         /\ g[8] \in Register
  OBVIOUS
<1>12. /\ g[1] = Feed(p, g[0], BitsOf(b)[1])
       /\ g[2] = Feed(p, g[1], BitsOf(b)[2])
       /\ g[3] = Feed(p, g[2], BitsOf(b)[3])
       /\ g[4] = Feed(p, g[3], BitsOf(b)[4])
       /\ g[5] = Feed(p, g[4], BitsOf(b)[5])
       /\ g[6] = Feed(p, g[5], BitsOf(b)[6])
       /\ g[7] = Feed(p, g[6], BitsOf(b)[7])
       /\ g[8] = Feed(p, g[7], BitsOf(b)[8])
  OBVIOUS
<1>13. Turn1(p, XorR(g[0], Upper(n0))) = XorR(g[1], Upper(n1))
  BY <1>10, <1>11, <1>12, FeedOne
<1>14. Turn1(p, XorR(g[1], Upper(n1))) = XorR(g[2], Upper(n2))
  BY <1>10, <1>11, <1>12, FeedOne
<1>15. Turn1(p, XorR(g[2], Upper(n2))) = XorR(g[3], Upper(n3))
  BY <1>10, <1>11, <1>12, FeedOne
<1>16. Turn1(p, XorR(g[3], Upper(n3))) = XorR(g[4], Upper(n4))
  BY <1>10, <1>11, <1>12, FeedOne
<1>17. Turn1(p, XorR(g[4], Upper(n4))) = XorR(g[5], Upper(n5))
  BY <1>10, <1>11, <1>12, FeedOne
<1>18. Turn1(p, XorR(g[5], Upper(n5))) = XorR(g[6], Upper(n6))
  BY <1>10, <1>11, <1>12, FeedOne
<1>19. Turn1(p, XorR(g[6], Upper(n6))) = XorR(g[7], Upper(n7))
  BY <1>10, <1>11, <1>12, FeedOne
<1>20. Turn1(p, XorR(g[7], Upper(n7))) = XorR(g[8], Upper(n8))
  BY <1>10, <1>11, <1>12, FeedOne
<1>21. Turn8(p, XorR(g[0], Upper(n0))) = XorR(g[8], Upper(n8))
  BY <1>13, <1>14, <1>15, <1>16, <1>17, <1>18, <1>19, <1>20 DEF Turn2, Turn4, Turn8
<1>22. XorR(g[8], Upper(n8)) = g[8]
  <2>1. Upper(n8) = Cleared
    BY <1>10 DEF Upper, Cleared
  <2> QED BY <1>11, <2>1, XorRIs
<1> QED BY <1>10, <1>21, <1>22

(* A turn that loses no bit.                                               *)
LEMMA TurnLow ==
    ASSUME NEW p \in Register, NEW x \in Word16, NEW y \in Word16, x < 32768
    PROVE  Turn1(p, <<x, y>>) = <<2 * x + (y \div 32768), (2 * y) % 65536>>
<1>1. <<x, y>> \in Register /\ <<x, y>>[1] = x /\ <<x, y>>[2] = y
  BY DEF Register
<1>2. x \in Nat /\ x \div 32768 = 0 /\ (2 * x) % 65536 = 2 * x
  BY DEF Word16
<1>3. Top(<<x, y>>) = 0
  BY <1>1, <1>2 DEF Top
<1>4. (2 * y) % 65536 \in Nat /\ 0 \div 32768 = 0
  BY DEF Word16
<1>5. ShiftR(<<x, y>>) = <<2 * x + (y \div 32768), (2 * y) % 65536>>
  BY <1>1, <1>2, <1>4 DEF ShiftR, Shift
<1>6. If(p, 0) = Cleared
  BY DEF If
<1>7. ShiftR(<<x, y>>) \in Register
  BY <1>1, ShiftRIs
<1>8. Turn1(p, <<x, y>>) = XorR(ShiftR(<<x, y>>), Cleared)
  BY <1>1, <1>3, <1>6, Turn1Is
<1>9. XorR(ShiftR(<<x, y>>), Cleared) = ShiftR(<<x, y>>)
  BY <1>7, XorRIs, ClearedType
<1> QED BY <1>5, <1>8, <1>9

(* Eight turns of a register whose highest byte is zero.                   *)
LEMMA LowerHalf ==
    ASSUME NEW m \in Word16
    PROVE  /\ 1 * (m % 65536) \in Word16 /\ (2 * (1 * (m % 65536))) % 65536 = 2 * (m % 32768)
              /\ (1 * (m % 65536)) \div 32768 = (m \div 32768) % 2
           /\ 2 * (m % 32768) \in Word16 /\ (2 * (2 * (m % 32768))) % 65536 = 4 * (m % 16384)
              /\ (2 * (m % 32768)) \div 32768 = (m \div 16384) % 2
           /\ 4 * (m % 16384) \in Word16 /\ (2 * (4 * (m % 16384))) % 65536 = 8 * (m % 8192)
              /\ (4 * (m % 16384)) \div 32768 = (m \div 8192) % 2
           /\ 8 * (m % 8192) \in Word16 /\ (2 * (8 * (m % 8192))) % 65536 = 16 * (m % 4096)
              /\ (8 * (m % 8192)) \div 32768 = (m \div 4096) % 2
           /\ 16 * (m % 4096) \in Word16 /\ (2 * (16 * (m % 4096))) % 65536 = 32 * (m % 2048)
              /\ (16 * (m % 4096)) \div 32768 = (m \div 2048) % 2
           /\ 32 * (m % 2048) \in Word16 /\ (2 * (32 * (m % 2048))) % 65536 = 64 * (m % 1024)
              /\ (32 * (m % 2048)) \div 32768 = (m \div 1024) % 2
           /\ 64 * (m % 1024) \in Word16 /\ (2 * (64 * (m % 1024))) % 65536 = 128 * (m % 512)
              /\ (64 * (m % 1024)) \div 32768 = (m \div 512) % 2
           /\ 128 * (m % 512) \in Word16 /\ (2 * (128 * (m % 512))) % 65536 = 256 * (m % 256)
              /\ (128 * (m % 512)) \div 32768 = (m \div 256) % 2
           /\ 1 * (m % 65536) = m
<1>0. m \in Nat /\ m < 65536
  BY DEF Word16
<1>1. /\ 1 * (m % 65536) \in Word16 /\ (2 * (1 * (m % 65536))) % 65536 = 2 * (m % 32768)
      /\ (1 * (m % 65536)) \div 32768 = (m \div 32768) % 2
  <2>1. m % 65536 \in Nat /\ m % 65536 < 65536
    BY <1>0
  <2>2. 1 * (m % 65536) \in Nat /\ 1 * (m % 65536) < 65536
    BY <2>1
  <2>3. (2 * (1 * (m % 65536))) % 65536 = 2 * (m % 32768)
    BY <1>0
  <2>4. (1 * (m % 65536)) \div 32768 = (m \div 32768) % 2
    BY <1>0
  <2> QED BY <2>2, <2>3, <2>4 DEF Word16
<1>2. /\ 2 * (m % 32768) \in Word16 /\ (2 * (2 * (m % 32768))) % 65536 = 4 * (m % 16384)
      /\ (2 * (m % 32768)) \div 32768 = (m \div 16384) % 2
  <2>1. m % 32768 \in Nat /\ m % 32768 < 32768
    BY <1>0
  <2>2. 2 * (m % 32768) \in Nat /\ 2 * (m % 32768) < 65536
    BY <2>1
  <2>3. (2 * (2 * (m % 32768))) % 65536 = 4 * (m % 16384)
    BY <1>0
  <2>4. (2 * (m % 32768)) \div 32768 = (m \div 16384) % 2
    BY <1>0
  <2> QED BY <2>2, <2>3, <2>4 DEF Word16
<1>3. /\ 4 * (m % 16384) \in Word16 /\ (2 * (4 * (m % 16384))) % 65536 = 8 * (m % 8192)
      /\ (4 * (m % 16384)) \div 32768 = (m \div 8192) % 2
  <2>1. m % 16384 \in Nat /\ m % 16384 < 16384
    BY <1>0
  <2>2. 4 * (m % 16384) \in Nat /\ 4 * (m % 16384) < 65536
    BY <2>1
  <2>3. (2 * (4 * (m % 16384))) % 65536 = 8 * (m % 8192)
    BY <1>0
  <2>4. (4 * (m % 16384)) \div 32768 = (m \div 8192) % 2
    BY <1>0
  <2> QED BY <2>2, <2>3, <2>4 DEF Word16
<1>4. /\ 8 * (m % 8192) \in Word16 /\ (2 * (8 * (m % 8192))) % 65536 = 16 * (m % 4096)
      /\ (8 * (m % 8192)) \div 32768 = (m \div 4096) % 2
  <2>1. m % 8192 \in Nat /\ m % 8192 < 8192
    BY <1>0
  <2>2. 8 * (m % 8192) \in Nat /\ 8 * (m % 8192) < 65536
    BY <2>1
  <2>3. (2 * (8 * (m % 8192))) % 65536 = 16 * (m % 4096)
    BY <1>0
  <2>4. (8 * (m % 8192)) \div 32768 = (m \div 4096) % 2
    BY <1>0
  <2> QED BY <2>2, <2>3, <2>4 DEF Word16
<1>5. /\ 16 * (m % 4096) \in Word16 /\ (2 * (16 * (m % 4096))) % 65536 = 32 * (m % 2048)
      /\ (16 * (m % 4096)) \div 32768 = (m \div 2048) % 2
  <2>1. m % 4096 \in Nat /\ m % 4096 < 4096
    BY <1>0
  <2>2. 16 * (m % 4096) \in Nat /\ 16 * (m % 4096) < 65536
    BY <2>1
  <2>3. (2 * (16 * (m % 4096))) % 65536 = 32 * (m % 2048)
    BY <1>0
  <2>4. (16 * (m % 4096)) \div 32768 = (m \div 2048) % 2
    BY <1>0
  <2> QED BY <2>2, <2>3, <2>4 DEF Word16
<1>6. /\ 32 * (m % 2048) \in Word16 /\ (2 * (32 * (m % 2048))) % 65536 = 64 * (m % 1024)
      /\ (32 * (m % 2048)) \div 32768 = (m \div 1024) % 2
  <2>1. m % 2048 \in Nat /\ m % 2048 < 2048
    BY <1>0
  <2>2. 32 * (m % 2048) \in Nat /\ 32 * (m % 2048) < 65536
    BY <2>1
  <2>3. (2 * (32 * (m % 2048))) % 65536 = 64 * (m % 1024)
    BY <1>0
  <2>4. (32 * (m % 2048)) \div 32768 = (m \div 1024) % 2
    BY <1>0
  <2> QED BY <2>2, <2>3, <2>4 DEF Word16
<1>7. /\ 64 * (m % 1024) \in Word16 /\ (2 * (64 * (m % 1024))) % 65536 = 128 * (m % 512)
      /\ (64 * (m % 1024)) \div 32768 = (m \div 512) % 2
  <2>1. m % 1024 \in Nat /\ m % 1024 < 1024
    BY <1>0
  <2>2. 64 * (m % 1024) \in Nat /\ 64 * (m % 1024) < 65536
    BY <2>1
  <2>3. (2 * (64 * (m % 1024))) % 65536 = 128 * (m % 512)
    BY <1>0
  <2>4. (64 * (m % 1024)) \div 32768 = (m \div 512) % 2
    BY <1>0
  <2> QED BY <2>2, <2>3, <2>4 DEF Word16
<1>8. /\ 128 * (m % 512) \in Word16 /\ (2 * (128 * (m % 512))) % 65536 = 256 * (m % 256)
      /\ (128 * (m % 512)) \div 32768 = (m \div 256) % 2
  <2>1. m % 512 \in Nat /\ m % 512 < 512
    BY <1>0
  <2>2. 128 * (m % 512) \in Nat /\ 128 * (m % 512) < 65536
    BY <2>1
  <2>3. (2 * (128 * (m % 512))) % 65536 = 256 * (m % 256)
    BY <1>0
  <2>4. (128 * (m % 512)) \div 32768 = (m \div 256) % 2
    BY <1>0
  <2> QED BY <2>2, <2>3, <2>4 DEF Word16
<1>9. 1 * (m % 65536) = m
  BY <1>0
<1> QED BY <1>1, <1>2, <1>3, <1>4, <1>5, <1>6, <1>7, <1>8, <1>9

(* The upper half of a register while a low byte moves through eight       *)
(* turns.                                                                  *)
LEMMA UpperHalf ==
    ASSUME NEW l \in Byte, NEW m \in Word16
    PROVE  /\ 1 * l + (m \div 65536) \in Word16 /\ 1 * l + (m \div 65536) < 32768
              /\ 2 * (1 * l + (m \div 65536)) + ((m \div 32768) % 2) = 2 * l + (m \div 32768)
           /\ 2 * l + (m \div 32768) \in Word16 /\ 2 * l + (m \div 32768) < 32768
              /\ 2 * (2 * l + (m \div 32768)) + ((m \div 16384) % 2) = 4 * l + (m \div 16384)
           /\ 4 * l + (m \div 16384) \in Word16 /\ 4 * l + (m \div 16384) < 32768
              /\ 2 * (4 * l + (m \div 16384)) + ((m \div 8192) % 2) = 8 * l + (m \div 8192)
           /\ 8 * l + (m \div 8192) \in Word16 /\ 8 * l + (m \div 8192) < 32768
              /\ 2 * (8 * l + (m \div 8192)) + ((m \div 4096) % 2) = 16 * l + (m \div 4096)
           /\ 16 * l + (m \div 4096) \in Word16 /\ 16 * l + (m \div 4096) < 32768
              /\ 2 * (16 * l + (m \div 4096)) + ((m \div 2048) % 2) = 32 * l + (m \div 2048)
           /\ 32 * l + (m \div 2048) \in Word16 /\ 32 * l + (m \div 2048) < 32768
              /\ 2 * (32 * l + (m \div 2048)) + ((m \div 1024) % 2) = 64 * l + (m \div 1024)
           /\ 64 * l + (m \div 1024) \in Word16 /\ 64 * l + (m \div 1024) < 32768
              /\ 2 * (64 * l + (m \div 1024)) + ((m \div 512) % 2) = 128 * l + (m \div 512)
           /\ 128 * l + (m \div 512) \in Word16 /\ 128 * l + (m \div 512) < 32768
              /\ 2 * (128 * l + (m \div 512)) + ((m \div 256) % 2) = 256 * l + (m \div 256)
           /\ 1 * l + (m \div 65536) = l
<1>0. m \in Nat /\ m < 65536 /\ l \in Nat /\ l < 256
  BY ByteIs DEF Word16
<1>1. /\ 1 * l + (m \div 65536) \in Word16 /\ 1 * l + (m \div 65536) < 32768
      /\ 2 * (1 * l + (m \div 65536)) + ((m \div 32768) % 2) = 2 * l + (m \div 32768)
  <2>1. 1 * l + (m \div 65536) \in Nat /\ 1 * l + (m \div 65536) < 32768
    BY <1>0
  <2>2. 2 * (1 * l + (m \div 65536)) + ((m \div 32768) % 2) = 2 * l + (m \div 32768)
    BY <1>0
  <2> QED BY <2>1, <2>2 DEF Word16
<1>2. /\ 2 * l + (m \div 32768) \in Word16 /\ 2 * l + (m \div 32768) < 32768
      /\ 2 * (2 * l + (m \div 32768)) + ((m \div 16384) % 2) = 4 * l + (m \div 16384)
  <2>1. 2 * l + (m \div 32768) \in Nat /\ 2 * l + (m \div 32768) < 32768
    BY <1>0
  <2>2. 2 * (2 * l + (m \div 32768)) + ((m \div 16384) % 2) = 4 * l + (m \div 16384)
    BY <1>0
  <2> QED BY <2>1, <2>2 DEF Word16
<1>3. /\ 4 * l + (m \div 16384) \in Word16 /\ 4 * l + (m \div 16384) < 32768
      /\ 2 * (4 * l + (m \div 16384)) + ((m \div 8192) % 2) = 8 * l + (m \div 8192)
  <2>1. 4 * l + (m \div 16384) \in Nat /\ 4 * l + (m \div 16384) < 32768
    BY <1>0
  <2>2. 2 * (4 * l + (m \div 16384)) + ((m \div 8192) % 2) = 8 * l + (m \div 8192)
    BY <1>0
  <2> QED BY <2>1, <2>2 DEF Word16
<1>4. /\ 8 * l + (m \div 8192) \in Word16 /\ 8 * l + (m \div 8192) < 32768
      /\ 2 * (8 * l + (m \div 8192)) + ((m \div 4096) % 2) = 16 * l + (m \div 4096)
  <2>1. 8 * l + (m \div 8192) \in Nat /\ 8 * l + (m \div 8192) < 32768
    BY <1>0
  <2>2. 2 * (8 * l + (m \div 8192)) + ((m \div 4096) % 2) = 16 * l + (m \div 4096)
    BY <1>0
  <2> QED BY <2>1, <2>2 DEF Word16
<1>5. /\ 16 * l + (m \div 4096) \in Word16 /\ 16 * l + (m \div 4096) < 32768
      /\ 2 * (16 * l + (m \div 4096)) + ((m \div 2048) % 2) = 32 * l + (m \div 2048)
  <2>1. 16 * l + (m \div 4096) \in Nat /\ 16 * l + (m \div 4096) < 32768
    BY <1>0
  <2>2. 2 * (16 * l + (m \div 4096)) + ((m \div 2048) % 2) = 32 * l + (m \div 2048)
    BY <1>0
  <2> QED BY <2>1, <2>2 DEF Word16
<1>6. /\ 32 * l + (m \div 2048) \in Word16 /\ 32 * l + (m \div 2048) < 32768
      /\ 2 * (32 * l + (m \div 2048)) + ((m \div 1024) % 2) = 64 * l + (m \div 1024)
  <2>1. 32 * l + (m \div 2048) \in Nat /\ 32 * l + (m \div 2048) < 32768
    BY <1>0
  <2>2. 2 * (32 * l + (m \div 2048)) + ((m \div 1024) % 2) = 64 * l + (m \div 1024)
    BY <1>0
  <2> QED BY <2>1, <2>2 DEF Word16
<1>7. /\ 64 * l + (m \div 1024) \in Word16 /\ 64 * l + (m \div 1024) < 32768
      /\ 2 * (64 * l + (m \div 1024)) + ((m \div 512) % 2) = 128 * l + (m \div 512)
  <2>1. 64 * l + (m \div 1024) \in Nat /\ 64 * l + (m \div 1024) < 32768
    BY <1>0
  <2>2. 2 * (64 * l + (m \div 1024)) + ((m \div 512) % 2) = 128 * l + (m \div 512)
    BY <1>0
  <2> QED BY <2>1, <2>2 DEF Word16
<1>8. /\ 128 * l + (m \div 512) \in Word16 /\ 128 * l + (m \div 512) < 32768
      /\ 2 * (128 * l + (m \div 512)) + ((m \div 256) % 2) = 256 * l + (m \div 256)
  <2>1. 128 * l + (m \div 512) \in Nat /\ 128 * l + (m \div 512) < 32768
    BY <1>0
  <2>2. 2 * (128 * l + (m \div 512)) + ((m \div 256) % 2) = 256 * l + (m \div 256)
    BY <1>0
  <2> QED BY <2>1, <2>2 DEF Word16
<1>9. 1 * l + (m \div 65536) = l
  BY <1>0
<1> QED BY <1>1, <1>2, <1>3, <1>4, <1>5, <1>6, <1>7, <1>8, <1>9

(* Eight turns of a register whose top byte is zero only move its bytes.   *)
LEMMA TurnedLow ==
    ASSUME NEW p \in Register, NEW l \in Byte, NEW m \in Word16
    PROVE  Turn8(p, <<l, m>>) = <<256 * l + (m \div 256), (256 * m) % 65536>>
<1>0. PICK x0, y0 : x0 = 1 * l + (m \div 65536) /\ y0 = 1 * (m % 65536)
  OBVIOUS
<1>1. PICK x1, y1 : x1 = 2 * l + (m \div 32768) /\ y1 = 2 * (m % 32768)
  OBVIOUS
<1>2. PICK x2, y2 : x2 = 4 * l + (m \div 16384) /\ y2 = 4 * (m % 16384)
  OBVIOUS
<1>3. PICK x3, y3 : x3 = 8 * l + (m \div 8192) /\ y3 = 8 * (m % 8192)
  OBVIOUS
<1>4. PICK x4, y4 : x4 = 16 * l + (m \div 4096) /\ y4 = 16 * (m % 4096)
  OBVIOUS
<1>5. PICK x5, y5 : x5 = 32 * l + (m \div 2048) /\ y5 = 32 * (m % 2048)
  OBVIOUS
<1>6. PICK x6, y6 : x6 = 64 * l + (m \div 1024) /\ y6 = 64 * (m % 1024)
  OBVIOUS
<1>7. PICK x7, y7 : x7 = 128 * l + (m \div 512) /\ y7 = 128 * (m % 512)
  OBVIOUS
<1>8. PICK x8, y8 : x8 = 256 * l + (m \div 256) /\ y8 = 256 * (m % 256)
  OBVIOUS
<1>10. /\ x0 \in Word16 /\ y0 \in Word16 /\ x0 < 32768 /\ 2 * x0 + (y0 \div 32768) = x1
            /\ (2 * y0) % 65536 = y1
       /\ x1 \in Word16 /\ y1 \in Word16 /\ x1 < 32768 /\ 2 * x1 + (y1 \div 32768) = x2
            /\ (2 * y1) % 65536 = y2
       /\ x2 \in Word16 /\ y2 \in Word16 /\ x2 < 32768 /\ 2 * x2 + (y2 \div 32768) = x3
            /\ (2 * y2) % 65536 = y3
       /\ x3 \in Word16 /\ y3 \in Word16 /\ x3 < 32768 /\ 2 * x3 + (y3 \div 32768) = x4
            /\ (2 * y3) % 65536 = y4
       /\ x4 \in Word16 /\ y4 \in Word16 /\ x4 < 32768 /\ 2 * x4 + (y4 \div 32768) = x5
            /\ (2 * y4) % 65536 = y5
       /\ x5 \in Word16 /\ y5 \in Word16 /\ x5 < 32768 /\ 2 * x5 + (y5 \div 32768) = x6
            /\ (2 * y5) % 65536 = y6
       /\ x6 \in Word16 /\ y6 \in Word16 /\ x6 < 32768 /\ 2 * x6 + (y6 \div 32768) = x7
            /\ (2 * y6) % 65536 = y7
       /\ x7 \in Word16 /\ y7 \in Word16 /\ x7 < 32768 /\ 2 * x7 + (y7 \div 32768) = x8
            /\ (2 * y7) % 65536 = y8
  <2>0. x0 \in Word16 /\ y0 \in Word16 /\ x0 < 32768 /\ 2 * x0 + (y0 \div 32768) = x1
          /\ (2 * y0) % 65536 = y1
    BY <1>0, <1>1, LowerHalf, UpperHalf
  <2>1. x1 \in Word16 /\ y1 \in Word16 /\ x1 < 32768 /\ 2 * x1 + (y1 \div 32768) = x2
          /\ (2 * y1) % 65536 = y2
    BY <1>1, <1>2, LowerHalf, UpperHalf
  <2>2. x2 \in Word16 /\ y2 \in Word16 /\ x2 < 32768 /\ 2 * x2 + (y2 \div 32768) = x3
          /\ (2 * y2) % 65536 = y3
    BY <1>2, <1>3, LowerHalf, UpperHalf
  <2>3. x3 \in Word16 /\ y3 \in Word16 /\ x3 < 32768 /\ 2 * x3 + (y3 \div 32768) = x4
          /\ (2 * y3) % 65536 = y4
    BY <1>3, <1>4, LowerHalf, UpperHalf
  <2>4. x4 \in Word16 /\ y4 \in Word16 /\ x4 < 32768 /\ 2 * x4 + (y4 \div 32768) = x5
          /\ (2 * y4) % 65536 = y5
    BY <1>4, <1>5, LowerHalf, UpperHalf
  <2>5. x5 \in Word16 /\ y5 \in Word16 /\ x5 < 32768 /\ 2 * x5 + (y5 \div 32768) = x6
          /\ (2 * y5) % 65536 = y6
    BY <1>5, <1>6, LowerHalf, UpperHalf
  <2>6. x6 \in Word16 /\ y6 \in Word16 /\ x6 < 32768 /\ 2 * x6 + (y6 \div 32768) = x7
          /\ (2 * y6) % 65536 = y7
    BY <1>6, <1>7, LowerHalf, UpperHalf
  <2>7. x7 \in Word16 /\ y7 \in Word16 /\ x7 < 32768 /\ 2 * x7 + (y7 \div 32768) = x8
          /\ (2 * y7) % 65536 = y8
    BY <1>7, <1>8, LowerHalf, UpperHalf
  <2> QED BY <2>0, <2>1, <2>2, <2>3, <2>4, <2>5, <2>6, <2>7
<1>11. x0 = l /\ y0 = m
  BY <1>0, LowerHalf, UpperHalf
<1>12. x8 = 256 * l + (m \div 256) /\ y8 = (256 * m) % 65536
  BY <1>8, TwoBytes
<1>13. Turn1(p, <<x0, y0>>) = <<x1, y1>>
  BY <1>10, TurnLow
<1>14. Turn1(p, <<x1, y1>>) = <<x2, y2>>
  BY <1>10, TurnLow
<1>15. Turn1(p, <<x2, y2>>) = <<x3, y3>>
  BY <1>10, TurnLow
<1>16. Turn1(p, <<x3, y3>>) = <<x4, y4>>
  BY <1>10, TurnLow
<1>17. Turn1(p, <<x4, y4>>) = <<x5, y5>>
  BY <1>10, TurnLow
<1>18. Turn1(p, <<x5, y5>>) = <<x6, y6>>
  BY <1>10, TurnLow
<1>19. Turn1(p, <<x6, y6>>) = <<x7, y7>>
  BY <1>10, TurnLow
<1>20. Turn1(p, <<x7, y7>>) = <<x8, y8>>
  BY <1>10, TurnLow
<1>21. Turn8(p, <<x0, y0>>) = <<x8, y8>>
  BY <1>13, <1>14, <1>15, <1>16, <1>17, <1>18, <1>19, <1>20 DEF Turn2, Turn4, Turn8
<1> QED BY <1>11, <1>12, <1>21

(* An odd byte is an even one with the lowest bit.                         *)
LEMMA OddByte ==
    ASSUME NEW k \in 0 .. 127
    PROVE  /\ 2 * k \in Byte /\ 2 * k + 1 \in Byte /\ k \in Byte
           /\ Xor(2 * k, 1) = 2 * k + 1
<1>1. 2 * k \in Byte /\ 2 * k + 1 \in Byte /\ k \in Byte
  BY DEF Byte
<1>2. k \in Word16 /\ k \in Nat /\ 0 \in Word16 /\ 32768 \in Word16
  BY DEF Word16
<1>3. (2 * k) % 65536 = 2 * k /\ 32768 \div 32768 = 1 /\ 0 \div 32768 = 0 /\ (2 * 0) % 65536 = 0
  BY <1>2
<1>4. /\ Shift(k, 0) = 2 * k /\ Shift(0, 32768) = 1 /\ Shift(k, 32768) = 2 * k + 1
  BY <1>2, <1>3 DEF Shift
<1>5. Xor(k, 0) = k /\ Xor(0, 32768) = 32768
  BY <1>2, XorZero
<1>6. IsLinear(k, 0, 0, 32768)
  BY <1>2, ShiftLinear
<1>7. Shift(Xor(k, 0), Xor(0, 32768)) = Xor(Shift(k, 0), Shift(0, 32768))
  BY <1>6 DEF IsLinear
<1> QED BY <1>1, <1>4, <1>5, <1>7

(* A turn of a small number in the upper half.                             *)
LEMMA TurnUpper ==
    ASSUME NEW p \in Register, NEW n \in Word16, n < 32768
    PROVE  Turn1(p, Upper(n)) = Upper(2 * n) /\ 2 * n \in Word16
<1>1. n \in Nat /\ 0 \div 32768 = 0 /\ (2 * 0) % 65536 = 0 /\ 0 \in Word16
  BY DEF Word16
<1>2. 2 * n \in Word16
  BY <1>1 DEF Word16
<1>3. Turn1(p, <<n, 0>>) = <<2 * n + (0 \div 32768), (2 * 0) % 65536>>
  BY <1>1, TurnLow
<1>4. 2 * n + 0 = 2 * n
  BY <1>1
<1> QED BY <1>1, <1>2, <1>3, <1>4 DEF Upper

(* Where the bits of a byte have gone after it was at the top: T[b] is the *)
(* remainder of byte b, as the rows of a table are related to each other.  *)
IsTable(T, p) ==
    /\ T[0] = Cleared /\ T[1] = p
    /\ \A k \in 0 .. 127 : T[2 * k] = Turn1(p, T[k]) /\ T[2 * k + 1] = XorR(T[2 * k], p)

(* The row of a table for the byte 0.                                      *)
LEMMA TurnedZero ==
    ASSUME NEW p \in Register
    PROVE  Turn8(p, Upper(256 * 0)) = Cleared
<1>1. Upper(256 * 0) = Cleared
  BY DEF Upper, Cleared
<1>2. Cleared \in Register /\ XorR(Cleared, Cleared) = Cleared
  BY ClearedType, XorRIs
<1>3. Turn8(p, Cleared) \in Register
  BY <1>2, Turn8Type
<1>4. Turn8(p, XorR(Cleared, Cleared)) = XorR(Turn8(p, Cleared), Turn8(p, Cleared))
  BY <1>2, Turn8Linear
<1>5. XorR(Turn8(p, Cleared), Turn8(p, Cleared)) = Cleared
  BY <1>3, XorRIs
<1> QED BY <1>1, <1>2, <1>4, <1>5

(* The row of a table for the byte 1: the polynomial.                      *)
LEMMA TurnedOne ==
    ASSUME NEW p \in Register
    PROVE  Turn8(p, Upper(256)) = p
<1>1. /\ 256 \in Word16 /\ 512 \in Word16 /\ 1024 \in Word16 /\ 2048 \in Word16
      /\ 4096 \in Word16 /\ 8192 \in Word16 /\ 16384 \in Word16 /\ 32768 \in Word16
  BY DEF Word16
<1>2. Turn1(p, Upper(256)) = Upper(512)
  <2>1. Turn1(p, Upper(256)) = Upper(2 * 256)
    BY <1>1, TurnUpper
  <2> QED BY <2>1
<1>3. Turn1(p, Upper(512)) = Upper(1024)
  <2>1. Turn1(p, Upper(512)) = Upper(2 * 512)
    BY <1>1, TurnUpper
  <2> QED BY <2>1
<1>4. Turn1(p, Upper(1024)) = Upper(2048)
  <2>1. Turn1(p, Upper(1024)) = Upper(2 * 1024)
    BY <1>1, TurnUpper
  <2> QED BY <2>1
<1>5. Turn1(p, Upper(2048)) = Upper(4096)
  <2>1. Turn1(p, Upper(2048)) = Upper(2 * 2048)
    BY <1>1, TurnUpper
  <2> QED BY <2>1
<1>6. Turn1(p, Upper(4096)) = Upper(8192)
  <2>1. Turn1(p, Upper(4096)) = Upper(2 * 4096)
    BY <1>1, TurnUpper
  <2> QED BY <2>1
<1>7. Turn1(p, Upper(8192)) = Upper(16384)
  <2>1. Turn1(p, Upper(8192)) = Upper(2 * 8192)
    BY <1>1, TurnUpper
  <2> QED BY <2>1
<1>8. Turn1(p, Upper(16384)) = Upper(32768)
  <2>1. Turn1(p, Upper(16384)) = Upper(2 * 16384)
    BY <1>1, TurnUpper
  <2> QED BY <2>1
<1>9. Turn1(p, Upper(32768)) = p
  <2>1. Upper(32768) \in Register /\ Top(Upper(32768)) = 32768 \div 32768
        /\ ShiftR(Upper(32768)) = Upper((2 * 32768) % 65536)
    BY <1>1, UpperIs
  <2>2. 32768 \div 32768 = 1 /\ (2 * 32768) % 65536 = 0
    OBVIOUS
  <2>3. ShiftR(Upper(32768)) = Cleared
    BY <2>1, <2>2 DEF Upper, Cleared
  <2>4. If(p, 1) = p
    BY DEF If
  <2>5. Turn1(p, Upper(32768)) = XorR(Cleared, p)
    BY <2>1, <2>2, <2>3, <2>4, Turn1Is
  <2>6. XorR(Cleared, p) = p
    BY XorRIs, ClearedType
  <2> QED BY <2>5, <2>6
<1> QED BY <1>2, <1>3, <1>4, <1>5, <1>6, <1>7, <1>8, <1>9 DEF Turn2, Turn4, Turn8

(* Row 2 k of a table is the remainder of byte 2 k if row k is that of k.   *)
LEMMA EvenRow ==
    ASSUME NEW p \in Register, NEW T, IsTable(T, p), NEW k \in 0 .. 127,
           T[k] = Turn8(p, Upper(256 * k))
    PROVE  T[2 * k] = Turn8(p, Upper(256 * (2 * k)))
<1>1. 256 * k \in Word16 /\ 256 * k < 32768
  BY DEF Word16
<1>2. 2 * (256 * k) = 256 * (2 * k)
  OBVIOUS
<1>3. Turn1(p, Upper(256 * k)) = Upper(256 * (2 * k))
  BY <1>1, <1>2, TurnUpper
<1>4. T[2 * k] = Turn1(p, T[k])
  BY DEF IsTable
<1>5. Turn8(p, Turn1(p, Upper(256 * k))) = Turn1(p, Turn8(p, Upper(256 * k)))
  BY Turn8Later
<1> QED BY <1>3, <1>4, <1>5

(* The row of an odd byte follows from that before it.                     *)
LEMMA OddRow ==
    ASSUME NEW p \in Register, NEW T, IsTable(T, p), NEW k \in 0 .. 127,
           T[2 * k] = Turn8(p, Upper(256 * (2 * k)))
    PROVE  T[2 * k + 1] = Turn8(p, Upper(256 * (2 * k + 1)))
<1>1. 2 * k \in Byte /\ 2 * k + 1 \in Byte /\ Xor(2 * k, 1) = 2 * k + 1 /\ 1 \in Byte
  BY OddByte DEF Byte
<1>2. Xor(256 * (2 * k), 256 * 1) = 256 * (2 * k + 1)
  BY <1>1, XorHigh
<1>3. 256 * (2 * k) \in Word16 /\ 256 \in Word16 /\ 256 * 1 = 256
  BY <1>1, ByteIs DEF Word16
<1>4. Upper(256 * (2 * k)) \in Register /\ Upper(256) \in Register
  BY <1>3, UpperIs
<1>5. XorR(Upper(256 * (2 * k)), Upper(256)) = Upper(256 * (2 * k + 1))
  <2>1. Xor(0, 0) = 0
    BY ZeroWord, XorZero
  <2>2. Xor(256 * (2 * k), 256) = 256 * (2 * k + 1)
    BY <1>2, <1>3
  <2> QED BY <2>1, <2>2 DEF XorR, Upper
<1>6. Turn8(p, XorR(Upper(256 * (2 * k)), Upper(256))) = XorR(Turn8(p, Upper(256 * (2 * k))),
        Turn8(p, Upper(256)))
  BY <1>4, Turn8Linear
<1>7. T[2 * k + 1] = XorR(T[2 * k], p)
  BY DEF IsTable
<1> QED BY <1>5, <1>6, <1>7, TurnedOne

(* A table of that kind has the remainder of every byte.                   *)
LEMMA TableIs ==
    ASSUME NEW p \in Register, NEW T, IsTable(T, p)
    PROVE  \A b \in Byte : T[b] = Turn8(p, Upper(256 * b))
<1> DEFINE S == {b \in Byte : T[b] # Turn8(p, Upper(256 * b))}
<1> SUFFICES ASSUME S # {} PROVE FALSE
  OBVIOUS
<1>1. S \in SUBSET Nat
  BY ByteIs
<1>2. PICK b \in S : \A c \in S : b <= c
  <2> HIDE DEF S
  <2> QED BY <1>1, LeastOf
<1>3. b \in Byte /\ b \in Nat /\ b < 256
  BY <1>2, ByteIs
<1>4. \A c \in Byte : c < b => T[c] = Turn8(p, Upper(256 * c))
  <2>1. ASSUME NEW c \in Byte, c < b PROVE c \notin S
    <3>1. c \in Nat
      BY ByteIs
    <3>2. ~(b <= c)
      BY <1>3, <2>1, <3>1
    <3> QED BY <1>2, <3>2
  <2> QED BY <2>1
<1>5. PICK k \in 0 .. 127 : b = 2 * k \/ b = 2 * k + 1
  <2>1. b \div 2 \in 0 .. 127 /\ (b = 2 * (b \div 2) \/ b = 2 * (b \div 2) + 1)
    BY <1>3
  <2> QED BY <2>1
<1>6. T[2 * k] = Turn8(p, Upper(256 * (2 * k)))
  <2>1. T[k] = Turn8(p, Upper(256 * k))
    <3>1. CASE k = 0
      BY <3>1, TurnedZero DEF IsTable
    <3>2. CASE k # 0
      <4>1. k \in Byte /\ k < b
        BY <1>5, <3>2, OddByte
      <4> QED BY <1>4, <4>1
    <3> QED BY <3>1, <3>2
  <2> QED BY <2>1, EvenRow
<1>7. T[2 * k + 1] = Turn8(p, Upper(256 * (2 * k + 1)))
  BY <1>6, OddRow
<1> QED BY <1>2, <1>5, <1>6, <1>7

(* A byte at a time: what is left of the register, and a row of the table. *)
LEMMA ByteStep ==
    ASSUME NEW p \in Register, NEW T, IsTable(T, p), NEW c \in Register, NEW b \in Byte
    PROVE  /\ Xor(c[1] \div 256, b) \in Byte
           /\ Turn8(p, XorR(c, Upper(256 * b)))
              = XorR(<<256 * (c[1] % 256) + (c[2] \div 256), (256 * c[2]) % 65536>>,
                     T[Xor(c[1] \div 256, b)])
<1>1. c[1] \in Word16 /\ c[2] \in Word16 /\ c = <<c[1], c[2]>>
  BY RegisterIs
<1>2. PICK h \in Byte : h = c[1] \div 256
  BY <1>1, TwoBytes
<1>3. PICK l \in Byte : l = c[1] % 256
  BY <1>1, TwoBytes
<1>4. c[1] = Xor(256 * h, l)
  BY <1>1, <1>2, <1>3, XorTwoBytes
<1>5. PICK low : low = <<l, c[2]>>
  OBVIOUS
<1>6. low \in Register /\ low[1] = l /\ low[2] = c[2]
  BY <1>1, <1>5, ByteIs DEF Register
<1>7. Upper(256 * h) \in Register /\ Upper(256 * b) \in Register
  BY ByteIs, UpperIs
<1>8. c = XorR(Upper(256 * h), low)
  <2>1. Xor(0, c[2]) = c[2]
    BY <1>1, XorZero
  <2>2. Upper(256 * h)[1] = 256 * h /\ Upper(256 * h)[2] = 0
    BY DEF Upper
  <2> QED BY <1>1, <1>4, <1>6, <2>1, <2>2 DEF XorR
<1>9. XorR(c, Upper(256 * b)) = XorR(XorR(Upper(256 * h), Upper(256 * b)), low)
  BY <1>6, <1>7, <1>8, XorRSwap
<1>10. Xor(h, b) \in Byte
  BY XorByte
<1>11. XorR(Upper(256 * h), Upper(256 * b)) = Upper(256 * Xor(h, b))
  <2>1. Xor(0, 0) = 0
    BY ZeroWord, XorZero
  <2>2. Xor(256 * h, 256 * b) = 256 * Xor(h, b)
    BY XorHigh
  <2> QED BY <2>1, <2>2 DEF XorR, Upper
<1>12. Upper(256 * Xor(h, b)) \in Register
  BY <1>10, ByteIs, UpperIs
<1>13. Turn8(p, XorR(Upper(256 * Xor(h, b)), low)) = XorR(Turn8(p, Upper(256 * Xor(h, b))),
         Turn8(p, low))
  BY <1>6, <1>12, Turn8Linear
<1>14. Turn8(p, Upper(256 * Xor(h, b))) = T[Xor(h, b)]
  BY <1>10, TableIs
<1>15. Turn8(p, low) = <<256 * l + (c[2] \div 256), (256 * c[2]) % 65536>>
  BY <1>1, <1>5, TurnedLow
<1>16. Turn8(p, Upper(256 * Xor(h, b))) \in Register /\ Turn8(p, low) \in Register
  BY <1>6, <1>12, Turn8Type
<1>17. Turn8(p, XorR(c, Upper(256 * b))) = XorR(Turn8(p, low), T[Xor(h, b)])
  BY <1>9, <1>11, <1>13, <1>14, <1>16, XorRIs
<1> QED BY <1>2, <1>3, <1>10, <1>15, <1>17

(* One turn of a number of 16 bits, and of the halves of one of 32, with   *)
(* the polynomials of the two tables.                                      *)
Turned16(t) == Xor((2 * t) % 65536, IF t \div 32768 = 1 THEN \h1021 ELSE 0)
Turned32High(t, u) ==
    Xor(((2 * t) % 65536) + (u \div 32768), IF t \div 32768 = 1 THEN \h04c1 ELSE 0)
Turned32Low(t, u) == Xor((2 * u) % 65536, IF t \div 32768 = 1 THEN \h1db7 ELSE 0)

(* The rows of the tables for bytes 2 k and 2 k + 1 follow from that of k.  *)
Row16(k) ==
    /\ crc16table[k + 1] \in Word16
    /\ crc16table[2 * k + 1] = Turned16(crc16table[k + 1])
    /\ crc16table[2 * k + 2] = Xor(crc16table[2 * k + 1], \h1021)
Row32(k) ==
    /\ crc32high[k + 1] \in Word16 /\ crc32low[k + 1] \in Word16
    /\ crc32high[2 * k + 1] = Turned32High(crc32high[k + 1], crc32low[k + 1])
    /\ crc32low[2 * k + 1] = Turned32Low(crc32high[k + 1], crc32low[k + 1])
    /\ crc32high[2 * k + 2] = Xor(crc32high[2 * k + 1], \h04c1)
    /\ crc32low[2 * k + 2] = Xor(crc32low[2 * k + 1], \h1db7)

(* Rows 0 to 15 of crc16table, two for each k.                             *)
LEMMA Rows16From0 == \A k \in 0 .. 7 : Row16(k)
<1>1. /\ crc16table[1] = \h0000 /\ crc16table[2] = \h1021 /\ crc16table[3] = \h2042
     /\ crc16table[4] = \h3063 /\ crc16table[5] = \h4084 /\ crc16table[6] = \h50a5
     /\ crc16table[7] = \h60c6 /\ crc16table[8] = \h70e7 /\ crc16table[9] = \h8108
     /\ crc16table[10] = \h9129 /\ crc16table[11] = \ha14a /\ crc16table[12] = \hb16b
     /\ crc16table[13] = \hc18c /\ crc16table[14] = \hd1ad /\ crc16table[15] = \he1ce
     /\ crc16table[16] = \hf1ef
  BY DEF crc16table
<1>2. /\ Turned16(\h0000) = \h0000 /\ Turned16(\h1021) = \h2042
     /\ Turned16(\h2042) = \h4084 /\ Turned16(\h3063) = \h60c6
     /\ Turned16(\h4084) = \h8108 /\ Turned16(\h50a5) = \ha14a
     /\ Turned16(\h60c6) = \hc18c /\ Turned16(\h70e7) = \he1ce
  BY DEF Turned16, Xor
<1>3. /\ Xor(\h0000, \h1021) = \h1021 /\ Xor(\h2042, \h1021) = \h3063
     /\ Xor(\h4084, \h1021) = \h50a5 /\ Xor(\h60c6, \h1021) = \h70e7
     /\ Xor(\h8108, \h1021) = \h9129 /\ Xor(\ha14a, \h1021) = \hb16b
     /\ Xor(\hc18c, \h1021) = \hd1ad /\ Xor(\he1ce, \h1021) = \hf1ef
  BY DEF Xor
<1>4. /\ \h0000 \in Word16 /\ \h1021 \in Word16 /\ \h2042 \in Word16 /\ \h3063 \in Word16
     /\ \h4084 \in Word16 /\ \h50a5 \in Word16 /\ \h60c6 \in Word16 /\ \h70e7 \in Word16
  BY DEF Word16
<1>5. /\ Row16(0) /\ Row16(1) /\ Row16(2) /\ Row16(3) /\ Row16(4) /\ Row16(5) /\ Row16(6)
     /\ Row16(7)
  BY <1>1, <1>2, <1>3, <1>4 DEF Row16
<1> QED BY <1>5

(* Rows 16 to 31 of crc16table, two for each k.                            *)
LEMMA Rows16From8 == \A k \in 8 .. 15 : Row16(k)
<1>1. /\ crc16table[9] = \h8108 /\ crc16table[10] = \h9129 /\ crc16table[11] = \ha14a
     /\ crc16table[12] = \hb16b /\ crc16table[13] = \hc18c /\ crc16table[14] = \hd1ad
     /\ crc16table[15] = \he1ce /\ crc16table[16] = \hf1ef /\ crc16table[17] = \h1231
     /\ crc16table[18] = \h0210 /\ crc16table[19] = \h3273 /\ crc16table[20] = \h2252
     /\ crc16table[21] = \h52b5 /\ crc16table[22] = \h4294 /\ crc16table[23] = \h72f7
     /\ crc16table[24] = \h62d6 /\ crc16table[25] = \h9339 /\ crc16table[26] = \h8318
     /\ crc16table[27] = \hb37b /\ crc16table[28] = \ha35a /\ crc16table[29] = \hd3bd
     /\ crc16table[30] = \hc39c /\ crc16table[31] = \hf3ff /\ crc16table[32] = \he3de
  BY DEF crc16table
<1>2. /\ Turned16(\h8108) = \h1231 /\ Turned16(\h9129) = \h3273
     /\ Turned16(\ha14a) = \h52b5 /\ Turned16(\hb16b) = \h72f7
     /\ Turned16(\hc18c) = \h9339 /\ Turned16(\hd1ad) = \hb37b
     /\ Turned16(\he1ce) = \hd3bd /\ Turned16(\hf1ef) = \hf3ff
  BY DEF Turned16, Xor
<1>3. /\ Xor(\h1231, \h1021) = \h0210 /\ Xor(\h3273, \h1021) = \h2252
     /\ Xor(\h52b5, \h1021) = \h4294 /\ Xor(\h72f7, \h1021) = \h62d6
     /\ Xor(\h9339, \h1021) = \h8318 /\ Xor(\hb37b, \h1021) = \ha35a
     /\ Xor(\hd3bd, \h1021) = \hc39c /\ Xor(\hf3ff, \h1021) = \he3de
  BY DEF Xor
<1>4. /\ \h8108 \in Word16 /\ \h9129 \in Word16 /\ \ha14a \in Word16 /\ \hb16b \in Word16
     /\ \hc18c \in Word16 /\ \hd1ad \in Word16 /\ \he1ce \in Word16 /\ \hf1ef \in Word16
  BY DEF Word16
<1>5. /\ Row16(8) /\ Row16(9) /\ Row16(10) /\ Row16(11) /\ Row16(12) /\ Row16(13)
     /\ Row16(14) /\ Row16(15)
  BY <1>1, <1>2, <1>3, <1>4 DEF Row16
<1> QED BY <1>5

(* Rows 32 to 47 of crc16table, two for each k.                            *)
LEMMA Rows16From16 == \A k \in 16 .. 23 : Row16(k)
<1>1. /\ crc16table[17] = \h1231 /\ crc16table[18] = \h0210 /\ crc16table[19] = \h3273
     /\ crc16table[20] = \h2252 /\ crc16table[21] = \h52b5 /\ crc16table[22] = \h4294
     /\ crc16table[23] = \h72f7 /\ crc16table[24] = \h62d6 /\ crc16table[33] = \h2462
     /\ crc16table[34] = \h3443 /\ crc16table[35] = \h0420 /\ crc16table[36] = \h1401
     /\ crc16table[37] = \h64e6 /\ crc16table[38] = \h74c7 /\ crc16table[39] = \h44a4
     /\ crc16table[40] = \h5485 /\ crc16table[41] = \ha56a /\ crc16table[42] = \hb54b
     /\ crc16table[43] = \h8528 /\ crc16table[44] = \h9509 /\ crc16table[45] = \he5ee
     /\ crc16table[46] = \hf5cf /\ crc16table[47] = \hc5ac /\ crc16table[48] = \hd58d
  BY DEF crc16table
<1>2. /\ Turned16(\h1231) = \h2462 /\ Turned16(\h0210) = \h0420
     /\ Turned16(\h3273) = \h64e6 /\ Turned16(\h2252) = \h44a4
     /\ Turned16(\h52b5) = \ha56a /\ Turned16(\h4294) = \h8528
     /\ Turned16(\h72f7) = \he5ee /\ Turned16(\h62d6) = \hc5ac
  BY DEF Turned16, Xor
<1>3. /\ Xor(\h2462, \h1021) = \h3443 /\ Xor(\h0420, \h1021) = \h1401
     /\ Xor(\h64e6, \h1021) = \h74c7 /\ Xor(\h44a4, \h1021) = \h5485
     /\ Xor(\ha56a, \h1021) = \hb54b /\ Xor(\h8528, \h1021) = \h9509
     /\ Xor(\he5ee, \h1021) = \hf5cf /\ Xor(\hc5ac, \h1021) = \hd58d
  BY DEF Xor
<1>4. /\ \h1231 \in Word16 /\ \h0210 \in Word16 /\ \h3273 \in Word16 /\ \h2252 \in Word16
     /\ \h52b5 \in Word16 /\ \h4294 \in Word16 /\ \h72f7 \in Word16 /\ \h62d6 \in Word16
  BY DEF Word16
<1>5. /\ Row16(16) /\ Row16(17) /\ Row16(18) /\ Row16(19) /\ Row16(20) /\ Row16(21)
     /\ Row16(22) /\ Row16(23)
  BY <1>1, <1>2, <1>3, <1>4 DEF Row16
<1> QED BY <1>5

(* Rows 48 to 63 of crc16table, two for each k.                            *)
LEMMA Rows16From24 == \A k \in 24 .. 31 : Row16(k)
<1>1. /\ crc16table[25] = \h9339 /\ crc16table[26] = \h8318 /\ crc16table[27] = \hb37b
     /\ crc16table[28] = \ha35a /\ crc16table[29] = \hd3bd /\ crc16table[30] = \hc39c
     /\ crc16table[31] = \hf3ff /\ crc16table[32] = \he3de /\ crc16table[49] = \h3653
     /\ crc16table[50] = \h2672 /\ crc16table[51] = \h1611 /\ crc16table[52] = \h0630
     /\ crc16table[53] = \h76d7 /\ crc16table[54] = \h66f6 /\ crc16table[55] = \h5695
     /\ crc16table[56] = \h46b4 /\ crc16table[57] = \hb75b /\ crc16table[58] = \ha77a
     /\ crc16table[59] = \h9719 /\ crc16table[60] = \h8738 /\ crc16table[61] = \hf7df
     /\ crc16table[62] = \he7fe /\ crc16table[63] = \hd79d /\ crc16table[64] = \hc7bc
  BY DEF crc16table
<1>2. /\ Turned16(\h9339) = \h3653 /\ Turned16(\h8318) = \h1611
     /\ Turned16(\hb37b) = \h76d7 /\ Turned16(\ha35a) = \h5695
     /\ Turned16(\hd3bd) = \hb75b /\ Turned16(\hc39c) = \h9719
     /\ Turned16(\hf3ff) = \hf7df /\ Turned16(\he3de) = \hd79d
  BY DEF Turned16, Xor
<1>3. /\ Xor(\h3653, \h1021) = \h2672 /\ Xor(\h1611, \h1021) = \h0630
     /\ Xor(\h76d7, \h1021) = \h66f6 /\ Xor(\h5695, \h1021) = \h46b4
     /\ Xor(\hb75b, \h1021) = \ha77a /\ Xor(\h9719, \h1021) = \h8738
     /\ Xor(\hf7df, \h1021) = \he7fe /\ Xor(\hd79d, \h1021) = \hc7bc
  BY DEF Xor
<1>4. /\ \h9339 \in Word16 /\ \h8318 \in Word16 /\ \hb37b \in Word16 /\ \ha35a \in Word16
     /\ \hd3bd \in Word16 /\ \hc39c \in Word16 /\ \hf3ff \in Word16 /\ \he3de \in Word16
  BY DEF Word16
<1>5. /\ Row16(24) /\ Row16(25) /\ Row16(26) /\ Row16(27) /\ Row16(28) /\ Row16(29)
     /\ Row16(30) /\ Row16(31)
  BY <1>1, <1>2, <1>3, <1>4 DEF Row16
<1> QED BY <1>5

(* Rows 64 to 79 of crc16table, two for each k.                            *)
LEMMA Rows16From32 == \A k \in 32 .. 39 : Row16(k)
<1>1. /\ crc16table[33] = \h2462 /\ crc16table[34] = \h3443 /\ crc16table[35] = \h0420
     /\ crc16table[36] = \h1401 /\ crc16table[37] = \h64e6 /\ crc16table[38] = \h74c7
     /\ crc16table[39] = \h44a4 /\ crc16table[40] = \h5485 /\ crc16table[65] = \h48c4
     /\ crc16table[66] = \h58e5 /\ crc16table[67] = \h6886 /\ crc16table[68] = \h78a7
     /\ crc16table[69] = \h0840 /\ crc16table[70] = \h1861 /\ crc16table[71] = \h2802
     /\ crc16table[72] = \h3823 /\ crc16table[73] = \hc9cc /\ crc16table[74] = \hd9ed
     /\ crc16table[75] = \he98e /\ crc16table[76] = \hf9af /\ crc16table[77] = \h8948
     /\ crc16table[78] = \h9969 /\ crc16table[79] = \ha90a /\ crc16table[80] = \hb92b
  BY DEF crc16table
<1>2. /\ Turned16(\h2462) = \h48c4 /\ Turned16(\h3443) = \h6886
     /\ Turned16(\h0420) = \h0840 /\ Turned16(\h1401) = \h2802
     /\ Turned16(\h64e6) = \hc9cc /\ Turned16(\h74c7) = \he98e
     /\ Turned16(\h44a4) = \h8948 /\ Turned16(\h5485) = \ha90a
  BY DEF Turned16, Xor
<1>3. /\ Xor(\h48c4, \h1021) = \h58e5 /\ Xor(\h6886, \h1021) = \h78a7
     /\ Xor(\h0840, \h1021) = \h1861 /\ Xor(\h2802, \h1021) = \h3823
     /\ Xor(\hc9cc, \h1021) = \hd9ed /\ Xor(\he98e, \h1021) = \hf9af
     /\ Xor(\h8948, \h1021) = \h9969 /\ Xor(\ha90a, \h1021) = \hb92b
  BY DEF Xor
<1>4. /\ \h2462 \in Word16 /\ \h3443 \in Word16 /\ \h0420 \in Word16 /\ \h1401 \in Word16
     /\ \h64e6 \in Word16 /\ \h74c7 \in Word16 /\ \h44a4 \in Word16 /\ \h5485 \in Word16
  BY DEF Word16
<1>5. /\ Row16(32) /\ Row16(33) /\ Row16(34) /\ Row16(35) /\ Row16(36) /\ Row16(37)
     /\ Row16(38) /\ Row16(39)
  BY <1>1, <1>2, <1>3, <1>4 DEF Row16
<1> QED BY <1>5

(* Rows 80 to 95 of crc16table, two for each k.                            *)
LEMMA Rows16From40 == \A k \in 40 .. 47 : Row16(k)
<1>1. /\ crc16table[41] = \ha56a /\ crc16table[42] = \hb54b /\ crc16table[43] = \h8528
     /\ crc16table[44] = \h9509 /\ crc16table[45] = \he5ee /\ crc16table[46] = \hf5cf
     /\ crc16table[47] = \hc5ac /\ crc16table[48] = \hd58d /\ crc16table[81] = \h5af5
     /\ crc16table[82] = \h4ad4 /\ crc16table[83] = \h7ab7 /\ crc16table[84] = \h6a96
     /\ crc16table[85] = \h1a71 /\ crc16table[86] = \h0a50 /\ crc16table[87] = \h3a33
     /\ crc16table[88] = \h2a12 /\ crc16table[89] = \hdbfd /\ crc16table[90] = \hcbdc
     /\ crc16table[91] = \hfbbf /\ crc16table[92] = \heb9e /\ crc16table[93] = \h9b79
     /\ crc16table[94] = \h8b58 /\ crc16table[95] = \hbb3b /\ crc16table[96] = \hab1a
  BY DEF crc16table
<1>2. /\ Turned16(\ha56a) = \h5af5 /\ Turned16(\hb54b) = \h7ab7
     /\ Turned16(\h8528) = \h1a71 /\ Turned16(\h9509) = \h3a33
     /\ Turned16(\he5ee) = \hdbfd /\ Turned16(\hf5cf) = \hfbbf
     /\ Turned16(\hc5ac) = \h9b79 /\ Turned16(\hd58d) = \hbb3b
  BY DEF Turned16, Xor
<1>3. /\ Xor(\h5af5, \h1021) = \h4ad4 /\ Xor(\h7ab7, \h1021) = \h6a96
     /\ Xor(\h1a71, \h1021) = \h0a50 /\ Xor(\h3a33, \h1021) = \h2a12
     /\ Xor(\hdbfd, \h1021) = \hcbdc /\ Xor(\hfbbf, \h1021) = \heb9e
     /\ Xor(\h9b79, \h1021) = \h8b58 /\ Xor(\hbb3b, \h1021) = \hab1a
  BY DEF Xor
<1>4. /\ \ha56a \in Word16 /\ \hb54b \in Word16 /\ \h8528 \in Word16 /\ \h9509 \in Word16
     /\ \he5ee \in Word16 /\ \hf5cf \in Word16 /\ \hc5ac \in Word16 /\ \hd58d \in Word16
  BY DEF Word16
<1>5. /\ Row16(40) /\ Row16(41) /\ Row16(42) /\ Row16(43) /\ Row16(44) /\ Row16(45)
     /\ Row16(46) /\ Row16(47)
  BY <1>1, <1>2, <1>3, <1>4 DEF Row16
<1> QED BY <1>5

(* Rows 96 to 111 of crc16table, two for each k.                           *)
LEMMA Rows16From48 == \A k \in 48 .. 55 : Row16(k)
<1>1. /\ crc16table[49] = \h3653 /\ crc16table[50] = \h2672 /\ crc16table[51] = \h1611
     /\ crc16table[52] = \h0630 /\ crc16table[53] = \h76d7 /\ crc16table[54] = \h66f6
     /\ crc16table[55] = \h5695 /\ crc16table[56] = \h46b4 /\ crc16table[97] = \h6ca6
     /\ crc16table[98] = \h7c87 /\ crc16table[99] = \h4ce4 /\ crc16table[100] = \h5cc5
     /\ crc16table[101] = \h2c22 /\ crc16table[102] = \h3c03 /\ crc16table[103] = \h0c60
     /\ crc16table[104] = \h1c41 /\ crc16table[105] = \hedae /\ crc16table[106] = \hfd8f
     /\ crc16table[107] = \hcdec /\ crc16table[108] = \hddcd /\ crc16table[109] = \had2a
     /\ crc16table[110] = \hbd0b /\ crc16table[111] = \h8d68 /\ crc16table[112] = \h9d49
  BY DEF crc16table
<1>2. /\ Turned16(\h3653) = \h6ca6 /\ Turned16(\h2672) = \h4ce4
     /\ Turned16(\h1611) = \h2c22 /\ Turned16(\h0630) = \h0c60
     /\ Turned16(\h76d7) = \hedae /\ Turned16(\h66f6) = \hcdec
     /\ Turned16(\h5695) = \had2a /\ Turned16(\h46b4) = \h8d68
  BY DEF Turned16, Xor
<1>3. /\ Xor(\h6ca6, \h1021) = \h7c87 /\ Xor(\h4ce4, \h1021) = \h5cc5
     /\ Xor(\h2c22, \h1021) = \h3c03 /\ Xor(\h0c60, \h1021) = \h1c41
     /\ Xor(\hedae, \h1021) = \hfd8f /\ Xor(\hcdec, \h1021) = \hddcd
     /\ Xor(\had2a, \h1021) = \hbd0b /\ Xor(\h8d68, \h1021) = \h9d49
  BY DEF Xor
<1>4. /\ \h3653 \in Word16 /\ \h2672 \in Word16 /\ \h1611 \in Word16 /\ \h0630 \in Word16
     /\ \h76d7 \in Word16 /\ \h66f6 \in Word16 /\ \h5695 \in Word16 /\ \h46b4 \in Word16
  BY DEF Word16
<1>5. /\ Row16(48) /\ Row16(49) /\ Row16(50) /\ Row16(51) /\ Row16(52) /\ Row16(53)
     /\ Row16(54) /\ Row16(55)
  BY <1>1, <1>2, <1>3, <1>4 DEF Row16
<1> QED BY <1>5

(* Rows 112 to 127 of crc16table, two for each k.                          *)
LEMMA Rows16From56 == \A k \in 56 .. 63 : Row16(k)
<1>1. /\ crc16table[57] = \hb75b /\ crc16table[58] = \ha77a /\ crc16table[59] = \h9719
     /\ crc16table[60] = \h8738 /\ crc16table[61] = \hf7df /\ crc16table[62] = \he7fe
     /\ crc16table[63] = \hd79d /\ crc16table[64] = \hc7bc /\ crc16table[113] = \h7e97
     /\ crc16table[114] = \h6eb6 /\ crc16table[115] = \h5ed5 /\ crc16table[116] = \h4ef4
     /\ crc16table[117] = \h3e13 /\ crc16table[118] = \h2e32 /\ crc16table[119] = \h1e51
     /\ crc16table[120] = \h0e70 /\ crc16table[121] = \hff9f /\ crc16table[122] = \hefbe
     /\ crc16table[123] = \hdfdd /\ crc16table[124] = \hcffc /\ crc16table[125] = \hbf1b
     /\ crc16table[126] = \haf3a /\ crc16table[127] = \h9f59 /\ crc16table[128] = \h8f78
  BY DEF crc16table
<1>2. /\ Turned16(\hb75b) = \h7e97 /\ Turned16(\ha77a) = \h5ed5
     /\ Turned16(\h9719) = \h3e13 /\ Turned16(\h8738) = \h1e51
     /\ Turned16(\hf7df) = \hff9f /\ Turned16(\he7fe) = \hdfdd
     /\ Turned16(\hd79d) = \hbf1b /\ Turned16(\hc7bc) = \h9f59
  BY DEF Turned16, Xor
<1>3. /\ Xor(\h7e97, \h1021) = \h6eb6 /\ Xor(\h5ed5, \h1021) = \h4ef4
     /\ Xor(\h3e13, \h1021) = \h2e32 /\ Xor(\h1e51, \h1021) = \h0e70
     /\ Xor(\hff9f, \h1021) = \hefbe /\ Xor(\hdfdd, \h1021) = \hcffc
     /\ Xor(\hbf1b, \h1021) = \haf3a /\ Xor(\h9f59, \h1021) = \h8f78
  BY DEF Xor
<1>4. /\ \hb75b \in Word16 /\ \ha77a \in Word16 /\ \h9719 \in Word16 /\ \h8738 \in Word16
     /\ \hf7df \in Word16 /\ \he7fe \in Word16 /\ \hd79d \in Word16 /\ \hc7bc \in Word16
  BY DEF Word16
<1>5. /\ Row16(56) /\ Row16(57) /\ Row16(58) /\ Row16(59) /\ Row16(60) /\ Row16(61)
     /\ Row16(62) /\ Row16(63)
  BY <1>1, <1>2, <1>3, <1>4 DEF Row16
<1> QED BY <1>5

(* Rows 128 to 143 of crc16table, two for each k.                          *)
LEMMA Rows16From64 == \A k \in 64 .. 71 : Row16(k)
<1>1. /\ crc16table[65] = \h48c4 /\ crc16table[66] = \h58e5 /\ crc16table[67] = \h6886
     /\ crc16table[68] = \h78a7 /\ crc16table[69] = \h0840 /\ crc16table[70] = \h1861
     /\ crc16table[71] = \h2802 /\ crc16table[72] = \h3823 /\ crc16table[129] = \h9188
     /\ crc16table[130] = \h81a9 /\ crc16table[131] = \hb1ca /\ crc16table[132] = \ha1eb
     /\ crc16table[133] = \hd10c /\ crc16table[134] = \hc12d /\ crc16table[135] = \hf14e
     /\ crc16table[136] = \he16f /\ crc16table[137] = \h1080 /\ crc16table[138] = \h00a1
     /\ crc16table[139] = \h30c2 /\ crc16table[140] = \h20e3 /\ crc16table[141] = \h5004
     /\ crc16table[142] = \h4025 /\ crc16table[143] = \h7046 /\ crc16table[144] = \h6067
  BY DEF crc16table
<1>2. /\ Turned16(\h48c4) = \h9188 /\ Turned16(\h58e5) = \hb1ca
     /\ Turned16(\h6886) = \hd10c /\ Turned16(\h78a7) = \hf14e
     /\ Turned16(\h0840) = \h1080 /\ Turned16(\h1861) = \h30c2
     /\ Turned16(\h2802) = \h5004 /\ Turned16(\h3823) = \h7046
  BY DEF Turned16, Xor
<1>3. /\ Xor(\h9188, \h1021) = \h81a9 /\ Xor(\hb1ca, \h1021) = \ha1eb
     /\ Xor(\hd10c, \h1021) = \hc12d /\ Xor(\hf14e, \h1021) = \he16f
     /\ Xor(\h1080, \h1021) = \h00a1 /\ Xor(\h30c2, \h1021) = \h20e3
     /\ Xor(\h5004, \h1021) = \h4025 /\ Xor(\h7046, \h1021) = \h6067
  BY DEF Xor
<1>4. /\ \h48c4 \in Word16 /\ \h58e5 \in Word16 /\ \h6886 \in Word16 /\ \h78a7 \in Word16
     /\ \h0840 \in Word16 /\ \h1861 \in Word16 /\ \h2802 \in Word16 /\ \h3823 \in Word16
  BY DEF Word16
<1>5. /\ Row16(64) /\ Row16(65) /\ Row16(66) /\ Row16(67) /\ Row16(68) /\ Row16(69)
     /\ Row16(70) /\ Row16(71)
  BY <1>1, <1>2, <1>3, <1>4 DEF Row16
<1> QED BY <1>5

(* Rows 144 to 159 of crc16table, two for each k.                          *)
LEMMA Rows16From72 == \A k \in 72 .. 79 : Row16(k)
<1>1. /\ crc16table[73] = \hc9cc /\ crc16table[74] = \hd9ed /\ crc16table[75] = \he98e
     /\ crc16table[76] = \hf9af /\ crc16table[77] = \h8948 /\ crc16table[78] = \h9969
     /\ crc16table[79] = \ha90a /\ crc16table[80] = \hb92b /\ crc16table[145] = \h83b9
     /\ crc16table[146] = \h9398 /\ crc16table[147] = \ha3fb /\ crc16table[148] = \hb3da
     /\ crc16table[149] = \hc33d /\ crc16table[150] = \hd31c /\ crc16table[151] = \he37f
     /\ crc16table[152] = \hf35e /\ crc16table[153] = \h02b1 /\ crc16table[154] = \h1290
     /\ crc16table[155] = \h22f3 /\ crc16table[156] = \h32d2 /\ crc16table[157] = \h4235
     /\ crc16table[158] = \h5214 /\ crc16table[159] = \h6277 /\ crc16table[160] = \h7256
  BY DEF crc16table
<1>2. /\ Turned16(\hc9cc) = \h83b9 /\ Turned16(\hd9ed) = \ha3fb
     /\ Turned16(\he98e) = \hc33d /\ Turned16(\hf9af) = \he37f
     /\ Turned16(\h8948) = \h02b1 /\ Turned16(\h9969) = \h22f3
     /\ Turned16(\ha90a) = \h4235 /\ Turned16(\hb92b) = \h6277
  BY DEF Turned16, Xor
<1>3. /\ Xor(\h83b9, \h1021) = \h9398 /\ Xor(\ha3fb, \h1021) = \hb3da
     /\ Xor(\hc33d, \h1021) = \hd31c /\ Xor(\he37f, \h1021) = \hf35e
     /\ Xor(\h02b1, \h1021) = \h1290 /\ Xor(\h22f3, \h1021) = \h32d2
     /\ Xor(\h4235, \h1021) = \h5214 /\ Xor(\h6277, \h1021) = \h7256
  BY DEF Xor
<1>4. /\ \hc9cc \in Word16 /\ \hd9ed \in Word16 /\ \he98e \in Word16 /\ \hf9af \in Word16
     /\ \h8948 \in Word16 /\ \h9969 \in Word16 /\ \ha90a \in Word16 /\ \hb92b \in Word16
  BY DEF Word16
<1>5. /\ Row16(72) /\ Row16(73) /\ Row16(74) /\ Row16(75) /\ Row16(76) /\ Row16(77)
     /\ Row16(78) /\ Row16(79)
  BY <1>1, <1>2, <1>3, <1>4 DEF Row16
<1> QED BY <1>5

(* Rows 160 to 175 of crc16table, two for each k.                          *)
LEMMA Rows16From80 == \A k \in 80 .. 87 : Row16(k)
<1>1. /\ crc16table[81] = \h5af5 /\ crc16table[82] = \h4ad4 /\ crc16table[83] = \h7ab7
     /\ crc16table[84] = \h6a96 /\ crc16table[85] = \h1a71 /\ crc16table[86] = \h0a50
     /\ crc16table[87] = \h3a33 /\ crc16table[88] = \h2a12 /\ crc16table[161] = \hb5ea
     /\ crc16table[162] = \ha5cb /\ crc16table[163] = \h95a8 /\ crc16table[164] = \h8589
     /\ crc16table[165] = \hf56e /\ crc16table[166] = \he54f /\ crc16table[167] = \hd52c
     /\ crc16table[168] = \hc50d /\ crc16table[169] = \h34e2 /\ crc16table[170] = \h24c3
     /\ crc16table[171] = \h14a0 /\ crc16table[172] = \h0481 /\ crc16table[173] = \h7466
     /\ crc16table[174] = \h6447 /\ crc16table[175] = \h5424 /\ crc16table[176] = \h4405
  BY DEF crc16table
<1>2. /\ Turned16(\h5af5) = \hb5ea /\ Turned16(\h4ad4) = \h95a8
     /\ Turned16(\h7ab7) = \hf56e /\ Turned16(\h6a96) = \hd52c
     /\ Turned16(\h1a71) = \h34e2 /\ Turned16(\h0a50) = \h14a0
     /\ Turned16(\h3a33) = \h7466 /\ Turned16(\h2a12) = \h5424
  BY DEF Turned16, Xor
<1>3. /\ Xor(\hb5ea, \h1021) = \ha5cb /\ Xor(\h95a8, \h1021) = \h8589
     /\ Xor(\hf56e, \h1021) = \he54f /\ Xor(\hd52c, \h1021) = \hc50d
     /\ Xor(\h34e2, \h1021) = \h24c3 /\ Xor(\h14a0, \h1021) = \h0481
     /\ Xor(\h7466, \h1021) = \h6447 /\ Xor(\h5424, \h1021) = \h4405
  BY DEF Xor
<1>4. /\ \h5af5 \in Word16 /\ \h4ad4 \in Word16 /\ \h7ab7 \in Word16 /\ \h6a96 \in Word16
     /\ \h1a71 \in Word16 /\ \h0a50 \in Word16 /\ \h3a33 \in Word16 /\ \h2a12 \in Word16
  BY DEF Word16
<1>5. /\ Row16(80) /\ Row16(81) /\ Row16(82) /\ Row16(83) /\ Row16(84) /\ Row16(85)
     /\ Row16(86) /\ Row16(87)
  BY <1>1, <1>2, <1>3, <1>4 DEF Row16
<1> QED BY <1>5

(* Rows 176 to 191 of crc16table, two for each k.                          *)
LEMMA Rows16From88 == \A k \in 88 .. 95 : Row16(k)
<1>1. /\ crc16table[89] = \hdbfd /\ crc16table[90] = \hcbdc /\ crc16table[91] = \hfbbf
     /\ crc16table[92] = \heb9e /\ crc16table[93] = \h9b79 /\ crc16table[94] = \h8b58
     /\ crc16table[95] = \hbb3b /\ crc16table[96] = \hab1a /\ crc16table[177] = \ha7db
     /\ crc16table[178] = \hb7fa /\ crc16table[179] = \h8799 /\ crc16table[180] = \h97b8
     /\ crc16table[181] = \he75f /\ crc16table[182] = \hf77e /\ crc16table[183] = \hc71d
     /\ crc16table[184] = \hd73c /\ crc16table[185] = \h26d3 /\ crc16table[186] = \h36f2
     /\ crc16table[187] = \h0691 /\ crc16table[188] = \h16b0 /\ crc16table[189] = \h6657
     /\ crc16table[190] = \h7676 /\ crc16table[191] = \h4615 /\ crc16table[192] = \h5634
  BY DEF crc16table
<1>2. /\ Turned16(\hdbfd) = \ha7db /\ Turned16(\hcbdc) = \h8799
     /\ Turned16(\hfbbf) = \he75f /\ Turned16(\heb9e) = \hc71d
     /\ Turned16(\h9b79) = \h26d3 /\ Turned16(\h8b58) = \h0691
     /\ Turned16(\hbb3b) = \h6657 /\ Turned16(\hab1a) = \h4615
  BY DEF Turned16, Xor
<1>3. /\ Xor(\ha7db, \h1021) = \hb7fa /\ Xor(\h8799, \h1021) = \h97b8
     /\ Xor(\he75f, \h1021) = \hf77e /\ Xor(\hc71d, \h1021) = \hd73c
     /\ Xor(\h26d3, \h1021) = \h36f2 /\ Xor(\h0691, \h1021) = \h16b0
     /\ Xor(\h6657, \h1021) = \h7676 /\ Xor(\h4615, \h1021) = \h5634
  BY DEF Xor
<1>4. /\ \hdbfd \in Word16 /\ \hcbdc \in Word16 /\ \hfbbf \in Word16 /\ \heb9e \in Word16
     /\ \h9b79 \in Word16 /\ \h8b58 \in Word16 /\ \hbb3b \in Word16 /\ \hab1a \in Word16
  BY DEF Word16
<1>5. /\ Row16(88) /\ Row16(89) /\ Row16(90) /\ Row16(91) /\ Row16(92) /\ Row16(93)
     /\ Row16(94) /\ Row16(95)
  BY <1>1, <1>2, <1>3, <1>4 DEF Row16
<1> QED BY <1>5

(* Rows 192 to 207 of crc16table, two for each k.                          *)
LEMMA Rows16From96 == \A k \in 96 .. 103 : Row16(k)
<1>1. /\ crc16table[97] = \h6ca6 /\ crc16table[98] = \h7c87 /\ crc16table[99] = \h4ce4
     /\ crc16table[100] = \h5cc5 /\ crc16table[101] = \h2c22 /\ crc16table[102] = \h3c03
     /\ crc16table[103] = \h0c60 /\ crc16table[104] = \h1c41 /\ crc16table[193] = \hd94c
     /\ crc16table[194] = \hc96d /\ crc16table[195] = \hf90e /\ crc16table[196] = \he92f
     /\ crc16table[197] = \h99c8 /\ crc16table[198] = \h89e9 /\ crc16table[199] = \hb98a
     /\ crc16table[200] = \ha9ab /\ crc16table[201] = \h5844 /\ crc16table[202] = \h4865
     /\ crc16table[203] = \h7806 /\ crc16table[204] = \h6827 /\ crc16table[205] = \h18c0
     /\ crc16table[206] = \h08e1 /\ crc16table[207] = \h3882 /\ crc16table[208] = \h28a3
  BY DEF crc16table
<1>2. /\ Turned16(\h6ca6) = \hd94c /\ Turned16(\h7c87) = \hf90e
     /\ Turned16(\h4ce4) = \h99c8 /\ Turned16(\h5cc5) = \hb98a
     /\ Turned16(\h2c22) = \h5844 /\ Turned16(\h3c03) = \h7806
     /\ Turned16(\h0c60) = \h18c0 /\ Turned16(\h1c41) = \h3882
  BY DEF Turned16, Xor
<1>3. /\ Xor(\hd94c, \h1021) = \hc96d /\ Xor(\hf90e, \h1021) = \he92f
     /\ Xor(\h99c8, \h1021) = \h89e9 /\ Xor(\hb98a, \h1021) = \ha9ab
     /\ Xor(\h5844, \h1021) = \h4865 /\ Xor(\h7806, \h1021) = \h6827
     /\ Xor(\h18c0, \h1021) = \h08e1 /\ Xor(\h3882, \h1021) = \h28a3
  BY DEF Xor
<1>4. /\ \h6ca6 \in Word16 /\ \h7c87 \in Word16 /\ \h4ce4 \in Word16 /\ \h5cc5 \in Word16
     /\ \h2c22 \in Word16 /\ \h3c03 \in Word16 /\ \h0c60 \in Word16 /\ \h1c41 \in Word16
  BY DEF Word16
<1>5. /\ Row16(96) /\ Row16(97) /\ Row16(98) /\ Row16(99) /\ Row16(100) /\ Row16(101)
     /\ Row16(102) /\ Row16(103)
  BY <1>1, <1>2, <1>3, <1>4 DEF Row16
<1> QED BY <1>5

(* Rows 208 to 223 of crc16table, two for each k.                          *)
LEMMA Rows16From104 == \A k \in 104 .. 111 : Row16(k)
<1>1. /\ crc16table[105] = \hedae /\ crc16table[106] = \hfd8f /\ crc16table[107] = \hcdec
     /\ crc16table[108] = \hddcd /\ crc16table[109] = \had2a /\ crc16table[110] = \hbd0b
     /\ crc16table[111] = \h8d68 /\ crc16table[112] = \h9d49 /\ crc16table[209] = \hcb7d
     /\ crc16table[210] = \hdb5c /\ crc16table[211] = \heb3f /\ crc16table[212] = \hfb1e
     /\ crc16table[213] = \h8bf9 /\ crc16table[214] = \h9bd8 /\ crc16table[215] = \habbb
     /\ crc16table[216] = \hbb9a /\ crc16table[217] = \h4a75 /\ crc16table[218] = \h5a54
     /\ crc16table[219] = \h6a37 /\ crc16table[220] = \h7a16 /\ crc16table[221] = \h0af1
     /\ crc16table[222] = \h1ad0 /\ crc16table[223] = \h2ab3 /\ crc16table[224] = \h3a92
  BY DEF crc16table
<1>2. /\ Turned16(\hedae) = \hcb7d /\ Turned16(\hfd8f) = \heb3f
     /\ Turned16(\hcdec) = \h8bf9 /\ Turned16(\hddcd) = \habbb
     /\ Turned16(\had2a) = \h4a75 /\ Turned16(\hbd0b) = \h6a37
     /\ Turned16(\h8d68) = \h0af1 /\ Turned16(\h9d49) = \h2ab3
  BY DEF Turned16, Xor
<1>3. /\ Xor(\hcb7d, \h1021) = \hdb5c /\ Xor(\heb3f, \h1021) = \hfb1e
     /\ Xor(\h8bf9, \h1021) = \h9bd8 /\ Xor(\habbb, \h1021) = \hbb9a
     /\ Xor(\h4a75, \h1021) = \h5a54 /\ Xor(\h6a37, \h1021) = \h7a16
     /\ Xor(\h0af1, \h1021) = \h1ad0 /\ Xor(\h2ab3, \h1021) = \h3a92
  BY DEF Xor
<1>4. /\ \hedae \in Word16 /\ \hfd8f \in Word16 /\ \hcdec \in Word16 /\ \hddcd \in Word16
     /\ \had2a \in Word16 /\ \hbd0b \in Word16 /\ \h8d68 \in Word16 /\ \h9d49 \in Word16
  BY DEF Word16
<1>5. /\ Row16(104) /\ Row16(105) /\ Row16(106) /\ Row16(107) /\ Row16(108) /\ Row16(109)
     /\ Row16(110) /\ Row16(111)
  BY <1>1, <1>2, <1>3, <1>4 DEF Row16
<1> QED BY <1>5

(* Rows 224 to 239 of crc16table, two for each k.                          *)
LEMMA Rows16From112 == \A k \in 112 .. 119 : Row16(k)
<1>1. /\ crc16table[113] = \h7e97 /\ crc16table[114] = \h6eb6 /\ crc16table[115] = \h5ed5
     /\ crc16table[116] = \h4ef4 /\ crc16table[117] = \h3e13 /\ crc16table[118] = \h2e32
     /\ crc16table[119] = \h1e51 /\ crc16table[120] = \h0e70 /\ crc16table[225] = \hfd2e
     /\ crc16table[226] = \hed0f /\ crc16table[227] = \hdd6c /\ crc16table[228] = \hcd4d
     /\ crc16table[229] = \hbdaa /\ crc16table[230] = \had8b /\ crc16table[231] = \h9de8
     /\ crc16table[232] = \h8dc9 /\ crc16table[233] = \h7c26 /\ crc16table[234] = \h6c07
     /\ crc16table[235] = \h5c64 /\ crc16table[236] = \h4c45 /\ crc16table[237] = \h3ca2
     /\ crc16table[238] = \h2c83 /\ crc16table[239] = \h1ce0 /\ crc16table[240] = \h0cc1
  BY DEF crc16table
<1>2. /\ Turned16(\h7e97) = \hfd2e /\ Turned16(\h6eb6) = \hdd6c
     /\ Turned16(\h5ed5) = \hbdaa /\ Turned16(\h4ef4) = \h9de8
     /\ Turned16(\h3e13) = \h7c26 /\ Turned16(\h2e32) = \h5c64
     /\ Turned16(\h1e51) = \h3ca2 /\ Turned16(\h0e70) = \h1ce0
  BY DEF Turned16, Xor
<1>3. /\ Xor(\hfd2e, \h1021) = \hed0f /\ Xor(\hdd6c, \h1021) = \hcd4d
     /\ Xor(\hbdaa, \h1021) = \had8b /\ Xor(\h9de8, \h1021) = \h8dc9
     /\ Xor(\h7c26, \h1021) = \h6c07 /\ Xor(\h5c64, \h1021) = \h4c45
     /\ Xor(\h3ca2, \h1021) = \h2c83 /\ Xor(\h1ce0, \h1021) = \h0cc1
  BY DEF Xor
<1>4. /\ \h7e97 \in Word16 /\ \h6eb6 \in Word16 /\ \h5ed5 \in Word16 /\ \h4ef4 \in Word16
     /\ \h3e13 \in Word16 /\ \h2e32 \in Word16 /\ \h1e51 \in Word16 /\ \h0e70 \in Word16
  BY DEF Word16
<1>5. /\ Row16(112) /\ Row16(113) /\ Row16(114) /\ Row16(115) /\ Row16(116) /\ Row16(117)
     /\ Row16(118) /\ Row16(119)
  BY <1>1, <1>2, <1>3, <1>4 DEF Row16
<1> QED BY <1>5

(* Rows 240 to 255 of crc16table, two for each k.                          *)
LEMMA Rows16From120 == \A k \in 120 .. 127 : Row16(k)
<1>1. /\ crc16table[121] = \hff9f /\ crc16table[122] = \hefbe /\ crc16table[123] = \hdfdd
     /\ crc16table[124] = \hcffc /\ crc16table[125] = \hbf1b /\ crc16table[126] = \haf3a
     /\ crc16table[127] = \h9f59 /\ crc16table[128] = \h8f78 /\ crc16table[241] = \hef1f
     /\ crc16table[242] = \hff3e /\ crc16table[243] = \hcf5d /\ crc16table[244] = \hdf7c
     /\ crc16table[245] = \haf9b /\ crc16table[246] = \hbfba /\ crc16table[247] = \h8fd9
     /\ crc16table[248] = \h9ff8 /\ crc16table[249] = \h6e17 /\ crc16table[250] = \h7e36
     /\ crc16table[251] = \h4e55 /\ crc16table[252] = \h5e74 /\ crc16table[253] = \h2e93
     /\ crc16table[254] = \h3eb2 /\ crc16table[255] = \h0ed1 /\ crc16table[256] = \h1ef0
  BY DEF crc16table
<1>2. /\ Turned16(\hff9f) = \hef1f /\ Turned16(\hefbe) = \hcf5d
     /\ Turned16(\hdfdd) = \haf9b /\ Turned16(\hcffc) = \h8fd9
     /\ Turned16(\hbf1b) = \h6e17 /\ Turned16(\haf3a) = \h4e55
     /\ Turned16(\h9f59) = \h2e93 /\ Turned16(\h8f78) = \h0ed1
  BY DEF Turned16, Xor
<1>3. /\ Xor(\hef1f, \h1021) = \hff3e /\ Xor(\hcf5d, \h1021) = \hdf7c
     /\ Xor(\haf9b, \h1021) = \hbfba /\ Xor(\h8fd9, \h1021) = \h9ff8
     /\ Xor(\h6e17, \h1021) = \h7e36 /\ Xor(\h4e55, \h1021) = \h5e74
     /\ Xor(\h2e93, \h1021) = \h3eb2 /\ Xor(\h0ed1, \h1021) = \h1ef0
  BY DEF Xor
<1>4. /\ \hff9f \in Word16 /\ \hefbe \in Word16 /\ \hdfdd \in Word16 /\ \hcffc \in Word16
     /\ \hbf1b \in Word16 /\ \haf3a \in Word16 /\ \h9f59 \in Word16 /\ \h8f78 \in Word16
  BY DEF Word16
<1>5. /\ Row16(120) /\ Row16(121) /\ Row16(122) /\ Row16(123) /\ Row16(124) /\ Row16(125)
     /\ Row16(126) /\ Row16(127)
  BY <1>1, <1>2, <1>3, <1>4 DEF Row16
<1> QED BY <1>5

(* Rows 0 to 15 of crc32table, two for each k.                             *)
LEMMA Rows32From0 == \A k \in 0 .. 7 : Row32(k)
<1>1. /\ crc32high[1] = \h0000 /\ crc32high[2] = \h04c1 /\ crc32high[3] = \h0982
     /\ crc32high[4] = \h0d43 /\ crc32high[5] = \h1304 /\ crc32high[6] = \h17c5
     /\ crc32high[7] = \h1a86 /\ crc32high[8] = \h1e47 /\ crc32high[9] = \h2608
     /\ crc32high[10] = \h22c9 /\ crc32high[11] = \h2f8a /\ crc32high[12] = \h2b4b
     /\ crc32high[13] = \h350c /\ crc32high[14] = \h31cd /\ crc32high[15] = \h3c8e
     /\ crc32high[16] = \h384f
  BY DEF crc32high
<1>2. /\ crc32low[1] = \h0000 /\ crc32low[2] = \h1db7 /\ crc32low[3] = \h3b6e
     /\ crc32low[4] = \h26d9 /\ crc32low[5] = \h76dc /\ crc32low[6] = \h6b6b
     /\ crc32low[7] = \h4db2 /\ crc32low[8] = \h5005 /\ crc32low[9] = \hedb8
     /\ crc32low[10] = \hf00f /\ crc32low[11] = \hd6d6 /\ crc32low[12] = \hcb61
     /\ crc32low[13] = \h9b64 /\ crc32low[14] = \h86d3 /\ crc32low[15] = \ha00a
     /\ crc32low[16] = \hbdbd
  BY DEF crc32low
<1>3. /\ Turned32High(\h0000, \h0000) = \h0000 /\ Turned32High(\h04c1, \h1db7) = \h0982
     /\ Turned32High(\h0982, \h3b6e) = \h1304 /\ Turned32High(\h0d43, \h26d9) = \h1a86
     /\ Turned32High(\h1304, \h76dc) = \h2608 /\ Turned32High(\h17c5, \h6b6b) = \h2f8a
     /\ Turned32High(\h1a86, \h4db2) = \h350c /\ Turned32High(\h1e47, \h5005) = \h3c8e
  BY DEF Turned32High, Xor
<1>4. /\ Turned32Low(\h0000, \h0000) = \h0000 /\ Turned32Low(\h04c1, \h1db7) = \h3b6e
     /\ Turned32Low(\h0982, \h3b6e) = \h76dc /\ Turned32Low(\h0d43, \h26d9) = \h4db2
     /\ Turned32Low(\h1304, \h76dc) = \hedb8 /\ Turned32Low(\h17c5, \h6b6b) = \hd6d6
     /\ Turned32Low(\h1a86, \h4db2) = \h9b64 /\ Turned32Low(\h1e47, \h5005) = \ha00a
  BY DEF Turned32Low, Xor
<1>5. /\ Xor(\h0000, \h04c1) = \h04c1 /\ Xor(\h0982, \h04c1) = \h0d43
     /\ Xor(\h1304, \h04c1) = \h17c5 /\ Xor(\h1a86, \h04c1) = \h1e47
     /\ Xor(\h2608, \h04c1) = \h22c9 /\ Xor(\h2f8a, \h04c1) = \h2b4b
     /\ Xor(\h350c, \h04c1) = \h31cd /\ Xor(\h3c8e, \h04c1) = \h384f
  BY DEF Xor
<1>6. /\ Xor(\h0000, \h1db7) = \h1db7 /\ Xor(\h3b6e, \h1db7) = \h26d9
     /\ Xor(\h76dc, \h1db7) = \h6b6b /\ Xor(\h4db2, \h1db7) = \h5005
     /\ Xor(\hedb8, \h1db7) = \hf00f /\ Xor(\hd6d6, \h1db7) = \hcb61
     /\ Xor(\h9b64, \h1db7) = \h86d3 /\ Xor(\ha00a, \h1db7) = \hbdbd
  BY DEF Xor
<1>7. /\ \h0000 \in Word16 /\ \h0000 \in Word16 /\ \h04c1 \in Word16 /\ \h1db7 \in Word16
     /\ \h0982 \in Word16 /\ \h3b6e \in Word16 /\ \h0d43 \in Word16 /\ \h26d9 \in Word16
     /\ \h1304 \in Word16 /\ \h76dc \in Word16 /\ \h17c5 \in Word16 /\ \h6b6b \in Word16
     /\ \h1a86 \in Word16 /\ \h4db2 \in Word16 /\ \h1e47 \in Word16 /\ \h5005 \in Word16
  BY DEF Word16
<1>8. /\ Row32(0) /\ Row32(1) /\ Row32(2) /\ Row32(3) /\ Row32(4) /\ Row32(5) /\ Row32(6)
     /\ Row32(7)
  BY <1>1, <1>2, <1>3, <1>4, <1>5, <1>6, <1>7 DEF Row32
<1> QED BY <1>8

(* Rows 16 to 31 of crc32table, two for each k.                            *)
LEMMA Rows32From8 == \A k \in 8 .. 15 : Row32(k)
<1>1. /\ crc32high[9] = \h2608 /\ crc32high[10] = \h22c9 /\ crc32high[11] = \h2f8a
     /\ crc32high[12] = \h2b4b /\ crc32high[13] = \h350c /\ crc32high[14] = \h31cd
     /\ crc32high[15] = \h3c8e /\ crc32high[16] = \h384f /\ crc32high[17] = \h4c11
     /\ crc32high[18] = \h48d0 /\ crc32high[19] = \h4593 /\ crc32high[20] = \h4152
     /\ crc32high[21] = \h5f15 /\ crc32high[22] = \h5bd4 /\ crc32high[23] = \h5697
     /\ crc32high[24] = \h5256 /\ crc32high[25] = \h6a19 /\ crc32high[26] = \h6ed8
     /\ crc32high[27] = \h639b /\ crc32high[28] = \h675a /\ crc32high[29] = \h791d
     /\ crc32high[30] = \h7ddc /\ crc32high[31] = \h709f /\ crc32high[32] = \h745e
  BY DEF crc32high
<1>2. /\ crc32low[9] = \hedb8 /\ crc32low[10] = \hf00f /\ crc32low[11] = \hd6d6
     /\ crc32low[12] = \hcb61 /\ crc32low[13] = \h9b64 /\ crc32low[14] = \h86d3
     /\ crc32low[15] = \ha00a /\ crc32low[16] = \hbdbd /\ crc32low[17] = \hdb70
     /\ crc32low[18] = \hc6c7 /\ crc32low[19] = \he01e /\ crc32low[20] = \hfda9
     /\ crc32low[21] = \hadac /\ crc32low[22] = \hb01b /\ crc32low[23] = \h96c2
     /\ crc32low[24] = \h8b75 /\ crc32low[25] = \h36c8 /\ crc32low[26] = \h2b7f
     /\ crc32low[27] = \h0da6 /\ crc32low[28] = \h1011 /\ crc32low[29] = \h4014
     /\ crc32low[30] = \h5da3 /\ crc32low[31] = \h7b7a /\ crc32low[32] = \h66cd
  BY DEF crc32low
<1>3. /\ Turned32High(\h2608, \hedb8) = \h4c11 /\ Turned32High(\h22c9, \hf00f) = \h4593
     /\ Turned32High(\h2f8a, \hd6d6) = \h5f15 /\ Turned32High(\h2b4b, \hcb61) = \h5697
     /\ Turned32High(\h350c, \h9b64) = \h6a19 /\ Turned32High(\h31cd, \h86d3) = \h639b
     /\ Turned32High(\h3c8e, \ha00a) = \h791d /\ Turned32High(\h384f, \hbdbd) = \h709f
  BY DEF Turned32High, Xor
<1>4. /\ Turned32Low(\h2608, \hedb8) = \hdb70 /\ Turned32Low(\h22c9, \hf00f) = \he01e
     /\ Turned32Low(\h2f8a, \hd6d6) = \hadac /\ Turned32Low(\h2b4b, \hcb61) = \h96c2
     /\ Turned32Low(\h350c, \h9b64) = \h36c8 /\ Turned32Low(\h31cd, \h86d3) = \h0da6
     /\ Turned32Low(\h3c8e, \ha00a) = \h4014 /\ Turned32Low(\h384f, \hbdbd) = \h7b7a
  BY DEF Turned32Low, Xor
<1>5. /\ Xor(\h4c11, \h04c1) = \h48d0 /\ Xor(\h4593, \h04c1) = \h4152
     /\ Xor(\h5f15, \h04c1) = \h5bd4 /\ Xor(\h5697, \h04c1) = \h5256
     /\ Xor(\h6a19, \h04c1) = \h6ed8 /\ Xor(\h639b, \h04c1) = \h675a
     /\ Xor(\h791d, \h04c1) = \h7ddc /\ Xor(\h709f, \h04c1) = \h745e
  BY DEF Xor
<1>6. /\ Xor(\hdb70, \h1db7) = \hc6c7 /\ Xor(\he01e, \h1db7) = \hfda9
     /\ Xor(\hadac, \h1db7) = \hb01b /\ Xor(\h96c2, \h1db7) = \h8b75
     /\ Xor(\h36c8, \h1db7) = \h2b7f /\ Xor(\h0da6, \h1db7) = \h1011
     /\ Xor(\h4014, \h1db7) = \h5da3 /\ Xor(\h7b7a, \h1db7) = \h66cd
  BY DEF Xor
<1>7. /\ \h2608 \in Word16 /\ \hedb8 \in Word16 /\ \h22c9 \in Word16 /\ \hf00f \in Word16
     /\ \h2f8a \in Word16 /\ \hd6d6 \in Word16 /\ \h2b4b \in Word16 /\ \hcb61 \in Word16
     /\ \h350c \in Word16 /\ \h9b64 \in Word16 /\ \h31cd \in Word16 /\ \h86d3 \in Word16
     /\ \h3c8e \in Word16 /\ \ha00a \in Word16 /\ \h384f \in Word16 /\ \hbdbd \in Word16
  BY DEF Word16
<1>8. /\ Row32(8) /\ Row32(9) /\ Row32(10) /\ Row32(11) /\ Row32(12) /\ Row32(13)
     /\ Row32(14) /\ Row32(15)
  BY <1>1, <1>2, <1>3, <1>4, <1>5, <1>6, <1>7 DEF Row32
<1> QED BY <1>8

(* Rows 32 to 47 of crc32table, two for each k.                            *)
LEMMA Rows32From16 == \A k \in 16 .. 23 : Row32(k)
<1>1. /\ crc32high[17] = \h4c11 /\ crc32high[18] = \h48d0 /\ crc32high[19] = \h4593
     /\ crc32high[20] = \h4152 /\ crc32high[21] = \h5f15 /\ crc32high[22] = \h5bd4
     /\ crc32high[23] = \h5697 /\ crc32high[24] = \h5256 /\ crc32high[33] = \h9823
     /\ crc32high[34] = \h9ce2 /\ crc32high[35] = \h91a1 /\ crc32high[36] = \h9560
     /\ crc32high[37] = \h8b27 /\ crc32high[38] = \h8fe6 /\ crc32high[39] = \h82a5
     /\ crc32high[40] = \h8664 /\ crc32high[41] = \hbe2b /\ crc32high[42] = \hbaea
     /\ crc32high[43] = \hb7a9 /\ crc32high[44] = \hb368 /\ crc32high[45] = \had2f
     /\ crc32high[46] = \ha9ee /\ crc32high[47] = \ha4ad /\ crc32high[48] = \ha06c
  BY DEF crc32high
<1>2. /\ crc32low[17] = \hdb70 /\ crc32low[18] = \hc6c7 /\ crc32low[19] = \he01e
     /\ crc32low[20] = \hfda9 /\ crc32low[21] = \hadac /\ crc32low[22] = \hb01b
     /\ crc32low[23] = \h96c2 /\ crc32low[24] = \h8b75 /\ crc32low[33] = \hb6e0
     /\ crc32low[34] = \hab57 /\ crc32low[35] = \h8d8e /\ crc32low[36] = \h9039
     /\ crc32low[37] = \hc03c /\ crc32low[38] = \hdd8b /\ crc32low[39] = \hfb52
     /\ crc32low[40] = \he6e5 /\ crc32low[41] = \h5b58 /\ crc32low[42] = \h46ef
     /\ crc32low[43] = \h6036 /\ crc32low[44] = \h7d81 /\ crc32low[45] = \h2d84
     /\ crc32low[46] = \h3033 /\ crc32low[47] = \h16ea /\ crc32low[48] = \h0b5d
  BY DEF crc32low
<1>3. /\ Turned32High(\h4c11, \hdb70) = \h9823 /\ Turned32High(\h48d0, \hc6c7) = \h91a1
     /\ Turned32High(\h4593, \he01e) = \h8b27 /\ Turned32High(\h4152, \hfda9) = \h82a5
     /\ Turned32High(\h5f15, \hadac) = \hbe2b /\ Turned32High(\h5bd4, \hb01b) = \hb7a9
     /\ Turned32High(\h5697, \h96c2) = \had2f /\ Turned32High(\h5256, \h8b75) = \ha4ad
  BY DEF Turned32High, Xor
<1>4. /\ Turned32Low(\h4c11, \hdb70) = \hb6e0 /\ Turned32Low(\h48d0, \hc6c7) = \h8d8e
     /\ Turned32Low(\h4593, \he01e) = \hc03c /\ Turned32Low(\h4152, \hfda9) = \hfb52
     /\ Turned32Low(\h5f15, \hadac) = \h5b58 /\ Turned32Low(\h5bd4, \hb01b) = \h6036
     /\ Turned32Low(\h5697, \h96c2) = \h2d84 /\ Turned32Low(\h5256, \h8b75) = \h16ea
  BY DEF Turned32Low, Xor
<1>5. /\ Xor(\h9823, \h04c1) = \h9ce2 /\ Xor(\h91a1, \h04c1) = \h9560
     /\ Xor(\h8b27, \h04c1) = \h8fe6 /\ Xor(\h82a5, \h04c1) = \h8664
     /\ Xor(\hbe2b, \h04c1) = \hbaea /\ Xor(\hb7a9, \h04c1) = \hb368
     /\ Xor(\had2f, \h04c1) = \ha9ee /\ Xor(\ha4ad, \h04c1) = \ha06c
  BY DEF Xor
<1>6. /\ Xor(\hb6e0, \h1db7) = \hab57 /\ Xor(\h8d8e, \h1db7) = \h9039
     /\ Xor(\hc03c, \h1db7) = \hdd8b /\ Xor(\hfb52, \h1db7) = \he6e5
     /\ Xor(\h5b58, \h1db7) = \h46ef /\ Xor(\h6036, \h1db7) = \h7d81
     /\ Xor(\h2d84, \h1db7) = \h3033 /\ Xor(\h16ea, \h1db7) = \h0b5d
  BY DEF Xor
<1>7. /\ \h4c11 \in Word16 /\ \hdb70 \in Word16 /\ \h48d0 \in Word16 /\ \hc6c7 \in Word16
     /\ \h4593 \in Word16 /\ \he01e \in Word16 /\ \h4152 \in Word16 /\ \hfda9 \in Word16
     /\ \h5f15 \in Word16 /\ \hadac \in Word16 /\ \h5bd4 \in Word16 /\ \hb01b \in Word16
     /\ \h5697 \in Word16 /\ \h96c2 \in Word16 /\ \h5256 \in Word16 /\ \h8b75 \in Word16
  BY DEF Word16
<1>8. /\ Row32(16) /\ Row32(17) /\ Row32(18) /\ Row32(19) /\ Row32(20) /\ Row32(21)
     /\ Row32(22) /\ Row32(23)
  BY <1>1, <1>2, <1>3, <1>4, <1>5, <1>6, <1>7 DEF Row32
<1> QED BY <1>8

(* Rows 48 to 63 of crc32table, two for each k.                            *)
LEMMA Rows32From24 == \A k \in 24 .. 31 : Row32(k)
<1>1. /\ crc32high[25] = \h6a19 /\ crc32high[26] = \h6ed8 /\ crc32high[27] = \h639b
     /\ crc32high[28] = \h675a /\ crc32high[29] = \h791d /\ crc32high[30] = \h7ddc
     /\ crc32high[31] = \h709f /\ crc32high[32] = \h745e /\ crc32high[49] = \hd432
     /\ crc32high[50] = \hd0f3 /\ crc32high[51] = \hddb0 /\ crc32high[52] = \hd971
     /\ crc32high[53] = \hc736 /\ crc32high[54] = \hc3f7 /\ crc32high[55] = \hceb4
     /\ crc32high[56] = \hca75 /\ crc32high[57] = \hf23a /\ crc32high[58] = \hf6fb
     /\ crc32high[59] = \hfbb8 /\ crc32high[60] = \hff79 /\ crc32high[61] = \he13e
     /\ crc32high[62] = \he5ff /\ crc32high[63] = \he8bc /\ crc32high[64] = \hec7d
  BY DEF crc32high
<1>2. /\ crc32low[25] = \h36c8 /\ crc32low[26] = \h2b7f /\ crc32low[27] = \h0da6
     /\ crc32low[28] = \h1011 /\ crc32low[29] = \h4014 /\ crc32low[30] = \h5da3
     /\ crc32low[31] = \h7b7a /\ crc32low[32] = \h66cd /\ crc32low[49] = \h6d90
     /\ crc32low[50] = \h7027 /\ crc32low[51] = \h56fe /\ crc32low[52] = \h4b49
     /\ crc32low[53] = \h1b4c /\ crc32low[54] = \h06fb /\ crc32low[55] = \h2022
     /\ crc32low[56] = \h3d95 /\ crc32low[57] = \h8028 /\ crc32low[58] = \h9d9f
     /\ crc32low[59] = \hbb46 /\ crc32low[60] = \ha6f1 /\ crc32low[61] = \hf6f4
     /\ crc32low[62] = \heb43 /\ crc32low[63] = \hcd9a /\ crc32low[64] = \hd02d
  BY DEF crc32low
<1>3. /\ Turned32High(\h6a19, \h36c8) = \hd432 /\ Turned32High(\h6ed8, \h2b7f) = \hddb0
     /\ Turned32High(\h639b, \h0da6) = \hc736 /\ Turned32High(\h675a, \h1011) = \hceb4
     /\ Turned32High(\h791d, \h4014) = \hf23a /\ Turned32High(\h7ddc, \h5da3) = \hfbb8
     /\ Turned32High(\h709f, \h7b7a) = \he13e /\ Turned32High(\h745e, \h66cd) = \he8bc
  BY DEF Turned32High, Xor
<1>4. /\ Turned32Low(\h6a19, \h36c8) = \h6d90 /\ Turned32Low(\h6ed8, \h2b7f) = \h56fe
     /\ Turned32Low(\h639b, \h0da6) = \h1b4c /\ Turned32Low(\h675a, \h1011) = \h2022
     /\ Turned32Low(\h791d, \h4014) = \h8028 /\ Turned32Low(\h7ddc, \h5da3) = \hbb46
     /\ Turned32Low(\h709f, \h7b7a) = \hf6f4 /\ Turned32Low(\h745e, \h66cd) = \hcd9a
  BY DEF Turned32Low, Xor
<1>5. /\ Xor(\hd432, \h04c1) = \hd0f3 /\ Xor(\hddb0, \h04c1) = \hd971
     /\ Xor(\hc736, \h04c1) = \hc3f7 /\ Xor(\hceb4, \h04c1) = \hca75
     /\ Xor(\hf23a, \h04c1) = \hf6fb /\ Xor(\hfbb8, \h04c1) = \hff79
     /\ Xor(\he13e, \h04c1) = \he5ff /\ Xor(\he8bc, \h04c1) = \hec7d
  BY DEF Xor
<1>6. /\ Xor(\h6d90, \h1db7) = \h7027 /\ Xor(\h56fe, \h1db7) = \h4b49
     /\ Xor(\h1b4c, \h1db7) = \h06fb /\ Xor(\h2022, \h1db7) = \h3d95
     /\ Xor(\h8028, \h1db7) = \h9d9f /\ Xor(\hbb46, \h1db7) = \ha6f1
     /\ Xor(\hf6f4, \h1db7) = \heb43 /\ Xor(\hcd9a, \h1db7) = \hd02d
  BY DEF Xor
<1>7. /\ \h6a19 \in Word16 /\ \h36c8 \in Word16 /\ \h6ed8 \in Word16 /\ \h2b7f \in Word16
     /\ \h639b \in Word16 /\ \h0da6 \in Word16 /\ \h675a \in Word16 /\ \h1011 \in Word16
     /\ \h791d \in Word16 /\ \h4014 \in Word16 /\ \h7ddc \in Word16 /\ \h5da3 \in Word16
     /\ \h709f \in Word16 /\ \h7b7a \in Word16 /\ \h745e \in Word16 /\ \h66cd \in Word16
  BY DEF Word16
<1>8. /\ Row32(24) /\ Row32(25) /\ Row32(26) /\ Row32(27) /\ Row32(28) /\ Row32(29)
     /\ Row32(30) /\ Row32(31)
  BY <1>1, <1>2, <1>3, <1>4, <1>5, <1>6, <1>7 DEF Row32
<1> QED BY <1>8

(* Rows 64 to 79 of crc32table, two for each k.                            *)
LEMMA Rows32From32 == \A k \in 32 .. 39 : Row32(k)
<1>1. /\ crc32high[33] = \h9823 /\ crc32high[34] = \h9ce2 /\ crc32high[35] = \h91a1
     /\ crc32high[36] = \h9560 /\ crc32high[37] = \h8b27 /\ crc32high[38] = \h8fe6
     /\ crc32high[39] = \h82a5 /\ crc32high[40] = \h8664 /\ crc32high[65] = \h3486
     /\ crc32high[66] = \h3047 /\ crc32high[67] = \h3d04 /\ crc32high[68] = \h39c5
     /\ crc32high[69] = \h2782 /\ crc32high[70] = \h2343 /\ crc32high[71] = \h2e00
     /\ crc32high[72] = \h2ac1 /\ crc32high[73] = \h128e /\ crc32high[74] = \h164f
     /\ crc32high[75] = \h1b0c /\ crc32high[76] = \h1fcd /\ crc32high[77] = \h018a
     /\ crc32high[78] = \h054b /\ crc32high[79] = \h0808 /\ crc32high[80] = \h0cc9
  BY DEF crc32high
<1>2. /\ crc32low[33] = \hb6e0 /\ crc32low[34] = \hab57 /\ crc32low[35] = \h8d8e
     /\ crc32low[36] = \h9039 /\ crc32low[37] = \hc03c /\ crc32low[38] = \hdd8b
     /\ crc32low[39] = \hfb52 /\ crc32low[40] = \he6e5 /\ crc32low[65] = \h7077
     /\ crc32low[66] = \h6dc0 /\ crc32low[67] = \h4b19 /\ crc32low[68] = \h56ae
     /\ crc32low[69] = \h06ab /\ crc32low[70] = \h1b1c /\ crc32low[71] = \h3dc5
     /\ crc32low[72] = \h2072 /\ crc32low[73] = \h9dcf /\ crc32low[74] = \h8078
     /\ crc32low[75] = \ha6a1 /\ crc32low[76] = \hbb16 /\ crc32low[77] = \heb13
     /\ crc32low[78] = \hf6a4 /\ crc32low[79] = \hd07d /\ crc32low[80] = \hcdca
  BY DEF crc32low
<1>3. /\ Turned32High(\h9823, \hb6e0) = \h3486 /\ Turned32High(\h9ce2, \hab57) = \h3d04
     /\ Turned32High(\h91a1, \h8d8e) = \h2782 /\ Turned32High(\h9560, \h9039) = \h2e00
     /\ Turned32High(\h8b27, \hc03c) = \h128e /\ Turned32High(\h8fe6, \hdd8b) = \h1b0c
     /\ Turned32High(\h82a5, \hfb52) = \h018a /\ Turned32High(\h8664, \he6e5) = \h0808
  BY DEF Turned32High, Xor
<1>4. /\ Turned32Low(\h9823, \hb6e0) = \h7077 /\ Turned32Low(\h9ce2, \hab57) = \h4b19
     /\ Turned32Low(\h91a1, \h8d8e) = \h06ab /\ Turned32Low(\h9560, \h9039) = \h3dc5
     /\ Turned32Low(\h8b27, \hc03c) = \h9dcf /\ Turned32Low(\h8fe6, \hdd8b) = \ha6a1
     /\ Turned32Low(\h82a5, \hfb52) = \heb13 /\ Turned32Low(\h8664, \he6e5) = \hd07d
  BY DEF Turned32Low, Xor
<1>5. /\ Xor(\h3486, \h04c1) = \h3047 /\ Xor(\h3d04, \h04c1) = \h39c5
     /\ Xor(\h2782, \h04c1) = \h2343 /\ Xor(\h2e00, \h04c1) = \h2ac1
     /\ Xor(\h128e, \h04c1) = \h164f /\ Xor(\h1b0c, \h04c1) = \h1fcd
     /\ Xor(\h018a, \h04c1) = \h054b /\ Xor(\h0808, \h04c1) = \h0cc9
  BY DEF Xor
<1>6. /\ Xor(\h7077, \h1db7) = \h6dc0 /\ Xor(\h4b19, \h1db7) = \h56ae
     /\ Xor(\h06ab, \h1db7) = \h1b1c /\ Xor(\h3dc5, \h1db7) = \h2072
     /\ Xor(\h9dcf, \h1db7) = \h8078 /\ Xor(\ha6a1, \h1db7) = \hbb16
     /\ Xor(\heb13, \h1db7) = \hf6a4 /\ Xor(\hd07d, \h1db7) = \hcdca
  BY DEF Xor
<1>7. /\ \h9823 \in Word16 /\ \hb6e0 \in Word16 /\ \h9ce2 \in Word16 /\ \hab57 \in Word16
     /\ \h91a1 \in Word16 /\ \h8d8e \in Word16 /\ \h9560 \in Word16 /\ \h9039 \in Word16
     /\ \h8b27 \in Word16 /\ \hc03c \in Word16 /\ \h8fe6 \in Word16 /\ \hdd8b \in Word16
     /\ \h82a5 \in Word16 /\ \hfb52 \in Word16 /\ \h8664 \in Word16 /\ \he6e5 \in Word16
  BY DEF Word16
<1>8. /\ Row32(32) /\ Row32(33) /\ Row32(34) /\ Row32(35) /\ Row32(36) /\ Row32(37)
     /\ Row32(38) /\ Row32(39)
  BY <1>1, <1>2, <1>3, <1>4, <1>5, <1>6, <1>7 DEF Row32
<1> QED BY <1>8

(* Rows 80 to 95 of crc32table, two for each k.                            *)
LEMMA Rows32From40 == \A k \in 40 .. 47 : Row32(k)
<1>1. /\ crc32high[41] = \hbe2b /\ crc32high[42] = \hbaea /\ crc32high[43] = \hb7a9
     /\ crc32high[44] = \hb368 /\ crc32high[45] = \had2f /\ crc32high[46] = \ha9ee
     /\ crc32high[47] = \ha4ad /\ crc32high[48] = \ha06c /\ crc32high[81] = \h7897
     /\ crc32high[82] = \h7c56 /\ crc32high[83] = \h7115 /\ crc32high[84] = \h75d4
     /\ crc32high[85] = \h6b93 /\ crc32high[86] = \h6f52 /\ crc32high[87] = \h6211
     /\ crc32high[88] = \h66d0 /\ crc32high[89] = \h5e9f /\ crc32high[90] = \h5a5e
     /\ crc32high[91] = \h571d /\ crc32high[92] = \h53dc /\ crc32high[93] = \h4d9b
     /\ crc32high[94] = \h495a /\ crc32high[95] = \h4419 /\ crc32high[96] = \h40d8
  BY DEF crc32high
<1>2. /\ crc32low[41] = \h5b58 /\ crc32low[42] = \h46ef /\ crc32low[43] = \h6036
     /\ crc32low[44] = \h7d81 /\ crc32low[45] = \h2d84 /\ crc32low[46] = \h3033
     /\ crc32low[47] = \h16ea /\ crc32low[48] = \h0b5d /\ crc32low[81] = \hab07
     /\ crc32low[82] = \hb6b0 /\ crc32low[83] = \h9069 /\ crc32low[84] = \h8dde
     /\ crc32low[85] = \hdddb /\ crc32low[86] = \hc06c /\ crc32low[87] = \he6b5
     /\ crc32low[88] = \hfb02 /\ crc32low[89] = \h46bf /\ crc32low[90] = \h5b08
     /\ crc32low[91] = \h7dd1 /\ crc32low[92] = \h6066 /\ crc32low[93] = \h3063
     /\ crc32low[94] = \h2dd4 /\ crc32low[95] = \h0b0d /\ crc32low[96] = \h16ba
  BY DEF crc32low
<1>3. /\ Turned32High(\hbe2b, \h5b58) = \h7897 /\ Turned32High(\hbaea, \h46ef) = \h7115
     /\ Turned32High(\hb7a9, \h6036) = \h6b93 /\ Turned32High(\hb368, \h7d81) = \h6211
     /\ Turned32High(\had2f, \h2d84) = \h5e9f /\ Turned32High(\ha9ee, \h3033) = \h571d
     /\ Turned32High(\ha4ad, \h16ea) = \h4d9b /\ Turned32High(\ha06c, \h0b5d) = \h4419
  BY DEF Turned32High, Xor
<1>4. /\ Turned32Low(\hbe2b, \h5b58) = \hab07 /\ Turned32Low(\hbaea, \h46ef) = \h9069
     /\ Turned32Low(\hb7a9, \h6036) = \hdddb /\ Turned32Low(\hb368, \h7d81) = \he6b5
     /\ Turned32Low(\had2f, \h2d84) = \h46bf /\ Turned32Low(\ha9ee, \h3033) = \h7dd1
     /\ Turned32Low(\ha4ad, \h16ea) = \h3063 /\ Turned32Low(\ha06c, \h0b5d) = \h0b0d
  BY DEF Turned32Low, Xor
<1>5. /\ Xor(\h7897, \h04c1) = \h7c56 /\ Xor(\h7115, \h04c1) = \h75d4
     /\ Xor(\h6b93, \h04c1) = \h6f52 /\ Xor(\h6211, \h04c1) = \h66d0
     /\ Xor(\h5e9f, \h04c1) = \h5a5e /\ Xor(\h571d, \h04c1) = \h53dc
     /\ Xor(\h4d9b, \h04c1) = \h495a /\ Xor(\h4419, \h04c1) = \h40d8
  BY DEF Xor
<1>6. /\ Xor(\hab07, \h1db7) = \hb6b0 /\ Xor(\h9069, \h1db7) = \h8dde
     /\ Xor(\hdddb, \h1db7) = \hc06c /\ Xor(\he6b5, \h1db7) = \hfb02
     /\ Xor(\h46bf, \h1db7) = \h5b08 /\ Xor(\h7dd1, \h1db7) = \h6066
     /\ Xor(\h3063, \h1db7) = \h2dd4 /\ Xor(\h0b0d, \h1db7) = \h16ba
  BY DEF Xor
<1>7. /\ \hbe2b \in Word16 /\ \h5b58 \in Word16 /\ \hbaea \in Word16 /\ \h46ef \in Word16
     /\ \hb7a9 \in Word16 /\ \h6036 \in Word16 /\ \hb368 \in Word16 /\ \h7d81 \in Word16
     /\ \had2f \in Word16 /\ \h2d84 \in Word16 /\ \ha9ee \in Word16 /\ \h3033 \in Word16
     /\ \ha4ad \in Word16 /\ \h16ea \in Word16 /\ \ha06c \in Word16 /\ \h0b5d \in Word16
  BY DEF Word16
<1>8. /\ Row32(40) /\ Row32(41) /\ Row32(42) /\ Row32(43) /\ Row32(44) /\ Row32(45)
     /\ Row32(46) /\ Row32(47)
  BY <1>1, <1>2, <1>3, <1>4, <1>5, <1>6, <1>7 DEF Row32
<1> QED BY <1>8

(* Rows 96 to 111 of crc32table, two for each k.                           *)
LEMMA Rows32From48 == \A k \in 48 .. 55 : Row32(k)
<1>1. /\ crc32high[49] = \hd432 /\ crc32high[50] = \hd0f3 /\ crc32high[51] = \hddb0
     /\ crc32high[52] = \hd971 /\ crc32high[53] = \hc736 /\ crc32high[54] = \hc3f7
     /\ crc32high[55] = \hceb4 /\ crc32high[56] = \hca75 /\ crc32high[97] = \haca5
     /\ crc32high[98] = \ha864 /\ crc32high[99] = \ha527 /\ crc32high[100] = \ha1e6
     /\ crc32high[101] = \hbfa1 /\ crc32high[102] = \hbb60 /\ crc32high[103] = \hb623
     /\ crc32high[104] = \hb2e2 /\ crc32high[105] = \h8aad /\ crc32high[106] = \h8e6c
     /\ crc32high[107] = \h832f /\ crc32high[108] = \h87ee /\ crc32high[109] = \h99a9
     /\ crc32high[110] = \h9d68 /\ crc32high[111] = \h902b /\ crc32high[112] = \h94ea
  BY DEF crc32high
<1>2. /\ crc32low[49] = \h6d90 /\ crc32low[50] = \h7027 /\ crc32low[51] = \h56fe
     /\ crc32low[52] = \h4b49 /\ crc32low[53] = \h1b4c /\ crc32low[54] = \h06fb
     /\ crc32low[55] = \h2022 /\ crc32low[56] = \h3d95 /\ crc32low[97] = \hc697
     /\ crc32low[98] = \hdb20 /\ crc32low[99] = \hfdf9 /\ crc32low[100] = \he04e
     /\ crc32low[101] = \hb04b /\ crc32low[102] = \hadfc /\ crc32low[103] = \h8b25
     /\ crc32low[104] = \h9692 /\ crc32low[105] = \h2b2f /\ crc32low[106] = \h3698
     /\ crc32low[107] = \h1041 /\ crc32low[108] = \h0df6 /\ crc32low[109] = \h5df3
     /\ crc32low[110] = \h4044 /\ crc32low[111] = \h669d /\ crc32low[112] = \h7b2a
  BY DEF crc32low
<1>3. /\ Turned32High(\hd432, \h6d90) = \haca5 /\ Turned32High(\hd0f3, \h7027) = \ha527
     /\ Turned32High(\hddb0, \h56fe) = \hbfa1 /\ Turned32High(\hd971, \h4b49) = \hb623
     /\ Turned32High(\hc736, \h1b4c) = \h8aad /\ Turned32High(\hc3f7, \h06fb) = \h832f
     /\ Turned32High(\hceb4, \h2022) = \h99a9 /\ Turned32High(\hca75, \h3d95) = \h902b
  BY DEF Turned32High, Xor
<1>4. /\ Turned32Low(\hd432, \h6d90) = \hc697 /\ Turned32Low(\hd0f3, \h7027) = \hfdf9
     /\ Turned32Low(\hddb0, \h56fe) = \hb04b /\ Turned32Low(\hd971, \h4b49) = \h8b25
     /\ Turned32Low(\hc736, \h1b4c) = \h2b2f /\ Turned32Low(\hc3f7, \h06fb) = \h1041
     /\ Turned32Low(\hceb4, \h2022) = \h5df3 /\ Turned32Low(\hca75, \h3d95) = \h669d
  BY DEF Turned32Low, Xor
<1>5. /\ Xor(\haca5, \h04c1) = \ha864 /\ Xor(\ha527, \h04c1) = \ha1e6
     /\ Xor(\hbfa1, \h04c1) = \hbb60 /\ Xor(\hb623, \h04c1) = \hb2e2
     /\ Xor(\h8aad, \h04c1) = \h8e6c /\ Xor(\h832f, \h04c1) = \h87ee
     /\ Xor(\h99a9, \h04c1) = \h9d68 /\ Xor(\h902b, \h04c1) = \h94ea
  BY DEF Xor
<1>6. /\ Xor(\hc697, \h1db7) = \hdb20 /\ Xor(\hfdf9, \h1db7) = \he04e
     /\ Xor(\hb04b, \h1db7) = \hadfc /\ Xor(\h8b25, \h1db7) = \h9692
     /\ Xor(\h2b2f, \h1db7) = \h3698 /\ Xor(\h1041, \h1db7) = \h0df6
     /\ Xor(\h5df3, \h1db7) = \h4044 /\ Xor(\h669d, \h1db7) = \h7b2a
  BY DEF Xor
<1>7. /\ \hd432 \in Word16 /\ \h6d90 \in Word16 /\ \hd0f3 \in Word16 /\ \h7027 \in Word16
     /\ \hddb0 \in Word16 /\ \h56fe \in Word16 /\ \hd971 \in Word16 /\ \h4b49 \in Word16
     /\ \hc736 \in Word16 /\ \h1b4c \in Word16 /\ \hc3f7 \in Word16 /\ \h06fb \in Word16
     /\ \hceb4 \in Word16 /\ \h2022 \in Word16 /\ \hca75 \in Word16 /\ \h3d95 \in Word16
  BY DEF Word16
<1>8. /\ Row32(48) /\ Row32(49) /\ Row32(50) /\ Row32(51) /\ Row32(52) /\ Row32(53)
     /\ Row32(54) /\ Row32(55)
  BY <1>1, <1>2, <1>3, <1>4, <1>5, <1>6, <1>7 DEF Row32
<1> QED BY <1>8

(* Rows 112 to 127 of crc32table, two for each k.                          *)
LEMMA Rows32From56 == \A k \in 56 .. 63 : Row32(k)
<1>1. /\ crc32high[57] = \hf23a /\ crc32high[58] = \hf6fb /\ crc32high[59] = \hfbb8
     /\ crc32high[60] = \hff79 /\ crc32high[61] = \he13e /\ crc32high[62] = \he5ff
     /\ crc32high[63] = \he8bc /\ crc32high[64] = \hec7d /\ crc32high[113] = \he0b4
     /\ crc32high[114] = \he475 /\ crc32high[115] = \he936 /\ crc32high[116] = \hedf7
     /\ crc32high[117] = \hf3b0 /\ crc32high[118] = \hf771 /\ crc32high[119] = \hfa32
     /\ crc32high[120] = \hfef3 /\ crc32high[121] = \hc6bc /\ crc32high[122] = \hc27d
     /\ crc32high[123] = \hcf3e /\ crc32high[124] = \hcbff /\ crc32high[125] = \hd5b8
     /\ crc32high[126] = \hd179 /\ crc32high[127] = \hdc3a /\ crc32high[128] = \hd8fb
  BY DEF crc32high
<1>2. /\ crc32low[57] = \h8028 /\ crc32low[58] = \h9d9f /\ crc32low[59] = \hbb46
     /\ crc32low[60] = \ha6f1 /\ crc32low[61] = \hf6f4 /\ crc32low[62] = \heb43
     /\ crc32low[63] = \hcd9a /\ crc32low[64] = \hd02d /\ crc32low[113] = \h1de7
     /\ crc32low[114] = \h0050 /\ crc32low[115] = \h2689 /\ crc32low[116] = \h3b3e
     /\ crc32low[117] = \h6b3b /\ crc32low[118] = \h768c /\ crc32low[119] = \h5055
     /\ crc32low[120] = \h4de2 /\ crc32low[121] = \hf05f /\ crc32low[122] = \hede8
     /\ crc32low[123] = \hcb31 /\ crc32low[124] = \hd686 /\ crc32low[125] = \h8683
     /\ crc32low[126] = \h9b34 /\ crc32low[127] = \hbded /\ crc32low[128] = \ha05a
  BY DEF crc32low
<1>3. /\ Turned32High(\hf23a, \h8028) = \he0b4 /\ Turned32High(\hf6fb, \h9d9f) = \he936
     /\ Turned32High(\hfbb8, \hbb46) = \hf3b0 /\ Turned32High(\hff79, \ha6f1) = \hfa32
     /\ Turned32High(\he13e, \hf6f4) = \hc6bc /\ Turned32High(\he5ff, \heb43) = \hcf3e
     /\ Turned32High(\he8bc, \hcd9a) = \hd5b8 /\ Turned32High(\hec7d, \hd02d) = \hdc3a
  BY DEF Turned32High, Xor
<1>4. /\ Turned32Low(\hf23a, \h8028) = \h1de7 /\ Turned32Low(\hf6fb, \h9d9f) = \h2689
     /\ Turned32Low(\hfbb8, \hbb46) = \h6b3b /\ Turned32Low(\hff79, \ha6f1) = \h5055
     /\ Turned32Low(\he13e, \hf6f4) = \hf05f /\ Turned32Low(\he5ff, \heb43) = \hcb31
     /\ Turned32Low(\he8bc, \hcd9a) = \h8683 /\ Turned32Low(\hec7d, \hd02d) = \hbded
  BY DEF Turned32Low, Xor
<1>5. /\ Xor(\he0b4, \h04c1) = \he475 /\ Xor(\he936, \h04c1) = \hedf7
     /\ Xor(\hf3b0, \h04c1) = \hf771 /\ Xor(\hfa32, \h04c1) = \hfef3
     /\ Xor(\hc6bc, \h04c1) = \hc27d /\ Xor(\hcf3e, \h04c1) = \hcbff
     /\ Xor(\hd5b8, \h04c1) = \hd179 /\ Xor(\hdc3a, \h04c1) = \hd8fb
  BY DEF Xor
<1>6. /\ Xor(\h1de7, \h1db7) = \h0050 /\ Xor(\h2689, \h1db7) = \h3b3e
     /\ Xor(\h6b3b, \h1db7) = \h768c /\ Xor(\h5055, \h1db7) = \h4de2
     /\ Xor(\hf05f, \h1db7) = \hede8 /\ Xor(\hcb31, \h1db7) = \hd686
     /\ Xor(\h8683, \h1db7) = \h9b34 /\ Xor(\hbded, \h1db7) = \ha05a
  BY DEF Xor
<1>7. /\ \hf23a \in Word16 /\ \h8028 \in Word16 /\ \hf6fb \in Word16 /\ \h9d9f \in Word16
     /\ \hfbb8 \in Word16 /\ \hbb46 \in Word16 /\ \hff79 \in Word16 /\ \ha6f1 \in Word16
     /\ \he13e \in Word16 /\ \hf6f4 \in Word16 /\ \he5ff \in Word16 /\ \heb43 \in Word16
     /\ \he8bc \in Word16 /\ \hcd9a \in Word16 /\ \hec7d \in Word16 /\ \hd02d \in Word16
  BY DEF Word16
<1>8. /\ Row32(56) /\ Row32(57) /\ Row32(58) /\ Row32(59) /\ Row32(60) /\ Row32(61)
     /\ Row32(62) /\ Row32(63)
  BY <1>1, <1>2, <1>3, <1>4, <1>5, <1>6, <1>7 DEF Row32
<1> QED BY <1>8

(* Rows 128 to 143 of crc32table, two for each k.                          *)
LEMMA Rows32From64 == \A k \in 64 .. 71 : Row32(k)
<1>1. /\ crc32high[65] = \h3486 /\ crc32high[66] = \h3047 /\ crc32high[67] = \h3d04
     /\ crc32high[68] = \h39c5 /\ crc32high[69] = \h2782 /\ crc32high[70] = \h2343
     /\ crc32high[71] = \h2e00 /\ crc32high[72] = \h2ac1 /\ crc32high[129] = \h690c
     /\ crc32high[130] = \h6dcd /\ crc32high[131] = \h608e /\ crc32high[132] = \h644f
     /\ crc32high[133] = \h7a08 /\ crc32high[134] = \h7ec9 /\ crc32high[135] = \h738a
     /\ crc32high[136] = \h774b /\ crc32high[137] = \h4f04 /\ crc32high[138] = \h4bc5
     /\ crc32high[139] = \h4686 /\ crc32high[140] = \h4247 /\ crc32high[141] = \h5c00
     /\ crc32high[142] = \h58c1 /\ crc32high[143] = \h5582 /\ crc32high[144] = \h5143
  BY DEF crc32high
<1>2. /\ crc32low[65] = \h7077 /\ crc32low[66] = \h6dc0 /\ crc32low[67] = \h4b19
     /\ crc32low[68] = \h56ae /\ crc32low[69] = \h06ab /\ crc32low[70] = \h1b1c
     /\ crc32low[71] = \h3dc5 /\ crc32low[72] = \h2072 /\ crc32low[129] = \he0ee
     /\ crc32low[130] = \hfd59 /\ crc32low[131] = \hdb80 /\ crc32low[132] = \hc637
     /\ crc32low[133] = \h9632 /\ crc32low[134] = \h8b85 /\ crc32low[135] = \had5c
     /\ crc32low[136] = \hb0eb /\ crc32low[137] = \h0d56 /\ crc32low[138] = \h10e1
     /\ crc32low[139] = \h3638 /\ crc32low[140] = \h2b8f /\ crc32low[141] = \h7b8a
     /\ crc32low[142] = \h663d /\ crc32low[143] = \h40e4 /\ crc32low[144] = \h5d53
  BY DEF crc32low
<1>3. /\ Turned32High(\h3486, \h7077) = \h690c /\ Turned32High(\h3047, \h6dc0) = \h608e
     /\ Turned32High(\h3d04, \h4b19) = \h7a08 /\ Turned32High(\h39c5, \h56ae) = \h738a
     /\ Turned32High(\h2782, \h06ab) = \h4f04 /\ Turned32High(\h2343, \h1b1c) = \h4686
     /\ Turned32High(\h2e00, \h3dc5) = \h5c00 /\ Turned32High(\h2ac1, \h2072) = \h5582
  BY DEF Turned32High, Xor
<1>4. /\ Turned32Low(\h3486, \h7077) = \he0ee /\ Turned32Low(\h3047, \h6dc0) = \hdb80
     /\ Turned32Low(\h3d04, \h4b19) = \h9632 /\ Turned32Low(\h39c5, \h56ae) = \had5c
     /\ Turned32Low(\h2782, \h06ab) = \h0d56 /\ Turned32Low(\h2343, \h1b1c) = \h3638
     /\ Turned32Low(\h2e00, \h3dc5) = \h7b8a /\ Turned32Low(\h2ac1, \h2072) = \h40e4
  BY DEF Turned32Low, Xor
<1>5. /\ Xor(\h690c, \h04c1) = \h6dcd /\ Xor(\h608e, \h04c1) = \h644f
     /\ Xor(\h7a08, \h04c1) = \h7ec9 /\ Xor(\h738a, \h04c1) = \h774b
     /\ Xor(\h4f04, \h04c1) = \h4bc5 /\ Xor(\h4686, \h04c1) = \h4247
     /\ Xor(\h5c00, \h04c1) = \h58c1 /\ Xor(\h5582, \h04c1) = \h5143
  BY DEF Xor
<1>6. /\ Xor(\he0ee, \h1db7) = \hfd59 /\ Xor(\hdb80, \h1db7) = \hc637
     /\ Xor(\h9632, \h1db7) = \h8b85 /\ Xor(\had5c, \h1db7) = \hb0eb
     /\ Xor(\h0d56, \h1db7) = \h10e1 /\ Xor(\h3638, \h1db7) = \h2b8f
     /\ Xor(\h7b8a, \h1db7) = \h663d /\ Xor(\h40e4, \h1db7) = \h5d53
  BY DEF Xor
<1>7. /\ \h3486 \in Word16 /\ \h7077 \in Word16 /\ \h3047 \in Word16 /\ \h6dc0 \in Word16
     /\ \h3d04 \in Word16 /\ \h4b19 \in Word16 /\ \h39c5 \in Word16 /\ \h56ae \in Word16
     /\ \h2782 \in Word16 /\ \h06ab \in Word16 /\ \h2343 \in Word16 /\ \h1b1c \in Word16
     /\ \h2e00 \in Word16 /\ \h3dc5 \in Word16 /\ \h2ac1 \in Word16 /\ \h2072 \in Word16
  BY DEF Word16
<1>8. /\ Row32(64) /\ Row32(65) /\ Row32(66) /\ Row32(67) /\ Row32(68) /\ Row32(69)
     /\ Row32(70) /\ Row32(71)
  BY <1>1, <1>2, <1>3, <1>4, <1>5, <1>6, <1>7 DEF Row32
<1> QED BY <1>8

(* Rows 144 to 159 of crc32table, two for each k.                          *)
LEMMA Rows32From72 == \A k \in 72 .. 79 : Row32(k)
<1>1. /\ crc32high[73] = \h128e /\ crc32high[74] = \h164f /\ crc32high[75] = \h1b0c
     /\ crc32high[76] = \h1fcd /\ crc32high[77] = \h018a /\ crc32high[78] = \h054b
     /\ crc32high[79] = \h0808 /\ crc32high[80] = \h0cc9 /\ crc32high[145] = \h251d
     /\ crc32high[146] = \h21dc /\ crc32high[147] = \h2c9f /\ crc32high[148] = \h285e
     /\ crc32high[149] = \h3619 /\ crc32high[150] = \h32d8 /\ crc32high[151] = \h3f9b
     /\ crc32high[152] = \h3b5a /\ crc32high[153] = \h0315 /\ crc32high[154] = \h07d4
     /\ crc32high[155] = \h0a97 /\ crc32high[156] = \h0e56 /\ crc32high[157] = \h1011
     /\ crc32high[158] = \h14d0 /\ crc32high[159] = \h1993 /\ crc32high[160] = \h1d52
  BY DEF crc32high
<1>2. /\ crc32low[73] = \h9dcf /\ crc32low[74] = \h8078 /\ crc32low[75] = \ha6a1
     /\ crc32low[76] = \hbb16 /\ crc32low[77] = \heb13 /\ crc32low[78] = \hf6a4
     /\ crc32low[79] = \hd07d /\ crc32low[80] = \hcdca /\ crc32low[145] = \h3b9e
     /\ crc32low[146] = \h2629 /\ crc32low[147] = \h00f0 /\ crc32low[148] = \h1d47
     /\ crc32low[149] = \h4d42 /\ crc32low[150] = \h50f5 /\ crc32low[151] = \h762c
     /\ crc32low[152] = \h6b9b /\ crc32low[153] = \hd626 /\ crc32low[154] = \hcb91
     /\ crc32low[155] = \hed48 /\ crc32low[156] = \hf0ff /\ crc32low[157] = \ha0fa
     /\ crc32low[158] = \hbd4d /\ crc32low[159] = \h9b94 /\ crc32low[160] = \h8623
  BY DEF crc32low
<1>3. /\ Turned32High(\h128e, \h9dcf) = \h251d /\ Turned32High(\h164f, \h8078) = \h2c9f
     /\ Turned32High(\h1b0c, \ha6a1) = \h3619 /\ Turned32High(\h1fcd, \hbb16) = \h3f9b
     /\ Turned32High(\h018a, \heb13) = \h0315 /\ Turned32High(\h054b, \hf6a4) = \h0a97
     /\ Turned32High(\h0808, \hd07d) = \h1011 /\ Turned32High(\h0cc9, \hcdca) = \h1993
  BY DEF Turned32High, Xor
<1>4. /\ Turned32Low(\h128e, \h9dcf) = \h3b9e /\ Turned32Low(\h164f, \h8078) = \h00f0
     /\ Turned32Low(\h1b0c, \ha6a1) = \h4d42 /\ Turned32Low(\h1fcd, \hbb16) = \h762c
     /\ Turned32Low(\h018a, \heb13) = \hd626 /\ Turned32Low(\h054b, \hf6a4) = \hed48
     /\ Turned32Low(\h0808, \hd07d) = \ha0fa /\ Turned32Low(\h0cc9, \hcdca) = \h9b94
  BY DEF Turned32Low, Xor
<1>5. /\ Xor(\h251d, \h04c1) = \h21dc /\ Xor(\h2c9f, \h04c1) = \h285e
     /\ Xor(\h3619, \h04c1) = \h32d8 /\ Xor(\h3f9b, \h04c1) = \h3b5a
     /\ Xor(\h0315, \h04c1) = \h07d4 /\ Xor(\h0a97, \h04c1) = \h0e56
     /\ Xor(\h1011, \h04c1) = \h14d0 /\ Xor(\h1993, \h04c1) = \h1d52
  BY DEF Xor
<1>6. /\ Xor(\h3b9e, \h1db7) = \h2629 /\ Xor(\h00f0, \h1db7) = \h1d47
     /\ Xor(\h4d42, \h1db7) = \h50f5 /\ Xor(\h762c, \h1db7) = \h6b9b
     /\ Xor(\hd626, \h1db7) = \hcb91 /\ Xor(\hed48, \h1db7) = \hf0ff
     /\ Xor(\ha0fa, \h1db7) = \hbd4d /\ Xor(\h9b94, \h1db7) = \h8623
  BY DEF Xor
<1>7. /\ \h128e \in Word16 /\ \h9dcf \in Word16 /\ \h164f \in Word16 /\ \h8078 \in Word16
     /\ \h1b0c \in Word16 /\ \ha6a1 \in Word16 /\ \h1fcd \in Word16 /\ \hbb16 \in Word16
     /\ \h018a \in Word16 /\ \heb13 \in Word16 /\ \h054b \in Word16 /\ \hf6a4 \in Word16
     /\ \h0808 \in Word16 /\ \hd07d \in Word16 /\ \h0cc9 \in Word16 /\ \hcdca \in Word16
  BY DEF Word16
<1>8. /\ Row32(72) /\ Row32(73) /\ Row32(74) /\ Row32(75) /\ Row32(76) /\ Row32(77)
     /\ Row32(78) /\ Row32(79)
  BY <1>1, <1>2, <1>3, <1>4, <1>5, <1>6, <1>7 DEF Row32
<1> QED BY <1>8

(* Rows 160 to 175 of crc32table, two for each k.                          *)
LEMMA Rows32From80 == \A k \in 80 .. 87 : Row32(k)
<1>1. /\ crc32high[81] = \h7897 /\ crc32high[82] = \h7c56 /\ crc32high[83] = \h7115
     /\ crc32high[84] = \h75d4 /\ crc32high[85] = \h6b93 /\ crc32high[86] = \h6f52
     /\ crc32high[87] = \h6211 /\ crc32high[88] = \h66d0 /\ crc32high[161] = \hf12f
     /\ crc32high[162] = \hf5ee /\ crc32high[163] = \hf8ad /\ crc32high[164] = \hfc6c
     /\ crc32high[165] = \he22b /\ crc32high[166] = \he6ea /\ crc32high[167] = \heba9
     /\ crc32high[168] = \hef68 /\ crc32high[169] = \hd727 /\ crc32high[170] = \hd3e6
     /\ crc32high[171] = \hdea5 /\ crc32high[172] = \hda64 /\ crc32high[173] = \hc423
     /\ crc32high[174] = \hc0e2 /\ crc32high[175] = \hcda1 /\ crc32high[176] = \hc960
  BY DEF crc32high
<1>2. /\ crc32low[81] = \hab07 /\ crc32low[82] = \hb6b0 /\ crc32low[83] = \h9069
     /\ crc32low[84] = \h8dde /\ crc32low[85] = \hdddb /\ crc32low[86] = \hc06c
     /\ crc32low[87] = \he6b5 /\ crc32low[88] = \hfb02 /\ crc32low[161] = \h560e
     /\ crc32low[162] = \h4bb9 /\ crc32low[163] = \h6d60 /\ crc32low[164] = \h70d7
     /\ crc32low[165] = \h20d2 /\ crc32low[166] = \h3d65 /\ crc32low[167] = \h1bbc
     /\ crc32low[168] = \h060b /\ crc32low[169] = \hbbb6 /\ crc32low[170] = \ha601
     /\ crc32low[171] = \h80d8 /\ crc32low[172] = \h9d6f /\ crc32low[173] = \hcd6a
     /\ crc32low[174] = \hd0dd /\ crc32low[175] = \hf604 /\ crc32low[176] = \hebb3
  BY DEF crc32low
<1>3. /\ Turned32High(\h7897, \hab07) = \hf12f /\ Turned32High(\h7c56, \hb6b0) = \hf8ad
     /\ Turned32High(\h7115, \h9069) = \he22b /\ Turned32High(\h75d4, \h8dde) = \heba9
     /\ Turned32High(\h6b93, \hdddb) = \hd727 /\ Turned32High(\h6f52, \hc06c) = \hdea5
     /\ Turned32High(\h6211, \he6b5) = \hc423 /\ Turned32High(\h66d0, \hfb02) = \hcda1
  BY DEF Turned32High, Xor
<1>4. /\ Turned32Low(\h7897, \hab07) = \h560e /\ Turned32Low(\h7c56, \hb6b0) = \h6d60
     /\ Turned32Low(\h7115, \h9069) = \h20d2 /\ Turned32Low(\h75d4, \h8dde) = \h1bbc
     /\ Turned32Low(\h6b93, \hdddb) = \hbbb6 /\ Turned32Low(\h6f52, \hc06c) = \h80d8
     /\ Turned32Low(\h6211, \he6b5) = \hcd6a /\ Turned32Low(\h66d0, \hfb02) = \hf604
  BY DEF Turned32Low, Xor
<1>5. /\ Xor(\hf12f, \h04c1) = \hf5ee /\ Xor(\hf8ad, \h04c1) = \hfc6c
     /\ Xor(\he22b, \h04c1) = \he6ea /\ Xor(\heba9, \h04c1) = \hef68
     /\ Xor(\hd727, \h04c1) = \hd3e6 /\ Xor(\hdea5, \h04c1) = \hda64
     /\ Xor(\hc423, \h04c1) = \hc0e2 /\ Xor(\hcda1, \h04c1) = \hc960
  BY DEF Xor
<1>6. /\ Xor(\h560e, \h1db7) = \h4bb9 /\ Xor(\h6d60, \h1db7) = \h70d7
     /\ Xor(\h20d2, \h1db7) = \h3d65 /\ Xor(\h1bbc, \h1db7) = \h060b
     /\ Xor(\hbbb6, \h1db7) = \ha601 /\ Xor(\h80d8, \h1db7) = \h9d6f
     /\ Xor(\hcd6a, \h1db7) = \hd0dd /\ Xor(\hf604, \h1db7) = \hebb3
  BY DEF Xor
<1>7. /\ \h7897 \in Word16 /\ \hab07 \in Word16 /\ \h7c56 \in Word16 /\ \hb6b0 \in Word16
     /\ \h7115 \in Word16 /\ \h9069 \in Word16 /\ \h75d4 \in Word16 /\ \h8dde \in Word16
     /\ \h6b93 \in Word16 /\ \hdddb \in Word16 /\ \h6f52 \in Word16 /\ \hc06c \in Word16
     /\ \h6211 \in Word16 /\ \he6b5 \in Word16 /\ \h66d0 \in Word16 /\ \hfb02 \in Word16
  BY DEF Word16
<1>8. /\ Row32(80) /\ Row32(81) /\ Row32(82) /\ Row32(83) /\ Row32(84) /\ Row32(85)
     /\ Row32(86) /\ Row32(87)
  BY <1>1, <1>2, <1>3, <1>4, <1>5, <1>6, <1>7 DEF Row32
<1> QED BY <1>8

(* Rows 176 to 191 of crc32table, two for each k.                          *)
LEMMA Rows32From88 == \A k \in 88 .. 95 : Row32(k)
<1>1. /\ crc32high[89] = \h5e9f /\ crc32high[90] = \h5a5e /\ crc32high[91] = \h571d
     /\ crc32high[92] = \h53dc /\ crc32high[93] = \h4d9b /\ crc32high[94] = \h495a
     /\ crc32high[95] = \h4419 /\ crc32high[96] = \h40d8 /\ crc32high[177] = \hbd3e
     /\ crc32high[178] = \hb9ff /\ crc32high[179] = \hb4bc /\ crc32high[180] = \hb07d
     /\ crc32high[181] = \hae3a /\ crc32high[182] = \haafb /\ crc32high[183] = \ha7b8
     /\ crc32high[184] = \ha379 /\ crc32high[185] = \h9b36 /\ crc32high[186] = \h9ff7
     /\ crc32high[187] = \h92b4 /\ crc32high[188] = \h9675 /\ crc32high[189] = \h8832
     /\ crc32high[190] = \h8cf3 /\ crc32high[191] = \h81b0 /\ crc32high[192] = \h8571
  BY DEF crc32high
<1>2. /\ crc32low[89] = \h46bf /\ crc32low[90] = \h5b08 /\ crc32low[91] = \h7dd1
     /\ crc32low[92] = \h6066 /\ crc32low[93] = \h3063 /\ crc32low[94] = \h2dd4
     /\ crc32low[95] = \h0b0d /\ crc32low[96] = \h16ba /\ crc32low[177] = \h8d7e
     /\ crc32low[178] = \h90c9 /\ crc32low[179] = \hb610 /\ crc32low[180] = \haba7
     /\ crc32low[181] = \hfba2 /\ crc32low[182] = \he615 /\ crc32low[183] = \hc0cc
     /\ crc32low[184] = \hdd7b /\ crc32low[185] = \h60c6 /\ crc32low[186] = \h7d71
     /\ crc32low[187] = \h5ba8 /\ crc32low[188] = \h461f /\ crc32low[189] = \h161a
     /\ crc32low[190] = \h0bad /\ crc32low[191] = \h2d74 /\ crc32low[192] = \h30c3
  BY DEF crc32low
<1>3. /\ Turned32High(\h5e9f, \h46bf) = \hbd3e /\ Turned32High(\h5a5e, \h5b08) = \hb4bc
     /\ Turned32High(\h571d, \h7dd1) = \hae3a /\ Turned32High(\h53dc, \h6066) = \ha7b8
     /\ Turned32High(\h4d9b, \h3063) = \h9b36 /\ Turned32High(\h495a, \h2dd4) = \h92b4
     /\ Turned32High(\h4419, \h0b0d) = \h8832 /\ Turned32High(\h40d8, \h16ba) = \h81b0
  BY DEF Turned32High, Xor
<1>4. /\ Turned32Low(\h5e9f, \h46bf) = \h8d7e /\ Turned32Low(\h5a5e, \h5b08) = \hb610
     /\ Turned32Low(\h571d, \h7dd1) = \hfba2 /\ Turned32Low(\h53dc, \h6066) = \hc0cc
     /\ Turned32Low(\h4d9b, \h3063) = \h60c6 /\ Turned32Low(\h495a, \h2dd4) = \h5ba8
     /\ Turned32Low(\h4419, \h0b0d) = \h161a /\ Turned32Low(\h40d8, \h16ba) = \h2d74
  BY DEF Turned32Low, Xor
<1>5. /\ Xor(\hbd3e, \h04c1) = \hb9ff /\ Xor(\hb4bc, \h04c1) = \hb07d
     /\ Xor(\hae3a, \h04c1) = \haafb /\ Xor(\ha7b8, \h04c1) = \ha379
     /\ Xor(\h9b36, \h04c1) = \h9ff7 /\ Xor(\h92b4, \h04c1) = \h9675
     /\ Xor(\h8832, \h04c1) = \h8cf3 /\ Xor(\h81b0, \h04c1) = \h8571
  BY DEF Xor
<1>6. /\ Xor(\h8d7e, \h1db7) = \h90c9 /\ Xor(\hb610, \h1db7) = \haba7
     /\ Xor(\hfba2, \h1db7) = \he615 /\ Xor(\hc0cc, \h1db7) = \hdd7b
     /\ Xor(\h60c6, \h1db7) = \h7d71 /\ Xor(\h5ba8, \h1db7) = \h461f
     /\ Xor(\h161a, \h1db7) = \h0bad /\ Xor(\h2d74, \h1db7) = \h30c3
  BY DEF Xor
<1>7. /\ \h5e9f \in Word16 /\ \h46bf \in Word16 /\ \h5a5e \in Word16 /\ \h5b08 \in Word16
     /\ \h571d \in Word16 /\ \h7dd1 \in Word16 /\ \h53dc \in Word16 /\ \h6066 \in Word16
     /\ \h4d9b \in Word16 /\ \h3063 \in Word16 /\ \h495a \in Word16 /\ \h2dd4 \in Word16
     /\ \h4419 \in Word16 /\ \h0b0d \in Word16 /\ \h40d8 \in Word16 /\ \h16ba \in Word16
  BY DEF Word16
<1>8. /\ Row32(88) /\ Row32(89) /\ Row32(90) /\ Row32(91) /\ Row32(92) /\ Row32(93)
     /\ Row32(94) /\ Row32(95)
  BY <1>1, <1>2, <1>3, <1>4, <1>5, <1>6, <1>7 DEF Row32
<1> QED BY <1>8

(* Rows 192 to 207 of crc32table, two for each k.                          *)
LEMMA Rows32From96 == \A k \in 96 .. 103 : Row32(k)
<1>1. /\ crc32high[97] = \haca5 /\ crc32high[98] = \ha864 /\ crc32high[99] = \ha527
     /\ crc32high[100] = \ha1e6 /\ crc32high[101] = \hbfa1 /\ crc32high[102] = \hbb60
     /\ crc32high[103] = \hb623 /\ crc32high[104] = \hb2e2 /\ crc32high[193] = \h5d8a
     /\ crc32high[194] = \h594b /\ crc32high[195] = \h5408 /\ crc32high[196] = \h50c9
     /\ crc32high[197] = \h4e8e /\ crc32high[198] = \h4a4f /\ crc32high[199] = \h470c
     /\ crc32high[200] = \h43cd /\ crc32high[201] = \h7b82 /\ crc32high[202] = \h7f43
     /\ crc32high[203] = \h7200 /\ crc32high[204] = \h76c1 /\ crc32high[205] = \h6886
     /\ crc32high[206] = \h6c47 /\ crc32high[207] = \h6104 /\ crc32high[208] = \h65c5
  BY DEF crc32high
<1>2. /\ crc32low[97] = \hc697 /\ crc32low[98] = \hdb20 /\ crc32low[99] = \hfdf9
     /\ crc32low[100] = \he04e /\ crc32low[101] = \hb04b /\ crc32low[102] = \hadfc
     /\ crc32low[103] = \h8b25 /\ crc32low[104] = \h9692 /\ crc32low[193] = \h9099
     /\ crc32low[194] = \h8d2e /\ crc32low[195] = \habf7 /\ crc32low[196] = \hb640
     /\ crc32low[197] = \he645 /\ crc32low[198] = \hfbf2 /\ crc32low[199] = \hdd2b
     /\ crc32low[200] = \hc09c /\ crc32low[201] = \h7d21 /\ crc32low[202] = \h6096
     /\ crc32low[203] = \h464f /\ crc32low[204] = \h5bf8 /\ crc32low[205] = \h0bfd
     /\ crc32low[206] = \h164a /\ crc32low[207] = \h3093 /\ crc32low[208] = \h2d24
  BY DEF crc32low
<1>3. /\ Turned32High(\haca5, \hc697) = \h5d8a /\ Turned32High(\ha864, \hdb20) = \h5408
     /\ Turned32High(\ha527, \hfdf9) = \h4e8e /\ Turned32High(\ha1e6, \he04e) = \h470c
     /\ Turned32High(\hbfa1, \hb04b) = \h7b82 /\ Turned32High(\hbb60, \hadfc) = \h7200
     /\ Turned32High(\hb623, \h8b25) = \h6886 /\ Turned32High(\hb2e2, \h9692) = \h6104
  BY DEF Turned32High, Xor
<1>4. /\ Turned32Low(\haca5, \hc697) = \h9099 /\ Turned32Low(\ha864, \hdb20) = \habf7
     /\ Turned32Low(\ha527, \hfdf9) = \he645 /\ Turned32Low(\ha1e6, \he04e) = \hdd2b
     /\ Turned32Low(\hbfa1, \hb04b) = \h7d21 /\ Turned32Low(\hbb60, \hadfc) = \h464f
     /\ Turned32Low(\hb623, \h8b25) = \h0bfd /\ Turned32Low(\hb2e2, \h9692) = \h3093
  BY DEF Turned32Low, Xor
<1>5. /\ Xor(\h5d8a, \h04c1) = \h594b /\ Xor(\h5408, \h04c1) = \h50c9
     /\ Xor(\h4e8e, \h04c1) = \h4a4f /\ Xor(\h470c, \h04c1) = \h43cd
     /\ Xor(\h7b82, \h04c1) = \h7f43 /\ Xor(\h7200, \h04c1) = \h76c1
     /\ Xor(\h6886, \h04c1) = \h6c47 /\ Xor(\h6104, \h04c1) = \h65c5
  BY DEF Xor
<1>6. /\ Xor(\h9099, \h1db7) = \h8d2e /\ Xor(\habf7, \h1db7) = \hb640
     /\ Xor(\he645, \h1db7) = \hfbf2 /\ Xor(\hdd2b, \h1db7) = \hc09c
     /\ Xor(\h7d21, \h1db7) = \h6096 /\ Xor(\h464f, \h1db7) = \h5bf8
     /\ Xor(\h0bfd, \h1db7) = \h164a /\ Xor(\h3093, \h1db7) = \h2d24
  BY DEF Xor
<1>7. /\ \haca5 \in Word16 /\ \hc697 \in Word16 /\ \ha864 \in Word16 /\ \hdb20 \in Word16
     /\ \ha527 \in Word16 /\ \hfdf9 \in Word16 /\ \ha1e6 \in Word16 /\ \he04e \in Word16
     /\ \hbfa1 \in Word16 /\ \hb04b \in Word16 /\ \hbb60 \in Word16 /\ \hadfc \in Word16
     /\ \hb623 \in Word16 /\ \h8b25 \in Word16 /\ \hb2e2 \in Word16 /\ \h9692 \in Word16
  BY DEF Word16
<1>8. /\ Row32(96) /\ Row32(97) /\ Row32(98) /\ Row32(99) /\ Row32(100) /\ Row32(101)
     /\ Row32(102) /\ Row32(103)
  BY <1>1, <1>2, <1>3, <1>4, <1>5, <1>6, <1>7 DEF Row32
<1> QED BY <1>8

(* Rows 208 to 223 of crc32table, two for each k.                          *)
LEMMA Rows32From104 == \A k \in 104 .. 111 : Row32(k)
<1>1. /\ crc32high[105] = \h8aad /\ crc32high[106] = \h8e6c /\ crc32high[107] = \h832f
     /\ crc32high[108] = \h87ee /\ crc32high[109] = \h99a9 /\ crc32high[110] = \h9d68
     /\ crc32high[111] = \h902b /\ crc32high[112] = \h94ea /\ crc32high[209] = \h119b
     /\ crc32high[210] = \h155a /\ crc32high[211] = \h1819 /\ crc32high[212] = \h1cd8
     /\ crc32high[213] = \h029f /\ crc32high[214] = \h065e /\ crc32high[215] = \h0b1d
     /\ crc32high[216] = \h0fdc /\ crc32high[217] = \h3793 /\ crc32high[218] = \h3352
     /\ crc32high[219] = \h3e11 /\ crc32high[220] = \h3ad0 /\ crc32high[221] = \h2497
     /\ crc32high[222] = \h2056 /\ crc32high[223] = \h2d15 /\ crc32high[224] = \h29d4
  BY DEF crc32high
<1>2. /\ crc32low[105] = \h2b2f /\ crc32low[106] = \h3698 /\ crc32low[107] = \h1041
     /\ crc32low[108] = \h0df6 /\ crc32low[109] = \h5df3 /\ crc32low[110] = \h4044
     /\ crc32low[111] = \h669d /\ crc32low[112] = \h7b2a /\ crc32low[209] = \h4be9
     /\ crc32low[210] = \h565e /\ crc32low[211] = \h7087 /\ crc32low[212] = \h6d30
     /\ crc32low[213] = \h3d35 /\ crc32low[214] = \h2082 /\ crc32low[215] = \h065b
     /\ crc32low[216] = \h1bec /\ crc32low[217] = \ha651 /\ crc32low[218] = \hbbe6
     /\ crc32low[219] = \h9d3f /\ crc32low[220] = \h8088 /\ crc32low[221] = \hd08d
     /\ crc32low[222] = \hcd3a /\ crc32low[223] = \hebe3 /\ crc32low[224] = \hf654
  BY DEF crc32low
<1>3. /\ Turned32High(\h8aad, \h2b2f) = \h119b /\ Turned32High(\h8e6c, \h3698) = \h1819
     /\ Turned32High(\h832f, \h1041) = \h029f /\ Turned32High(\h87ee, \h0df6) = \h0b1d
     /\ Turned32High(\h99a9, \h5df3) = \h3793 /\ Turned32High(\h9d68, \h4044) = \h3e11
     /\ Turned32High(\h902b, \h669d) = \h2497 /\ Turned32High(\h94ea, \h7b2a) = \h2d15
  BY DEF Turned32High, Xor
<1>4. /\ Turned32Low(\h8aad, \h2b2f) = \h4be9 /\ Turned32Low(\h8e6c, \h3698) = \h7087
     /\ Turned32Low(\h832f, \h1041) = \h3d35 /\ Turned32Low(\h87ee, \h0df6) = \h065b
     /\ Turned32Low(\h99a9, \h5df3) = \ha651 /\ Turned32Low(\h9d68, \h4044) = \h9d3f
     /\ Turned32Low(\h902b, \h669d) = \hd08d /\ Turned32Low(\h94ea, \h7b2a) = \hebe3
  BY DEF Turned32Low, Xor
<1>5. /\ Xor(\h119b, \h04c1) = \h155a /\ Xor(\h1819, \h04c1) = \h1cd8
     /\ Xor(\h029f, \h04c1) = \h065e /\ Xor(\h0b1d, \h04c1) = \h0fdc
     /\ Xor(\h3793, \h04c1) = \h3352 /\ Xor(\h3e11, \h04c1) = \h3ad0
     /\ Xor(\h2497, \h04c1) = \h2056 /\ Xor(\h2d15, \h04c1) = \h29d4
  BY DEF Xor
<1>6. /\ Xor(\h4be9, \h1db7) = \h565e /\ Xor(\h7087, \h1db7) = \h6d30
     /\ Xor(\h3d35, \h1db7) = \h2082 /\ Xor(\h065b, \h1db7) = \h1bec
     /\ Xor(\ha651, \h1db7) = \hbbe6 /\ Xor(\h9d3f, \h1db7) = \h8088
     /\ Xor(\hd08d, \h1db7) = \hcd3a /\ Xor(\hebe3, \h1db7) = \hf654
  BY DEF Xor
<1>7. /\ \h8aad \in Word16 /\ \h2b2f \in Word16 /\ \h8e6c \in Word16 /\ \h3698 \in Word16
     /\ \h832f \in Word16 /\ \h1041 \in Word16 /\ \h87ee \in Word16 /\ \h0df6 \in Word16
     /\ \h99a9 \in Word16 /\ \h5df3 \in Word16 /\ \h9d68 \in Word16 /\ \h4044 \in Word16
     /\ \h902b \in Word16 /\ \h669d \in Word16 /\ \h94ea \in Word16 /\ \h7b2a \in Word16
  BY DEF Word16
<1>8. /\ Row32(104) /\ Row32(105) /\ Row32(106) /\ Row32(107) /\ Row32(108) /\ Row32(109)
     /\ Row32(110) /\ Row32(111)
  BY <1>1, <1>2, <1>3, <1>4, <1>5, <1>6, <1>7 DEF Row32
<1> QED BY <1>8

(* Rows 224 to 239 of crc32table, two for each k.                          *)
LEMMA Rows32From112 == \A k \in 112 .. 119 : Row32(k)
<1>1. /\ crc32high[113] = \he0b4 /\ crc32high[114] = \he475 /\ crc32high[115] = \he936
     /\ crc32high[116] = \hedf7 /\ crc32high[117] = \hf3b0 /\ crc32high[118] = \hf771
     /\ crc32high[119] = \hfa32 /\ crc32high[120] = \hfef3 /\ crc32high[225] = \hc5a9
     /\ crc32high[226] = \hc168 /\ crc32high[227] = \hcc2b /\ crc32high[228] = \hc8ea
     /\ crc32high[229] = \hd6ad /\ crc32high[230] = \hd26c /\ crc32high[231] = \hdf2f
     /\ crc32high[232] = \hdbee /\ crc32high[233] = \he3a1 /\ crc32high[234] = \he760
     /\ crc32high[235] = \hea23 /\ crc32high[236] = \heee2 /\ crc32high[237] = \hf0a5
     /\ crc32high[238] = \hf464 /\ crc32high[239] = \hf927 /\ crc32high[240] = \hfde6
  BY DEF crc32high
<1>2. /\ crc32low[113] = \h1de7 /\ crc32low[114] = \h0050 /\ crc32low[115] = \h2689
     /\ crc32low[116] = \h3b3e /\ crc32low[117] = \h6b3b /\ crc32low[118] = \h768c
     /\ crc32low[119] = \h5055 /\ crc32low[120] = \h4de2 /\ crc32low[225] = \h2679
     /\ crc32low[226] = \h3bce /\ crc32low[227] = \h1d17 /\ crc32low[228] = \h00a0
     /\ crc32low[229] = \h50a5 /\ crc32low[230] = \h4d12 /\ crc32low[231] = \h6bcb
     /\ crc32low[232] = \h767c /\ crc32low[233] = \hcbc1 /\ crc32low[234] = \hd676
     /\ crc32low[235] = \hf0af /\ crc32low[236] = \hed18 /\ crc32low[237] = \hbd1d
     /\ crc32low[238] = \ha0aa /\ crc32low[239] = \h8673 /\ crc32low[240] = \h9bc4
  BY DEF crc32low
<1>3. /\ Turned32High(\he0b4, \h1de7) = \hc5a9 /\ Turned32High(\he475, \h0050) = \hcc2b
     /\ Turned32High(\he936, \h2689) = \hd6ad /\ Turned32High(\hedf7, \h3b3e) = \hdf2f
     /\ Turned32High(\hf3b0, \h6b3b) = \he3a1 /\ Turned32High(\hf771, \h768c) = \hea23
     /\ Turned32High(\hfa32, \h5055) = \hf0a5 /\ Turned32High(\hfef3, \h4de2) = \hf927
  BY DEF Turned32High, Xor
<1>4. /\ Turned32Low(\he0b4, \h1de7) = \h2679 /\ Turned32Low(\he475, \h0050) = \h1d17
     /\ Turned32Low(\he936, \h2689) = \h50a5 /\ Turned32Low(\hedf7, \h3b3e) = \h6bcb
     /\ Turned32Low(\hf3b0, \h6b3b) = \hcbc1 /\ Turned32Low(\hf771, \h768c) = \hf0af
     /\ Turned32Low(\hfa32, \h5055) = \hbd1d /\ Turned32Low(\hfef3, \h4de2) = \h8673
  BY DEF Turned32Low, Xor
<1>5. /\ Xor(\hc5a9, \h04c1) = \hc168 /\ Xor(\hcc2b, \h04c1) = \hc8ea
     /\ Xor(\hd6ad, \h04c1) = \hd26c /\ Xor(\hdf2f, \h04c1) = \hdbee
     /\ Xor(\he3a1, \h04c1) = \he760 /\ Xor(\hea23, \h04c1) = \heee2
     /\ Xor(\hf0a5, \h04c1) = \hf464 /\ Xor(\hf927, \h04c1) = \hfde6
  BY DEF Xor
<1>6. /\ Xor(\h2679, \h1db7) = \h3bce /\ Xor(\h1d17, \h1db7) = \h00a0
     /\ Xor(\h50a5, \h1db7) = \h4d12 /\ Xor(\h6bcb, \h1db7) = \h767c
     /\ Xor(\hcbc1, \h1db7) = \hd676 /\ Xor(\hf0af, \h1db7) = \hed18
     /\ Xor(\hbd1d, \h1db7) = \ha0aa /\ Xor(\h8673, \h1db7) = \h9bc4
  BY DEF Xor
<1>7. /\ \he0b4 \in Word16 /\ \h1de7 \in Word16 /\ \he475 \in Word16 /\ \h0050 \in Word16
     /\ \he936 \in Word16 /\ \h2689 \in Word16 /\ \hedf7 \in Word16 /\ \h3b3e \in Word16
     /\ \hf3b0 \in Word16 /\ \h6b3b \in Word16 /\ \hf771 \in Word16 /\ \h768c \in Word16
     /\ \hfa32 \in Word16 /\ \h5055 \in Word16 /\ \hfef3 \in Word16 /\ \h4de2 \in Word16
  BY DEF Word16
<1>8. /\ Row32(112) /\ Row32(113) /\ Row32(114) /\ Row32(115) /\ Row32(116) /\ Row32(117)
     /\ Row32(118) /\ Row32(119)
  BY <1>1, <1>2, <1>3, <1>4, <1>5, <1>6, <1>7 DEF Row32
<1> QED BY <1>8

(* Rows 240 to 255 of crc32table, two for each k.                          *)
LEMMA Rows32From120 == \A k \in 120 .. 127 : Row32(k)
<1>1. /\ crc32high[121] = \hc6bc /\ crc32high[122] = \hc27d /\ crc32high[123] = \hcf3e
     /\ crc32high[124] = \hcbff /\ crc32high[125] = \hd5b8 /\ crc32high[126] = \hd179
     /\ crc32high[127] = \hdc3a /\ crc32high[128] = \hd8fb /\ crc32high[241] = \h89b8
     /\ crc32high[242] = \h8d79 /\ crc32high[243] = \h803a /\ crc32high[244] = \h84fb
     /\ crc32high[245] = \h9abc /\ crc32high[246] = \h9e7d /\ crc32high[247] = \h933e
     /\ crc32high[248] = \h97ff /\ crc32high[249] = \hafb0 /\ crc32high[250] = \hab71
     /\ crc32high[251] = \ha632 /\ crc32high[252] = \ha2f3 /\ crc32high[253] = \hbcb4
     /\ crc32high[254] = \hb875 /\ crc32high[255] = \hb536 /\ crc32high[256] = \hb1f7
  BY DEF crc32high
<1>2. /\ crc32low[121] = \hf05f /\ crc32low[122] = \hede8 /\ crc32low[123] = \hcb31
     /\ crc32low[124] = \hd686 /\ crc32low[125] = \h8683 /\ crc32low[126] = \h9b34
     /\ crc32low[127] = \hbded /\ crc32low[128] = \ha05a /\ crc32low[241] = \hfd09
     /\ crc32low[242] = \he0be /\ crc32low[243] = \hc667 /\ crc32low[244] = \hdbd0
     /\ crc32low[245] = \h8bd5 /\ crc32low[246] = \h9662 /\ crc32low[247] = \hb0bb
     /\ crc32low[248] = \had0c /\ crc32low[249] = \h10b1 /\ crc32low[250] = \h0d06
     /\ crc32low[251] = \h2bdf /\ crc32low[252] = \h3668 /\ crc32low[253] = \h666d
     /\ crc32low[254] = \h7bda /\ crc32low[255] = \h5d03 /\ crc32low[256] = \h40b4
  BY DEF crc32low
<1>3. /\ Turned32High(\hc6bc, \hf05f) = \h89b8 /\ Turned32High(\hc27d, \hede8) = \h803a
     /\ Turned32High(\hcf3e, \hcb31) = \h9abc /\ Turned32High(\hcbff, \hd686) = \h933e
     /\ Turned32High(\hd5b8, \h8683) = \hafb0 /\ Turned32High(\hd179, \h9b34) = \ha632
     /\ Turned32High(\hdc3a, \hbded) = \hbcb4 /\ Turned32High(\hd8fb, \ha05a) = \hb536
  BY DEF Turned32High, Xor
<1>4. /\ Turned32Low(\hc6bc, \hf05f) = \hfd09 /\ Turned32Low(\hc27d, \hede8) = \hc667
     /\ Turned32Low(\hcf3e, \hcb31) = \h8bd5 /\ Turned32Low(\hcbff, \hd686) = \hb0bb
     /\ Turned32Low(\hd5b8, \h8683) = \h10b1 /\ Turned32Low(\hd179, \h9b34) = \h2bdf
     /\ Turned32Low(\hdc3a, \hbded) = \h666d /\ Turned32Low(\hd8fb, \ha05a) = \h5d03
  BY DEF Turned32Low, Xor
<1>5. /\ Xor(\h89b8, \h04c1) = \h8d79 /\ Xor(\h803a, \h04c1) = \h84fb
     /\ Xor(\h9abc, \h04c1) = \h9e7d /\ Xor(\h933e, \h04c1) = \h97ff
     /\ Xor(\hafb0, \h04c1) = \hab71 /\ Xor(\ha632, \h04c1) = \ha2f3
     /\ Xor(\hbcb4, \h04c1) = \hb875 /\ Xor(\hb536, \h04c1) = \hb1f7
  BY DEF Xor
<1>6. /\ Xor(\hfd09, \h1db7) = \he0be /\ Xor(\hc667, \h1db7) = \hdbd0
     /\ Xor(\h8bd5, \h1db7) = \h9662 /\ Xor(\hb0bb, \h1db7) = \had0c
     /\ Xor(\h10b1, \h1db7) = \h0d06 /\ Xor(\h2bdf, \h1db7) = \h3668
     /\ Xor(\h666d, \h1db7) = \h7bda /\ Xor(\h5d03, \h1db7) = \h40b4
  BY DEF Xor
<1>7. /\ \hc6bc \in Word16 /\ \hf05f \in Word16 /\ \hc27d \in Word16 /\ \hede8 \in Word16
     /\ \hcf3e \in Word16 /\ \hcb31 \in Word16 /\ \hcbff \in Word16 /\ \hd686 \in Word16
     /\ \hd5b8 \in Word16 /\ \h8683 \in Word16 /\ \hd179 \in Word16 /\ \h9b34 \in Word16
     /\ \hdc3a \in Word16 /\ \hbded \in Word16 /\ \hd8fb \in Word16 /\ \ha05a \in Word16
  BY DEF Word16
<1>8. /\ Row32(120) /\ Row32(121) /\ Row32(122) /\ Row32(123) /\ Row32(124) /\ Row32(125)
     /\ Row32(126) /\ Row32(127)
  BY <1>1, <1>2, <1>3, <1>4, <1>5, <1>6, <1>7 DEF Row32
<1> QED BY <1>8

(* Every row of crc16table (p2sc_hash.c) follows from one before it.       *)
LEMMA AllRows16 == \A k \in 0 .. 127 : Row16(k)
<1> SUFFICES ASSUME NEW k \in 0 .. 127 PROVE Row16(k)
  OBVIOUS
<1>1. /\ (k >= 0 /\ k < 8 => Row16(k)) /\ (k >= 8 /\ k < 16 => Row16(k))
     /\ (k >= 16 /\ k < 24 => Row16(k)) /\ (k >= 24 /\ k < 32 => Row16(k))
     /\ (k >= 32 /\ k < 40 => Row16(k)) /\ (k >= 40 /\ k < 48 => Row16(k))
     /\ (k >= 48 /\ k < 56 => Row16(k)) /\ (k >= 56 /\ k < 64 => Row16(k))
     /\ (k >= 64 /\ k < 72 => Row16(k)) /\ (k >= 72 /\ k < 80 => Row16(k))
     /\ (k >= 80 /\ k < 88 => Row16(k)) /\ (k >= 88 /\ k < 96 => Row16(k))
     /\ (k >= 96 /\ k < 104 => Row16(k)) /\ (k >= 104 /\ k < 112 => Row16(k))
     /\ (k >= 112 /\ k < 120 => Row16(k)) /\ (k >= 120 /\ k < 128 => Row16(k))
  BY Rows16From0, Rows16From8, Rows16From16, Rows16From24, Rows16From32, Rows16From40,
       Rows16From48, Rows16From56, Rows16From64, Rows16From72, Rows16From80, Rows16From88,
       Rows16From96, Rows16From104, Rows16From112, Rows16From120
<1> QED BY <1>1

(* Every row of crc32table (p2sc_hash.c) follows from one before it.       *)
LEMMA AllRows32 == \A k \in 0 .. 127 : Row32(k)
<1> SUFFICES ASSUME NEW k \in 0 .. 127 PROVE Row32(k)
  OBVIOUS
<1>1. /\ (k >= 0 /\ k < 8 => Row32(k)) /\ (k >= 8 /\ k < 16 => Row32(k))
     /\ (k >= 16 /\ k < 24 => Row32(k)) /\ (k >= 24 /\ k < 32 => Row32(k))
     /\ (k >= 32 /\ k < 40 => Row32(k)) /\ (k >= 40 /\ k < 48 => Row32(k))
     /\ (k >= 48 /\ k < 56 => Row32(k)) /\ (k >= 56 /\ k < 64 => Row32(k))
     /\ (k >= 64 /\ k < 72 => Row32(k)) /\ (k >= 72 /\ k < 80 => Row32(k))
     /\ (k >= 80 /\ k < 88 => Row32(k)) /\ (k >= 88 /\ k < 96 => Row32(k))
     /\ (k >= 96 /\ k < 104 => Row32(k)) /\ (k >= 104 /\ k < 112 => Row32(k))
     /\ (k >= 112 /\ k < 120 => Row32(k)) /\ (k >= 120 /\ k < 128 => Row32(k))
  BY Rows32From0, Rows32From8, Rows32From16, Rows32From24, Rows32From32, Rows32From40,
       Rows32From48, Rows32From56, Rows32From64, Rows32From72, Rows32From80, Rows32From88,
       Rows32From96, Rows32From104, Rows32From112, Rows32From120
<1> QED BY <1>1

P16 == Upper(\h1021)
P32 == <<\h04c1, \h1db7>>
T16 == [b \in Byte |-> Upper(crc16table[b + 1])]
T32 == [b \in Byte |-> <<crc32high[b + 1], crc32low[b + 1]>>]

(* The polynomials are words and registers.                                *)
LEMMA Polynomials ==
    /\ \h1021 \in Word16 /\ \h04c1 \in Word16 /\ \h1db7 \in Word16
    /\ P16 \in Register /\ P32 \in Register
<1>1. \h1021 \in Word16 /\ \h04c1 \in Word16 /\ \h1db7 \in Word16
  BY DEF Word16
<1> QED BY <1>1, UpperIs DEF P16, P32, Register

(* The exclusive or in the upper halves.                                   *)
LEMMA XorUpper ==
    ASSUME NEW a, NEW b
    PROVE  /\ XorR(Upper(a), Upper(b)) = Upper(Xor(a, b))
           /\ XorR(Upper(a), Cleared) = Upper(Xor(a, 0))
<1>1. Xor(0, 0) = 0
  BY ZeroWord, XorZero
<1> QED BY <1>1 DEF XorR, Upper, Cleared

(* A bit fed to the registers of the reference.                            *)
LEMMA Feed16 ==
    ASSUME NEW c \in Word16, NEW bit \in 0 .. 1
    PROVE  Feed(P16, Upper(c), bit) = Upper(Bit16(c, bit)) /\ Bit16(c, bit) \in Word16
<1>1. Top(Upper(c)) = c \div 32768 /\ ShiftR(Upper(c)) = Upper((2 * c) % 65536)
      /\ (2 * c) % 65536 \in Word16 /\ Upper(c) \in Register
  BY UpperIs
<1>2. PICK t : t = c \div 32768
  OBVIOUS
<1>3. t \in 0 .. 1
  BY <1>1, <1>2, ShiftRIs
<1>4. Feed(P16, Upper(c), bit) = XorR(Upper((2 * c) % 65536), If(P16, (t + bit) % 2))
  BY <1>1, <1>2 DEF Feed
<1>5. CASE t = bit
  <2>1. (t + bit) % 2 = 0
    BY <1>3, <1>5
  <2>2. If(P16, 0) = Cleared
    BY DEF If
  <2>3. Feed(P16, Upper(c), bit) = Upper(Xor((2 * c) % 65536, 0))
    BY <1>4, <2>1, <2>2, XorUpper
  <2>4. Bit16(c, bit) = Xor((2 * c) % 65536, 0)
    BY <1>2, <1>5 DEF Bit16
  <2>5. Xor((2 * c) % 65536, 0) \in Word16
    BY <1>1, ZeroWord, XorWord
  <2> QED BY <2>3, <2>4, <2>5
<1>6. CASE t # bit
  <2>1. (t + bit) % 2 = 1
    BY <1>3, <1>6
  <2>2. If(P16, 1) = Upper(\h1021)
    BY DEF If, P16
  <2>3. Feed(P16, Upper(c), bit) = Upper(Xor((2 * c) % 65536, \h1021))
    BY <1>4, <2>1, <2>2, XorUpper
  <2>4. Bit16(c, bit) = Xor((2 * c) % 65536, \h1021)
    BY <1>2, <1>6 DEF Bit16
  <2>5. Xor((2 * c) % 65536, \h1021) \in Word16
    BY <1>1, Polynomials, XorWord
  <2> QED BY <2>3, <2>4, <2>5
<1> QED BY <1>5, <1>6

(* A bit fed to the register of the 32-bit reference.                      *)
LEMMA Feed32 ==
    ASSUME NEW c \in Register, NEW bit \in 0 .. 1
    PROVE  Feed(P32, c, bit) = Bit32(c, bit) /\ Bit32(c, bit) \in Register
<1>1. c[1] \in Word16 /\ c[2] \in Word16
  BY RegisterIs
<1>2. PICK t : t = c[1] \div 32768
  OBVIOUS
<1>3. Top(c) = t /\ t \in 0 .. 1
  BY <1>2, ShiftRIs DEF Top
<1>4. ShiftR(c) = <<((2 * c[1]) % 65536) + (c[2] \div 32768), (2 * c[2]) % 65536>>
  <2>1. 0 \div 32768 = 0 /\ ((2 * c[2]) % 65536) + 0 = (2 * c[2]) % 65536
    BY <1>1 DEF Word16
  <2> QED BY <2>1 DEF ShiftR, Shift
<1>5. PICK m : m = If(P32, (t + bit) % 2)
  OBVIOUS
<1>6. m = <<IF t # bit THEN \h04c1 ELSE 0, IF t # bit THEN \h1db7 ELSE 0>>
  <2>1. (t + bit) % 2 = IF t # bit THEN 1 ELSE 0
    BY <1>3
  <2>2. If(P32, 1) = <<\h04c1, \h1db7>> /\ If(P32, 0) = <<0, 0>>
    BY DEF If, P32, Cleared
  <2>3. CASE t # bit
    BY <1>5, <2>1, <2>2, <2>3
  <2>4. CASE t = bit
    BY <1>5, <2>1, <2>2, <2>4
  <2> QED BY <2>3, <2>4
<1>7. Feed(P32, c, bit) = XorR(ShiftR(c), m)
  BY <1>3, <1>5 DEF Feed
<1>8. Feed(P32, c, bit) = <<Xor(((2 * c[1]) % 65536) + (c[2] \div 32768),
        IF t # bit THEN \h04c1 ELSE 0),
                            Xor((2 * c[2]) % 65536, IF t # bit THEN \h1db7 ELSE 0)>>
  <2>1. ShiftR(c)[1] = ((2 * c[1]) % 65536) + (c[2] \div 32768) /\ ShiftR(c)[2] = (2 * c[2]) % 65536
    BY <1>4
  <2>2. m[1] = (IF t # bit THEN \h04c1 ELSE 0) /\ m[2] = (IF t # bit THEN \h1db7 ELSE 0)
    BY <1>6
  <2>3. Feed(P32, c, bit) = <<Xor(ShiftR(c)[1], m[1]), Xor(ShiftR(c)[2], m[2])>>
    BY <1>7 DEF XorR
  <2> QED BY <2>1, <2>2, <2>3
<1>9. Feed(P32, c, bit) = Bit32(c, bit)
  BY <1>2, <1>8 DEF Bit32
<1>10. Feed(P32, c, bit) \in Register
  BY Polynomials, FeedType
<1> QED BY <1>9, <1>10

(* A turn of a row of the tables.                                          *)
LEMMA TurnOf16 ==
    ASSUME NEW t \in Word16
    PROVE  Turn1(P16, Upper(t)) = Upper(Turned16(t))
<1>1. Upper(t) \in Register /\ Top(Upper(t)) = t \div 32768
        /\ ShiftR(Upper(t)) = Upper((2 * t) % 65536)
  BY UpperIs
<1>2. Turn1(P16, Upper(t)) = XorR(Upper((2 * t) % 65536), If(P16, t \div 32768))
  BY <1>1, Polynomials, Turn1Is
<1>3. CASE t \div 32768 = 1
  <2>1. If(P16, t \div 32768) = Upper(\h1021)
    BY <1>3 DEF If, P16
  <2> QED BY <1>2, <1>3, <2>1, XorUpper DEF Turned16
<1>4. CASE t \div 32768 # 1
  <2>1. If(P16, t \div 32768) = Cleared
    BY <1>4 DEF If
  <2> QED BY <1>2, <1>4, <2>1, XorUpper DEF Turned16
<1> QED BY <1>3, <1>4

(* A turn of a row of crc32table.                                          *)
LEMMA TurnOf32 ==
    ASSUME NEW t \in Word16, NEW u \in Word16
    PROVE  Turn1(P32, <<t, u>>) = <<Turned32High(t, u), Turned32Low(t, u)>>
<1>1. <<t, u>> \in Register /\ <<t, u>>[1] = t /\ <<t, u>>[2] = u
  BY DEF Register
<1>2. 0 \div 32768 = 0 /\ ((2 * u) % 65536) + 0 = (2 * u) % 65536
  BY DEF Word16
<1>3. ShiftR(<<t, u>>) = <<((2 * t) % 65536) + (u \div 32768), (2 * u) % 65536>>
  BY <1>1, <1>2 DEF ShiftR, Shift
<1>4. Turn1(P32, <<t, u>>) = XorR(ShiftR(<<t, u>>), If(P32, t \div 32768))
  BY <1>1, Polynomials, Turn1Is DEF Top
<1>5. If(P32, t \div 32768) = <<IF t \div 32768 = 1 THEN \h04c1 ELSE 0,
        IF t \div 32768 = 1 THEN \h1db7 ELSE 0>>
  BY DEF If, P32, Cleared
<1> QED BY <1>3, <1>4, <1>5 DEF XorR, Turned32High, Turned32Low

(* The tables are tables of remainders.                                    *)
LEMMA Table16Is == IsTable(T16, P16)
<1>1. T16[0] = Cleared /\ T16[1] = P16
  <2>1. crc16table[1] = 0 /\ crc16table[2] = \h1021
    BY DEF crc16table
  <2>2. 0 \in Byte /\ 1 \in Byte /\ 0 + 1 = 1 /\ 1 + 1 = 2
    BY DEF Byte
  <2> QED BY <2>1, <2>2 DEF T16, P16, Upper, Cleared
<1>2. ASSUME NEW k \in 0 .. 127
      PROVE  T16[2 * k] = Turn1(P16, T16[k]) /\ T16[2 * k + 1] = XorR(T16[2 * k], P16)
  <2>1. 2 * k \in Byte /\ 2 * k + 1 \in Byte /\ k \in Byte /\ (2 * k + 1) + 1 = 2 * k + 2
    BY OddByte
  <2>2. Row16(k)
    BY AllRows16
  <2>3. T16[k] = Upper(crc16table[k + 1]) /\ T16[2 * k] = Upper(crc16table[2 * k + 1])
        /\ T16[2 * k + 1] = Upper(crc16table[2 * k + 2])
    BY <2>1 DEF T16
  <2>4. Turn1(P16, Upper(crc16table[k + 1])) = Upper(Turned16(crc16table[k + 1]))
    BY <2>2, TurnOf16 DEF Row16
  <2>5. XorR(Upper(crc16table[2 * k + 1]), P16) = Upper(Xor(crc16table[2 * k + 1], \h1021))
    BY XorUpper DEF P16
  <2> QED BY <2>2, <2>3, <2>4, <2>5 DEF Row16
<1> QED BY <1>1, <1>2 DEF IsTable

(* crc32table is the table of its polynomial.                              *)
LEMMA Table32Is == IsTable(T32, P32)
<1>1. T32[0] = Cleared /\ T32[1] = P32
  <2>1. crc32high[1] = 0 /\ crc32high[2] = \h04c1
    BY DEF crc32high
  <2>2. crc32low[1] = 0 /\ crc32low[2] = \h1db7
    BY DEF crc32low
  <2>3. 0 \in Byte /\ 1 \in Byte /\ 0 + 1 = 1 /\ 1 + 1 = 2
    BY DEF Byte
  <2> QED BY <2>1, <2>2, <2>3 DEF T32, P32, Cleared
<1>2. ASSUME NEW k \in 0 .. 127
      PROVE  T32[2 * k] = Turn1(P32, T32[k]) /\ T32[2 * k + 1] = XorR(T32[2 * k], P32)
  <2>1. 2 * k \in Byte /\ 2 * k + 1 \in Byte /\ k \in Byte /\ (2 * k + 1) + 1 = 2 * k + 2
    BY OddByte
  <2>2. Row32(k)
    BY AllRows32
  <2>3. T32[k] = <<crc32high[k + 1], crc32low[k + 1]>>
        /\ T32[2 * k] = <<crc32high[2 * k + 1], crc32low[2 * k + 1]>>
        /\ T32[2 * k + 1] = <<crc32high[2 * k + 2], crc32low[2 * k + 2]>>
    BY <2>1 DEF T32
  <2>4. Turn1(P32, <<crc32high[k + 1], crc32low[k + 1]>>)
        = <<Turned32High(crc32high[k + 1], crc32low[k + 1]), Turned32Low(crc32high[k + 1],
          crc32low[k + 1])>>
    BY <2>2, TurnOf32 DEF Row32
  <2>5. XorR(<<crc32high[2 * k + 1], crc32low[2 * k + 1]>>, P32)
        = <<Xor(crc32high[2 * k + 1], \h04c1), Xor(crc32low[2 * k + 1], \h1db7)>>
    BY DEF XorR, P32
  <2> QED BY <2>2, <2>3, <2>4, <2>5 DEF Row32
<1> QED BY <1>1, <1>2 DEF IsTable

(* A byte added with the tables is a byte added at the top, and turned.    *)
LEMMA Crc16StepIs ==
    ASSUME NEW c \in Word16, NEW b \in Byte
    PROVE  Upper(Crc16Step(c, b)) = Turn8(P16, XorR(Upper(c), Upper(256 * b)))
<1>1. Upper(c) \in Register /\ Upper(c)[1] = c /\ Upper(c)[2] = 0
  BY UpperIs DEF Upper
<1>2. /\ Xor(c \div 256, b) \in Byte
      /\ Turn8(P16, XorR(Upper(c), Upper(256 * b)))
         = XorR(<<256 * (c % 256) + (0 \div 256), (256 * 0) % 65536>>, T16[Xor(c \div 256, b)])
  <2>1. /\ Xor(Upper(c)[1] \div 256, b) \in Byte
        /\ Turn8(P16, XorR(Upper(c), Upper(256 * b)))
           = XorR(<<256 * (Upper(c)[1] % 256) + (Upper(c)[2] \div 256),
             (256 * Upper(c)[2]) % 65536>>,
                  T16[Xor(Upper(c)[1] \div 256, b)])
    BY <1>1, Polynomials, Table16Is, ByteStep
  <2> QED BY <1>1, <2>1
<1>3. 256 * (c % 256) + (0 \div 256) = (c * 256) % 65536 /\ (256 * 0) % 65536 = 0
  <2>1. (c * 256) % 65536 = 256 * (c % 256) /\ c \in Nat
    BY TwoBytes DEF Word16
  <2> QED BY <2>1
<1>4. T16[Xor(c \div 256, b)] = Upper(crc16table[Xor(c \div 256, b) + 1])
  BY <1>2 DEF T16
<1>5. <<256 * (c % 256) + (0 \div 256), (256 * 0) % 65536>> = Upper((c * 256) % 65536)
  BY <1>3 DEF Upper
<1>6. Turn8(P16, XorR(Upper(c), Upper(256 * b)))
      = Upper(Xor((c * 256) % 65536, crc16table[Xor(c \div 256, b) + 1]))
  BY <1>2, <1>4, <1>5, XorUpper
<1> QED BY <1>6 DEF Crc16Step

(* A byte added with crc32table is added at the top, and turned.           *)
LEMMA Crc32StepIs ==
    ASSUME NEW c \in Register, NEW b \in Byte
    PROVE  Crc32Step(c, b) = Turn8(P32, XorR(c, Upper(256 * b)))
<1>1. c[1] \in Word16 /\ c[2] \in Word16
  BY RegisterIs
<1>2. PICK k : k = Xor(c[1] \div 256, b)
  OBVIOUS
<1>3. /\ k \in Byte
      /\ Turn8(P32, XorR(c, Upper(256 * b)))
         = XorR(<<256 * (c[1] % 256) + (c[2] \div 256), (256 * c[2]) % 65536>>, T32[k])
  BY <1>2, Polynomials, Table32Is, ByteStep
<1>4. 256 * (c[1] % 256) = (c[1] * 256) % 65536 /\ (256 * c[2]) % 65536 = (c[2] * 256) % 65536
  BY <1>1, TwoBytes
<1>5. T32[k] = <<crc32high[k + 1], crc32low[k + 1]>>
  BY <1>3 DEF T32
<1>6. Turn8(P32, XorR(c, Upper(256 * b)))
      = <<Xor(((c[1] * 256) % 65536) + (c[2] \div 256), crc32high[k + 1]),
          Xor((c[2] * 256) % 65536, crc32low[k + 1])>>
  BY <1>3, <1>4, <1>5 DEF XorR
<1> QED BY <1>2, <1>6 DEF Crc32Step

(* A loop of Bit16 goes through the bits in steps.                         *)
LEMMA Bit16Steps ==
    ASSUME NEW c \in Word16, NEW s \in Seq(0 .. 1)
    PROVE  \E g \in [0 .. Len(s) -> Word16] :
              /\ g[0] = c /\ \A k \in 1 .. Len(s) : g[k] = Bit16(g[k - 1], s[k])
              /\ Loop(Bit16, c, s) = g[Len(s)]
<1> DEFINE n == Len(s)
           f == [k \in 1 .. n |-> [a \in Word16 |-> Bit16(a, s[k])]]
<1>1. n \in Nat /\ \A k \in 1 .. n : s[k] \in 0 .. 1
  OBVIOUS
<1> HIDE DEF n
<1>2. \A k \in 1 .. n : \A a \in Word16 : Bit16(a, s[k]) \in Word16
  BY <1>1, Feed16
<1>3. f \in [1 .. n -> [Word16 -> Word16]] /\ \A k \in 1 .. n :
        \A a \in Word16 : f[k][a] = Bit16(a, s[k])
  BY <1>2, Zenon
<1> HIDE DEF f
<1>4. PICK g \in [0 .. n -> Word16] :
         Steps(g, c, f, n) /\ \A a : Follows(a, Word16, c, f, n) => a[n] = g[n]
  BY <1>1, <1>3, StepsFollow
<1>5. g[0] = c /\ \A k \in 1 .. n : g[k] = Bit16(g[k - 1], s[k])
  <2>1. g[0] = c /\ \A k \in 1 .. n : g[k] = f[k][g[k - 1]]
    BY <1>4, Zenon DEF Steps
  <2>2. \A k \in 1 .. n : g[k - 1] \in Word16
    <3>1. \A k \in 1 .. n : k - 1 \in 0 .. n
      BY <1>1
    <3> QED BY <1>4, <3>1, Zenon
  <2> QED BY <1>3, <2>1, <2>2, Zenon
<1>6. g = [k \in 0 .. n |-> IF k = 0 THEN c ELSE Bit16(g[k - 1], s[k])]
  <2>1. \A k \in 0 .. n : k = 0 \/ k \in 1 .. n
    BY <1>1
  <2>2. \A k \in 0 .. n : g[k] = IF k = 0 THEN c ELSE Bit16(g[k - 1], s[k])
    BY <1>5, <2>1, Zenon
  <2> QED BY <1>4, <2>2, Zenon
<1> DEFINE after == CHOOSE after : after = [k \in 0 .. n |-> IF k
  = 0 THEN c ELSE Bit16(after[k - 1], s[k])]
<1>7. after = [k \in 0 .. n |-> IF k = 0 THEN c ELSE Bit16(after[k - 1], s[k])]
  BY <1>6, Zenon
<1>8. Loop(Bit16, c, s) = after[n]
  BY Zenon DEF Loop, n
<1> HIDE DEF after
<1>9. after[0] = c /\ \A k \in 1 .. n : after[k] = Bit16(after[k - 1], s[k])
  <2>1. 0 \in 0 .. n /\ \A k \in 1 .. n : k \in 0 .. n /\ k # 0
    BY <1>1
  <2> QED BY <1>7, <2>1, Zenon
<1>10. Follows(after, Word16, c, f, n)
  BY <1>3, <1>9, Zenon DEF Follows
<1>11. after[n] = g[n]
  BY <1>4, <1>10, Zenon
<1>12. Loop(Bit16, c, s) = g[n]
  BY <1>8, <1>11
<1>13. n = Len(s)
  BY DEF n
<1> QED BY <1>4, <1>5, <1>12, <1>13, Zenon

(* A loop of Bit32 goes through the bits in steps.                         *)
LEMMA Bit32Steps ==
    ASSUME NEW c \in Register, NEW s \in Seq(0 .. 1)
    PROVE  \E g \in [0 .. Len(s) -> Register] :
              /\ g[0] = c /\ \A k \in 1 .. Len(s) : g[k] = Bit32(g[k - 1], s[k])
              /\ Loop(Bit32, c, s) = g[Len(s)]
<1> DEFINE n == Len(s)
           f == [k \in 1 .. n |-> [a \in Register |-> Bit32(a, s[k])]]
<1>1. n \in Nat /\ \A k \in 1 .. n : s[k] \in 0 .. 1
  OBVIOUS
<1> HIDE DEF n
<1>2. \A k \in 1 .. n : \A a \in Register : Bit32(a, s[k]) \in Register
  BY <1>1, Feed32
<1>3. f \in [1 .. n -> [Register -> Register]] /\ \A k \in 1 .. n :
        \A a \in Register : f[k][a] = Bit32(a, s[k])
  BY <1>2, Zenon
<1> HIDE DEF f
<1>4. PICK g \in [0 .. n -> Register] :
         Steps(g, c, f, n) /\ \A a : Follows(a, Register, c, f, n) => a[n] = g[n]
  BY <1>1, <1>3, StepsFollow
<1>5. g[0] = c /\ \A k \in 1 .. n : g[k] = Bit32(g[k - 1], s[k])
  <2>1. g[0] = c /\ \A k \in 1 .. n : g[k] = f[k][g[k - 1]]
    BY <1>4, Zenon DEF Steps
  <2>2. \A k \in 1 .. n : g[k - 1] \in Register
    <3>1. \A k \in 1 .. n : k - 1 \in 0 .. n
      BY <1>1
    <3> QED BY <1>4, <3>1, Zenon
  <2> QED BY <1>3, <2>1, <2>2, Zenon
<1>6. g = [k \in 0 .. n |-> IF k = 0 THEN c ELSE Bit32(g[k - 1], s[k])]
  <2>1. \A k \in 0 .. n : k = 0 \/ k \in 1 .. n
    BY <1>1
  <2>2. \A k \in 0 .. n : g[k] = IF k = 0 THEN c ELSE Bit32(g[k - 1], s[k])
    BY <1>5, <2>1, Zenon
  <2> QED BY <1>4, <2>2, Zenon
<1> DEFINE after == CHOOSE after : after = [k \in 0 .. n |-> IF k
  = 0 THEN c ELSE Bit32(after[k - 1], s[k])]
<1>7. after = [k \in 0 .. n |-> IF k = 0 THEN c ELSE Bit32(after[k - 1], s[k])]
  BY <1>6, Zenon
<1>8. Loop(Bit32, c, s) = after[n]
  BY Zenon DEF Loop, n
<1> HIDE DEF after
<1>9. after[0] = c /\ \A k \in 1 .. n : after[k] = Bit32(after[k - 1], s[k])
  <2>1. 0 \in 0 .. n /\ \A k \in 1 .. n : k \in 0 .. n /\ k # 0
    BY <1>1
  <2> QED BY <1>7, <2>1, Zenon
<1>10. Follows(after, Register, c, f, n)
  BY <1>3, <1>9, Zenon DEF Follows
<1>11. after[n] = g[n]
  BY <1>4, <1>10, Zenon
<1>12. Loop(Bit32, c, s) = g[n]
  BY <1>8, <1>11
<1>13. n = Len(s)
  BY DEF n
<1> QED BY <1>4, <1>5, <1>12, <1>13, Zenon

(* The bits of a byte are a sequence of eight.                             *)
LEMMA BitsAreSeq ==
    ASSUME NEW b \in Byte
    PROVE  BitsOf(b) \in Seq(0 .. 1) /\ Len(BitsOf(b)) = 8
<1>1. \A i \in 1 .. 8 : BitsOf(b)[i] \in 0 .. 1
  <2>1. \A x \in Nat : x % 2 \in 0 .. 1
    OBVIOUS
  <2>2. /\ b \div 128 \in Nat /\ b \div 64 \in Nat /\ b \div 32 \in Nat /\ b \div 16 \in Nat
        /\ b \div 8 \in Nat /\ b \div 4 \in Nat /\ b \div 2 \in Nat /\ b \div 1 \in Nat
    BY DEF Byte
  <2>3. /\ BitsOf(b)[1] \in 0 .. 1 /\ BitsOf(b)[2] \in 0 .. 1 /\ BitsOf(b)[3] \in 0 .. 1
        /\ BitsOf(b)[4] \in 0 .. 1 /\ BitsOf(b)[5] \in 0 .. 1 /\ BitsOf(b)[6] \in 0 .. 1
        /\ BitsOf(b)[7] \in 0 .. 1 /\ BitsOf(b)[8] \in 0 .. 1
    BY <2>1, <2>2, BitsAre
  <2>4. \A i \in 1 .. 8 : i \in {1, 2, 3, 4, 5, 6, 7, 8}
    OBVIOUS
  <2> QED BY <2>3, <2>4, Zenon
<1>2. BitsOf(b) \in [1 .. 8 -> 0 .. 1]
  <2>1. BitsOf(b) = [i \in 1 .. 8 |-> BitsOf(b)[i]]
    BY Zenon DEF BitsOf
  <2> QED BY <1>1, <2>1, Zenon
<1>3. BitsOf(b) \in Seq(0 .. 1)
  BY <1>2, SeqDef, Zenon
<1>4. Len(BitsOf(b)) \in Nat /\ DOMAIN BitsOf(b) = 1 .. Len(BitsOf(b))
  BY <1>3, LenProperties
<1>5. DOMAIN BitsOf(b) = 1 .. 8
  BY <1>2, Zenon
<1>6. \A n \in Nat : 1 .. n = 1 .. 8 => n = 8
  OBVIOUS
<1> QED BY <1>3, <1>4, <1>5, <1>6, Zenon

(* A byte divided bit by bit and by the table: the same 16 bits.           *)
LEMMA Byte16Is ==
    ASSUME NEW c \in Word16, NEW b \in Byte
    PROVE  Byte16(c, b) = Crc16Step(c, b) /\ Crc16Step(c, b) \in Word16
<1> DEFINE s == BitsOf(b)
<1>1. s \in Seq(0 .. 1) /\ Len(s) = 8 /\ \A k \in 1 .. 8 : s[k] \in 0 .. 1
  BY BitsAreSeq, BitsAre
<1> HIDE DEF s
<1>2. PICK g \in [0 .. Len(s) -> Word16] :
         /\ g[0] = c /\ \A k \in 1 .. Len(s) : g[k] = Bit16(g[k - 1], s[k])
         /\ Loop(Bit16, c, s) = g[Len(s)]
  BY <1>1, Bit16Steps
<1> DEFINE h == [k \in 0 .. 8 |-> Upper(g[k])]
<1>3. \A k \in 0 .. 8 : g[k] \in Word16 /\ Upper(g[k]) \in Register
  BY <1>1, <1>2, UpperIs
<1>4. h \in [0 .. 8 -> Register] /\ h[0] = Upper(c)
  BY <1>2, <1>3
<1>5. ASSUME NEW k \in 1 .. 8
      PROVE  h[k] = Feed(P16, h[k - 1], BitsOf(b)[k])
  <2>1. k - 1 \in 0 .. 8 /\ k \in 0 .. 8 /\ k \in 1 .. Len(s)
    BY <1>1
  <2>2. g[k] = Bit16(g[k - 1], s[k]) /\ g[k - 1] \in Word16 /\ s[k] \in 0 .. 1
    BY <1>1, <1>2, <1>3, <2>1
  <2>3. Feed(P16, Upper(g[k - 1]), s[k]) = Upper(Bit16(g[k - 1], s[k]))
    BY <2>2, Feed16
  <2> QED BY <2>1, <2>2, <2>3 DEF s
<1>6. h[8] = Upper(g[8])
  OBVIOUS
<1> HIDE DEF h
<1>7. h[8] = Turn8(P16, XorR(Upper(c), Upper(256 * b)))
  BY <1>4, <1>5, Polynomials, UpperIs, ByteFed
<1>8. Byte16(c, b) = g[8] /\ g[8] \in Word16
  BY <1>1, <1>2, <1>3 DEF Byte16, s
<1>9. Upper(g[8]) = Upper(Crc16Step(c, b))
  BY <1>6, <1>7, Crc16StepIs
<1>10. g[8] = Crc16Step(c, b)
  BY <1>9 DEF Upper
<1> QED BY <1>8, <1>10

(* A byte divided bit by bit and by the table: the same 32 bits.           *)
LEMMA Byte32Is ==
    ASSUME NEW c \in Register, NEW b \in Byte
    PROVE  Byte32(c, b) = Crc32Step(c, b) /\ Crc32Step(c, b) \in Register
<1> DEFINE s == BitsOf(b)
<1>1. s \in Seq(0 .. 1) /\ Len(s) = 8 /\ \A k \in 1 .. 8 : s[k] \in 0 .. 1
  BY BitsAreSeq, BitsAre
<1> HIDE DEF s
<1>2. PICK g \in [0 .. Len(s) -> Register] :
         /\ g[0] = c /\ \A k \in 1 .. Len(s) : g[k] = Bit32(g[k - 1], s[k])
         /\ Loop(Bit32, c, s) = g[Len(s)]
  BY <1>1, Bit32Steps
<1>3. g \in [0 .. 8 -> Register] /\ \A k \in 0 .. 8 : g[k] \in Register
  BY <1>1, <1>2
<1>4. ASSUME NEW k \in 1 .. 8
      PROVE  g[k] = Feed(P32, g[k - 1], BitsOf(b)[k])
  <2>1. k - 1 \in 0 .. 8 /\ k \in 1 .. Len(s)
    BY <1>1
  <2>2. g[k] = Bit32(g[k - 1], s[k]) /\ g[k - 1] \in Register /\ s[k] \in 0 .. 1
    BY <1>1, <1>2, <1>3, <2>1
  <2>3. Feed(P32, g[k - 1], s[k]) = Bit32(g[k - 1], s[k])
    BY <2>2, Feed32
  <2> QED BY <2>2, <2>3 DEF s
<1>5. g[8] = Turn8(P32, XorR(c, Upper(256 * b)))
  BY <1>2, <1>3, <1>4, Polynomials, ByteFed
<1>6. Byte32(c, b) = g[8] /\ g[8] \in Register
  BY <1>1, <1>2, <1>3 DEF Byte32, s
<1> QED BY <1>5, <1>6, Crc32StepIs

(* A byte leaves a word.                                                   *)
LEMMA Byte16Type == ASSUME NEW c \in Word16, NEW b \in Byte PROVE Byte16(c, b) \in Word16
  BY Byte16Is

(* A byte leaves a register.                                               *)
LEMMA Byte32Type == ASSUME NEW c \in Register, NEW b \in Byte PROVE Byte32(c, b) \in Register
  BY Byte32Is

(* A loop of Byte16 goes through the bytes in steps.                       *)
LEMMA Byte16Steps ==
    ASSUME NEW c \in Word16, NEW s \in Seq(Byte)
    PROVE  \E g \in [0 .. Len(s) -> Word16] :
              /\ g[0] = c /\ \A k \in 1 .. Len(s) : g[k] = Byte16(g[k - 1], s[k])
              /\ Loop(Byte16, c, s) = g[Len(s)]
<1> DEFINE n == Len(s)
           f == [k \in 1 .. n |-> [a \in Word16 |-> Byte16(a, s[k])]]
<1>1. n \in Nat /\ \A k \in 1 .. n : s[k] \in Byte
  OBVIOUS
<1> HIDE DEF n
<1>2. \A k \in 1 .. n : \A a \in Word16 : Byte16(a, s[k]) \in Word16
  BY <1>1, Byte16Type
<1>3. f \in [1 .. n -> [Word16 -> Word16]] /\ \A k \in 1 .. n :
        \A a \in Word16 : f[k][a] = Byte16(a, s[k])
  BY <1>2, Zenon
<1> HIDE DEF f
<1>4. PICK g \in [0 .. n -> Word16] :
         Steps(g, c, f, n) /\ \A a : Follows(a, Word16, c, f, n) => a[n] = g[n]
  BY <1>1, <1>3, StepsFollow
<1>5. g[0] = c /\ \A k \in 1 .. n : g[k] = Byte16(g[k - 1], s[k])
  <2>1. g[0] = c /\ \A k \in 1 .. n : g[k] = f[k][g[k - 1]]
    BY <1>4, Zenon DEF Steps
  <2>2. \A k \in 1 .. n : g[k - 1] \in Word16
    <3>1. \A k \in 1 .. n : k - 1 \in 0 .. n
      BY <1>1
    <3> QED BY <1>4, <3>1, Zenon
  <2> QED BY <1>3, <2>1, <2>2, Zenon
<1>6. g = [k \in 0 .. n |-> IF k = 0 THEN c ELSE Byte16(g[k - 1], s[k])]
  <2>1. \A k \in 0 .. n : k = 0 \/ k \in 1 .. n
    BY <1>1
  <2>2. \A k \in 0 .. n : g[k] = IF k = 0 THEN c ELSE Byte16(g[k - 1], s[k])
    BY <1>5, <2>1, Zenon
  <2> QED BY <1>4, <2>2, Zenon
<1> DEFINE after == CHOOSE after : after = [k \in 0 .. n |-> IF k
  = 0 THEN c ELSE Byte16(after[k - 1], s[k])]
<1>7. after = [k \in 0 .. n |-> IF k = 0 THEN c ELSE Byte16(after[k - 1], s[k])]
  BY <1>6, Zenon
<1>8. Loop(Byte16, c, s) = after[n]
  BY Zenon DEF Loop, n
<1> HIDE DEF after
<1>9. after[0] = c /\ \A k \in 1 .. n : after[k] = Byte16(after[k - 1], s[k])
  <2>1. 0 \in 0 .. n /\ \A k \in 1 .. n : k \in 0 .. n /\ k # 0
    BY <1>1
  <2> QED BY <1>7, <2>1, Zenon
<1>10. Follows(after, Word16, c, f, n)
  BY <1>3, <1>9, Zenon DEF Follows
<1>11. after[n] = g[n]
  BY <1>4, <1>10, Zenon
<1>12. Loop(Byte16, c, s) = g[n]
  BY <1>8, <1>11
<1>13. n = Len(s)
  BY DEF n
<1> QED BY <1>4, <1>5, <1>12, <1>13, Zenon

(* A loop of Byte32 goes through the bytes in steps.                       *)
LEMMA Byte32Steps ==
    ASSUME NEW c \in Register, NEW s \in Seq(Byte)
    PROVE  \E g \in [0 .. Len(s) -> Register] :
              /\ g[0] = c /\ \A k \in 1 .. Len(s) : g[k] = Byte32(g[k - 1], s[k])
              /\ Loop(Byte32, c, s) = g[Len(s)]
<1> DEFINE n == Len(s)
           f == [k \in 1 .. n |-> [a \in Register |-> Byte32(a, s[k])]]
<1>1. n \in Nat /\ \A k \in 1 .. n : s[k] \in Byte
  OBVIOUS
<1> HIDE DEF n
<1>2. \A k \in 1 .. n : \A a \in Register : Byte32(a, s[k]) \in Register
  BY <1>1, Byte32Type
<1>3. f \in [1 .. n -> [Register -> Register]] /\ \A k \in 1 .. n :
        \A a \in Register : f[k][a] = Byte32(a, s[k])
  BY <1>2, Zenon
<1> HIDE DEF f
<1>4. PICK g \in [0 .. n -> Register] :
         Steps(g, c, f, n) /\ \A a : Follows(a, Register, c, f, n) => a[n] = g[n]
  BY <1>1, <1>3, StepsFollow
<1>5. g[0] = c /\ \A k \in 1 .. n : g[k] = Byte32(g[k - 1], s[k])
  <2>1. g[0] = c /\ \A k \in 1 .. n : g[k] = f[k][g[k - 1]]
    BY <1>4, Zenon DEF Steps
  <2>2. \A k \in 1 .. n : g[k - 1] \in Register
    <3>1. \A k \in 1 .. n : k - 1 \in 0 .. n
      BY <1>1
    <3> QED BY <1>4, <3>1, Zenon
  <2> QED BY <1>3, <2>1, <2>2, Zenon
<1>6. g = [k \in 0 .. n |-> IF k = 0 THEN c ELSE Byte32(g[k - 1], s[k])]
  <2>1. \A k \in 0 .. n : k = 0 \/ k \in 1 .. n
    BY <1>1
  <2>2. \A k \in 0 .. n : g[k] = IF k = 0 THEN c ELSE Byte32(g[k - 1], s[k])
    BY <1>5, <2>1, Zenon
  <2> QED BY <1>4, <2>2, Zenon
<1> DEFINE after == CHOOSE after : after = [k \in 0 .. n |-> IF k
  = 0 THEN c ELSE Byte32(after[k - 1], s[k])]
<1>7. after = [k \in 0 .. n |-> IF k = 0 THEN c ELSE Byte32(after[k - 1], s[k])]
  BY <1>6, Zenon
<1>8. Loop(Byte32, c, s) = after[n]
  BY Zenon DEF Loop, n
<1> HIDE DEF after
<1>9. after[0] = c /\ \A k \in 1 .. n : after[k] = Byte32(after[k - 1], s[k])
  <2>1. 0 \in 0 .. n /\ \A k \in 1 .. n : k \in 0 .. n /\ k # 0
    BY <1>1
  <2> QED BY <1>7, <2>1, Zenon
<1>10. Follows(after, Register, c, f, n)
  BY <1>3, <1>9, Zenon DEF Follows
<1>11. after[n] = g[n]
  BY <1>4, <1>10, Zenon
<1>12. Loop(Byte32, c, s) = g[n]
  BY <1>8, <1>11
<1>13. n = Len(s)
  BY DEF n
<1> QED BY <1>4, <1>5, <1>12, <1>13, Zenon

(* The loop of p2sc_crc16 goes through the bytes in steps.                 *)
LEMMA Crc16Steps ==
    ASSUME NEW c \in Word16, NEW s \in Seq(Byte)
    PROVE  \E g \in [0 .. Len(s) -> Word16] :
              /\ g[0] = c /\ \A k \in 1 .. Len(s) : g[k] = Crc16Step(g[k - 1], s[k])
              /\ Loop(Crc16Step, c, s) = g[Len(s)]
<1> DEFINE n == Len(s)
           f == [k \in 1 .. n |-> [a \in Word16 |-> Crc16Step(a, s[k])]]
<1>1. n \in Nat /\ \A k \in 1 .. n : s[k] \in Byte
  OBVIOUS
<1> HIDE DEF n
<1>2. \A k \in 1 .. n : \A a \in Word16 : Crc16Step(a, s[k]) \in Word16
  BY <1>1, Byte16Is
<1>3. f \in [1 .. n -> [Word16 -> Word16]] /\ \A k \in 1 .. n :
        \A a \in Word16 : f[k][a] = Crc16Step(a, s[k])
  BY <1>2, Zenon
<1> HIDE DEF f
<1>4. PICK g \in [0 .. n -> Word16] :
         Steps(g, c, f, n) /\ \A a : Follows(a, Word16, c, f, n) => a[n] = g[n]
  BY <1>1, <1>3, StepsFollow
<1>5. g[0] = c /\ \A k \in 1 .. n : g[k] = Crc16Step(g[k - 1], s[k])
  <2>1. g[0] = c /\ \A k \in 1 .. n : g[k] = f[k][g[k - 1]]
    BY <1>4, Zenon DEF Steps
  <2>2. \A k \in 1 .. n : g[k - 1] \in Word16
    <3>1. \A k \in 1 .. n : k - 1 \in 0 .. n
      BY <1>1
    <3> QED BY <1>4, <3>1, Zenon
  <2> QED BY <1>3, <2>1, <2>2, Zenon
<1>6. g = [k \in 0 .. n |-> IF k = 0 THEN c ELSE Crc16Step(g[k - 1], s[k])]
  <2>1. \A k \in 0 .. n : k = 0 \/ k \in 1 .. n
    BY <1>1
  <2>2. \A k \in 0 .. n : g[k] = IF k = 0 THEN c ELSE Crc16Step(g[k - 1], s[k])
    BY <1>5, <2>1, Zenon
  <2> QED BY <1>4, <2>2, Zenon
<1> DEFINE after == CHOOSE after : after = [k \in 0 .. n |-> IF k
  = 0 THEN c ELSE Crc16Step(after[k - 1], s[k])]
<1>7. after = [k \in 0 .. n |-> IF k = 0 THEN c ELSE Crc16Step(after[k - 1], s[k])]
  BY <1>6, Zenon
<1>8. Loop(Crc16Step, c, s) = after[n]
  BY Zenon DEF Loop, n
<1> HIDE DEF after
<1>9. after[0] = c /\ \A k \in 1 .. n : after[k] = Crc16Step(after[k - 1], s[k])
  <2>1. 0 \in 0 .. n /\ \A k \in 1 .. n : k \in 0 .. n /\ k # 0
    BY <1>1
  <2> QED BY <1>7, <2>1, Zenon
<1>10. Follows(after, Word16, c, f, n)
  BY <1>3, <1>9, Zenon DEF Follows
<1>11. after[n] = g[n]
  BY <1>4, <1>10, Zenon
<1>12. Loop(Crc16Step, c, s) = g[n]
  BY <1>8, <1>11
<1>13. n = Len(s)
  BY DEF n
<1> QED BY <1>4, <1>5, <1>12, <1>13, Zenon

(* The loop of p2sc_crc32 goes through the bytes in steps.                 *)
LEMMA Crc32Steps ==
    ASSUME NEW c \in Register, NEW s \in Seq(Byte)
    PROVE  \E g \in [0 .. Len(s) -> Register] :
              /\ g[0] = c /\ \A k \in 1 .. Len(s) : g[k] = Crc32Step(g[k - 1], s[k])
              /\ Loop(Crc32Step, c, s) = g[Len(s)]
<1> DEFINE n == Len(s)
           f == [k \in 1 .. n |-> [a \in Register |-> Crc32Step(a, s[k])]]
<1>1. n \in Nat /\ \A k \in 1 .. n : s[k] \in Byte
  OBVIOUS
<1> HIDE DEF n
<1>2. \A k \in 1 .. n : \A a \in Register : Crc32Step(a, s[k]) \in Register
  BY <1>1, Byte32Is
<1>3. f \in [1 .. n -> [Register -> Register]] /\ \A k \in 1 .. n :
        \A a \in Register : f[k][a] = Crc32Step(a, s[k])
  BY <1>2, Zenon
<1> HIDE DEF f
<1>4. PICK g \in [0 .. n -> Register] :
         Steps(g, c, f, n) /\ \A a : Follows(a, Register, c, f, n) => a[n] = g[n]
  BY <1>1, <1>3, StepsFollow
<1>5. g[0] = c /\ \A k \in 1 .. n : g[k] = Crc32Step(g[k - 1], s[k])
  <2>1. g[0] = c /\ \A k \in 1 .. n : g[k] = f[k][g[k - 1]]
    BY <1>4, Zenon DEF Steps
  <2>2. \A k \in 1 .. n : g[k - 1] \in Register
    <3>1. \A k \in 1 .. n : k - 1 \in 0 .. n
      BY <1>1
    <3> QED BY <1>4, <3>1, Zenon
  <2> QED BY <1>3, <2>1, <2>2, Zenon
<1>6. g = [k \in 0 .. n |-> IF k = 0 THEN c ELSE Crc32Step(g[k - 1], s[k])]
  <2>1. \A k \in 0 .. n : k = 0 \/ k \in 1 .. n
    BY <1>1
  <2>2. \A k \in 0 .. n : g[k] = IF k = 0 THEN c ELSE Crc32Step(g[k - 1], s[k])
    BY <1>5, <2>1, Zenon
  <2> QED BY <1>4, <2>2, Zenon
<1> DEFINE after == CHOOSE after : after = [k \in 0 .. n |-> IF k
  = 0 THEN c ELSE Crc32Step(after[k - 1], s[k])]
<1>7. after = [k \in 0 .. n |-> IF k = 0 THEN c ELSE Crc32Step(after[k - 1], s[k])]
  BY <1>6, Zenon
<1>8. Loop(Crc32Step, c, s) = after[n]
  BY Zenon DEF Loop, n
<1> HIDE DEF after
<1>9. after[0] = c /\ \A k \in 1 .. n : after[k] = Crc32Step(after[k - 1], s[k])
  <2>1. 0 \in 0 .. n /\ \A k \in 1 .. n : k \in 0 .. n /\ k # 0
    BY <1>1
  <2> QED BY <1>7, <2>1, Zenon
<1>10. Follows(after, Register, c, f, n)
  BY <1>3, <1>9, Zenon DEF Follows
<1>11. after[n] = g[n]
  BY <1>4, <1>10, Zenon
<1>12. Loop(Crc32Step, c, s) = g[n]
  BY <1>8, <1>11
<1>13. n = Len(s)
  BY DEF n
<1> QED BY <1>4, <1>5, <1>12, <1>13, Zenon

(* The checksums are the remainders of the bits.                           *)
LEMMA Crc16Is ==
    ASSUME NEW c \in Word16, NEW s \in Seq(Byte)
    PROVE  p2sc_crc16(c, s) = Register16(c, s) /\ p2sc_crc16(c, s) \in Word16
<1> DEFINE n == Len(s)
<1>1. n \in Nat /\ n \in 0 .. n /\ \A k \in 1 .. n : s[k] \in Byte
  OBVIOUS
<1>2. PICK g \in [0 .. Len(s) -> Word16] :
         /\ g[0] = c /\ \A k \in 1 .. Len(s) : g[k] = Crc16Step(g[k - 1], s[k])
         /\ Loop(Crc16Step, c, s) = g[Len(s)]
  BY Crc16Steps
<1>3. PICK h \in [0 .. Len(s) -> Word16] :
         /\ h[0] = c /\ \A k \in 1 .. Len(s) : h[k] = Byte16(h[k - 1], s[k])
         /\ Loop(Byte16, c, s) = h[Len(s)]
  BY Byte16Steps
<1>4. \A k \in 1 .. n : h[k] = Crc16Step(h[k - 1], s[k])
  <2>1. ASSUME NEW k \in 1 .. n PROVE h[k] = Crc16Step(h[k - 1], s[k])
    <3>1. k - 1 \in 0 .. n /\ s[k] \in Byte
      BY <1>1
    <3>2. h[k - 1] \in Word16
      BY <1>3, <3>1
    <3> QED BY <1>3, <3>1, <3>2, Byte16Is
  <2> QED BY <2>1
<1> HIDE DEF n
<1> DEFINE D == {k \in 0 .. n : g[k] = h[k]}
<1>5. 0 \in D
  BY <1>1, <1>2, <1>3
<1>6. ASSUME NEW k \in 0 .. n - 1, k \in D PROVE k + 1 \in D
  <2>1. k + 1 \in 0 .. n /\ k + 1 \in 1 .. n /\ (k + 1) - 1 = k /\ g[k] = h[k]
    BY <1>1, <1>6
  <2>2. g[k + 1] = Crc16Step(g[k], s[k + 1]) /\ h[k + 1] = Crc16Step(h[k], s[k + 1])
    <3>1. \A j \in 1 .. n : g[j] = Crc16Step(g[j - 1], s[j])
      BY <1>2 DEF n
    <3> QED BY <1>4, <2>1, <3>1
  <2> QED BY <2>1, <2>2
<1> HIDE DEF D
<1>7. n \in D
  BY <1>1, <1>5, <1>6, UpTo
<1>8. g[Len(s)] = h[Len(s)] /\ g[Len(s)] \in Word16
  BY <1>1, <1>2, <1>7 DEF D, n
<1> QED BY <1>2, <1>3, <1>8 DEF p2sc_crc16, Register16

(* p2sc_crc32 leaves the remainder of the bits.                            *)
LEMMA Crc32Is ==
    ASSUME NEW c \in Register, NEW s \in Seq(Byte)
    PROVE  p2sc_crc32(c, s) = Register32(c, s) /\ p2sc_crc32(c, s) \in Register
<1> DEFINE n == Len(s)
<1>1. n \in Nat /\ n \in 0 .. n /\ \A k \in 1 .. n : s[k] \in Byte
  OBVIOUS
<1>2. PICK g \in [0 .. Len(s) -> Register] :
         /\ g[0] = c /\ \A k \in 1 .. Len(s) : g[k] = Crc32Step(g[k - 1], s[k])
         /\ Loop(Crc32Step, c, s) = g[Len(s)]
  BY Crc32Steps
<1>3. PICK h \in [0 .. Len(s) -> Register] :
         /\ h[0] = c /\ \A k \in 1 .. Len(s) : h[k] = Byte32(h[k - 1], s[k])
         /\ Loop(Byte32, c, s) = h[Len(s)]
  BY Byte32Steps
<1>4. \A k \in 1 .. n : h[k] = Crc32Step(h[k - 1], s[k])
  <2>1. ASSUME NEW k \in 1 .. n PROVE h[k] = Crc32Step(h[k - 1], s[k])
    <3>1. k - 1 \in 0 .. n /\ s[k] \in Byte
      BY <1>1
    <3>2. h[k - 1] \in Register
      BY <1>3, <3>1
    <3> QED BY <1>3, <3>1, <3>2, Byte32Is
  <2> QED BY <2>1
<1> HIDE DEF n
<1> DEFINE D == {k \in 0 .. n : g[k] = h[k]}
<1>5. 0 \in D
  BY <1>1, <1>2, <1>3
<1>6. ASSUME NEW k \in 0 .. n - 1, k \in D PROVE k + 1 \in D
  <2>1. k + 1 \in 0 .. n /\ k + 1 \in 1 .. n /\ (k + 1) - 1 = k /\ g[k] = h[k]
    BY <1>1, <1>6
  <2>2. g[k + 1] = Crc32Step(g[k], s[k + 1]) /\ h[k + 1] = Crc32Step(h[k], s[k + 1])
    <3>1. \A j \in 1 .. n : g[j] = Crc32Step(g[j - 1], s[j])
      BY <1>2 DEF n
    <3> QED BY <1>4, <2>1, <3>1
  <2> QED BY <2>1, <2>2
<1> HIDE DEF D
<1>7. n \in D
  BY <1>1, <1>5, <1>6, UpTo
<1>8. g[Len(s)] = h[Len(s)] /\ g[Len(s)] \in Register
  BY <1>1, <1>2, <1>7 DEF D, n
<1> QED BY <1>2, <1>3, <1>8 DEF p2sc_crc32, Register32

(* The remainder goes on from where it was.                                *)
LEMMA Register32Further ==
    ASSUME NEW c \in Register, NEW d \in Seq(Byte), NEW e \in Seq(Byte)
    PROVE  Register32(c, d \o e) = Register32(Register32(c, d), e)
<1> DEFINE n == Len(d)
           m == Len(e)
           s == d \o e
<1>1. /\ n \in Nat /\ m \in Nat /\ s \in Seq(Byte) /\ Len(s) = n + m
      /\ \A k \in 1 .. n : s[k] = d[k]
      /\ \A k \in 1 .. m : s[n + k] = e[k]
  OBVIOUS
<1> HIDE DEF s
<1>2. PICK f \in [0 .. Len(d) -> Register] :
         /\ f[0] = c /\ \A k \in 1 .. Len(d) : f[k] = Byte32(f[k - 1], d[k])
         /\ Loop(Byte32, c, d) = f[Len(d)]
  BY Byte32Steps
<1>3. f[n] \in Register
  BY <1>1, <1>2
<1>4. PICK g \in [0 .. Len(e) -> Register] :
         /\ g[0] = f[n] /\ \A k \in 1 .. Len(e) : g[k] = Byte32(g[k - 1], e[k])
         /\ Loop(Byte32, f[n], e) = g[Len(e)]
  BY <1>3, Byte32Steps
<1>5. PICK h \in [0 .. Len(s) -> Register] :
         /\ h[0] = c /\ \A k \in 1 .. Len(s) : h[k] = Byte32(h[k - 1], s[k])
         /\ Loop(Byte32, c, s) = h[Len(s)]
  BY <1>1, Byte32Steps
<1>6. \A k \in 1 .. n : f[k] = Byte32(f[k - 1], d[k])
  BY <1>2
<1>7. \A k \in 1 .. m : g[k] = Byte32(g[k - 1], e[k])
  BY <1>4
<1>8. \A k \in 1 .. n + m : h[k] = Byte32(h[k - 1], s[k])
  BY <1>1, <1>5
<1>9. Loop(Byte32, c, d) = f[n] /\ Loop(Byte32, f[n], e) = g[m] /\ Loop(Byte32, c, s) = h[n + m]
  BY <1>1, <1>2, <1>4, <1>5
<1> HIDE DEF n, m
<1> DEFINE D == {k \in 0 .. n : h[k] = f[k]}
<1>10. \A k \in 0 .. n : k \in D
  <2>1. 0 \in D
    BY <1>1, <1>2, <1>5
  <2>2. ASSUME NEW k \in 0 .. n - 1, k \in D PROVE k + 1 \in D
    <3>1. /\ k + 1 \in 0 .. n /\ k + 1 \in 1 .. n /\ k + 1 \in 1 .. n + m
          /\ (k + 1) - 1 = k /\ h[k] = f[k]
      BY <1>1, <2>2
    <3>2. f[k + 1] = Byte32(f[k], d[k + 1]) /\ h[k + 1] = Byte32(h[k], d[k + 1])
      BY <1>1, <1>6, <1>8, <3>1
    <3> QED BY <3>1, <3>2
  <2> HIDE DEF D
  <2> QED BY <1>1, <2>1, <2>2, UpTo
<1> DEFINE E == {k \in 0 .. m : h[n + k] = g[k]}
<1>11. \A k \in 0 .. m : k \in E
  <2>1. 0 \in E
    <3>1. n \in 0 .. n /\ n + 0 = n /\ 0 \in 0 .. m
      BY <1>1
    <3>2. h[n] = f[n]
      BY <1>10, <3>1
    <3> QED BY <1>4, <3>1, <3>2
  <2>2. ASSUME NEW k \in 0 .. m - 1, k \in E PROVE k + 1 \in E
    <3>1. /\ k + 1 \in 0 .. m /\ k + 1 \in 1 .. m /\ n + (k + 1) \in 1 .. n + m
          /\ (k + 1) - 1 = k /\ (n + (k + 1)) - 1 = n + k /\ h[n + k] = g[k]
      BY <1>1, <2>2
    <3>2. g[k + 1] = Byte32(g[k], e[k + 1]) /\ h[n + (k + 1)] = Byte32(h[n + k], e[k + 1])
      BY <1>1, <1>7, <1>8, <3>1
    <3> QED BY <3>1, <3>2
  <2> HIDE DEF E
  <2> QED BY <1>1, <2>1, <2>2, UpTo
<1>12. h[n + m] = g[m]
  <2>1. m \in 0 .. m
    BY <1>1
  <2> QED BY <1>11, <2>1
<1>13. Loop(Byte32, c, s) = Loop(Byte32, Loop(Byte32, c, d), e)
  BY <1>9, <1>12
<1> QED BY <1>13 DEF Register32, s

(* The lengths that cksum takes here, and their bytes.                     *)
Length31 == {n \in Nat : n <= 2147483647}
HasBytes(n, k) == (k > 0 => n >= Power[k]) /\ (k < 4 => n < Power[k + 1])
ByteOf(n, i) == (n \div Power[i]) % 256

(* The powers of 256 grow.                                                 *)
LEMMA Powers ==
    /\ Power[1] = 1 /\ Power[2] = 256 /\ Power[3] = 65536 /\ Power[4] = 16777216
    /\ \A i \in 1 .. 4 : Power[i] \in Nat \ {0}
    /\ \A i, j \in 1 .. 4 : i <= j => Power[i] <= Power[j]
<1>1. Power[1] = 1 /\ Power[2] = 256 /\ Power[3] = 65536 /\ Power[4] = 16777216
  BY DEF Power
<1>2. \A i \in 1 .. 4 : i = 1 \/ i = 2 \/ i = 3 \/ i = 4
  OBVIOUS
<1> QED BY <1>1, <1>2

(* A length has as many bytes as it needs, and no other number of them.    *)
LEMMA FewestOf ==
    ASSUME NEW n \in Length31, NEW k \in 0 .. 4, HasBytes(n, k)
    PROVE  FewestBytes(n) = [i \in 1 .. k |-> ByteOf(n, i)]
<1>1. ASSUME NEW j \in 0 .. 4, NEW m \in 0 .. 4, HasBytes(n, j), HasBytes(n, m), j < m PROVE FALSE
  <2>1. n \in Nat /\ j + 1 \in 1 .. 4 /\ m \in 1 .. 4 /\ j + 1 <= m /\ m > 0 /\ j < 4
    BY <1>1 DEF Length31
  <2>2. n < Power[j + 1] /\ n >= Power[m]
    BY <1>1, <2>1 DEF HasBytes
  <2>3. Power[j + 1] \in Nat /\ Power[m] \in Nat /\ Power[j + 1] <= Power[m]
    BY <2>1, Powers
  <2> QED BY <2>1, <2>2, <2>3
<1>2. \A j \in 0 .. 4 : HasBytes(n, j) => j = k
  <2>1. ASSUME NEW j \in 0 .. 4, HasBytes(n, j) PROVE j = k
    <3>1. j < k \/ k < j \/ j = k
      OBVIOUS
    <3> QED BY <1>1, <2>1, <3>1
  <2> QED BY <2>1
<1>3. (CHOOSE j \in 0 .. 4 : HasBytes(n, j)) = k
  BY <1>2
<1>4. FewestBytes(n) = [i \in 1 .. CHOOSE j \in 0 .. 4 : HasBytes(n, j) |-> ByteOf(n, i)]
  BY Zenon DEF FewestBytes, HasBytes, ByteOf
<1> QED BY <1>3, <1>4, Zenon

(* A length has some number of bytes.                                      *)
LEMMA BytesExist ==
    ASSUME NEW n \in Length31
    PROVE  \E k \in 0 .. 4 : HasBytes(n, k) /\ (n # 0 => k \in 1 .. 4)
<1>1. n \in Nat
  BY DEF Length31
<1>2. CASE n < 1
  <2>1. HasBytes(n, 0) /\ n = 0
    BY <1>1, <1>2, Powers DEF HasBytes
  <2> QED BY <2>1
<1>3. CASE n >= 1 /\ n < 256
  <2>1. HasBytes(n, 1)
    BY <1>1, <1>3, Powers DEF HasBytes
  <2> QED BY <2>1
<1>4. CASE n >= 256 /\ n < 65536
  <2>1. HasBytes(n, 2)
    BY <1>1, <1>4, Powers DEF HasBytes
  <2> QED BY <2>1
<1>5. CASE n >= 65536 /\ n < 16777216
  <2>1. HasBytes(n, 3)
    BY <1>1, <1>5, Powers DEF HasBytes
  <2> QED BY <2>1
<1>6. CASE n >= 16777216
  <2>1. HasBytes(n, 4)
    BY <1>1, <1>6, Powers DEF HasBytes
  <2> QED BY <2>1
<1> QED BY <1>1, <1>2, <1>3, <1>4, <1>5, <1>6

(* A function on the first numbers is a sequence.                          *)
LEMMA FirstNumbers ==
    ASSUME NEW S, NEW k \in Nat, NEW f \in [1 .. k -> S]
    PROVE  f \in Seq(S) /\ Len(f) = k
<1>1. f \in Seq(S)
  BY SeqDef, Zenon
<1>2. Len(f) \in Nat /\ DOMAIN f = 1 .. Len(f)
  BY <1>1, LenProperties
<1>3. DOMAIN f = 1 .. k
  BY Zenon
<1>4. ASSUME NEW m \in Nat, 1 .. m = 1 .. k PROVE m = k
  <2>1. \A x \in Nat : x \in 1 .. m <=> x \in 1 .. k
    BY <1>4
  <2>2. /\ m \in Nat /\ k \in Nat
        /\ \A x \in Nat : (1 <= x /\ x <= m) <=> (1 <= x /\ x <= k)
    BY <2>1
  <2>3. (1 <= m /\ m <= m) <=> (1 <= m /\ m <= k)
    BY <2>2
  <2>4. (1 <= k /\ k <= m) <=> (1 <= k /\ k <= k)
    BY <2>2
  <2> QED BY <2>2, <2>3, <2>4
<1> QED BY <1>1, <1>2, <1>3, <1>4

(* A byte of a length is a byte.                                           *)
LEMMA ByteOfType ==
    ASSUME NEW n \in Length31, NEW i \in 1 .. 4
    PROVE  ByteOf(n, i) \in Byte
<1>1. n \in Nat /\ Power[i] \in Nat \ {0}
  BY Powers DEF Length31
<1>2. \A p \in Nat \ {0} : n \div p \in Nat
  BY <1>1
<1>3. \A x \in Nat : x % 256 \in 0 .. 255
  OBVIOUS
<1> QED BY <1>1, <1>2, <1>3 DEF ByteOf, Byte

(* The bytes of a length are bytes.                                        *)
LEMMA FewestType ==
    ASSUME NEW n \in Length31
    PROVE  FewestBytes(n) \in Seq(Byte)
<1>1. PICK k \in 0 .. 4 : HasBytes(n, k)
  BY BytesExist
<1>2. FewestBytes(n) = [i \in 1 .. k |-> ByteOf(n, i)]
  BY <1>1, FewestOf, Zenon
<1>3. \A i \in 1 .. k : ByteOf(n, i) \in Byte
  <2>1. \A i \in 1 .. k : i \in 1 .. 4
    OBVIOUS
  <2> QED BY <2>1, ByteOfType
<1> DEFINE f == [i \in 1 .. k |-> ByteOf(n, i)]
<1>4. f \in [1 .. k -> Byte]
  BY <1>3, Zenon
<1>5. FewestBytes(n) = f
  BY <1>2, Zenon
<1>6. k \in Nat
  OBVIOUS
<1> HIDE DEF f
<1> QED BY <1>4, <1>5, <1>6, FirstNumbers

(* The higher bytes are those of the rest.                                 *)
LEMMA HigherBytes ==
    ASSUME NEW n \in Length31, NEW i \in 1 .. 3
    PROVE  ByteOf(n \div 256, i) = ByteOf(n, i + 1)
<1>1. n \in Nat
  BY DEF Length31
<1>2. CASE i = 1
  <2>1. (n \div 256) \div 1 = n \div 256
    BY <1>1
  <2> QED BY <1>2, <2>1, Powers DEF ByteOf
<1>3. CASE i = 2
  <2>1. (n \div 256) \div 256 = n \div 65536
    BY <1>1
  <2> QED BY <1>3, <2>1, Powers DEF ByteOf
<1>4. CASE i = 3
  <2>1. (n \div 256) \div 65536 = n \div 16777216
    BY <1>1
  <2> QED BY <1>4, <2>1, Powers DEF ByteOf
<1> QED BY <1>2, <1>3, <1>4

(* The rest of a length has one byte less.                                 *)
LEMMA RestHas ==
    ASSUME NEW n \in Length31, NEW k \in 1 .. 4, HasBytes(n, k)
    PROVE  n \div 256 \in Length31 /\ HasBytes(n \div 256, k - 1)
<1>1. n \in Nat /\ n <= 2147483647
  BY DEF Length31
<1>2. n \div 256 \in Nat /\ n \div 256 <= 2147483647 /\ n \div 256 < 16777216
  BY <1>1
<1>3. n \div 256 \in Length31
  BY <1>2 DEF Length31
<1>4. CASE k = 1
  <2>1. n < 256
    BY <1>4, Powers DEF HasBytes
  <2>2. n \div 256 < 1
    BY <1>1, <2>1
  <2> QED BY <1>3, <1>4, <2>2, Powers DEF HasBytes
<1>5. CASE k = 2
  <2>1. n >= 256 /\ n < 65536
    BY <1>5, Powers DEF HasBytes
  <2>2. n \div 256 >= 1 /\ n \div 256 < 256
    BY <1>1, <2>1
  <2> QED BY <1>3, <1>5, <2>2, Powers DEF HasBytes
<1>6. CASE k = 3
  <2>1. n >= 65536 /\ n < 16777216
    BY <1>6, Powers DEF HasBytes
  <2>2. n \div 256 >= 256 /\ n \div 256 < 65536
    BY <1>1, <2>1
  <2> QED BY <1>3, <1>6, <2>2, Powers DEF HasBytes
<1>7. CASE k = 4
  <2>1. n >= 16777216
    BY <1>7, Powers DEF HasBytes
  <2>2. n \div 256 >= 65536
    BY <1>1, <2>1
  <2> QED BY <1>2, <1>3, <1>7, <2>2, Powers DEF HasBytes
<1> QED BY <1>4, <1>5, <1>6, <1>7

(* The bytes of a length: the low one, and those of the rest.              *)
LEMMA FewestNext ==
    ASSUME NEW n \in Length31, n # 0
    PROVE  n \div 256 \in Length31 /\ FewestBytes(n) = <<n % 256>> \o FewestBytes(n \div 256)
<1>1. PICK k \in 1 .. 4 : HasBytes(n, k)
  BY BytesExist
<1>2. k \in 0 .. 4 /\ k - 1 \in 0 .. 4 /\ k \in Nat /\ k - 1 \in Nat
  OBVIOUS
<1>3. n \div 256 \in Length31 /\ HasBytes(n \div 256, k - 1)
  BY <1>1, RestHas
<1> DEFINE a == [i \in 1 .. k |-> ByteOf(n, i)]
           r == [i \in 1 .. k - 1 |-> ByteOf(n \div 256, i)]
<1>4. FewestBytes(n) = a /\ FewestBytes(n \div 256) = r
  BY <1>1, <1>2, <1>3, FewestOf
<1>5. a \in Seq(Byte) /\ Len(a) = k
  <2>1. \A i \in 1 .. k : ByteOf(n, i) \in Byte
    <3>1. \A i \in 1 .. k : i \in 1 .. 4
      OBVIOUS
    <3> QED BY <3>1, ByteOfType
  <2>2. a \in [1 .. k -> Byte]
    BY <2>1, Zenon
  <2> QED BY <1>2, <2>2, FirstNumbers
<1>6. r \in Seq(Byte) /\ Len(r) = k - 1
  <2>1. \A i \in 1 .. k - 1 : ByteOf(n \div 256, i) \in Byte
    <3>1. \A i \in 1 .. k - 1 : i \in 1 .. 4
      OBVIOUS
    <3> QED BY <1>3, <3>1, ByteOfType
  <2>2. r \in [1 .. k - 1 -> Byte]
    BY <2>1, Zenon
  <2> QED BY <1>2, <2>2, FirstNumbers
<1>7. a[1] = n % 256
  <2>1. n \div 1 = n
    BY DEF Length31
  <2>2. 1 \in 1 .. k
    OBVIOUS
  <2>3. a[1] = ByteOf(n, 1)
    BY <2>2, Zenon
  <2> QED BY <2>1, <2>3, Powers DEF ByteOf
<1>8. ASSUME NEW i \in 1 .. k - 1 PROVE a[i + 1] = r[i]
  <2>1. i \in 1 .. 3 /\ i + 1 \in 1 .. k
    OBVIOUS
  <2>2. a[i + 1] = ByteOf(n, i + 1) /\ r[i] = ByteOf(n \div 256, i)
    BY <2>1, Zenon
  <2> QED BY <2>1, <2>2, HigherBytes
<1> HIDE DEF a, r
<1> DEFINE t == <<n % 256>> \o r
<1>9. t \in Seq(Byte) /\ Len(t) = k /\ t[1] = n % 256 /\ \A i \in 1 .. k - 1 : t[i + 1] = r[i]
  <2>1. n % 256 \in Byte
    BY DEF Length31, Byte
  <2> QED BY <1>6, <2>1
<1> HIDE DEF t
<1>10. ASSUME NEW i \in 1 .. k PROVE a[i] = t[i]
  <2>1. CASE i = 1
    BY <1>7, <1>9, <2>1
  <2>2. CASE i # 1
    <3>1. i - 1 \in 1 .. k - 1 /\ (i - 1) + 1 = i
      BY <2>2
    <3>2. a[(i - 1) + 1] = r[i - 1] /\ t[(i - 1) + 1] = r[i - 1]
      BY <1>8, <1>9, <3>1
    <3> QED BY <3>1, <3>2
  <2> QED BY <2>1, <2>2
<1>11. a = t
  BY <1>5, <1>9, <1>10, SeqEqual
<1> QED BY <1>3, <1>4, <1>11 DEF t

(* A length of zero has no bytes.                                          *)
LEMMA FewestNone == FewestBytes(0) = <<>>
<1>1. 0 \in Length31 /\ HasBytes(0, 0)
  BY Powers DEF Length31, HasBytes
<1>2. FewestBytes(0) = [i \in 1 .. 0 |-> ByteOf(0, i)]
  BY <1>1, FewestOf
<1>3. [i \in 1 .. 0 |-> ByteOf(0, i)] = <<>>
  OBVIOUS
<1> QED BY <1>2, <1>3

(* What p2sc_crc32_finalise adds are the fewest bytes of the length.       *)
LEMMA LengthBytesAre ==
    ASSUME NEW len \in Length31
    PROVE  LengthBytes(len) = FewestBytes(len)
<1>1. len \in Nat /\ len \in 0 .. len /\ 0 .. len \in SUBSET Nat
  BY DEF Length31
<1>2. ASSUME NEW n \in 0 .. len PROVE n \in Length31
  BY <1>1 DEF Length31
<1>3. ASSUME NEW n \in 0 .. len, n # 0 PROVE n \div 256 \in 0 .. len /\ n \div 256 < n
  <2>1. n \in Nat /\ n <= len
    BY <1>1
  <2>2. n \div 256 \in Nat /\ n \div 256 < n
    BY <1>3, <2>1
  <2> QED BY <1>1, <2>1, <2>2
<1> DEFINE g == [n \in 0 .. len |-> FewestBytes(n)]
<1>4. ASSUME NEW n \in 0 .. len
      PROVE  g[n] = IF n = 0 THEN <<>> ELSE <<n % 256>> \o g[n \div 256]
  <2>1. CASE n = 0
    BY <2>1, FewestNone
  <2>2. CASE n # 0
    <3>1. g[n] = FewestBytes(n) /\ g[n \div 256] = FewestBytes(n \div 256)
      BY <1>3, <2>2, Zenon
    <3>2. FewestBytes(n) = <<n % 256>> \o FewestBytes(n \div 256)
      BY <1>2, <2>2, FewestNext
    <3> QED BY <2>2, <3>1, <3>2, Zenon
  <2> QED BY <2>1, <2>2
<1> DEFINE Rule(f) == f = [n \in 0 .. len |-> IF n = 0 THEN <<>> ELSE <<n % 256>> \o f[n \div 256]]
<1>5. Rule(g)
  <2>1. g = [n \in 0 .. len |-> g[n]]
    BY Zenon
  <2> HIDE DEF g
  <2> QED BY <1>4, <2>1, Zenon
<1> DEFINE of == CHOOSE of : of = [n \in 0 .. len |-> IF n
  = 0 THEN <<>> ELSE <<n % 256>> \o of[n \div 256]]
<1>6. of = [n \in 0 .. len |-> IF n = 0 THEN <<>> ELSE <<n % 256>> \o of[n \div 256]]
  BY <1>5, Zenon
<1>7. LengthBytes(len) = of[len]
  BY Zenon DEF LengthBytes
<1> HIDE DEF of
<1>8. ASSUME NEW n \in 0 .. len
      PROVE  of[n] = IF n = 0 THEN <<>> ELSE <<n % 256>> \o of[n \div 256]
  BY <1>6, Zenon
<1> DEFINE W == {n \in 0 .. len : of[n] # FewestBytes(n)}
<1>9. W = {}
  <2>1. SUFFICES ASSUME W # {} PROVE FALSE
    OBVIOUS
  <2>2. W \in SUBSET Nat /\ W \subseteq 0 .. len
    BY <1>1
  <2>3. \A n \in 0 .. len : n \in W <=> of[n] # FewestBytes(n)
    BY Zenon
  <2> HIDE DEF W
  <2>4. PICK x \in W : \A y \in W : x <= y
    BY <2>1, <2>2, LeastOf
  <2>5. x \in 0 .. len /\ of[x] # FewestBytes(x)
    BY <2>2, <2>3, <2>4
  <2>6. CASE x = 0
    BY <1>8, <2>5, <2>6, FewestNone
  <2>7. CASE x # 0
    <3>1. x \div 256 \in 0 .. len /\ x \div 256 < x /\ x \in Nat
      BY <1>1, <1>3, <2>5, <2>7
    <3>2. x \div 256 \notin W
      <4>1. x \div 256 \in Nat /\ ~(x <= x \div 256)
        BY <1>1, <3>1
      <4> QED BY <2>4, <4>1
    <3>3. of[x \div 256] = FewestBytes(x \div 256)
      BY <2>3, <3>1, <3>2
    <3>4. of[x] = <<x % 256>> \o of[x \div 256]
      BY <1>8, <2>5, <2>7
    <3>5. FewestBytes(x) = <<x % 256>> \o FewestBytes(x \div 256)
      BY <1>2, <2>5, <2>7, FewestNext
    <3> QED BY <2>5, <3>3, <3>4, <3>5
  <2> QED BY <2>6, <2>7
<1> QED BY <1>1, <1>7, <1>9

(* The sum with the length, as cksum has it.                               *)
LEMMA FinaliseIs ==
    ASSUME NEW c \in Register, NEW len \in Length31
    PROVE  p2sc_crc32_finalise(c, len)
           = <<65535 - Register32(c, FewestBytes(len))[1], 65535 - Register32(c,
             FewestBytes(len))[2]>>
<1>1. p2sc_crc32(c, LengthBytes(len)) = Register32(c, FewestBytes(len))
  BY FewestType, LengthBytesAre, Crc32Is
<1> QED BY <1>1 DEF p2sc_crc32_finalise
============================================================================
