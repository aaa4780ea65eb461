-------------------------- MODULE AlgorithmsProofs --------------------------
(***************************************************************************)
(* Proofs about the algorithms of the library, for inputs of any size: the *)
(* clock of the mission in its round, the profile cut into markers, the    *)
(* neighbourhood that a bicubic filter keeps through a walk of any length, *)
(* the planes that are averaged in place, dates as they are printed and    *)
(* read, images as they are written and read, the median by a network or   *)
(* by Quickselect, and the checksums. Loops are taken step by step         *)
(* (LibraryProofs).                                                        *)
(* Predicates that only give a formula a name keep numbers, tuples and     *)
(* functions out of the provers' sight.                                    *)
(***************************************************************************)
EXTENDS Algorithms, LibraryProofs, FiniteSetTheorems, FunctionTheorems, TLAPS

---------------------------------------------------------------------------
(* The clock of the mission (OnBoardTime).                                 *)

(* The times of the round from the reference on.                           *)
OneRound(t) == t \in Nat /\ REFERENCE_OBET <= t /\ t < REFERENCE_OBET + TWENTY_EIGHT

(* A number of four bytes is that of its bytes (p2sc_time.c:73-75).        *)
LEMMA FourBytes ==
    ASSUME NEW s \in Nat
    PROVE  TWENTY_FOUR * (s \div TWENTY_FOUR) + 65536 * ((s \div 65536) % 256)
             + 256 * ((s \div 256) % 256) + (s % 256) = s
  <1> DEFINE a == s \div 256
             b == s \div 65536
             c == s \div TWENTY_FOUR
  <1>1. a \in Nat /\ s = 256 * a + (s % 256)
    BY SMT DEF TWENTY_FOUR
  <1>2. b \in Nat /\ b = a \div 256 /\ a = 256 * b + (a % 256)
    BY SMT DEF TWENTY_FOUR
  <1>3. c \in Nat /\ c = b \div 256 /\ b = 256 * c + (b % 256)
    BY SMT DEF TWENTY_FOUR
  <1> HIDE DEF a, b, c
  <1>4. TWENTY_FOUR * c + 65536 * (b % 256) + 256 * (a % 256) + (s % 256) = s
    BY <1>1, <1>2, <1>3, SMT DEF TWENTY_FOUR
  <1> QED
    BY <1>4, SMT DEF TWENTY_FOUR, a, b, c

(* The fraction is a number of three bytes.                                *)
LEMMA ThreeBytes ==
    ASSUME NEW f \in Nat, f < TWENTY_FOUR
    PROVE  65536 * ((f \div 65536) % 256) + 256 * ((f \div 256) % 256) + (f % 256) = f
  <1> DEFINE a == f \div 256
             b == f \div 65536
  <1>1. a \in Nat /\ f = 256 * a + (f % 256)
    BY SMT DEF TWENTY_FOUR
  <1>2. b \in Nat /\ b = a \div 256 /\ a = 256 * b + (a % 256) /\ b % 256 = b
    BY SMT DEF TWENTY_FOUR
  <1> HIDE DEF a, b
  <1>3. 65536 * (b % 256) + 256 * (a % 256) + (f % 256) = f
    BY <1>1, <1>2, SMT DEF TWENTY_FOUR
  <1> QED
    BY <1>3, SMT DEF TWENTY_FOUR, a, b

(* The round that p2sc_cuc2ticks_decoded adds (p2sc_time.c:61-62) is the one  *)
(* the 28 bits have lost.                                                  *)
LEMMA RoundRestored ==
    ASSUME NEW t, OneRound(t), NEW passno \in Int,
           t >= TWENTY_EIGHT => passno > REFERENCE_PASS
    PROVE  /\ t % TWENTY_EIGHT \in Nat /\ t % TWENTY_EIGHT < TWENTY_EIGHT
           /\ (t % TWENTY_EIGHT) + Round(passno, t % TWENTY_EIGHT) = t
  <1>1. CASE t < TWENTY_EIGHT
    <2>1. t % TWENTY_EIGHT = t
      BY <1>1, SMT DEF TWENTY_FOUR, OneRound, REFERENCE_OBET, TWENTY_EIGHT
    <2> QED
      BY <2>1, <1>1, SMT DEF TWENTY_FOUR, Round, OneRound, REFERENCE_OBET, TWENTY_EIGHT
  <1>2. CASE t >= TWENTY_EIGHT
    <2>1. t % TWENTY_EIGHT = t - TWENTY_EIGHT
      BY <1>2, SMT DEF TWENTY_FOUR, OneRound, REFERENCE_OBET, TWENTY_EIGHT
    <2> QED
      BY <2>1, <1>2, SMT DEF TWENTY_FOUR, Round, OneRound, REFERENCE_OBET, REFERENCE_PASS, TWENTY_EIGHT
  <1> QED
    BY <1>1, <1>2, SMT DEF TWENTY_FOUR, OneRound, TWENTY_EIGHT, REFERENCE_OBET

(* p2sc_cuc2ticks (p2sc_time.c:67): from the bytes the clock shows at any  *)
(* time of the round, in a pass after the reference or before the overflow, *)
(* come the seconds that have really passed and the ticks of the fraction. *)
THEOREM ClockIsRead ==
    ASSUME NEW t, OneRound(t), NEW f \in Nat, f < TWENTY_FOUR, NEW passno \in Int,
           t >= TWENTY_EIGHT => passno > REFERENCE_PASS
    PROVE  p2sc_cuc2ticks(CucOf(t % TWENTY_EIGHT, f), passno).ticks = <<t, f \div 1024>>
  <1> DEFINE s == t % TWENTY_EIGHT
             u == CucOf(s, f)
  <1>1. s \in Nat /\ s < TWENTY_EIGHT /\ s + Round(passno, s) = t
    BY RoundRestored, SMT DEF TWENTY_FOUR
  <1> HIDE DEF s
  <1>2. TWENTY_FOUR * u[1] + 65536 * u[2] + 256 * u[3] + u[4] = s
    BY <1>1, FourBytes, SMT DEF TWENTY_FOUR, CucOf
  <1>3. 65536 * u[5] + 256 * u[6] + u[7] = f
    BY ThreeBytes, SMT DEF TWENTY_FOUR, CucOf
  <1> HIDE DEF u
  <1>4. p2sc_cuc2ticks(u, passno).ticks = <<s + Round(passno, s), f \div 1024>>
    BY <1>2, <1>3, SMT DEF TWENTY_FOUR, p2sc_cuc2ticks, p2sc_cuc2ticks_decoded
  <1> QED
    BY <1>1, <1>4, SMT DEF TWENTY_FOUR, s, u

(* Ticks never run back: of two times of the round, in any passes that     *)
(* agree with them, the later one has the larger ticks, through the        *)
(* overflow of the counter.                                                *)
THEOREM TicksGrow ==
    ASSUME NEW t, OneRound(t), NEW f \in Nat, f < TWENTY_FOUR, NEW p \in Int,
           NEW u, OneRound(u), NEW g \in Nat, g < TWENTY_FOUR, NEW q \in Int,
           t >= TWENTY_EIGHT => p > REFERENCE_PASS,
           u >= TWENTY_EIGHT => q > REFERENCE_PASS,
           t < u \/ (t = u /\ f <= g)
    PROVE  LET a == p2sc_cuc2ticks(CucOf(t % TWENTY_EIGHT, f), p).ticks
               b == p2sc_cuc2ticks(CucOf(u % TWENTY_EIGHT, g), q).ticks
           IN  16384 * a[1] + a[2] <= 16384 * b[1] + b[2]
  <1>1. p2sc_cuc2ticks(CucOf(t % TWENTY_EIGHT, f), p).ticks = <<t, f \div 1024>>
    BY ClockIsRead, SMT DEF TWENTY_FOUR
  <1>2. p2sc_cuc2ticks(CucOf(u % TWENTY_EIGHT, g), q).ticks = <<u, g \div 1024>>
    BY ClockIsRead, SMT DEF TWENTY_FOUR
  <1>3. 16384 * t + (f \div 1024) <= 16384 * u + (g \div 1024)
    BY SMT DEF TWENTY_FOUR, OneRound, REFERENCE_OBET, TWENTY_EIGHT
  <1> QED
    BY <1>1, <1>2, <1>3, SMT DEF TWENTY_FOUR

---------------------------------------------------------------------------
(* A table is a sequence.                                                  *)
LEMMA TableIsSeq ==
    ASSUME NEW C, NEW n \in Nat, NEW s \in [1 .. n -> C]
    PROVE  s \in Seq(C) /\ Len(s) = n
OBVIOUS

(* The two items of a pair.                                                *)
LEMMA InPair ==
    ASSUME NEW A, NEW B, NEW p \in A \X B
    PROVE  p[1] \in A /\ p[2] \in B
OBVIOUS

(* The numbers that the bytes of the clock stand for.                      *)
Seconds(c) == TWENTY_FOUR * c[1] + 65536 * c[2] + 256 * c[3] + c[4]
Fraction(c) == 65536 * c[5] + 256 * c[6] + c[7]

(* What p2sc_obet2gps makes of a decoded on-board time.                    *)
LEMMA Decoded ==
    ASSUME NEW c, NEW passno
    PROVE  p2sc_cuc2ticks(c, passno)
              = [ticks  |-> <<Seconds(c) + Round(passno, Seconds(c)), Fraction(c) \div 1024>>,
                 warned |-> Warnings(Seconds(c), Fraction(c))]
BY SMT DEF TWENTY_FOUR, p2sc_cuc2ticks, p2sc_cuc2ticks_decoded, Seconds, Fraction

IsCuc(c) == c \in Seq(Int) /\ Len(c) = 7 /\ \A k \in 1 .. 7 : c[k] \in 0 .. 255

(* The counter shown holds the bytes of seconds and fraction.              *)
LEMMA ShownBytes ==
    ASSUME NEW s \in Nat, s < TWENTY_EIGHT, NEW f \in Nat, f < TWENTY_FOUR
    PROVE  /\ Seconds(CucOf(s, f)) = s /\ Fraction(CucOf(s, f)) = f
           /\ IsCuc(CucOf(s, f))
<1>1. Seconds(CucOf(s, f)) = s
  BY FourBytes, SMT DEF TWENTY_FOUR, CucOf, Seconds
<1>2. Fraction(CucOf(s, f)) = f
  BY ThreeBytes, SMT DEF TWENTY_FOUR, CucOf, Fraction
<1>3. s \div TWENTY_FOUR \in 0 .. 255
  BY SMT DEF TWENTY_FOUR, TWENTY_EIGHT
<1>4. \A n \in Nat : n % 256 \in 0 .. 255 /\ n \div 256 \in Nat /\ n \div 65536 \in Nat
  BY SMT DEF TWENTY_FOUR
<1> DEFINE b1 == s \div TWENTY_FOUR
           b2 == (s \div 65536) % 256
           b3 == (s \div 256) % 256
           b4 == s % 256
           b5 == (f \div 65536) % 256
           b6 == (f \div 256) % 256
           b7 == f % 256
<1>5. /\ b1 \in 0 .. 255 /\ b2 \in 0 .. 255 /\ b3 \in 0 .. 255 /\ b4 \in 0 .. 255
      /\ b5 \in 0 .. 255 /\ b6 \in 0 .. 255 /\ b7 \in 0 .. 255
  BY <1>3, <1>4, SMT DEF TWENTY_FOUR
<1>6. CucOf(s, f) = <<b1, b2, b3, b4, b5, b6, b7>>
  BY SMT DEF TWENTY_FOUR, CucOf
<1> HIDE DEF b1, b2, b3, b4, b5, b6, b7
<1>7. /\ CucOf(s, f) \in Seq(Int) /\ Len(CucOf(s, f)) = 7
      /\ \A k \in 1 .. 7 : CucOf(s, f)[k] \in 0 .. 255
  BY <1>5, <1>6, SMT DEF TWENTY_FOUR
<1> QED BY <1>1, <1>2, <1>7 DEF IsCuc

(* Digits as they are sent, in either case.                                *)
Letters(digits, upper) == [k \in DOMAIN digits |-> [digit |-> digits[k], upper |-> upper]]

(* p2sc_ascii2cuc (p2sc_time.c:86) undoes what warn_cuc prints.            *)
LEMMA DigitsAreRead ==
    ASSUME NEW c, IsCuc(c), NEW upper
    PROVE  p2sc_ascii2cuc(Letters(DigitsOf(c), upper)) = c
<1> DEFINE text == Letters(DigitsOf(c), upper)
<1>1. SIZEOF_CUC = 7 /\ 2 * SIZEOF_CUC = 14
  BY DEF SIZEOF_CUC
<1>2. DigitsOf(c) = [i \in 1 .. 14 |-> IF i % 2 = 1 THEN c[(i + 1) \div 2] \div 16
                                       ELSE c[i \div 2] % 16]
  BY <1>1 DEF DigitsOf
<1>3. DOMAIN text = 1 .. 14
  BY <1>2 DEF Letters
<1>4. ASSUME NEW i \in 1 .. 14
      PROVE  text[i] = [digit |-> DigitsOf(c)[i], upper |-> upper]
  BY <1>2 DEF Letters
<1>5. text \in Seq({[digit |-> DigitsOf(c)[i], upper |-> upper] : i \in 1 .. 14})
  <2>1. text \in [1 .. 14 -> {[digit |-> DigitsOf(c)[i], upper |-> upper] : i \in 1 .. 14}]
    BY <1>2 DEF Letters
  <2> QED BY <2>1, TableIsSeq
<1>6. Len(text) = 14
  BY <1>3, <1>5
<1>7. \A i \in DOMAIN text : IsHex(text[i])
  BY <1>3, <1>4 DEF IsHex
<1>8. ASSUME NEW k \in 1 .. 7
      PROVE  16 * text[2 * k - 1].digit + text[2 * k].digit = c[k]
  <2>1. 2 * k - 1 \in 1 .. 14 /\ 2 * k \in 1 .. 14
    OBVIOUS
  <2>2. (2 * k - 1) % 2 = 1 /\ (2 * k) % 2 # 1 /\ ((2 * k - 1) + 1) \div 2 = k /\ (2 * k) \div 2 = k
    OBVIOUS
  <2>3. DigitsOf(c)[2 * k - 1] = c[k] \div 16 /\ DigitsOf(c)[2 * k] = c[k] % 16
    BY <1>2, <2>1, <2>2
  <2>4. c[k] \in 0 .. 255
    BY DEF IsCuc
  <2>5. \A b \in 0 .. 255 : 16 * (b \div 16) + (b % 16) = b
    OBVIOUS
  <2>6. text[2 * k - 1].digit = c[k] \div 16 /\ text[2 * k].digit = c[k] % 16
    BY <1>4, <2>1, <2>3
  <2> HIDE DEF text
  <2> QED BY <2>4, <2>5, <2>6
<1> HIDE DEF text
<1>9. p2sc_ascii2cuc(text) = [k \in 1 .. 7 |-> 16 * text[2 * k - 1].digit + text[2 * k].digit]
  BY <1>1, <1>6, <1>7 DEF p2sc_ascii2cuc
<1>10. p2sc_ascii2cuc(text) = [k \in 1 .. 7 |-> c[k]]
  BY <1>8, <1>9
<1>11. c = [k \in 1 .. 7 |-> c[k]]
  BY DEF IsCuc
<1> QED BY <1>10, <1>11 DEF text

(* Reading a time of the round warns of it in its own digits, if at all.   *)
LEMMA WarningsOfRound ==
    ASSUME NEW s \in Nat, s < TWENTY_EIGHT, NEW f \in Nat
    PROVE  Warnings(s, f) = IF f % 1024 = 0 THEN <<>> ELSE <<DigitsOf(CucOf(s, f))>>
<1> DEFINE text == DigitsOf(CucOf(s, f))
           some == IF f % 1024 # 0 THEN <<text>> ELSE <<>>
<1>1. ~(s > TWENTY_EIGHT - 1)
  BY DEF TWENTY_EIGHT
<1>2. Warnings(s, f) = some \o <<>>
  BY <1>1 DEF Warnings
<1> HIDE DEF text
<1>3. some \in Seq({text})
  <2>1. CASE f % 1024 # 0
    BY <2>1
  <2>2. CASE f % 1024 = 0
    BY <2>2
  <2> QED BY <2>1, <2>2
<1>4. some \o <<>> = some
  BY <1>3, ConcatEmptySeq
<1> QED BY <1>2, <1>4 DEF text

(* The length of the round of the seconds.                                 *)
LEMMA Numbers28 == REFERENCE_OBET \in Nat /\ TWENTY_EIGHT \in Nat /\ TWENTY_FOUR \in Nat
BY SMT DEF REFERENCE_OBET, TWENTY_EIGHT, TWENTY_FOUR

(* Seconds of the shown counter lie in the round of the reference.         *)
LEMMA InRound ==
    ASSUME NEW a, a \in REFERENCE_OBET .. REFERENCE_OBET + TWENTY_EIGHT - 1,
           NEW b, b \in 0 .. TWENTY_FOUR - 1
    PROVE  OneRound(a) /\ b \in Nat /\ b < TWENTY_FOUR
BY Numbers28, SMT DEF OneRound

(* A time of Obets is whole seconds of the round and a fraction.           *)
LEMMA ObetIs ==
    ASSUME NEW t \in Obets
    PROVE  /\ OneRound(t[1]) /\ t[2] \in Nat /\ t[2] < TWENTY_FOUR
           /\ Shown(t[1]) \in Nat /\ Shown(t[1]) < TWENTY_EIGHT
           /\ \A p \in PassAt(t[1]) : Shown(t[1]) + Round(p, Shown(t[1])) = t[1]
<1>1. t \in (REFERENCE_OBET .. REFERENCE_OBET + TWENTY_EIGHT - 1) \X (0 .. TWENTY_FOUR - 1)
  BY ObetsAssumption
<1>2. t[1] \in REFERENCE_OBET .. REFERENCE_OBET + TWENTY_EIGHT - 1 /\ t[2] \in 0 .. TWENTY_FOUR - 1
  BY <1>1, InPair
<1>3. OneRound(t[1]) /\ t[2] \in Nat /\ t[2] < TWENTY_FOUR
  BY <1>2, InRound
<1>4. ASSUME NEW p \in PassAt(t[1])
      PROVE  p \in Int /\ (t[1] >= TWENTY_EIGHT => p > REFERENCE_PASS)
  <2>1. REFERENCE_PASS \in Int
    BY DEF REFERENCE_PASS
  <2>2. p = REFERENCE_PASS + 1 \/ (p = REFERENCE_PASS /\ ~(t[1] >= TWENTY_EIGHT))
    BY DEF PassAt
  <2> QED BY <2>1, <2>2
<1>5. Shown(t[1]) \in Nat /\ Shown(t[1]) < TWENTY_EIGHT
  BY <1>3 DEF Shown, OneRound, TWENTY_EIGHT
<1>6. \A p \in PassAt(t[1]) : Shown(t[1]) + Round(p, Shown(t[1])) = t[1]
  BY <1>3, <1>4, RoundRestored DEF Shown
<1> QED BY <1>3, <1>5, <1>6

(* What the reader of the bytes answers at a time of the round.            *)
Ticks(t) ==
    [ticks  |-> <<t[1], t[2] \div 1024>>,
     warned |-> IF t[2] % 1024 = 0 THEN <<>> ELSE <<DigitsOf(CucOf(Shown(t[1]), t[2]))>>]

(* What ReadClock answers is right.                                        *)
LEMMA ClockAnswers ==
    ASSUME NEW t \in Obets, NEW p \in PassAt(t[1]), NEW upper
    PROVE  p2sc_cuc2ticks(p2sc_ascii2cuc(
               Letters(DigitsOf(CucOf(Shown(t[1]), t[2])), upper)), p) = Ticks(t)
<1> DEFINE s == Shown(t[1])
           f == t[2]
           c == CucOf(s, f)
<1>1. s \in Nat /\ s < TWENTY_EIGHT /\ f \in Nat /\ f < TWENTY_FOUR /\ s + Round(p, s) = t[1]
  BY ObetIs
<1> HIDE DEF s, f
<1>2. Seconds(c) = s /\ Fraction(c) = f /\ IsCuc(c)
  BY <1>1, ShownBytes
<1>3. Warnings(s, f) = IF f % 1024 = 0 THEN <<>> ELSE <<DigitsOf(c)>>
  BY <1>1, WarningsOfRound
<1> HIDE DEF c
<1>4. p2sc_ascii2cuc(Letters(DigitsOf(c), upper)) = c
  BY <1>2, DigitsAreRead
<1>5. p2sc_cuc2ticks(c, p)
         = [ticks |-> <<t[1], f \div 1024>>,
            warned |-> IF f % 1024 = 0 THEN <<>> ELSE <<DigitsOf(c)>>]
  BY <1>1, <1>2, <1>3, Decoded
<1> QED BY <1>4, <1>5 DEF Ticks, c, s, f

(* What ReadGroundClock answers is right.                                  *)
LEMMA GroundAnswers ==
    ASSUME NEW t \in Obets, NEW p \in PassAt(t[1])
    PROVE  p2sc_gp1obt2ticks(Shown(t[1]), t[2] \div 1024, p) = <<t[1], t[2] \div 1024>>
<1>1. Shown(t[1]) + Round(p, Shown(t[1])) = t[1]
  BY ObetIs
<1> QED BY <1>1 DEF p2sc_gp1obt2ticks

(* A sequence without one of its items is one shorter.                     *)
LEMMA OneLess ==
    ASSUME NEW C, NEW s \in Seq(C), NEW k \in 1 .. Len(s)
    PROVE  Len(RemoveAt(s, k)) = Len(s) - 1
<1> DEFINE a == SubSeq(s, 1, k - 1)
           b == SubSeq(s, k + 1, Len(s))
<1>1. a \in Seq(C) /\ Len(a) = k - 1
  BY SubSeqProperties
<1>2. b \in Seq(C) /\ Len(b) = Len(s) - k
  BY SubSeqProperties
<1>3. RemoveAt(s, k) = a \o b
  BY DEF RemoveAt
<1> HIDE DEF a, b
<1>4. Len(a \o b) = Len(a) + Len(b)
  BY <1>1, <1>2, ConcatProperties
<1> QED BY <1>1, <1>2, <1>3, <1>4

(* Digits of which one is lost, or is none, are refused.                   *)
OneBad(k) == [i \in 1 .. 14 |-> IF i = k THEN OtherChar ELSE [digit |-> i, upper |-> FALSE]]

(* Digits one of which is none are read as nothing.                        *)
LEMMA BadDigits ==
    ASSUME NEW k \in 1 .. 14
    PROVE  p2sc_ascii2cuc(RemoveAt(OneBad(k), k)) = <<>> /\ p2sc_ascii2cuc(OneBad(k)) = <<>>
<1> DEFINE text == OneBad(k)
           C == {text[i] : i \in 1 .. 14}
<1>1. text \in [1 .. 14 -> C] /\ text[k] = OtherChar /\ DOMAIN text = 1 .. 14
  BY DEF OneBad
<1> HIDE DEF C, text
<1>2. text \in Seq(C) /\ Len(text) = 14
  BY <1>1, TableIsSeq
<1>3. Len(RemoveAt(text, k)) = 13
  <2>1. k \in 1 .. Len(text)
    BY <1>2
  <2>2. Len(RemoveAt(text, k)) = Len(text) - 1
    BY <1>2, <2>1, OneLess
  <2> QED BY <1>2, <2>2
<1>4. p2sc_ascii2cuc(RemoveAt(text, k)) = <<>>
  BY <1>3 DEF p2sc_ascii2cuc, SIZEOF_CUC
<1>5. ~IsHex(OtherChar)
  BY DEF IsHex, OtherChar
<1>6. \E i \in DOMAIN text : ~IsHex(text[i])
  BY <1>1, <1>5
<1>7. p2sc_ascii2cuc(text) = <<>>
  BY <1>6 DEF p2sc_ascii2cuc
<1> QED BY <1>4, <1>7 DEF text

---------------------------------------------------------------------------
(* The call that each action makes.                                        *)
LEMMA Calls ==
    ASSUME Next
    PROVE  \/ UNCHANGED vars
           \/ TakeMedian /\ op' = "median"
           \/ Sample /\ op' = "sample"
           \/ Fetch9 /\ op' = "fetch9"
           \/ Affine /\ op' = "affine"
           \/ Subsample /\ op' = "yuv"
           \/ WriteRead /\ op' = "pgm"
           \/ ReadForeign /\ op' = "foreign"
           \/ WriteProfile /\ op' = "icc"
           \/ ReadClock /\ op' = "obet"
           \/ ReadBadClock /\ op' = "badobet"
           \/ ReadGroundClock /\ op' = "gp1"
           \/ Stamp /\ op' = "stamp"
           \/ NameProduct /\ op' = "name"
           \/ Checksum16 /\ op' = "crc16"
           \/ Checksum32 /\ op' = "crc32"
           \/ Finalise /\ op' = "cksum"
           \/ WriteJp2 /\ op' = "jp2"
           \/ CountPackets /\ op' = "plt"
<1>1. ASSUME TakeMedian PROVE op' = "median"
  BY <1>1, SMT DEF TakeMedian, Call
<1>2. ASSUME Sample PROVE op' = "sample"
  BY <1>2, SMT DEF Sample, Call
<1>3. ASSUME Fetch9 PROVE op' = "fetch9"
  BY <1>3, SMT DEF Fetch9, Call
<1>4. ASSUME Affine PROVE op' = "affine"
  BY <1>4, SMT DEF Affine, Call
<1>5. ASSUME Subsample PROVE op' = "yuv"
  BY <1>5, SMT DEF Subsample, Call
<1>6. ASSUME WriteRead PROVE op' = "pgm"
  BY <1>6, SMT DEF WriteRead, Call
<1>7. ASSUME ReadForeign PROVE op' = "foreign"
  BY <1>7, SMT DEF ReadForeign, Call
<1>8. ASSUME WriteProfile PROVE op' = "icc"
  BY <1>8, SMT DEF WriteProfile, Call
<1>9. ASSUME ReadClock PROVE op' = "obet"
  BY <1>9, SMT DEF ReadClock, Call
<1>10. ASSUME ReadBadClock PROVE op' = "badobet"
  BY <1>10, SMT DEF ReadBadClock, Call
<1>11. ASSUME ReadGroundClock PROVE op' = "gp1"
  BY <1>11, SMT DEF ReadGroundClock, Call
<1>12. ASSUME Stamp PROVE op' = "stamp"
  BY <1>12, SMT DEF Stamp, Call
<1>13. ASSUME NameProduct PROVE op' = "name"
  BY <1>13, SMT DEF NameProduct, Call
<1>14. ASSUME Checksum16 PROVE op' = "crc16"
  BY <1>14, SMT DEF Checksum16, Call
<1>15. ASSUME Checksum32 PROVE op' = "crc32"
  BY <1>15, SMT DEF Checksum32, Call
<1>16. ASSUME Finalise PROVE op' = "cksum"
  BY <1>16, SMT DEF Finalise, Call
<1>17. ASSUME WriteJp2 PROVE op' = "jp2"
  BY <1>17, SMT DEF WriteJp2, Call
<1>18. ASSUME CountPackets PROVE op' = "plt"
  BY <1>18, SMT DEF CountPackets, Call
<1>19. ASSUME Answered PROVE UNCHANGED vars
  BY <1>19 DEF Answered
<1> QED BY <1>1, <1>2, <1>3, <1>4, <1>5, <1>6, <1>7, <1>8, <1>9, <1>10, <1>11, <1>12, <1>13, <1>14, <1>15, <1>16, <1>17, <1>18, <1>19 DEF Next

(* The clock is read right through the overflow of its counter, at every   *)
(* time of the round and for every pass, and nothing else is read as a     *)
(* time (p2sc_time.c:53).                                                  *)
THEOREM ClocksAlways == Spec => []TicksContinue
<1>1. Init => TicksContinue
  BY DEF Init, TicksContinue, None
<1>2. ASSUME TicksContinue, [Next]_vars PROVE TicksContinue'
  <2>1. CASE UNCHANGED vars
    BY <1>2, <2>1 DEF vars, TicksContinue
  <2>2. CASE ReadClock
    <3>1. PICK t \in Obets : \E p \in PassAt(t[1]), upper \in BOOLEAN :
             Call("obet", t, p2sc_cuc2ticks(p2sc_ascii2cuc(
                 Letters(DigitsOf(CucOf(Shown(t[1]), t[2])), upper)), p))
      BY <2>2 DEF ReadClock, Letters
    <3>2. op' = "obet" /\ arg' = t /\ answer' = Ticks(t)
      BY <3>1, ClockAnswers DEF Call
    <3> QED BY <3>2 DEF TicksContinue, Ticks
  <2>3. CASE ReadGroundClock
    <3>1. PICK t \in Obets : \E p \in PassAt(t[1]) :
             Call("gp1", t, p2sc_gp1obt2ticks(Shown(t[1]), t[2] \div 1024, p))
      BY <2>3 DEF ReadGroundClock
    <3>2. op' = "gp1" /\ arg' = t /\ answer' = <<t[1], t[2] \div 1024>>
      BY <3>1, GroundAnswers DEF Call
    <3> QED BY <3>2 DEF TicksContinue
  <2>4. CASE ReadBadClock
    <3>1. PICK k \in 1 .. 14, lost \in BOOLEAN :
             op' = "badobet" /\ answer' = p2sc_ascii2cuc(IF lost THEN RemoveAt(OneBad(k), k)
                                                         ELSE OneBad(k))
      <4>1. 2 * SIZEOF_CUC = 14
        BY DEF SIZEOF_CUC
      <4> QED BY <2>4, <4>1, Zenon DEF ReadBadClock, Call, OneBad
    <3>2. p2sc_ascii2cuc(RemoveAt(OneBad(k), k)) = <<>> /\ p2sc_ascii2cuc(OneBad(k)) = <<>>
      BY BadDigits
    <3>4. answer' = <<>>
      <4>1. CASE lost
        BY <3>1, <3>2, <4>1, Zenon
      <4>2. CASE ~lost
        BY <3>1, <3>2, <4>2, Zenon
      <4> QED BY <4>1, <4>2
    <3> QED BY <3>1, <3>4 DEF TicksContinue
  <2>5. CASE op' \notin {"obet", "gp1", "badobet"}
    BY <2>5 DEF TicksContinue
  <2> QED BY <1>2, <2>1, <2>2, <2>3, <2>4, <2>5, Calls
<1> QED BY <1>1, <1>2, PTL DEF Spec

---------------------------------------------------------------------------
(* The profile in its markers (IccProfile).                                *)

(* A marker as bytes and places in the profile.                            *)
Marker == [size : Int, number : Int, of : Int, from : Int, upto : Int]
Progress == [rem : Int, cur : Int, markers : Seq(Marker)]

(* One turn of the loop of jpeg_icc_write_profile (swap_file.c:205).       *)
Turn(p, len) == IF p.rem > 0 THEN OneMarker(p, len) ELSE p

NewMarker(p, len, length) ==
    [size |-> length + ICC_OVERHEAD_LEN, number |-> p.cur % 256,
     of   |-> NumMarkers(len) % 256,
     from |-> len - p.rem + 1, upto |-> len - p.rem + length]

(* The greatest of a range of two.                                         *)
LEMMA MaxIs == MAX_DATA_BYTES_IN_MARKER = 65519 /\ ICC_OVERHEAD_LEN = 14 /\ MAX_BYTES_IN_MARKER = 65533
BY SMT DEF MAX_DATA_BYTES_IN_MARKER, ICC_OVERHEAD_LEN, MAX_BYTES_IN_MARKER

(* The number of markers is a number.                                      *)
LEMMA NumMarkersType == ASSUME NEW len \in Nat PROVE NumMarkers(len) \in Nat
<1> DEFINE M == MAX_DATA_BYTES_IN_MARKER
<1>1. len \div M \in Nat /\ M \in Nat
  BY MaxIs, SMT
<1> HIDE DEF M
<1>2. len \div M + 1 \in Nat
  BY <1>1
<1> QED BY <1>1, <1>2 DEF NumMarkers, M

(* One turn of the loop cuts one marker off, or changes nothing.           *)
LEMMA TurnIs ==
    ASSUME NEW len \in Nat, NEW p \in Progress, p.rem > 0
    PROVE  \E length \in Nat :
              /\ length >= 1 /\ length <= MAX_DATA_BYTES_IN_MARKER /\ length <= p.rem
              /\ length = MAX_DATA_BYTES_IN_MARKER \/ length = p.rem
              /\ Turn(p, len) = [rem |-> p.rem - length, cur |-> p.cur + 1,
                                 markers |-> Append(p.markers, NewMarker(p, len, length))]
              /\ NewMarker(p, len, length) \in Marker
<1> DEFINE length == IF p.rem > MAX_DATA_BYTES_IN_MARKER THEN MAX_DATA_BYTES_IN_MARKER ELSE p.rem
<1>1. p.rem \in Int /\ p.cur \in Int
  BY DEF Progress
<1>2. /\ length \in Nat /\ length >= 1 /\ length <= MAX_DATA_BYTES_IN_MARKER /\ length <= p.rem
      /\ length = MAX_DATA_BYTES_IN_MARKER \/ length = p.rem
  BY <1>1, MaxIs, SMT
<1>3. length = IF p.rem > MAX_DATA_BYTES_IN_MARKER THEN MAX_DATA_BYTES_IN_MARKER ELSE p.rem
  OBVIOUS
<1> HIDE DEF length
<1>4. Turn(p, len) = [rem |-> p.rem - length, cur |-> p.cur + 1,
                      markers |-> Append(p.markers, NewMarker(p, len, length))]
  BY <1>3, SMT DEF Turn, OneMarker, NewMarker
<1>5. NewMarker(p, len, length) \in Marker
  <2>1. NumMarkers(len) % 256 \in Int /\ p.cur % 256 \in Int
    BY <1>1, NumMarkersType, SMT
  <2>2. length + ICC_OVERHEAD_LEN \in Int /\ len - p.rem + 1 \in Int /\ len - p.rem + length \in Int
    BY <1>1, <1>2, MaxIs, SMT
  <2> QED BY <2>1, <2>2 DEF NewMarker, Marker
<1> QED BY <1>2, <1>4, <1>5, Zenon

(* A turn keeps the types.                                                 *)
LEMMA TurnType ==
    ASSUME NEW len \in Nat, NEW p \in Progress
    PROVE  Turn(p, len) \in Progress
<1>1. CASE p.rem > 0
  <2>1. PICK length \in Nat :
           /\ Turn(p, len) = [rem |-> p.rem - length, cur |-> p.cur + 1,
                              markers |-> Append(p.markers, NewMarker(p, len, length))]
           /\ NewMarker(p, len, length) \in Marker
    BY <1>1, TurnIs, Zenon
  <2>2. p.rem - length \in Int /\ p.cur + 1 \in Int /\ p.markers \in Seq(Marker)
    BY DEF Progress
  <2>3. Append(p.markers, NewMarker(p, len, length)) \in Seq(Marker)
    BY <2>1, <2>2
  <2> QED BY <2>1, <2>2, <2>3 DEF Progress
<1>2. CASE ~(p.rem > 0)
  BY <1>2 DEF Turn
<1> QED BY <1>1, <1>2

NoMarker(len) == [rem |-> len, cur |-> 1, markers |-> <<>>]
LastTurn(len) == len \div MAX_DATA_BYTES_IN_MARKER + 1

(* The loop has a value at each turn.                                      *)
LEMMA TurnSteps ==
    ASSUME NEW len \in Nat
    PROVE  \E a : /\ a[0] = NoMarker(len)
                  /\ \A k \in 1 .. LastTurn(len) : a[k] = Turn(a[k - 1], len)
                  /\ jpeg_icc_write_profile(len) = a[LastTurn(len)].markers
<1> DEFINE n == LastTurn(len)
           f == [k \in 1 .. n |-> [p \in Progress |-> Turn(p, len)]]
<1>1. n \in Nat
  BY MaxIs, SMT DEF LastTurn
<1>2. NoMarker(len) \in Progress
  BY DEF NoMarker, Progress
<1> HIDE DEF n
<1>3. f \in [1 .. n -> [Progress -> Progress]]
  BY TurnType
<1>4. \A k \in 1 .. n : \A p \in Progress : f[k][p] = Turn(p, len)
  OBVIOUS
<1> HIDE DEF f
<1>5. PICK g \in [0 .. n -> Progress] : Steps(g, NoMarker(len), f, n)
  BY <1>1, <1>2, <1>3, StepsExist
<1>6. g = [k \in 0 .. n |-> IF k = 0 THEN NoMarker(len) ELSE Turn(g[k - 1], len)]
  <2>1. ASSUME NEW k \in 0 .. n
        PROVE  g[k] = IF k = 0 THEN NoMarker(len) ELSE Turn(g[k - 1], len)
    <3>1. CASE k = 0
      BY <1>5, <3>1 DEF Steps
    <3>2. CASE k # 0
      <4>1. k \in 1 .. n /\ k - 1 \in 0 .. n
        BY <1>1, <3>2
      <4>2. g[k - 1] \in Progress
        BY <1>5, <4>1
      <4>3. g[k] = f[k][g[k - 1]]
        BY <1>5, <4>1 DEF Steps
      <4> QED BY <1>4, <3>2, <4>1, <4>2, <4>3
    <3> QED BY <3>1, <3>2
  <2> QED BY <1>5, <2>1
<1> DEFINE a == CHOOSE a :
               a = [k \in 0 .. n |-> IF k = 0 THEN NoMarker(len) ELSE Turn(a[k - 1], len)]
<1>7. a = [k \in 0 .. n |-> IF k = 0 THEN NoMarker(len) ELSE Turn(a[k - 1], len)]
  BY <1>6
<1>8. jpeg_icc_write_profile(len) = a[n].markers
  <2>1. Len(Turns(len)) = n /\ \A k \in 1 .. n : Turns(len)[k] = k
    <3>1. Turns(len) = [k \in 1 .. n |-> k]
      BY DEF Turns, LastTurn, n
    <3>2. Turns(len) \in [1 .. n -> Nat]
      BY <1>1, <3>1
    <3> QED BY <1>1, <3>1, <3>2, TableIsSeq
  <2> QED BY <2>1 DEF jpeg_icc_write_profile, Loop, Turn, NoMarker
<1> HIDE DEF a
<1>9. a[0] = NoMarker(len)
  BY <1>1, <1>7
<1>10. ASSUME NEW k \in 1 .. n PROVE a[k] = Turn(a[k - 1], len)
  <2>1. k \in 0 .. n /\ k # 0
    BY <1>1
  <2>2. a[k] = IF k = 0 THEN NoMarker(len) ELSE Turn(a[k - 1], len)
    BY <1>7, <2>1, Zenon
  <2> QED BY <2>1, <2>2
<1> QED BY <1>8, <1>9, <1>10 DEF n

(* Markers follow each other without gap, and none is too long.            *)
InOrder(ms, len) ==
    \A k \in 1 .. Len(ms) :
        /\ ms[k].size <= MAX_BYTES_IN_MARKER
        /\ ms[k].number = k % 256 /\ ms[k].of = NumMarkers(len) % 256
        /\ ms[k].from = (IF k = 1 THEN 1 ELSE ms[k - 1].upto + 1)
        /\ ms[k].from <= ms[k].upto

(* What the markers hold after k turns; while bytes remain, they are full. *)
Cut(p, len, k) ==
    /\ p \in Progress
    /\ p.rem \in 0 .. len /\ p.cur = Len(p.markers) + 1
    /\ InOrder(p.markers, len)
    /\ Len(p.markers) = 0 => p.rem = len
    /\ Len(p.markers) # 0 => p.markers[Len(p.markers)].upto = len - p.rem
    /\ p.rem > 0 => /\ Len(p.markers) = k
                    /\ len - p.rem = k * MAX_DATA_BYTES_IN_MARKER
    /\ p.rem = 0 => /\ len <= Len(p.markers) * MAX_DATA_BYTES_IN_MARKER
                    /\ \/ Len(p.markers) = 0
                       \/ (Len(p.markers) - 1) * MAX_DATA_BYTES_IN_MARKER < len

(* A marker that joins on behind keeps the markers in order.               *)
LEMMA InOrderStep ==
    ASSUME NEW len \in Nat, NEW p \in Progress, NEW length \in Nat,
           InOrder(p.markers, len), p.cur = Len(p.markers) + 1,
           Len(p.markers) = 0 => p.rem = len,
           Len(p.markers) # 0 => p.markers[Len(p.markers)].upto = len - p.rem,
           length >= 1, length <= MAX_DATA_BYTES_IN_MARKER
    PROVE  InOrder(Append(p.markers, NewMarker(p, len, length)), len)
<1> DEFINE ms == p.markers
           m == NewMarker(p, len, length)
           ns == Append(ms, m)
           L == Len(ms)
<1>1. ms \in Seq(Marker) /\ p.rem \in Int /\ p.cur \in Int
  BY DEF Progress
<1>2. L \in Nat
  BY <1>1
<1>3. /\ m.size = length + ICC_OVERHEAD_LEN /\ m.number = p.cur % 256
      /\ m.of = NumMarkers(len) % 256
      /\ m.from = len - p.rem + 1 /\ m.upto = len - p.rem + length
  BY DEF NewMarker
<1>4. /\ m.size <= MAX_BYTES_IN_MARKER /\ m.from <= m.upto
  BY <1>1, <1>3, MaxIs, SMT
<1>5. m.number = (L + 1) % 256
  BY <1>3
<1>6. m.from = IF L + 1 = 1 THEN 1 ELSE ms[L].upto + 1
  <2>1. CASE L = 0
    BY <1>1, <1>3, <2>1
  <2>2. CASE L # 0
    <3>1. ms[L].upto = len - p.rem /\ L + 1 # 1
      BY <1>2, <2>2
    <3> QED BY <1>3, <3>1
  <2> QED BY <2>1, <2>2
<1>7. /\ Len(ns) = L + 1 /\ ns[L + 1] = m /\ \A k \in 1 .. L : ns[k] = ms[k]
  <2> HIDE DEF m
  <2>1. ns = Append(ms, m) /\ ms \in Seq(Marker)
    BY <1>1
  <2> HIDE DEF ns, ms
  <2>2. Len(Append(ms, m)) = Len(ms) + 1 /\ Append(ms, m)[Len(ms) + 1] = m
        /\ \A k \in 1 .. Len(ms) : Append(ms, m)[k] = ms[k]
    BY <2>1, AppendProperties
  <2> QED BY <2>1, <2>2
<1> HIDE DEF m, ns, L
<1>8. ASSUME NEW k \in 1 .. L + 1
      PROVE  /\ ns[k].size <= MAX_BYTES_IN_MARKER
             /\ ns[k].number = k % 256 /\ ns[k].of = NumMarkers(len) % 256
             /\ ns[k].from = (IF k = 1 THEN 1 ELSE ns[k - 1].upto + 1)
             /\ ns[k].from <= ns[k].upto
  <2>1. CASE k = L + 1
    <3>1. L + 1 # 1 => L \in 1 .. L /\ ns[(L + 1) - 1] = ms[L]
      <4>1. (L + 1) - 1 = L
        BY <1>2
      <4> QED BY <1>2, <1>7, <4>1
    <3>2. m.from = IF L + 1 = 1 THEN 1 ELSE ns[(L + 1) - 1].upto + 1
      BY <1>6, <3>1
    <3> QED BY <1>3, <1>4, <1>5, <1>7, <2>1, <3>2
  <2>2. CASE k # L + 1
    <3>1. k \in 1 .. L /\ (k # 1 => k - 1 \in 1 .. L)
      BY <1>2, <2>2
    <3>2. ns[k] = ms[k] /\ (k # 1 => ns[k - 1] = ms[k - 1])
      BY <1>7, <3>1
    <3>3. /\ ms[k].size <= MAX_BYTES_IN_MARKER
          /\ ms[k].number = k % 256 /\ ms[k].of = NumMarkers(len) % 256
          /\ ms[k].from = (IF k = 1 THEN 1 ELSE ms[k - 1].upto + 1)
          /\ ms[k].from <= ms[k].upto
      BY <3>1 DEF InOrder, L
    <3> QED BY <3>2, <3>3
  <2> QED BY <2>1, <2>2
<1>9. InOrder(ns, len)
  BY <1>7, <1>8 DEF InOrder
<1> QED BY <1>9 DEF ns, m

(* A turn keeps what is cut so far whole.                                  *)
LEMMA CutStep ==
    ASSUME NEW len \in Nat, NEW k \in Nat, NEW p, Cut(p, len, k)
    PROVE  Cut(Turn(p, len), len, k + 1)
<1>1. CASE p.rem > 0
  <2>1. /\ p \in Progress /\ p.rem \in 0 .. len /\ p.cur = Len(p.markers) + 1
        /\ InOrder(p.markers, len)
        /\ Len(p.markers) = 0 => p.rem = len
        /\ Len(p.markers) # 0 => p.markers[Len(p.markers)].upto = len - p.rem
        /\ Len(p.markers) = k /\ len - p.rem = k * MAX_DATA_BYTES_IN_MARKER
    BY <1>1 DEF Cut
  <2>2. PICK length \in Nat :
              /\ length >= 1 /\ length <= MAX_DATA_BYTES_IN_MARKER /\ length <= p.rem
              /\ length = MAX_DATA_BYTES_IN_MARKER \/ length = p.rem
              /\ Turn(p, len) = [rem |-> p.rem - length, cur |-> p.cur + 1,
                                 markers |-> Append(p.markers, NewMarker(p, len, length))]
              /\ NewMarker(p, len, length) \in Marker
    BY <1>1, <2>1, TurnIs, Zenon
  <2> DEFINE q == Turn(p, len)
             m == NewMarker(p, len, length)
  <2>3. /\ q.rem = p.rem - length /\ q.cur = p.cur + 1 /\ q.markers = Append(p.markers, m)
    BY <2>2
  <2>4. q \in Progress
    BY <2>1, TurnType
  <2>5. p.markers \in Seq(Marker) /\ p.cur \in Int
    BY <2>1 DEF Progress
  <2>6. m.upto = len - p.rem + length
    BY DEF NewMarker
  <2>7. InOrder(Append(p.markers, m), len)
    BY <2>1, <2>2, InOrderStep
  <2> HIDE DEF q, m
  <2>8. Len(q.markers) = k + 1 /\ q.markers[k + 1] = m
    BY <2>1, <2>3, <2>5, AppendProperties
  <2>9. q.rem \in 0 .. len /\ q.cur = Len(q.markers) + 1
    BY <2>1, <2>2, <2>3, <2>8
  <2>10. q.markers[Len(q.markers)].upto = len - q.rem /\ Len(q.markers) # 0
    BY <2>1, <2>2, <2>3, <2>6, <2>8
  <2>11. q.rem > 0 => len - q.rem = (k + 1) * MAX_DATA_BYTES_IN_MARKER
    BY <2>1, <2>2, <2>3, MaxIs, SMT
  <2>12. q.rem = 0 => /\ len <= (k + 1) * MAX_DATA_BYTES_IN_MARKER
                      /\ ((k + 1) - 1) * MAX_DATA_BYTES_IN_MARKER < len
    BY <2>1, <2>2, <2>3, MaxIs, SMT
  <2>13. Cut(q, len, k + 1)
    <3>1. InOrder(q.markers, len)
      BY <2>3, <2>7
    <3> QED BY <2>4, <2>8, <2>9, <2>10, <2>11, <2>12, <3>1 DEF Cut
  <2> QED BY <2>13 DEF q
<1>2. CASE ~(p.rem > 0)
  <2>1. Turn(p, len) = p
    BY <1>2 DEF Turn
  <2> QED BY <1>2, <2>1 DEF Cut
<1> QED BY <1>1, <1>2

(* Before the first turn nothing is cut.                                   *)
LEMMA CutStart ==
    ASSUME NEW len \in Nat
    PROVE  Cut(NoMarker(len), len, 0)
<1> DEFINE p == NoMarker(len)
<1>1. p.rem = len /\ p.cur = 1 /\ p.markers = <<>> /\ p \in Progress
  BY DEF NoMarker, Progress
<1>2. Len(p.markers) = 0
  BY <1>1
<1>3. InOrder(p.markers, len)
  BY <1>2 DEF InOrder
<1> HIDE DEF p
<1>4. len <= 0 * MAX_DATA_BYTES_IN_MARKER \/ len > 0
  BY MaxIs, SMT
<1>5. len - p.rem = 0 * MAX_DATA_BYTES_IN_MARKER
  BY <1>1, MaxIs, SMT
<1>6. Cut(p, len, 0)
  BY <1>1, <1>2, <1>3, <1>4, <1>5 DEF Cut
<1> QED BY <1>6 DEF p

(* A profile of at most 255 markers is cut as ProfileWhole says.           *)
CutWell(len, ms) ==
    /\ \A k \in DOMAIN ms :
          /\ ms[k].size <= MAX_BYTES_IN_MARKER
          /\ ms[k].number = k /\ ms[k].of = Len(ms)
          /\ ms[k].from = (IF k = 1 THEN 1 ELSE ms[k - 1].upto + 1)
          /\ ms[k].from <= ms[k].upto
    /\ IF len = 0 THEN ms = <<>> ELSE ms[Len(ms)].upto = len

(* The number of markers is the length divided by their room, rounded up.  *)
LEMMA NumMarkersIs ==
    ASSUME NEW len \in Nat, NEW L \in Nat, len <= L * MAX_DATA_BYTES_IN_MARKER,
           L = 0 \/ (L - 1) * MAX_DATA_BYTES_IN_MARKER < len
    PROVE  NumMarkers(len) = L
<1>0. len <= L * 65519 /\ (L = 0 \/ (L - 1) * 65519 < len)
  BY MaxIs, SMT
<1>1. NumMarkers(len) = IF (len \div 65519) * 65519 # len THEN len \div 65519 + 1
                        ELSE len \div 65519
  BY MaxIs, SMT DEF NumMarkers
<1> DEFINE q == len \div 65519
<1>2. q \in Nat /\ q * 65519 <= len /\ len < q * 65519 + 65519
  BY SMT
<1> HIDE DEF q
<1>3. CASE q * 65519 = len
  <2>1. L = q
    BY <1>0, <1>2, <1>3, SMT
  <2> QED BY <1>1, <1>3, <2>1, SMT DEF q
<1>4. CASE q * 65519 # len
  <2>1. L = q + 1
    BY <1>0, <1>2, <1>4, SMT
  <2> QED BY <1>1, <1>4, <2>1, SMT DEF q
<1> QED BY <1>3, <1>4, SMT

(* The markers of a profile are numbered in order and hold each of its     *)
(* bytes once, for a profile of any length (jpeg_icc_write_profile,        *)
(* swap_file.c:183-243).                                                   *)
THEOREM ProfileIsCut ==
    ASSUME NEW len \in Nat, len <= 255 * MAX_DATA_BYTES_IN_MARKER
    PROVE  CutWell(len, jpeg_icc_write_profile(len))
<1> DEFINE n == LastTurn(len)
<1>1. PICK a : /\ a[0] = NoMarker(len)
               /\ \A k \in 1 .. n : a[k] = Turn(a[k - 1], len)
               /\ jpeg_icc_write_profile(len) = a[n].markers
  BY TurnSteps
<1>2. n \in Nat /\ n * MAX_DATA_BYTES_IN_MARKER > len
  BY MaxIs, SMT DEF LastTurn
<1> HIDE DEF n
<1> DEFINE D == {k \in 0 .. n : Cut(a[k], len, k)}
<1>3. 0 \in D
  BY <1>1, <1>2, CutStart
<1>4. ASSUME NEW k \in 0 .. n - 1, k \in D PROVE k + 1 \in D
  <2>1. k \in Nat /\ k + 1 \in 1 .. n /\ (k + 1) - 1 = k /\ k + 1 \in 0 .. n /\ Cut(a[k], len, k)
    BY <1>2, <1>4
  <2>2. a[k + 1] = Turn(a[k], len)
    BY <1>1, <2>1
  <2>3. Cut(Turn(a[k], len), len, k + 1)
    BY <2>1, CutStep
  <2> QED BY <2>1, <2>2, <2>3
<1> HIDE DEF D
<1>5. \A k \in 0 .. n : k \in D
  BY <1>2, <1>3, <1>4, UpTo
<1> DEFINE p == a[n]
           ms == p.markers
<1>6. Cut(p, len, n)
  BY <1>2, <1>5 DEF D
<1> HIDE DEF p
<1>7. p \in Progress /\ p.rem \in 0 .. len /\ InOrder(ms, len)
  BY <1>6 DEF Cut
<1>8. ms \in Seq(Marker) /\ Len(ms) \in Nat /\ DOMAIN ms = 1 .. Len(ms)
  BY <1>7 DEF Progress
<1>9. p.rem = 0
  <2>1. p.rem > 0 => len - p.rem = n * MAX_DATA_BYTES_IN_MARKER
    BY <1>6 DEF Cut
  <2> QED BY <1>2, <1>7, <2>1, MaxIs, SMT
<1>10. /\ len <= Len(ms) * MAX_DATA_BYTES_IN_MARKER
       /\ Len(ms) = 0 \/ (Len(ms) - 1) * MAX_DATA_BYTES_IN_MARKER < len
       /\ Len(ms) = 0 => len = 0
       /\ Len(ms) # 0 => ms[Len(ms)].upto = len
  <2>1. /\ len <= Len(ms) * MAX_DATA_BYTES_IN_MARKER
        /\ Len(ms) = 0 \/ (Len(ms) - 1) * MAX_DATA_BYTES_IN_MARKER < len
    BY <1>6, <1>9 DEF Cut
  <2>2. /\ Len(ms) = 0 => p.rem = len
        /\ Len(ms) # 0 => ms[Len(ms)].upto = len - p.rem
    BY <1>6 DEF Cut
  <2> HIDE DEF ms
  <2> QED BY <1>9, <2>1, <2>2
<1> HIDE DEF ms
<1>11. Len(ms) <= 255 /\ (len = 0 => Len(ms) = 0)
  BY <1>8, <1>10, MaxIs, SMT
<1>12. NumMarkers(len) = Len(ms)
  BY <1>8, <1>10, NumMarkersIs, Zenon
<1>13. ASSUME NEW k \in 1 .. Len(ms)
       PROVE  k % 256 = k /\ Len(ms) % 256 = Len(ms)
  <2>1. \A b \in Nat : b <= 255 => b % 256 = b
    OBVIOUS
  <2>2. k \in Nat /\ k <= 255
    BY <1>8, <1>11
  <2> QED BY <1>8, <1>11, <2>1, <2>2, Zenon
<1>14. len = 0 => ms = <<>>
  <2>1. Len(ms) = 0 => ms = <<>>
    BY <1>8, EmptySeq
  <2> QED BY <1>11, <2>1
<1>15. len # 0 => ms[Len(ms)].upto = len
  BY <1>10
<1>16. CutWell(len, ms)
  <2>1. ASSUME NEW k \in DOMAIN ms
        PROVE  /\ ms[k].size <= MAX_BYTES_IN_MARKER
               /\ ms[k].number = k /\ ms[k].of = Len(ms)
               /\ ms[k].from = (IF k = 1 THEN 1 ELSE ms[k - 1].upto + 1)
               /\ ms[k].from <= ms[k].upto
    <3>1. k \in 1 .. Len(ms)
      BY <1>8
    <3>2. /\ ms[k].size <= MAX_BYTES_IN_MARKER
          /\ ms[k].number = k % 256 /\ ms[k].of = NumMarkers(len) % 256
          /\ ms[k].from = (IF k = 1 THEN 1 ELSE ms[k - 1].upto + 1)
          /\ ms[k].from <= ms[k].upto
      BY <1>7, <3>1 DEF InOrder
    <3>3. k % 256 = k /\ Len(ms) % 256 = Len(ms)
      BY <1>13, <3>1
    <3> QED BY <1>12, <3>2, <3>3
  <2> QED BY <1>14, <1>15, <2>1 DEF CutWell
<1> QED BY <1>1, <1>16 DEF ms, p

(* ProfileWhole for every length that 255 markers can hold.                *)
THEOREM ProfilesAlways == Spec => []ProfileWhole
<1>1. Init => ProfileWhole
  BY DEF Init, ProfileWhole, None
<1>2. ASSUME ProfileWhole, [Next]_vars PROVE ProfileWhole'
  <2>1. CASE UNCHANGED vars
    BY <1>2, <2>1 DEF vars, ProfileWhole
  <2>2. CASE WriteProfile
    <3>1. PICK len \in Lengths : Call("icc", len, jpeg_icc_write_profile(len))
      BY <2>2 DEF WriteProfile
    <3>2. arg' = len /\ answer' = jpeg_icc_write_profile(len)
      BY <3>1 DEF Call
    <3>3. len \in Nat /\ len <= 255 * MAX_DATA_BYTES_IN_MARKER
      <4>1. len \in 0 .. 255 * MAX_DATA_BYTES_IN_MARKER
        BY LengthsAssumption
      <4>2. 255 * MAX_DATA_BYTES_IN_MARKER \in Nat
        BY MaxIs, SMT
      <4> QED BY <4>1, <4>2
    <3>4. CutWell(arg', answer')
      BY <3>2, <3>3, ProfileIsCut
    <3> QED BY <3>4 DEF ProfileWhole, CutWell
  <2>3. CASE op' # "icc"
    BY <2>3 DEF ProfileWhole
  <2> QED BY <1>2, <2>1, <2>2, <2>3, Calls
<1> QED BY <1>1, <1>2, PTL DEF Spec

---------------------------------------------------------------------------
(* Places in a rectangle of rows.                                          *)

(* Sums times a number.                                                    *)
LEMMA Distributes == \A a, b, c \in Int : (a + b) * c = a * c + b * c
OBVIOUS

(* Products of numbers grow with the first factor.                         *)
LEMMA Grows ==
    ASSUME NEW a \in Nat, NEW b \in Nat, NEW c \in Nat, a <= b
    PROVE  a * c \in Nat /\ b * c \in Nat /\ a * c <= b * c
<1>1. PICK d \in Nat : b = a + d
  <2>1. b - a \in Nat /\ b = a + (b - a)
    OBVIOUS
  <2> QED BY <2>1
<1>2. b * c = a * c + d * c
  BY <1>1, Distributes
<1>3. a * c \in Nat /\ d * c \in Nat
  OBVIOUS
<1> QED BY <1>2, <1>3

(* A row and a place in it give a place in the rectangle.                  *)
LEMMA InRectangle ==
    ASSUME NEW w \in Nat, NEW h \in Nat, NEW x \in 0 .. w - 1, NEW y \in 0 .. h - 1
    PROVE  y * w + x \in 0 .. w * h - 1
<1>1. (y + 1) * w <= h * w
  BY Grows
<1>2. (y + 1) * w = y * w + w
  BY Distributes
<1>3. y * w \in Nat /\ h * w = w * h
  OBVIOUS
<1>4. w * h \in Nat
  OBVIOUS
<1> QED BY <1>1, <1>2, <1>3, <1>4

(* No two give the same one.                                               *)
LEMMA OnePlace ==
    ASSUME NEW w \in Nat, NEW x \in 0 .. w - 1, NEW u \in 0 .. w - 1,
           NEW y \in Nat, NEW v \in Nat, y * w + x = v * w + u
    PROVE  x = u /\ y = v
<1>1. ~(y < v)
  <2> SUFFICES ASSUME y + 1 <= v PROVE FALSE
    OBVIOUS
  <2>1. (y + 1) * w <= v * w /\ (y + 1) * w = y * w + w
    BY Grows, Distributes
  <2>2. y * w \in Nat /\ v * w \in Nat
    OBVIOUS
  <2> QED BY <2>1, <2>2
<1>2. ~(v < y)
  <2> SUFFICES ASSUME v + 1 <= y PROVE FALSE
    OBVIOUS
  <2>1. (v + 1) * w <= y * w /\ (v + 1) * w = v * w + w
    BY Grows, Distributes
  <2>2. y * w \in Nat /\ v * w \in Nat
    OBVIOUS
  <2> QED BY <2>1, <2>2
<1>3. y = v
  BY <1>1, <1>2
<1>4. y * w \in Int
  OBVIOUS
<1> QED BY <1>3, <1>4

---------------------------------------------------------------------------
(* The neighbourhood.                                                      *)

(* The pixel at (x, y), and nothing outside the image.                     *)
PixelAt(w, h, x, y) == IF x \in 0 .. w - 1 /\ y \in 0 .. h - 1 THEN y * w + x + 1 ELSE Zero

(* The pixel so many columns and rows from that above and left of (i, j),  *)
(* and the cell that far from it in memory.                                *)
Near(w, h, i, j, dx, dy) == PixelAt(w, h, i - 1 + dx, j - 1 + dy)
Copied(w, h, i, j, dx, dy) == CellOf(w, h, (j - 1) * w + (i - 1) + dy * w + dx)

(* A neighbour that the code fetches is a pixel near the place.            *)
LEMMA FetchIsPixel ==
    ASSUME NEW w \in Nat, NEW h \in Nat, NEW x \in Int, NEW y \in Int
    PROVE  fetch(w, h, x, y) = PixelAt(w, h, x, y)
<1>1. CASE x \in 0 .. w - 1 /\ y \in 0 .. h - 1
  <2>1. y * w + x \in 0 .. w * h - 1
    BY <1>1, InRectangle
  <2>2. CellOf(w, h, y * w + x) = y * w + x + 1
    BY <2>1 DEF CellOf
  <2>3. fetch(w, h, x, y) = CellOf(w, h, y * w + x)
    BY <1>1 DEF fetch
  <2> QED BY <1>1, <2>2, <2>3 DEF PixelAt
<1>2. CASE ~(x \in 0 .. w - 1 /\ y \in 0 .. h - 1)
  BY <1>2 DEF fetch, PixelAt
<1> QED BY <1>1, <1>2

(* A row that is copied from an interior place has the pixels that a look  *)
(* at each of them gives.                                                  *)
LEMMA CopyIsPixel ==
    ASSUME NEW w \in Nat, NEW h \in Nat, NEW i \in Int, NEW j \in Int,
           NEW dx \in Nat, NEW dy \in Nat,
           i > 0, j > 0, i + dx <= w, j + dy <= h
    PROVE  Copied(w, h, i, j, dx, dy) = Near(w, h, i, j, dx, dy)
<1>1. i - 1 + dx \in 0 .. w - 1 /\ j - 1 + dy \in 0 .. h - 1
  OBVIOUS
<1>2. (j - 1 + dy) * w + (i - 1 + dx) \in 0 .. w * h - 1
  BY <1>1, InRectangle
<1>3. (j - 1 + dy) * w = (j - 1) * w + dy * w
  BY Distributes
<1>4. (j - 1) * w \in Int /\ dy * w \in Int
  OBVIOUS
<1>5. (j - 1) * w + (i - 1) + dy * w + dx = (j - 1 + dy) * w + (i - 1 + dx)
  BY <1>3, <1>4
<1> QED BY <1>1, <1>2, <1>5 DEF CellOf, PixelAt, Copied, Near

(* The four rows that are copied inside the image, and the pixels that are *)
(* looked at one by one at its border, are the pixels around the place, for *)
(* images of any size and any place in them or outside (swap_math.c:26).   *)
THEOREM FetchIsAround ==
    ASSUME NEW w \in Nat, NEW h \in Nat, NEW i \in Int, NEW j \in Int
    PROVE  fetch16(w, h, i, j) = Around(w, h, i, j, 4, 1)
<1>1. 4 * 4 = 16
  OBVIOUS
<1>2. Around(w, h, i, j, 4, 1)
         = [k \in 1 .. 16 |-> Near(w, h, i, j, (k - 1) % 4, (k - 1) \div 4)]
  BY <1>1 DEF Around, PixelAt, Near
<1>3. \A k \in 1 .. 16 : (k - 1) % 4 \in 0 .. 3 /\ (k - 1) \div 4 \in 0 .. 3
  OBVIOUS
<1>4. CASE Interior(w, h, i, j)
  <2>1. ASSUME NEW k \in 1 .. 16
        PROVE  Copied(w, h, i, j, (k - 1) % 4, (k - 1) \div 4)
                  = Near(w, h, i, j, (k - 1) % 4, (k - 1) \div 4)
    <3>1. i > 0 /\ i < w - 2 /\ j > 0 /\ j < h - 2
      BY <1>4 DEF Interior
    <3>2. \A dx, dy \in 0 .. 3 :
             Copied(w, h, i, j, dx, dy) = Near(w, h, i, j, dx, dy)
      <4> TAKE dx, dy \in 0 .. 3
      <4>1. dx \in Nat /\ dy \in Nat /\ i + dx <= w /\ j + dy <= h
        BY <3>1
      <4> QED BY <3>1, <4>1, CopyIsPixel
    <3> QED BY <1>3, <3>2
  <2> QED BY <1>2, <1>4, <2>1 DEF fetch16, Copied
<1>5. CASE ~Interior(w, h, i, j)
  <2>1. ASSUME NEW k \in 1 .. 16
        PROVE  fetch(w, h, i - 1 + ((k - 1) % 4), j - 1 + (k - 1) \div 4)
                  = Near(w, h, i, j, (k - 1) % 4, (k - 1) \div 4)
    <3>1. i - 1 + ((k - 1) % 4) \in Int /\ j - 1 + (k - 1) \div 4 \in Int
      BY <1>3
    <3> QED BY <3>1, FetchIsPixel DEF Near
  <2> QED BY <1>2, <1>5, <2>1 DEF fetch16
<1> QED BY <1>4, <1>5

(* The same for the three rows of swap_fetch9 (swap_math.c:59).            *)
THEOREM Fetch9IsAround ==
    ASSUME NEW w \in Nat, NEW h \in Nat, NEW i \in Int, NEW j \in Int
    PROVE  swap_fetch9(w, h, i, j) = Around(w, h, i, j, 3, 1)
<1>1. 3 * 3 = 9
  OBVIOUS
<1>2. Around(w, h, i, j, 3, 1)
         = [k \in 1 .. 9 |-> Near(w, h, i, j, (k - 1) % 3, (k - 1) \div 3)]
  BY <1>1 DEF Around, PixelAt, Near
<1>3. \A k \in 1 .. 9 : (k - 1) % 3 \in 0 .. 2 /\ (k - 1) \div 3 \in 0 .. 2
  OBVIOUS
<1> DEFINE Inside == i > 0 /\ i < w - 1 /\ j > 0 /\ j < h - 1
<1>4. CASE Inside
  <2>1. ASSUME NEW k \in 1 .. 9
        PROVE  Copied(w, h, i, j, (k - 1) % 3, (k - 1) \div 3)
                  = Near(w, h, i, j, (k - 1) % 3, (k - 1) \div 3)
    <3>1. \A dx, dy \in 0 .. 2 :
             Copied(w, h, i, j, dx, dy) = Near(w, h, i, j, dx, dy)
      <4> TAKE dx, dy \in 0 .. 2
      <4>1. dx \in Nat /\ dy \in Nat /\ i + dx <= w /\ j + dy <= h
        BY <1>4
      <4> QED BY <1>4, <4>1, CopyIsPixel
    <3> QED BY <1>3, <3>1
  <2> QED BY <1>2, <1>4, <2>1 DEF swap_fetch9, Copied
<1>5. CASE ~Inside
  <2>1. ASSUME NEW k \in 1 .. 9
        PROVE  fetch(w, h, i - 1 + ((k - 1) % 3), j - 1 + (k - 1) \div 3)
                  = Near(w, h, i, j, (k - 1) % 3, (k - 1) \div 3)
    <3>1. i - 1 + ((k - 1) % 3) \in Int /\ j - 1 + (k - 1) \div 3 \in Int
      BY <1>3
    <3> QED BY <3>1, FetchIsPixel DEF Near
  <2> QED BY <1>2, <1>5, <2>1 DEF swap_fetch9
<1> QED BY <1>4, <1>5

---------------------------------------------------------------------------
(* A filter through a walk of samples, one after the other, of any length. *)

NewPlace == <<-1, 0>>

(* Half coordinates are those of pixels.                                   *)
LEMMA HalfType == Half \in Nat /\ Half > 1
BY DEF Half

(* A place of the image, and its parts.                                    *)
LEMMA InPlaces ==
    ASSUME NEW p \in Places
    PROVE  /\ p[1] \in -Half .. Half - 1 /\ p[2] \in 1 - Half .. Half - 1
           /\ p[1] \in Int /\ p[2] \in Int /\ p = <<p[1], p[2]>>
BY HalfType DEF Places

(* The pixel under half a coordinate.                                      *)
LEMMA HalfIs == Half = 32768
BY DEF Half

(* The two parts of a product of sixteen bits and a smaller number.        *)
LEMMA TwoParts ==
    ASSUME NEW i \in Int, NEW j \in Int, NEW k \in Int, NEW l \in Int,
           -32768 <= i, i < 32768, -32768 <= k, k < 32768,
           j * 65536 + i = l * 65536 + k
    PROVE  i = k /\ j = l
<1>1. j = l
  OBVIOUS
<1> QED BY <1>1

(* Places with other pixels have other keys.                               *)
LEMMA KeyDiffers ==
    ASSUME NEW i \in Int, NEW j \in Int, NEW k \in Int, NEW l \in Int,
           -Half <= i, i < Half, -Half <= k, k < Half, Key(i, j) = Key(k, l)
    PROVE  i = k /\ j = l
<1>1. j * 65536 + i = l * 65536 + k
  BY DEF Key
<1>2. -32768 <= i /\ i < 32768 /\ -32768 <= k /\ k < 32768
  BY HalfIs
<1> QED BY <1>1, <1>2, TwoParts

(* The same, for the keys of two places.                                   *)
LEMMA KeysDiffer ==
    ASSUME NEW p \in Places, NEW q \in Places, Key(p[1], p[2]) = Key(q[1], q[2])
    PROVE  p = q
<1>1. /\ p[1] \in Int /\ p[2] \in Int /\ -Half <= p[1] /\ p[1] < Half
      /\ q[1] \in Int /\ q[2] \in Int /\ -Half <= q[1] /\ q[1] < Half
  BY InPlaces, HalfType
<1>2. p[1] = q[1] /\ p[2] = q[2]
  BY <1>1, KeyDiffers
<1> QED BY <1>2, InPlaces

(* The place of the filter after k samples, and whether one of them was    *)
(* elsewhere than at the place of the key of a new filter.                 *)
PlaceAt(s, k) == IF k = 0 THEN NewPlace ELSE s[k]
Fetched(s, k) == \E m \in 1 .. k : s[m] # NewPlace

(* What the filter keeps belongs to its key, and its key to one place.     *)
Kept16(f, w, h, s, k) ==
    /\ f.idx = Key(PlaceAt(s, k)[1], PlaceAt(s, k)[2])
    /\ Fetched(s, k) => f.n = Around(w, h, PlaceAt(s, k)[1], PlaceAt(s, k)[2], 4, 1)

Filter == [idx : Int, n : [1 .. 16 -> Int]]

(* The neighbourhood is of the type of the cache.                          *)
LEMMA AroundType ==
    ASSUME NEW w \in Nat, NEW h \in Nat, NEW i \in Int, NEW j \in Int
    PROVE  Around(w, h, i, j, 4, 1) \in [1 .. 16 -> Int]
<1>1. 4 * 4 = 16
  OBVIOUS
<1>2. Around(w, h, i, j, 4, 1)
         = [k \in 1 .. 16 |-> Near(w, h, i, j, (k - 1) % 4, (k - 1) \div 4)]
  BY <1>1 DEF Around, PixelAt, Near
<1>3. ASSUME NEW dx \in Int, NEW dy \in Int PROVE Near(w, h, i, j, dx, dy) \in Int
  <2>1. ASSUME NEW x \in Int, NEW y \in Int PROVE PixelAt(w, h, x, y) \in Int
    <3>1. y * w + x + 1 \in Int
      OBVIOUS
    <3> QED BY <3>1 DEF PixelAt, Zero
  <2> QED BY <2>1 DEF Near
<1>4. \A k \in 1 .. 16 : (k - 1) % 4 \in Int /\ (k - 1) \div 4 \in Int
  OBVIOUS
<1> QED BY <1>2, <1>3, <1>4

(* The neighbourhood that is fetched is of the type of the cache.          *)
LEMMA FetchType ==
    ASSUME NEW w \in Nat, NEW h \in Nat, NEW i \in Int, NEW j \in Int
    PROVE  fetch16(w, h, i, j) \in [1 .. 16 -> Int]
<1>1. fetch16(w, h, i, j) = Around(w, h, i, j, 4, 1)
  BY FetchIsAround
<1>2. Around(w, h, i, j, 4, 1) \in [1 .. 16 -> Int]
  BY AroundType
<1> QED BY <1>1, <1>2, Zenon

(* A filter that has sampled is a filter.                                  *)
LEMMA FilterType ==
    ASSUME NEW w \in Nat, NEW h \in Nat, NEW f \in Filter, NEW p \in Places
    PROVE  swap_bicubic(f, w, h, p[1], p[2]) \in Filter
<1>1. p[1] \in Int /\ p[2] \in Int
  BY InPlaces
<1>2. Key(p[1], p[2]) \in Int
  BY <1>1, SMT DEF Key
<1>3. fetch16(w, h, p[1], p[2]) \in [1 .. 16 -> Int]
  BY <1>1, FetchType
<1> QED BY <1>2, <1>3 DEF swap_bicubic, Filter

(* A new filter is a filter.                                               *)
LEMMA NewFilterType == NewFilter \in Filter
BY DEF NewFilter, Filter, NoValue

Filters == {fs \in Seq(Filter) : Len(fs) >= 1}

OneSample(fs, w, h, p) == Append(fs, swap_bicubic(fs[Len(fs)], w, h, p[1], p[2]))

(* What a sample does to the filter.                                       *)
LEMMA OneSampleIs ==
    ASSUME NEW w \in Nat, NEW h \in Nat, NEW fs \in Filters, NEW p \in Places
    PROVE  /\ OneSample(fs, w, h, p) \in Filters
           /\ Len(OneSample(fs, w, h, p)) = Len(fs) + 1
           /\ OneSample(fs, w, h, p)[Len(fs) + 1]
                 = swap_bicubic(fs[Len(fs)], w, h, p[1], p[2])
           /\ \A k \in 1 .. Len(fs) : OneSample(fs, w, h, p)[k] = fs[k]
<1> DEFINE f == swap_bicubic(fs[Len(fs)], w, h, p[1], p[2])
<1>1. fs \in Seq(Filter) /\ Len(fs) \in Nat /\ Len(fs) >= 1
  BY DEF Filters
<1>2. fs[Len(fs)] \in Filter
  BY <1>1
<1>3. f \in Filter
  BY <1>2, FilterType
<1> HIDE DEF f
<1>4. OneSample(fs, w, h, p) = Append(fs, f)
  BY DEF OneSample, f
<1>5. /\ Append(fs, f) \in Seq(Filter) /\ Len(Append(fs, f)) = Len(fs) + 1
      /\ Append(fs, f)[Len(fs) + 1] = f /\ \A k \in 1 .. Len(fs) : Append(fs, f)[k] = fs[k]
  BY <1>1, <1>3, AppendProperties
<1>6. Append(fs, f) \in Filters
  BY <1>1, <1>5 DEF Filters
<1> QED BY <1>4, <1>5, <1>6 DEF f

(* The loop over the samples has a value after each of them.               *)
LEMMA SampleSteps ==
    ASSUME NEW w \in Nat, NEW h \in Nat, NEW s \in Seq(Places)
    PROVE  \E a : /\ a[0] = <<NewFilter>>
                  /\ \A k \in 1 .. Len(s) : a[k] = OneSample(a[k - 1], w, h, s[k])
                  /\ Sampled(w, h, s) = a[Len(s)]
<1> DEFINE n == Len(s)
           f == [k \in 1 .. n |-> [fs \in Filters |-> OneSample(fs, w, h, s[k])]]
<1>1. n \in Nat /\ \A k \in 1 .. n : s[k] \in Places
  OBVIOUS
<1>2. <<NewFilter>> \in Filters
  <2>1. <<NewFilter>> \in Seq(Filter) /\ Len(<<NewFilter>>) = 1
    BY NewFilterType
  <2> QED BY <2>1 DEF Filters
<1> HIDE DEF n
<1>3. f \in [1 .. n -> [Filters -> Filters]]
  BY <1>1, OneSampleIs
<1>4. \A k \in 1 .. n : \A fs \in Filters : f[k][fs] = OneSample(fs, w, h, s[k])
  OBVIOUS
<1> HIDE DEF f
<1>5. PICK g \in [0 .. n -> Filters] : Steps(g, <<NewFilter>>, f, n)
  BY <1>1, <1>2, <1>3, StepsExist
<1>6. g = [k \in 0 .. n |-> IF k = 0 THEN <<NewFilter>> ELSE OneSample(g[k - 1], w, h, s[k])]
  <2>1. ASSUME NEW k \in 0 .. n
        PROVE  g[k] = IF k = 0 THEN <<NewFilter>> ELSE OneSample(g[k - 1], w, h, s[k])
    <3>1. CASE k = 0
      BY <1>5, <3>1 DEF Steps
    <3>2. CASE k # 0
      <4>1. k \in 1 .. n /\ k - 1 \in 0 .. n
        BY <1>1, <3>2
      <4>2. g[k - 1] \in Filters
        BY <1>5, <4>1
      <4>3. g[k] = f[k][g[k - 1]]
        BY <1>5, <4>1 DEF Steps
      <4> QED BY <1>4, <3>2, <4>1, <4>2, <4>3
    <3> QED BY <3>1, <3>2
  <2> QED BY <1>5, <2>1
<1> DEFINE a == CHOOSE a :
               a = [k \in 0 .. n |-> IF k = 0 THEN <<NewFilter>>
                                     ELSE OneSample(a[k - 1], w, h, s[k])]
<1>7. a = [k \in 0 .. n |-> IF k = 0 THEN <<NewFilter>> ELSE OneSample(a[k - 1], w, h, s[k])]
  BY <1>6
<1>8. Sampled(w, h, s) = a[n]
  BY DEF Sampled, Loop, OneSample, n
<1> HIDE DEF a
<1>9. a[0] = <<NewFilter>>
  BY <1>1, <1>7
<1>10. ASSUME NEW k \in 1 .. n PROVE a[k] = OneSample(a[k - 1], w, h, s[k])
  <2>1. k \in 0 .. n /\ k # 0
    BY <1>1
  <2>2. a[k] = IF k = 0 THEN <<NewFilter>> ELSE OneSample(a[k - 1], w, h, s[k])
    BY <1>7, <2>1, Zenon
  <2> QED BY <2>1, <2>2
<1> QED BY <1>8, <1>9, <1>10 DEF n

(* The places of a walk are pixels.                                        *)
LEMMA PlaceAtType ==
    ASSUME NEW s \in Seq(Places), NEW k \in 0 .. Len(s)
    PROVE  PlaceAt(s, k) \in Places
<1>1. NewPlace \in Places
  BY HalfType DEF NewPlace, Places
<1>2. k # 0 => s[k] \in Places
  OBVIOUS
<1> QED BY <1>1, <1>2 DEF PlaceAt

(* One sample keeps pixels and key together.                               *)
LEMMA KeptStep ==
    ASSUME NEW w \in Nat, NEW h \in Nat, NEW s \in Seq(Places), NEW k \in 1 .. Len(s),
           NEW f, Kept16(f, w, h, s, k - 1)
    PROVE  Kept16(swap_bicubic(f, w, h, s[k][1], s[k][2]), w, h, s, k)
<1> DEFINE p == s[k]
           q == PlaceAt(s, k - 1)
<1>1. k \in Nat /\ k # 0 /\ k - 1 \in 0 .. Len(s)
  OBVIOUS
<1>2. p \in Places /\ q \in Places /\ PlaceAt(s, k) = p
  BY <1>1, PlaceAtType DEF PlaceAt
<1>3. /\ f.idx = Key(q[1], q[2])
      /\ Fetched(s, k - 1) => f.n = Around(w, h, q[1], q[2], 4, 1)
  BY DEF Kept16
<1>4. p # q \/ Fetched(s, k - 1) \/ p = NewPlace
  <2> SUFFICES ASSUME p = q, p # NewPlace PROVE Fetched(s, k - 1)
    OBVIOUS
  <2>1. k - 1 # 0 /\ s[k - 1] # NewPlace
    BY DEF PlaceAt
  <2>2. k - 1 \in 1 .. k - 1
    BY <1>1, <2>1
  <2> QED BY <2>1, <2>2 DEF Fetched
<1>5. Fetched(s, k) => p # NewPlace \/ Fetched(s, k - 1)
  <2> SUFFICES ASSUME NEW m \in 1 .. k, s[m] # NewPlace, p = NewPlace
               PROVE  Fetched(s, k - 1)
    BY DEF Fetched
  <2>1. m # k /\ m \in 1 .. k - 1
    BY <1>1
  <2> QED BY <2>1 DEF Fetched
<1> HIDE DEF q
<1>6. CASE Key(p[1], p[2]) = f.idx
  <2>1. p = q
    BY <1>2, <1>3, <1>6, KeysDiffer
  <2>2. swap_bicubic(f, w, h, p[1], p[2]) = f
    BY <1>6 DEF swap_bicubic
  <2>3. Fetched(s, k) => Fetched(s, k - 1)
    BY <1>4, <1>5, <2>1
  <2> QED BY <1>2, <1>3, <2>1, <2>2, <2>3 DEF Kept16
<1>7. CASE Key(p[1], p[2]) # f.idx
  <2>1. swap_bicubic(f, w, h, p[1], p[2])
           = [idx |-> Key(p[1], p[2]), n |-> fetch16(w, h, p[1], p[2])]
    BY <1>7 DEF swap_bicubic
  <2>2. fetch16(w, h, p[1], p[2]) = Around(w, h, p[1], p[2], 4, 1)
    <3>1. p[1] \in Int /\ p[2] \in Int
      BY <1>2, InPlaces
    <3> QED BY <3>1, FetchIsAround
  <2> QED BY <1>2, <2>1, <2>2 DEF Kept16
<1> QED BY <1>6, <1>7

(* Every filter of a walk.                                                 *)
KeptAll(fs, w, h, s, k) ==
    /\ fs \in Filters /\ Len(fs) = k + 1
    /\ \A m \in 0 .. k : Kept16(fs[m + 1], w, h, s, m)

(* The first sample fetches what lies around it.                           *)
LEMMA KeptFirst ==
    ASSUME NEW w, NEW h, NEW s
    PROVE  KeptAll(<<NewFilter>>, w, h, s, 0)
<1>1. <<NewFilter>> \in Filters /\ Len(<<NewFilter>>) = 1
  BY NewFilterType DEF Filters
<1>2. NewFilter.idx = -1
  BY DEF NewFilter
<1>3. Key(PlaceAt(s, 0)[1], PlaceAt(s, 0)[2]) = -1
  BY SMT DEF Key, PlaceAt, NewPlace
<1>4. ~Fetched(s, 0)
  BY DEF Fetched
<1>5. Kept16(NewFilter, w, h, s, 0)
  BY <1>2, <1>3, <1>4 DEF Kept16
<1>6. ASSUME NEW m \in 0 .. 0 PROVE Kept16(<<NewFilter>>[m + 1], w, h, s, m)
  <2>1. m = 0 /\ <<NewFilter>>[m + 1] = NewFilter
    OBVIOUS
  <2> QED BY <1>5, <2>1
<1> QED BY <1>1, <1>6 DEF KeptAll

(* A sample after a coherent one is coherent.                              *)
LEMMA KeptNext ==
    ASSUME NEW w \in Nat, NEW h \in Nat, NEW s \in Seq(Places), NEW k \in 1 .. Len(s),
           NEW fs, KeptAll(fs, w, h, s, k - 1)
    PROVE  KeptAll(OneSample(fs, w, h, s[k]), w, h, s, k)
<1> DEFINE gs == OneSample(fs, w, h, s[k])
<1>1. k \in Nat /\ k - 1 \in 0 .. k - 1 /\ (k - 1) + 1 = k /\ s[k] \in Places
  OBVIOUS
<1>2. fs \in Filters /\ Len(fs) = k
  BY <1>1 DEF KeptAll
<1>3. /\ gs \in Filters /\ Len(gs) = k + 1
      /\ gs[k + 1] = swap_bicubic(fs[k], w, h, s[k][1], s[k][2])
      /\ \A m \in 1 .. k : gs[m] = fs[m]
  <2>1. /\ Len(gs) = Len(fs) + 1
        /\ gs[Len(fs) + 1] = swap_bicubic(fs[Len(fs)], w, h, s[k][1], s[k][2])
        /\ gs \in Filters /\ \A m \in 1 .. Len(fs) : gs[m] = fs[m]
    <3>1. ASSUME NEW p \in Places
          PROVE  /\ OneSample(fs, w, h, p) \in Filters
                 /\ Len(OneSample(fs, w, h, p)) = Len(fs) + 1
                 /\ OneSample(fs, w, h, p)[Len(fs) + 1]
                       = swap_bicubic(fs[Len(fs)], w, h, p[1], p[2])
                 /\ \A m \in 1 .. Len(fs) : OneSample(fs, w, h, p)[m] = fs[m]
      BY <1>2, OneSampleIs, Zenon
    <3> QED BY <1>1, <3>1, Zenon
  <2> HIDE DEF gs
  <2> QED BY <1>2, <2>1
<1> HIDE DEF gs
<1>4. Kept16(fs[k], w, h, s, k - 1)
  BY <1>1 DEF KeptAll
<1>5. Kept16(gs[k + 1], w, h, s, k)
  BY <1>3, <1>4, KeptStep
<1>6. ASSUME NEW m \in 0 .. k PROVE Kept16(gs[m + 1], w, h, s, m)
  <2>1. CASE m = k
    BY <1>5, <2>1
  <2>2. CASE m # k
    <3>1. m \in 0 .. k - 1 /\ m + 1 \in 1 .. k
      BY <1>1, <2>2
    <3>2. gs[m + 1] = fs[m + 1]
      BY <1>3, <3>1
    <3> QED BY <3>1, <3>2 DEF KeptAll
  <2> QED BY <2>1, <2>2
<1>7. KeptAll(gs, w, h, s, k)
  BY <1>3, <1>6 DEF KeptAll
<1> QED BY <1>7 DEF gs

(* "avoid neighborhood re-fetch" (swap_math.c:155): through a walk of any  *)
(* length, in and around images of any size, the neighbourhood in use is   *)
(* that of the place sampled, once a place other than (-1, 0) has been.    *)
THEOREM WalkCoherent ==
    ASSUME NEW w \in Nat, NEW h \in Nat, NEW s \in Seq(Places),
           NEW k \in 1 .. Len(s), \E m \in 1 .. k : s[m] # <<-1, 0>>
    PROVE  Sampled(w, h, s)[k + 1].n = Around(w, h, s[k][1], s[k][2], 4, 1)
<1> DEFINE n == Len(s)
<1>1. PICK a : /\ a[0] = <<NewFilter>>
               /\ \A i \in 1 .. n : a[i] = OneSample(a[i - 1], w, h, s[i])
               /\ Sampled(w, h, s) = a[n]
  BY SampleSteps
<1>2. n \in Nat
  OBVIOUS
<1> HIDE DEF n
<1> DEFINE D == {i \in 0 .. n : KeptAll(a[i], w, h, s, i)}
<1>3. 0 \in D
  <2>1. KeptAll(a[0], w, h, s, 0)
    BY <1>1, KeptFirst, Zenon
  <2>2. 0 \in 0 .. n
    BY <1>2
  <2> QED BY <2>1, <2>2, Zenon
<1>4. ASSUME NEW i \in 0 .. n - 1, i \in D PROVE i + 1 \in D
  <2>1. i + 1 \in 1 .. n /\ i + 1 \in 0 .. n /\ (i + 1) - 1 = i /\ KeptAll(a[i], w, h, s, i)
    BY <1>2, <1>4
  <2>2. a[i + 1] = OneSample(a[i], w, h, s[i + 1])
    BY <1>1, <2>1
  <2>3. KeptAll(OneSample(a[i], w, h, s[i + 1]), w, h, s, i + 1)
    BY <2>1, KeptNext DEF n
  <2> QED BY <2>1, <2>2, <2>3
<1> HIDE DEF D
<1>5. \A i \in 0 .. n : i \in D
  BY <1>2, <1>3, <1>4, UpTo
<1>6. KeptAll(Sampled(w, h, s), w, h, s, n)
  BY <1>1, <1>2, <1>5 DEF D
<1>7. k \in 0 .. n /\ k # 0
  BY DEF n
<1>8. Kept16(Sampled(w, h, s)[k + 1], w, h, s, k)
  BY <1>6, <1>7 DEF KeptAll
<1>9. Fetched(s, k) /\ PlaceAt(s, k) = s[k]
  BY <1>7 DEF Fetched, NewPlace, PlaceAt
<1> QED BY <1>8, <1>9 DEF Kept16

---------------------------------------------------------------------------
(* Rows and columns of an offset.                                          *)
LEMMA Parts ==
    ASSUME NEW w \in Nat, w > 0, NEW o \in Nat
    PROVE  /\ o % w \in 0 .. w - 1 /\ o \div w \in Nat
           /\ o = (o \div w) * w + (o % w)
OBVIOUS

(* An offset is in the row and the column that it is made of.              *)
LEMMA InRows ==
    ASSUME NEW w \in Nat, NEW h \in Nat, NEW o \in 0 .. w * h - 1
    PROVE  /\ w > 0 /\ h > 0 /\ o % w \in 0 .. w - 1 /\ o \div w \in 0 .. h - 1
           /\ o = (o \div w) * w + (o % w)
<1>1. w > 0 /\ h > 0 /\ o \in Nat
  <2>1. w * h \in Nat /\ o \in Nat /\ w * h > 0
    OBVIOUS
  <2>2. w # 0 /\ h # 0
    BY <2>1
  <2> QED BY <2>1, <2>2
<1> DEFINE x == o % w
           y == o \div w
<1>2. x \in 0 .. w - 1 /\ y \in Nat /\ o = y * w + x
  BY <1>1, Parts
<1> HIDE DEF x, y
<1>3. y < h
  <2> SUFFICES ASSUME h <= y PROVE FALSE
    BY <1>2
  <2>1. h * w <= y * w /\ y * w \in Nat /\ h * w \in Nat
    BY <1>2, Grows
  <2>2. w * h = h * w /\ o < w * h
    OBVIOUS
  <2> QED BY <1>2, <2>1, <2>2
<1> QED BY <1>1, <1>2, <1>3 DEF x, y

(* The walk of swap_affine through the output.                             *)
RasterPlace(ow, k) == <<(k - 1) % ow, (k - 1) \div ow>>
Raster(ow, oh) == [o \in 1 .. ow * oh |-> RasterPlace(ow, o)]

(* The offsets of an image.                                                *)
LEMMA SmallPlaces ==
    ASSUME NEW x \in Nat, NEW y \in Nat, x < Half, y < Half
    PROVE  <<x, y>> \in Places
<1>1. x \in -Half .. Half - 1 /\ y \in 1 - Half .. Half - 1
  BY HalfType
<1> QED BY <1>1 DEF Places

(* The place at an offset, row by row.                                     *)
LEMMA RasterIs ==
    ASSUME NEW ow \in 0 .. Half - 1, NEW oh \in 0 .. Half - 1
    PROVE  /\ Raster(ow, oh) \in Seq(Places) /\ Len(Raster(ow, oh)) = ow * oh
           /\ \A k \in 1 .. ow * oh : Raster(ow, oh)[k] = RasterPlace(ow, k)
<1>1. ow \in Nat /\ oh \in Nat /\ ow < Half /\ oh < Half /\ ow * oh \in Nat
  BY HalfType
<1>2. ASSUME NEW k \in 1 .. ow * oh PROVE RasterPlace(ow, k) \in Places
  <2> DEFINE x == (k - 1) % ow
             y == (k - 1) \div ow
  <2>1. k - 1 \in 0 .. ow * oh - 1
    BY <1>1
  <2>2. x \in 0 .. ow - 1 /\ y \in 0 .. oh - 1
    BY <1>1, <2>1, InRows
  <2> HIDE DEF x, y
  <2>3. x \in Nat /\ y \in Nat /\ x < Half /\ y < Half
    BY <1>1, <2>2, HalfType
  <2>4. <<x, y>> \in Places
    BY <2>3, SmallPlaces
  <2> QED BY <2>4 DEF x, y, RasterPlace
<1> DEFINE n == ow * oh
<1>3. n \in Nat
  BY <1>1
<1> HIDE DEF n
<1>4. Raster(ow, oh) = [o \in 1 .. n |-> RasterPlace(ow, o)]
  BY DEF Raster, n
<1>5. \A k \in 1 .. n : RasterPlace(ow, k) \in Places
  BY <1>2 DEF n
<1>6. /\ Raster(ow, oh) \in Seq(Places) /\ Len(Raster(ow, oh)) = n
      /\ \A k \in 1 .. n : Raster(ow, oh)[k] = RasterPlace(ow, k)
  BY <1>3, <1>4, <1>5
<1> QED BY <1>6 DEF n

(* The middle of a neighbourhood.                                          *)
LEMMA Middle ==
    ASSUME NEW w \in Nat, NEW h \in Nat, NEW x \in Nat, NEW y \in Nat
    PROVE  Around(w, h, x, y, 4, 1)[6] = PixelAt(w, h, x, y)
<1>1. 4 * 4 = 16
  OBVIOUS
<1>2. Around(w, h, x, y, 4, 1)
         = [k \in 1 .. 16 |-> Near(w, h, x, y, (k - 1) % 4, (k - 1) \div 4)]
  BY <1>1 DEF Around, PixelAt, Near
<1>3. 6 \in 1 .. 16 /\ (6 - 1) % 4 = 1 /\ (6 - 1) \div 4 = 1
  OBVIOUS
<1>4. x - 1 + 1 = x /\ y - 1 + 1 = y
  OBVIOUS
<1> QED BY <1>2, <1>3, <1>4 DEF Near

CopyAt(w, h, ow, oh, x, y) ==
    IF x < (IF w < ow THEN w ELSE ow) /\ y < (IF h < oh THEN h ELSE oh)
    THEN CellOf(w, h, y * w + x) ELSE Zero

(* The walk over a whole image samples the pixel at each offset.           *)
LEMMA CopiedPixel ==
    ASSUME NEW w \in Nat, NEW h \in Nat, NEW ow \in Nat, NEW oh \in Nat,
           NEW x \in 0 .. ow - 1, NEW y \in 0 .. oh - 1
    PROVE  CopyAt(w, h, ow, oh, x, y)
              = PixelAt(w, h, x, y)
<1>1. (x < (IF w < ow THEN w ELSE ow) /\ y < (IF h < oh THEN h ELSE oh))
         <=> (x \in 0 .. w - 1 /\ y \in 0 .. h - 1)
  OBVIOUS
<1>2. CASE x \in 0 .. w - 1 /\ y \in 0 .. h - 1
  <2>1. y * w + x \in 0 .. w * h - 1
    BY <1>2, InRectangle
  <2>2. CellOf(w, h, y * w + x) = y * w + x + 1
    BY <2>1 DEF CellOf
  <2>3. PixelAt(w, h, x, y) = y * w + x + 1
    BY <1>2 DEF PixelAt
  <2>4. CopyAt(w, h, ow, oh, x, y) = CellOf(w, h, y * w + x)
    BY <1>1, <1>2 DEF CopyAt
  <2> QED BY <2>2, <2>3, <2>4
<1>3. CASE ~(x \in 0 .. w - 1 /\ y \in 0 .. h - 1)
  BY <1>1, <1>3 DEF CopyAt, PixelAt
<1> QED BY <1>2, <1>3

(* Copying the rows of an image as they are, cut or filled up to the size  *)
(* of the output, gives what sampling each of its pixels gives, for images *)
(* of any two sizes (swap_warp.c:26).                                      *)
THEOREM CopyIsSampling ==
    ASSUME NEW w \in Nat, NEW h \in Nat, NEW ow \in 0 .. Half - 1, NEW oh \in 0 .. Half - 1
    PROVE  AffineCopied(w, h, ow, oh) = AffineSampled(w, h, ow, oh)
<1>1. ow \in Nat /\ oh \in Nat /\ ow * oh \in Nat
  BY HalfType
<1> DEFINE s == Raster(ow, oh)
           n == ow * oh
           fs == Sampled(w, h, s)
           copy(o) == CopyAt(w, h, ow, oh, o % ow, o \div ow)
<1>2. AffineCopied(w, h, ow, oh) = [o \in 0 .. n - 1 |-> copy(o)]
  BY DEF AffineCopied, CopyAt
<1>3. AffineSampled(w, h, ow, oh) = [o \in 0 .. n - 1 |-> fs[o + 2].n[6]]
  BY DEF AffineSampled, Raster, RasterPlace
<1>4. s \in Seq(Places) /\ Len(s) = n /\ \A k \in 1 .. n : s[k] = RasterPlace(ow, k)
  BY RasterIs
<1>5. ASSUME NEW o \in 0 .. n - 1 PROVE copy(o) = fs[o + 2].n[6]
  <2> DEFINE x == o % ow
             y == o \div ow
  <2>1. ow > 0 /\ x \in 0 .. ow - 1 /\ y \in 0 .. oh - 1
    BY <1>1, InRows
  <2>2. copy(o) = PixelAt(w, h, x, y)
    BY <1>1, <2>1, CopiedPixel
  <2> HIDE DEF copy
  <2>3. /\ o + 1 \in 1 .. n /\ 1 \in 1 .. n /\ (o + 1) - 1 = o /\ (o + 1) + 1 = o + 2
        /\ 1 \in 1 .. o + 1
    BY <1>1
  <2>4. s[o + 1] = <<x, y>>
    BY <1>4, <2>3 DEF RasterPlace
  <2>5. s[1] # <<-1, 0>>
    <3>1. s[1] = <<(1 - 1) % ow, (1 - 1) \div ow>>
      BY <1>4, <2>3 DEF RasterPlace
    <3>2. (1 - 1) % ow # -1
      BY <1>1, <2>1
    <3> QED BY <3>1, <3>2
  <2> HIDE DEF x, y, s, n
  <2>6. o + 1 \in 1 .. Len(s)
    BY <1>4, <2>3
  <2>7. Sampled(w, h, s)[(o + 1) + 1].n = Around(w, h, s[o + 1][1], s[o + 1][2], 4, 1)
    BY <1>4, <2>3, <2>5, <2>6, WalkCoherent
  <2>8. fs[o + 2].n = Around(w, h, x, y, 4, 1)
    <3>1. s[o + 1][1] = x /\ s[o + 1][2] = y
      BY <2>4
    <3> QED BY <2>3, <2>7, <3>1
  <2>9. x \in Nat /\ y \in Nat
    BY <2>1
  <2>10. Around(w, h, x, y, 4, 1)[6] = PixelAt(w, h, x, y)
    BY <2>9, Middle
  <2> QED BY <2>2, <2>8, <2>10
<1> HIDE DEF n, fs, copy
<1> QED BY <1>2, <1>3, <1>5

(* The neighbourhood in use at a sample is that of the place sampled, and  *)
(* copies are what samples are, for all images and walks of the constants. *)
THEOREM SamplesAlways == Spec => []SamplesCoherent
<1>1. Init => SamplesCoherent
  BY DEF Init, SamplesCoherent, None
<1>2. ASSUME SamplesCoherent, [Next]_vars PROVE SamplesCoherent'
  <2>1. CASE UNCHANGED vars
    BY <1>2, <2>1 DEF vars, SamplesCoherent
  <2>2. ASSUME NEW wh \in Sizes
        PROVE  /\ wh[1] \in Nat /\ wh[2] \in Nat
               /\ wh[1] \in 0 .. Half - 1 /\ wh[2] \in 0 .. Half - 1
    BY SizesAssumption, HalfType
  <2>3. CASE Sample
    <3>1. PICK wh \in Sizes, s \in Walks :
             Call("sample", <<wh, s>>, Sampled(wh[1], wh[2], s))
      BY <2>3 DEF Sample
    <3>2. op' = "sample" /\ arg' = <<wh, s>> /\ answer' = Sampled(wh[1], wh[2], s)
      BY <3>1 DEF Call
    <3>3. s \in Seq(Places) /\ wh[1] \in Nat /\ wh[2] \in Nat
      BY <2>2, WalksAssumption
    <3>4. ASSUME NEW k \in DOMAIN s, \E m \in 1 .. k : s[m] # <<-1, 0>>
          PROVE  Sampled(wh[1], wh[2], s)[k + 1].n
                    = Around(wh[1], wh[2], s[k][1], s[k][2], 4, 1)
      <4>1. k \in 1 .. Len(s)
        BY <3>3
      <4> QED BY <3>3, <3>4, <4>1, WalkCoherent
    <3>5. arg'[1] = wh /\ arg'[2] = s
      BY <3>2
    <3> QED BY <3>2, <3>4, <3>5, Zenon DEF SamplesCoherent
  <2>4. CASE Fetch9
    <3>1. PICK wh \in Sizes, i \in -1 .. 5, j \in -1 .. 5 :
             Call("fetch9", <<wh, i, j>>, swap_fetch9(wh[1], wh[2], i, j))
      BY <2>4 DEF Fetch9
    <3>2. op' = "fetch9" /\ arg' = <<wh, i, j>> /\ answer' = swap_fetch9(wh[1], wh[2], i, j)
      BY <3>1 DEF Call
    <3>3. swap_fetch9(wh[1], wh[2], i, j) = Around(wh[1], wh[2], i, j, 3, 1)
      <4>1. i \in Int /\ j \in Int /\ wh[1] \in Nat /\ wh[2] \in Nat
        BY <2>2
      <4> QED BY <4>1, Fetch9IsAround
    <3>4. arg'[1] = wh /\ arg'[2] = i /\ arg'[3] = j
      BY <3>2
    <3> QED BY <3>2, <3>3, <3>4 DEF SamplesCoherent
  <2>5. CASE Affine
    <3>1. PICK wh \in Sizes, owh \in Sizes :
             Call("affine", <<wh, owh>>, AffineCopied(wh[1], wh[2], owh[1], owh[2]))
      BY <2>5 DEF Affine
    <3>2. op' = "affine" /\ arg' = <<wh, owh>>
          /\ answer' = AffineCopied(wh[1], wh[2], owh[1], owh[2])
      BY <3>1 DEF Call
    <3>3. answer' = AffineSampled(wh[1], wh[2], owh[1], owh[2])
      BY <2>2, <3>2, CopyIsSampling
    <3>4. arg'[1] = wh /\ arg'[2] = owh
      BY <3>2
    <3> QED BY <3>2, <3>3, <3>4 DEF SamplesCoherent
  <2>6. CASE op' \notin {"sample", "fetch9", "affine"}
    BY <2>6 DEF SamplesCoherent
  <2> QED BY <1>2, <2>1, <2>3, <2>4, <2>5, <2>6, Calls
<1> QED BY <1>1, <1>2, PTL DEF Spec

---------------------------------------------------------------------------
(* The planes that are averaged in place.                                  *)

(* Half the column and the row of a block.                                 *)
LEMMA Halves ==
    ASSUME NEW w \in Nat, NEW h \in Nat, NEW a \in Blocks(w, h)
    PROVE  \E p, q \in Nat : /\ a[1] = 2 * p /\ a[2] = 2 * q /\ a[1] < w /\ a[2] < h
                             /\ a[1] \div 2 = p /\ a[2] \div 2 = q
<1>1. a[1] \in 0 .. w - 1 /\ a[2] \in 0 .. h - 1 /\ a[1] % 2 = 0 /\ a[2] % 2 = 0
  BY DEF Blocks
<1>2. \A n \in Nat : n % 2 = 0 => n \div 2 \in Nat /\ n = 2 * (n \div 2)
  OBVIOUS
<1> QED BY <1>1, <1>2

(* Blocks are taken row by row.                                            *)
Before(a, b) == a[2] < b[2] \/ (a[2] = b[2] /\ a[1] < b[1])

(* The mean of a block is written before every pixel of the blocks that    *)
(* come after it, in planes of any size, odd ones too: no mean is made of  *)
(* a mean of another block (swap_color.c:146).                             *)
THEOREM MeansStayBehind ==
    ASSUME NEW w \in Nat, NEW h \in Nat,
           NEW a \in Blocks(w, h), NEW b \in Blocks(w, h), Before(a, b)
    PROVE  Target(w, a[1], a[2]) < b[2] * w + b[1]
<1>1. PICK p, q \in Nat : /\ a[1] = 2 * p /\ a[2] = 2 * q /\ a[1] < w
                          /\ a[1] \div 2 = p /\ a[2] \div 2 = q
  BY Halves
<1>2. b[1] \in Nat /\ b[2] \in Nat
  BY DEF Blocks
<1>3. Target(w, a[1], a[2]) = q * (w \div 2) + p
  BY <1>1 DEF Target
<1>4. w \div 2 \in Nat /\ w \div 2 <= w
  OBVIOUS
<1>5. q * (w \div 2) <= q * w /\ q * (w \div 2) \in Nat /\ q * w \in Nat
  <2>1. (w \div 2) * q \in Nat /\ w * q \in Nat /\ (w \div 2) * q <= w * q
    BY <1>4, Grows
  <2>2. (w \div 2) * q = q * (w \div 2) /\ w * q = q * w
    BY <1>4
  <2> QED BY <2>1, <2>2
<1>6. CASE a[2] < b[2]
  <2>1. q + 1 <= b[2]
    BY <1>1, <1>2, <1>6
  <2>2. (q + 1) * w <= b[2] * w /\ b[2] * w \in Nat
    BY <1>2, <2>1, Grows
  <2>3. (q + 1) * w = q * w + w
    BY Distributes
  <2>4. p < w
    BY <1>1
  <2> QED BY <1>2, <1>3, <1>5, <2>2, <2>3, <2>4
<1>7. CASE a[2] = b[2] /\ a[1] < b[1]
  <2>1. q <= b[2] /\ p < b[1]
    BY <1>1, <1>2, <1>7
  <2>2. q * w <= b[2] * w /\ b[2] * w \in Nat
    BY <1>2, <2>1, Grows
  <2> QED BY <1>2, <1>3, <1>5, <2>1, <2>2
<1> QED BY <1>6, <1>7 DEF Before

(* In planes of even sizes every block has a place of its own, in the      *)
(* quarter of the plane that swap_y4m writes, and its pixels are in the    *)
(* plane ("C420", swap_file.c:447).                                        *)
THEOREM MeansFillTheQuarter ==
    ASSUME NEW w \in Nat, NEW h \in Nat, w % 2 = 0, h % 2 = 0,
           NEW a \in Blocks(w, h), NEW b \in Blocks(w, h)
    PROVE  /\ Target(w, a[1], a[2]) \in 0 .. (w * h) \div 4 - 1
           /\ Target(w, a[1], a[2]) = Target(w, b[1], b[2]) => a = b
           /\ \A x, y \in {0, 1} : (a[2] + y) * w + (a[1] + x) \in 0 .. w * h - 1
<1>1. PICK p, q \in Nat : /\ a[1] = 2 * p /\ a[2] = 2 * q /\ a[1] < w /\ a[2] < h
                          /\ a[1] \div 2 = p /\ a[2] \div 2 = q
  BY Halves
<1>2. PICK r, s \in Nat : /\ b[1] = 2 * r /\ b[2] = 2 * s /\ b[1] < w /\ b[2] < h
                          /\ b[1] \div 2 = r /\ b[2] \div 2 = s
  BY Halves
<1>3. PICK m \in Nat : w = 2 * m /\ w \div 2 = m
  <2>1. w \div 2 \in Nat /\ w = 2 * (w \div 2)
    OBVIOUS
  <2> QED BY <2>1
<1>4. PICK n \in Nat : h = 2 * n
  <2>1. h \div 2 \in Nat /\ h = 2 * (h \div 2)
    OBVIOUS
  <2> QED BY <2>1
<1>5. p \in 0 .. m - 1 /\ q \in 0 .. n - 1 /\ r \in 0 .. m - 1 /\ s \in 0 .. n - 1
  BY <1>1, <1>2, <1>3, <1>4
<1>6. Target(w, a[1], a[2]) = q * m + p /\ Target(w, b[1], b[2]) = s * m + r
  BY <1>1, <1>2, <1>3 DEF Target
<1>7. (w * h) \div 4 = m * n
  <2>1. m * n \in Nat /\ (2 * m) * (2 * n) = 4 * (m * n)
    OBVIOUS
  <2>2. \A k \in Nat : (4 * k) \div 4 = k
    OBVIOUS
  <2> QED BY <1>3, <1>4, <2>1, <2>2
<1>8. q * m + p \in 0 .. m * n - 1
  BY <1>5, InRectangle
<1>9. ASSUME q * m + p = s * m + r PROVE a = b
  <2>1. p = r /\ q = s
    BY <1>5, <1>9, OnePlace
  <2>2. a = <<a[1], a[2]>> /\ b = <<b[1], b[2]>>
    BY DEF Blocks
  <2> QED BY <1>1, <1>2, <2>1, <2>2
<1>10. ASSUME NEW x \in {0, 1}, NEW y \in {0, 1}
       PROVE  (a[2] + y) * w + (a[1] + x) \in 0 .. w * h - 1
  <2>1. a[1] + x \in 0 .. w - 1 /\ a[2] + y \in 0 .. h - 1
    BY <1>1, <1>3, <1>4
  <2> QED BY <2>1, InRectangle
<1> QED BY <1>6, <1>7, <1>8, <1>9, <1>10

(* The blocks are numbered in the order they are taken.                    *)
Cols(w) == (w + 1) \div 2
NumBlocks(w, h) == Cols(w) * Cols(h)

(* The blocks of a row.                                                    *)
LEMMA ColsType ==
    ASSUME NEW w \in Nat
    PROVE  /\ Cols(w) \in Nat /\ 2 * Cols(w) <= w + 1
           /\ \A x \in Nat : x < w /\ x % 2 = 0 => x \div 2 \in 0 .. Cols(w) - 1
BY DEF Cols

(* The number of blocks.                                                   *)
LEMMA NumBlocksType ==
    ASSUME NEW w \in Nat, NEW h \in Nat
    PROVE  NumBlocks(w, h) \in Nat
BY ColsType DEF NumBlocks

(* The corner in each place of the order is that of a block.               *)
LEMMA CornerIs ==
    ASSUME NEW w \in Nat, NEW h \in Nat, NEW k \in 1 .. NumBlocks(w, h)
    PROVE  \E p \in 0 .. Cols(w) - 1, q \in 0 .. Cols(h) - 1 :
              /\ k - 1 = q * Cols(w) + p
              /\ Corner(Cols(w), k) = <<2 * p, 2 * q>>
              /\ Corner(Cols(w), k) \in Blocks(w, h)
<1> DEFINE c == Cols(w)
           d == Cols(h)
           p == (k - 1) % c
           q == (k - 1) \div c
<1>1. c \in Nat /\ d \in Nat /\ 2 * c <= w + 1 /\ 2 * d <= h + 1
  BY ColsType
<1> HIDE DEF c, d
<1>2. k - 1 \in 0 .. c * d - 1
  <2>1. k \in 1 .. c * d /\ c * d \in Nat
    BY <1>1 DEF NumBlocks, c, d
  <2> QED BY <2>1
<1>3. p \in 0 .. c - 1 /\ q \in 0 .. d - 1 /\ k - 1 = q * c + p
  BY <1>1, <1>2, InRows
<1>4. Corner(c, k) = <<2 * p, 2 * q>>
  BY DEF Corner
<1> HIDE DEF p, q
<1>5. 2 * p \in 0 .. w - 1 /\ 2 * q \in 0 .. h - 1
  BY <1>1, <1>3
<1>6. (2 * p) % 2 = 0 /\ (2 * q) % 2 = 0
  <2>1. \A x \in Nat : (2 * x) % 2 = 0
    OBVIOUS
  <2>2. p \in Nat /\ q \in Nat
    BY <1>3
  <2> QED BY <2>1, <2>2
<1>7. <<2 * p, 2 * q>> \in Blocks(w, h)
  BY <1>5, <1>6 DEF Blocks
<1> QED BY <1>3, <1>4, <1>7 DEF c, d

(* Later corners are those of blocks to the right or below.                *)
LEMMA CornersInOrder ==
    ASSUME NEW w \in Nat, NEW h \in Nat,
           NEW k \in 1 .. NumBlocks(w, h), NEW m \in 1 .. NumBlocks(w, h), k < m
    PROVE  Before(Corner(Cols(w), k), Corner(Cols(w), m))
<1> DEFINE c == Cols(w)
<1>1. c \in Nat
  BY ColsType
<1>2. PICK p \in 0 .. c - 1, q \in 0 .. Cols(h) - 1 :
         k - 1 = q * c + p /\ Corner(c, k) = <<2 * p, 2 * q>>
  BY CornerIs
<1>3. PICK r \in 0 .. c - 1, s \in 0 .. Cols(h) - 1 :
         m - 1 = s * c + r /\ Corner(c, m) = <<2 * r, 2 * s>>
  BY CornerIs
<1>4. Cols(h) \in Nat
  BY ColsType
<1> HIDE DEF c
<1>5. p \in Nat /\ q \in Nat /\ r \in Nat /\ s \in Nat /\ p < c /\ r < c
  BY <1>1, <1>2, <1>3, <1>4
<1>6. q * c + p < s * c + r
  <2>1. k - 1 < m - 1
    OBVIOUS
  <2> QED BY <1>2, <1>3, <2>1
<1>7. ~(s < q)
  <2> SUFFICES ASSUME s + 1 <= q PROVE FALSE
    BY <1>5
  <2>1. (s + 1) * c <= q * c /\ q * c \in Nat /\ (s + 1) * c = s * c + c
    BY <1>1, <1>5, Grows, Distributes
  <2>2. s * c \in Nat
    BY <1>1, <1>5
  <2> QED BY <1>1, <1>5, <1>6, <2>1, <2>2
<1>8. CASE q < s
  BY <1>2, <1>3, <1>5, <1>8 DEF Before, c
<1>9. CASE q = s
  <2>1. p < r
    <3>1. q * c \in Nat
      BY <1>1, <1>5
    <3> QED BY <1>5, <1>6, <1>9, <3>1
  <2> QED BY <1>2, <1>3, <1>5, <1>9, <2>1 DEF Before, c
<1> QED BY <1>5, <1>7, <1>8, <1>9

(* Every block has its place in the order.                                 *)
LEMMA EveryBlock ==
    ASSUME NEW w \in Nat, NEW h \in Nat, NEW b \in Blocks(w, h)
    PROVE  \E k \in 1 .. NumBlocks(w, h) : b = Corner(Cols(w), k)
<1> DEFINE c == Cols(w)
           d == Cols(h)
<1>1. PICK p, q \in Nat : /\ b[1] = 2 * p /\ b[2] = 2 * q
                          /\ b[1] \div 2 = p /\ b[2] \div 2 = q
  BY Halves
<1>2. b = <<b[1], b[2]>> /\ b[1] \in Nat /\ b[1] < w /\ b[1] % 2 = 0
      /\ b[2] \in Nat /\ b[2] < h /\ b[2] % 2 = 0
  BY DEF Blocks
<1>3. c \in Nat /\ d \in Nat /\ p \in 0 .. c - 1 /\ q \in 0 .. d - 1
  BY <1>1, <1>2, ColsType
<1> HIDE DEF c, d
<1>4. q * c + p \in 0 .. c * d - 1
  BY <1>3, InRectangle
<1> DEFINE k == q * c + p + 1
<1>5. k \in 1 .. NumBlocks(w, h) /\ k - 1 = q * c + p
  <2>1. q * c \in Nat /\ c * d \in Nat
    BY <1>3
  <2>2. k \in 1 .. c * d /\ k - 1 = q * c + p
    BY <1>3, <1>4, <2>1
  <2> QED BY <2>2 DEF NumBlocks, c, d
<1> HIDE DEF k
<1>6. PICK r \in 0 .. c - 1, s \in 0 .. d - 1 :
         k - 1 = s * c + r /\ Corner(c, k) = <<2 * r, 2 * s>>
  BY <1>5, CornerIs DEF c, d
<1>7. r = p /\ s = q
  <2>1. s \in Nat /\ q \in Nat /\ s * c + r = q * c + p
    BY <1>3, <1>5, <1>6
  <2> QED BY <1>3, <2>1, OnePlace
<1> QED BY <1>1, <1>2, <1>5, <1>6, <1>7 DEF c

Cells(w, h) == 0 .. w * h - 1
Plane(w, h) == [Cells(w, h) -> 0 .. 256]

MeanOf(q, w, b) ==
    Mean4(At(q, b[2] * w + b[1]), At(q, b[2] * w + b[1] + 1),
          At(q, (b[2] + 1) * w + b[1]), At(q, (b[2] + 1) * w + b[1] + 1))
TargetAt(w, b) == Target(w, b[1], b[2])

(* A mean of bytes is a byte.                                              *)
LEMMA MeanType ==
    ASSUME NEW a \in 0 .. 256, NEW b \in 0 .. 256, NEW c \in 0 .. 256, NEW d \in 0 .. 256
    PROVE  Mean4(a, b, c, d) \in 0 .. 256
<1>1. (a + b + c + d + 2) \div 4 \in Nat
  OBVIOUS
<1> QED BY <1>1 DEF Mean4, Foreign

(* What the plane holds at an offset, in it or behind its end.             *)
LEMMA AtType ==
    ASSUME NEW w, NEW h, NEW q \in Plane(w, h), NEW o
    PROVE  At(q, o) \in 0 .. 256
<1>1. Foreign \in 0 .. 256
  BY DEF Foreign
<1>2. o \in DOMAIN q => q[o] \in 0 .. 256
  BY DEF Plane
<1> QED BY <1>1, <1>2 DEF At

(* The corner of a block and the place of its mean are offsets of the      *)
(* plane.                                                                  *)
LEMMA BlockIn ==
    ASSUME NEW w \in Nat, NEW h \in Nat, NEW b \in Blocks(w, h)
    PROVE  /\ b[1] \in Nat /\ b[2] \in Nat /\ b[2] * w \in Nat /\ b = <<b[1], b[2]>>
           /\ b[2] * w + b[1] \in Cells(w, h)
           /\ TargetAt(w, b) \in Cells(w, h)
<1>1. b[1] \in 0 .. w - 1 /\ b[2] \in 0 .. h - 1 /\ b = <<b[1], b[2]>>
  BY DEF Blocks
<1>2. b[1] \in Nat /\ b[2] \in Nat /\ b[2] * w \in Nat
  BY <1>1
<1>3. b[2] * w + b[1] \in 0 .. w * h - 1
  BY <1>1, InRectangle
<1>4. PICK p, q \in Nat : /\ b[1] = 2 * p /\ b[2] = 2 * q
                          /\ b[1] \div 2 = p /\ b[2] \div 2 = q
  BY Halves
<1>5. TargetAt(w, b) = q * (w \div 2) + p
  BY <1>4 DEF TargetAt, Target
<1>6. q * (w \div 2) \in Nat /\ q * (w \div 2) <= b[2] * w
  <2>1. w \div 2 \in Nat /\ w \div 2 <= w
    OBVIOUS
  <2>2. (w \div 2) * q \in Nat /\ w * q \in Nat /\ (w \div 2) * q <= w * q
    BY <2>1, Grows
  <2>3. q * w <= b[2] * w
    BY <1>2, <1>4, Grows
  <2>4. (w \div 2) * q = q * (w \div 2) /\ w * q = q * w
    BY <2>1
  <2> QED BY <1>2, <2>2, <2>3, <2>4
<1>7. TargetAt(w, b) \in 0 .. w * h - 1
  <2>1. TargetAt(w, b) \in Nat /\ TargetAt(w, b) <= b[2] * w + b[1]
    BY <1>2, <1>4, <1>5, <1>6
  <2>2. w * h \in Nat
    OBVIOUS
  <2> QED BY <1>2, <1>3, <2>1, <2>2
<1> QED BY <1>1, <1>2, <1>3, <1>7 DEF Cells

(* What averaging one block changes.                                       *)
LEMMA OneBlockIs ==
    ASSUME NEW w \in Nat, NEW h \in Nat, NEW b \in Blocks(w, h), NEW q \in Plane(w, h)
    PROVE  /\ OneBlock(q, w, b[1], b[2]) \in Plane(w, h)
           /\ OneBlock(q, w, b[1], b[2])[TargetAt(w, b)] = MeanOf(q, w, b)
           /\ \A o \in Cells(w, h) : o # TargetAt(w, b) =>
                 OneBlock(q, w, b[1], b[2])[o] = q[o]
<1>1. TargetAt(w, b) \in Cells(w, h) /\ DOMAIN q = Cells(w, h)
  BY BlockIn DEF Plane
<1>2. Cells(w, h) \cup {TargetAt(w, b)} = Cells(w, h)
  BY <1>1
<1>3. OneBlock(q, w, b[1], b[2])
         = [o \in DOMAIN q \cup {TargetAt(w, b)} |->
               IF o = TargetAt(w, b) THEN MeanOf(q, w, b) ELSE q[o]]
  BY DEF OneBlock, TargetAt, MeanOf
<1>4. OneBlock(q, w, b[1], b[2])
         = [o \in Cells(w, h) |-> IF o = TargetAt(w, b) THEN MeanOf(q, w, b) ELSE q[o]]
  BY <1>1, <1>2, <1>3
<1>5. MeanOf(q, w, b) \in 0 .. 256
  BY AtType, MeanType DEF MeanOf, Zenon
<1>6. \A o \in Cells(w, h) : q[o] \in 0 .. 256
  BY DEF Plane
<1>7. OneBlock(q, w, b[1], b[2]) \in [Cells(w, h) -> 0 .. 256]
  BY <1>4, <1>5, <1>6, Zenon
<1> QED BY <1>1, <1>4, <1>7, Zenon DEF Plane

(* The k-th block, and where its mean goes.                                *)
BlockAt(w, k) == Corner(Cols(w), k)
Goal(w, k) == TargetAt(w, BlockAt(w, k))

(* The block in a place of the order is a block.                           *)
LEMMA BlockAtIn ==
    ASSUME NEW w \in Nat, NEW h \in Nat, NEW k \in 1 .. NumBlocks(w, h)
    PROVE  BlockAt(w, k) \in Blocks(w, h)
BY CornerIs DEF BlockAt

(* The mean of a block goes to a place before every later block.           *)
LEMMA GoalBehind ==
    ASSUME NEW w \in Nat, NEW h \in Nat,
           NEW k \in 1 .. NumBlocks(w, h), NEW m \in 1 .. NumBlocks(w, h), m < k
    PROVE  Goal(w, m) < BlockAt(w, k)[2] * w + BlockAt(w, k)[1]
<1>1. Before(BlockAt(w, m), BlockAt(w, k))
  BY CornersInOrder DEF BlockAt
<1> QED BY <1>1, BlockAtIn, MeansStayBehind DEF Goal, TargetAt

(* A plane after the first k blocks: where one of them went there is the   *)
(* mean of the last that did, of the pixels as they were.                  *)
LastAt(w, k, m, o) == m \in 1 .. k /\ Goal(w, m) = o /\ \A j \in m + 1 .. k : Goal(w, j) # o
NoneAt(w, k, o) == \A j \in 1 .. k : Goal(w, j) # o
Averaged(q, p, w, h, k) ==
    /\ q \in Plane(w, h)
    /\ \A o \in Cells(w, h) :
          \/ \E m \in 1 .. k : LastAt(w, k, m, o) /\ q[o] = MeanOf(p, w, BlockAt(w, m))
          \/ NoneAt(w, k, o) /\ q[o] = p[o]

(* The pixels of a block are untouched before its turn.                    *)
LEMMA Untouched ==
    ASSUME NEW w \in Nat, NEW h \in Nat, NEW k \in Nat, NEW p \in Plane(w, h),
           NEW q, Averaged(q, p, w, h, k), NEW o \in Int, \A j \in 1 .. k : Goal(w, j) # o
    PROVE  At(q, o) = At(p, o)
<1>1. DOMAIN q = Cells(w, h) /\ DOMAIN p = Cells(w, h)
  BY DEF Averaged, Plane
<1>2. CASE o \in Cells(w, h)
  <2>1. q[o] = p[o]
    BY <1>2, Zenon DEF Averaged, LastAt
  <2> QED BY <1>1, <1>2, <2>1 DEF At
<1>3. CASE o \notin Cells(w, h)
  BY <1>1, <1>3 DEF At
<1> QED BY <1>2, <1>3

(* The mean of a block is the same at its turn as at the beginning.        *)
LEMMA SameMean ==
    ASSUME NEW w \in Nat, NEW h \in Nat, NEW k \in 1 .. NumBlocks(w, h),
           NEW p \in Plane(w, h), NEW q, Averaged(q, p, w, h, k - 1)
    PROVE  MeanOf(q, w, BlockAt(w, k)) = MeanOf(p, w, BlockAt(w, k))
<1> DEFINE b == BlockAt(w, k)
           first == b[2] * w + b[1]
<1>1. b \in Blocks(w, h) /\ NumBlocks(w, h) \in Nat
  BY BlockAtIn, NumBlocksType
<1>2. b[1] \in Nat /\ b[2] \in Nat /\ b[2] * w \in Nat
  BY <1>1, BlockIn
<1>3. ASSUME NEW j \in 1 .. k - 1 PROVE Goal(w, j) < first
  <2>1. j \in 1 .. NumBlocks(w, h) /\ j < k
    BY <1>1
  <2> QED BY <2>1, GoalBehind
<1>4. ASSUME NEW j \in 1 .. k - 1 PROVE Goal(w, j) \in Int
  <2>1. j \in 1 .. NumBlocks(w, h)
    BY <1>1
  <2>2. Goal(w, j) \in Cells(w, h)
    BY <2>1, BlockAtIn, BlockIn DEF Goal
  <2>3. w * h \in Nat
    OBVIOUS
  <2> QED BY <2>2, <2>3 DEF Cells
<1> HIDE DEF b
<1>5. first \in Nat
  BY <1>2
<1>6. (b[2] + 1) * w = b[2] * w + w
  BY <1>2, Distributes
<1> HIDE DEF first
<1>7. ASSUME NEW o \in Int, first <= o PROVE At(q, o) = At(p, o)
  <2>1. \A j \in 1 .. k - 1 : Goal(w, j) # o
    BY <1>3, <1>4, <1>5, <1>7
  <2>2. k - 1 \in Nat
    BY <1>1
  <2> QED BY <2>1, <2>2, Untouched
<1>8. /\ b[2] * w + b[1] = first /\ b[2] * w + b[1] + 1 \in Int /\ first <= b[2] * w + b[1] + 1
      /\ (b[2] + 1) * w + b[1] \in Int /\ first <= (b[2] + 1) * w + b[1]
      /\ (b[2] + 1) * w + b[1] + 1 \in Int /\ first <= (b[2] + 1) * w + b[1] + 1
  BY <1>2, <1>6 DEF first
<1>9. /\ At(q, b[2] * w + b[1]) = At(p, b[2] * w + b[1])
      /\ At(q, b[2] * w + b[1] + 1) = At(p, b[2] * w + b[1] + 1)
      /\ At(q, (b[2] + 1) * w + b[1]) = At(p, (b[2] + 1) * w + b[1])
      /\ At(q, (b[2] + 1) * w + b[1] + 1) = At(p, (b[2] + 1) * w + b[1] + 1)
  BY <1>5, <1>7, <1>8
<1> QED BY <1>9, Zenon DEF MeanOf, b

(* One more block keeps the plane as averaged so far.                      *)
LEMMA AveragedNext ==
    ASSUME NEW w \in Nat, NEW h \in Nat, NEW k \in 1 .. NumBlocks(w, h),
           NEW p \in Plane(w, h), NEW q, Averaged(q, p, w, h, k - 1)
    PROVE  Averaged(OneBlock(q, w, BlockAt(w, k)[1], BlockAt(w, k)[2]), p, w, h, k)
<1> DEFINE b == BlockAt(w, k)
           r == OneBlock(q, w, b[1], b[2])
<1>1. b \in Blocks(w, h) /\ k \in Nat /\ k >= 1
  BY BlockAtIn, NumBlocksType
<1>2. q \in Plane(w, h)
  BY DEF Averaged
<1>3. /\ r \in Plane(w, h) /\ r[Goal(w, k)] = MeanOf(p, w, b)
      /\ \A o \in Cells(w, h) : o # Goal(w, k) => r[o] = q[o]
  <2>1. /\ r \in Plane(w, h) /\ r[TargetAt(w, b)] = MeanOf(q, w, b)
        /\ \A o \in Cells(w, h) : o # TargetAt(w, b) => r[o] = q[o]
    BY <1>1, <1>2, OneBlockIs
  <2>2. MeanOf(q, w, b) = MeanOf(p, w, b)
    BY SameMean
  <2> QED BY <2>1, <2>2 DEF Goal
<1> HIDE DEF r
<1>4. ASSUME NEW o \in Cells(w, h)
      PROVE  \/ \E m \in 1 .. k : LastAt(w, k, m, o) /\ r[o] = MeanOf(p, w, BlockAt(w, m))
             \/ NoneAt(w, k, o) /\ r[o] = p[o]
  <2>1. CASE o = Goal(w, k)
    <3>1. LastAt(w, k, k, o)
      BY <1>1, <2>1 DEF LastAt
    <3>2. k \in 1 .. k /\ r[o] = MeanOf(p, w, BlockAt(w, k))
      BY <1>1, <1>3, <2>1
    <3> QED BY <3>1, <3>2
  <2>2. CASE o # Goal(w, k)
    <3>1. r[o] = q[o]
      BY <1>3, <2>2
    <3>2. \A j \in 1 .. k : j = k \/ j \in 1 .. k - 1
      BY <1>1
    <3>3. ASSUME NEW m \in 1 .. k - 1, LastAt(w, k - 1, m, o) PROVE m \in 1 .. k /\ LastAt(w, k, m, o)
      <4>1. m \in 1 .. k /\ \A j \in m + 1 .. k : j = k \/ j \in m + 1 .. k - 1
        BY <1>1
      <4> QED BY <2>2, <3>3, <4>1 DEF LastAt
    <3>4. NoneAt(w, k - 1, o) => NoneAt(w, k, o)
      BY <2>2, <3>2 DEF NoneAt
    <3>5. \/ \E m \in 1 .. k - 1 : LastAt(w, k - 1, m, o) /\ q[o] = MeanOf(p, w, BlockAt(w, m))
          \/ NoneAt(w, k - 1, o) /\ q[o] = p[o]
      BY DEF Averaged
    <3> QED BY <3>1, <3>3, <3>4, <3>5, Zenon
  <2> QED BY <2>1, <2>2
<1>5. Averaged(r, p, w, h, k)
  BY <1>3, <1>4, Zenon DEF Averaged
<1> QED BY <1>5 DEF r

(* The corners are as many as there are blocks.                            *)
LEMMA CornersAre ==
    ASSUME NEW w \in Nat, NEW h \in Nat
    PROVE  /\ Len(Corners(w, h)) = NumBlocks(w, h)
           /\ \A k \in 1 .. NumBlocks(w, h) : Corners(w, h)[k] = BlockAt(w, k)
<1> DEFINE n == NumBlocks(w, h)
<1>1. n \in Nat
  BY NumBlocksType
<1>2. Corners(w, h) = [k \in 1 .. n |-> BlockAt(w, k)]
  BY DEF Corners, Cols, BlockAt, NumBlocks
<1> HIDE DEF n
<1>3. Len(Corners(w, h)) = n
  BY <1>1, <1>2
<1> QED BY <1>2, <1>3 DEF n

(* The loop over the blocks has a value after each of them.                *)
LEMMA BlockSteps ==
    ASSUME NEW w \in Nat, NEW h \in Nat, NEW p \in Plane(w, h)
    PROVE  \E a : /\ a[0] = p
                  /\ \A k \in 1 .. NumBlocks(w, h) :
                        a[k] = OneBlock(a[k - 1], w, BlockAt(w, k)[1], BlockAt(w, k)[2])
                  /\ Subsampled(p, w, h) = a[NumBlocks(w, h)]
<1> DEFINE n == NumBlocks(w, h)
           s == Corners(w, h)
           f == [k \in 1 .. n |-> [q \in Plane(w, h) |-> OneBlock(q, w, s[k][1], s[k][2])]]
<1>1. n \in Nat /\ Len(s) = n /\ \A k \in 1 .. n : s[k] = BlockAt(w, k) /\ s[k] \in Blocks(w, h)
  BY NumBlocksType, CornersAre, BlockAtIn
<1> HIDE DEF n, s
<1>2. f \in [1 .. n -> [Plane(w, h) -> Plane(w, h)]]
  BY <1>1, OneBlockIs
<1>3. \A k \in 1 .. n : \A q \in Plane(w, h) : f[k][q] = OneBlock(q, w, s[k][1], s[k][2])
  OBVIOUS
<1> HIDE DEF f
<1>4. PICK g \in [0 .. n -> Plane(w, h)] : Steps(g, p, f, n)
  BY <1>1, <1>2, StepsExist
<1>5. g = [k \in 0 .. n |-> IF k = 0 THEN p ELSE OneBlock(g[k - 1], w, s[k][1], s[k][2])]
  <2>1. ASSUME NEW k \in 0 .. n
        PROVE  g[k] = IF k = 0 THEN p ELSE OneBlock(g[k - 1], w, s[k][1], s[k][2])
    <3>1. CASE k = 0
      BY <1>4, <3>1 DEF Steps
    <3>2. CASE k # 0
      <4>1. k \in 1 .. n /\ k - 1 \in 0 .. n
        BY <1>1, <3>2
      <4>2. g[k - 1] \in Plane(w, h)
        BY <1>4, <4>1
      <4>3. g[k] = f[k][g[k - 1]]
        BY <1>4, <4>1 DEF Steps
      <4> QED BY <1>3, <3>2, <4>1, <4>2, <4>3
    <3> QED BY <3>1, <3>2
  <2> QED BY <1>4, <2>1
<1> DEFINE a == CHOOSE a :
               a = [k \in 0 .. n |-> IF k = 0 THEN p
                                     ELSE OneBlock(a[k - 1], w, s[k][1], s[k][2])]
<1>6. a = [k \in 0 .. n |-> IF k = 0 THEN p ELSE OneBlock(a[k - 1], w, s[k][1], s[k][2])]
  BY <1>5
<1>7. Subsampled(p, w, h) = a[n]
  BY <1>1 DEF Subsampled, Loop, s
<1> HIDE DEF a
<1>8. a[0] = p
  BY <1>1, <1>6
<1>9. ASSUME NEW k \in 1 .. n
      PROVE  a[k] = OneBlock(a[k - 1], w, BlockAt(w, k)[1], BlockAt(w, k)[2])
  <2>1. k \in 0 .. n /\ k # 0 /\ s[k] = BlockAt(w, k)
    BY <1>1
  <2>2. a[k] = IF k = 0 THEN p ELSE OneBlock(a[k - 1], w, s[k][1], s[k][2])
    BY <1>6, <2>1, Zenon
  <2> QED BY <2>1, <2>2
<1> QED BY <1>7, <1>8, <1>9 DEF n

(* The loop over all blocks leaves the mean of each in its place.          *)
LEMMA SubsampledIsAveraged ==
    ASSUME NEW w \in Nat, NEW h \in Nat, NEW p \in Plane(w, h)
    PROVE  Averaged(Subsampled(p, w, h), p, w, h, NumBlocks(w, h))
<1> DEFINE n == NumBlocks(w, h)
<1>1. PICK a : /\ a[0] = p
               /\ \A k \in 1 .. n :
                     a[k] = OneBlock(a[k - 1], w, BlockAt(w, k)[1], BlockAt(w, k)[2])
               /\ Subsampled(p, w, h) = a[n]
  BY BlockSteps
<1>2. n \in Nat
  BY NumBlocksType
<1>3. Averaged(p, p, w, h, 0)
  BY DEF Averaged, NoneAt
<1> DEFINE D == {k \in 0 .. n : Averaged(a[k], p, w, h, k)}
<1>4. ASSUME NEW k \in 1 .. n, Averaged(a[k - 1], p, w, h, k - 1)
      PROVE  Averaged(a[k], p, w, h, k)
  BY <1>1, <1>4, AveragedNext
<1> HIDE DEF n
<1>5. 0 \in D
  BY <1>1, <1>2, <1>3
<1>6. ASSUME NEW k \in 0 .. n - 1, k \in D PROVE k + 1 \in D
  <2>1. k + 1 \in 1 .. n /\ (k + 1) - 1 = k /\ k + 1 \in 0 .. n /\ Averaged(a[k], p, w, h, k)
    BY <1>2, <1>6
  <2>2. Averaged(a[k + 1], p, w, h, k + 1)
    BY <1>4, <2>1
  <2> QED BY <2>1, <2>2
<1> HIDE DEF D
<1>7. \A k \in 0 .. n : k \in D
  BY <1>2, <1>5, <1>6, UpTo
<1>8. Averaged(a[n], p, w, h, n)
  BY <1>2, <1>7 DEF D
<1> QED BY <1>1, <1>8 DEF n

(* The mean the code forms is that of the reference.                       *)
LEMMA MeansEqual ==
    ASSUME NEW w \in Nat, NEW h \in Nat, NEW p \in [Cells(w, h) -> 0 .. 255],
           NEW b \in Blocks(w, h)
    PROVE  MeanOf(p, w, b) = BlockMean(p, w, b)
<1> DEFINE x1 == At(p, b[2] * w + b[1])
           x2 == At(p, b[2] * w + b[1] + 1)
           x3 == At(p, (b[2] + 1) * w + b[1])
           x4 == At(p, (b[2] + 1) * w + b[1] + 1)
<1>1. b[1] \in Nat /\ b[2] \in Nat /\ b[2] * w \in Nat /\ (b[2] + 1) * w \in Nat
  BY BlockIn
<1>2. /\ (b[2] + 0) * w + b[1] + 0 = b[2] * w + b[1]
      /\ (b[2] + 0) * w + b[1] + 1 = b[2] * w + b[1] + 1
      /\ (b[2] + 1) * w + b[1] + 0 = (b[2] + 1) * w + b[1]
  <2>1. b[2] + 0 = b[2]
    BY <1>1
  <2> QED BY <1>1, <2>1
<1>3. ASSUME NEW o PROVE At(p, o) = Foreign \/ At(p, o) \in 0 .. 255
  BY DEF At
<1>4. /\ x1 = Foreign \/ x1 \in 0 .. 255
      /\ x2 = Foreign \/ x2 \in 0 .. 255
      /\ x3 = Foreign \/ x3 \in 0 .. 255
      /\ x4 = Foreign \/ x4 \in 0 .. 255
  BY <1>3
<1>5. MeanOf(p, w, b) = Mean4(x1, x2, x3, x4)
  BY DEF MeanOf
<1> DEFINE four == <<x1, x2, x3, x4>>
<1>6. BlockMean(p, w, b)
         = IF \E k \in 1 .. 4 : four[k] = Foreign THEN Foreign
           ELSE (x1 + x2 + x3 + x4 + 2) \div 4
  BY <1>2, Zenon DEF BlockMean
<1> HIDE DEF x1, x2, x3, x4
<1>7. (\E k \in 1 .. 4 : four[k] = Foreign) <=> Foreign \in {x1, x2, x3, x4}
  OBVIOUS
<1>8. CASE Foreign \in {x1, x2, x3, x4}
  BY <1>5, <1>6, <1>7, <1>8 DEF Mean4
<1>9. CASE Foreign \notin {x1, x2, x3, x4}
  <2>1. x1 \in 0 .. 255 /\ x2 \in 0 .. 255 /\ x3 \in 0 .. 255 /\ x4 \in 0 .. 255
    BY <1>4, <1>9
  <2>2. ~((x1 + x2 + x3 + x4 + 2) \div 4 > 255)
    BY <2>1
  <2>3. Mean4(x1, x2, x3, x4) = (x1 + x2 + x3 + x4 + 2) \div 4
    BY <1>9, <2>2 DEF Mean4
  <2> QED BY <1>5, <1>6, <1>7, <1>9, <2>3
<1> QED BY <1>8, <1>9

(* The last block that goes to a place is the one of the greatest row.     *)
LEMMA GoalIs ==
    ASSUME NEW w \in Nat, NEW h \in Nat, NEW o
    PROVE  \A b : b \in Going(w, h, o) <=> b \in Blocks(w, h) /\ TargetAt(w, b) = o
BY DEF Going, TargetAt, Target

(* The block whose mean a place keeps is the one the reference chooses.    *)
LEMMA LastIsChosen ==
    ASSUME NEW w \in Nat, NEW h \in Nat, NEW o, NEW m,
           LastAt(w, NumBlocks(w, h), m, o)
    PROVE  /\ BlockAt(w, m) \in Going(w, h, o)
           /\ (CHOOSE b \in Going(w, h, o) : \A c \in Going(w, h, o) : c[2] <= b[2])
                 = BlockAt(w, m)
<1> DEFINE n == NumBlocks(w, h)
           B == BlockAt(w, m)
           G == Going(w, h, o)
<1>1. n \in Nat /\ m \in 1 .. n /\ Goal(w, m) = o /\ \A j \in m + 1 .. n : Goal(w, j) # o
  BY NumBlocksType DEF LastAt
<1>2. B \in Blocks(w, h) /\ B \in G
  <2>1. B \in Blocks(w, h)
    BY <1>1, BlockAtIn
  <2> QED BY <1>1, <2>1, GoalIs DEF Goal
<1>3. ASSUME NEW c \in G PROVE c[2] <= B[2]
  <2>1. c \in Blocks(w, h) /\ TargetAt(w, c) = o
    BY GoalIs
  <2>2. PICK j \in 1 .. n : c = BlockAt(w, j)
    BY <2>1, EveryBlock DEF BlockAt
  <2>3. Goal(w, j) = o
    BY <2>1, <2>2 DEF Goal
  <2>4. j = m \/ j < m
    <3>1. j \notin m + 1 .. n
      BY <1>1, <2>3
    <3> HIDE DEF n
    <3> QED BY <1>1, <3>1
  <2>5. j < m => Before(c, B)
    BY <1>1, <2>2, CornersInOrder DEF BlockAt
  <2>6. c[2] \in Nat /\ B[2] \in Nat
    BY <1>2, <2>1, BlockIn
  <2> QED BY <2>2, <2>4, <2>5, <2>6 DEF Before
<1>4. ASSUME NEW x \in G, \A c \in G : c[2] <= x[2] PROVE x = B
  <2>1. x \in Blocks(w, h) /\ TargetAt(w, x) = o /\ TargetAt(w, B) = o
    BY <1>2, GoalIs
  <2> HIDE DEF B, G
  <2>2. x[2] = B[2]
    <3>1. x[2] \in Nat /\ B[2] \in Nat
      BY <1>2, <2>1, BlockIn
    <3> QED BY <1>2, <1>3, <1>4, <3>1
  <2>3. PICK p, q \in Nat : x[1] = 2 * p /\ x[2] = 2 * q /\ x[1] \div 2 = p /\ x[2] \div 2 = q
    BY <2>1, Halves
  <2>4. PICK r, s \in Nat : B[1] = 2 * r /\ B[2] = 2 * s /\ B[1] \div 2 = r /\ B[2] \div 2 = s
    BY <1>2, Halves
  <2>5. q = s /\ q * (w \div 2) + p = s * (w \div 2) + r
    <3>1. q = s
      BY <2>2, <2>3, <2>4
    <3> QED BY <2>1, <2>3, <2>4, <3>1 DEF TargetAt, Target
  <2>6. p = r
    <3>1. w \div 2 \in Nat /\ q * (w \div 2) \in Nat
      OBVIOUS
    <3> QED BY <2>5, <3>1
  <2>7. x = <<x[1], x[2]>> /\ B = <<B[1], B[2]>>
    BY <1>2, <2>1, BlockIn
  <2> QED BY <2>2, <2>3, <2>4, <2>6, <2>7
<1> HIDE DEF B, G
<1>5. (CHOOSE b \in G : \A c \in G : c[2] <= b[2]) = B
  BY <1>2, <1>3, <1>4
<1> QED BY <1>2, <1>5 DEF B, G

(* What the loop leaves at a place in the plane.                           *)
LEMMA QuarterIn ==
    ASSUME NEW w \in Nat, NEW h \in Nat, NEW o \in 0 .. (w * h) \div 4 - 1
    PROVE  o \in Cells(w, h)
<1>1. w * h \in Nat
  OBVIOUS
<1>2. \A n \in Nat : n \div 4 \in Nat /\ n \div 4 <= n
  OBVIOUS
<1> QED BY <1>1, <1>2 DEF Cells

(* "(a + b + c + d + 2) >> 2" into the plane it is taken from: the quarter *)
(* of the plane that is written out holds the means of the blocks of the   *)
(* plane as it was, for planes of any size (swap_color.c:146).             *)
THEOREM MeansAsBefore ==
    ASSUME NEW w \in Nat, NEW h \in Nat, NEW p \in [Cells(w, h) -> 0 .. 255]
    PROVE  [o \in 0 .. (w * h) \div 4 - 1 |-> Subsampled(p, w, h)[o]] = BlockMeans(p, w, h)
<1> DEFINE n == NumBlocks(w, h)
           q == Subsampled(p, w, h)
           Quarter == 0 .. (w * h) \div 4 - 1
           Chosen(o) == CHOOSE b \in Going(w, h, o) : \A c \in Going(w, h, o) : c[2] <= b[2]
<1>1. p \in Plane(w, h)
  <2>1. \A k \in 0 .. 255 : k \in 0 .. 256
    OBVIOUS
  <2> QED BY <2>1 DEF Plane
<1>2. Averaged(q, p, w, h, n)
  BY <1>1, SubsampledIsAveraged
<1>3. BlockMeans(p, w, h)
         = [o \in Quarter |-> IF Going(w, h, o) = {} THEN p[o] ELSE BlockMean(p, w, Chosen(o))]
  BY DEF BlockMeans
<1> HIDE DEF q, n
<1>4. ASSUME NEW o \in Quarter
      PROVE  q[o] = IF Going(w, h, o) = {} THEN p[o] ELSE BlockMean(p, w, Chosen(o))
  <2>1. o \in Cells(w, h)
    BY QuarterIn
  <2> HIDE DEF Quarter
  <2>2. CASE NoneAt(w, n, o) /\ q[o] = p[o]
    <3>1. ASSUME NEW b \in Going(w, h, o) PROVE FALSE
      <4>1. b \in Blocks(w, h) /\ TargetAt(w, b) = o
        BY GoalIs
      <4>2. PICK k \in 1 .. n : b = BlockAt(w, k)
        BY <4>1, EveryBlock DEF BlockAt, n
      <4> QED BY <2>2, <4>1, <4>2 DEF NoneAt, Goal
    <3> QED BY <2>2, <3>1
  <2>3. ASSUME NEW m \in 1 .. n, LastAt(w, n, m, o), q[o] = MeanOf(p, w, BlockAt(w, m))
        PROVE  q[o] = IF Going(w, h, o) = {} THEN p[o] ELSE BlockMean(p, w, Chosen(o))
    <3>1. BlockAt(w, m) \in Going(w, h, o) /\ Chosen(o) = BlockAt(w, m)
      BY <2>3, LastIsChosen DEF n
    <3>2. BlockAt(w, m) \in Blocks(w, h)
      BY BlockAtIn DEF n
    <3>3. q[o] = BlockMean(p, w, BlockAt(w, m))
      BY <2>3, <3>2, MeansEqual
    <3> HIDE DEF Chosen
    <3> QED BY <3>1, <3>3
  <2> QED BY <1>2, <2>1, <2>2, <2>3, Zenon DEF Averaged
<1> HIDE DEF Quarter, Chosen
<1>5. [o \in Quarter |-> q[o]] = BlockMeans(p, w, h)
  BY <1>3, <1>4, Zenon
<1> QED BY <1>5 DEF q, Quarter

(* The places of the quarter and the blocks of a plane of even sizes.      *)
LEMMA CornerOf ==
    ASSUME NEW w \in Nat, NEW h \in Nat, NEW k \in 1 .. NumBlocks(w, h)
    PROVE  \E p \in 0 .. Cols(w) - 1, q \in 0 .. Cols(h) - 1 :
              k - 1 = q * Cols(w) + p /\ BlockAt(w, k) = <<2 * p, 2 * q>>
BY CornerIs DEF BlockAt

(* Where width and height are even, as many places as blocks.              *)
LEMMA EvenSizes ==
    ASSUME NEW w \in Nat, NEW h \in Nat, w % 2 = 0, h % 2 = 0
    PROVE  /\ NumBlocks(w, h) = (w * h) \div 4
           /\ \A k \in 1 .. NumBlocks(w, h) : Goal(w, k) = k - 1
<1>1. PICK m \in Nat : w = 2 * m /\ w \div 2 = m /\ (w + 1) \div 2 = m
  <2>1. w \div 2 \in Nat /\ w = 2 * (w \div 2) /\ (w + 1) \div 2 = w \div 2
    OBVIOUS
  <2> QED BY <2>1
<1>2. PICK n \in Nat : h = 2 * n /\ (h + 1) \div 2 = n
  <2>1. h \div 2 \in Nat /\ h = 2 * (h \div 2) /\ (h + 1) \div 2 = h \div 2
    OBVIOUS
  <2> QED BY <2>1
<1>3. (w * h) \div 4 = m * n
  <2>1. m * n \in Nat /\ (2 * m) * (2 * n) = 4 * (m * n)
    OBVIOUS
  <2>2. \A k \in Nat : (4 * k) \div 4 = k
    OBVIOUS
  <2> QED BY <1>1, <1>2, <2>1, <2>2
<1>4. Cols(w) = m /\ Cols(h) = n
  BY <1>1, <1>2 DEF Cols
<1>5. ASSUME NEW k \in 1 .. NumBlocks(w, h) PROVE Goal(w, k) = k - 1
  <2>1. PICK p \in 0 .. m - 1, q \in 0 .. n - 1 :
           k - 1 = q * m + p /\ BlockAt(w, k) = <<2 * p, 2 * q>>
    BY <1>4, CornerOf, Zenon
  <2>2. (2 * p) \div 2 = p /\ (2 * q) \div 2 = q
    <3>1. \A x \in Nat : (2 * x) \div 2 = x
      OBVIOUS
    <3>2. p \in Nat /\ q \in Nat
      BY <1>1, <1>2
    <3> QED BY <3>1, <3>2
  <2>3. Goal(w, k) = ((2 * q) \div 2) * (w \div 2) + (2 * p) \div 2
    BY <2>1 DEF Goal, TargetAt, Target
  <2> QED BY <1>1, <2>1, <2>2, <2>3
<1> QED BY <1>3, <1>4, <1>5 DEF NumBlocks

(* A quarter of an even plane has as many places as there are blocks.      *)
LEMMA AsManyBlocks ==
    ASSUME NEW w \in Nat, NEW h \in Nat, w % 2 = 0, h % 2 = 0
    PROVE  Cardinality(Blocks(w, h)) = Cardinality(0 .. (w * h) \div 4 - 1)
<1> DEFINE n == NumBlocks(w, h)
           S == 1 .. n
           F == [k \in S |-> BlockAt(w, k)]
<1>1. n \in Nat /\ n = (w * h) \div 4
  BY NumBlocksType, EvenSizes
<1>2. F \in [S -> Blocks(w, h)]
  BY BlockAtIn
<1>3. ASSUME NEW a \in S, NEW b \in S, F[a] = F[b] PROVE a = b
  <2>1. Goal(w, a) = a - 1 /\ Goal(w, b) = b - 1
    BY EvenSizes
  <2>2. BlockAt(w, a) = BlockAt(w, b)
    BY <1>3
  <2>3. a - 1 = b - 1
    BY <2>1, <2>2 DEF Goal
  <2>4. a \in Nat /\ b \in Nat
    BY <1>1
  <2> QED BY <2>3, <2>4
<1>4. ASSUME NEW t \in Blocks(w, h) PROVE \E s \in S : F[s] = t
  <2>1. PICK k \in S : t = BlockAt(w, k)
    BY EveryBlock DEF BlockAt
  <2> QED BY <2>1
<1> HIDE DEF n, F
<1>5. F \in Bijection(S, Blocks(w, h))
  BY <1>2, <1>3, <1>4, Fun_IsBij
<1>6. ExistsBijection(S, Blocks(w, h))
  BY <1>5 DEF ExistsBijection
<1>7. IsFiniteSet(S) /\ Cardinality(S) = n
  <2>1. Cardinality(1 .. n) = IF 1 > n THEN 0 ELSE n - 1 + 1
    BY <1>1, FS_Interval
  <2> QED BY <1>1, <2>1, FS_Interval
<1>8. Cardinality(Blocks(w, h)) = n
  BY <1>6, <1>7, FS_Bijection
<1>9. Cardinality(0 .. n - 1) = n
  <2>1. n - 1 \in Int /\ Cardinality(0 .. n - 1) = IF 0 > n - 1 THEN 0 ELSE (n - 1) - 0 + 1
    BY <1>1, FS_Interval
  <2> QED BY <1>1, <2>1
<1> QED BY <1>1, <1>8, <1>9

(* In an even plane every place of the quarter gets a mean.                *)
LEMMA NoneForeign ==
    ASSUME NEW w \in Nat, NEW h \in Nat, w % 2 = 0, h % 2 = 0,
           NEW p \in [Cells(w, h) -> 0 .. 255], NEW o \in 0 .. (w * h) \div 4 - 1
    PROVE  BlockMeans(p, w, h)[o] # Foreign
<1> DEFINE Chosen == CHOOSE b \in Going(w, h, o) : \A c \in Going(w, h, o) : c[2] <= b[2]
<1>1. p \in Plane(w, h)
  <2>1. \A k \in 0 .. 255 : k \in 0 .. 256
    OBVIOUS
  <2> QED BY <2>1 DEF Plane
<1>2. o + 1 \in 1 .. NumBlocks(w, h) /\ Goal(w, o + 1) = o
  <2>1. NumBlocks(w, h) \in Nat /\ NumBlocks(w, h) = (w * h) \div 4
    BY NumBlocksType, EvenSizes
  <2>2. o + 1 \in 1 .. NumBlocks(w, h) /\ (o + 1) - 1 = o
    BY <2>1
  <2> QED BY <2>2, EvenSizes
<1>3. Averaged(Subsampled(p, w, h), p, w, h, NumBlocks(w, h)) /\ o \in Cells(w, h)
  BY <1>1, SubsampledIsAveraged, QuarterIn
<1>4. PICK m : /\ LastAt(w, NumBlocks(w, h), m, o)
               /\ Subsampled(p, w, h)[o] = MeanOf(p, w, BlockAt(w, m))
  BY <1>2, <1>3, Zenon DEF Averaged, NoneAt
<1> DEFINE b == BlockAt(w, m)
<1>5. b \in Blocks(w, h)
  BY <1>4, BlockAtIn DEF LastAt
<1>6. BlockMeans(p, w, h)[o] = MeanOf(p, w, b)
  <2>1. BlockMeans(p, w, h) = [i \in 0 .. (w * h) \div 4 - 1 |-> Subsampled(p, w, h)[i]]
    BY MeansAsBefore, Zenon
  <2>2. BlockMeans(p, w, h)[o] = Subsampled(p, w, h)[o]
    BY <2>1, Zenon
  <2> QED BY <1>4, <2>2, Zenon
<1> HIDE DEF b
<1>7. \A x, y \in {0, 1} : (b[2] + y) * w + (b[1] + x) \in Cells(w, h)
  BY <1>5, MeansFillTheQuarter DEF Cells
<1>8. b[1] \in Nat /\ b[2] \in Nat /\ b[2] * w \in Nat /\ (b[2] + 1) * w \in Nat
  BY <1>5, BlockIn
<1>9. /\ b[2] * w + b[1] \in Cells(w, h) /\ b[2] * w + b[1] + 1 \in Cells(w, h)
      /\ (b[2] + 1) * w + b[1] \in Cells(w, h) /\ (b[2] + 1) * w + b[1] + 1 \in Cells(w, h)
  <2>1. /\ (b[2] + 0) * w + (b[1] + 0) = b[2] * w + b[1]
        /\ (b[2] + 0) * w + (b[1] + 1) = b[2] * w + b[1] + 1
        /\ (b[2] + 1) * w + (b[1] + 0) = (b[2] + 1) * w + b[1]
        /\ (b[2] + 1) * w + (b[1] + 1) = (b[2] + 1) * w + b[1] + 1
    <3>1. b[2] + 0 = b[2]
      BY <1>8
    <3> QED BY <1>8, <3>1
  <2>2. /\ (b[2] + 0) * w + (b[1] + 0) \in Cells(w, h)
        /\ (b[2] + 0) * w + (b[1] + 1) \in Cells(w, h)
        /\ (b[2] + 1) * w + (b[1] + 0) \in Cells(w, h)
        /\ (b[2] + 1) * w + (b[1] + 1) \in Cells(w, h)
    <3>1. 0 \in {0, 1} /\ 1 \in {0, 1}
      OBVIOUS
    <3> QED BY <1>7, <3>1
  <2> QED BY <2>1, <2>2
<1>10. ASSUME NEW c \in Cells(w, h) PROVE At(p, c) \in 0 .. 255
  BY DEF At
<1>11. ASSUME NEW a1 \in 0 .. 255, NEW a2 \in 0 .. 255, NEW a3 \in 0 .. 255, NEW a4 \in 0 .. 255
       PROVE  Mean4(a1, a2, a3, a4) # Foreign
  <2>1. Foreign \notin {a1, a2, a3, a4}
    BY DEF Foreign
  <2>2. (a1 + a2 + a3 + a4 + 2) \div 4 <= 255 /\ (a1 + a2 + a3 + a4 + 2) \div 4 \in Nat
    OBVIOUS
  <2> QED BY <2>1, <2>2 DEF Mean4, Foreign
<1>12. MeanOf(p, w, b) # Foreign
  BY Zenon, <1>9, <1>10, <1>11 DEF MeanOf
<1> QED BY <1>6, <1>12

(* What swap_y4m writes of three planes.                                   *)
Written(y, u, v, w, h) ==
    [y |-> [o \in 0 .. w * h - 1 |-> y[o]],
     u |-> [o \in 0 .. (w * h) \div 4 - 1 |-> u[o]],
     v |-> [o \in 0 .. (w * h) \div 4 - 1 |-> v[o]]]

(* What a frame is made of.                                                *)
LEMMA FrameIs ==
    ASSUME NEW w \in Nat, NEW h \in Nat, NEW y, NEW u, NEW v
    PROVE  Frame(swap_yuv2yuv420([y |-> y, u |-> u, v |-> v], w, h), w, h)
              = Written(y, Subsampled(u, w, h), Subsampled(v, w, h), w, h)
<1> DEFINE a == Subsampled(u, w, h)
           b == Subsampled(v, w, h)
           im == [y |-> y, u |-> u, v |-> v]
<1>1. swap_yuv2yuv420(im, w, h) = [y |-> y, u |-> a, v |-> b]
  <2>1. im.u = u /\ im.v = v
    OBVIOUS
  <2>2. swap_yuv2yuv420(im, w, h) = [im EXCEPT !.u = a, !.v = b]
    <3> HIDE DEF im
    <3> QED BY <2>1, Zenon DEF swap_yuv2yuv420
  <2> HIDE DEF a, b
  <2>3. [im EXCEPT !.u = a, !.v = b] = [y |-> y, u |-> a, v |-> b]
    <3>1. [im EXCEPT !.u = a] = [y |-> y, u |-> a, v |-> v]
      OBVIOUS
    <3>2. [[y |-> y, u |-> a, v |-> v] EXCEPT !.v = b] = [y |-> y, u |-> a, v |-> b]
      OBVIOUS
    <3> HIDE DEF im
    <3> QED BY <3>1, <3>2
  <2> QED BY <2>2, <2>3
<1> HIDE DEF a, b
<1>2. Frame([y |-> y, u |-> a, v |-> b], w, h) = Written(y, a, b, w, h)
  BY DEF Frame, Written
<1> QED BY <1>1, <1>2 DEF a, b

(* The frame of a picture, and what the property says of it.               *)
FrameOf(im, w, h) == Frame(swap_yuv2yuv420(im, w, h), w, h)
FrameIsRight(answer0, im, w, h) ==
    /\ answer0 = [y |-> im.y, u |-> BlockMeans(im.u, w, h), v |-> BlockMeans(im.v, w, h)]
    /\ w % 2 = 0 /\ h % 2 = 0 =>
          /\ Cardinality(DOMAIN answer0.u) = Cardinality(Blocks(w, h))
          /\ \A o \in DOMAIN answer0.u : Foreign \notin {answer0.u[o], answer0.v[o]}

(* The frame that is written is luma as it is and the means of chroma.     *)
LEMMA FrameWhole ==
    ASSUME NEW w \in Nat, NEW h \in Nat,
           NEW y \in [Cells(w, h) -> 0 .. 255], NEW u \in [Cells(w, h) -> 0 .. 255],
           NEW v \in [Cells(w, h) -> 0 .. 255]
    PROVE  FrameIsRight(FrameOf([y |-> y, u |-> u, v |-> v], w, h),
                        [y |-> y, u |-> u, v |-> v], w, h)
<1> DEFINE A == [y |-> y, u |-> BlockMeans(u, w, h), v |-> BlockMeans(v, w, h)]
<1>1. FrameOf([y |-> y, u |-> u, v |-> v], w, h) = A
  <2>1. [o \in 0 .. w * h - 1 |-> y[o]] = y
    BY DEF Cells
  <2>2. [o \in 0 .. (w * h) \div 4 - 1 |-> Subsampled(u, w, h)[o]] = BlockMeans(u, w, h)
    BY MeansAsBefore
  <2>3. [o \in 0 .. (w * h) \div 4 - 1 |-> Subsampled(v, w, h)[o]] = BlockMeans(v, w, h)
    BY MeansAsBefore
  <2>4. Written(y, Subsampled(u, w, h), Subsampled(v, w, h), w, h) = A
    BY <2>1, <2>2, <2>3, Zenon DEF Written
  <2>5. FrameOf([y |-> y, u |-> u, v |-> v], w, h)
           = Written(y, Subsampled(u, w, h), Subsampled(v, w, h), w, h)
    BY FrameIs, Zenon DEF FrameOf
  <2> QED BY <2>4, <2>5, Zenon
<1>2. A.u = BlockMeans(u, w, h) /\ A.v = BlockMeans(v, w, h)
  OBVIOUS
<1>3. DOMAIN BlockMeans(u, w, h) = 0 .. (w * h) \div 4 - 1
  BY DEF BlockMeans
<1> HIDE DEF A
<1>4. ASSUME w % 2 = 0, h % 2 = 0
      PROVE  /\ Cardinality(DOMAIN A.u) = Cardinality(Blocks(w, h))
             /\ \A o \in DOMAIN A.u : Foreign \notin {A.u[o], A.v[o]}
  <2>1. Cardinality(DOMAIN A.u) = Cardinality(Blocks(w, h))
    BY <1>2, <1>3, <1>4, AsManyBlocks, Zenon
  <2>2. ASSUME NEW o \in 0 .. (w * h) \div 4 - 1
        PROVE  BlockMeans(u, w, h)[o] # Foreign /\ BlockMeans(v, w, h)[o] # Foreign
    BY <1>4, NoneForeign
  <2>3. \A o \in DOMAIN A.u : Foreign \notin {A.u[o], A.v[o]}
    BY <1>2, <1>3, <2>2, Zenon
  <2> QED BY <2>1, <2>3
<1>5. A = [y |-> y, u |-> BlockMeans(u, w, h), v |-> BlockMeans(v, w, h)]
  BY DEF A
<1> DEFINE im == [y |-> y, u |-> u, v |-> v]
<1>6. im.y = y /\ im.u = u /\ im.v = v
  OBVIOUS
<1> HIDE DEF im
<1>7. FrameIsRight(A, im, w, h)
  BY <1>4, <1>5, <1>6, Zenon DEF FrameIsRight
<1> QED BY <1>1, <1>7 DEF im

Picture(w, h) == [Cells(w, h) -> 0 .. 255]

Levels == [k \in 0 .. 255 |-> [y |-> k, u |-> 255 - k, v |-> (k * 7) % 256]]

(* The levels of a plane are bytes.                                        *)
LEMMA LevelsAreBytes ==
    ASSUME NEW k \in 0 .. 255
    PROVE  /\ Levels[k].y \in 0 .. 255 /\ Levels[k].u \in 0 .. 255
           /\ Levels[k].v \in 0 .. 255
<1>1. 255 - k \in 0 .. 255 /\ (k * 7) % 256 \in 0 .. 255
  OBVIOUS
<1> QED BY <1>1, Zenon DEF Levels

(* The planes of an answer are those of the argument.                      *)
LEMMA PlanesOf ==
    ASSUME NEW w \in Nat, NEW h \in Nat, NEW p \in Picture(w, h)
    PROVE  \E y, u, v \in Picture(w, h) :
              swap_mono2yuv(Levels, p) = [y |-> y, u |-> u, v |-> v]
<1> DEFINE y == [o \in Cells(w, h) |-> Levels[p[o]].y]
           u == [o \in Cells(w, h) |-> Levels[p[o]].u]
           v == [o \in Cells(w, h) |-> Levels[p[o]].v]
<1>1. /\ y \in Picture(w, h) /\ u \in Picture(w, h)
      /\ v \in Picture(w, h)
  <2>1. \A o \in Cells(w, h) : p[o] \in 0 .. 255
    BY DEF Picture
  <2> QED BY <2>1, LevelsAreBytes, Zenon DEF Picture
<1>2. DOMAIN p = Cells(w, h)
  BY DEF Picture
<1>3. swap_mono2yuv(Levels, p) = [y |-> y, u |-> u, v |-> v]
  BY <1>2, Zenon DEF swap_mono2yuv
<1> QED BY <1>1, <1>3, Zenon

(* What swap_y4m writes of the planes are means of the planes as they were *)
(* before they were averaged in place, for planes of any sizes, and for    *)
(* even sizes each block has one.                                          *)
THEOREM FramesAlways == Spec => []SubsampledInPlace
<1>1. Init => SubsampledInPlace
  BY DEF Init, SubsampledInPlace, None
<1>2. ASSUME SubsampledInPlace, [Next]_vars PROVE SubsampledInPlace'
  <2>1. CASE UNCHANGED vars
    BY <1>2, <2>1 DEF vars, SubsampledInPlace
  <2>2. CASE Subsample
    <3>1. PICK p \in Planes :
             Call("yuv", <<p, swap_mono2yuv(Levels, p[3])>>,
                  FrameOf(swap_mono2yuv(Levels, p[3]), p[1], p[2]))
      BY <2>2 DEF Subsample, Levels, FrameOf
    <3> DEFINE w == p[1]
               h == p[2]
               im == swap_mono2yuv(Levels, p[3])
    <3>2. w \in Nat /\ h \in Nat /\ p[3] \in Picture(w, h)
      BY PlanesAssumption DEF Cells, Picture
    <3>3. arg' = <<p, im>> /\ answer' = FrameOf(im, w, h)
      BY <3>1 DEF Call
    <3>4. PICK y, u, v \in Picture(w, h) : im = [y |-> y, u |-> u, v |-> v]
      <4> HIDE DEF w, h
      <4>1. \E y, u, v \in Picture(w, h) :
               swap_mono2yuv(Levels, p[3]) = [y |-> y, u |-> u, v |-> v]
        BY <3>2, PlanesOf, Zenon
      <4> QED BY <4>1, Zenon
    <3> HIDE DEF im, w, h
    <3>5. FrameIsRight(FrameOf(im, w, h), im, w, h)
      BY <3>2, <3>4, FrameWhole DEF Picture
    <3>6. arg'[1] = p /\ arg'[2] = im
      BY <3>3
    <3>7. FrameIsRight(answer', arg'[2], arg'[1][1], arg'[1][2])
      BY <3>3, <3>5, <3>6 DEF w, h
    <3> QED BY <3>7, Zenon DEF SubsampledInPlace, FrameIsRight
  <2>3. CASE op' # "yuv"
    BY <2>3 DEF SubsampledInPlace
  <2> QED BY <1>2, <2>1, <2>2, <2>3, Calls
<1> QED BY <1>1, <1>2, PTL DEF Spec

---------------------------------------------------------------------------
(* Dates and names (Dates).                                                *)

(* Tokens are told apart by their kinds.                                   *)
LEMMA Tokens ==
    ASSUME NEW k, NEW l
    PROVE  /\ num(k)[1] = "n" /\ num(k)[2] = k /\ dig(l)[1] = "d" /\ dig(l)[2] = l
           /\ dig(l)[1] # "n" /\ num(k)[1] # "d"
           /\ chr("-")[1] = "c" /\ chr("T")[1] = "c" /\ chr(":")[1] = "c"
           /\ chr(".")[1] = "c" /\ chr("Z")[1] = "c"
           /\ chr("-") # chr("T") /\ chr(":") # chr(".")
BY DEF num, dig, chr

(* A date in its long spelling.                                            *)
Long(y, mo, d, h, mi, s, a, b, c) ==
    <<num(y), chr("-"), num(mo), chr("-"), num(d), chr("T"), num(h), chr(":"), num(mi),
      chr(":"), num(s), chr("."), dig(a), dig(b), dig(c), chr("Z")>>

(* The tokens of a date that is spelled out.                               *)
LEMMA LongIs ==
    ASSUME NEW y, NEW mo, NEW d, NEW h, NEW mi, NEW s, NEW a, NEW b, NEW c
    PROVE  LET T == Long(y, mo, d, h, mi, s, a, b, c)
           IN  /\ DOMAIN T = 1 .. 16 /\ Len(T) = 16
               /\ T[1] = num(y) /\ T[2] = chr("-") /\ T[3] = num(mo) /\ T[4] = chr("-")
               /\ T[5] = num(d) /\ T[6] = chr("T") /\ T[7] = num(h) /\ T[8] = chr(":")
               /\ T[9] = num(mi) /\ T[10] = chr(":") /\ T[11] = num(s) /\ T[12] = chr(".")
               /\ T[13] = dig(a) /\ T[14] = dig(b) /\ T[15] = dig(c) /\ T[16] = chr("Z")
BY DEF Long

(* The weights of the digits.                                              *)
LEMMA MulIs ==
    /\ MUL[1] = 100000 /\ MUL[2] = 10000 /\ MUL[3] = 1000
    /\ MUL[4] = 100 /\ MUL[5] = 10 /\ MUL[6] = 1
BY SMT DEF MUL

(* The number of digits from a place on.                                   *)
DigitsFrom(s, i) ==
    CHOOSE n \in 0 .. Len(s) :
       (\A k \in 0 .. n - 1 : IsDigit(s, i + k)) /\ ~IsDigit(s, i + n)

(* Three digits and no more are counted.                                   *)
LEMMA ThreeDigits ==
    ASSUME NEW s, Len(s) = 16, DOMAIN s = 1 .. 16,
           s[13][1] = "d", s[14][1] = "d", s[15][1] = "d", s[16][1] = "c"
    PROVE  DigitsFrom(s, 13) = 3
<1>1. IsDigit(s, 13) /\ IsDigit(s, 14) /\ IsDigit(s, 15) /\ ~IsDigit(s, 16)
  BY DEF IsDigit
<1>2. \A k \in 0 .. 3 - 1 : IsDigit(s, 13 + k)
  <2>1. \A k \in 0 .. 3 - 1 : 13 + k = 13 \/ 13 + k = 14 \/ 13 + k = 15
    OBVIOUS
  <2> QED BY <1>1, <2>1
<1>3. ASSUME NEW n \in 0 .. 16, \A k \in 0 .. n - 1 : IsDigit(s, 13 + k), ~IsDigit(s, 13 + n)
      PROVE  n = 3
  <2>1. n # 0 /\ n # 1 /\ n # 2
    BY <1>1, <1>3
  <2>2. ~(n > 3)
    <3> SUFFICES ASSUME n > 3 PROVE FALSE
      OBVIOUS
    <3>1. 3 \in 0 .. n - 1 /\ 13 + 3 = 16
      OBVIOUS
    <3>2. IsDigit(s, 13 + 3)
      BY <1>3, <3>1, Zenon
    <3> QED BY <1>1, <3>1, <3>2
  <2> QED BY <2>1, <2>2
<1>4. 3 \in 0 .. 16 /\ ~IsDigit(s, 13 + 3)
  BY <1>1
<1> QED BY <1>2, <1>3, <1>4 DEF DigitsFrom

(* Six digits and no more are counted.                                     *)
LEMMA SixDigits ==
    ASSUME NEW s, Len(s) = 10, DOMAIN s = 1 .. 10, \A k \in 5 .. 10 : s[k][1] = "d"
    PROVE  DigitsFrom(s, 5) = 6
<1>1. (\A k \in 0 .. 6 - 1 : IsDigit(s, 5 + k)) /\ ~IsDigit(s, 5 + 6)
  BY DEF IsDigit
<1>2. ASSUME NEW n \in 0 .. 10, \A k \in 0 .. n - 1 : IsDigit(s, 5 + k), ~IsDigit(s, 5 + n)
      PROVE  n = 6
  <2>1. ~(n < 6)
    <3> SUFFICES ASSUME n < 6 PROVE FALSE
      OBVIOUS
    <3>1. n \in 0 .. 6 - 1
      OBVIOUS
    <3> QED BY <1>1, <1>2, <3>1, Zenon
  <2>2. ~(n > 6)
    <3> SUFFICES ASSUME n > 6 PROVE FALSE
      OBVIOUS
    <3>1. 6 \in 0 .. n - 1
      OBVIOUS
    <3> QED BY <1>1, <1>2, <3>1, Zenon
  <2> QED BY <2>1, <2>2
<1>3. 6 \in 0 .. 10
  OBVIOUS
<1> QED BY <1>1, <1>2, <1>3 DEF DigitsFrom

(* The microseconds are the digits with their weights.                     *)
LEMMA MicrosIs ==
    ASSUME NEW s, NEW i \in Nat
    PROVE  Micros(s, i) =
              LET P(k) == IF k <= DigitsFrom(s, i) THEN s[i + k - 1][2] * MUL[k] ELSE 0
              IN  P(1) + P(2) + P(3) + P(4) + P(5) + P(6)
BY DEF Micros, DigitsFrom

(* The three digits of a date that is spelled out are its microseconds.    *)
LEMMA LongMicros ==
    ASSUME NEW y, NEW mo, NEW d, NEW h, NEW mi, NEW s,
           NEW a \in Nat, NEW b \in Nat, NEW c \in Nat
    PROVE  Micros(Long(y, mo, d, h, mi, s, a, b, c), 13) = 100000 * a + 10000 * b + 1000 * c
<1> DEFINE T == Long(y, mo, d, h, mi, s, a, b, c)
<1>1. /\ DOMAIN T = 1 .. 16 /\ Len(T) = 16
      /\ T[13] = dig(a) /\ T[14] = dig(b) /\ T[15] = dig(c) /\ T[16] = chr("Z")
  BY LongIs
<1> HIDE DEF T
<1>2. /\ T[13][1] = "d" /\ T[14][1] = "d" /\ T[15][1] = "d" /\ T[16][1] = "c"
      /\ T[13][2] = a /\ T[14][2] = b /\ T[15][2] = c
  BY <1>1, Tokens
<1>3. DigitsFrom(T, 13) = 3
  BY <1>1, <1>2, ThreeDigits
<1> DEFINE P(k) == IF k <= DigitsFrom(T, 13) THEN T[13 + k - 1][2] * MUL[k] ELSE 0
<1>4. Micros(T, 13) = P(1) + P(2) + P(3) + P(4) + P(5) + P(6)
  BY MicrosIs
<1>5. P(4) = 0 /\ P(5) = 0 /\ P(6) = 0
  BY <1>3
<1>6. P(1) = a * 100000 /\ P(2) = b * 10000 /\ P(3) = c * 1000
  BY <1>2, <1>3, MulIs, SMT
<1> HIDE DEF P
<1>7. Micros(T, 13) = 100000 * a + 10000 * b + 1000 * c
  BY <1>4, <1>5, <1>6, SMT
<1> QED BY <1>7 DEF T

(* A date that is spelled out is read as it is.                            *)
LEMMA LongDate ==
    ASSUME NEW y, NEW mo, NEW d, NEW h, NEW mi, NEW s,
           NEW a \in Nat, NEW b \in Nat, NEW c \in Nat
    PROVE  p2sc_string2date(Long(y, mo, d, h, mi, s, a, b, c))
              = <<y, mo, d, h, mi, 1000000 * s + (100000 * a + 10000 * b + 1000 * c)>>
<1> DEFINE T == Long(y, mo, d, h, mi, s, a, b, c)
<1>1. /\ DOMAIN T = 1 .. 16
      /\ T[1] = num(y) /\ T[2] = chr("-") /\ T[3] = num(mo) /\ T[4] = chr("-")
      /\ T[5] = num(d) /\ T[6] = chr("T") /\ T[7] = num(h) /\ T[8] = chr(":")
      /\ T[9] = num(mi) /\ T[10] = chr(":") /\ T[11] = num(s) /\ T[12] = chr(".")
  BY LongIs
<1>2. Micros(T, 13) = 100000 * a + 10000 * b + 1000 * c
  BY LongMicros
<1> HIDE DEF T
<1>3. /\ T[1][2] = y /\ T[3][2] = mo /\ T[5][2] = d /\ T[7][2] = h /\ T[9][2] = mi /\ T[11][2] = s
      /\ T[1][1] = "n" /\ T[3][1] = "n" /\ T[5][1] = "n" /\ T[7][1] = "n"
      /\ T[9][1] = "n" /\ T[11][1] = "n"
  BY <1>1, Tokens
<1>4. /\ Is(T, 2, "-") /\ Is(T, 4, "-") /\ Is(T, 6, "T") /\ Is(T, 8, ":") /\ Is(T, 10, ":")
      /\ Is(T, 12, ".")
  BY <1>1 DEF Is
<1>5. /\ IsNum(T, 1) /\ IsNum(T, 3) /\ IsNum(T, 5) /\ IsNum(T, 7) /\ IsNum(T, 9)
      /\ IsNum(T, 11)
  BY <1>1, <1>3 DEF IsNum
<1>6. p2sc_string2date(T) = <<T[1][2], T[3][2], T[5][2], T[7][2], T[9][2],
                              1000000 * T[11][2] + Micros(T, 13)>>
  <2>1. 6 + 1 = 7 /\ 7 + 1 = 8 /\ 7 + 2 = 9 /\ 7 + 3 = 10 /\ 7 + 4 = 11 /\ 7 + 5 = 12 /\ 12 + 1 = 13
    OBVIOUS
  <2> QED BY <1>4, <1>5, <2>1, SMT DEF p2sc_string2date
<1>7. p2sc_string2date(T) = <<y, mo, d, h, mi, 1000000 * s + (100000 * a + 10000 * b + 1000 * c)>>
  BY <1>2, <1>3, <1>6, SMT
<1> QED BY <1>7 DEF T

(* A range that begins at zero holds numbers.                              *)
LEMMA InRange0 ==
    ASSUME NEW n \in Int, NEW x \in 0 .. n
    PROVE  x \in Nat /\ x <= n
OBVIOUS

(* A time of Times is in January, its microseconds below a second.         *)
LEMMA TimeIs ==
    ASSUME NEW t \in Times
    PROVE  t[1] \in Nat /\ t[1] < 31 * 86400 /\ t[2] \in Nat /\ t[2] < 1000000
<1>1. January \in Nat /\ January > 1 /\ January = 31 * 86400
  BY SMT DEF January
<1>2. MUL[1] * 10 = 1000000
  BY MulIs, SMT
<1>3. t[1] \in 0 .. January - 2 /\ t[2] \in 0 .. MUL[1] * 10 - 1
  BY TimesAssumption
<1>4. /\ MUL[1] * 10 - 1 \in Int /\ MUL[1] * 10 - 1 < 1000000
      /\ January - 2 \in Int /\ January - 2 < 31 * 86400
  BY <1>1, <1>2, SMT
<1> DEFINE a == January - 2
           b == MUL[1] * 10 - 1
<1>5. a \in Int /\ b \in Int /\ t[1] \in 0 .. a /\ t[2] \in 0 .. b
  BY <1>3, <1>4, SMT
<1> HIDE DEF a, b
<1>6. t[1] \in Nat /\ t[1] <= a /\ t[2] \in Nat /\ t[2] <= b
  BY <1>5, InRange0, Zenon
<1> QED BY <1>4, <1>5, <1>6, SMT DEF a, b

(* The fields of a time.                                                   *)
LEMMA GmIs ==
    ASSUME NEW s \in Nat
    PROVE  \E d, h, mi, sec \in Nat :
              /\ gmtime(s) = <<1970, 1, d, h, mi, sec>>
              /\ h < 24 /\ mi < 60 /\ sec < 60 /\ d = 1 + s \div 86400
<1>1. /\ 1 + s \div 86400 \in Nat /\ (s \div 3600) % 24 \in Nat /\ (s \div 3600) % 24 < 24
      /\ (s \div 60) % 60 \in Nat /\ (s \div 60) % 60 < 60 /\ s % 60 \in Nat /\ s % 60 < 60
  BY SMT
<1>2. gmtime(s) = <<1970, 1, 1 + s \div 86400, (s \div 3600) % 24, (s \div 60) % 60, s % 60>>
  BY DEF gmtime
<1> HIDE DEF gmtime
<1> QED BY <1>1, <1>2, SMT

GmTime(s, d, h, mi, sec) == gmtime(s) = <<1970, 1, d, h, mi, sec>>

(* The fields of a time of January.                                        *)
LEMMA GmFields ==
    ASSUME NEW s \in Nat
    PROVE  \E d, h, mi, sec \in Nat : GmTime(s, d, h, mi, sec)
<1>1. /\ 1 + s \div 86400 \in Nat /\ (s \div 3600) % 24 \in Nat
      /\ (s \div 60) % 60 \in Nat /\ s % 60 \in Nat
  BY SMT
<1>2. gmtime(s) = <<1970, 1, 1 + s \div 86400, (s \div 3600) % 24, (s \div 60) % 60, s % 60>>
  BY DEF gmtime
<1> HIDE DEF gmtime
<1> QED BY <1>1, <1>2, SMT DEF GmTime

(* The three digits of milliseconds.                                       *)
LEMMA MilliDigits ==
    ASSUME NEW m \in Nat, m < 1000, NEW sec \in Nat
    PROVE  /\ ((1000000 * sec + 1000 * m) + 500) \div 1000 = 1000 * sec + m
           /\ (1000 * sec + m) \div 1000 = sec
           /\ ((1000 * sec + m) \div 100) % 10 = m \div 100
           /\ ((1000 * sec + m) \div 10) % 10 = (m \div 10) % 10
           /\ (1000 * sec + m) % 10 = m % 10
           /\ 100000 * (m \div 100) + 10000 * ((m \div 10) % 10) + 1000 * (m % 10) = 1000 * m
           /\ m \div 100 \in Nat /\ (m \div 10) % 10 \in Nat /\ m % 10 \in Nat
<1>1. ((1000000 * sec + 1000 * m) + 500) \div 1000 = 1000 * sec + m
  BY SMT
<1>2. (1000 * sec + m) \div 1000 = sec
  BY SMT
<1>3. ((1000 * sec + m) \div 100) % 10 = m \div 100
  BY SMT
<1>4. ((1000 * sec + m) \div 10) % 10 = (m \div 10) % 10
  BY SMT
<1>5. (1000 * sec + m) % 10 = m % 10
  BY SMT
<1>6. 100000 * (m \div 100) + 10000 * ((m \div 10) % 10) + 1000 * (m % 10) = 1000 * m
  BY SMT
<1> QED BY <1>1, <1>2, <1>3, <1>4, <1>5, <1>6, SMT

(* How a date with whole milliseconds is spelled.                          *)
LEMMA StringIs ==
    ASSUME NEW y, NEW mo, NEW d, NEW h, NEW mi, NEW sec \in Nat, NEW m \in Nat, m < 1000
    PROVE  p2sc_date2string(<<y, mo, d, h, mi, 1000000 * sec + 1000 * m>>)
              = Long(y, mo, d, h, mi, sec, m \div 100, (m \div 10) % 10, m % 10)
<1> DEFINE u == 1000000 * sec + 1000 * m
           ms == (u + 500) \div 1000
           D == <<y, mo, d, h, mi, u>>
<1>1. /\ ms \div 1000 = sec /\ (ms \div 100) % 10 = m \div 100
      /\ (ms \div 10) % 10 = (m \div 10) % 10 /\ ms % 10 = m % 10
  BY MilliDigits, SMT
<1> HIDE DEF u
<1>2. D[1] = y /\ D[2] = mo /\ D[3] = d /\ D[4] = h /\ D[5] = mi /\ D[6] = u
  OBVIOUS
<1> HIDE DEF D
<1>3. p2sc_date2string(D) = Long(y, mo, d, h, mi, ms \div 1000, (ms \div 100) % 10,
                                 (ms \div 10) % 10, ms % 10)
  <2> DEFINE ns == (D[6] + 500) \div 1000
  <2>1. p2sc_date2string(D) = Long(D[1], D[2], D[3], D[4], D[5], ns \div 1000,
                                   (ns \div 100) % 10, (ns \div 10) % 10, ns % 10)
    BY DEF p2sc_date2string, Long
  <2>2. ns = ms
    BY <1>2
  <2> HIDE DEF ns, ms
  <2> QED BY <1>2, <2>1, <2>2
<1>4. p2sc_date2string(D) = Long(y, mo, d, h, mi, sec, m \div 100, (m \div 10) % 10, m % 10)
  BY <1>1, <1>3
<1> QED BY <1>4 DEF D, u

(* The rounding to milliseconds, carried into the second.                  *)
LEMMA RoundingIs ==
    ASSUME NEW s \in Nat, NEW us \in Nat, us < 1000000
    PROVE  LET ms == (us + 500) \div 1000
           IN  /\ ms \in Nat /\ ms % 1000 \in Nat /\ ms % 1000 < 1000
               /\ Rounded(s, us) = <<s + ms \div 1000, 1000 * (ms % 1000)>>
               /\ s + ms \div 1000 \in Nat
<1> DEFINE ms == (us + 500) \div 1000
<1>1. ms \in Nat /\ ms <= 1000
  BY SMT
<1>2. Rounded(s, us) = IF 1000 * ms >= 1000000 THEN <<s + 1, 0>> ELSE <<s, 1000 * ms>>
  BY DEF Rounded
<1> HIDE DEF ms
<1>3. CASE ms = 1000
  <2>1. ms % 1000 = 0 /\ ms \div 1000 = 1
    BY <1>3
  <2>2. Rounded(s, us) = <<s + 1, 0>>
    BY <1>2, <1>3, SMT
  <2> QED BY <1>1, <2>1, <2>2 DEF ms
<1>4. CASE ms < 1000
  <2>1. ms % 1000 = ms /\ ms \div 1000 = 0
    BY <1>1, <1>4
  <2>2. Rounded(s, us) = <<s, 1000 * ms>>
    BY <1>1, <1>2, <1>4, SMT
  <2>3. s + 0 = s
    OBVIOUS
  <2> QED BY <1>1, <1>4, <2>1, <2>2, <2>3 DEF ms
<1> QED BY <1>1, <1>3, <1>4

(* A time stamp of rounded seconds reads as they are.                      *)
LEMMA StampOf ==
    ASSUME NEW s, NEW us, NEW r \in Nat, NEW m \in Nat, m < 1000,
           Rounded(s, us) = <<r, 1000 * m>>
    PROVE  p2sc_string2date(p2sc_timestamp(s, us)) = Dated(gmtime(r), 1000 * m)
<1>1. PICK d, h, mi, sec \in Nat : GmTime(r, d, h, mi, sec)
  BY GmFields, Zenon
<1> DEFINE E == <<1970, 1, d, h, mi, 1000000 * sec + 1000 * m>>
           F == Dated(gmtime(r), 1000 * m)
           L == Long(1970, 1, d, h, mi, sec, m \div 100, (m \div 10) % 10, m % 10)
<1>2. <<r, 1000 * m>>[1] = r /\ <<r, 1000 * m>>[2] = 1000 * m
  OBVIOUS
<1>3. p2sc_timestamp(s, us) = p2sc_date2string(F)
  <2> DEFINE q == Rounded(s, us)
             M == 1000 * m
  <2>1. q[1] = r /\ q[2] = M
    BY <1>2
  <2>2. p2sc_timestamp(s, us) = p2sc_date2string(Dated(gmtime(q[1]), q[2]))
    BY SMT DEF p2sc_timestamp
  <2> HIDE DEF q, M
  <2> QED BY <2>1, <2>2, SMT DEF M
<1>4. F = E
  BY <1>1, SMT DEF GmTime, Dated
<1>5. p2sc_date2string(E) = L
  BY StringIs, SMT
<1>6. /\ m \div 100 \in Nat /\ (m \div 10) % 10 \in Nat /\ m % 10 \in Nat
      /\ 100000 * (m \div 100) + 10000 * ((m \div 10) % 10) + 1000 * (m % 10) = 1000 * m
  BY MilliDigits, SMT
<1>7. p2sc_string2date(L) = E
  BY <1>6, LongDate, SMT
<1>8. p2sc_timestamp(s, us) = p2sc_date2string(F) /\ F = E
  BY <1>3, <1>4
<1> HIDE DEF E, F, L
<1>9. p2sc_string2date(p2sc_timestamp(s, us)) = F
  BY <1>5, <1>7, <1>8, Zenon
<1> QED BY <1>9 DEF F

(* A time stamp reads as the instant rounded to milliseconds, carried into *)
(* the second, the minute, the hour and the day where the rounding reaches *)
(* one (p2sc_time.c, p2sc_timestamp).                                      *)
THEOREM StampIsInstant ==
    ASSUME NEW s \in Nat, NEW us \in Nat, us < 1000000
    PROVE  LET ms == (us + 500) \div 1000
           IN  p2sc_string2date(p2sc_timestamp(s, us))
                  = Dated(gmtime(s + ms \div 1000), 1000 * (ms % 1000))
<1> DEFINE ms == (us + 500) \div 1000
           m == ms % 1000
           r == s + ms \div 1000
<1>1. m \in Nat /\ m < 1000 /\ r \in Nat /\ Rounded(s, us) = <<r, 1000 * m>>
  BY RoundingIs
<1>2. p2sc_string2date(p2sc_timestamp(s, us)) = Dated(gmtime(r), 1000 * m)
  BY <1>1, StampOf, SMT
<1> QED BY <1>2

(* A date in its basic spelling, and its six digits.                       *)
Spelled(k, l, digits) == <<num(k), chr("T"), num(l), chr(".")>> \o digits

(* The tokens of a date in its basic spelling.                             *)
LEMMA ShortIs ==
    ASSUME NEW k, NEW l, NEW n
    PROVE  LET T == Spelled(k, l, SixOf(n))
           IN  /\ DOMAIN T = 1 .. 10 /\ Len(T) = 10
               /\ T[1] = num(k) /\ T[2] = chr("T") /\ T[3] = num(l) /\ T[4] = chr(".")
               /\ \A i \in 1 .. 6 : T[i + 4] = dig((n \div MUL[i]) % 10)
<1> DEFINE h == <<num(k), chr("T"), num(l), chr(".")>>
           V == {num(k), num(l), chr("T"), chr(".")} \cup {dig((n \div MUL[i]) % 10) : i \in 1 .. 6}
           g == SixOf(n)
<1>1. /\ h \in Seq(V) /\ Len(h) = 4
      /\ h[1] = num(k) /\ h[2] = chr("T") /\ h[3] = num(l) /\ h[4] = chr(".")
  OBVIOUS
<1>2. g \in Seq(V) /\ Len(g) = 6 /\ \A i \in 1 .. 6 : g[i] = dig((n \div MUL[i]) % 10)
  <2>1. \A i \in 1 .. 6 : dig((n \div MUL[i]) % 10) \in V
    OBVIOUS
  <2> HIDE DEF V
  <2> QED BY <2>1 DEF SixOf
<1> HIDE DEF h, g, V
<1>3. /\ Len(h \o g) = 4 + 6 /\ DOMAIN (h \o g) = 1 .. 10
      /\ \A i \in 1 .. 4 : (h \o g)[i] = h[i]
      /\ \A i \in 1 .. 6 : (h \o g)[i + 4] = g[i]
  <2>1. /\ h \o g \in Seq(V) /\ Len(h \o g) = Len(h) + Len(g)
        /\ \A i \in 1 .. Len(h) + Len(g) :
              (h \o g)[i] = IF i <= Len(h) THEN h[i] ELSE g[i - Len(h)]
    BY <1>1, <1>2, ConcatProperties
  <2>2. DOMAIN (h \o g) = 1 .. 10
    BY <1>1, <1>2, <2>1
  <2>3. \A i \in 1 .. 6 : i + 4 \in 1 .. 4 + 6 /\ ~(i + 4 <= 4) /\ (i + 4) - 4 = i
    OBVIOUS
  <2>4. \A i \in 1 .. 4 : i \in 1 .. 4 + 6 /\ i <= 4
    OBVIOUS
  <2> DEFINE r == h \o g
  <2>5. Len(r) = 4 + 6 /\ \A i \in 1 .. 4 + 6 : r[i] = IF i <= 4 THEN h[i] ELSE g[i - 4]
    BY <1>1, <1>2, <2>1
  <2> HIDE DEF r
  <2>6. ASSUME NEW i \in 1 .. 4 PROVE r[i] = h[i]
    BY <2>4, <2>5
  <2>7. ASSUME NEW i \in 1 .. 6 PROVE r[i + 4] = g[i]
    BY <2>3, <2>5
  <2> QED BY <2>2, <2>5, <2>6, <2>7 DEF r
<1>4. 1 \in 1 .. 4 /\ 2 \in 1 .. 4 /\ 3 \in 1 .. 4 /\ 4 \in 1 .. 4 /\ 4 + 6 = 10
  OBVIOUS
<1> QED BY <1>1, <1>2, <1>3, <1>4, Zenon DEF Spelled, h, g

(* Six digits with their weights are the number again.                     *)
LEMMA SixAgain ==
    ASSUME NEW n \in Nat, n < 1000000
    PROVE  ((n \div 100000) % 10) * 100000 + ((n \div 10000) % 10) * 10000
              + ((n \div 1000) % 10) * 1000 + ((n \div 100) % 10) * 100
              + ((n \div 10) % 10) * 10 + ((n \div 1) % 10) * 1 = n
<1> DEFINE a == n \div 10
           b == n \div 100
           c == n \div 1000
           d == n \div 10000
           e == n \div 100000
<1>1. n = 10 * a + (n % 10) /\ a = 10 * b + (a % 10) /\ n \div 1 = n
  BY SMT
<1>2. b = 10 * c + (b % 10) /\ c = 10 * d + (c % 10)
  BY SMT
<1>3. d = 10 * e + (d % 10) /\ e % 10 = e
  BY SMT
<1>4. /\ a \in Nat /\ b \in Nat /\ c \in Nat /\ d \in Nat /\ e \in Nat
      /\ n % 10 \in Nat /\ a % 10 \in Nat /\ b % 10 \in Nat /\ c % 10 \in Nat /\ d % 10 \in Nat
  BY SMT
<1> HIDE DEF a, b, c, d, e
<1>5. (e % 10) * 100000 + (d % 10) * 10000 + (c % 10) * 1000 + (b % 10) * 100
         + (a % 10) * 10 + (n % 10) * 1 = n
  BY <1>1, <1>2, <1>3, <1>4, SMT
<1> QED BY <1>1, <1>5, SMT DEF a, b, c, d, e

(* The six digits of a date in its basic spelling are its microseconds.    *)
LEMMA ShortMicros ==
    ASSUME NEW k, NEW l, NEW n \in Nat, n < 1000000
    PROVE  Micros(Spelled(k, l, SixOf(n)), 5) = n
<1> DEFINE T == Spelled(k, l, SixOf(n))
<1>1. DOMAIN T = 1 .. 10 /\ Len(T) = 10 /\ \A i \in 1 .. 6 : T[i + 4] = dig((n \div MUL[i]) % 10)
  BY ShortIs
<1> HIDE DEF T
<1>2. \A i \in 1 .. 6 : T[i + 4][1] = "d" /\ T[i + 4][2] = (n \div MUL[i]) % 10
  BY <1>1, Tokens, SMT
<1>3. DigitsFrom(T, 5) = 6
  <2>1. \A j \in 5 .. 10 : j - 4 \in 1 .. 6 /\ (j - 4) + 4 = j
    OBVIOUS
  <2>2. \A j \in 5 .. 10 : T[j][1] = "d"
    BY <1>2, <2>1, SMT
  <2> QED BY <1>1, <2>2, SixDigits, SMT
<1> DEFINE P(j) == IF j <= DigitsFrom(T, 5) THEN T[5 + j - 1][2] * MUL[j] ELSE 0
<1>4. Micros(T, 5) = P(1) + P(2) + P(3) + P(4) + P(5) + P(6)
  BY MicrosIs, SMT
<1>5. /\ P(1) = ((n \div 100000) % 10) * 100000 /\ P(2) = ((n \div 10000) % 10) * 10000
      /\ P(3) = ((n \div 1000) % 10) * 1000 /\ P(4) = ((n \div 100) % 10) * 100
      /\ P(5) = ((n \div 10) % 10) * 10 /\ P(6) = ((n \div 1) % 10) * 1
  <2>1. ASSUME NEW j \in 1 .. 6 PROVE P(j) = ((n \div MUL[j]) % 10) * MUL[j]
    <3>1. j <= 6 /\ 5 + j - 1 = j + 4
      OBVIOUS
    <3> QED BY <1>2, <1>3, <3>1, SMT
  <2> HIDE DEF P
  <2>2. 1 \in 1 .. 6 /\ 2 \in 1 .. 6 /\ 3 \in 1 .. 6 /\ 4 \in 1 .. 6 /\ 5 \in 1 .. 6 /\ 6 \in 1 .. 6
    OBVIOUS
  <2>3. /\ P(1) = ((n \div MUL[1]) % 10) * MUL[1] /\ P(2) = ((n \div MUL[2]) % 10) * MUL[2]
        /\ P(3) = ((n \div MUL[3]) % 10) * MUL[3] /\ P(4) = ((n \div MUL[4]) % 10) * MUL[4]
        /\ P(5) = ((n \div MUL[5]) % 10) * MUL[5] /\ P(6) = ((n \div MUL[6]) % 10) * MUL[6]
    BY <2>1, <2>2
  <2> QED BY <2>3, MulIs, SMT
<1> HIDE DEF P
<1>6. Micros(T, 5) = n
  BY <1>4, <1>5, SixAgain, SMT
<1> QED BY <1>6 DEF T

(* Names that keep numbers and tuples out of the provers' sight.           *)
Fractional(n) == n \in Nat /\ n < 1000000

ShortRight(k, l, n) ==
    p2sc_string2date(Spelled(k, l, SixOf(n)))
       = <<k \div 10000, (k % 10000) \div 100, k % 100,
           l \div 10000, (l % 10000) \div 100, 1000000 * (l % 100) + n>>

(* A date in its basic spelling is read from its two numbers.              *)
LEMMA ShortDate ==
    ASSUME NEW k, NEW l, NEW n, Fractional(n)
    PROVE  ShortRight(k, l, n)
<1>0. n \in Nat /\ n < 1000000
  BY SMT DEF Fractional
<1> DEFINE T == Spelled(k, l, SixOf(n))
<1>1. /\ DOMAIN T = 1 .. 10
      /\ T[1] = num(k) /\ T[2] = chr("T") /\ T[3] = num(l) /\ T[4] = chr(".")
  BY <1>0, ShortIs
<1>2. Micros(T, 5) = n
  BY <1>0, ShortMicros
<1> HIDE DEF T
<1>3. T[1][2] = k /\ T[3][2] = l /\ T[1][1] = "n" /\ T[3][1] = "n"
  BY <1>1, Tokens
<1>4. ~Is(T, 2, "-") /\ Is(T, 2, "T") /\ ~Is(T, 4, ":") /\ Is(T, 4, ".")
  BY <1>1, Tokens DEF Is
<1>5. IsNum(T, 1) /\ IsNum(T, 3)
  BY <1>1, <1>3 DEF IsNum
<1>6. p2sc_string2date(T)
         = <<T[1][2] \div 10000, (T[1][2] % 10000) \div 100, T[1][2] % 100,
             T[3][2] \div 10000, (T[3][2] % 10000) \div 100,
             1000000 * (T[3][2] % 100) + Micros(T, 5)>>
  <2>1. 2 + 1 = 3 /\ 3 + 1 = 4 /\ 4 + 1 = 5
    OBVIOUS
  <2> QED BY <1>4, <1>5, <2>1, SMT DEF p2sc_string2date
<1>7. p2sc_string2date(T)
         = <<k \div 10000, (k % 10000) \div 100, k % 100,
             l \div 10000, (l % 10000) \div 100, 1000000 * (l % 100) + n>>
  BY <1>2, <1>3, <1>6, SMT
<1> QED BY <1>7 DEF T, ShortRight

(* A number of fields of two digits gives the fields back.                 *)
LEMMA TwoDigitParts ==
    ASSUME NEW a \in Nat, NEW b \in Nat, NEW c \in Nat, b < 100, c < 100
    PROVE  LET k == 10000 * a + 100 * b + c
           IN  k \div 10000 = a /\ (k % 10000) \div 100 = b /\ k % 100 = c
<1> DEFINE k == 10000 * a + 100 * b + c
<1>1. k \div 10000 = a
  BY SMT
<1>2. k % 10000 = 100 * b + c
  BY SMT
<1>3. (100 * b + c) \div 100 = b
  BY SMT
<1>4. k % 100 = c
  BY SMT
<1> QED BY <1>1, <1>2, <1>3, <1>4, SMT

(* The names below keep numbers and tuples out of the provers' sight.      *)
Six(a, b, c, d, e, f) == <<a, b, c, d, e, f>>
Full(y, mo, d, h, mi, sec, n) == <<y, mo, d, h, mi, 1000000 * sec + n>>
SecondOf(u) == u \div 1000000

InTwoDigits(y, mo, d, h, mi, sec) ==
    /\ y \in Nat /\ mo \in Nat /\ d \in Nat /\ h \in Nat /\ mi \in Nat /\ sec \in Nat
    /\ mo < 100 /\ d < 100 /\ mi < 100 /\ sec < 100

ReadBack(y, mo, d, h, mi, sec, n) ==
    p2sc_string2date(Basic(Full(y, mo, d, h, mi, sec, n), SixOf(n)))
       = Full(y, mo, d, h, mi, sec, n)

(* A date in its basic spelling is read as the same date.                  *)
LEMMA BasicIsRead ==
    ASSUME NEW y, NEW mo, NEW d, NEW h, NEW mi, NEW sec, NEW n,
           InTwoDigits(y, mo, d, h, mi, sec), Fractional(n)
    PROVE  ReadBack(y, mo, d, h, mi, sec, n)
<1>0. /\ y \in Nat /\ mo \in Nat /\ d \in Nat /\ h \in Nat /\ mi \in Nat /\ sec \in Nat
      /\ mo < 100 /\ d < 100 /\ mi < 100 /\ sec < 100
      /\ n \in Nat /\ n < 1000000
  BY SMT DEF InTwoDigits, Fractional
<1> DEFINE k == 10000 * y + 100 * mo + d
           l == 10000 * h + 100 * mi + sec
           D == <<y, mo, d, h, mi, 1000000 * sec + n>>
<1>1. (1000000 * sec + n) \div 1000000 = sec
  BY <1>0, SMT
<1>2. Basic(D, SixOf(n)) = Spelled(k, l, SixOf(n))
  <2>1. D[1] = y /\ D[2] = mo /\ D[3] = d /\ D[4] = h /\ D[5] = mi /\ D[6] \div 1000000 = sec
    BY <1>1, SMT
  <2> HIDE DEF D
  <2> QED BY <2>1, SMT DEF Basic, Spelled
<1>3. k \div 10000 = y /\ (k % 10000) \div 100 = mo /\ k % 100 = d
  BY <1>0, TwoDigitParts, SMT
<1>4. l \div 10000 = h /\ (l % 10000) \div 100 = mi /\ l % 100 = sec
  BY <1>0, TwoDigitParts, SMT
<1>6. k \in Nat /\ l \in Nat
  BY <1>0, SMT
<1> HIDE DEF k, l
<1>5. p2sc_string2date(Spelled(k, l, SixOf(n)))
         = <<k \div 10000, (k % 10000) \div 100, k % 100,
             l \div 10000, (l % 10000) \div 100, 1000000 * (l % 100) + n>>
  BY ShortDate, SMT DEF ShortRight
<1>7. p2sc_string2date(Basic(D, SixOf(n))) = D
  BY <1>2, <1>3, <1>4, <1>5, SMT
<1> HIDE DEF D
<1>8. D = Full(y, mo, d, h, mi, sec, n)
  BY DEF Full, D
<1> QED BY <1>7, <1>8, SMT DEF ReadBack

InJanuary(s) == s \in Nat /\ s < 31 * 86400

GmShown(s) == \E y, mo, d, h, mi, sec :
    gmtime(s) = Six(y, mo, d, h, mi, sec) /\ InTwoDigits(y, mo, d, h, mi, sec)

(* A time of January has fields of two digits.                             *)
LEMMA GmJanuary ==
    ASSUME NEW s, InJanuary(s)
    PROVE  GmShown(s)
<1>0. s \in Nat /\ s < 31 * 86400
  BY SMT DEF InJanuary
<1> DEFINE y == 1970
           d == 1 + s \div 86400
           h == (s \div 3600) % 24
           mi == (s \div 60) % 60
           sec == s % 60
<1>1. y \in Nat /\ d \in Nat /\ d < 100 /\ h \in Nat /\ mi \in Nat /\ mi < 100 /\ sec \in Nat /\ sec < 100
  BY <1>0, SMT
<1>2. gmtime(s) = Six(y, 1, d, h, mi, sec)
  BY SMT DEF gmtime, Six
<1> HIDE DEF y, d, h, mi, sec
<1>3. InTwoDigits(y, 1, d, h, mi, sec)
  BY <1>1, SMT DEF InTwoDigits
<1> QED BY <1>2, <1>3, Zenon DEF GmShown

(* What the two readers make of the date g with n microseconds.            *)
NameRead(g, n) ==
    <<p2sc_string2date(Basic(Dated(g, n), SixOf(n))),
      p2sc_name_swap_lv0(Basic(Dated(g, n), SixOf(n)))>>

NameRight(g, n) == NameRead(g, n) = <<Dated(g, n), << <<g[1], g[2], g[3]>>, g>> >>

(* Such a date with its microseconds is read as it is.                     *)
LEMMA FullRead ==
    ASSUME NEW y, NEW mo, NEW d, NEW h, NEW mi, NEW sec, NEW n,
           InTwoDigits(y, mo, d, h, mi, sec), Fractional(n)
    PROVE  /\ Dated(Six(y, mo, d, h, mi, sec), n) = Full(y, mo, d, h, mi, sec, n)
           /\ p2sc_string2date(Basic(Full(y, mo, d, h, mi, sec, n), SixOf(n)))
                 = Full(y, mo, d, h, mi, sec, n)
<1>1. /\ y \in Nat /\ mo \in Nat /\ d \in Nat /\ h \in Nat /\ mi \in Nat /\ sec \in Nat
      /\ mo < 100 /\ d < 100 /\ mi < 100 /\ sec < 100
      /\ n \in Nat /\ n < 1000000
  BY SMT DEF InTwoDigits, Fractional
<1>2. Dated(<<y, mo, d, h, mi, sec>>, n) = <<y, mo, d, h, mi, 1000000 * sec + n>>
  BY <1>1, SMT DEF Dated
<1>3. ReadBack(y, mo, d, h, mi, sec, n)
  BY BasicIsRead, Zenon
<1>4. Dated(Six(y, mo, d, h, mi, sec), n) = Full(y, mo, d, h, mi, sec, n)
  BY <1>2 DEF Full, Six
<1> QED BY <1>3, <1>4, Zenon DEF ReadBack

(* The product of such a date is filed under its day and named by its      *)
(* second.                                                                 *)
LEMMA FullNamed ==
    ASSUME NEW y, NEW mo, NEW d, NEW h, NEW mi, NEW sec, NEW n,
           InTwoDigits(y, mo, d, h, mi, sec), Fractional(n),
           NEW x, p2sc_string2date(x) = Full(y, mo, d, h, mi, sec, n)
    PROVE  LET g == Six(y, mo, d, h, mi, sec)
           IN  p2sc_name_swap_lv0(x) = << <<g[1], g[2], g[3]>>, g>>
<1>1. sec \in Nat /\ n \in Nat /\ n < 1000000
  BY SMT DEF InTwoDigits, Fractional
<1> DEFINE D == Full(y, mo, d, h, mi, sec, n)
           g == Six(y, mo, d, h, mi, sec)
<1>2. (1000000 * sec + n) \div 1000000 = sec
  BY <1>1, SMT
<1>3. D[1] = y /\ D[2] = mo /\ D[3] = d /\ D[4] = h /\ D[5] = mi /\ SecondOf(D[6]) = sec
  BY <1>2, SMT DEF Full, SecondOf
<1>4. g[1] = y /\ g[2] = mo /\ g[3] = d
  BY SMT DEF Six
<1>5. p2sc_name_swap_lv0(x)
         = << <<D[1], D[2], D[3]>>, <<D[1], D[2], D[3], D[4], D[5], SecondOf(D[6])>> >>
  BY SMT DEF p2sc_name_swap_lv0, p2sc_dirtree, SecondOf
<1> HIDE DEF D
<1>6. <<D[1], D[2], D[3], D[4], D[5], SecondOf(D[6])>> = g
  BY <1>3, SMT DEF Six
<1> HIDE DEF g
<1>7. <<D[1], D[2], D[3]>> = <<g[1], g[2], g[3]>>
  BY <1>3, <1>4, Zenon
<1> QED BY <1>5, <1>6, <1>7, Zenon DEF g

(* Both together.                                                          *)
LEMMA NameOf ==
    ASSUME NEW g, NEW y, NEW mo, NEW d, NEW h, NEW mi, NEW sec, NEW n,
           g = Six(y, mo, d, h, mi, sec),
           InTwoDigits(y, mo, d, h, mi, sec), Fractional(n)
    PROVE  NameRight(g, n)
<1> DEFINE E == Full(y, mo, d, h, mi, sec, n)
           B == Basic(E, SixOf(n))
<1>1. Dated(g, n) = E
  BY FullRead, Zenon
<1>2. p2sc_string2date(B) = E
  BY FullRead, Zenon
<1>3. p2sc_name_swap_lv0(B) = << <<g[1], g[2], g[3]>>, g>>
  BY <1>2, FullNamed, Zenon
<1> QED BY <1>1, <1>2, <1>3, Zenon DEF NameRight, NameRead

(* A date in its basic spelling is read as the same date, and its product  *)
(* is filed under its day and named by its second (p2sc_name.c).           *)
THEOREM NameIsDate ==
    ASSUME NEW s \in Nat, s < 31 * 86400, NEW n \in Nat, n < 1000000
    PROVE  NameRight(gmtime(s), n)
<1>1. InJanuary(s) /\ Fractional(n)
  BY DEF InJanuary, Fractional
<1> HIDE DEF InJanuary
<1>2. PICK y, mo, d, h, mi, sec :
         gmtime(s) = Six(y, mo, d, h, mi, sec) /\ InTwoDigits(y, mo, d, h, mi, sec)
  BY <1>1, GmJanuary, SMT DEF GmShown
<1> QED BY <1>1, <1>2, NameOf, SMT

StampRight(s, us) ==
    LET ms == (us + 500) \div 1000
    IN  p2sc_string2date(p2sc_timestamp(s, us))
           = Dated(gmtime(s + ms \div 1000), 1000 * (ms % 1000))

StampedRight(t) == t[1] \in Nat /\ t[2] \in Nat /\ StampRight(t[1], t[2])
NamedRight(t) == NameRight(gmtime(t[1]), t[2])

(* Time stamp and name are right for every time of Times.                  *)
LEMMA TimesRight ==
    ASSUME NEW t \in Times
    PROVE  StampedRight(t) /\ NamedRight(t)
<1>1. t[1] \in Nat /\ t[1] < 31 * 86400 /\ t[2] \in Nat /\ t[2] < 1000000
  BY TimeIs, SMT
<1> DEFINE a == t[1]
           b == t[2]
<1> HIDE DEF a, b
<1>2. a \in Nat /\ a < 31 * 86400 /\ b \in Nat /\ b < 1000000
  BY <1>1 DEF a, b
<1>3. StampRight(a, b)
  BY <1>2, StampIsInstant, SMT DEF StampRight
<1>4. NameRight(gmtime(a), b)
  BY <1>2, NameIsDate, SMT
<1> QED BY <1>2, <1>3, <1>4 DEF StampedRight, NamedRight, a, b

(* Dates and time stamps agree, for all times of January.                  *)
THEOREM DatesAlways == Spec => []DatesAgree
<1>1. Init => DatesAgree
  BY SMT DEF Init, DatesAgree, None
<1>2. ASSUME DatesAgree, [Next]_vars PROVE DatesAgree'
  <2>1. CASE UNCHANGED vars
    BY <1>2, <2>1, SMT DEF vars, DatesAgree
  <2>2. CASE Stamp
    <3>1. PICK t \in Times : Call("stamp", t, p2sc_string2date(p2sc_timestamp(t[1], t[2])))
      BY <2>2 DEF Stamp
    <3>3. op' = "stamp" /\ arg' = t /\ answer' = p2sc_string2date(p2sc_timestamp(t[1], t[2]))
      BY <3>1 DEF Call
    <3>4. StampedRight(t)
      BY TimesRight, Zenon
    <3> QED BY <3>3, <3>4, SMT DEF DatesAgree, StampedRight, StampRight
  <2>3. CASE NameProduct
    <3>1. PICK t \in Times : Call("name", t, NameRead(gmtime(t[1]), t[2]))
      BY <2>3, Zenon DEF NameProduct, NameRead
    <3>3. op' = "name" /\ arg' = t /\ answer' = NameRead(gmtime(t[1]), t[2])
      BY <3>1, SMT DEF Call
    <3>4. NamedRight(t)
      BY TimesRight, Zenon
    <3>5. answer' = <<Dated(gmtime(t[1]), t[2]),
                      << <<gmtime(t[1])[1], gmtime(t[1])[2], gmtime(t[1])[3]>>, gmtime(t[1])>> >>
      BY <3>3, <3>4, Zenon DEF NamedRight, NameRight
    <3>6. op' = "name" /\ arg' = t
      BY <3>3
    <3> QED BY <3>5, <3>6, SMT DEF DatesAgree
  <2>4. CASE op' \notin {"stamp", "name"}
    BY <2>4, SMT DEF DatesAgree
  <2> QED BY <1>2, <2>1, <2>2, <2>3, <2>4, Calls, SMT
<1> QED BY <1>1, <1>2, PTL DEF Spec

---------------------------------------------------------------------------
(* Images that are written and read back (Pgm).                            *)

(* A token: a byte, or a decimal number.                                   *)
Token == {"b", "n"} \X Int

(* A token and its parts; no number is a blank.                            *)
LEMMA TokenIs ==
    ASSUME NEW k \in Int
    PROVE  /\ byte(k) \in Token /\ byte(k)[1] = "b" /\ byte(k)[2] = k
           /\ decimal(k) \in Token /\ decimal(k)[1] = "n" /\ decimal(k)[2] = k
           /\ decimal(k) \notin Blanks
           /\ (byte(k) \in Blanks) = (k \in {32, 9, 10, 13})
<1>1. byte(k) \in Token /\ decimal(k) \in Token
  BY DEF byte, decimal, Token
<1>2. byte(k)[1] = "b" /\ byte(k)[2] = k /\ decimal(k)[1] = "n" /\ decimal(k)[2] = k
  BY DEF byte, decimal
<1>3. \A j : byte(j)[1] = "b" /\ byte(j)[2] = j
  BY DEF byte
<1>4. decimal(k) \notin Blanks
  BY <1>2, <1>3 DEF Blanks
<1>5. (byte(k) \in Blanks) = (k \in {32, 9, 10, 13})
  BY <1>3 DEF Blanks
<1> QED BY <1>1, <1>2, <1>4, <1>5

(* The tokens of a file from one of them on.                               *)
From(f, p) == SubSeq(f, p, Len(f))

(* The tokens from one on, and the first of them.                          *)
LEMMA FromIs ==
    ASSUME NEW T, NEW f \in Seq(T), NEW p \in Nat, p > 0
    PROVE  /\ From(f, p) \in Seq(T)
           /\ p <= Len(f) + 1 => Len(From(f, p)) = Len(f) + 1 - p
           /\ p > Len(f) => From(f, p) = <<>>
           /\ \A i \in 1 .. Len(f) + 1 - p : From(f, p)[i] = f[p + i - 1]
           /\ p <= Len(f) => Tail(From(f, p)) = From(f, p + 1) /\ Head(From(f, p)) = f[p]
                             /\ From(f, p) # <<>> /\ From(f, p)[1] = f[p]
           /\ p + 1 <= Len(f) => From(f, p)[2] = f[p + 1]
<1> DEFINE n == Len(f)
<1>0. n \in Nat
  OBVIOUS
<1>1. /\ From(f, p) \in Seq(T)
      /\ p <= n + 1 => Len(From(f, p)) = n + 1 - p
      /\ \A i \in 1 .. n + 1 - p : From(f, p)[i] = f[p + i - 1]
  BY SubSeqProperties DEF From
<1>2. p > n => From(f, p) = <<>>
  BY SubSeqProperties DEF From
<1>3. ASSUME p <= n
      PROVE  Tail(From(f, p)) = From(f, p + 1) /\ Head(From(f, p)) = f[p] /\ From(f, p) # <<>>
  <2> DEFINE g == From(f, p)
             h == From(f, p + 1)
  <2>1. g \in Seq(T) /\ Len(g) = n + 1 - p /\ Len(g) > 0 /\ g[1] = f[p]
    BY <1>0, <1>1, <1>3
  <2>2. \A i \in 1 .. n + 1 - p : g[i] = f[p + i - 1]
    BY <1>1
  <2>3. /\ h \in Seq(T) /\ Len(h) = n - p
        /\ \A i \in 1 .. n - p : h[i] = f[p + i]
    BY <1>3, SubSeqProperties DEF From
  <2> HIDE DEF g, h
  <2>4. g # <<>> /\ Head(g) = g[1]
    BY <2>1
  <2>5. Tail(g) \in Seq(T) /\ Len(Tail(g)) = n - p /\ \A i \in 1 .. n - p : Tail(g)[i] = g[i + 1]
    BY <1>0, <1>3, <2>1, <2>4, HeadTailProperties
  <2>6. ASSUME NEW i \in 1 .. n - p PROVE Tail(g)[i] = h[i]
    <3>1. i + 1 \in 1 .. n + 1 - p /\ p + (i + 1) - 1 = p + i
      BY <1>0
    <3>2. g[i + 1] = f[p + i]
      BY <2>2, <3>1
    <3> QED BY <2>3, <2>5, <3>2
  <2>7. Tail(g) = h
    <3> DEFINE t == Tail(g)
    <3>1. t \in Seq(T) /\ Len(t) = Len(h) /\ h \in Seq(T) /\ Len(h) = n - p
      BY <2>3, <2>5
    <3>2. \A i \in 1 .. n - p : t[i] = h[i]
      BY <2>6
    <3> HIDE DEF t
    <3>3. \A i \in 1 .. Len(t) : t[i] = h[i]
      BY <3>1, <3>2
    <3>4. t = h
      BY <3>1, <3>3, SeqEqual
    <3> QED BY <3>4 DEF t
  <2> QED BY <2>1, <2>4, <2>7 DEF g, h
<1>4. ASSUME p <= n PROVE From(f, p)[1] = f[p]
  <2>1. 1 \in 1 .. n + 1 - p /\ p + 1 - 1 = p
    BY <1>0, <1>4
  <2> QED BY <1>1, <2>1
<1>5. ASSUME p + 1 <= n PROVE From(f, p)[2] = f[p + 1]
  <2>1. 2 \in 1 .. n + 1 - p /\ p + 2 - 1 = p + 1
    BY <1>0, <1>5
  <2> QED BY <1>1, <2>1
<1> QED BY <1>1, <1>2, <1>3, <1>4, <1>5

(* What blank() leaves is decided by the first that is no blank.           *)
FirstOf(g, m) == \A j \in DOMAIN g : g[j] \notin Blanks => m <= j

(* Of blanks alone nothing is left.                                        *)
LEMMA AllBlank ==
    ASSUME NEW g, \A i \in DOMAIN g : g[i] \in Blanks
    PROVE  Skipped(g) = <<>>
<1>1. {i \in DOMAIN g : g[i] \notin Blanks} = {}
  OBVIOUS
<1> QED BY <1>1, Zenon DEF Skipped

(* What is left begins with the first that is no blank.                    *)
LEMMA FirstLeft ==
    ASSUME NEW g, DOMAIN g \subseteq Int, NEW m \in DOMAIN g, g[m] \notin Blanks, FirstOf(g, m)
    PROVE  Skipped(g) = SubSeq(g, m, Len(g))
<1> DEFINE at == {i \in DOMAIN g : g[i] \notin Blanks}
<1>1. m \in at /\ \A j \in at : m <= j
  BY DEF FirstOf
<1>2. at \subseteq Int
  OBVIOUS
<1>3. Skipped(g) = SubSeq(g, CHOOSE i \in at : \A j \in at : i <= j, Len(g))
  <2>1. at # {}
    BY <1>1
  <2> QED BY <2>1, Zenon DEF Skipped
<1> HIDE DEF at
<1>4. PICK i \in at : i = (CHOOSE k \in at : \A j \in at : k <= j) /\ \A j \in at : i <= j
  BY <1>1
<1>5. i = m
  <2>1. i <= m /\ m <= i /\ i \in Int /\ m \in Int
    BY <1>1, <1>2, <1>4
  <2> QED BY <2>1
<1> QED BY <1>3, <1>4, <1>5

(* What blank() leaves of the tokens from one on that is a blank.          *)
LEMMA SkipOne ==
    ASSUME NEW T, NEW f \in Seq(T), NEW p \in Nat, p > 0,
           p <= Len(f) => f[p] \in Blanks,
           p + 1 <= Len(f) => f[p + 1] \notin Blanks
    PROVE  Skipped(From(f, p)) = From(f, p + 1)
<1> DEFINE g == From(f, p)
           n == Len(f)
<1>0. n \in Nat
  OBVIOUS
<1>1. CASE p > n
  <2>1. g = <<>> /\ From(f, p + 1) = <<>>
    BY <1>0, <1>1, FromIs
  <2>2. Skipped(<<>>) = <<>>
    <3>1. \A i \in DOMAIN <<>> : <<>>[i] \in Blanks
      OBVIOUS
    <3> QED BY <3>1, AllBlank
  <2> QED BY <2>1, <2>2
<1>2. CASE p = n
  <2>1. g \in Seq(T) /\ Len(g) = 1 /\ g[1] = f[p] /\ From(f, p + 1) = <<>>
    <3>1. p + 1 > n /\ p + 1 \in Nat /\ p + 1 > 0 /\ p <= n /\ n + 1 - p = 1 /\ p <= n + 1
      BY <1>0, <1>2
    <3>2. From(f, p + 1) = <<>>
      BY <3>1, FromIs
    <3> QED BY <3>1, <3>2, FromIs
  <2> HIDE DEF g
  <2>2. \A i \in DOMAIN g : g[i] \in Blanks
    <3>1. DOMAIN g = 1 .. 1 /\ f[p] \in Blanks
      BY <1>2, <2>1
    <3> QED BY <2>1, <3>1
  <2>3. Skipped(g) = <<>>
    BY <2>2, AllBlank
  <2> QED BY <2>1, <2>3 DEF g
<1>3. CASE p < n
  <2>1. /\ g \in Seq(T) /\ Len(g) = n + 1 - p
        /\ g[1] = f[p] /\ g[2] = f[p + 1]
        /\ Tail(g) = From(f, p + 1)
    <3>1. p <= n /\ p <= n + 1 /\ p + 1 <= n
      BY <1>0, <1>3
    <3> QED BY <3>1, FromIs
  <2> HIDE DEF g
  <2>2. 2 \in DOMAIN g /\ DOMAIN g = 1 .. Len(g) /\ g[1] \in Blanks /\ g[2] \notin Blanks
    BY <1>0, <1>3, <2>1
  <2>3. FirstOf(g, 2)
    <3>1. ASSUME NEW j \in 1 .. Len(g), g[j] \notin Blanks PROVE 2 <= j
      <4>1. Len(g) \in Nat
        BY <2>1
      <4>2. j # 1
        BY <2>2, <3>1
      <4> QED BY <4>1, <4>2
    <3> QED BY <2>2, <3>1 DEF FirstOf
  <2>4. Skipped(g) = SubSeq(g, 2, Len(g))
    <3>1. DOMAIN g \subseteq Int
      BY <2>2
    <3> QED BY <2>2, <2>3, <3>1, FirstLeft
  <2>5. SubSeq(g, 2, Len(g)) = Tail(g)
    <3>1. g # <<>>
      BY <1>0, <1>3, <2>1
    <3> QED BY <2>1, <3>1, TailIsSubSeq
  <2> QED BY <1>3, <2>1, <2>4, <2>5 DEF g
<1> QED BY <1>0, <1>1, <1>2, <1>3

(* The same, where the place after the blank has a name.                   *)
LEMMA SkipTo ==
    ASSUME NEW T, NEW f \in Seq(T), NEW p \in Nat, p > 0, NEW q, q = p + 1,
           p <= Len(f) => f[p] \in Blanks,
           q <= Len(f) => f[q] \notin Blanks
    PROVE  Skipped(From(f, p)) = From(f, q)
BY SkipOne

(* The tokens after the first of those from one on.                        *)
LEMMA TailTo ==
    ASSUME NEW T, NEW f \in Seq(T), NEW p \in Nat, p > 0, p <= Len(f), NEW q, q = p + 1
    PROVE  Tail(From(f, p)) = From(f, q)
BY FromIs

(* As much of a header as there is of the file.                            *)
HeadIs(f, k, a, b, c) ==
    /\ 1 <= Len(f) => f[1] = byte(80)
    /\ 2 <= Len(f) => f[2] = k
    /\ 3 <= Len(f) => f[3] = NewLine
    /\ 4 <= Len(f) => f[4] = a
    /\ 5 <= Len(f) => f[5] = byte(32)
    /\ 6 <= Len(f) => f[6] = b
    /\ 7 <= Len(f) => f[7] = NewLine
    /\ 8 <= Len(f) => f[8] = c
    /\ 9 <= Len(f) => f[9] = NewLine

(* Names that keep the limits out of the provers' sight.                   *)
InSide(x) == x \in 1 .. 32767
InMax(x) == x \in 1 .. 65535
IsNumber(g) == g # <<>> /\ Head(g)[1] = "n"
IsP5(f) == Len(f) >= 2 /\ f[1] = byte(80) /\ f[2] = byte(53)

(* What is left of the file where the numbers are.                         *)
HeadLeft(f) ==
    LET f1 == Skipped(From(f, 3))
        f2 == Skipped(Tail(f1))
        f3 == Skipped(Tail(f2))
        f4 == Skipped(Tail(f3))
    IN  <<f1, f2, f3, f4>>

Found(f, g) ==
    /\ IsP5(f) /\ IsNumber(g[1]) /\ IsNumber(g[2]) /\ IsNumber(g[3]) /\ g[4] # <<>>
    /\ InSide(Head(g[1])[2]) /\ InSide(Head(g[2])[2]) /\ InMax(Head(g[3])[2])
Answer(g) == ReadData(g[4], Head(g[1])[2], Head(g[2])[2], Head(g[3])[2])

HeaderFound(g) == [fatal |-> FALSE, w |-> Head(g[1])[2], h |-> Head(g[2])[2],
                   max |-> Head(g[3])[2], data |-> g[4]]

(* A header is read exactly when its numbers are found.                    *)
LEMMA HeaderIs ==
    ASSUME NEW f
    PROVE  ReadHeader(f) = IF Found(f, HeadLeft(f)) THEN HeaderFound(HeadLeft(f)) ELSE Fatal
<1> DEFINE f1 == Skipped(SubSeq(f, 3, Len(f)))
           f2 == Skipped(Tail(f1))
           f3 == Skipped(Tail(f2))
           f4 == Skipped(Tail(f3))
           g == HeadLeft(f)
<1>1. g[1] = f1 /\ g[2] = f2 /\ g[3] = f3 /\ g[4] = f4
  BY SMT DEF HeadLeft, From
<1> HIDE DEF g
<1>2. ReadHeader(f)
         = IF /\ IsP5(f) /\ IsNumber(f1) /\ IsNumber(f2) /\ IsNumber(f3)
              /\ f4 # <<>> /\ InSide(Head(f1)[2]) /\ InSide(Head(f2)[2]) /\ InMax(Head(f3)[2])
           THEN [fatal |-> FALSE, w |-> Head(f1)[2], h |-> Head(f2)[2],
                 max |-> Head(f3)[2], data |-> f4]
           ELSE Fatal
  BY SMT DEF ReadHeader, IsP5, IsNumber, InSide, InMax
<1> HIDE DEF f1, f2, f3, f4
<1>3. ReadHeader(f) = IF Found(f, g) THEN HeaderFound(g) ELSE Fatal
  BY <1>1, <1>2, Zenon DEF Found, HeaderFound
<1> QED BY <1>3 DEF g

(* The reader reads a file whose numbers it finds, and no other.           *)
LEMMA ReadIs ==
    ASSUME NEW f
    PROVE  /\ swap_read_pgm(f) = IF Found(f, HeadLeft(f)) THEN Answer(HeadLeft(f)) ELSE Fatal
           /\ ReadHeader(f).fatal <=> ~Found(f, HeadLeft(f))
<1> DEFINE g == HeadLeft(f)
           header == ReadHeader(f)
<1>1. header = IF Found(f, g) THEN HeaderFound(g) ELSE Fatal
  BY HeaderIs
<1>2. swap_read_pgm(f) = IF header.fatal THEN Fatal
                         ELSE ReadData(header.data, header.w, header.h, header.max)
  BY Zenon DEF swap_read_pgm
<1> HIDE DEF g, header
<1>3. CASE Found(f, g)
  <2>1. /\ header.fatal = FALSE /\ header.data = g[4]
        /\ header.w = Head(g[1])[2] /\ header.h = Head(g[2])[2] /\ header.max = Head(g[3])[2]
    BY <1>1, <1>3 DEF HeaderFound
  <2> QED BY <1>2, <1>3, <2>1, Zenon DEF Answer, g, header
<1>4. CASE ~Found(f, g)
  <2>1. header.fatal = TRUE
    BY <1>1, <1>4 DEF Fatal
  <2> QED BY <1>2, <1>4, <2>1, Zenon DEF g, header
<1> QED BY <1>3, <1>4

(* Where the numbers of a header are found, as far as the file goes.       *)
LEMMA LeftIs ==
    ASSUME NEW f \in Seq(Token), NEW k, NEW a, NEW b, NEW c, HeadIs(f, k, a, b, c),
           a \notin Blanks, b \notin Blanks, c \notin Blanks
    PROVE  LET g == HeadLeft(f)  n == Len(f)
           IN  /\ g[1] = From(f, 4)
               /\ n >= 4 => g[2] = From(f, 6)
               /\ n >= 6 => g[3] = From(f, 8)
               /\ n >= 8 => g[4] = Skipped(From(f, 9))
<1> DEFINE n == Len(f)
           g == HeadLeft(f)
<1>0. n \in Nat /\ NewLine \in Blanks /\ byte(32) \in Blanks
  BY DEF NewLine, Blanks
<1>1. /\ g[1] = Skipped(From(f, 3)) /\ g[2] = Skipped(Tail(g[1]))
      /\ g[3] = Skipped(Tail(g[2])) /\ g[4] = Skipped(Tail(g[3]))
  BY DEF HeadLeft
<1> HIDE DEF g
<1>2. g[1] = From(f, 4)
  <2>1. /\ 3 <= n => f[3] \in Blanks
        /\ 4 <= n => f[4] \notin Blanks
    BY <1>0 DEF HeadIs
  <2>2. Skipped(From(f, 3)) = From(f, 4)
    BY <2>1, SkipTo
  <2> QED BY <1>1, <2>2
<1>3. ASSUME n >= 4 PROVE g[2] = From(f, 6)
  <2>1. Tail(From(f, 4)) = From(f, 5)
    BY <1>0, <1>3, TailTo
  <2>2. /\ 5 <= n => f[5] \in Blanks
        /\ 6 <= n => f[6] \notin Blanks
    BY <1>0 DEF HeadIs
  <2>3. Skipped(From(f, 5)) = From(f, 6)
    BY <2>2, SkipTo
  <2> QED BY <1>1, <1>2, <2>1, <2>3
<1>4. ASSUME n >= 6 PROVE g[3] = From(f, 8)
  <2>1. Tail(From(f, 6)) = From(f, 7)
    BY <1>0, <1>4, TailTo
  <2>2. /\ 7 <= n => f[7] \in Blanks
        /\ 8 <= n => f[8] \notin Blanks
    BY <1>0 DEF HeadIs
  <2>3. Skipped(From(f, 7)) = From(f, 8)
    BY <2>2, SkipTo
  <2>4. g[2] = From(f, 6)
    BY <1>0, <1>3, <1>4
  <2> QED BY <1>1, <2>1, <2>3, <2>4
<1>5. ASSUME n >= 8 PROVE g[4] = Skipped(From(f, 9))
  <2>1. Tail(From(f, 8)) = From(f, 9)
    BY <1>0, <1>5, TailTo
  <2>2. g[3] = From(f, 8)
    BY <1>0, <1>4, <1>5
  <2> QED BY <1>1, <2>1, <2>2
<1> QED BY <1>2, <1>3, <1>4, <1>5 DEF g

NumberIn(t) == t[1] = "n" /\ InSide(t[2])
HeadGood(k, a, b, c) ==
    k = byte(53) /\ NumberIn(a) /\ NumberIn(b) /\ c[1] = "n" /\ InMax(c[2])

(* There is a number exactly where a number was put.                       *)
LEMMA NumberFrom ==
    ASSUME NEW f \in Seq(Token), NEW p \in Nat, p > 0
    PROVE  /\ p > Len(f) => ~IsNumber(From(f, p))
           /\ p <= Len(f) => (IsNumber(From(f, p)) <=> f[p][1] = "n") /\ Head(From(f, p)) = f[p]
<1>1. CASE p > Len(f)
  <2>1. From(f, p) = <<>> /\ ~(p <= Len(f))
    BY <1>1, FromIs
  <2> QED BY <2>1, Zenon DEF IsNumber
<1>2. CASE ~(p > Len(f))
  <2>1. p <= Len(f)
    BY <1>2
  <2>2. From(f, p) # <<>> /\ Head(From(f, p)) = f[p]
    BY <2>1, FromIs
  <2> QED BY <1>2, <2>1, <2>2, Zenon DEF IsNumber
<1> QED BY <1>1, <1>2

(* A file with a header is read exactly when the header is good and there  *)
(* is something after it.                                                  *)
LEMMA ReadHead ==
    ASSUME NEW f \in Seq(Token), NEW k, NEW a, NEW b, NEW c, HeadIs(f, k, a, b, c),
           a \notin Blanks, b \notin Blanks, c \notin Blanks
    PROVE  LET rest == Skipped(From(f, 9))
           IN  swap_read_pgm(f)
                  = IF Len(f) >= 8 /\ HeadGood(k, a, b, c) /\ rest # <<>>
                    THEN ReadData(rest, a[2], b[2], c[2]) ELSE Fatal
<1> DEFINE n == Len(f)
           g == HeadLeft(f)
           rest == Skipped(From(f, 9))
<1>0. n \in Nat
  OBVIOUS
<1>1. swap_read_pgm(f) = IF Found(f, g) THEN Answer(g) ELSE Fatal
  BY ReadIs
<1>2. /\ g[1] = From(f, 4)
      /\ n >= 4 => g[2] = From(f, 6)
      /\ n >= 6 => g[3] = From(f, 8)
      /\ n >= 8 => g[4] = rest
  BY LeftIs
<1> HIDE DEF g, rest
<1>4. CASE ~(n >= 8)
  <2>1. CASE 4 > n
    <3>1. ~IsNumber(From(f, 4))
      BY <2>1, NumberFrom
    <3> QED BY <1>1, <1>2, <1>4, <3>1, Zenon DEF Found, rest
  <2>2. CASE n >= 4 /\ 6 > n
    <3>1. ~IsNumber(From(f, 6))
      BY <2>2, NumberFrom
    <3> QED BY <1>1, <1>2, <1>4, <2>2, <3>1, Zenon DEF Found, rest
  <2>3. CASE n >= 6
    <3>1. ~IsNumber(From(f, 8))
      BY <1>0, <1>4, NumberFrom
    <3> QED BY <1>1, <1>2, <1>4, <2>3, <3>1, Zenon DEF Found, rest
  <2> QED BY <1>0, <2>1, <2>2, <2>3
<1>5. CASE n >= 8
  <2>1. /\ g[1] = From(f, 4) /\ g[2] = From(f, 6) /\ g[3] = From(f, 8) /\ g[4] = rest
    BY <1>0, <1>2, <1>5
  <2>2. /\ f[1] = byte(80) /\ f[2] = k /\ f[4] = a /\ f[6] = b /\ f[8] = c
    BY <1>0, <1>5 DEF HeadIs
  <2>3. /\ IsNumber(From(f, 4)) <=> a[1] = "n"
        /\ IsNumber(From(f, 6)) <=> b[1] = "n"
        /\ IsNumber(From(f, 8)) <=> c[1] = "n"
        /\ Head(From(f, 4)) = a /\ Head(From(f, 6)) = b /\ Head(From(f, 8)) = c
    <3>1. 4 <= n /\ 6 <= n /\ 8 <= n
      BY <1>0, <1>5
    <3> QED BY <2>2, <3>1, NumberFrom
  <2>4. IsP5(f) <=> k = byte(53)
    BY <1>0, <1>5, <2>2 DEF IsP5
  <2>5. Found(f, g) <=> HeadGood(k, a, b, c) /\ rest # <<>>
    BY <2>1, <2>3, <2>4, Zenon DEF HeadGood, NumberIn, Found
  <2>6. Answer(g) = ReadData(rest, a[2], b[2], c[2])
    BY <2>1, <2>3, Zenon DEF Answer
  <2> QED BY <1>1, <1>5, <2>5, <2>6, Zenon DEF rest
<1> QED BY <1>4, <1>5

Memory(len) == [0 .. 2 * len - 1 -> Int]
Widened(m, i) == [m EXCEPT ![2 * i] = m[i], ![2 * i + 1] = 0]

(* One turn of the loop that widens.                                       *)
LEMMA WidenedIs ==
    ASSUME NEW len \in Nat, NEW m \in Memory(len), NEW i \in 0 .. len - 1
    PROVE  /\ Widened(m, i) \in Memory(len)
           /\ Widened(m, i)[2 * i] = m[i] /\ Widened(m, i)[2 * i + 1] = 0
           /\ \A o \in 0 .. 2 * len - 1 : o # 2 * i /\ o # 2 * i + 1 => Widened(m, i)[o] = m[o]
<1>1. /\ 2 * i \in 0 .. 2 * len - 1 /\ 2 * i + 1 \in 0 .. 2 * len - 1 /\ i \in 0 .. 2 * len - 1
      /\ 2 * i # 2 * i + 1
  OBVIOUS
<1> DEFINE a == 2 * i
           b == 2 * i + 1
           C == 0 .. 2 * len - 1
<1>2. a \in C /\ b \in C /\ i \in C /\ a # b /\ m \in [C -> Int] /\ m[i] \in Int
  BY <1>1 DEF Memory
<1>3. Widened(m, i) = [m EXCEPT ![a] = m[i], ![b] = 0]
  BY DEF Widened
<1> HIDE DEF a, b, C
<1>4. /\ Widened(m, i) \in [C -> Int]
      /\ Widened(m, i)[a] = m[i] /\ Widened(m, i)[b] = 0
      /\ \A o \in C : o # a /\ o # b => Widened(m, i)[o] = m[o]
  BY <1>2, <1>3
<1> QED BY <1>4 DEF a, b, C, Memory

(* The loop that widens, step by step.                                     *)
LEMMA WidenSteps ==
    ASSUME NEW len \in Nat, NEW mem \in Memory(len)
    PROVE  \E a : /\ a[0] = mem
                  /\ \A k \in 1 .. len : a[k] = Widened(a[k - 1], len - k)
                  /\ Widen(mem, len) = a[len]
<1> DEFINE n == len
           s == [k \in 1 .. len |-> len - k]
           S == Memory(len)
           f == [k \in 1 .. n |-> [q \in S |-> Widened(q, s[k])]]
<1>1. n \in Nat /\ Len(s) = n /\ \A k \in 1 .. n : s[k] = n - k /\ s[k] \in 0 .. len - 1
  OBVIOUS
<1>0. n = len /\ mem \in S
  OBVIOUS
<1> HIDE DEF n, s
<1>2. f \in [1 .. n -> [S -> S]]
  BY <1>0, <1>1, WidenedIs
<1>3. \A k \in 1 .. n : \A q \in S : f[k][q] = Widened(q, s[k])
  OBVIOUS
<1> HIDE DEF f, S
<1>4. PICK g \in [0 .. n -> S] : Steps(g, mem, f, n)
  BY <1>0, <1>1, <1>2, StepsExist
<1>5. g = [k \in 0 .. n |-> IF k = 0 THEN mem ELSE Widened(g[k - 1], s[k])]
  <2>1. ASSUME NEW k \in 0 .. n
        PROVE  g[k] = IF k = 0 THEN mem ELSE Widened(g[k - 1], s[k])
    <3>1. CASE k = 0
      BY <1>4, <3>1 DEF Steps
    <3>2. CASE k # 0
      <4>1. k \in 1 .. n /\ k - 1 \in 0 .. n
        BY <1>1, <3>2
      <4>2. g[k - 1] \in S
        BY <1>4, <4>1
      <4>3. g[k] = f[k][g[k - 1]]
        BY <1>4, <4>1 DEF Steps
      <4> QED BY <1>3, <3>2, <4>1, <4>2, <4>3
    <3> QED BY <3>1, <3>2
  <2> QED BY <1>4, <2>1
<1> DEFINE a == CHOOSE a :
               a = [k \in 0 .. n |-> IF k = 0 THEN mem ELSE Widened(a[k - 1], s[k])]
<1>6. a = [k \in 0 .. n |-> IF k = 0 THEN mem ELSE Widened(a[k - 1], s[k])]
  BY <1>5
<1>7. Widen(mem, len) = a[n]
  BY <1>1 DEF Widen, Loop, Widened, s
<1> HIDE DEF a
<1>8. a[0] = mem
  BY <1>1, <1>6
<1>9. ASSUME NEW k \in 1 .. n PROVE a[k] = Widened(a[k - 1], n - k)
  <2>1. k \in 0 .. n /\ k # 0 /\ s[k] = n - k
    BY <1>1
  <2>2. a[k] = IF k = 0 THEN mem ELSE Widened(a[k - 1], s[k])
    BY <1>6, <2>1, Zenon
  <2> QED BY <2>1, <2>2
<1> QED BY <1>7, <1>8, <1>9 DEF n

(* Widened from the last byte on, no byte is lost.                         *)
WideFrom(m, mem, len, k) ==
    /\ m \in Memory(len)
    /\ \A i \in 0 .. len - 1 : i < len - k => m[i] = mem[i]
    /\ \A i \in 0 .. len - 1 : i >= len - k => m[2 * i] = mem[i] /\ m[2 * i + 1] = 0

(* What widening in place leaves: each byte before a zero.                 *)
LEMMA WidenIs ==
    ASSUME NEW len \in Nat, NEW mem \in Memory(len)
    PROVE  \A i \in 0 .. len - 1 : Widen(mem, len)[2 * i] = mem[i] /\ Widen(mem, len)[2 * i + 1] = 0
<1>1. PICK a : /\ a[0] = mem
               /\ \A k \in 1 .. len : a[k] = Widened(a[k - 1], len - k)
               /\ Widen(mem, len) = a[len]
  BY WidenSteps
<1> DEFINE D == {k \in 0 .. len : WideFrom(a[k], mem, len, k)}
<1>2. 0 \in D
  <2>1. WideFrom(a[0], mem, len, 0)
    BY <1>1 DEF WideFrom
  <2> QED BY <2>1
<1>3. ASSUME NEW k \in 0 .. len - 1, k \in D PROVE k + 1 \in D
  <2> DEFINE m == a[k]
             j == len - (k + 1)
             w == a[k + 1]
  <2>1. k + 1 \in 1 .. len /\ (k + 1) - 1 = k /\ j \in 0 .. len - 1 /\ j < len - k
    OBVIOUS
  <2>2. w = Widened(m, j)
    BY <1>1, <2>1
  <2>3. /\ m \in Memory(len)
        /\ \A i \in 0 .. len - 1 : i < len - k => m[i] = mem[i]
        /\ \A i \in 0 .. len - 1 : i >= len - k => m[2 * i] = mem[i] /\ m[2 * i + 1] = 0
    BY <1>3 DEF WideFrom
  <2>j. j = len - (k + 1)
    OBVIOUS
  <2> HIDE DEF m, j, w
  <2>4. /\ w \in Memory(len)
        /\ w[2 * j] = m[j] /\ w[2 * j + 1] = 0
        /\ \A o \in 0 .. 2 * len - 1 : o # 2 * j /\ o # 2 * j + 1 => w[o] = m[o]
    BY <2>1, <2>2, <2>3, WidenedIs
  <2>5. ASSUME NEW i \in 0 .. len - 1, i < len - (k + 1) PROVE w[i] = mem[i]
    <3>1. i \in 0 .. 2 * len - 1 /\ i # 2 * j /\ i # 2 * j + 1 /\ i < len - k
      BY <2>j, <2>5
    <3> QED BY <2>3, <2>4, <3>1
  <2>6. ASSUME NEW i \in 0 .. len - 1, i >= len - (k + 1)
        PROVE  w[2 * i] = mem[i] /\ w[2 * i + 1] = 0
    <3>1. CASE i = j
      BY <2>1, <2>3, <2>4, <3>1
    <3>2. CASE i # j
      <4>1. i >= len - k /\ 2 * i \in 0 .. 2 * len - 1 /\ 2 * i + 1 \in 0 .. 2 * len - 1
        BY <2>j, <2>6, <3>2
      <4>2. 2 * i # 2 * j /\ 2 * i # 2 * j + 1 /\ 2 * i + 1 # 2 * j /\ 2 * i + 1 # 2 * j + 1
        BY <2>1, <3>2
      <4>3. w[2 * i] = m[2 * i] /\ w[2 * i + 1] = m[2 * i + 1]
        BY <2>4, <4>1, <4>2
      <4> QED BY <2>3, <4>1, <4>3
    <3> QED BY <3>1, <3>2
  <2>7. WideFrom(w, mem, len, k + 1)
    BY <2>4, <2>5, <2>6 DEF WideFrom
  <2> QED BY <2>1, <2>7 DEF w
<1>4. \A k \in 0 .. len : k \in D
  <2> HIDE DEF D
  <2> QED BY <1>2, <1>3, UpTo
<1>5. WideFrom(a[len], mem, len, len)
  BY <1>4
<1> QED BY <1>1, <1>5 DEF WideFrom

(* What is written: the header, and after it the pixels.                   *)
LEMMA HeaderOfIs ==
    ASSUME NEW k \in Token, NEW a \in Token, NEW b \in Token, NEW c \in Token
    PROVE  /\ HeaderOf(k, a, b, c) \in Seq(Token) /\ Len(HeaderOf(k, a, b, c)) = 9
           /\ HeadIs(HeaderOf(k, a, b, c), k, a, b, c)
<1>1. byte(80) \in Token /\ byte(32) \in Token /\ NewLine \in Token
  BY TokenIs DEF NewLine
<1>2. HeaderOf(k, a, b, c)
         = <<byte(80), k, NewLine, a, byte(32), b, NewLine, c, NewLine>>
  BY DEF HeaderOf
<1>3. HeaderOf(k, a, b, c) \in Seq(Token) /\ Len(HeaderOf(k, a, b, c)) = 9
  BY <1>1, <1>2
<1>4. HeadIs(HeaderOf(k, a, b, c), k, a, b, c)
  BY <1>2 DEF HeadIs
<1> QED BY <1>3, <1>4

(* A file f: the header of these tokens, and after it d.                   *)
Joined(f, k, a, b, c, d) ==
    /\ f \in Seq(Token) /\ Len(f) = 9 + Len(d) /\ HeadIs(f, k, a, b, c)
    /\ \A i \in 1 .. Len(d) : f[9 + i] = d[i]

(* A header and the data after it.                                         *)
LEMMA JoinIs ==
    ASSUME NEW k \in Token, NEW a \in Token, NEW b \in Token, NEW c \in Token,
           NEW d \in Seq(Token), NEW f, f = HeaderOf(k, a, b, c) \o d
    PROVE  Joined(f, k, a, b, c, d)
<1> DEFINE e == HeaderOf(k, a, b, c)
<1>0. f = e \o d
  OBVIOUS
<1>1. e \in Seq(Token) /\ Len(e) = 9 /\ HeadIs(e, k, a, b, c)
  BY HeaderOfIs
<1> HIDE DEF e
<1>2. /\ f \in Seq(Token) /\ Len(f) = 9 + Len(d)
      /\ \A i \in 1 .. 9 : f[i] = e[i]
      /\ \A i \in 1 .. Len(d) : f[9 + i] = d[i]
  <2>0. /\ e \o d \in Seq(Token) /\ Len(e \o d) = Len(e) + Len(d)
        /\ \A i \in 1 .. Len(e) + Len(d) :
              (e \o d)[i] = IF i <= Len(e) THEN e[i] ELSE d[i - Len(e)]
    <3>1. e \in Seq(Token)
      BY <1>1
    <3> QED BY <3>1, ConcatProperties, Zenon
  <2>1. f \in Seq(Token) /\ Len(f) = Len(e) + Len(d)
    BY <1>0, <2>0, Zenon
  <2>2. \A i \in 1 .. Len(e) + Len(d) : f[i] = IF i <= Len(e) THEN e[i] ELSE d[i - Len(e)]
    BY <1>0, <2>0, Zenon
  <2>3. ASSUME NEW i \in 1 .. 9 PROVE f[i] = e[i]
    <3>1. i \in 1 .. Len(e) + Len(d) /\ i <= Len(e)
      BY <1>1
    <3> QED BY <2>2, <3>1
  <2>4. ASSUME NEW i \in 1 .. Len(d) PROVE f[9 + i] = d[i]
    <3>1. 9 + i \in 1 .. Len(e) + Len(d) /\ ~(9 + i <= Len(e)) /\ (9 + i) - Len(e) = i
      BY <1>1
    <3> QED BY <2>2, <3>1
  <2> QED BY <1>1, <2>1, <2>3, <2>4
<1>3. HeadIs(f, k, a, b, c)
  BY <1>1, <1>2 DEF HeadIs
<1> QED BY <1>2, <1>3 DEF Joined

(* The first n tokens of a file with a header.                             *)
LEMMA CutIs ==
    ASSUME NEW g \in Seq(Token), NEW k, NEW a, NEW b, NEW c, HeadIs(g, k, a, b, c),
           NEW n \in 0 .. Len(g)
    PROVE  LET f == SubSeq(g, 1, n)
           IN  /\ f \in Seq(Token) /\ Len(f) = n /\ HeadIs(f, k, a, b, c)
               /\ \A i \in 1 .. n : f[i] = g[i]
<1> DEFINE f == SubSeq(g, 1, n)
<1>1. f \in Seq(Token) /\ Len(f) = n /\ \A i \in 1 .. n : f[i] = g[i]
  OBVIOUS
<1> HIDE DEF f
<1>2. HeadIs(f, k, a, b, c)
  BY <1>1 DEF HeadIs
<1> QED BY <1>1, <1>2 DEF f

(* The pixels in the file, of one byte or of two.                          *)
LEMMA ClippedType ==
    ASSUME NEW v \in Nat, NEW max \in Nat
    PROVE  Clipped(v, max) \in Nat
BY DEF Clipped

(* Pixels of 8 bits are bytes.                                             *)
LEMMA BytesOf ==
    ASSUME NEW pixels \in Seq(Nat), NEW max \in Nat, max < 256
    PROVE  LET d == Buffer(pixels, max)
           IN  /\ d \in Seq(Token) /\ Len(d) = Len(pixels)
               /\ \A i \in 1 .. Len(pixels) : d[i][2] = Clipped(pixels[i], max)
<1> DEFINE n == Len(pixels)
           v(i) == Clipped(pixels[i], max)
           d == [o \in 1 .. n |-> byte(v(o))]
<1>1. Buffer(pixels, max) = d
  <2>1. ~(max > 255)
    OBVIOUS
  <2> QED BY <2>1, Zenon DEF Buffer
<1>2. ASSUME NEW i \in 1 .. n PROVE v(i) \in Int
  <2>1. pixels[i] \in Nat
    OBVIOUS
  <2>2. v(i) \in Nat
    BY <2>1, ClippedType
  <2> QED BY <2>2
<1>3. n \in Nat
  OBVIOUS
<1>p. \A k \in Int : byte(k) \in Token /\ byte(k)[2] = k
  BY TokenIs
<1> HIDE DEF n, v
<1>4. d \in Seq(Token) /\ Len(d) = n
  <2>1. \A i \in 1 .. n : byte(v(i)) \in Token
    BY <1>2, <1>p
  <2> QED BY <1>3, <2>1
<1>5. \A i \in 1 .. n : d[i][2] = v(i)
  BY <1>2, <1>p
<1> QED BY <1>1, <1>4, <1>5 DEF n, v

(* Larger ones are two bytes, the high one first.                          *)
LEMMA TwoBytesOf ==
    ASSUME NEW pixels \in Seq(Nat), NEW max \in Nat, ~(max < 256)
    PROVE  LET d == Buffer(pixels, max)
           IN  /\ d \in Seq(Token) /\ Len(d) = 2 * Len(pixels)
               /\ \A i \in 1 .. Len(pixels) :
                     d[2 * i - 1][2] = Clipped(pixels[i], max) \div 256
                     /\ d[2 * i][2] = Clipped(pixels[i], max) % 256
<1> DEFINE n == Len(pixels)
           v(i) == Clipped(pixels[i], max)
           x(o) == IF o % 2 = 1 THEN v((o + 1) \div 2) \div 256 ELSE v(o \div 2) % 256
           d == [o \in 1 .. 2 * n |-> byte(x(o))]
<1>1. Buffer(pixels, max) = d
  <2>1. max > 255
    OBVIOUS
  <2> QED BY <2>1, Zenon DEF Buffer
<1>2. n \in Nat
  OBVIOUS
<1>3. ASSUME NEW i \in 1 .. n PROVE v(i) \in Nat /\ v(i) \div 256 \in Int /\ v(i) % 256 \in Int
  <2>0. pixels[i] \in Nat
    OBVIOUS
  <2>1. v(i) \in Nat
    BY <2>0, ClippedType
  <2> QED BY <2>1
<1>p. \A k \in Int : byte(k) \in Token /\ byte(k)[2] = k
  BY TokenIs
<1> HIDE DEF n, v
<1>4. ASSUME NEW o \in 1 .. 2 * n PROVE x(o) \in Int
  <2>1. (o % 2 = 1 => (o + 1) \div 2 \in 1 .. n) /\ (o % 2 # 1 => o \div 2 \in 1 .. n)
    BY <1>2
  <2> QED BY <1>3, <2>1
<1>5. ASSUME NEW i \in 1 .. n
      PROVE  /\ 2 * i - 1 \in 1 .. 2 * n /\ x(2 * i - 1) = v(i) \div 256
             /\ 2 * i \in 1 .. 2 * n /\ x(2 * i) = v(i) % 256
  <2>1. /\ 2 * i - 1 \in 1 .. 2 * n /\ (2 * i - 1) % 2 = 1 /\ ((2 * i - 1) + 1) \div 2 = i
        /\ 2 * i \in 1 .. 2 * n /\ (2 * i) % 2 # 1 /\ (2 * i) \div 2 = i
    BY <1>2
  <2> QED BY <2>1
<1> HIDE DEF x
<1>6. d \in Seq(Token) /\ Len(d) = 2 * n
  <2>1. \A o \in 1 .. 2 * n : byte(x(o)) \in Token
    BY <1>4, <1>p
  <2> QED BY <1>2, <2>1
<1>7. ASSUME NEW i \in 1 .. n
      PROVE  d[2 * i - 1][2] = v(i) \div 256 /\ d[2 * i][2] = v(i) % 256
  <2>1. d[2 * i - 1] = byte(x(2 * i - 1)) /\ d[2 * i] = byte(x(2 * i))
    BY <1>5
  <2> QED BY <1>4, <1>5, <1>p, <2>1
<1> QED BY <1>1, <1>6, <1>7 DEF n, v

(* One of the tokens from one on.                                          *)
LEMMA FromAt ==
    ASSUME NEW T, NEW f \in Seq(T), NEW p \in Nat, p > 0, NEW i \in 1 .. Len(f) + 1 - p
    PROVE  From(f, p)[i] = f[p + i - 1]
BY FromIs

(* What blank() leaves of a blank and what follows: what follows, without  *)
(* the blanks it begins with.                                              *)
LEMMA RestIs ==
    ASSUME NEW f \in Seq(Token), NEW d \in Seq(Token), NEW p \in Nat, p > 0,
           Len(f) = p + Len(d), f[p] \in Blanks, \A i \in 1 .. Len(d) : f[p + i] = d[i]
    PROVE  \E e \in 0 .. Len(d) : BlanksLead(d, e) /\ Skipped(From(f, p)) = From(d, e + 1)
<1> DEFINE g == From(f, p)
           n == Len(d)
<1>0. n \in Nat /\ Len(f) = p + n
  OBVIOUS
<1>1. g \in Seq(Token) /\ Len(g) = n + 1 /\ g[1] = f[p] /\ DOMAIN g = 1 .. n + 1
  <2>1. Len(f) + 1 - p = n + 1 /\ p <= Len(f) /\ p <= Len(f) + 1
    BY <1>0
  <2>2. g \in Seq(Token) /\ Len(g) = n + 1 /\ g[1] = f[p]
    BY <2>1, FromIs
  <2> QED BY <2>2
<1>2. \A i \in 1 .. n : g[i + 1] = d[i]
  <2> SUFFICES ASSUME NEW i \in 1 .. n PROVE g[i + 1] = d[i]
    OBVIOUS
  <2>1. i + 1 \in 1 .. Len(f) + 1 - p /\ p + (i + 1) - 1 = p + i
    BY <1>0
  <2>2. \A j \in 1 .. Len(f) + 1 - p : g[j] = f[p + j - 1]
    BY FromAt
  <2>3. g[i + 1] = f[p + i]
    BY <2>1, <2>2
  <2> QED BY <2>3
<1> HIDE DEF g
<1>3. CASE \A i \in DOMAIN g : g[i] \in Blanks
  <2>1. Skipped(g) = <<>>
    BY <1>3, AllBlank
  <2>2. From(d, n + 1) = <<>>
    BY <1>0, FromIs
  <2>3. \A i \in 1 .. n : d[i] \in Blanks
    <3> SUFFICES ASSUME NEW i \in 1 .. n PROVE d[i] \in Blanks
      OBVIOUS
    <3>1. i + 1 \in DOMAIN g
      BY <1>0, <1>1
    <3> QED BY <1>2, <1>3, <3>1
  <2>4. n \in 0 .. n /\ BlanksLead(d, n)
    BY <1>0, <2>3 DEF BlanksLead
  <2> QED BY <2>1, <2>2, <2>4 DEF g
<1>4. CASE \E i \in DOMAIN g : g[i] \notin Blanks
  <2> DEFINE S == {i \in DOMAIN g : g[i] \notin Blanks}
  <2>1. S # {} /\ S \in SUBSET Nat
    BY <1>0, <1>1, <1>4
  <2>2. PICK x \in S : \A y \in S : x <= y
    BY <2>1, LeastOf
  <2>3. FirstOf(g, x) /\ x \in DOMAIN g /\ g[x] \notin Blanks
    BY <2>2 DEF FirstOf
  <2>4. Skipped(g) = SubSeq(g, x, Len(g))
    <3>1. DOMAIN g \subseteq Int
      BY <1>1
    <3> QED BY <2>3, <3>1, FirstLeft
  <2>5. PICK e \in 0 .. n : x = e + 2 /\ e < n
    <3>1. x \in 1 .. n + 1 /\ x # 1
      BY <1>1, <2>3
    <3>2. x - 2 \in 0 .. n /\ x = (x - 2) + 2 /\ x - 2 < n
      BY <1>0, <3>1
    <3> QED BY <3>2
  <2>6. BlanksLead(d, e)
    <3>1. ASSUME NEW i \in 1 .. e PROVE d[i] \in Blanks
      <4>1. i \in 1 .. n /\ i + 1 \in DOMAIN g /\ ~(x <= i + 1)
        BY <1>0, <1>1, <2>5
      <4> QED BY <1>2, <2>3, <4>1 DEF FirstOf
    <3>2. d[e + 1] \notin Blanks
      <4>1. e + 1 \in 1 .. n /\ (e + 1) + 1 = x
        BY <1>0, <2>5
      <4> QED BY <1>2, <2>3, <4>1
    <3> QED BY <3>1, <3>2 DEF BlanksLead
  <2> HIDE DEF S
  <2>7. SubSeq(g, x, Len(g)) = From(d, e + 1)
    <3> DEFINE q == e + 1
               s == From(g, x)
               t == From(d, q)
    <3>1. /\ x \in Nat /\ x > 0 /\ x <= Len(g) + 1 /\ Len(g) + 1 - x = n - e
          /\ q \in Nat /\ q > 0 /\ q <= n + 1 /\ n + 1 - q = n - e /\ x = q + 1
      BY <1>0, <1>1, <2>5
    <3> HIDE DEF q
    <3>2. s \in Seq(Token) /\ Len(s) = n - e
      BY <1>1, <3>1, FromIs
    <3>3. t \in Seq(Token) /\ Len(t) = n - e
      BY <3>1, FromIs
    <3>4. ASSUME NEW i \in 1 .. n - e PROVE s[i] = t[i]
      <4>1. /\ i \in 1 .. Len(g) + 1 - x /\ i \in 1 .. n + 1 - q
            /\ x + i - 1 = (q + i - 1) + 1 /\ q + i - 1 \in 1 .. n
        BY <1>0, <3>1
      <4>2. s[i] = g[x + i - 1]
        <5>1. \A j \in 1 .. Len(g) + 1 - x : s[j] = g[x + j - 1]
          BY <1>1, <3>1, FromAt
        <5> QED BY <4>1, <5>1
      <4>3. t[i] = d[q + i - 1]
        <5>1. \A j \in 1 .. Len(d) + 1 - q : t[j] = d[q + j - 1]
          BY <3>1, FromAt
        <5> QED BY <4>1, <5>1
      <4>4. g[(q + i - 1) + 1] = d[q + i - 1]
        BY <1>2, <4>1
      <4> QED BY <4>1, <4>2, <4>3, <4>4
    <3> HIDE DEF s, t
    <3>5. s = t
      BY <3>2, <3>3, <3>4, SeqEqual
    <3> QED BY <3>5 DEF s, t, q, From
  <2> QED BY <2>4, <2>6, <2>7 DEF g
<1> QED BY <1>3, <1>4

(* The numbers that are read of data that is all there.                    *)
DataGood(d, pixels, max) ==
    LET n == Len(pixels)
        v(i) == Clipped(pixels[i], max)
    IN  IF max < 256
        THEN Len(d) = n /\ \A i \in 1 .. n : d[i][2] = v(i)
        ELSE Len(d) = 2 * n
             /\ \A i \in 1 .. n : d[2 * i - 1][2] = v(i) \div 256 /\ d[2 * i][2] = v(i) % 256

SizeOf(len, maxval) == IF maxval < 256 THEN len ELSE 2 * len
MemOf(f, len, maxval) ==
    [o \in 0 .. 2 * len - 1 |->
        IF o < SizeOf(len, maxval) /\ o < Len(f) THEN f[o + 1][2] ELSE Unwritten]
PixOf(mem, len, maxval) == IF maxval < 256 THEN Widen(mem, len) ELSE Swap(mem, len)
ValuesOf(pix, len) == [i \in 1 .. len |-> Pixel(pix[2 * i - 2], pix[2 * i - 1])]

DataRead(r, f, w, h, max) ==
    /\ r.fatal = FALSE /\ r.warned = (Len(f) < SizeOf(w * h, max))
    /\ r.w = w /\ r.h = h
    /\ r.pixels = ValuesOf(PixOf(MemOf(f, w * h, max), w * h, max), w * h)

(* What is read of data, part by part.                                     *)
LEMMA ReadDataParts ==
    ASSUME NEW f, NEW w, NEW h, NEW max
    PROVE  DataRead(ReadData(f, w, h, max), f, w, h, max)
<1> DEFINE len == w * h
           size == IF max < 256 THEN len ELSE 2 * len
           mem == [o \in 0 .. 2 * len - 1 |->
                      IF o < size /\ o < Len(f) THEN f[o + 1][2] ELSE Unwritten]
           pix == IF max < 256 THEN Widen(mem, len) ELSE Swap(mem, len)
           pixels == [i \in 1 .. len |-> Pixel(pix[2 * i - 2], pix[2 * i - 1])]
<1>1. ReadData(f, w, h, max)
         = [fatal |-> FALSE, warned |-> Len(f) < size, w |-> w, h |-> h, pixels |-> pixels]
  BY Zenon DEF ReadData
<1>2. pixels = ValuesOf(PixOf(MemOf(f, len, max), len, max), len)
  BY Zenon DEF ValuesOf, PixOf, MemOf, SizeOf
<1>3. size = SizeOf(w * h, max)
  BY Zenon DEF SizeOf
<1> HIDE DEF size, pixels
<1> QED BY <1>1, <1>2, <1>3 DEF DataRead

(* The number at a place of the data, as far as there are data.            *)
NumberAt(d, k) == IF k <= Len(d) THEN d[k][2] ELSE Unwritten

(* The memory the data were read into.                                     *)
LEMMA MemIs ==
    ASSUME NEW n \in Nat, NEW max, NEW d \in Seq(Token), SizeOf(n, max) \in {n, 2 * n}
    PROVE  /\ MemOf(d, n, max) \in Memory(n)
           /\ \A o \in 0 .. 2 * n - 1 :
                 o < SizeOf(n, max) => MemOf(d, n, max)[o] = NumberAt(d, o + 1)
<1> DEFINE mem == MemOf(d, n, max)
           size == SizeOf(n, max)
<1>0. size \in Nat /\ Len(d) \in Nat
  OBVIOUS
<1>1. mem = [o \in 0 .. 2 * n - 1 |->
                IF o < size /\ o < Len(d) THEN d[o + 1][2] ELSE Unwritten]
  BY DEF MemOf
<1> HIDE DEF mem, size
<1>2. ASSUME NEW o \in 0 .. 2 * n - 1
      PROVE  /\ o < Len(d) => d[o + 1][2] \in Int
             /\ o < Len(d) <=> o + 1 <= Len(d)
  <2>1. o < Len(d) => o + 1 \in 1 .. Len(d)
    BY <1>0
  <2>2. o < Len(d) => d[o + 1] \in Token
    BY <2>1
  <2> QED BY <1>0, <2>2 DEF Token
<1>3. mem \in [0 .. 2 * n - 1 -> Int]
  BY <1>1, <1>2 DEF Unwritten
<1>4. \A o \in 0 .. 2 * n - 1 : o < size => mem[o] = NumberAt(d, o + 1)
  BY <1>1, <1>2 DEF NumberAt
<1> QED BY <1>3, <1>4 DEF Memory, mem, size

(* Of data the reader makes their pixels, as far as there are data.        *)
LEMMA ValuesAre ==
    ASSUME NEW n \in Nat, NEW max \in Nat, NEW d \in Seq(Token)
    PROVE  ValuesOf(PixOf(MemOf(d, n, max), n, max), n) = [i \in 1 .. n |-> PixelOf(d, i, max)]
<1> DEFINE mem == MemOf(d, n, max)
           pix == PixOf(mem, n, max)
<1>0. SizeOf(n, max) \in {n, 2 * n}
  BY DEF SizeOf
<1>1. /\ mem \in Memory(n)
      /\ \A o \in 0 .. 2 * n - 1 : o < SizeOf(n, max) => mem[o] = NumberAt(d, o + 1)
  BY <1>0, MemIs
<1> HIDE DEF mem
<1>2. ASSUME NEW i \in 1 .. n
      PROVE  Pixel(pix[2 * i - 2], pix[2 * i - 1]) = PixelOf(d, i, max)
  <2>1. CASE max < 256
    <3>1. SizeOf(n, max) = n /\ pix = Widen(mem, n) /\ PixelOf(d, i, max) = NumberAt(d, i)
      BY <2>1 DEF SizeOf, PixOf, PixelOf, NumberAt
    <3> HIDE DEF pix
    <3>2. i - 1 \in 0 .. n - 1 /\ 2 * (i - 1) = 2 * i - 2 /\ 2 * (i - 1) + 1 = 2 * i - 1
          /\ i - 1 \in 0 .. 2 * n - 1 /\ (i - 1) + 1 = i /\ i - 1 < n
      OBVIOUS
    <3>3. Widen(mem, n)[2 * (i - 1)] = mem[i - 1] /\ Widen(mem, n)[2 * (i - 1) + 1] = 0
      BY <1>1, <3>2, WidenIs
    <3>4. mem[i - 1] = NumberAt(d, i) /\ mem[i - 1] \in Int
      <4>1. mem[i - 1] = NumberAt(d, (i - 1) + 1)
        BY <1>1, <3>1, <3>2
      <4> QED BY <1>1, <3>2, <4>1 DEF Memory
    <3>5. pix[2 * i - 2] = NumberAt(d, i) /\ pix[2 * i - 1] = 0 /\ NumberAt(d, i) \in Int
      BY <3>1, <3>2, <3>3, <3>4
    <3>6. \A x \in Int : Pixel(x, 0) = x
      BY DEF Pixel, Unwritten
    <3> QED BY <3>1, <3>5, <3>6
  <2>2. CASE ~(max < 256)
    <3>1. SizeOf(n, max) = 2 * n /\ pix = Swap(mem, n)
          /\ PixelOf(d, i, max) = Pixel(NumberAt(d, 2 * i), NumberAt(d, 2 * i - 1))
      BY <2>2, Zenon DEF SizeOf, PixOf, PixelOf, NumberAt
    <3> HIDE DEF pix
    <3>2. /\ 2 * i - 2 \in 0 .. 2 * n - 1 /\ 2 * i - 1 \in 0 .. 2 * n - 1
          /\ (2 * i - 2) % 2 = 0 /\ (2 * i - 1) % 2 # 0
          /\ (2 * i - 2) + 1 = 2 * i - 1 /\ (2 * i - 1) - 1 = 2 * i - 2
          /\ (2 * i - 1) + 1 = 2 * i /\ 2 * i - 2 < 2 * n /\ 2 * i - 1 < 2 * n
      OBVIOUS
    <3>3. pix = [o \in 0 .. 2 * n - 1 |-> IF o % 2 = 0 THEN mem[o + 1] ELSE mem[o - 1]]
      BY <3>1 DEF Swap
    <3>4. pix[2 * i - 2] = mem[2 * i - 1] /\ pix[2 * i - 1] = mem[2 * i - 2]
      <4>1. pix[2 * i - 2] = mem[(2 * i - 2) + 1]
        BY <3>2, <3>3
      <4>2. pix[2 * i - 1] = mem[(2 * i - 1) - 1]
        BY <3>2, <3>3
      <4> QED BY <3>2, <4>1, <4>2
    <3>5. mem[2 * i - 1] = NumberAt(d, 2 * i) /\ mem[2 * i - 2] = NumberAt(d, 2 * i - 1)
      <4>1. mem[2 * i - 1] = NumberAt(d, (2 * i - 1) + 1)
        BY <1>1, <3>1, <3>2
      <4>2. mem[2 * i - 2] = NumberAt(d, (2 * i - 2) + 1)
        BY <1>1, <3>1, <3>2
      <4> QED BY <3>2, <4>1, <4>2
    <3> QED BY <3>1, <3>4, <3>5
  <2> QED BY <2>1, <2>2
<1> HIDE DEF pix
<1>3. ValuesOf(pix, n) = [i \in 1 .. n |-> PixelOf(d, i, max)]
  BY <1>2, Zenon DEF ValuesOf
<1> QED BY <1>3 DEF pix, mem

(* Of all the data of an image the pixels are those that were written.     *)
LEMMA PixelIs ==
    ASSUME NEW pixels \in Seq(Nat), NEW max \in Nat, NEW d \in Seq(Token),
           DataGood(d, pixels, max), NEW i \in 1 .. Len(pixels)
    PROVE  PixelOf(d, i, max) = Clipped(pixels[i], max)
<1> DEFINE c == Clipped(pixels[i], max)
           n == Len(pixels)
<1>0. c \in Nat /\ n \in Nat
  <2>1. pixels[i] \in Nat /\ n \in Nat
    OBVIOUS
  <2>2. c \in Nat
    BY <2>1, ClippedType, Zenon
  <2> QED BY <2>1, <2>2
<1>1. CASE max < 256
  <2>1. Len(d) = n /\ d[i][2] = c /\ PixelOf(d, i, max) = NumberAt(d, i)
    <3>1. Len(d) = n /\ d[i][2] = c
      BY <1>1, Zenon DEF DataGood
    <3>2. PixelOf(d, i, max) = NumberAt(d, i)
      BY <1>1, Zenon DEF PixelOf, NumberAt
    <3> QED BY <3>1, <3>2
  <2> HIDE DEF c
  <2>2. i <= Len(d)
    BY <1>0, <2>1
  <2>3. PixelOf(d, i, max) = c
    BY <2>1, <2>2 DEF NumberAt
  <2> QED BY <2>3 DEF c
<1>2. CASE ~(max < 256)
  <2>1. Len(d) = 2 * n /\ d[2 * i - 1][2] = c \div 256 /\ d[2 * i][2] = c % 256
    BY <1>2 DEF DataGood
  <2>2. PixelOf(d, i, max) = Pixel(NumberAt(d, 2 * i), NumberAt(d, 2 * i - 1))
    BY <1>2, Zenon DEF PixelOf, NumberAt
  <2> HIDE DEF c
  <2>3. 2 * i <= Len(d) /\ 2 * i - 1 <= Len(d)
    BY <1>0, <2>1
  <2>4. NumberAt(d, 2 * i) = c % 256 /\ NumberAt(d, 2 * i - 1) = c \div 256
    BY <2>1, <2>3 DEF NumberAt
  <2>5. Pixel(c % 256, c \div 256) = c
    <3>1. c % 256 # -1 /\ c \div 256 # -1 /\ (c % 256) + 256 * (c \div 256) = c
      BY <1>0
    <3> QED BY <3>1 DEF Pixel, Unwritten
  <2>6. PixelOf(d, i, max) = c
    BY <2>2, <2>4, <2>5
  <2> QED BY <2>6 DEF c
<1> QED BY <1>1, <1>2

(* What ends a header is a blank.                                          *)
LEMMA NinthIsBlank ==
    ASSUME NEW f, NEW k, NEW a, NEW b, NEW c, HeadIs(f, k, a, b, c), Len(f) >= 9
    PROVE  f[9] \in Blanks
<1>1. f[9] = byte(10)
  BY DEF HeadIs, NewLine
<1> QED BY <1>1 DEF Blanks

(* The data of an image are good, and as many as the reader expects.       *)
LEMMA DataIs ==
    ASSUME NEW pixels \in Seq(Nat), NEW max \in Nat
    PROVE  LET d == Buffer(pixels, max)
           IN  d \in Seq(Token) /\ DataGood(d, pixels, max) /\ Len(d) = SizeOf(Len(pixels), max)
<1> DEFINE d == Buffer(pixels, max)
<1>1. CASE max < 256
  <2>1. /\ d \in Seq(Token) /\ Len(d) = Len(pixels)
        /\ \A i \in 1 .. Len(pixels) : d[i][2] = Clipped(pixels[i], max)
    BY <1>1, BytesOf
  <2> HIDE DEF d
  <2>2. DataGood(d, pixels, max) /\ Len(d) = SizeOf(Len(pixels), max)
    BY <1>1, <2>1 DEF DataGood, SizeOf
  <2> QED BY <2>1, <2>2 DEF d
<1>2. CASE ~(max < 256)
  <2>1. /\ d \in Seq(Token) /\ Len(d) = 2 * Len(pixels)
        /\ \A i \in 1 .. Len(pixels) :
              d[2 * i - 1][2] = Clipped(pixels[i], max) \div 256
              /\ d[2 * i][2] = Clipped(pixels[i], max) % 256
    BY <1>2, TwoBytesOf
  <2> HIDE DEF d
  <2>2. DataGood(d, pixels, max) /\ Len(d) = SizeOf(Len(pixels), max)
    BY <1>2, <2>1 DEF DataGood, SizeOf
  <2> QED BY <2>1, <2>2 DEF d
<1> QED BY <1>1, <1>2

(* A header of an image, token by token.                                   *)
LEMMA HeaderWords ==
    ASSUME NEW x
    PROVE  IsImageHeader(x) <=>
              /\ x[1] = byte(53) /\ x[2] = decimal(x[2][2]) /\ InSide(x[2][2])
              /\ x[3] = decimal(x[3][2]) /\ InSide(x[3][2])
              /\ x[4] = decimal(x[4][2]) /\ InMax(x[4][2])
BY SMT DEF IsImageHeader, InSide, InMax

(* A header of numbers that is one of an image, in both words for it.      *)
LEMMA GoodIs ==
    ASSUME NEW k \in Token, NEW a \in Token, NEW b \in Token, NEW c \in Token,
           (a[1] = "n") = (a = decimal(a[2])), (b[1] = "n") = (b = decimal(b[2])),
           (c[1] = "n") = (c = decimal(c[2]))
    PROVE  IsImageHeader(<<k, a, b, c>>) <=> HeadGood(k, a, b, c)
<1>1. HeadGood(k, a, b, c) <=>
        k = byte(53) /\ a = decimal(a[2]) /\ InSide(a[2])
        /\ b = decimal(b[2]) /\ InSide(b[2]) /\ c = decimal(c[2]) /\ InMax(c[2])
  BY Zenon DEF HeadGood, NumberIn
<1>2. IsImageHeader(<<k, a, b, c>>) <=>
        k = byte(53) /\ a = decimal(a[2]) /\ InSide(a[2])
        /\ b = decimal(b[2]) /\ InSide(b[2]) /\ c = decimal(c[2]) /\ InMax(c[2])
  <2> DEFINE x == <<k, a, b, c>>
  <2>1. x[1] = k /\ x[2] = a /\ x[3] = b /\ x[4] = c
    OBVIOUS
  <2> HIDE DEF x
  <2>2. IsImageHeader(x) <=>
          k = byte(53) /\ a = decimal(a[2]) /\ InSide(a[2])
          /\ b = decimal(b[2]) /\ InSide(b[2]) /\ c = decimal(c[2]) /\ InMax(c[2])
    BY <2>1, HeaderWords, Zenon
  <2> QED BY <2>2 DEF x
<1> QED BY <1>1, <1>2

(* An image that was written is read as it was exactly when its data begin *)
(* with no blank; otherwise the reader warns, and returns the rest of the  *)
(* data from the first pixel on and memory that was never written, or of   *)
(* blanks alone nothing.                                                   *)
THEOREM ImageIsRead ==
    ASSUME NEW im \in Images
    PROVE  \E e \in 0 .. Len(Buffer(im.pixels, im.max)) :
              /\ BlanksLead(Buffer(im.pixels, im.max), e)
              /\ AsWritten(im, e, swap_read_pgm(swap_write_pgm(im.pixels, im.w, im.h, im.max)))
<1> DEFINE k == byte(53)
           a == decimal(im.w)
           b == decimal(im.h)
           c == decimal(im.max)
           d == Buffer(im.pixels, im.max)
           f == HeaderOf(k, a, b, c) \o d
           rest == Skipped(From(f, 9))
           n == Len(im.pixels)
           read == swap_read_pgm(f)
<1>1. /\ im.w \in Nat /\ im.h \in Nat /\ im.max \in Nat
      /\ im.pixels \in Seq(Nat) /\ n = im.w * im.h /\ n \in Nat
  BY ImagesAssumption
<1>2. /\ k \in Token /\ a \in Token /\ b \in Token /\ c \in Token
      /\ a \notin Blanks /\ b \notin Blanks /\ c \notin Blanks
      /\ a[2] = im.w /\ b[2] = im.h /\ c[2] = im.max
      /\ a[1] = "n" /\ b[1] = "n" /\ c[1] = "n"
  <2>1. 53 \in Int /\ im.w \in Int /\ im.h \in Int /\ im.max \in Int
    BY <1>1
  <2> QED BY <2>1, TokenIs
<1>3. /\ d \in Seq(Token) /\ DataGood(d, im.pixels, im.max) /\ Len(d) = SizeOf(n, im.max)
      /\ Len(d) \in Nat
  <2>1. d \in Seq(Token) /\ DataGood(d, im.pixels, im.max) /\ Len(d) = SizeOf(n, im.max)
    BY <1>1, DataIs
  <2> HIDE DEF d
  <2> QED BY <2>1
<1>4. swap_write_pgm(im.pixels, im.w, im.h, im.max) = f
  BY Zenon DEF swap_write_pgm
<1>g. IsImageHeader(<<k, a, b, c>>) <=> HeadGood(k, a, b, c)
  <2>1. a = decimal(a[2]) /\ b = decimal(b[2]) /\ c = decimal(c[2])
    BY <1>2, Zenon
  <2> HIDE DEF k, a, b, c
  <2>2. /\ (a[1] = "n") = (a = decimal(a[2]))
        /\ (b[1] = "n") = (b = decimal(b[2]))
        /\ (c[1] = "n") = (c = decimal(c[2]))
    BY <1>2, <2>1, Zenon
  <2> QED BY <1>2, <2>2, GoodIs
<1>f. f = HeaderOf(k, a, b, c) \o d
  OBVIOUS
<1>h. <<k, a, b, c>> = <<byte(53), decimal(im.w), decimal(im.h), decimal(im.max)>>
  OBVIOUS
<1> HIDE DEF k, a, b, c, f
<1>d. d = Buffer(im.pixels, im.max)
  OBVIOUS
<1> HIDE DEF d
<1>5. /\ f \in Seq(Token) /\ Len(f) = 9 + Len(d) /\ HeadIs(f, k, a, b, c)
      /\ \A i \in 1 .. Len(d) : f[9 + i] = d[i]
  <2>1. Joined(f, k, a, b, c, d)
    BY <1>2, <1>3, <1>f, JoinIs, Zenon
  <2> QED BY <2>1 DEF Joined
<1>6. read = IF Len(f) >= 8 /\ HeadGood(k, a, b, c) /\ rest # <<>>
             THEN ReadData(rest, a[2], b[2], c[2]) ELSE Fatal
  BY <1>2, <1>5, ReadHead, Zenon
<1>7. f[9] \in Blanks /\ Len(f) >= 8
  <2>1. Len(f) >= 9
    BY <1>3, <1>5
  <2> QED BY <1>5, <2>1, NinthIsBlank
<1>8. PICK e \in 0 .. Len(d) : BlanksLead(d, e) /\ rest = From(d, e + 1)
  <2>1. 9 \in Nat /\ 9 > 0
    OBVIOUS
  <2> QED BY <1>3, <1>5, <1>7, <2>1, RestIs, Zenon
<1>9. /\ rest \in Seq(Token) /\ Len(rest) = Len(d) - e
      /\ rest = <<>> <=> e = Len(d)
      /\ e = 0 => rest = d
  <2>1. e + 1 \in Nat /\ e + 1 > 0 /\ e + 1 <= Len(d) + 1 /\ Len(d) + 1 - (e + 1) = Len(d) - e
    BY <1>3
  <2>2. rest \in Seq(Token) /\ Len(rest) = Len(d) - e
    BY <1>3, <1>8, <2>1, FromIs
  <2> HIDE DEF rest
  <2>3. rest = <<>> <=> e = Len(d)
    BY <1>3, <2>2
  <2>4. ASSUME e = 0 PROVE rest = d
    <3>1. rest = SubSeq(d, 1, Len(d))
      BY <1>8, <2>4 DEF From
    <3> QED BY <1>3, <3>1
  <2> QED BY <2>2, <2>3, <2>4
<1> HIDE DEF read, rest
<1>10. read.fatal <=> e = Len(d) \/ ~HeadGood(k, a, b, c)
  <2>1. CASE HeadGood(k, a, b, c) /\ rest # <<>>
    <3>1. read = ReadData(rest, a[2], b[2], c[2])
      BY <1>6, <1>7, <2>1, Zenon
    <3>2. read.fatal = FALSE
      <4>1. DataRead(read, rest, a[2], b[2], c[2])
        BY <3>1, ReadDataParts
      <4> QED BY <4>1 DEF DataRead
    <3> QED BY <1>9, <2>1, <3>2
  <2>2. CASE ~(HeadGood(k, a, b, c) /\ rest # <<>>)
    <3>1. read = Fatal
      BY <1>6, <2>2, Zenon
    <3>2. read.fatal = TRUE
      BY <3>1 DEF Fatal
    <3> QED BY <1>9, <2>2, <3>2
  <2> QED BY <2>1, <2>2
<1>11. ASSUME ~read.fatal
       PROVE  /\ read.w = im.w /\ read.h = im.h /\ (read.warned <=> e > 0)
              /\ read.pixels = [i \in 1 .. n |-> PixelOf(rest, i, im.max)]
  <2>1. read = ReadData(rest, im.w, im.h, im.max)
    <3>1. HeadGood(k, a, b, c) /\ rest # <<>>
      BY <1>9, <1>10, <1>11
    <3> QED BY <1>2, <1>6, <1>7, <3>1, Zenon
  <2>2. DataRead(read, rest, im.w, im.h, im.max)
    BY <2>1, ReadDataParts
  <2>3. /\ read.w = im.w /\ read.h = im.h
        /\ read.warned = (Len(rest) < SizeOf(n, im.max))
        /\ read.pixels = ValuesOf(PixOf(MemOf(rest, n, im.max), n, im.max), n)
    BY <1>1, <2>2, Zenon DEF DataRead
  <2>4. read.warned <=> e > 0
    <3>1. Len(rest) < SizeOf(n, im.max) <=> e > 0
      BY <1>3, <1>9
    <3> QED BY <2>3, <3>1, Zenon
  <2>5. read.pixels = [i \in 1 .. n |-> PixelOf(rest, i, im.max)]
    BY <1>1, <1>9, <2>3, ValuesAre
  <2> QED BY <2>3, <2>4, <2>5
<1>12. ASSUME e = 0, NEW i \in 1 .. n
       PROVE  PixelOf(rest, i, im.max) = Clipped(im.pixels[i], im.max)
  BY <1>1, <1>3, <1>9, <1>12, PixelIs
<1>13. ASSUME ~read.fatal
       PROVE  read.pixels = [i \in DOMAIN im.pixels |->
                               IF e = 0 THEN Clipped(im.pixels[i], im.max)
                               ELSE PixelOf(SubSeq(d, e + 1, Len(d)), i, im.max)]
  <2>1. rest = SubSeq(d, e + 1, Len(d)) /\ DOMAIN im.pixels = 1 .. n
    BY <1>1, <1>8 DEF From
  <2>2. \A i \in 1 .. n : PixelOf(rest, i, im.max)
                              = IF e = 0 THEN Clipped(im.pixels[i], im.max)
                                ELSE PixelOf(SubSeq(d, e + 1, Len(d)), i, im.max)
    BY <1>12, <2>1
  <2> QED BY <1>11, <1>13, <2>1, <2>2, Zenon
<1>14. AsWritten(im, e, read)
  BY <1>d, <1>g, <1>h, <1>10, <1>11, <1>13, Zenon DEF AsWritten
<1> QED BY <1>4, <1>8, <1>14, <1>d, Zenon DEF read

(* What may stand in a header is a token, and no blank.                    *)
LEMMA FieldIs ==
    ASSUME NEW header \in Headers
    PROVE  /\ \A i \in {2, 3, 4} :
                 /\ header[i] \in Token /\ header[i] \notin Blanks
                 /\ (header[i][1] = "n") = (header[i] = decimal(header[i][2]))
           /\ header[1] \in Token
<1>1. /\ header[1][2] \in 33 .. 255 /\ header[1] = byte(header[1][2])
      /\ IsField(header[2]) /\ IsField(header[3]) /\ IsField(header[4])
  BY HeadersAssumption
<1>2. ASSUME NEW t, IsField(t)
      PROVE  t \in Token /\ t \notin Blanks /\ (t[1] = "n") = (t = decimal(t[2]))
  <2>0. t[2] \in Int /\ (\/ t = decimal(t[2])
                         \/ t = byte(t[2]) /\ t[2] \in (33 .. 255) \ (43 .. 57))
    BY <1>2 DEF IsField
  <2>1. CASE t = decimal(t[2])
    <3>1. t[2] \in Int
      BY <2>0
    <3>2. /\ decimal(t[2]) \in Token /\ decimal(t[2])[1] = "n"
          /\ decimal(t[2]) \notin Blanks
      BY <3>1, TokenIs, Zenon
    <3> QED BY <2>1, <3>2
  <2>2. CASE t = byte(t[2]) /\ t[2] \in (33 .. 255) \ (43 .. 57)
    <3>1. t[2] \notin {32, 9, 10, 13} /\ t[2] \in Int
      BY <2>2
    <3>2. /\ byte(t[2]) \in Token /\ byte(t[2])[1] = "b"
          /\ (byte(t[2]) \in Blanks) = (t[2] \in {32, 9, 10, 13})
          /\ decimal(t[2])[1] = "n"
      BY <3>1, TokenIs, Zenon
    <3>3. t \in Token /\ t[1] = "b" /\ t \notin Blanks /\ decimal(t[2])[1] = "n"
      BY <2>2, <3>1, <3>2
    <3>4. t # decimal(t[2]) /\ t[1] # "n"
      <4>1. "b" # "n"
        OBVIOUS
      <4> QED BY <3>3, <4>1, Zenon
    <3> QED BY <3>3, <3>4
  <2> QED BY <2>0, <2>1, <2>2
<1>3. header[1] \in Token
  <2>1. header[1][2] \in Int
    BY <1>1
  <2> QED BY <1>1, <2>1, TokenIs
<1> QED BY <1>1, <1>2, <1>3

(* A file that somebody else wrote is refused exactly when its header is   *)
(* not one of an image or nothing comes after it.                          *)
THEOREM ForeignIsChecked ==
    ASSUME NEW header \in Headers, NEW n \in 0 .. 11
    PROVE  LET file == HeaderOf(header[1], header[2], header[3], header[4]) \o <<byte(1), byte(2)>>
           IN  ReadHeader(SubSeq(file, 1, n)).fatal <=> ~IsImageHeader(header) \/ n < 10
<1> DEFINE k == header[1]
           a == header[2]
           b == header[3]
           c == header[4]
           d == <<byte(1), byte(2)>>
           file == HeaderOf(k, a, b, c) \o d
           f == SubSeq(file, 1, n)
           rest == Skipped(From(f, 9))
           read == swap_read_pgm(f)
<1>1. /\ k \in Token /\ a \in Token /\ b \in Token /\ c \in Token
      /\ a \notin Blanks /\ b \notin Blanks /\ c \notin Blanks
      /\ (a[1] = "n") = (a = decimal(a[2]))
      /\ (b[1] = "n") = (b = decimal(b[2]))
      /\ (c[1] = "n") = (c = decimal(c[2]))
  BY FieldIs
<1>2. d \in Seq(Token) /\ Len(d) = 2 /\ d[1] \notin Blanks
  <2>1. byte(1) \in Token /\ byte(2) \in Token /\ byte(1) \notin Blanks
    BY TokenIs
  <2> QED BY <2>1
<1>f. file = HeaderOf(k, a, b, c) \o d
  OBVIOUS
<1>b. IsImageHeader(header) <=> HeadGood(k, a, b, c)
  <2>1. IsImageHeader(<<k, a, b, c>>) <=> HeadGood(k, a, b, c)
    <3> HIDE DEF k, a, b, c
    <3> QED BY <1>1, GoodIs
  <2> DEFINE x == <<k, a, b, c>>
  <2>2. x[1] = header[1] /\ x[2] = header[2] /\ x[3] = header[3] /\ x[4] = header[4]
    OBVIOUS
  <2> HIDE DEF x
  <2>3. IsImageHeader(header) <=> IsImageHeader(x)
    <3>1. /\ x[2][2] = header[2][2] /\ x[3][2] = header[3][2] /\ x[4][2] = header[4][2]
      BY <2>2
    <3> QED BY <2>2, <3>1, HeaderWords
  <2> QED BY <2>1, <2>3 DEF x
<1> HIDE DEF k, a, b, c, d, file
<1>3. Joined(file, k, a, b, c, d)
  BY <1>1, <1>2, <1>f, JoinIs, Zenon
<1>4. /\ file \in Seq(Token) /\ Len(file) = 11 /\ HeadIs(file, k, a, b, c)
      /\ file[10] = d[1]
  <2>1. /\ file \in Seq(Token) /\ Len(file) = 9 + Len(d) /\ HeadIs(file, k, a, b, c)
        /\ \A i \in 1 .. Len(d) : file[9 + i] = d[i]
    BY <1>3 DEF Joined
  <2>2. file[9 + 1] = d[1]
    BY <1>2, <2>1
  <2> QED BY <1>2, <2>1, <2>2
<1>5. /\ f \in Seq(Token) /\ Len(f) = n /\ HeadIs(f, k, a, b, c)
      /\ \A i \in 1 .. n : f[i] = file[i]
  <2>1. n \in 0 .. Len(file)
    BY <1>4
  <2> QED BY <1>4, <2>1, CutIs
<1> HIDE DEF f
<1>6. read = IF Len(f) >= 8 /\ HeadGood(k, a, b, c) /\ rest # <<>>
             THEN ReadData(rest, a[2], b[2], c[2]) ELSE Fatal
  BY <1>1, <1>5, ReadHead, Zenon
<1>7. rest = From(f, 10)
  <2>1. 9 <= Len(f) => f[9] \in Blanks
    BY <1>5, NinthIsBlank
  <2>2. 10 <= Len(f) => f[10] \notin Blanks
    BY <1>2, <1>4, <1>5
  <2> QED BY <2>1, <2>2, <1>5, SkipTo
<1>8. rest # <<>> <=> ~(n < 10)
  <2>1. CASE n < 10
    <3>1. From(f, 10) = <<>>
      BY <1>5, <2>1, FromIs
    <3> QED BY <1>7, <2>1, <3>1
  <2>2. CASE ~(n < 10)
    <3>1. From(f, 10) # <<>>
      BY <1>5, <2>2, FromIs
    <3> QED BY <1>7, <2>2, <3>1
  <2> QED BY <2>1, <2>2
<1> HIDE DEF rest, read
<1>9. read.fatal <=> ~(Len(f) >= 8 /\ HeadGood(k, a, b, c) /\ rest # <<>>)
  <2>1. CASE Len(f) >= 8 /\ HeadGood(k, a, b, c) /\ rest # <<>>
    <3>1. read = ReadData(rest, a[2], b[2], c[2])
      BY <1>6, <2>1, Zenon
    <3>2. read.fatal = FALSE
      <4>1. DataRead(read, rest, a[2], b[2], c[2])
        BY <3>1, ReadDataParts
      <4> QED BY <4>1 DEF DataRead
    <3> QED BY <2>1, <3>2
  <2>2. CASE ~(Len(f) >= 8 /\ HeadGood(k, a, b, c) /\ rest # <<>>)
    <3>1. read = Fatal
      BY <1>6, <2>2, Zenon
    <3>2. read.fatal = TRUE
      BY <3>1 DEF Fatal
    <3> QED BY <2>2, <3>2
  <2> QED BY <2>1, <2>2
<1>10. ~(n < 10) => Len(f) >= 8
  BY <1>5
<1>11. read.fatal <=> ~HeadGood(k, a, b, c) \/ n < 10
  BY <1>8, <1>9, <1>10
<1>12. ReadHeader(f).fatal <=> read.fatal
  <2>1. CASE ReadHeader(f).fatal
    BY <2>1, Zenon DEF swap_read_pgm, Fatal, read
  <2>2. CASE ~ReadHeader(f).fatal
    <3> DEFINE r == ReadHeader(f)
    <3>1. read = ReadData(r.data, r.w, r.h, r.max)
      BY <2>2, Zenon DEF swap_read_pgm, read
    <3>2. DataRead(read, r.data, r.w, r.h, r.max)
      BY <3>1, ReadDataParts
    <3>3. read.fatal = FALSE
      BY <3>2 DEF DataRead
    <3> QED BY <2>2, <3>3
  <2> QED BY <2>1, <2>2
<1> QED BY <1>b, <1>11, <1>12, Zenon DEF f, file, k, a, b, c, d

(* An image is returned as it was, or with a warning shifted by the blanks *)
(* its data begin with, for all images and headers.                        *)
THEOREM PgmAlways == Spec => []PgmShiftTold
<1>1. Init => PgmShiftTold
  BY DEF Init, PgmShiftTold, None
<1>2. ASSUME PgmShiftTold, [Next]_vars PROVE PgmShiftTold'
  <2>1. CASE UNCHANGED vars
    BY <1>2, <2>1 DEF vars, PgmShiftTold
  <2>2. CASE WriteRead
    <3>1. PICK im \in Images :
             Call("pgm", im, swap_read_pgm(swap_write_pgm(im.pixels, im.w, im.h, im.max)))
      BY <2>2 DEF WriteRead
    <3>2. op' = "pgm" /\ arg' = im
          /\ answer' = swap_read_pgm(swap_write_pgm(im.pixels, im.w, im.h, im.max))
      BY <3>1 DEF Call
    <3>3. \E e \in 0 .. Len(Buffer(arg'.pixels, arg'.max)) :
             BlanksLead(Buffer(arg'.pixels, arg'.max), e) /\ AsWritten(arg', e, answer')
      BY <3>2, ImageIsRead
    <3>4. op' # "foreign"
      BY <3>2
    <3> QED BY <3>2, <3>3, <3>4, Zenon DEF PgmShiftTold
  <2>3. CASE ReadForeign
    <3> DEFINE file(f) == HeaderOf(f[1], f[2], f[3], f[4]) \o <<byte(1), byte(2)>>
    <3>1. PICK f \in Headers, n \in 0 .. 11 :
             Call("foreign", <<f, n>>, ReadHeader(SubSeq(file(f), 1, n)).fatal)
      BY <2>3, Zenon DEF ReadForeign
    <3>2. op' = "foreign" /\ arg' = <<f, n>> /\ answer' = ReadHeader(SubSeq(file(f), 1, n)).fatal
      BY <3>1, Zenon DEF Call
    <3>3. answer' <=> ~IsImageHeader(f) \/ n < 10
      BY <3>2, ForeignIsChecked, Zenon
    <3>4. arg'[1] = f /\ arg'[2] = n
      BY <3>2
    <3>5. op' # "pgm"
      BY <3>2
    <3> QED BY <3>2, <3>3, <3>4, <3>5, Zenon DEF PgmShiftTold
  <2>4. CASE op' \notin {"pgm", "foreign"}
    BY <2>4 DEF PgmShiftTold
  <2> QED BY <1>2, <2>1, <2>2, <2>3, <2>4, Calls
<1> QED BY <1>1, <1>2, PTL DEF Spec

---------------------------------------------------------------------------
(* Quickselect (Median).                                                   *)

Items(n) == [0 .. n - 1 -> Int]

(* The elements of a in some order.                                        *)
Rearranged(b, a, n) ==
    \E p \in Bijection(0 .. n - 1, 0 .. n - 1) : \A i \in 0 .. n - 1 : b[i] = a[p[i]]

(* What is below low is not above the rest, and what is above high is not  *)
(* below it.                                                               *)
Parted(b, n, low, high) ==
    \A i, j \in 0 .. n - 1 :
        (i < low /\ low <= j) \/ (i <= high /\ high < j) => b[i] <= b[j]

(* What a round leaves as it is when it exchanges items from low to high.  *)
Kept(c, b, a, n, low, high) ==
    /\ c \in Items(n) /\ Rearranged(c, a, n) /\ Parted(c, n, low, high)
    /\ \A i \in 0 .. n - 1 : i < low => c[i] = b[i]

(* An array is a rearrangement of itself.                                  *)
LEMMA RearrangedSelf ==
    ASSUME NEW n \in Nat, NEW a \in Items(n)
    PROVE  Rearranged(a, a, n)
<1> DEFINE D == 0 .. n - 1
           p == [i \in D |-> i]
<1>1. p \in Bijection(D, D)
  BY DEF Bijection, Injection, Surjection, IsInjective
<1>2. \A i \in D : a[i] = a[p[i]]
  OBVIOUS
<1> QED BY <1>1, <1>2 DEF Rearranged

(* What an exchange does.                                                  *)
LEMMA ExchangeIs ==
    ASSUME NEW n \in Nat, NEW b \in Items(n), NEW i \in 0 .. n - 1, NEW j \in 0 .. n - 1
    PROVE  /\ Exchange(b, i, j) \in Items(n)
           /\ Exchange(b, i, j)[i] = b[j] /\ Exchange(b, i, j)[j] = b[i]
           /\ \A k \in 0 .. n - 1 : k # i /\ k # j => Exchange(b, i, j)[k] = b[k]
<1> DEFINE D == 0 .. n - 1
<1>1. b \in [D -> Int] /\ i \in D /\ j \in D
  BY DEF Items
<1> HIDE DEF D
<1>2. /\ Exchange(b, i, j) \in [D -> Int]
      /\ Exchange(b, i, j)[i] = b[j] /\ Exchange(b, i, j)[j] = b[i]
      /\ \A k \in D : k # i /\ k # j => Exchange(b, i, j)[k] = b[k]
  BY <1>1 DEF Exchange
<1> QED BY <1>2 DEF D, Items

(* An exchange rearranges the elements.                                    *)
LEMMA ExchangeRearranges ==
    ASSUME NEW n \in Nat, NEW a, NEW b \in Items(n), Rearranged(b, a, n),
           NEW i \in 0 .. n - 1, NEW j \in 0 .. n - 1
    PROVE  Rearranged(Exchange(b, i, j), a, n)
<1> DEFINE D == 0 .. n - 1
           c == Exchange(b, i, j)
           t(k) == IF k = i THEN j ELSE IF k = j THEN i ELSE k
<1>1. PICK p \in Bijection(D, D) : \A k \in D : b[k] = a[p[k]]
  BY DEF Rearranged
<1>2. /\ c[i] = b[j] /\ c[j] = b[i] /\ i \in D /\ j \in D
      /\ \A k \in D : k # i /\ k # j => c[k] = b[k]
  BY ExchangeIs
<1>3. /\ p \in [D -> D]
      /\ \A k, l \in D : p[k] = p[l] => k = l
      /\ \A l \in D : \E k \in D : p[k] = l
  BY <1>1 DEF Bijection, Injection, Surjection, IsInjective
<1> DEFINE q == [k \in D |-> p[t(k)]]
<1> HIDE DEF c, D
<1>4. \A k \in D : t(k) \in D /\ t(t(k)) = k
  BY <1>2
<1>5. q \in Bijection(D, D)
  <2>1. q \in [D -> D]
    BY <1>3, <1>4
  <2>2. ASSUME NEW k \in D, NEW l \in D, q[k] = q[l] PROVE k = l
    <3>1. t(k) = t(l)
      BY <1>3, <1>4, <2>2
    <3> QED BY <3>1
  <2>3. ASSUME NEW l \in D PROVE \E k \in D : q[k] = l
    <3>1. PICK k \in D : p[k] = l
      BY <1>3
    <3>2. t(k) \in D /\ q[t(k)] = p[t(t(k))] /\ t(t(k)) = k
      BY <1>4
    <3> HIDE DEF q, t
    <3> QED BY <3>1, <3>2
  <2> HIDE DEF q
  <2> QED BY <2>1, <2>2, <2>3 DEF Bijection, Injection, Surjection, IsInjective
<1>6. ASSUME NEW k \in D PROVE c[k] = a[q[k]]
  <2>1. c[k] = b[t(k)]
    BY <1>2
  <2>2. b[t(k)] = a[p[t(k)]]
    BY <1>1, <1>4
  <2> QED BY <2>1, <2>2
<1> HIDE DEF q
<1> QED BY <1>5, <1>6 DEF Rearranged, D, c

(* An exchange in a span keeps what the span is parted from.               *)
LEMMA ExchangeKeeps ==
    ASSUME NEW n \in Nat, NEW a, NEW b, NEW c, NEW low \in Nat, NEW high \in Int, high < n,
           Kept(c, b, a, n, low, high), NEW i \in low .. high, NEW j \in low .. high
    PROVE  Kept(Exchange(c, i, j), b, a, n, low, high)
<1> DEFINE D == 0 .. n - 1
           e == Exchange(c, i, j)
<1>1. /\ c \in Items(n) /\ Rearranged(c, a, n) /\ Parted(c, n, low, high)
      /\ \A k \in D : k < low => c[k] = b[k]
      /\ i \in D /\ j \in D
  BY DEF Kept
<1>2. /\ e \in Items(n) /\ e[i] = c[j] /\ e[j] = c[i]
      /\ \A k \in D : k # i /\ k # j => e[k] = c[k]
  BY <1>1, ExchangeIs
<1>3. Rearranged(e, a, n)
  BY <1>1, ExchangeRearranges
<1> HIDE DEF e
<1>4. \A k \in D : k < low => e[k] = b[k]
  BY <1>1, <1>2
<1>5. Parted(e, n, low, high)
  <2> SUFFICES ASSUME NEW k \in D, NEW l \in D, (k < low /\ low <= l) \/ (k <= high /\ high < l)
               PROVE  e[k] <= e[l]
    BY DEF Parted
  <2>0. \A x, y \in D : (x < low /\ low <= y) \/ (x <= high /\ high < y) => c[x] <= c[y]
    BY <1>1 DEF Parted
  <2>1. CASE k < low /\ low <= l
    <3>1. e[k] = c[k] /\ \E y \in D : low <= y /\ e[l] = c[y]
      BY <1>1, <1>2, <2>1
    <3> QED BY <2>0, <2>1, <3>1
  <2>2. CASE k <= high /\ high < l
    <3>1. e[l] = c[l] /\ \E x \in D : x <= high /\ e[k] = c[x]
      BY <1>1, <1>2, <2>2
    <3> QED BY <2>0, <2>2, <3>1
  <2> QED BY <2>1, <2>2
<1> QED BY <1>2, <1>3, <1>4, <1>5 DEF Kept, e

SortedAt(e, c, b, a, n, low, high, i, j) ==
    /\ Kept(e, b, a, n, low, high)
    /\ e[i] = (IF c[i] > c[j] THEN c[j] ELSE c[i])
    /\ e[j] = (IF c[i] > c[j] THEN c[i] ELSE c[j])
    /\ \A k \in 0 .. n - 1 : k # i /\ k # j => e[k] = c[k]

(* A comparator sorts its two places and leaves the others.                *)
LEMMA PixSortIs ==
    ASSUME NEW n \in Nat, NEW a, NEW b, NEW c, NEW low \in Nat, NEW high \in Int, high < n,
           Kept(c, b, a, n, low, high), NEW i \in low .. high, NEW j \in low .. high,
           NEW e, e = PixSort(c, <<i, j>>)
    PROVE  SortedAt(e, c, b, a, n, low, high, i, j)
<1>1. e = IF c[i] > c[j] THEN Exchange(c, i, j) ELSE c
  BY DEF PixSort
<1>2. c \in Items(n) /\ i \in 0 .. n - 1 /\ j \in 0 .. n - 1
  BY DEF Kept
<1>3. CASE c[i] > c[j]
  <2>1. e = Exchange(c, i, j)
    BY <1>1, <1>3
  <2>2. Kept(Exchange(c, i, j), b, a, n, low, high)
    BY ExchangeKeeps
  <2>3. /\ Exchange(c, i, j)[i] = c[j] /\ Exchange(c, i, j)[j] = c[i]
        /\ \A k \in 0 .. n - 1 : k # i /\ k # j => Exchange(c, i, j)[k] = c[k]
    BY <1>2, ExchangeIs
  <2> QED BY <1>3, <2>1, <2>2, <2>3 DEF SortedAt
<1>4. CASE ~(c[i] > c[j])
  BY <1>1, <1>4 DEF SortedAt
<1> QED BY <1>3, <1>4

(* The three comparators one after the other.                              *)
LEMMA ThreeSorted ==
    ASSUME NEW n \in Nat, NEW b \in Items(n), NEW low \in Nat, NEW high \in Int, high < n,
           high >= low + 2, NEW m, m = (low + high) \div 2
    PROVE  Pivot(b, low, high)
              = Exchange(PixSort(PixSort(PixSort(b, <<m, high>>), <<low, high>>), <<m, low>>),
                         m, low + 1)
<1> DEFINE x == <<m, high>>
           y == <<low, high>>
           z == <<m, low>>
           s == <<x, y, z>>
           S == Items(n)
           f == [k \in 1 .. 3 |-> [q \in S |-> PixSort(q, s[k])]]
<1>0. /\ x \in (0 .. n - 1) \X (0 .. n - 1) /\ y \in (0 .. n - 1) \X (0 .. n - 1)
      /\ z \in (0 .. n - 1) \X (0 .. n - 1)
  OBVIOUS
<1>p. s = <<<<m, high>>, <<low, high>>, <<m, low>>>>
  OBVIOUS
<1> HIDE DEF x, y, z
<1>1. Len(s) = 3 /\ s[1] = x /\ s[2] = y /\ s[3] = z
  OBVIOUS
<1>2. \A k \in 1 .. 3 : s[k] \in (0 .. n - 1) \X (0 .. n - 1)
  BY <1>0, <1>1
<1> HIDE DEF s
<1>3. ASSUME NEW k \in 1 .. 3, NEW q \in S PROVE PixSort(q, s[k]) \in S
  <2>1. s[k][1] \in 0 .. n - 1 /\ s[k][2] \in 0 .. n - 1
    BY <1>2
  <2> QED BY <2>1, ExchangeIs DEF PixSort
<1>4. f \in [1 .. 3 -> [S -> S]]
  BY <1>3
<1>5. \A k \in 1 .. 3 : \A q \in S : f[k][q] = PixSort(q, s[k])
  OBVIOUS
<1> HIDE DEF f, S
<1>6. PICK g \in [0 .. 3 -> S] : Steps(g, b, f, 3)
  BY <1>4, StepsExist DEF S
<1>7. g = [k \in 0 .. 3 |-> IF k = 0 THEN b ELSE PixSort(g[k - 1], s[k])]
  <2>1. ASSUME NEW k \in 0 .. 3
        PROVE  g[k] = IF k = 0 THEN b ELSE PixSort(g[k - 1], s[k])
    <3>1. CASE k = 0
      BY <1>6, <3>1 DEF Steps
    <3>2. CASE k # 0
      <4>1. k \in 1 .. 3 /\ k - 1 \in 0 .. 3
        BY <3>2
      <4>2. g[k - 1] \in S
        BY <1>6, <4>1
      <4>3. g[k] = f[k][g[k - 1]]
        BY <1>6, <4>1 DEF Steps
      <4> QED BY <1>5, <3>2, <4>1, <4>2, <4>3
    <3> QED BY <3>1, <3>2
  <2> QED BY <1>6, <2>1
<1> DEFINE w == CHOOSE w : w = [k \in 0 .. 3 |-> IF k = 0 THEN b ELSE PixSort(w[k - 1], s[k])]
<1>8. w = [k \in 0 .. 3 |-> IF k = 0 THEN b ELSE PixSort(w[k - 1], s[k])]
  BY <1>7
<1>9. Pivot(b, low, high) = Exchange(w[3], m, low + 1)
  <2>1. Len(s) = 3
    BY <1>1
  <2> QED BY <2>1, <1>p DEF Pivot, Loop
<1> HIDE DEF w
<1>10. ASSUME NEW k \in 1 .. 3 PROVE w[k] = PixSort(w[k - 1], s[k])
  <2>1. k \in 0 .. 3 /\ k # 0
    OBVIOUS
  <2> QED BY <1>8, <2>1, Zenon
<1>11. w[0] = b /\ w[1] = PixSort(w[0], x) /\ w[2] = PixSort(w[1], y) /\ w[3] = PixSort(w[2], z)
  <2>1. w[0] = b
    BY <1>8
  <2>2. w[1] = PixSort(w[1 - 1], s[1]) /\ w[2] = PixSort(w[2 - 1], s[2])
        /\ w[3] = PixSort(w[3 - 1], s[3])
    BY <1>10
  <2>3. 1 - 1 = 0 /\ 2 - 1 = 1 /\ 3 - 1 = 2
    OBVIOUS
  <2> QED BY <1>1, <2>1, <2>2, <2>3
<1> QED BY <1>9, <1>11 DEF x, y, z

(* The pivot stands between its sentinels.                                 *)
LEMMA PivotIs ==
    ASSUME NEW n \in Nat, NEW a, NEW b, NEW c, NEW low \in Nat, NEW high \in Int, high < n,
           high >= low + 2, Kept(c, b, a, n, low, high)
    PROVE  LET e == Pivot(c, low, high)
           IN  Kept(e, b, a, n, low, high) /\ e[low + 1] <= e[low] /\ e[low] <= e[high]
<1> DEFINE m == (low + high) \div 2
           c1 == PixSort(c, <<m, high>>)
           c2 == PixSort(c1, <<low, high>>)
           c3 == PixSort(c2, <<m, low>>)
           e == Exchange(c3, m, low + 1)
<1>1. /\ m \in low .. high /\ low < m /\ m < high /\ low + 1 < high
      /\ low \in low .. high /\ high \in low .. high /\ low + 1 \in low .. high
  OBVIOUS
<1>0. \A k \in low .. high : k \in 0 .. n - 1
  OBVIOUS
<1>2. Pivot(c, low, high) = e
  <2>1. c \in Items(n)
    BY DEF Kept
  <2> QED BY <2>1, ThreeSorted
<1> HIDE DEF m
<1>3. /\ Kept(c1, b, a, n, low, high)
      /\ c1[m] = (IF c[m] > c[high] THEN c[high] ELSE c[m])
      /\ c1[high] = (IF c[m] > c[high] THEN c[m] ELSE c[high])
  <2>1. SortedAt(c1, c, b, a, n, low, high, m, high)
    BY <1>1, PixSortIs
  <2> QED BY <2>1 DEF SortedAt
<1>t. \A d : Kept(d, b, a, n, low, high) => \A k \in low .. high : d[k] \in Int
  BY <1>0 DEF Kept, Items
<1> HIDE DEF c1
<1>4. /\ Kept(c2, b, a, n, low, high)
      /\ c2[low] = (IF c1[low] > c1[high] THEN c1[high] ELSE c1[low])
      /\ c2[high] = (IF c1[low] > c1[high] THEN c1[low] ELSE c1[high])
      /\ \A k \in 0 .. n - 1 : k # low /\ k # high => c2[k] = c1[k]
  <2>1. SortedAt(c2, c1, b, a, n, low, high, low, high)
    BY <1>1, <1>3, PixSortIs
  <2> QED BY <2>1 DEF SortedAt
<1> HIDE DEF c2
<1>5. /\ Kept(c3, b, a, n, low, high)
      /\ c3[m] = (IF c2[m] > c2[low] THEN c2[low] ELSE c2[m])
      /\ c3[low] = (IF c2[m] > c2[low] THEN c2[m] ELSE c2[low])
      /\ \A k \in 0 .. n - 1 : k # m /\ k # low => c3[k] = c2[k]
  <2>1. SortedAt(c3, c2, b, a, n, low, high, m, low)
    BY <1>1, <1>4, PixSortIs
  <2> QED BY <2>1 DEF SortedAt
<1> HIDE DEF c3
<1>6. c3[m] <= c3[low] /\ c3[low] <= c3[high]
  <2>1. c1[m] <= c1[high] /\ c1[m] \in Int /\ c1[high] \in Int /\ c1[low] \in Int
    BY <1>1, <1>3, <1>t
  <2>2. /\ c2[m] = c1[m] /\ c2[m] <= c2[high] /\ c2[low] <= c2[high]
        /\ c2[m] \in Int /\ c2[low] \in Int /\ c2[high] \in Int
    <3>1. c2[m] = c1[m]
      BY <1>0, <1>1, <1>4
    <3> QED BY <1>1, <1>4, <1>t, <2>1, <3>1
  <2>3. c3[high] = c2[high]
    BY <1>0, <1>1, <1>5
  <2> QED BY <1>5, <2>2, <2>3
<1>7. Kept(e, b, a, n, low, high)
  BY <1>1, <1>5, ExchangeKeeps
<1>8. e[low + 1] = c3[m] /\ e[low] = c3[low] /\ e[high] = c3[high]
  <2>1. c3 \in Items(n) /\ m \in 0 .. n - 1 /\ low + 1 \in 0 .. n - 1
        /\ low \in 0 .. n - 1 /\ high \in 0 .. n - 1
    BY <1>0, <1>1, <1>5 DEF Kept
  <2> QED BY <1>1, <2>1, ExchangeIs
<1> QED BY <1>2, <1>6, <1>7, <1>8

(* The size of an array.                                                   *)
LEMMA SizeIs ==
    ASSUME NEW n \in Nat, NEW c \in Items(n)
    PROVE  Size(c) = n /\ DOMAIN c = 0 .. n - 1
<1>1. DOMAIN c = 0 .. n - 1
  BY DEF Items
<1>2. Cardinality(0 .. n - 1) = n
  <2>1. Cardinality(0 .. n - 1) = IF 0 > n - 1 THEN 0 ELSE (n - 1) - 0 + 1
    BY FS_Interval
  <2> QED BY <2>1
<1> QED BY <1>1, <1>2 DEF Size

(* The scans stop at an item that is not on their side, if there is one    *)
(* before the end.                                                         *)
LEMMA ScanUpIs ==
    ASSUME NEW n \in Nat, NEW c \in Items(n), NEW low \in 0 .. n - 1, NEW high \in 0 .. n - 1,
           NEW ll \in 0 .. n - 1, ll < high, c[low] <= c[high]
    PROVE  LET k == ScanUp(c, low, ll)
           IN  /\ k \in ll + 1 .. high /\ c[low] <= c[k]
               /\ \A i \in ll + 1 .. k - 1 : c[i] <= c[low]
<1> DEFINE stops(k) == /\ \A i \in ll + 1 .. k - 1 : c[low] > c[i]
                       /\ k \in DOMAIN c => ~(c[low] > c[k])
           S == {k \in ll + 1 .. high : ~(c[low] > c[k])}
<1>0. /\ Size(c) = n /\ DOMAIN c = 0 .. n - 1
      /\ \A i \in 0 .. n - 1 : c[i] \in Int
  BY SizeIs DEF Items
<1>1. ScanUp(c, low, ll) = CHOOSE k \in ll + 1 .. n : stops(k)
  BY <1>0 DEF ScanUp
<1>2. \E k \in ll + 1 .. n : stops(k)
  <2>1. high \in S /\ S \in SUBSET Nat
    BY <1>0
  <2>2. PICK k \in S : \A y \in S : k <= y
    BY <2>1, LeastOf
  <2>3. ASSUME NEW i \in ll + 1 .. k - 1 PROVE c[low] > c[i]
    <3>1. i \in ll + 1 .. high /\ i \notin S
      BY <2>2
    <3> QED BY <3>1
  <2>4. k \in ll + 1 .. n /\ stops(k)
    BY <2>2, <2>3
  <2> QED BY <2>4
<1> HIDE DEF stops
<1>3. PICK k : k = ScanUp(c, low, ll) /\ k \in ll + 1 .. n /\ stops(k)
  BY <1>1, <1>2
<1>4. k \in ll + 1 .. high
  <2> SUFFICES ASSUME k > high PROVE FALSE
    BY <1>3
  <2>1. high \in ll + 1 .. k - 1
    BY <1>3
  <2>2. c[low] > c[high]
    BY <1>3, <2>1 DEF stops
  <2> QED BY <1>0, <2>2
<1>5. ~(c[low] > c[k]) /\ \A i \in ll + 1 .. k - 1 : c[low] > c[i]
  BY <1>0, <1>3, <1>4 DEF stops
<1>6. c[low] <= c[k] /\ \A i \in ll + 1 .. k - 1 : c[i] <= c[low]
  BY <1>0, <1>4, <1>5
<1> QED BY <1>3, <1>4, <1>6

(* The same for the scan from above.                                       *)
LEMMA ScanDownIs ==
    ASSUME NEW n \in Nat, NEW c \in Items(n), NEW low \in 0 .. n - 1, NEW first \in 0 .. n - 1,
           NEW hh \in 0 .. n - 1, first < hh, c[first] <= c[low]
    PROVE  LET k == ScanDown(c, low, hh)
           IN  /\ k \in first .. hh - 1 /\ c[k] <= c[low]
               /\ \A i \in k + 1 .. hh - 1 : c[low] <= c[i]
<1> DEFINE stops(k) == /\ \A i \in k + 1 .. hh - 1 : c[i] > c[low]
                       /\ k \in DOMAIN c => ~(c[k] > c[low])
           S == {x \in 0 .. hh - 1 - first : ~(c[hh - 1 - x] > c[low])}
<1>0. /\ DOMAIN c = 0 .. n - 1
      /\ \A i \in 0 .. n - 1 : c[i] \in Int
  BY SizeIs DEF Items
<1>1. ScanDown(c, low, hh) = CHOOSE k \in -1 .. hh - 1 : stops(k)
  BY DEF ScanDown
<1>2. \E k \in -1 .. hh - 1 : stops(k)
  <2>1. hh - 1 - first \in S /\ S \in SUBSET Nat
    <3>1. hh - 1 - (hh - 1 - first) = first
      OBVIOUS
    <3> QED BY <1>0, <3>1
  <2>2. PICK x \in S : \A y \in S : x <= y
    BY <2>1, LeastOf
  <2> DEFINE k == hh - 1 - x
  <2>3. ASSUME NEW i \in k + 1 .. hh - 1 PROVE c[i] > c[low]
    <3>1. hh - 1 - i \in 0 .. hh - 1 - first /\ hh - 1 - i \notin S /\ hh - 1 - (hh - 1 - i) = i
      BY <2>2
    <3> QED BY <3>1
  <2>4. k \in -1 .. hh - 1 /\ stops(k)
    BY <2>2, <2>3
  <2> QED BY <2>4
<1> HIDE DEF stops
<1>3. PICK k : k = ScanDown(c, low, hh) /\ k \in -1 .. hh - 1 /\ stops(k)
  BY <1>1, <1>2
<1>4. k \in first .. hh - 1
  <2> SUFFICES ASSUME k < first PROVE FALSE
    BY <1>3
  <2>1. first \in k + 1 .. hh - 1
    BY <1>3
  <2>2. c[first] > c[low]
    BY <1>3, <2>1 DEF stops
  <2> QED BY <1>0, <2>2
<1>5. ~(c[k] > c[low]) /\ \A i \in k + 1 .. hh - 1 : c[i] > c[low]
  BY <1>0, <1>3, <1>4 DEF stops
<1>6. c[k] <= c[low] /\ \A i \in k + 1 .. hh - 1 : c[low] <= c[i]
  BY <1>0, <1>4, <1>5
<1> QED BY <1>3, <1>4, <1>6

(* The scans so far: what is passed is on its side of the pivot v. Before  *)
(* they cross there is an item on either side that stops them.             *)
ScansOk(p, v, b, a, n, low, high) ==
    /\ Kept(p.arr, b, a, n, low, high) /\ p.arr[low] = v
    /\ p.ll \in low + 1 .. high /\ p.hh \in low + 1 .. high
    /\ ~p.crossed =>
          /\ p.ll <= p.hh /\ p.ll < high /\ low + 1 < p.hh
          /\ \A i \in low + 1 .. p.ll : p.arr[i] <= v
          /\ \A i \in p.hh .. high : v <= p.arr[i]
    /\ p.crossed =>
          /\ p.hh < p.ll /\ low + 2 <= p.ll /\ p.hh < high
          /\ \A i \in low + 1 .. p.ll - 1 : p.arr[i] <= v
          /\ \A i \in p.hh + 1 .. high : v <= p.arr[i]

Scans(n) == [arr : Items(n), ll : Int, hh : Int, crossed : BOOLEAN]

(* A round of the scans keeps what is known of them, and brings them       *)
(* nearer to each other.                                                   *)
LEMMA ScannedIs ==
    ASSUME NEW n \in Nat, NEW a, NEW b, NEW v, NEW low \in Nat, NEW high \in Int, high < n,
           NEW p \in Scans(n), ScansOk(p, v, b, a, n, low, high)
    PROVE  LET q == Scanned(p, low)
           IN  /\ q \in Scans(n) /\ ScansOk(q, v, b, a, n, low, high)
               /\ ~q.crossed => ~p.crossed /\ q.hh - q.ll < p.hh - p.ll
<1> DEFINE q == Scanned(p, low)
           c == p.arr
           ll == ScanUp(c, low, p.ll)
           hh == ScanDown(c, low, p.hh)
<1>1. CASE p.crossed
  <2>1. q = p
    BY <1>1 DEF Scanned
  <2> QED BY <1>1, <2>1
<1>2. CASE ~p.crossed
  <2>1. /\ Kept(c, b, a, n, low, high) /\ c[low] = v
        /\ p.ll \in low + 1 .. high /\ p.hh \in low + 1 .. high
        /\ p.ll <= p.hh /\ p.ll < high /\ low + 1 < p.hh
        /\ \A i \in low + 1 .. p.ll : c[i] <= v
        /\ \A i \in p.hh .. high : v <= c[i]
    BY <1>2 DEF ScansOk
  <2>2. c \in Items(n) /\ DOMAIN c = 0 .. n - 1 /\ c[low + 1] <= v /\ v <= c[high]
        /\ low \in 0 .. n - 1 /\ high \in 0 .. n - 1 /\ low + 1 \in 0 .. n - 1
    BY <2>1 DEF Kept, Items
  <2> HIDE DEF c
  <2>3. /\ ll \in p.ll + 1 .. high /\ v <= c[ll]
        /\ \A i \in p.ll + 1 .. ll - 1 : c[i] <= v
    <3>1. p.ll \in 0 .. n - 1
      BY <2>1
    <3> QED BY <2>1, <2>2, <3>1, ScanUpIs
  <2>4. /\ hh \in low + 1 .. p.hh - 1 /\ c[hh] <= v
        /\ \A i \in hh + 1 .. p.hh - 1 : v <= c[i]
    <3>1. p.hh \in 0 .. n - 1
      BY <2>1
    <3> QED BY <2>1, <2>2, <3>1, ScanDownIs
  <2> HIDE DEF ll, hh
  <2>5. /\ \A i \in low + 1 .. ll - 1 : c[i] <= v
        /\ \A i \in hh + 1 .. high : v <= c[i]
    BY <2>1, <2>3, <2>4
  <2>6. ll \in DOMAIN c /\ hh \in DOMAIN c
    BY <2>1, <2>2, <2>3, <2>4
  <2>7. q = IF hh >= ll THEN [arr |-> Exchange(c, ll, hh), ll |-> ll, hh |-> hh, crossed |-> FALSE]
            ELSE [arr |-> c, ll |-> ll, hh |-> hh, crossed |-> TRUE]
    BY <1>2, <2>6 DEF Scanned, ll, hh, c
  <2> HIDE DEF q
  <2>8. CASE hh >= ll
    <3> DEFINE e == Exchange(c, ll, hh)
    <3>1. q = [arr |-> e, ll |-> ll, hh |-> hh, crossed |-> FALSE]
      BY <2>7, <2>8
    <3>2. /\ e \in Items(n) /\ e[ll] = c[hh] /\ e[hh] = c[ll]
          /\ \A k \in 0 .. n - 1 : k # ll /\ k # hh => e[k] = c[k]
      <4>1. ll \in 0 .. n - 1 /\ hh \in 0 .. n - 1
        BY <2>2, <2>6
      <4> QED BY <2>2, <4>1, ExchangeIs, Zenon
    <3>3. Kept(e, b, a, n, low, high)
      <4>1. ll \in low .. high /\ hh \in low .. high
        BY <2>1, <2>3, <2>4
      <4> QED BY <2>1, <4>1, ExchangeKeeps
    <3> HIDE DEF e
    <3>4. e[low] = v
      BY <2>1, <2>2, <2>3, <2>4, <3>2
    <3>5. \A i \in low + 1 .. ll : e[i] <= v
      BY <2>1, <2>2, <2>3, <2>4, <2>5, <2>8, <3>2
    <3>6. \A i \in hh .. high : v <= e[i]
      BY <2>1, <2>2, <2>3, <2>4, <2>5, <2>8, <3>2
    <3>7. ll \in low + 1 .. high /\ hh \in low + 1 .. high /\ ll < high /\ low + 1 < hh
          /\ hh - ll < p.hh - p.ll
      BY <2>1, <2>3, <2>4, <2>8
    <3>8. q \in Scans(n)
      BY <3>1, <3>2, <3>7 DEF Scans
    <3>9. q.arr = e /\ q.ll = ll /\ q.hh = hh /\ ~q.crossed
      BY <3>1
    <3>10. ScansOk(q, v, b, a, n, low, high)
      BY <2>8, <3>3, <3>4, <3>5, <3>6, <3>7, <3>9, Zenon DEF ScansOk
    <3> QED BY <1>2, <3>7, <3>8, <3>9, <3>10 DEF q
  <2>9. CASE ~(hh >= ll)
    <3>1. q = [arr |-> c, ll |-> ll, hh |-> hh, crossed |-> TRUE]
      BY <2>7, <2>9
    <3>2. ll \in low + 1 .. high /\ hh \in low + 1 .. high /\ low + 2 <= ll /\ hh < high /\ hh < ll
      BY <2>1, <2>3, <2>4, <2>9
    <3>3. q \in Scans(n)
      BY <2>2, <3>1, <3>2 DEF Scans
    <3>4. q.arr = c /\ q.ll = ll /\ q.hh = hh /\ q.crossed
      BY <3>1
    <3>5. ScansOk(q, v, b, a, n, low, high)
      BY <2>1, <2>5, <3>2, <3>4, Zenon DEF ScansOk
    <3> QED BY <3>3, <3>4, <3>5 DEF q
  <2> QED BY <2>8, <2>9
<1> QED BY <1>1, <1>2

(* The scans cross before their rounds are over.                           *)
LEMMA NibbleSteps ==
    ASSUME NEW n \in Nat, NEW a, NEW b, NEW c \in Items(n), NEW v, NEW low \in Nat,
           NEW high \in Int, high < n,
           NEW start, start = [arr |-> c, ll |-> low + 1, hh |-> high, crossed |-> FALSE],
           start \in Scans(n), ScansOk(start, v, b, a, n, low, high)
    PROVE  \E g : /\ g[0] = start
                  /\ \A k \in 1 .. n : g[k] = Scanned(g[k - 1], low)
                  /\ \A k \in 0 .. n : g[k] \in Scans(n) /\ ScansOk(g[k], v, b, a, n, low, high)
                  /\ Nibble(c, low, high) = g[n]
<1> DEFINE S == {p \in Scans(n) : ScansOk(p, v, b, a, n, low, high)}
           s == [k \in 1 .. n |-> k]
           f == [k \in 1 .. n |-> [p \in S |-> Scanned(p, low)]]
<1>0. start \in S /\ Size(c) = n
  BY SizeIs
<1>1. Len(s) = n
  OBVIOUS
<1>2. ASSUME NEW p \in S PROVE Scanned(p, low) \in S
  BY ScannedIs
<1> HIDE DEF s, S
<1>3. f \in [1 .. n -> [S -> S]]
  BY <1>2
<1>4. \A k \in 1 .. n : \A p \in S : f[k][p] = Scanned(p, low)
  OBVIOUS
<1> HIDE DEF f
<1>5. PICK g \in [0 .. n -> S] : Steps(g, start, f, n)
  BY <1>0, <1>3, StepsExist
<1>6. g[0] = start /\ \A k \in 1 .. n : g[k] = Scanned(g[k - 1], low)
  <2>1. ASSUME NEW k \in 1 .. n PROVE g[k] = Scanned(g[k - 1], low)
    <3>1. k - 1 \in 0 .. n /\ k \in 0 .. n
      OBVIOUS
    <3>2. g[k - 1] \in S
      BY <1>5, <3>1
    <3>3. g[k] = f[k][g[k - 1]]
      BY <1>5 DEF Steps
    <3> QED BY <1>4, <3>2, <3>3
  <2> QED BY <1>5, <2>1 DEF Steps
<1>7. g = [k \in 0 .. n |-> IF k = 0 THEN start ELSE Scanned(g[k - 1], low)]
  <2>1. ASSUME NEW k \in 0 .. n
        PROVE  g[k] = IF k = 0 THEN start ELSE Scanned(g[k - 1], low)
    <3>1. k # 0 => k \in 1 .. n
      OBVIOUS
    <3> QED BY <1>6, <3>1
  <2> QED BY <1>5, <2>1
<1> DEFINE w == CHOOSE w :
               w = [k \in 0 .. n |-> IF k = 0 THEN start ELSE Scanned(w[k - 1], low)]
<1>8. w = [k \in 0 .. n |-> IF k = 0 THEN start ELSE Scanned(w[k - 1], low)]
  BY <1>7
<1>9. Nibble(c, low, high) = w[n]
  BY <1>0, <1>1 DEF Nibble, Loop, Rounds, s
<1> HIDE DEF w
<1>10. w[0] = start
  BY <1>8
<1>11. ASSUME NEW k \in 1 .. n PROVE w[k] = Scanned(w[k - 1], low)
  <2>1. k \in 0 .. n /\ k # 0
    OBVIOUS
  <2> QED BY <1>8, <2>1, Zenon
<1>12. \A k \in 0 .. n : w[k] \in S
  <2> DEFINE D == {k \in 0 .. n : w[k] \in S}
  <2>1. 0 \in D
    BY <1>0, <1>10
  <2>2. ASSUME NEW k \in 0 .. n - 1, k \in D PROVE k + 1 \in D
    <3>1. k + 1 \in 1 .. n /\ (k + 1) - 1 = k /\ k + 1 \in 0 .. n
      OBVIOUS
    <3>2. w[k + 1] = Scanned(w[k], low)
      BY <1>11, <3>1
    <3>3. w[k + 1] \in S
      BY <1>2, <2>2, <3>2
    <3> QED BY <3>1, <3>3
  <2>3. \A k \in 0 .. n : k \in D
    <3> HIDE DEF D
    <3> QED BY <2>1, <2>2, UpTo
  <2> QED BY <2>3
<1> QED BY <1>9, <1>10, <1>11, <1>12 DEF S

(* In the end the scans have crossed.                                      *)
LEMMA NibbleIs ==
    ASSUME NEW n \in Nat, NEW a, NEW b, NEW c, NEW low \in Nat,
           NEW high \in Int, high < n, high >= low + 2, Kept(c, b, a, n, low, high),
           c[low + 1] <= c[low], c[low] <= c[high]
    PROVE  LET p == Nibble(c, low, high)
           IN  p \in Scans(n) /\ p.crossed /\ ScansOk(p, c[low], b, a, n, low, high)
<1> DEFINE start == [arr |-> c, ll |-> low + 1, hh |-> high, crossed |-> FALSE]
           v == c[low]
<1>1. c \in Items(n)
  BY DEF Kept
<1>2. start \in Scans(n) /\ ScansOk(start, v, b, a, n, low, high)
  <2>1. start.arr = c /\ start.ll = low + 1 /\ start.hh = high /\ ~start.crossed
    OBVIOUS
  <2>2. start \in Scans(n)
    BY <1>1 DEF Scans
  <2> HIDE DEF start
  <2>3. /\ low + 1 \in low + 1 .. high /\ high \in low + 1 .. high
        /\ low + 1 <= high /\ low + 1 < high
        /\ \A i \in low + 1 .. low + 1 : i = low + 1
        /\ \A i \in high .. high : i = high
    OBVIOUS
  <2>4. ScansOk(start, v, b, a, n, low, high)
    BY <2>1, <2>3 DEF ScansOk
  <2> QED BY <2>2, <2>4
<1>s. start = [arr |-> c, ll |-> low + 1, hh |-> high, crossed |-> FALSE]
  OBVIOUS
<1> HIDE DEF start, v
<1>3. PICK g : /\ g[0] = start
               /\ \A k \in 1 .. n : g[k] = Scanned(g[k - 1], low)
               /\ \A k \in 0 .. n : g[k] \in Scans(n) /\ ScansOk(g[k], v, b, a, n, low, high)
               /\ Nibble(c, low, high) = g[n]
  BY <1>1, <1>2, <1>s, NibbleSteps
<1> DEFINE D == {k \in 0 .. n : ~g[k].crossed => g[k].hh - g[k].ll <= high - low - 1 - k}
<1>4. 0 \in D
  <2>1. start.hh = high /\ start.ll = low + 1
    BY <1>s
  <2> QED BY <1>3, <2>1
<1>5. ASSUME NEW k \in 0 .. n - 1, k \in D PROVE k + 1 \in D
  <2> DEFINE p == g[k]
             q == g[k + 1]
  <2>1. k + 1 \in 1 .. n /\ (k + 1) - 1 = k /\ k + 1 \in 0 .. n /\ k \in 0 .. n
    OBVIOUS
  <2>2. p \in Scans(n) /\ ScansOk(p, v, b, a, n, low, high) /\ q = Scanned(p, low)
    BY <1>3, <2>1
  <2>3. ~p.crossed => p.hh - p.ll <= high - low - 1 - k
    BY <1>5
  <2> HIDE DEF p, q
  <2>4. q \in Scans(n) /\ (~q.crossed => ~p.crossed /\ q.hh - q.ll < p.hh - p.ll)
    BY <2>2, ScannedIs
  <2>5. /\ q.hh \in Int /\ q.ll \in Int /\ p.hh \in Int /\ p.ll \in Int
    BY <2>2, <2>4 DEF Scans
  <2>6. ~q.crossed => q.hh - q.ll <= high - low - 1 - (k + 1)
    BY <2>3, <2>4, <2>5
  <2> QED BY <2>1, <2>6 DEF q
<1>6. \A k \in 0 .. n : k \in D
  <2> HIDE DEF D
  <2> QED BY <1>4, <1>5, UpTo
<1>7. g[n].crossed
  <2> SUFFICES ASSUME ~g[n].crossed PROVE FALSE
    OBVIOUS
  <2>1. n \in 0 .. n
    OBVIOUS
  <2>2. g[n].hh - g[n].ll <= high - low - 1 - n
    BY <1>6, <2>1
  <2>3. /\ g[n].ll <= g[n].hh /\ g[n].ll \in low + 1 .. high /\ g[n].hh \in low + 1 .. high
    BY <1>3, <2>1 DEF ScansOk
  <2> QED BY <2>2, <2>3
<1> QED BY <1>3, <1>7 DEF v

(* The item at m is where a sorted array has it.                           *)
InMiddle(b, n, m) ==
    \A i \in 0 .. n - 1 : (i <= m => b[i] <= b[m]) /\ (i >= m => b[m] <= b[i])

Spans(n) == [arr : Items(n), low : Int, high : Int, outside : BOOLEAN]

(* A round knows where the median is, or has found it before low.          *)
SpanOk(s, a, n, m) ==
    /\ ~s.outside /\ Rearranged(s.arr, a, n) /\ Parted(s.arr, n, s.low, s.high)
    /\ s.low \in 0 .. n - 1 /\ s.high \in -1 .. n - 1
    /\ \/ s.low <= m /\ m <= s.high
       \/ InMiddle(s.arr, n, m) /\ (m < s.low \/ s.high <= s.low)

(* Shorter by one at least, or no longer than one item.                    *)
Shorter(t, s) == t.high <= t.low \/ t.high - t.low < s.high - s.low

(* What is in the middle before low stays there.                           *)
LEMMA MiddleStays ==
    ASSUME NEW n \in Nat, NEW a, NEW b \in Items(n), NEW c, NEW m \in 0 .. n - 1,
           NEW low \in 0 .. n - 1, NEW high \in Int, high < n,
           InMiddle(b, n, m), m < low, Kept(c, b, a, n, low, high)
    PROVE  InMiddle(c, n, m)
<1>1. \A i \in 0 .. n - 1 : i < low => c[i] = b[i]
  BY DEF Kept
<1>2. c[m] = b[m]
  BY <1>1
<1>3. ASSUME NEW i \in 0 .. n - 1, i <= m PROVE c[i] <= c[m]
  BY <1>1, <1>2, <1>3 DEF InMiddle
<1>4. ASSUME NEW i \in 0 .. n - 1, i >= m PROVE c[m] <= c[i]
  <2>1. CASE i < low
    BY <1>1, <1>2, <1>4, <2>1 DEF InMiddle
  <2>2. CASE i >= low
    BY <2>2 DEF Kept, Parted
  <2> QED BY <2>1, <2>2
<1> QED BY <1>3, <1>4 DEF InMiddle

(* Two items are put in order.                                             *)
LEMMA TwoItems ==
    ASSUME NEW n \in Nat, NEW a, NEW m \in 0 .. n - 1, NEW s \in Spans(n), SpanOk(s, a, n, m),
           s.high = s.low + 1, NEW e, e = PixSort(s.arr, <<s.low, s.high>>),
           NEW t, t = [s EXCEPT !.arr = e, !.high = s.low]
    PROVE  t \in Spans(n) /\ SpanOk(t, a, n, m) /\ t.high <= t.low
<1> DEFINE b == s.arr
           low == s.low
           high == s.high
<1>1. /\ b \in Items(n) /\ ~s.outside /\ Rearranged(b, a, n) /\ Parted(b, n, low, high)
      /\ low \in 0 .. n - 1 /\ high \in -1 .. n - 1 /\ high = low + 1
      /\ \/ low <= m /\ m <= high
         \/ InMiddle(b, n, m) /\ (m < low \/ high <= low)
      /\ low \in Nat /\ high < n
  BY DEF SpanOk, Spans
<1>e. e = PixSort(b, <<low, high>>) /\ t = [s EXCEPT !.arr = e, !.high = low]
  OBVIOUS
<1>f. low = s.low /\ s \in Spans(n)
  OBVIOUS
<1> HIDE DEF b, low, high
<1>3. Kept(b, b, a, n, low, high)
  BY <1>1 DEF Kept
<1>4. SortedAt(e, b, b, a, n, low, high, low, high)
  BY <1>1, <1>3, <1>e, PixSortIs
<1>5. Kept(e, b, a, n, low, high) /\ e \in Items(n) /\ Rearranged(e, a, n)
      /\ Parted(e, n, low, high)
  BY <1>4 DEF SortedAt, Kept
<1>2. t \in Spans(n) /\ t.arr = e /\ t.low = low /\ t.high = low /\ ~t.outside
  <2>1. e \in Items(n) /\ low \in Int
    BY <1>1, <1>5
  <2>2. /\ t \in Spans(n) /\ t.arr = e /\ t.low = s.low /\ t.high = low
        /\ t.outside = s.outside
    BY <1>e, <1>f, <2>1 DEF Spans
  <2> QED BY <1>1, <1>f, <2>2
<1>t. \A i \in 0 .. n - 1 : e[i] \in Int /\ b[i] \in Int
  BY <1>1, <1>5 DEF Items
<1>6. e[low] <= e[high]
  BY <1>1, <1>4, <1>t DEF SortedAt
<1>7. Parted(e, n, low, low)
  <2> SUFFICES ASSUME NEW i \in 0 .. n - 1, NEW j \in 0 .. n - 1,
                      (i < low /\ low <= j) \/ (i <= low /\ low < j)
               PROVE  e[i] <= e[j]
    BY DEF Parted
  <2>1. CASE i < low /\ low <= j
    BY <1>5, <2>1 DEF Parted
  <2>2. CASE i = low /\ j = high
    BY <1>6, <2>2
  <2>3. CASE i = low /\ high < j
    BY <1>1, <1>5, <2>3 DEF Parted
  <2> QED BY <1>1, <2>1, <2>2, <2>3
<1>8. \/ low <= m /\ m <= low
      \/ InMiddle(e, n, m) /\ (m < low \/ low <= low)
  <2>1. CASE m < low
    <3>1. InMiddle(b, n, m)
      BY <1>1, <2>1
    <3> QED BY <1>1, <1>5, <2>1, <3>1, MiddleStays
  <2>2. CASE m = low
    BY <2>2
  <2>3. CASE m = high
    <3>1. ASSUME NEW i \in 0 .. n - 1, i <= m PROVE e[i] <= e[m]
      BY <1>1, <1>5, <1>6, <1>t, <2>3, <3>1 DEF Parted
    <3>2. ASSUME NEW i \in 0 .. n - 1, i >= m PROVE e[m] <= e[i]
      BY <1>1, <1>5, <1>t, <2>3, <3>2 DEF Parted
    <3> QED BY <1>1, <3>1, <3>2 DEF InMiddle
  <2> QED BY <1>1, <2>1, <2>2, <2>3
<1>10. SpanOk(t, a, n, m)
  BY <1>1, <1>2, <1>5, <1>7, <1>8 DEF SpanOk
<1>11. t.high <= t.low
  BY <1>1, <1>2
<1> QED BY <1>2, <1>10, <1>11 DEF b, low, high

(* The items around the pivot v, which is at hh.                           *)
Split(d, n, low, high, ll, hh, v) ==
    /\ ll \in low + 1 .. high /\ hh \in low + 1 .. high /\ hh < ll /\ hh < high
    /\ d[hh] = v
    /\ \A i \in low .. ll - 1 : d[i] <= v
    /\ \A i \in hh .. high : v <= d[i]

(* The pivot goes between the items that the scans have put on its sides.  *)
LEMMA SplitIs ==
    ASSUME NEW n \in Nat, NEW a, NEW b, NEW low \in Nat, NEW high \in Int, high < n,
           high >= low + 2, Kept(b, b, a, n, low, high),
           NEW p, p = Nibble(Pivot(b, low, high), low, high)
    PROVE  /\ p.ll \in low + 1 .. high /\ p.hh \in low + 1 .. high
           /\ Kept(Exchange(p.arr, low, p.hh), b, a, n, low, high)
           /\ \E v \in Int : Split(Exchange(p.arr, low, p.hh), n, low, high, p.ll, p.hh, v)
<1> DEFINE e == Pivot(b, low, high)
           v == e[low]
           c == p.arr
           ll == p.ll
           hh == p.hh
           d == Exchange(c, low, hh)
<1>1. Kept(e, b, a, n, low, high) /\ e[low + 1] <= e[low] /\ e[low] <= e[high]
  BY PivotIs
<1>e. p = Nibble(e, low, high)
  OBVIOUS
<1> HIDE DEF e
<1>2. p \in Scans(n) /\ p.crossed /\ ScansOk(p, v, b, a, n, low, high)
  BY <1>1, <1>e, NibbleIs
<1>3. /\ Kept(c, b, a, n, low, high) /\ c[low] = v
      /\ ll \in low + 1 .. high /\ hh \in low + 1 .. high
      /\ hh < ll /\ hh < high
      /\ \A i \in low + 1 .. ll - 1 : c[i] <= v
      /\ \A i \in hh + 1 .. high : v <= c[i]
  BY <1>2 DEF ScansOk
<1>4. low \in low .. high /\ hh \in low .. high /\ low \in 0 .. n - 1 /\ hh \in 0 .. n - 1
  BY <1>3
<1>5. v \in Int
  BY <1>1, <1>4 DEF Kept, Items
<1> HIDE DEF v, c, ll, hh
<1>6. Kept(d, b, a, n, low, high)
  BY <1>3, <1>4, ExchangeKeeps
<1>7. /\ d[low] = c[hh] /\ d[hh] = c[low]
      /\ \A k \in 0 .. n - 1 : k # low /\ k # hh => d[k] = c[k]
  BY <1>3, <1>4, ExchangeIs DEF Kept
<1> HIDE DEF d
<1>8. ASSUME NEW i \in low .. ll - 1 PROVE d[i] <= v
  <2>1. c[hh] <= v
    BY <1>3
  <2>2. i \in 0 .. n - 1 /\ (i # low => i \in low + 1 .. ll - 1)
    BY <1>3
  <2>3. i # low => c[i] <= v
    BY <1>3, <2>2
  <2>4. v <= v
    BY <1>5
  <2> QED BY <1>3, <1>7, <2>1, <2>2, <2>3, <2>4
<1>9. ASSUME NEW i \in hh .. high PROVE v <= d[i]
  <2>1. i \in 0 .. n - 1 /\ i # low /\ (i # hh => i \in hh + 1 .. high)
    BY <1>3
  <2>2. i # hh => v <= c[i]
    BY <1>3, <2>1
  <2>3. v <= v
    BY <1>5
  <2> QED BY <1>3, <1>7, <2>1, <2>2, <2>3
<1>10. Split(d, n, low, high, ll, hh, v)
  BY <1>3, <1>7, <1>8, <1>9 DEF Split
<1> QED BY <1>3, <1>5, <1>6, <1>10 DEF c, ll, hh, d

(* The span on the median's side is parted from the rest.                  *)
LEMMA SplitParts ==
    ASSUME NEW n \in Nat, NEW d \in Items(n), NEW low \in Nat, NEW high \in Int, high < n,
           NEW ll, NEW hh, NEW v \in Int, Split(d, n, low, high, ll, hh, v),
           Parted(d, n, low, high),
           NEW x \in {low, ll}, NEW y \in {high, hh - 1}
    PROVE  Parted(d, n, x, y)
<1>0. \A i \in 0 .. n - 1 : d[i] \in Int
  BY DEF Items
<1>1. /\ ll \in low + 1 .. high /\ hh \in low + 1 .. high /\ hh < ll
      /\ \A i \in low .. ll - 1 : d[i] <= v
      /\ \A i \in hh .. high : v <= d[i]
  BY DEF Split
<1>2. ASSUME NEW i \in 0 .. n - 1, NEW j \in 0 .. n - 1, i < j, i < low \/ high < j,
             low <= j, i <= high
      PROVE  d[i] <= d[j]
  BY <1>2 DEF Parted
<1>3. ASSUME NEW i \in 0 .. n - 1, NEW j \in 0 .. n - 1, i < ll, hh <= j,
             low <= i, j <= high
      PROVE  d[i] <= d[j]
  <2>1. i \in low .. ll - 1 /\ j \in hh .. high
    BY <1>1, <1>3
  <2>2. d[i] <= v /\ v <= d[j]
    BY <1>1, <2>1
  <2> QED BY <1>0, <2>2
<1>4. ASSUME NEW i \in 0 .. n - 1, NEW j \in 0 .. n - 1,
             (i < x /\ x <= j) \/ (i <= y /\ y < j)
      PROVE  d[i] <= d[j]
  <2>1. i < j /\ low <= j /\ i <= high
    BY <1>1, <1>4
  <2>2. CASE i < low \/ high < j
    BY <1>2, <2>1, <2>2
  <2>3. CASE low <= i /\ j <= high
    <3>1. i < ll /\ hh <= j
      BY <1>1, <1>4, <2>3
    <3> QED BY <1>3, <2>3, <3>1
  <2> QED BY <1>1, <2>2, <2>3
<1> QED BY <1>4 DEF Parted

(* What is between the crossed scans is in the middle.                     *)
LEMMA SplitMiddle ==
    ASSUME NEW n \in Nat, NEW d \in Items(n), NEW low \in Nat, NEW high \in Int, high < n,
           NEW ll, NEW hh, NEW v \in Int, Split(d, n, low, high, ll, hh, v),
           Parted(d, n, low, high), NEW m \in 0 .. n - 1, hh <= m, m < ll
    PROVE  InMiddle(d, n, m)
<1>0. \A i \in 0 .. n - 1 : d[i] \in Int
  BY DEF Items
<1>1. /\ ll \in low + 1 .. high /\ hh \in low + 1 .. high /\ hh < ll
      /\ \A i \in low .. ll - 1 : d[i] <= v
      /\ \A i \in hh .. high : v <= d[i]
  BY DEF Split
<1>2. m \in low .. ll - 1 /\ m \in hh .. high
  BY <1>1
<1>3. d[m] = v
  <2>1. d[m] <= v /\ v <= d[m]
    BY <1>1, <1>2
  <2> QED BY <1>0, <2>1
<1>4. ASSUME NEW i \in 0 .. n - 1, i <= m PROVE d[i] <= d[m]
  <2>1. CASE i < low
    BY <1>1, <1>2, <2>1 DEF Parted
  <2>2. CASE i >= low
    <3>1. i \in low .. ll - 1
      BY <1>1, <1>4, <2>2
    <3> QED BY <1>1, <1>3, <3>1
  <2> QED BY <1>1, <2>1, <2>2
<1>5. ASSUME NEW i \in 0 .. n - 1, i >= m PROVE d[m] <= d[i]
  <2>1. CASE i > high
    BY <1>1, <1>2, <2>1 DEF Parted
  <2>2. CASE i <= high
    <3>1. i \in hh .. high
      BY <1>1, <1>5, <2>2
    <3> QED BY <1>1, <1>3, <3>1
  <2> QED BY <1>1, <2>1, <2>2
<1> QED BY <1>4, <1>5 DEF InMiddle

(* The span that a round leaves whose scans met as in p.                   *)
SplitSpan(s, p, m) ==
    [arr |-> Exchange(p.arr, s.low, p.hh), outside |-> FALSE,
     low  |-> IF p.hh <= m THEN p.ll ELSE s.low,
     high |-> IF p.hh >= m THEN p.hh - 1 ELSE s.high]

(* A round that splits more than two items.                                *)
LEMMA SplitRound ==
    ASSUME NEW n \in Nat, NEW a, NEW m \in 0 .. n - 1, NEW s \in Spans(n), SpanOk(s, a, n, m),
           s.high >= s.low + 2,
           NEW p, p = Nibble(Pivot(s.arr, s.low, s.high), s.low, s.high),
           NEW t, t = SplitSpan(s, p, m)
    PROVE  /\ {p.ll, p.hh} \subseteq DOMAIN s.arr
           /\ t \in Spans(n) /\ SpanOk(t, a, n, m) /\ t.high - t.low < s.high - s.low
<1> DEFINE b == s.arr
           low == s.low
           high == s.high
           ll == p.ll
           hh == p.hh
           d == Exchange(p.arr, s.low, p.hh)
           x == IF hh <= m THEN ll ELSE low
           y == IF hh >= m THEN hh - 1 ELSE high
<1>1. /\ b \in Items(n) /\ ~s.outside /\ Rearranged(b, a, n) /\ Parted(b, n, low, high)
      /\ low \in 0 .. n - 1 /\ high \in -1 .. n - 1 /\ high >= low + 2
      /\ \/ low <= m /\ m <= high
         \/ InMiddle(b, n, m) /\ (m < low \/ high <= low)
      /\ low \in Nat /\ high < n
  BY DEF SpanOk, Spans
<1>2. t = [arr |-> d, outside |-> FALSE, low |-> x, high |-> y]
  BY DEF SplitSpan
<1>3. p = Nibble(Pivot(b, low, high), low, high) /\ d = Exchange(p.arr, low, hh)
  OBVIOUS
<1> HIDE DEF b, low, high, d
<1>4. Kept(b, b, a, n, low, high)
  BY <1>1 DEF Kept
<1>5. PICK v \in Int : /\ Kept(d, b, a, n, low, high)
                       /\ Split(d, n, low, high, ll, hh, v)
  <2>1. /\ Kept(Exchange(p.arr, low, p.hh), b, a, n, low, high)
        /\ \E v \in Int : Split(Exchange(p.arr, low, p.hh), n, low, high, p.ll, p.hh, v)
    BY <1>1, <1>3, <1>4, SplitIs
  <2> QED BY <1>3, <2>1
<1> HIDE DEF ll, hh
<1>6. d \in Items(n) /\ Rearranged(d, a, n) /\ Parted(d, n, low, high)
  BY <1>5 DEF Kept
<1>7. ll \in low + 1 .. high /\ hh \in low + 1 .. high /\ hh < ll
  BY <1>5 DEF Split
<1>8. ll \in DOMAIN b /\ hh \in DOMAIN b
  <2>1. DOMAIN b = 0 .. n - 1
    BY <1>1, SizeIs
  <2> QED BY <1>1, <1>7, <2>1
<1>9. x \in {low, ll} /\ y \in {high, hh - 1}
  OBVIOUS
<1>10. x \in 0 .. n - 1 /\ y \in -1 .. n - 1 /\ y - x < high - low
  BY <1>1, <1>7
<1>11. Parted(d, n, x, y)
  <2> HIDE DEF x, y
  <2> QED BY <1>1, <1>5, <1>6, <1>9, SplitParts
<1>12. \/ x <= m /\ m <= y
       \/ InMiddle(d, n, m) /\ m < x
  <2>1. CASE hh <= m /\ m < ll
    <3>1. InMiddle(d, n, m)
      BY <1>1, <1>5, <1>6, <2>1, SplitMiddle
    <3> QED BY <2>1, <3>1
  <2>2. CASE low <= m /\ m <= high /\ ~(hh <= m /\ m < ll)
    BY <1>1, <1>7, <2>2
  <2>3. CASE InMiddle(b, n, m) /\ m < low
    <3>1. InMiddle(d, n, m)
      BY <1>1, <1>5, <2>3, MiddleStays
    <3>2. m < x
      BY <1>1, <1>7, <2>3
    <3> QED BY <3>1, <3>2
  <2> QED BY <1>1, <2>1, <2>2, <2>3
<1> HIDE DEF x, y
<1>13. t \in Spans(n)
  BY <1>2, <1>6, <1>10 DEF Spans
<1>14. t.arr = d /\ t.low = x /\ t.high = y /\ t.outside = FALSE
  BY <1>2
<1>15. SpanOk(t, a, n, m)
  BY <1>6, <1>10, <1>11, <1>12, <1>14 DEF SpanOk
<1>16. t.high - t.low < high - low
  BY <1>10, <1>14
<1> QED BY <1>8, <1>13, <1>15, <1>16 DEF b, low, high, ll, hh

(* A round keeps the median in the span, or has found it, and the span     *)
(* grows shorter.                                                          *)
LEMMA NarrowedIs ==
    ASSUME NEW n \in Nat, NEW a, NEW m \in 0 .. n - 1, NEW s \in Spans(n), SpanOk(s, a, n, m),
           NEW t, t = Narrowed(s, m)
    PROVE  t \in Spans(n) /\ SpanOk(t, a, n, m) /\ Shorter(t, s)
<1> DEFINE p == Nibble(Pivot(s.arr, s.low, s.high), s.low, s.high)
           e == PixSort(s.arr, <<s.low, s.high>>)
           u == [s EXCEPT !.arr = e, !.high = s.low]
           w == SplitSpan(s, p, m)
<1>1. ~s.outside /\ s.low \in Int /\ s.high \in Int
  BY DEF SpanOk, Spans
<1>2. t = IF s.outside \/ s.high <= s.low THEN s
          ELSE IF s.high = s.low + 1 THEN u
          ELSE IF {p.ll, p.hh} \subseteq DOMAIN s.arr THEN w
          ELSE [s EXCEPT !.outside = TRUE]
  BY DEF Narrowed, SplitSpan
<1>3. CASE s.high <= s.low
  <2>1. t = s
    BY <1>2, <1>3
  <2> QED BY <1>3, <2>1 DEF Shorter
<1>4. CASE s.high = s.low + 1
  <2>1. u \in Spans(n) /\ SpanOk(u, a, n, m) /\ u.high <= u.low
    <3> HIDE DEF u, e
    <3>1. e = PixSort(s.arr, <<s.low, s.high>>) /\ u = [s EXCEPT !.arr = e, !.high = s.low]
      BY DEF u, e
    <3> QED BY <1>4, <3>1, TwoItems, Zenon
  <2> HIDE DEF u, w, p
  <2>2. t = u
    BY <1>1, <1>2, <1>4
  <2> QED BY <2>1, <2>2 DEF Shorter
<1>5. CASE s.high >= s.low + 2
  <2>1. /\ {p.ll, p.hh} \subseteq DOMAIN s.arr
        /\ w \in Spans(n) /\ SpanOk(w, a, n, m) /\ w.high - w.low < s.high - s.low
    <3> HIDE DEF p
    <3>1. p = Nibble(Pivot(s.arr, s.low, s.high), s.low, s.high)
      BY DEF p
    <3> HIDE DEF w
    <3>2. w = SplitSpan(s, p, m)
      BY DEF w
    <3> QED BY <1>5, <3>1, <3>2, SplitRound
  <2> HIDE DEF u, w, p
  <2>2. t = w
    BY <1>1, <1>2, <1>5, <2>1
  <2> QED BY <2>1, <2>2 DEF Shorter
<1> QED BY <1>1, <1>3, <1>4, <1>5

(* The rounds of Select.                                                   *)
LEMMA SelectSteps ==
    ASSUME NEW n \in Nat, NEW a \in Items(n), NEW m \in 0 .. n - 1,
           NEW start, start = [arr |-> a, low |-> 0, high |-> n - 1, outside |-> FALSE],
           start \in Spans(n), SpanOk(start, a, n, m)
    PROVE  \E g : /\ g[0] = start
                  /\ \A k \in 1 .. n : g[k] = Narrowed(g[k - 1], m)
                  /\ \A k \in 0 .. n : g[k] \in Spans(n) /\ SpanOk(g[k], a, n, m)
                  /\ Select(a, m) = IF g[n].outside THEN OutsideArray ELSE g[n].arr[m]
<1> DEFINE S == {p \in Spans(n) : SpanOk(p, a, n, m)}
           s == [k \in 1 .. n |-> k]
           f == [k \in 1 .. n |-> [p \in S |-> Narrowed(p, m)]]
<1>0. start \in S /\ Size(a) = n
  BY SizeIs
<1>1. Len(s) = n
  OBVIOUS
<1>2. ASSUME NEW p \in S PROVE Narrowed(p, m) \in S
  BY NarrowedIs
<1> HIDE DEF s, S
<1>3. f \in [1 .. n -> [S -> S]]
  BY <1>2
<1>4. \A k \in 1 .. n : \A p \in S : f[k][p] = Narrowed(p, m)
  OBVIOUS
<1> HIDE DEF f
<1>5. PICK g \in [0 .. n -> S] : Steps(g, start, f, n)
  BY <1>0, <1>3, StepsExist
<1>6. g[0] = start /\ \A k \in 1 .. n : g[k] = Narrowed(g[k - 1], m)
  <2>1. ASSUME NEW k \in 1 .. n PROVE g[k] = Narrowed(g[k - 1], m)
    <3>1. k - 1 \in 0 .. n /\ k \in 0 .. n
      OBVIOUS
    <3>2. g[k - 1] \in S
      BY <1>5, <3>1
    <3>3. g[k] = f[k][g[k - 1]]
      BY <1>5 DEF Steps
    <3> QED BY <1>4, <3>2, <3>3
  <2> QED BY <1>5, <2>1 DEF Steps
<1>7. g = [k \in 0 .. n |-> IF k = 0 THEN start ELSE Narrowed(g[k - 1], m)]
  <2>1. ASSUME NEW k \in 0 .. n
        PROVE  g[k] = IF k = 0 THEN start ELSE Narrowed(g[k - 1], m)
    <3>1. k # 0 => k \in 1 .. n
      OBVIOUS
    <3> QED BY <1>6, <3>1
  <2> QED BY <1>5, <2>1
<1> DEFINE w == CHOOSE w :
               w = [k \in 0 .. n |-> IF k = 0 THEN start ELSE Narrowed(w[k - 1], m)]
<1>8. w = [k \in 0 .. n |-> IF k = 0 THEN start ELSE Narrowed(w[k - 1], m)]
  BY <1>7
<1>9. Select(a, m) = IF w[n].outside THEN OutsideArray ELSE w[n].arr[m]
  BY <1>0, <1>1 DEF Select, Loop, Rounds, s
<1> HIDE DEF w
<1>10. w[0] = start
  BY <1>8
<1>11. ASSUME NEW k \in 1 .. n PROVE w[k] = Narrowed(w[k - 1], m)
  <2>1. k \in 0 .. n /\ k # 0
    OBVIOUS
  <2> QED BY <1>8, <2>1, Zenon
<1>12. \A k \in 0 .. n : w[k] \in S
  <2> DEFINE D == {k \in 0 .. n : w[k] \in S}
  <2>1. 0 \in D
    BY <1>0, <1>10
  <2>2. ASSUME NEW k \in 0 .. n - 1, k \in D PROVE k + 1 \in D
    <3>1. k + 1 \in 1 .. n /\ (k + 1) - 1 = k /\ k + 1 \in 0 .. n
      OBVIOUS
    <3>2. w[k + 1] = Narrowed(w[k], m)
      BY <1>11, <3>1
    <3>3. w[k + 1] \in S
      BY <1>2, <2>2, <3>2
    <3> QED BY <3>1, <3>3
  <2>3. \A k \in 0 .. n : k \in D
    <3> HIDE DEF D
    <3> QED BY <2>1, <2>2, UpTo
  <2> QED BY <2>3
<1> QED BY <1>9, <1>10, <1>11, <1>12 DEF S

(* They are enough for the span to close, and no scan has left the array.  *)
LEMMA SelectIs ==
    ASSUME NEW n \in Nat, NEW a \in Items(n), NEW m \in 0 .. n - 1
    PROVE  \E b \in Items(n) : /\ Rearranged(b, a, n) /\ InMiddle(b, n, m)
                               /\ Select(a, m) = b[m]
<1> DEFINE start == [arr |-> a, low |-> 0, high |-> n - 1, outside |-> FALSE]
<1>1. start \in Spans(n) /\ SpanOk(start, a, n, m)
  <2>1. start \in Spans(n)
    BY DEF Spans
  <2>2. /\ start.arr = a /\ start.low = 0 /\ start.high = n - 1 /\ start.outside = FALSE
    OBVIOUS
  <2> HIDE DEF start
  <2>3. Rearranged(a, a, n)
    BY RearrangedSelf
  <2>4. Parted(a, n, 0, n - 1)
    BY DEF Parted
  <2>5. 0 \in 0 .. n - 1 /\ n - 1 \in -1 .. n - 1 /\ 0 <= m /\ m <= n - 1
    OBVIOUS
  <2> QED BY <2>1, <2>2, <2>3, <2>4, <2>5 DEF SpanOk
<1>s. start = [arr |-> a, low |-> 0, high |-> n - 1, outside |-> FALSE]
  OBVIOUS
<1>h. start.high = n - 1 /\ start.low = 0
  OBVIOUS
<1> HIDE DEF start
<1>3. PICK g : /\ g[0] = start
               /\ \A k \in 1 .. n : g[k] = Narrowed(g[k - 1], m)
               /\ \A k \in 0 .. n : g[k] \in Spans(n) /\ SpanOk(g[k], a, n, m)
               /\ Select(a, m) = IF g[n].outside THEN OutsideArray ELSE g[n].arr[m]
  BY <1>1, <1>s, SelectSteps
<1> DEFINE D == {k \in 0 .. n : \/ g[k].high <= g[k].low
                                \/ g[k].high - g[k].low <= n - 1 - k}
<1>4. 0 \in D
  BY <1>3, <1>h
<1>5. ASSUME NEW k \in 0 .. n - 1, k \in D PROVE k + 1 \in D
  <2> DEFINE p == g[k]
             q == g[k + 1]
  <2>1. k + 1 \in 1 .. n /\ (k + 1) - 1 = k /\ k + 1 \in 0 .. n /\ k \in 0 .. n
    OBVIOUS
  <2>2. p \in Spans(n) /\ SpanOk(p, a, n, m) /\ q = Narrowed(p, m)
    BY <1>3, <2>1
  <2>3. p.high <= p.low \/ p.high - p.low <= n - 1 - k
    BY <1>5
  <2> HIDE DEF p, q
  <2>4. q \in Spans(n) /\ (q.high <= q.low \/ q.high - q.low < p.high - p.low)
    BY <2>2, NarrowedIs DEF Shorter
  <2>5. q.high \in Int /\ q.low \in Int /\ p.high \in Int /\ p.low \in Int
    BY <2>2, <2>4 DEF Spans
  <2>6. q.high <= q.low \/ q.high - q.low <= n - 1 - (k + 1)
    BY <2>3, <2>4, <2>5
  <2> QED BY <2>1, <2>6 DEF q
<1>6. \A k \in 0 .. n : k \in D
  <2> HIDE DEF D
  <2> QED BY <1>4, <1>5, UpTo
<1> DEFINE s == g[n]
           b == s.arr
           low == s.low
           high == s.high
<1>7. /\ b \in Items(n) /\ low \in 0 .. n - 1 /\ high \in -1 .. n - 1
      /\ ~s.outside /\ Rearranged(b, a, n) /\ Parted(b, n, low, high)
      /\ \/ low <= m /\ m <= high
         \/ InMiddle(b, n, m) /\ (m < low \/ high <= low)
  <2>1. n \in 0 .. n
    OBVIOUS
  <2>2. s \in Spans(n) /\ SpanOk(s, a, n, m)
    BY <1>3, <2>1
  <2> HIDE DEF s
  <2> QED BY <2>2 DEF SpanOk, Spans
<1>8. high <= low
  <2>1. n \in D
    BY <1>6
  <2>2. high <= low \/ high - low <= n - 1 - n
    BY <2>1
  <2> HIDE DEF high, low
  <2> QED BY <1>7, <2>2
<1>9. Select(a, m) = b[m]
  BY <1>3, <1>7
<1> HIDE DEF b, low, high, s
<1>10. InMiddle(b, n, m)
  <2>1. CASE low <= m /\ m <= high
    <3>0. \A i \in 0 .. n - 1 : b[i] \in Int
      BY <1>7 DEF Items
    <3>1. m = low /\ m = high
      BY <1>7, <1>8, <2>1
    <3>2. ASSUME NEW i \in 0 .. n - 1, i <= m PROVE b[i] <= b[m]
      BY <1>7, <3>0, <3>1, <3>2 DEF Parted
    <3>3. ASSUME NEW i \in 0 .. n - 1, i >= m PROVE b[m] <= b[i]
      BY <1>7, <3>0, <3>1, <3>3 DEF Parted
    <3> QED BY <3>2, <3>3 DEF InMiddle
  <2> QED BY <1>7, <2>1
<1> QED BY <1>7, <1>9, <1>10

(* What is in the middle of the elements, in whatever order, is the lower  *)
(* median.                                                                 *)
LEMMA MiddleIsMedian ==
    ASSUME NEW n \in Nat \ {0}, NEW a \in Items(n), NEW b \in Items(n), Rearranged(b, a, n),
           NEW m, m = MedianIndex(n), InMiddle(b, n, m)
    PROVE  IsLowerMedian(b[m], a)
<1> DEFINE D == 0 .. n - 1
           v == b[m]
           below == {i \in D : a[i] < v}
           upto == {i \in D : a[i] <= v}
<1>0. m \in D /\ 2 * m <= n - 1 /\ n - 1 < 2 * (m + 1)
  BY DEF MedianIndex
<1>1. PICK p \in Bijection(D, D) : \A k \in D : b[k] = a[p[k]]
  BY DEF Rearranged
<1>2. /\ p \in [D -> D]
      /\ \A k, l \in D : p[k] = p[l] => k = l
      /\ \A l \in D : \E k \in D : p[k] = l
  BY <1>1 DEF Bijection, Injection, Surjection, IsInjective
<1>3. DOMAIN a = D /\ Cardinality(D) = n /\ IsFiniteSet(D)
  <2>1. IsFiniteSet(0 .. n - 1)
    BY FS_Interval
  <2> QED BY <2>1, SizeIs DEF Size
<1>4. \A i \in D : a[i] \in Int /\ b[i] \in Int
  BY DEF Items
<1>5. Cardinality(below) \in Nat /\ Cardinality(below) <= m
  <2> DEFINE U == 0 .. m - 1
             T == {p[k] : k \in U}
             q == [k \in U |-> p[k]]
  <2>1. IsFiniteSet(U) /\ Cardinality(U) = m
    <3>0. m - 1 \in Int /\ 0 \in Int
      BY <1>0
    <3>1. /\ IsFiniteSet(0 .. m - 1)
          /\ Cardinality(0 .. m - 1) = IF 0 > m - 1 THEN 0 ELSE (m - 1) - 0 + 1
      BY <3>0, FS_Interval, Zenon
    <3>2. m = IF 0 > m - 1 THEN 0 ELSE (m - 1) - 0 + 1
      BY <1>0
    <3> QED BY <3>1, <3>2
  <2>2. q \in Surjection(U, T)
    <3>1. q \in [U -> T] /\ \A t \in T : \E k \in U : q[k] = t
      OBVIOUS
    <3> HIDE DEF q, T, U
    <3> QED BY <3>1 DEF Surjection
  <2>3. IsFiniteSet(T) /\ Cardinality(T) <= m
    <3> HIDE DEF U, T, q
    <3> QED BY <2>1, <2>2, FS_Surjection
  <2>4. below \in SUBSET T
    <3> SUFFICES ASSUME NEW i \in D, a[i] < v PROVE i \in T
      OBVIOUS
    <3>1. PICK k \in D : p[k] = i
      BY <1>2
    <3>2. b[k] < v
      BY <1>1, <3>1
    <3>3. ~(k >= m)
      BY <1>0, <1>4, <3>2 DEF InMiddle
    <3> QED BY <1>0, <3>1, <3>3
  <2>5. IsFiniteSet(below) /\ Cardinality(below) <= Cardinality(T)
    <3> HIDE DEF T, below
    <3> QED BY <2>3, <2>4, FS_Subset
  <2>6. Cardinality(below) \in Nat /\ Cardinality(T) \in Nat
    BY <2>3, <2>5, FS_CardinalityType
  <2> QED BY <1>0, <2>3, <2>5, <2>6
<1>6. Cardinality(upto) \in Nat /\ Cardinality(upto) >= m + 1
  <2> DEFINE U == 0 .. m
             q == [k \in U |-> p[k]]
  <2>1. IsFiniteSet(U) /\ Cardinality(U) = m + 1
    <3>1. /\ IsFiniteSet(0 .. m)
          /\ Cardinality(0 .. m) = IF 0 > m THEN 0 ELSE m - 0 + 1
      BY <1>0, FS_Interval
    <3> QED BY <1>0, <3>1
  <2>2. ASSUME NEW k \in U PROVE k \in D /\ p[k] \in upto
    <3>1. k \in D /\ k <= m
      BY <1>0
    <3>2. b[k] <= v /\ b[k] = a[p[k]] /\ p[k] \in D
      BY <1>1, <1>2, <3>1 DEF InMiddle
    <3> QED BY <3>1, <3>2
  <2>3. q \in Injection(U, upto)
    <3>1. q \in [U -> upto]
      BY <2>2
    <3>2. ASSUME NEW k \in U, NEW l \in U, q[k] = q[l] PROVE k = l
      BY <1>2, <2>2, <3>2
    <3> QED BY <3>1, <3>2 DEF Injection, IsInjective
  <2>4. IsFiniteSet(upto)
    <3>1. upto \in SUBSET D
      OBVIOUS
    <3> HIDE DEF upto
    <3> QED BY <1>3, <3>1, FS_Subset
  <2>5. Cardinality(U) <= Cardinality(upto)
    <3> HIDE DEF U, q, upto
    <3> QED BY <2>3, <2>4, FS_Injection
  <2>6. Cardinality(upto) \in Nat
    BY <2>4, FS_CardinalityType
  <2> QED BY <1>0, <2>1, <2>5, <2>6
<1>7. v \in {a[i] : i \in DOMAIN a}
  <2>1. v = a[p[m]] /\ p[m] \in D
    BY <1>0, <1>1, <1>2
  <2> QED BY <1>3, <2>1
<1>8. /\ {i \in DOMAIN a : a[i] < v} = below /\ {i \in DOMAIN a : a[i] <= v} = upto
      /\ Cardinality(DOMAIN a) = n
  BY <1>3
<1>9. 2 * Cardinality(below) < n /\ 2 * Cardinality(upto) >= n
  <2> HIDE DEF below, upto
  <2> QED BY <1>0, <1>5, <1>6
<1> HIDE DEF below, upto, v
<1>10. IsLowerMedian(v, a)
  BY <1>7, <1>8, <1>9 DEF IsLowerMedian
<1> QED BY <1>10 DEF v

(* However long the array and whatever is in it, Quickselect ends with the *)
(* lower median at the middle place, and none of its scans, which only the *)
(* values stop, has left the array (swap_math.c:386).                      *)
THEOREM SelectIsMedian ==
    ASSUME NEW n \in Nat \ {0}, NEW a \in [0 .. n - 1 -> Int]
    PROVE  /\ IsLowerMedian(Select(a, MedianIndex(n)), a)
           /\ \E i \in 0 .. n - 1 : Select(a, MedianIndex(n)) = a[i]
<1> DEFINE m == MedianIndex(n)
<1>1. m \in 0 .. n - 1
  BY DEF MedianIndex
<1>2. a \in Items(n)
  BY DEF Items
<1> HIDE DEF m
<1>3. PICK b \in Items(n) : Rearranged(b, a, n) /\ InMiddle(b, n, m) /\ Select(a, m) = b[m]
  BY <1>1, <1>2, SelectIs
<1>4. IsLowerMedian(b[m], a)
  BY <1>2, <1>3, MiddleIsMedian DEF m
<1>5. \E i \in 0 .. n - 1 : b[m] = a[i]
  <2>1. DOMAIN a = 0 .. n - 1
    OBVIOUS
  <2> QED BY <1>4, <2>1 DEF IsLowerMedian
<1> QED BY <1>3, <1>4, <1>5 DEF m

---------------------------------------------------------------------------
(* The networks (Median). What is at most v of an array is a set of places, *)
(* and a comparator moves it to the first of its two places. A network has *)
(* found the median when the middle place is in the set just if the set is *)
(* large enough, whatever v is.                                            *)

Low(b, v, n) == {p \in 0 .. n - 1 : b[p] <= v}

Sifts(B, A, i, j, n) ==
    /\ i \in B <=> i \in A \/ j \in A
    /\ j \in B <=> i \in A /\ j \in A
    /\ \A p \in 0 .. n - 1 : p # i /\ p # j => (p \in B <=> p \in A)

IsNetwork(s, n) ==
    \A k \in 1 .. Len(s) : /\ s[k][1] \in 0 .. n - 1 /\ s[k][2] \in 0 .. n - 1
                           /\ s[k] = <<s[k][1], s[k][2]>>

(* A comparator moves what is low to its first place.                      *)
LEMMA PixSortSifts ==
    ASSUME NEW n \in Nat, NEW a, NEW b \in Items(n), Rearranged(b, a, n),
           NEW i \in 0 .. n - 1, NEW j \in 0 .. n - 1,
           NEW e, e = PixSort(b, <<i, j>>)
    PROVE  /\ e \in Items(n) /\ Rearranged(e, a, n)
           /\ \A v \in Int : Sifts(Low(e, v, n), Low(b, v, n), i, j, n)
<1>0. e = IF b[i] > b[j] THEN Exchange(b, i, j) ELSE b
  BY DEF PixSort
<1>1. e \in Items(n) /\ Rearranged(e, a, n)
  BY <1>0, ExchangeIs, ExchangeRearranges
<1>t. \A k \in 0 .. n - 1 : b[k] \in Int /\ e[k] \in Int
  BY <1>1 DEF Items
<1>2. /\ e[i] = IF b[i] > b[j] THEN b[j] ELSE b[i]
      /\ e[j] = IF b[i] > b[j] THEN b[i] ELSE b[j]
      /\ \A k \in 0 .. n - 1 : k # i /\ k # j => e[k] = b[k]
  <2>1. CASE b[i] > b[j]
    <3>1. e = Exchange(b, i, j)
      BY <1>0, <2>1
    <3>2. /\ Exchange(b, i, j)[i] = b[j] /\ Exchange(b, i, j)[j] = b[i]
          /\ \A k \in 0 .. n - 1 : k # i /\ k # j => Exchange(b, i, j)[k] = b[k]
      BY ExchangeIs
    <3> QED BY <2>1, <3>1, <3>2
  <2>2. CASE ~(b[i] > b[j])
    BY <1>0, <2>2
  <2> QED BY <2>1, <2>2
<1>3. ASSUME NEW v \in Int PROVE Sifts(Low(e, v, n), Low(b, v, n), i, j, n)
  <2>1. e[i] <= v <=> b[i] <= v \/ b[j] <= v
    BY <1>2, <1>t
  <2>2. e[j] <= v <=> b[i] <= v /\ b[j] <= v
    BY <1>2, <1>t
  <2>3. \A k \in 0 .. n - 1 : k # i /\ k # j => (e[k] <= v <=> b[k] <= v)
    BY <1>2
  <2> QED BY <2>1, <2>2, <2>3 DEF Sifts, Low
<1> QED BY <1>1, <1>3

(* The steps of a network.                                                 *)
Sifted(g, a, s, n) ==
    /\ g[0] = a
    /\ \A k \in 0 .. Len(s) : g[k] \in Items(n) /\ Rearranged(g[k], a, n)
    /\ \A k \in 1 .. Len(s) : \A v \in Int :
          Sifts(Low(g[k], v, n), Low(g[k - 1], v, n), s[k][1], s[k][2], n)

(* A network rearranges the elements, one comparator after the other.      *)
LEMMA SiftedIs ==
    ASSUME NEW n \in Nat, NEW a \in Items(n), NEW s, Len(s) \in Nat, IsNetwork(s, n)
    PROVE  \E g : Sifted(g, a, s, n) /\ Loop(PixSort, a, s) = g[Len(s)]
<1> DEFINE N == Len(s)
           S == {b \in Items(n) : Rearranged(b, a, n)}
           f == [k \in 1 .. N |-> [b \in S |-> PixSort(b, s[k])]]
<1>0. a \in S
  BY RearrangedSelf
<1>2. ASSUME NEW b \in S, NEW k \in 1 .. N
      PROVE  /\ PixSort(b, s[k]) \in S
             /\ \A v \in Int : Sifts(Low(PixSort(b, s[k]), v, n), Low(b, v, n), s[k][1], s[k][2], n)
  <2> DEFINE i == s[k][1]
             j == s[k][2]
  <2>1. i \in 0 .. n - 1 /\ j \in 0 .. n - 1 /\ s[k] = <<i, j>>
    BY DEF IsNetwork
  <2> HIDE DEF i, j
  <2>2. /\ PixSort(b, <<i, j>>) \in S
        /\ \A v \in Int : Sifts(Low(PixSort(b, <<i, j>>), v, n), Low(b, v, n), i, j, n)
    BY <2>1, PixSortSifts
  <2> QED BY <2>1, <2>2 DEF i, j
<1> HIDE DEF S, N
<1>n. N \in Nat
  BY DEF N
<1>3. f \in [1 .. N -> [S -> S]]
  BY <1>2
<1>4. \A k \in 1 .. N : \A b \in S : f[k][b] = PixSort(b, s[k])
  OBVIOUS
<1> HIDE DEF f
<1>5. PICK g \in [0 .. N -> S] : Steps(g, a, f, N)
  BY <1>0, <1>3, <1>n, StepsExist
<1>6. g[0] = a /\ \A k \in 1 .. N : g[k] = PixSort(g[k - 1], s[k])
  <2>1. ASSUME NEW k \in 1 .. N PROVE g[k] = PixSort(g[k - 1], s[k])
    <3>1. k - 1 \in 0 .. N /\ k \in 0 .. N
      BY <1>n
    <3>2. g[k - 1] \in S
      BY <1>5, <3>1
    <3>3. g[k] = f[k][g[k - 1]]
      BY <1>5 DEF Steps
    <3> QED BY <1>4, <3>2, <3>3
  <2> QED BY <1>5, <2>1 DEF Steps
<1>7. g = [k \in 0 .. N |-> IF k = 0 THEN a ELSE PixSort(g[k - 1], s[k])]
  <2>1. ASSUME NEW k \in 0 .. N
        PROVE  g[k] = IF k = 0 THEN a ELSE PixSort(g[k - 1], s[k])
    <3>1. k # 0 => k \in 1 .. N
      BY <1>n
    <3> QED BY <1>6, <3>1
  <2> QED BY <1>5, <2>1
<1> DEFINE w == CHOOSE w :
               w = [k \in 0 .. N |-> IF k = 0 THEN a ELSE PixSort(w[k - 1], s[k])]
<1>8. w = [k \in 0 .. N |-> IF k = 0 THEN a ELSE PixSort(w[k - 1], s[k])]
  BY <1>7
<1>9. Loop(PixSort, a, s) = w[N]
  BY DEF Loop, N
<1> HIDE DEF w
<1>10. w[0] = a
  BY <1>8, <1>n
<1>11. ASSUME NEW k \in 1 .. N PROVE w[k] = PixSort(w[k - 1], s[k])
  <2>1. k \in 0 .. N /\ k # 0
    BY <1>n
  <2> QED BY <1>8, <2>1, Zenon
<1>12. \A k \in 0 .. N : w[k] \in S
  <2> DEFINE D == {k \in 0 .. N : w[k] \in S}
  <2>1. 0 \in D
    BY <1>0, <1>10, <1>n
  <2>2. ASSUME NEW k \in 0 .. N - 1, k \in D PROVE k + 1 \in D
    <3>1. k + 1 \in 1 .. N /\ (k + 1) - 1 = k /\ k + 1 \in 0 .. N
      BY <1>n
    <3>2. w[k + 1] = PixSort(w[k], s[k + 1])
      BY <1>11, <3>1
    <3>3. w[k + 1] \in S
      BY <1>2, <2>2, <3>1, <3>2
    <3> QED BY <3>1, <3>3
  <2>3. \A k \in 0 .. N : k \in D
    <3> HIDE DEF D
    <3> QED BY <1>n, <2>1, <2>2, UpTo
  <2> QED BY <2>3
<1>13. ASSUME NEW k \in 1 .. N, NEW v \in Int
       PROVE  Sifts(Low(w[k], v, n), Low(w[k - 1], v, n), s[k][1], s[k][2], n)
  <2>1. k - 1 \in 0 .. N
    BY <1>n
  <2>2. w[k - 1] \in S
    BY <1>12, <2>1
  <2> QED BY <1>2, <1>11, <2>2
<1>14. Sifted(w, a, s, n)
  BY <1>10, <1>12, <1>13 DEF Sifted, S, N
<1> QED BY <1>9, <1>14 DEF N

(* How many of the places below each one are in A.                         *)
Counts(c, A, n) ==
    /\ c[0] = 0 /\ \A k \in 0 .. n : c[k] \in Nat
    /\ \A k \in 0 .. n - 1 : c[k + 1] = c[k] + (IF k \in A THEN 1 ELSE 0)

(* The counts end with the number of elements.                             *)
LEMMA CountIs ==
    ASSUME NEW n \in Nat, NEW A \in SUBSET (0 .. n - 1)
    PROVE  \E c : Counts(c, A, n) /\ c[n] = Cardinality(A)
<1> DEFINE B(k) == A \cap (0 .. k - 1)
           c == [k \in 0 .. n |-> Cardinality(B(k))]
<1>1. ASSUME NEW k \in 0 .. n PROVE IsFiniteSet(B(k)) /\ Cardinality(B(k)) \in Nat
  <2>1. IsFiniteSet(0 .. n - 1)
    BY FS_Interval
  <2>2. B(k) \in SUBSET (0 .. n - 1)
    OBVIOUS
  <2> HIDE DEF B
  <2>3. IsFiniteSet(B(k))
    BY <2>1, <2>2, FS_Subset
  <2> QED BY <2>3, FS_CardinalityType
<1>2. B(0) = {} /\ B(n) = A
  <2>1. 0 .. 0 - 1 = {}
    OBVIOUS
  <2>2. A \cap (0 .. n - 1) = A
    OBVIOUS
  <2> QED BY <2>1, <2>2
<1>3. ASSUME NEW k \in 0 .. n - 1
      PROVE  Cardinality(B(k + 1)) = Cardinality(B(k)) + (IF k \in A THEN 1 ELSE 0)
  <2>0. 0 .. (k + 1) - 1 = (0 .. k - 1) \cup {k}
    OBVIOUS
  <2>1. B(k + 1) = IF k \in A THEN B(k) \cup {k} ELSE B(k)
    <3>1. B(k + 1) = A \cap ((0 .. k - 1) \cup {k})
      BY <2>0
    <3> QED BY <3>1
  <2>2. k \notin B(k) /\ k \in 0 .. n
    OBVIOUS
  <2>3. IsFiniteSet(B(k)) /\ Cardinality(B(k)) \in Nat
    BY <1>1, <2>2
  <2> HIDE DEF B
  <2>4. Cardinality(B(k) \cup {k}) = Cardinality(B(k)) + 1
    BY <2>2, <2>3, FS_AddElement
  <2> QED BY <2>1, <2>3, <2>4
<1>4. c[n] = Cardinality(A)
  BY <1>2
<1>5. c[0] = 0
  BY <1>2, FS_EmptySet
<1>6. \A k \in 0 .. n : c[k] \in Nat
  BY <1>1
<1>7. ASSUME NEW k \in 0 .. n - 1 PROVE c[k + 1] = c[k] + (IF k \in A THEN 1 ELSE 0)
  <2>1. k \in 0 .. n /\ k + 1 \in 0 .. n
    OBVIOUS
  <2> HIDE DEF B
  <2> QED BY <1>3, <2>1
<1> HIDE DEF c
<1> QED BY <1>4, <1>5, <1>6, <1>7 DEF Counts

(* Rearranging keeps how many elements are at most v.                      *)
LEMMA LowKept ==
    ASSUME NEW n \in Nat, NEW a \in Items(n), NEW b \in Items(n), Rearranged(b, a, n), NEW v \in Int
    PROVE  Cardinality(Low(b, v, n)) = Cardinality(Low(a, v, n))
<1> DEFINE D == 0 .. n - 1
           A == Low(a, v, n)
           B == Low(b, v, n)
<1>1. PICK p \in Bijection(D, D) : \A k \in D : b[k] = a[p[k]]
  BY DEF Rearranged
<1>2. /\ p \in [D -> D]
      /\ \A k, l \in D : p[k] = p[l] => k = l
      /\ \A l \in D : \E k \in D : p[k] = l
  BY <1>1 DEF Bijection, Injection, Surjection, IsInjective
<1> DEFINE q == [k \in B |-> p[k]]
<1>3. \A k \in D : k \in B <=> p[k] \in A
  BY <1>1, <1>2 DEF Low
<1>4. A \in SUBSET D /\ B \in SUBSET D
  BY DEF Low
<1>5. IsFiniteSet(D)
  BY FS_Interval
<1> HIDE DEF A, B, D
<1>6. q \in [B -> A]
  BY <1>2, <1>3, <1>4
<1>7. ASSUME NEW k \in B, NEW l \in B, q[k] = q[l] PROVE k = l
  BY <1>2, <1>4, <1>7
<1>8. ASSUME NEW l \in A PROVE \E k \in B : q[k] = l
  <2>1. PICK k \in D : p[k] = l
    BY <1>2, <1>4
  <2> QED BY <1>3, <2>1
<1> HIDE DEF q
<1>9. q \in Bijection(B, A)
  BY <1>6, <1>7, <1>8 DEF Bijection, Injection, Surjection, IsInjective
<1>10. IsFiniteSet(B)
  BY <1>4, <1>5, FS_Subset
<1>11. ExistsBijection(B, A)
  BY <1>9 DEF ExistsBijection
<1>12. Cardinality(A) = Cardinality(B)
  BY <1>10, <1>11, FS_Bijection
<1> QED BY <1>12 DEF A, B

(* The middle of an odd number of items, for any bound v.                  *)
LEMMA BoundsAreMedian ==
    ASSUME NEW m \in Nat, NEW n, n = 2 * m + 1, NEW a \in Items(n), NEW b \in Items(n),
           Rearranged(b, a, n),
           \A v \in Int : m \in Low(b, v, n) <=> Cardinality(Low(a, v, n)) >= m + 1
    PROVE  IsLowerMedian(b[m], a)
<1> DEFINE D == 0 .. n - 1
           v == b[m]
           u == v - 1
<1>0. n \in Nat /\ m \in D
  OBVIOUS
<1>1. v \in Int /\ u \in Int /\ v <= v /\ ~(v <= u) /\ \A i \in D : a[i] \in Int
  BY <1>0 DEF Items
<1>2. DOMAIN a = D /\ Cardinality(D) = n /\ IsFiniteSet(D)
  <2>1. IsFiniteSet(0 .. n - 1)
    BY <1>0, FS_Interval
  <2> QED BY <1>0, <2>1, SizeIs DEF Size
<1> HIDE DEF v
<1>3. m \in Low(b, v, n) /\ m \notin Low(b, u, n)
  BY <1>0, <1>1 DEF Low, v
<1>4. Cardinality(Low(a, v, n)) >= m + 1 /\ ~(Cardinality(Low(a, u, n)) >= m + 1)
  BY <1>1, <1>3
<1>5. {i \in DOMAIN a : a[i] <= v} = Low(a, v, n)
  BY <1>2 DEF Low
<1>6. {i \in DOMAIN a : a[i] < v} = Low(a, u, n)
  BY <1>1, <1>2 DEF Low
<1>7. Cardinality(Low(a, v, n)) \in Nat /\ Cardinality(Low(a, u, n)) \in Nat
  <2>1. Low(a, v, n) \in SUBSET D /\ Low(a, u, n) \in SUBSET D
    BY DEF Low
  <2>2. IsFiniteSet(Low(a, v, n)) /\ IsFiniteSet(Low(a, u, n))
    BY <1>2, <2>1, FS_Subset
  <2> QED BY <2>2, FS_CardinalityType
<1>8. v \in {a[i] : i \in DOMAIN a}
  <2>1. PICK p \in Bijection(D, D) : \A k \in D : b[k] = a[p[k]]
    BY DEF Rearranged
  <2>2. p[m] \in D
    BY <1>0, <2>1 DEF Bijection, Injection
  <2> QED BY <1>0, <1>2, <2>1, <2>2 DEF v
<1>9. 2 * Cardinality(Low(a, u, n)) < n /\ 2 * Cardinality(Low(a, v, n)) >= n
  BY <1>4, <1>7
<1>10. IsLowerMedian(v, a)
  BY <1>2, <1>5, <1>6, <1>8, <1>9 DEF IsLowerMedian
<1> QED BY <1>10 DEF v

Sifting(L, s, lo, hi, n) ==
    \A k \in lo .. hi : Sifts(L[k], L[k - 1], s[k][1], s[k][2], n)

(* What is at most v in the middle, when the network has come to its end. *)
Majority(B, c, n) == n \div 2 \in B <=> c[n] >= n \div 2 + 1

(* The networks of up to 9 places, from the first comparator to the last.  *)
LEMMA Found3 ==
    ASSUME NEW L, Sifting(L, Network3, 1, 3, 3), NEW c, Counts(c, L[0], 3)
    PROVE  Majority(L[3], c, 3)
<1>1. /\ Sifts(L[1], L[0], 0, 1, 3) /\ Sifts(L[2], L[1], 1, 2, 3)
      /\ Sifts(L[3], L[2], 0, 1, 3)
  BY DEF Sifting, Network3
<1>2. /\ c[0] = 0 /\ \A k \in 0 .. 3 : c[k] \in Nat
      /\ c[1] = c[0] + (IF 0 \in L[0] THEN 1 ELSE 0)
      /\ c[2] = c[1] + (IF 1 \in L[0] THEN 1 ELSE 0)
      /\ c[3] = c[2] + (IF 2 \in L[0] THEN 1 ELSE 0)
  BY DEF Counts
<1>3. 1 \in L[3] <=> c[3] >= 2
  BY <1>1, <1>2, SMTT(60) DEF Sifts
<1> QED BY <1>3 DEF Majority

(* The same for 5 places.                                                  *)
LEMMA Found5 ==
    ASSUME NEW L, Sifting(L, Network5, 1, 7, 5), NEW c, Counts(c, L[0], 5)
    PROVE  Majority(L[7], c, 5)
<1>1. /\ Sifts(L[1], L[0], 0, 1, 5) /\ Sifts(L[2], L[1], 3, 4, 5)
      /\ Sifts(L[3], L[2], 0, 3, 5) /\ Sifts(L[4], L[3], 1, 4, 5)
      /\ Sifts(L[5], L[4], 1, 2, 5) /\ Sifts(L[6], L[5], 2, 3, 5)
      /\ Sifts(L[7], L[6], 1, 2, 5)
  BY DEF Sifting, Network5
<1>2. /\ c[0] = 0 /\ \A k \in 0 .. 5 : c[k] \in Nat
      /\ c[1] = c[0] + (IF 0 \in L[0] THEN 1 ELSE 0)
      /\ c[2] = c[1] + (IF 1 \in L[0] THEN 1 ELSE 0)
      /\ c[3] = c[2] + (IF 2 \in L[0] THEN 1 ELSE 0)
      /\ c[4] = c[3] + (IF 3 \in L[0] THEN 1 ELSE 0)
      /\ c[5] = c[4] + (IF 4 \in L[0] THEN 1 ELSE 0)
  BY DEF Counts
<1>3. 2 \in L[7] <=> c[5] >= 3
  BY <1>1, <1>2, SMTT(60) DEF Sifts
<1> QED BY <1>3 DEF Majority

(* The same for 7 places.                                                  *)
LEMMA Found7 ==
    ASSUME NEW L, Sifting(L, Network7, 1, 13, 7), NEW c, Counts(c, L[0], 7)
    PROVE  Majority(L[13], c, 7)
<1>1. /\ Sifts(L[1], L[0], 0, 5, 7) /\ Sifts(L[2], L[1], 0, 3, 7)
      /\ Sifts(L[3], L[2], 1, 6, 7) /\ Sifts(L[4], L[3], 2, 4, 7)
      /\ Sifts(L[5], L[4], 0, 1, 7) /\ Sifts(L[6], L[5], 3, 5, 7)
      /\ Sifts(L[7], L[6], 2, 6, 7) /\ Sifts(L[8], L[7], 2, 3, 7)
      /\ Sifts(L[9], L[8], 3, 6, 7) /\ Sifts(L[10], L[9], 4, 5, 7)
      /\ Sifts(L[11], L[10], 1, 4, 7) /\ Sifts(L[12], L[11], 1, 3, 7)
      /\ Sifts(L[13], L[12], 3, 4, 7)
  BY DEF Sifting, Network7
<1>2. /\ c[0] = 0 /\ \A k \in 0 .. 7 : c[k] \in Nat
      /\ c[1] = c[0] + (IF 0 \in L[0] THEN 1 ELSE 0)
      /\ c[2] = c[1] + (IF 1 \in L[0] THEN 1 ELSE 0)
      /\ c[3] = c[2] + (IF 2 \in L[0] THEN 1 ELSE 0)
      /\ c[4] = c[3] + (IF 3 \in L[0] THEN 1 ELSE 0)
      /\ c[5] = c[4] + (IF 4 \in L[0] THEN 1 ELSE 0)
      /\ c[6] = c[5] + (IF 5 \in L[0] THEN 1 ELSE 0)
      /\ c[7] = c[6] + (IF 6 \in L[0] THEN 1 ELSE 0)
  BY DEF Counts
<1>3. 3 \in L[13] <=> c[7] >= 4
  BY <1>1, <1>2, SMTT(60) DEF Sifts
<1> QED BY <1>3 DEF Majority

(* The same for 9 places.                                                  *)
LEMMA Found9 ==
    ASSUME NEW L, Sifting(L, Network9, 1, 19, 9), NEW c, Counts(c, L[0], 9)
    PROVE  Majority(L[19], c, 9)
<1>1. /\ Sifts(L[1], L[0], 1, 2, 9) /\ Sifts(L[2], L[1], 4, 5, 9)
      /\ Sifts(L[3], L[2], 7, 8, 9) /\ Sifts(L[4], L[3], 0, 1, 9)
      /\ Sifts(L[5], L[4], 3, 4, 9) /\ Sifts(L[6], L[5], 6, 7, 9)
      /\ Sifts(L[7], L[6], 1, 2, 9) /\ Sifts(L[8], L[7], 4, 5, 9)
      /\ Sifts(L[9], L[8], 7, 8, 9) /\ Sifts(L[10], L[9], 0, 3, 9)
      /\ Sifts(L[11], L[10], 5, 8, 9) /\ Sifts(L[12], L[11], 4, 7, 9)
      /\ Sifts(L[13], L[12], 3, 6, 9) /\ Sifts(L[14], L[13], 1, 4, 9)
      /\ Sifts(L[15], L[14], 2, 5, 9) /\ Sifts(L[16], L[15], 4, 7, 9)
      /\ Sifts(L[17], L[16], 4, 2, 9) /\ Sifts(L[18], L[17], 6, 4, 9)
      /\ Sifts(L[19], L[18], 4, 2, 9)
  BY DEF Sifting, Network9
<1>2. /\ c[0] = 0 /\ \A k \in 0 .. 9 : c[k] \in Nat
      /\ c[1] = c[0] + (IF 0 \in L[0] THEN 1 ELSE 0)
      /\ c[2] = c[1] + (IF 1 \in L[0] THEN 1 ELSE 0)
      /\ c[3] = c[2] + (IF 2 \in L[0] THEN 1 ELSE 0)
      /\ c[4] = c[3] + (IF 3 \in L[0] THEN 1 ELSE 0)
      /\ c[5] = c[4] + (IF 4 \in L[0] THEN 1 ELSE 0)
      /\ c[6] = c[5] + (IF 5 \in L[0] THEN 1 ELSE 0)
      /\ c[7] = c[6] + (IF 6 \in L[0] THEN 1 ELSE 0)
      /\ c[8] = c[7] + (IF 7 \in L[0] THEN 1 ELSE 0)
      /\ c[9] = c[8] + (IF 8 \in L[0] THEN 1 ELSE 0)
  BY DEF Counts
<1>3. 4 \in L[19] <=> c[9] >= 5
  BY <1>1, <1>2, SMTT(60) DEF Sifts
<1> QED BY <1>3 DEF Majority

(* The network of 25 starts by sorting: columns of three, then rows across *)
(* the columns, then across the blocks of columns, two places being left   *)
(* out of the cube at its least and at its greatest corner. Sorting one    *)
(* way keeps the others sorted, and 30 comparators are enough after that.  *)
Chain(B, x, y) == y \in B => x \in B
Chain3(B, x, y, z) == Chain(B, x, y) /\ Chain(B, y, z)

InColumns(B) ==
    /\ Chain(B, 0, 1) /\ Chain3(B, 2, 3, 4) /\ Chain3(B, 5, 6, 7)
    /\ Chain3(B, 8, 9, 10) /\ Chain3(B, 11, 12, 13) /\ Chain3(B, 14, 15, 16)
    /\ Chain3(B, 17, 18, 19) /\ Chain3(B, 20, 21, 22) /\ Chain(B, 23, 24)
AcrossColumns(B) ==
    /\ Chain(B, 2, 5) /\ Chain3(B, 0, 3, 6) /\ Chain3(B, 1, 4, 7)
    /\ Chain3(B, 8, 11, 14) /\ Chain3(B, 9, 12, 15) /\ Chain3(B, 10, 13, 16)
    /\ Chain3(B, 17, 20, 23) /\ Chain3(B, 18, 21, 24) /\ Chain(B, 19, 22)
AcrossBlocks(B) ==
    /\ Chain(B, 8, 17) /\ Chain3(B, 0, 9, 18) /\ Chain3(B, 1, 10, 19)
    /\ Chain3(B, 2, 11, 20) /\ Chain3(B, 3, 12, 21) /\ Chain3(B, 4, 13, 22)
    /\ Chain3(B, 5, 14, 23) /\ Chain3(B, 6, 15, 24) /\ Chain(B, 7, 16)

(* The first 23 comparators sort the columns.                              *)
LEMMA Columns25 ==
    ASSUME NEW L, Sifting(L, Network25, 1, 23, 25)
    PROVE  InColumns(L[23])
<1>1. /\ Sifts(L[1], L[0], 0, 1, 25) /\ Sifts(L[2], L[1], 3, 4, 25)
      /\ Sifts(L[3], L[2], 2, 4, 25) /\ Sifts(L[4], L[3], 2, 3, 25)
      /\ Sifts(L[5], L[4], 6, 7, 25) /\ Sifts(L[6], L[5], 5, 7, 25)
      /\ Sifts(L[7], L[6], 5, 6, 25) /\ Sifts(L[8], L[7], 9, 10, 25)
      /\ Sifts(L[9], L[8], 8, 10, 25) /\ Sifts(L[10], L[9], 8, 9, 25)
      /\ Sifts(L[11], L[10], 12, 13, 25) /\ Sifts(L[12], L[11], 11, 13, 25)
      /\ Sifts(L[13], L[12], 11, 12, 25) /\ Sifts(L[14], L[13], 15, 16, 25)
      /\ Sifts(L[15], L[14], 14, 16, 25) /\ Sifts(L[16], L[15], 14, 15, 25)
      /\ Sifts(L[17], L[16], 18, 19, 25) /\ Sifts(L[18], L[17], 17, 19, 25)
      /\ Sifts(L[19], L[18], 17, 18, 25) /\ Sifts(L[20], L[19], 21, 22, 25)
      /\ Sifts(L[21], L[20], 20, 22, 25) /\ Sifts(L[22], L[21], 20, 21, 25)
      /\ Sifts(L[23], L[22], 23, 24, 25)
  BY DEF Sifting, Network25
<1> QED BY <1>1, SMTT(60) DEF Sifts, InColumns, AcrossColumns, AcrossBlocks, Chain, Chain3

(* The next 23 sort across the columns.                                    *)
LEMMA Rows25 ==
    ASSUME NEW L, Sifting(L, Network25, 24, 46, 25), InColumns(L[23])
    PROVE  InColumns(L[46]) /\ AcrossColumns(L[46])
<1>1. /\ Sifts(L[24], L[23], 2, 5, 25) /\ Sifts(L[25], L[24], 3, 6, 25)
      /\ Sifts(L[26], L[25], 0, 6, 25) /\ Sifts(L[27], L[26], 0, 3, 25)
      /\ Sifts(L[28], L[27], 4, 7, 25) /\ Sifts(L[29], L[28], 1, 7, 25)
      /\ Sifts(L[30], L[29], 1, 4, 25) /\ Sifts(L[31], L[30], 11, 14, 25)
      /\ Sifts(L[32], L[31], 8, 14, 25) /\ Sifts(L[33], L[32], 8, 11, 25)
      /\ Sifts(L[34], L[33], 12, 15, 25) /\ Sifts(L[35], L[34], 9, 15, 25)
      /\ Sifts(L[36], L[35], 9, 12, 25) /\ Sifts(L[37], L[36], 13, 16, 25)
      /\ Sifts(L[38], L[37], 10, 16, 25) /\ Sifts(L[39], L[38], 10, 13, 25)
      /\ Sifts(L[40], L[39], 20, 23, 25) /\ Sifts(L[41], L[40], 17, 23, 25)
      /\ Sifts(L[42], L[41], 17, 20, 25) /\ Sifts(L[43], L[42], 21, 24, 25)
      /\ Sifts(L[44], L[43], 18, 24, 25) /\ Sifts(L[45], L[44], 18, 21, 25)
      /\ Sifts(L[46], L[45], 19, 22, 25)
  BY DEF Sifting, Network25
<1> QED BY <1>1, SMTT(60) DEF Sifts, InColumns, AcrossColumns, AcrossBlocks, Chain, Chain3

(* The next 23 sort across the blocks.                                     *)
LEMMA Blocks25 ==
    ASSUME NEW L, Sifting(L, Network25, 47, 69, 25), InColumns(L[46]), AcrossColumns(L[46])
    PROVE  InColumns(L[69]) /\ AcrossColumns(L[69]) /\ AcrossBlocks(L[69])
<1>1. /\ Sifts(L[47], L[46], 8, 17, 25) /\ Sifts(L[48], L[47], 9, 18, 25)
      /\ Sifts(L[49], L[48], 0, 18, 25) /\ Sifts(L[50], L[49], 0, 9, 25)
      /\ Sifts(L[51], L[50], 10, 19, 25) /\ Sifts(L[52], L[51], 1, 19, 25)
      /\ Sifts(L[53], L[52], 1, 10, 25) /\ Sifts(L[54], L[53], 11, 20, 25)
      /\ Sifts(L[55], L[54], 2, 20, 25) /\ Sifts(L[56], L[55], 2, 11, 25)
      /\ Sifts(L[57], L[56], 12, 21, 25) /\ Sifts(L[58], L[57], 3, 21, 25)
      /\ Sifts(L[59], L[58], 3, 12, 25) /\ Sifts(L[60], L[59], 13, 22, 25)
      /\ Sifts(L[61], L[60], 4, 22, 25) /\ Sifts(L[62], L[61], 4, 13, 25)
      /\ Sifts(L[63], L[62], 14, 23, 25) /\ Sifts(L[64], L[63], 5, 23, 25)
      /\ Sifts(L[65], L[64], 5, 14, 25) /\ Sifts(L[66], L[65], 15, 24, 25)
      /\ Sifts(L[67], L[66], 6, 24, 25) /\ Sifts(L[68], L[67], 6, 15, 25)
      /\ Sifts(L[69], L[68], 7, 16, 25)
  BY DEF Sifting, Network25
<1> QED BY <1>1, SMTT(60) DEF Sifts, InColumns, AcrossColumns, AcrossBlocks, Chain, Chain3

(* The last 30 find the median of what is sorted in three ways.            *)
LEMMA Last25 ==
    ASSUME NEW L, Sifting(L, Network25, 70, 99, 25), NEW c, Counts(c, L[69], 25),
           InColumns(L[69]), AcrossColumns(L[69]), AcrossBlocks(L[69])
    PROVE  Majority(L[99], c, 25)
<1>1. /\ Sifts(L[70], L[69], 7, 19, 25) /\ Sifts(L[71], L[70], 13, 21, 25)
      /\ Sifts(L[72], L[71], 15, 23, 25) /\ Sifts(L[73], L[72], 7, 13, 25)
      /\ Sifts(L[74], L[73], 7, 15, 25) /\ Sifts(L[75], L[74], 1, 9, 25)
      /\ Sifts(L[76], L[75], 3, 11, 25) /\ Sifts(L[77], L[76], 5, 17, 25)
      /\ Sifts(L[78], L[77], 11, 17, 25) /\ Sifts(L[79], L[78], 9, 17, 25)
      /\ Sifts(L[80], L[79], 4, 10, 25) /\ Sifts(L[81], L[80], 6, 12, 25)
      /\ Sifts(L[82], L[81], 7, 14, 25) /\ Sifts(L[83], L[82], 4, 6, 25)
      /\ Sifts(L[84], L[83], 4, 7, 25) /\ Sifts(L[85], L[84], 12, 14, 25)
      /\ Sifts(L[86], L[85], 10, 14, 25) /\ Sifts(L[87], L[86], 6, 7, 25)
      /\ Sifts(L[88], L[87], 10, 12, 25) /\ Sifts(L[89], L[88], 6, 10, 25)
      /\ Sifts(L[90], L[89], 6, 17, 25) /\ Sifts(L[91], L[90], 12, 17, 25)
      /\ Sifts(L[92], L[91], 7, 17, 25) /\ Sifts(L[93], L[92], 7, 10, 25)
      /\ Sifts(L[94], L[93], 12, 18, 25) /\ Sifts(L[95], L[94], 7, 12, 25)
      /\ Sifts(L[96], L[95], 10, 18, 25) /\ Sifts(L[97], L[96], 12, 20, 25)
      /\ Sifts(L[98], L[97], 10, 20, 25) /\ Sifts(L[99], L[98], 10, 12, 25)
  BY DEF Sifting, Network25
<1>2. /\ c[0] = 0 /\ \A k \in 0 .. 25 : c[k] \in Nat
      /\ c[1] = c[0] + (IF 0 \in L[69] THEN 1 ELSE 0)
      /\ c[2] = c[1] + (IF 1 \in L[69] THEN 1 ELSE 0)
      /\ c[3] = c[2] + (IF 2 \in L[69] THEN 1 ELSE 0)
      /\ c[4] = c[3] + (IF 3 \in L[69] THEN 1 ELSE 0)
      /\ c[5] = c[4] + (IF 4 \in L[69] THEN 1 ELSE 0)
      /\ c[6] = c[5] + (IF 5 \in L[69] THEN 1 ELSE 0)
      /\ c[7] = c[6] + (IF 6 \in L[69] THEN 1 ELSE 0)
      /\ c[8] = c[7] + (IF 7 \in L[69] THEN 1 ELSE 0)
      /\ c[9] = c[8] + (IF 8 \in L[69] THEN 1 ELSE 0)
      /\ c[10] = c[9] + (IF 9 \in L[69] THEN 1 ELSE 0)
      /\ c[11] = c[10] + (IF 10 \in L[69] THEN 1 ELSE 0)
      /\ c[12] = c[11] + (IF 11 \in L[69] THEN 1 ELSE 0)
      /\ c[13] = c[12] + (IF 12 \in L[69] THEN 1 ELSE 0)
      /\ c[14] = c[13] + (IF 13 \in L[69] THEN 1 ELSE 0)
      /\ c[15] = c[14] + (IF 14 \in L[69] THEN 1 ELSE 0)
      /\ c[16] = c[15] + (IF 15 \in L[69] THEN 1 ELSE 0)
      /\ c[17] = c[16] + (IF 16 \in L[69] THEN 1 ELSE 0)
      /\ c[18] = c[17] + (IF 17 \in L[69] THEN 1 ELSE 0)
      /\ c[19] = c[18] + (IF 18 \in L[69] THEN 1 ELSE 0)
      /\ c[20] = c[19] + (IF 19 \in L[69] THEN 1 ELSE 0)
      /\ c[21] = c[20] + (IF 20 \in L[69] THEN 1 ELSE 0)
      /\ c[22] = c[21] + (IF 21 \in L[69] THEN 1 ELSE 0)
      /\ c[23] = c[22] + (IF 22 \in L[69] THEN 1 ELSE 0)
      /\ c[24] = c[23] + (IF 23 \in L[69] THEN 1 ELSE 0)
      /\ c[25] = c[24] + (IF 24 \in L[69] THEN 1 ELSE 0)
  BY DEF Counts
<1>3. 12 \in L[99] <=> c[25] >= 13
  BY <1>1, <1>2, SMTT(60) DEF Sifts, InColumns, AcrossColumns, AcrossBlocks, Chain, Chain3
<1> QED BY <1>3 DEF Majority

(* Whatever the network has sifted, the count of the places at most v, at  *)
(* the start or at some step, says whether the middle one is among them.   *)
Finds(s, n) ==
    \A L : Sifting(L, s, 1, Len(s), n) =>
        \E t \in 0 .. Len(s) : \A c : Counts(c, L[t], n) => Majority(L[Len(s)], c, n)

(* A network that finds the middle for every bound v finds the median.     *)
LEMMA FoundIsMedian ==
    ASSUME NEW m \in Nat, NEW n, n = 2 * m + 1, NEW a \in Items(n),
           NEW s, Len(s) \in Nat, IsNetwork(s, n), Finds(s, n), Networks[n] = s
    PROVE  IsLowerMedian(ByNetwork(a, n), a)
<1> DEFINE N == Len(s)
<1>0. n \in Nat /\ n \div 2 = m
  OBVIOUS
<1>1. PICK g : Sifted(g, a, s, n) /\ Loop(PixSort, a, s) = g[N]
  BY <1>0, SiftedIs
<1> DEFINE b == g[N]
<1>2. ByNetwork(a, n) = b[m]
  BY <1>0, <1>1 DEF ByNetwork
<1>3. \A k \in 0 .. N : g[k] \in Items(n) /\ Rearranged(g[k], a, n)
  BY <1>1 DEF Sifted
<1>4. b \in Items(n) /\ Rearranged(b, a, n)
  <2>1. N \in 0 .. N
    OBVIOUS
  <2> QED BY <1>3, <2>1
<1>5. ASSUME NEW v \in Int PROVE m \in Low(b, v, n) <=> Cardinality(Low(a, v, n)) >= m + 1
  <2> DEFINE L == [k \in 0 .. N |-> Low(g[k], v, n)]
  <2>1. Sifting(L, s, 1, N, n)
    <3> SUFFICES ASSUME NEW k \in 1 .. N
                 PROVE  Sifts(L[k], L[k - 1], s[k][1], s[k][2], n)
      BY DEF Sifting
    <3>1. k \in 0 .. N /\ k - 1 \in 0 .. N
      OBVIOUS
    <3>2. L[k] = Low(g[k], v, n) /\ L[k - 1] = Low(g[k - 1], v, n)
      BY <3>1
    <3>3. Sifts(Low(g[k], v, n), Low(g[k - 1], v, n), s[k][1], s[k][2], n)
      BY <1>1 DEF Sifted
    <3> QED BY <3>2, <3>3
  <2>2. L[N] = Low(b, v, n) /\ \A t \in 0 .. N : L[t] = Low(g[t], v, n)
    OBVIOUS
  <2> HIDE DEF L
  <2>3. PICK t \in 0 .. N : \A c : Counts(c, L[t], n) => Majority(L[N], c, n)
    BY <2>1 DEF Finds
  <2>4. L[t] \in SUBSET (0 .. n - 1)
    BY <2>2 DEF Low
  <2>5. PICK c : Counts(c, L[t], n) /\ c[n] = Cardinality(L[t])
    BY <1>0, <2>4, CountIs
  <2>6. Majority(Low(b, v, n), c, n)
    BY <2>2, <2>3, <2>5
  <2>7. c[n] = Cardinality(Low(a, v, n))
    <3>1. g[t] \in Items(n) /\ Rearranged(g[t], a, n)
      BY <1>3
    <3>2. Cardinality(Low(g[t], v, n)) = Cardinality(Low(a, v, n))
      BY <1>0, <3>1, LowKept
    <3> QED BY <2>2, <2>5, <3>2
  <2> QED BY <1>0, <2>6, <2>7 DEF Majority
<1> HIDE DEF b
<1>6. IsLowerMedian(b[m], a)
  BY <1>4, <1>5, BoundsAreMedian
<1> QED BY <1>2, <1>6

(* A part of a network.                                                    *)
LEMMA SiftingPart ==
    ASSUME NEW L, NEW s, NEW lo \in Int, NEW hi \in Int, NEW n, Sifting(L, s, lo, hi, n),
           NEW x \in Int, NEW y \in Int, lo <= x, y <= hi
    PROVE  Sifting(L, s, x, y, n)
<1>1. \A k \in x .. y : k \in lo .. hi
  OBVIOUS
<1> QED BY <1>1 DEF Sifting

(* The network of 25 places.                                               *)
LEMMA Found25 ==
    ASSUME NEW L, Sifting(L, Network25, 1, 99, 25)
    PROVE  \A c : Counts(c, L[69], 25) => Majority(L[99], c, 25)
<1>1. /\ Sifting(L, Network25, 1, 23, 25) /\ Sifting(L, Network25, 24, 46, 25)
      /\ Sifting(L, Network25, 47, 69, 25) /\ Sifting(L, Network25, 70, 99, 25)
  BY SiftingPart
<1>2. InColumns(L[23])
  BY <1>1, Columns25
<1>3. InColumns(L[46]) /\ AcrossColumns(L[46])
  BY <1>1, <1>2, Rows25
<1>4. InColumns(L[69]) /\ AcrossColumns(L[69]) /\ AcrossBlocks(L[69])
  BY <1>1, <1>3, Blocks25
<1>5. ASSUME NEW c, Counts(c, L[69], 25) PROVE Majority(L[99], c, 25)
  BY <1>1, <1>4, <1>5, Last25
<1> QED BY <1>5

(* The five networks.                                                      *)
LEMMA AllFind ==
    /\ Finds(Network3, 3) /\ Finds(Network5, 5) /\ Finds(Network7, 7)
    /\ Finds(Network9, 9) /\ Finds(Network25, 25)
<1>0. /\ Len(Network3) = 3 /\ Len(Network5) = 7 /\ Len(Network7) = 13
      /\ Len(Network9) = 19 /\ Len(Network25) = 99
  BY DEF Network3, Network5, Network7, Network9, Network25
<1>1. Finds(Network3, 3)
  <2>1. 0 \in 0 .. 3
    OBVIOUS
  <2> QED BY <1>0, <2>1, Found3 DEF Finds
<1>2. Finds(Network5, 5)
  <2>1. 0 \in 0 .. 7
    OBVIOUS
  <2> QED BY <1>0, <2>1, Found5 DEF Finds
<1>3. Finds(Network7, 7)
  <2>1. 0 \in 0 .. 13
    OBVIOUS
  <2> QED BY <1>0, <2>1, Found7 DEF Finds
<1>4. Finds(Network9, 9)
  <2>1. 0 \in 0 .. 19
    OBVIOUS
  <2> QED BY <1>0, <2>1, Found9 DEF Finds
<1>5. Finds(Network25, 25)
  <2>1. 69 \in 0 .. 99
    OBVIOUS
  <2> QED BY <1>0, <2>1, Found25 DEF Finds
<1> QED BY <1>1, <1>2, <1>3, <1>4, <1>5

(* The comparators of a network are pairs of places.                       *)
LEMMA PlacesAreNetwork ==
    ASSUME NEW n, NEW s \in Seq((0 .. n - 1) \X (0 .. n - 1))
    PROVE  IsNetwork(s, n)
<1>1. \A k \in 1 .. Len(s) : s[k] \in (0 .. n - 1) \X (0 .. n - 1)
  OBVIOUS
<1> QED BY <1>1 DEF IsNetwork

(* The five of them.                                                       *)
LEMMA AllNetworks ==
    /\ IsNetwork(Network3, 3) /\ IsNetwork(Network5, 5) /\ IsNetwork(Network7, 7)
    /\ IsNetwork(Network9, 9) /\ IsNetwork(Network25, 25)
<1>1. IsNetwork(Network3, 3)
  BY DEF Network3, IsNetwork
<1>2. IsNetwork(Network5, 5)
  BY DEF Network5, IsNetwork
<1>3. IsNetwork(Network7, 7)
  BY DEF Network7, IsNetwork
<1>4. IsNetwork(Network9, 9)
  BY DEF Network9, IsNetwork
<1>5. IsNetwork(Network25, 25)
  <2>1. Network25 \in Seq((0 .. 24) \X (0 .. 24))
    BY DEF Network25
  <2>2. 24 = 25 - 1
    OBVIOUS
  <2> HIDE DEF Network25
  <2> QED BY <2>1, <2>2, PlacesAreNetwork
<1> QED BY <1>1, <1>2, <1>3, <1>4, <1>5

(* Every array of a size that has a network.                               *)
THEOREM NetworkIsMedian ==
    ASSUME NEW n \in DOMAIN Networks, NEW a \in Items(n)
    PROVE  IsLowerMedian(ByNetwork(a, n), a)
<1>0. /\ Len(Network3) = 3 /\ Len(Network5) = 7 /\ Len(Network7) = 13
      /\ Len(Network9) = 19 /\ Len(Network25) = 99
  BY DEF Network3, Network5, Network7, Network9, Network25
<1>1. n \in {3, 5, 7, 9, 25}
  BY DEF Networks
<1>2. /\ Networks[3] = Network3 /\ Networks[5] = Network5 /\ Networks[7] = Network7
      /\ Networks[9] = Network9 /\ Networks[25] = Network25
  BY DEF Networks
<1>3. CASE n = 3
  <2>1. 1 \in Nat /\ 3 = 2 * 1 + 1 /\ Len(Network3) \in Nat
    BY <1>0
  <2>2. a \in Items(3)
    BY <1>3
  <2> QED BY <1>2, <1>3, <2>1, <2>2, AllFind, AllNetworks, FoundIsMedian
<1>4. CASE n = 5
  <2>1. 2 \in Nat /\ 5 = 2 * 2 + 1 /\ Len(Network5) \in Nat
    BY <1>0
  <2>2. a \in Items(5)
    BY <1>4
  <2> QED BY <1>2, <1>4, <2>1, <2>2, AllFind, AllNetworks, FoundIsMedian
<1>5. CASE n = 7
  <2>1. 3 \in Nat /\ 7 = 2 * 3 + 1 /\ Len(Network7) \in Nat
    BY <1>0
  <2>2. a \in Items(7)
    BY <1>5
  <2> QED BY <1>2, <1>5, <2>1, <2>2, AllFind, AllNetworks, FoundIsMedian
<1>6. CASE n = 9
  <2>1. 4 \in Nat /\ 9 = 2 * 4 + 1 /\ Len(Network9) \in Nat
    BY <1>0
  <2>2. a \in Items(9)
    BY <1>6
  <2> QED BY <1>2, <1>6, <2>1, <2>2, AllFind, AllNetworks, FoundIsMedian
<1>7. CASE n = 25
  <2>1. 12 \in Nat /\ 25 = 2 * 12 + 1 /\ Len(Network25) \in Nat
    BY <1>0
  <2>2. a \in Items(25)
    BY <1>7
  <2> QED BY <1>2, <1>7, <2>1, <2>2, AllFind, AllNetworks, FoundIsMedian
<1> QED BY <1>1, <1>3, <1>4, <1>5, <1>6, <1>7

(* swap_median returns the lower median of an array of any length and of   *)
(* any elements, by a network or by Quickselect (swap_math.c:235).         *)
THEOREM SwapMedianIs ==
    ASSUME NEW n \in Nat \ {0}, NEW a \in [0 .. n - 1 -> Int]
    PROVE  IsLowerMedian(SwapMedian(a), a)
<1>1. a \in Items(n)
  BY DEF Items
<1>2. Size(a) = n
  BY <1>1, SizeIs
<1>3. CASE n \in DOMAIN Networks
  <2>1. SwapMedian(a) = ByNetwork(a, n)
    BY <1>2, <1>3 DEF SwapMedian
  <2> QED BY <1>1, <1>3, <2>1, NetworkIsMedian
<1>4. CASE n \notin DOMAIN Networks
  <2>1. SwapMedian(a) = Select(a, MedianIndex(n))
    BY <1>2, <1>4 DEF SwapMedian
  <2> QED BY <2>1, SelectIsMedian
<1> QED BY <1>3, <1>4

(* The median is in the middle, for all arrays.                            *)
THEOREM MediansAlways == Spec => []MedianIsMiddle
<1>1. Init => MedianIsMiddle
  BY DEF Init, MedianIsMiddle, None
<1>2. ASSUME MedianIsMiddle, [Next]_vars PROVE MedianIsMiddle'
  <2>1. CASE UNCHANGED vars
    BY <1>2, <2>1 DEF vars, MedianIsMiddle
  <2>2. CASE TakeMedian
    <3>1. PICK a \in Arrays : Call("median", a, SwapMedian(a))
      BY <2>2 DEF TakeMedian
    <3>2. arg' = a /\ answer' = SwapMedian(a)
      BY <3>1 DEF Call
    <3>3. PICK n \in Nat \ {0} : a \in [0 .. n - 1 -> Int]
      BY ArraysAssumption
    <3>4. IsLowerMedian(SwapMedian(a), a)
      BY <3>3, SwapMedianIs
    <3> QED BY <3>2, <3>4 DEF MedianIsMiddle
  <2>3. CASE op' # "median"
    BY <2>3 DEF MedianIsMiddle
  <2> QED BY <1>2, <2>1, <2>2, <2>3, Calls
<1> QED BY <1>1, <1>2, PTL DEF Spec

---------------------------------------------------------------------------
(* Checksums, with what LibraryProofs shows of them.                       *)

(* What CrcIsRemainder says of a sum with the bytes of a length behind it. *)
SumOf(crc, data, len) ==
    LET r == Register32(crc, data \o FewestBytes(len)) IN <<65535 - r[1], 65535 - r[2]>>

(* The sum of the data, finished with a length, is that with the bytes of  *)
(* the length behind the data.                                             *)
LEMMA SumIs ==
    ASSUME NEW c \in Register, NEW d \in Seq(Byte), NEW len \in Length31
    PROVE  p2sc_crc32_finalise(p2sc_crc32(c, d), len) = SumOf(c, d, len)
<1>1. p2sc_crc32(c, d) = Register32(c, d) /\ p2sc_crc32(c, d) \in Register
  BY Crc32Is
<1>2. Register32(c, d \o FewestBytes(len)) = Register32(Register32(c, d), FewestBytes(len))
  BY FewestType, Register32Further
<1>3. p2sc_crc32_finalise(Register32(c, d), len)
      = <<65535 - Register32(Register32(c, d), FewestBytes(len))[1],
          65535 - Register32(Register32(c, d), FewestBytes(len))[2]>>
  BY <1>1, FinaliseIs
<1> QED BY <1>1, <1>2, <1>3 DEF SumOf

(* The checksums are right, for all data and lengths.                      *)
LEMMA SumsRight ==
    ASSUME NEW d \in Data
    PROVE  /\ p2sc_crc16(65535, d) = Register16(65535, d)
           /\ p2sc_name_swap_tmr(d) = SumOf(<<0, 0>>, d, Len(d))
           /\ \A len \in Lengths :
                 p2sc_crc32_finalise(p2sc_crc32(<<0, 0>>, d), len)
                 = SumOf(p2sc_crc32(<<0, 0>>, d), <<>>, len)
<1>1. d \in Seq(Byte) /\ Len(d) \in Length31
  <2>1. d \in Seq(Byte) /\ Len(d) <= 2147483647
    BY DataAssumption DEF Byte
  <2>2. Len(d) \in Nat
    BY <2>1
  <2> QED BY <2>1, <2>2 DEF Length31
<1>2. 65535 \in Word16 /\ <<0, 0>> \in Register
  BY DEF Word16, Register
<1>3. p2sc_name_swap_tmr(d) = SumOf(<<0, 0>>, d, Len(d))
  BY <1>1, <1>2, SumIs DEF p2sc_name_swap_tmr
<1>4. ASSUME NEW len \in Lengths
      PROVE  p2sc_crc32_finalise(p2sc_crc32(<<0, 0>>, d), len)
             = SumOf(p2sc_crc32(<<0, 0>>, d), <<>>, len)
  <2>1. len \in Length31
    <3>1. PICK m : m = 255 * MAX_DATA_BYTES_IN_MARKER
      OBVIOUS
    <3>2. m = 16707345
      BY <3>1 DEF MAX_DATA_BYTES_IN_MARKER, MAX_BYTES_IN_MARKER, ICC_OVERHEAD_LEN
    <3>3. len \in 0 .. m
      BY <3>1, LengthsAssumption
    <3>4. m \in Nat /\ m <= 2147483647
      BY <3>2
    <3>5. len \in Nat /\ len <= m
      BY <3>3, <3>4
    <3> QED BY <3>4, <3>5 DEF Length31
  <2>2. p2sc_crc32(<<0, 0>>, d) \in Register
    BY <1>1, <1>2, Crc32Is
  <2>3. <<>> \o FewestBytes(len) = FewestBytes(len)
    BY <2>1, FewestType
  <2> QED BY <2>1, <2>2, <2>3, FinaliseIs DEF SumOf
<1>5. p2sc_crc16(65535, d) = Register16(65535, d)
  BY <1>1, <1>2, Crc16Is
<1> QED BY <1>3, <1>4, <1>5

(* The checksums are the remainders of the bits divided by the polynomials *)
(* (p2sc_hash.c), for data and lengths of any kind.                        *)
THEOREM CrcAlways == Spec => []CrcIsRemainder
<1>1. Init => CrcIsRemainder
  BY SMT DEF Init, CrcIsRemainder, None
<1>2. ASSUME CrcIsRemainder, [Next]_vars PROVE CrcIsRemainder'
  <2>1. CASE UNCHANGED vars
    BY <1>2, <2>1, SMT DEF vars, CrcIsRemainder
  <2>2. CASE Checksum16
    <3>1. PICK d \in Data : Call("crc16", d, p2sc_crc16(65535, d))
      BY <2>2 DEF Checksum16
    <3>2. op' = "crc16" /\ arg' = d /\ answer' = p2sc_crc16(65535, d)
      BY <3>1 DEF Call
    <3>3. answer' = Register16(65535, arg')
      BY <3>2, SumsRight
    <3> QED BY <3>2, <3>3 DEF CrcIsRemainder
  <2>3. CASE Checksum32
    <3>1. PICK d \in Data : Call("crc32", d, p2sc_name_swap_tmr(d))
      BY <2>3 DEF Checksum32
    <3>2. op' = "crc32" /\ arg' = d /\ answer' = p2sc_name_swap_tmr(d)
      BY <3>1 DEF Call
    <3>3. answer' = SumOf(<<0, 0>>, arg', Len(arg'))
      BY <3>2, SumsRight
    <3> QED BY <3>2, <3>3 DEF CrcIsRemainder, SumOf
  <2>4. CASE Finalise
    <3>1. PICK d \in Data, len \in Lengths :
             Call("cksum", <<p2sc_crc32(<<0, 0>>, d), len>>, p2sc_crc32_finalise(p2sc_crc32(<<0, 0>>, d), len))
      BY <2>4 DEF Finalise
    <3>2. /\ op' = "cksum" /\ arg' = <<p2sc_crc32(<<0, 0>>, d), len>>
          /\ answer' = p2sc_crc32_finalise(p2sc_crc32(<<0, 0>>, d), len)
      BY <3>1 DEF Call
    <3>3. answer' = SumOf(p2sc_crc32(<<0, 0>>, d), <<>>, len)
      BY <3>2, SumsRight
    <3>4. arg'[1] = p2sc_crc32(<<0, 0>>, d) /\ arg'[2] = len
      BY <3>2
    <3>5. answer' = SumOf(arg'[1], <<>>, arg'[2])
      BY <3>3, <3>4, Zenon
    <3> QED BY <3>2, <3>5 DEF CrcIsRemainder, SumOf
  <2>5. CASE op' \notin {"crc16", "crc32", "cksum"}
    BY <2>5, SMT DEF CrcIsRemainder
  <2> QED BY <1>2, <2>1, <2>2, <2>3, <2>4, <2>5, Calls, SMT
<1> QED BY <1>1, <1>2, PTL DEF Spec
==============================================================================
