---------------------------- MODULE OnBoardTime ----------------------------
(***************************************************************************)
(* On-board time (libp2sc/p2sc_time.c): 4 bytes of seconds, of which 28    *)
(* bits count, and 3 bytes of fraction, of which 14 bits count. Ticks,     *)
(* 2^14 to the second, are given as seconds and the rest. The counter      *)
(* overflowed in 2018; the number of the pass tells the two rounds apart.  *)
(***************************************************************************)
EXTENDS Integers, Sequences

TWENTY_EIGHT   == 268435456     \* 2^28
TWENTY_FOUR    == 16777216      \* 2^24
REFERENCE_PASS == 26206
REFERENCE_OBET == 257630618
SIZEOF_CUC     == 7

(* A character of a hexadecimal number has its digit and its case.         *)
OtherChar == [other |-> TRUE]
IsHex(c) == "digit" \in DOMAIN c

(* p2sc_ascii2cuc: 14 digits make 7 bytes, and anything else is refused.   *)
p2sc_ascii2cuc(s) ==
    IF Len(s) # 2 * SIZEOF_CUC \/ \E i \in DOMAIN s : ~IsHex(s[i]) THEN <<>>
    ELSE [k \in 1 .. SIZEOF_CUC |-> 16 * s[2 * k - 1].digit + s[2 * k].digit]

(* warn_cuc_decoded and warn_cuc: the bytes, encoded again, as digits.     *)
CucOf(s, f) == <<s \div TWENTY_FOUR, (s \div 65536) % 256, (s \div 256) % 256, s % 256,
                 (f \div 65536) % 256, (f \div 256) % 256, f % 256>>
DigitsOf(t) == [i \in 1 .. 2 * SIZEOF_CUC |->
                   IF i % 2 = 1 THEN t[(i + 1) \div 2] \div 16 ELSE t[i \div 2] % 16]

(* Mutant: the reference second itself is taken for the next round.        *)
RoundInclusive(passno, sec) ==
    IF passno > REFERENCE_PASS /\ sec <= REFERENCE_OBET THEN TWENTY_EIGHT ELSE 0
Round(passno, sec) ==
    IF passno > REFERENCE_PASS /\ sec < REFERENCE_OBET THEN TWENTY_EIGHT ELSE 0

(* One warning for bits of the fraction that do not count, one for seconds *)
(* that do not fit.                                                        *)
Warnings(s, f) ==
    LET text == DigitsOf(CucOf(s, f))
    IN  (IF f % 1024 # 0 THEN <<text>> ELSE <<>>)
        \o (IF s > TWENTY_EIGHT - 1 THEN <<text>> ELSE <<>>)

p2sc_cuc2ticks_decoded(passno, s, f) ==
    [ticks |-> <<s + Round(passno, s), f \div 1024>>, warned |-> Warnings(s, f)]

p2sc_cuc2ticks(t, passno) ==
    p2sc_cuc2ticks_decoded(passno, TWENTY_FOUR * t[1] + 65536 * t[2] + 256 * t[3] + t[4],
                           65536 * t[5] + 256 * t[6] + t[7])

(* Seconds and ticks of a second as a number: no fraction finer than that. *)
p2sc_gp1obt2ticks(sec, tick, passno) == <<sec + Round(passno, sec), tick>>
=============================================================================
