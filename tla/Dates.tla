------------------------------- MODULE Dates -------------------------------
(***************************************************************************)
(* Dates as strings (libp2sc/p2sc_time.c) and the names of files made of   *)
(* them (p2sc_name.c). A string is a sequence of tokens: <<"n", k>> is a   *)
(* number in as many digits as its place wants, <<"d", k>> one digit after *)
(* the point, the others are characters. Seconds are in microseconds.      *)
(***************************************************************************)
EXTENDS Integers, Sequences, SequencesExt

num(k) == <<"n", k>>
dig(k) == <<"d", k>>
chr(c) == <<"c", c>>

MUL == <<100000, 10000, 1000, 100, 10, 1>>

(* The seconds are printed with three digits by "%.3f".                    *)
p2sc_date2string(d) ==
    LET ms == (d[6] + 500) \div 1000
    IN  <<num(d[1]), chr("-"), num(d[2]), chr("-"), num(d[3]), chr("T"),
          num(d[4]), chr(":"), num(d[5]), chr(":"), num(ms \div 1000), chr("."),
          dig((ms \div 100) % 10), dig((ms \div 10) % 10), dig(ms % 10), chr("Z")>>

(* gmtime, for a time in January 1970.                                     *)
January == 31 * 86400
gmtime(s) == <<1970, 1, 1 + s \div 86400, (s \div 3600) % 24, (s \div 60) % 60, s % 60>>

(* Mutant: a fraction that is rounded up to one stays in the second.       *)
RoundedStays(s, usec) == <<s, 1000 * ((usec + 500) \div 1000)>>
Rounded(s, usec) ==
    LET f == 1000 * ((usec + 500) \div 1000)
    IN  IF f >= 1000000 THEN <<s + 1, 0>> ELSE <<s, f>>

(* The date of the fields tm of a time and its microseconds.               *)
Dated(tm, usec) == [tm EXCEPT ![6] = 1000000 * @ + usec]

(* p2sc_timestamp with three digits, for s seconds and usec microseconds.  *)
p2sc_timestamp(s, usec) ==
    LET r == Rounded(s, usec)
    IN  p2sc_date2string(Dated(gmtime(r[1]), r[2]))

---------------------------------------------------------------------------

BadDate == <<>>

Is(s, i, c) == i \in DOMAIN s /\ s[i] = chr(c)
IsNum(s, i) == i \in DOMAIN s /\ s[i][1] = "n"

(* The digits after the point, as many as there are; those behind the      *)
(* sixth do not count.                                                     *)
IsDigit(s, i) == i \in DOMAIN s /\ s[i][1] = "d"
Micros(s, i) ==
    LET digits == CHOOSE n \in 0 .. Len(s) :
                      (\A k \in 0 .. n - 1 : IsDigit(s, i + k)) /\ ~IsDigit(s, i + n)
        Part(k) == IF k <= digits THEN s[i + k - 1][2] * MUL[k] ELSE 0
    IN  Part(1) + Part(2) + Part(3) + Part(4) + Part(5) + Part(6)

(* p2sc_string2date: date and time, each with or without separators. What  *)
(* follows the seconds or the fraction is not looked at.                   *)
p2sc_string2date(s) ==
    LET day  == IF Is(s, 2, "-") THEN <<s[1][2], s[3][2], s[5][2]>>
                ELSE <<s[1][2] \div 10000, (s[1][2] % 10000) \div 100, s[1][2] % 100>>
        afterDay == IF Is(s, 2, "-") THEN 6 ELSE 2
        t    == afterDay + 1
        time == IF Is(s, t + 1, ":") THEN <<s[t][2], s[t + 2][2], s[t + 4][2]>>
                ELSE <<s[t][2] \div 10000, (s[t][2] % 10000) \div 100, s[t][2] % 100>>
        end  == IF Is(s, t + 1, ":") THEN t + 5 ELSE t + 1
        usec == IF Is(s, end, ".") THEN Micros(s, end + 1) ELSE 0
    IN  IF /\ IsNum(s, 1)
           /\ Is(s, 2, "-") => IsNum(s, 3) /\ Is(s, 4, "-") /\ IsNum(s, 5)
           /\ Is(s, afterDay, "T") /\ IsNum(s, t)
           /\ Is(s, t + 1, ":") => IsNum(s, t + 2) /\ Is(s, t + 3, ":") /\ IsNum(s, t + 4)
        THEN <<day[1], day[2], day[3], time[1], time[2], 1000000 * time[3] + usec>>
        ELSE BadDate

(* The directory of a day, and the product in it, named by the second.     *)
p2sc_dirtree(s) == LET d == p2sc_string2date(s) IN <<d[1], d[2], d[3]>>
p2sc_name_swap_lv0(s) ==
    LET d == p2sc_string2date(s)
    IN  <<p2sc_dirtree(s), <<d[1], d[2], d[3], d[4], d[5], d[6] \div 1000000>> >>

---------------------------------------------------------------------------
(* The basic spelling of a date.                                           *)
SixOf(n) == [k \in 1 .. 6 |-> dig((n \div MUL[k]) % 10)]
Basic(d, digits) ==
    <<num(10000 * d[1] + 100 * d[2] + d[3]), chr("T"),
      num(10000 * d[4] + 100 * d[5] + d[6] \div 1000000), chr(".")>> \o digits
=============================================================================
