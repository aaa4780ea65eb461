-------------------------------- MODULE Pgm --------------------------------
(***************************************************************************)
(* swap_write_pgm and swap_read_pgm (libswap/swap_file.c). A file is a     *)
(* sequence of tokens: a byte <<"b", k>>, or a decimal number <<"n", k>>.  *)
(***************************************************************************)
EXTENDS Integers, Sequences, Stepwise

byte(k) == <<"b", k>>
decimal(k) == <<"n", k>>
NewLine == byte(10)

Clipped(v, max) == IF v > max THEN max ELSE v

(* "P5\n%zd %zd\n%hu\n", of the kind and the three numbers as tokens.      *)
HeaderOf(kind, w, h, max) ==
    <<byte(80), kind, NewLine, w, byte(32), h, NewLine, max, NewLine>>

(* A pixel of more than 8 bits is written in two bytes, the high one first. *)
Buffer(pixels, max) ==
    LET v(i) == Clipped(pixels[i], max)
    IN  IF max > 255
        THEN [o \in 1 .. 2 * Len(pixels) |->
                 byte(IF o % 2 = 1 THEN v((o + 1) \div 2) \div 256 ELSE v(o \div 2) % 256)]
        ELSE [o \in 1 .. Len(pixels) |-> byte(v(o))]

swap_write_pgm(pixels, w, h, max) ==
    HeaderOf(byte(53), decimal(w), decimal(h), decimal(max)) \o Buffer(pixels, max)

Blanks == {byte(32), byte(9), byte(10), byte(13)}

(* What blank() leaves of a file; nothing: "unexpected end of file".       *)
Skipped(f) ==
    LET at == {i \in DOMAIN f : f[i] \notin Blanks}
    IN  IF at = {} THEN <<>>
        ELSE SubSeq(f, CHOOSE i \in at : \A j \in at : i <= j, Len(f))

(* Mutant: the bytes are widened from the first one on.                    *)
WidenForward(mem, len) ==
    Loop(LAMBDA m, i : [m EXCEPT ![2 * i] = m[i], ![2 * i + 1] = 0], mem,
             [k \in 1 .. len |-> k - 1])

(* len bytes at the start of memory of 2 * len become numbers of two bytes *)
(* in place, from the last one on, the low byte first.                     *)
Widen(mem, len) ==
    Loop(LAMBDA m, i : [m EXCEPT ![2 * i] = m[i], ![2 * i + 1] = 0], mem,
             [k \in 1 .. len |-> len - k])

(* Each pair of bytes, high byte first in the file, becomes a number.      *)
Swap(mem, len) ==
    [o \in 0 .. 2 * len - 1 |-> IF o % 2 = 0 THEN mem[o + 1] ELSE mem[o - 1]]

Fatal == [fatal |-> TRUE]

(* What malloc'd memory holds before it is written: no byte.               *)
Unwritten == -1
Pixel(low, high) == IF Unwritten \in {low, high} THEN Unwritten ELSE low + 256 * high

(* The data after the header. A read that falls short leaves the end of    *)
(* the memory as malloc gave it; it is a warning, the pixels are returned. *)
ReadData(f, width, height, maxval) ==
    LET len == width * height
        size == IF maxval < 256 THEN len ELSE 2 * len
        mem == [o \in 0 .. 2 * len - 1 |->
                   IF o < size /\ o < Len(f) THEN f[o + 1][2] ELSE Unwritten]
        pix == IF maxval < 256 THEN Widen(mem, len) ELSE Swap(mem, len)
    IN  [fatal |-> FALSE, warned |-> Len(f) < size, w |-> width, h |-> height,
         pixels |-> [i \in 1 .. len |-> Pixel(pix[2 * i - 2], pix[2 * i - 1])]]

(* The three numbers, each between blanks; a file that ends in blanks is   *)
(* refused too, and nothing after that is.                                 *)
ReadHeader(f) ==
    LET f1 == Skipped(SubSeq(f, 3, Len(f)))
        f2 == Skipped(Tail(f1))
        f3 == Skipped(Tail(f2))
        f4 == Skipped(Tail(f3))
        Number(g) == g # <<>> /\ Head(g)[1] = "n"
        k(g) == Head(g)[2]
        InRange == /\ k(f1) \in 1 .. 32767 /\ k(f2) \in 1 .. 32767
                   /\ k(f3) \in 1 .. 65535
    IN  IF /\ Len(f) >= 2 /\ f[1] = byte(80) /\ f[2] = byte(53)
           /\ Number(f1) /\ Number(f2) /\ Number(f3) /\ f4 # <<>>
           /\ InRange
        THEN [fatal |-> FALSE, w |-> k(f1), h |-> k(f2), max |-> k(f3), data |-> f4]
        ELSE Fatal

swap_read_pgm(f) ==
    LET header == ReadHeader(f)
    IN  IF header.fatal THEN Fatal
        ELSE ReadData(header.data, header.w, header.h, header.max)
=============================================================================
