------------------------------ MODULE Bicubic ------------------------------
(***************************************************************************)
(* swap_bicubic and swap_affine (libswap/swap_math.c, swap_warp.c): the     *)
(* neighbourhood of 4 by 4 pixels around a place of the image, kept from   *)
(* one sample to the next. A pixel is named by its number in the image, 1  *)
(* for the first; the weights, floating point, are left out.               *)
(***************************************************************************)
EXTENDS Integers, Sequences, SequencesExt, Stepwise

Zero    == 0      \* what counts as outside the image
Beyond  == -1     \* memory beyond the image
NoValue == -2     \* memory nothing was written to

(* The image as memory: the cell at an offset.                             *)
CellOf(w, h, o) == IF o \in 0 .. w * h - 1 THEN o + 1 ELSE Beyond

fetch(w, h, i, j) ==
    IF i < 0 \/ i > w - 1 \/ j < 0 \/ j > h - 1 THEN Zero ELSE CellOf(w, h, j * w + i)

(* Mutant: the last column that has two columns after it, taken one wide.  *)
InteriorWide(w, h, i, j) == i > 0 /\ i < w - 1 /\ j > 0 /\ j < h - 2
Interior(w, h, i, j)     == i > 0 /\ i < w - 2 /\ j > 0 /\ j < h - 2

(* Four rows are copied as they lie in memory, or each pixel is looked at. *)
fetch16(w, h, i, j) ==
    IF Interior(w, h, i, j)
    THEN [k \in 1 .. 16 |->
             CellOf(w, h, (j - 1) * w + (i - 1) + ((k - 1) \div 4) * w + ((k - 1) % 4))]
    ELSE [k \in 1 .. 16 |-> fetch(w, h, i - 1 + ((k - 1) % 4), j - 1 + (k - 1) \div 4)]

(* The same for 3 by 3.                                                    *)
swap_fetch9(w, h, i, j) ==
    IF i > 0 /\ i < w - 1 /\ j > 0 /\ j < h - 1
    THEN [k \in 1 .. 9 |->
             CellOf(w, h, (j - 1) * w + (i - 1) + ((k - 1) \div 3) * w + ((k - 1) % 3))]
    ELSE [k \in 1 .. 9 |-> fetch(w, h, i - 1 + ((k - 1) % 3), j - 1 + (k - 1) \div 3)]

---------------------------------------------------------------------------

(* swap_bicubic_alloc: idx is 0xffffffff in an int, n is not initialised.  *)
NewFilter == [idx |-> -1, n |-> [k \in 1 .. 16 |-> NoValue]]

Key(i, j) == j * 65536 + i

(* The places whose keys an int can hold and tell apart.                   *)
Half == 32768
Places == (-Half .. Half - 1) \X (1 - Half .. Half - 1)

(* One sample at pixel (i, j): the filter after it. Its n is what was used. *)
swap_bicubic(f, w, h, i, j) ==
    IF Key(i, j) = f.idx THEN f
    ELSE [idx |-> Key(i, j), n |-> fetch16(w, h, i, j)]

(* Filters after each of the samples of s, taken one after the other.      *)
Sampled(w, h, s) ==
    Loop(LAMBDA fs, ij : Append(fs, swap_bicubic(fs[Len(fs)], w, h, ij[1], ij[2])),
             <<NewFilter>>, s)

---------------------------------------------------------------------------
(* swap_affine.                                                            *)

(* The matrix of no change: rows are copied, and the rest of the output    *)
(* stays zero.                                                             *)
AffineCopied(w, h, ow, oh) ==
    LET cols == IF w < ow THEN w ELSE ow
        rows == IF h < oh THEN h ELSE oh
    IN  [o \in 0 .. ow * oh - 1 |->
            IF o % ow < cols /\ o \div ow < rows
            THEN CellOf(w, h, (o \div ow) * w + (o % ow)) ELSE Zero]

(* Any other one samples the input, here at the same pixels: the weights   *)
(* at no displacement are those of the pixel itself, for the filter all    *)
(* callers make (B = 0).                                                   *)
AffineSampled(w, h, ow, oh) ==
    LET raster == [o \in 1 .. ow * oh |-> <<(o - 1) % ow, (o - 1) \div ow>>]
        fs == Sampled(w, h, raster)
    IN  [o \in 0 .. ow * oh - 1 |-> fs[o + 2].n[6]]

---------------------------------------------------------------------------
(* The reference: the pixels around (i, j), outside the image zero.        *)
Around(w, h, i, j, k, before) ==
    [c \in 1 .. k * k |->
        LET x == i - before + ((c - 1) % k)
            y == j - before + (c - 1) \div k
        IN  IF x \in 0 .. w - 1 /\ y \in 0 .. h - 1 THEN y * w + x + 1 ELSE Zero]
=============================================================================
