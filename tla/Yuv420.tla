------------------------------- MODULE Yuv420 -------------------------------
(***************************************************************************)
(* swap_mono2yuv and swap_yuv2yuv420 (libswap/swap_color.c), and the part  *)
(* of the planes that swap_y4m writes. A plane is a function on offsets;   *)
(* the colour table is given as one number per grey level and component.   *)
(***************************************************************************)
EXTENDS Integers, Sequences, SequencesExt, Stepwise

Foreign == 256    \* what depends on memory beyond the plane: any byte

At(p, o) == IF o \in DOMAIN p THEN p[o] ELSE Foreign

(* Each pixel is looked up in the table of the component.                  *)
swap_mono2yuv(lut, in) ==
    [y |-> [o \in DOMAIN in |-> lut[in[o]].y],
     u |-> [o \in DOMAIN in |-> lut[in[o]].u],
     v |-> [o \in DOMAIN in |-> lut[in[o]].v]]

(* Mutant: the target rows are as far apart as the source rows.            *)
TargetFull(w, i, j) == (j \div 2) * w + (i \div 2)
Target(w, i, j) == (j \div 2) * (w \div 2) + (i \div 2)

(* (a + b + c + d + 2) >> 2, at most 255 *)
Mean4(a, b, c, d) ==
    IF Foreign \in {a, b, c, d} THEN Foreign
    ELSE LET m == (a + b + c + d + 2) \div 4 IN IF m > 255 THEN 255 ELSE m

(* The block at (i, j) of a plane is averaged into the same plane.         *)
OneBlock(q, w, i, j) ==
    LET m == Mean4(At(q, j * w + i), At(q, j * w + i + 1),
                   At(q, (j + 1) * w + i), At(q, (j + 1) * w + i + 1))
    IN  [o \in DOMAIN q \cup {Target(w, i, j)} |-> IF o = Target(w, i, j) THEN m ELSE q[o]]

(* The corners of the blocks, row by row.                                  *)
Corner(cols, k) == <<2 * ((k - 1) % cols), 2 * ((k - 1) \div cols)>>
Corners(w, h) ==
    LET cols == (w + 1) \div 2
        rows == (h + 1) \div 2
    IN  [k \in 1 .. cols * rows |-> Corner(cols, k)]

Subsampled(p, w, h) == Loop(LAMBDA q, b : OneBlock(q, w, b[1], b[2]), p, Corners(w, h))

swap_yuv2yuv420(im, w, h) ==
    [im EXCEPT !.u = Subsampled(im.u, w, h), !.v = Subsampled(im.v, w, h)]

(* What swap_y4m writes of the planes: l bytes, l / 4 and l / 4.           *)
Frame(im, w, h) ==
    LET l == w * h
        First(p, k) == [o \in 0 .. k - 1 |-> p[o]]
    IN  [y |-> First(im.y, l), u |-> First(im.u, l \div 4), v |-> First(im.v, l \div 4)]

---------------------------------------------------------------------------
(* The reference: at each place of the target the mean of the last block   *)
(* that goes there, over the plane as it was. For even sizes a place has   *)
(* one block; the last column of an odd width goes to the next row's first *)
(* place, and where the plane is narrow and high, no block goes to the     *)
(* last places, which keep their pixels.                                   *)
Blocks(w, h) == {b \in (0 .. w - 1) \X (0 .. h - 1) : b[1] % 2 = 0 /\ b[2] % 2 = 0}
Going(w, h, o) == {b \in Blocks(w, h) : (b[2] \div 2) * (w \div 2) + b[1] \div 2 = o}
BlockMean(p, w, b) ==
    LET Pixel(x, y) == At(p, (b[2] + y) * w + b[1] + x)
        four == <<Pixel(0, 0), Pixel(1, 0), Pixel(0, 1), Pixel(1, 1)>>
    IN  IF \E k \in 1 .. 4 : four[k] = Foreign THEN Foreign
        ELSE (four[1] + four[2] + four[3] + four[4] + 2) \div 4
BlockMeans(p, w, h) ==
    [o \in 0 .. (w * h) \div 4 - 1 |->
        LET here == Going(w, h, o)
        IN  IF here = {} THEN p[o]
            ELSE BlockMean(p, w, CHOOSE b \in here : \A c \in here : c[2] <= b[2])]
=============================================================================
