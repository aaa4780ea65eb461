------------------------------ MODULE Stepwise ------------------------------
(* A loop over the elements of a sequence. The fold of SequencesExt is     *)
(* defined on sets and chooses among the rest of the indices at each step, *)
(* which takes time of the square of the length.                           *)
EXTENDS Naturals, Sequences

(* op applied to start and each element of s in turn, first to last.       *)
Loop(op(_, _), start, s) ==
    LET after[k \in 0 .. Len(s)] == IF k = 0 THEN start ELSE op(after[k - 1], s[k])
    IN  after[Len(s)]

(* The elements of s that are in S, in their order.                        *)
Selected(s, S) == Loop(LAMBDA kept, e : IF e \in S THEN Append(kept, e) ELSE kept, <<>>, s)
=============================================================================
