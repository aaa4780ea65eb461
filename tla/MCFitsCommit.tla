--------------------------- MODULE MCFitsCommit ---------------------------
(* Small instances of FitsCommit for TLC.                                  *)
EXTENDS FitsCommit, TLC

MCJob(asked, sums, current, size, more) ==
    [asked |-> asked, sums |-> sums, current |-> current, size |-> size, more |-> more]

(* Two products with equal data, one of them longer, and two of two HDUs   *)
(* that differ in the second: one is asked for under the same name and has *)
(* its second HDU current, the other under the first numbered name.        *)
JobsMixed == {MCJob(0, <<"a">>, 1, 1, 0), MCJob(0, <<"a">>, 1, 2, 0),
              MCJob(0, <<"c", "b">>, 2, 2, 1), MCJob(1, <<"c", "a">>, 1, 2, 0)}

(* All of one length, with a product of two HDUs one of which has no       *)
(* DATASUM.                                                                *)
JobsEven == {MCJob(0, <<"b">>, 1, 2, 0), MCJob(1, <<"b">>, 1, 2, 0),
             MCJob(0, <<"a", Missing>>, 1, 2, 0), MCJob(0, <<"a", "b">>, 2, 2, 0)}

(* Enough to lose or mix a product.                                        *)
JobsTwo == {MCJob(0, <<"a">>, 1, 1, 0), MCJob(0, <<"a">>, 1, 2, 0), MCJob(0, <<"b">>, 1, 1, 0)}

ASSUME Apart

Processes == Permutations(Proc)

===========================================================================
