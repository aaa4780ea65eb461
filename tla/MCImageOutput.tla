--------------------------- MODULE MCImageOutput ---------------------------
(* Small instances of ImageOutput.                                         *)
EXTENDS ImageOutput, TLC

CONSTANTS p1, p2, f1, f2, old

Ask(format, name, size) == [format |-> format, name |-> name, size |-> size, print |-> TRUE]

OldFile == [i \in 1 .. 4 |-> <<old, i>>]

(* A file is there already, longer than what replaces it.                  *)
BeforeOne == [n \in File |-> IF n = f1 THEN OldFile ELSE NoFile]

(* Two products under two names, in any two formats; one prints its name.  *)
JobsApart == {(p1 :> Ask(a, f1, 3)) @@ (p2 :> [Ask(b, f2, 3) EXCEPT !.print = FALSE]) :
                 a, b \in Format}

(* Two products of any lengths under one name, in any two formats.         *)
JobsShared == {(p1 :> Ask(a, f1, 3)) @@ (p2 :> [Ask(b, f1, m) EXCEPT !.print = FALSE]) :
                  a, b \in Format, m \in {2, 3}}

JobsTwo == JobsApart \cup JobsShared
JobsLone == {p1 :> Ask("jhv", f1, 3)}
===========================================================================
