---------------------------- MODULE MCHeaderXml ----------------------------
(* Small instances of HeaderXml.                                           *)
EXTENDS HeaderXml

CONSTANTS A, B, D, x, y

Card(key, val, com) == [key |-> key, val |-> val, com |-> com, ok |-> TRUE]

(* A value and a repetition, a string that goes on, its continuations, a   *)
(* long string that ends in &, texts with what XML escapes or has not, a   *)
(* name XML does not have, and a card without its closing quote.           *)
Cards == {
    Card(A, <<x>>, <<>>),
    Card(A, <<y, Amp>>, <<x>>),
    Card(B, <<Amp, x, Bad, y>>, <<Bad, x>>),
    Card(B, <<x, y, Amp>>, <<y>>),
    Card(Continue, <<y>>, <<y>>),
    Card(Continue, <<x, Amp>>, <<>>),
    Card(Comment, <<>>, <<x, y>>),
    Card(Blank, <<>>, <<y>>),
    Card(D, <<x>>, <<>>),
    [key |-> A, val |-> <<x, x>>, com |-> <<>>, ok |-> FALSE] }

Short == UNION {[1 .. n -> Cards] : n \in 0 .. 3}
Long == UNION {[1 .. n -> Cards] : n \in 0 .. 4}
Names == {A, B, D}
NotNames == {D}
Letters == {x, y}
ContactTexts == {<<Amp, Bad, x>>}
=============================================================================
