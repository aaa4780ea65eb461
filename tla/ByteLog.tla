------------------------------ MODULE ByteLog ------------------------------
(***************************************************************************)
(* What p2sc_buffer_t promises its one user, the XML writer: bytes are put *)
(* behind one another and taken out once, all of them, as they were put.   *)
(***************************************************************************)
EXTENDS Naturals, Sequences

CONSTANTS
    Byte,    \* the values of a byte
    None     \* nothing taken yet

VARIABLES
    log,     \* what has been put
    taken    \* what was taken out, or None

Init ==
    /\ log \in Seq(Byte)
    /\ taken = None

(* Bytes are put at the end; what is there stays.                          *)
Put ==
    /\ taken = None
    /\ log' \in Seq(Byte)
    /\ Len(log) <= Len(log')
    /\ SubSeq(log', 1, Len(log)) = log
    /\ UNCHANGED taken

Take ==
    /\ taken = None
    /\ taken' = log
    /\ UNCHANGED log

Next == Put \/ Take

LogSpec == Init /\ [][Next]_<<log, taken>>
=============================================================================
