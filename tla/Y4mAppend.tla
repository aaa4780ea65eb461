----------------------------- MODULE Y4mAppend -----------------------------
(***************************************************************************)
(* Appending frames to one YUV4MPEG2 file: swap_y4m of                     *)
(* libswap/swap_file.c, called once by each of several fits2img processes  *)
(* (option --yuv).                                                         *)
(*                                                                         *)
(* The file is a sequence of cells: a stream header, a FRAME marker or a   *)
(* plane. Offsets count cells; where bytes of two writers overlap the      *)
(* model loses a whole cell. stdio keeps cells in a buffer and hands any   *)
(* number of them, in order, to one write(2), which is atomic.             *)
(***************************************************************************)
EXTENDS Integers, Sequences, SequencesExt, FiniteSets

CONSTANTS
    Proc,       \* the processes
    Older,      \* who wrote what is there before the first process
    NoFile,     \* the name is free
    Existing,   \* what the name may hold before the first process: cells, or NoFile
    Orders,     \* the values of serial that are considered
    Faults      \* subset of {"open", "write", "close", "kill"}

(* A cell: whose it is and what it holds.                                  *)
Author == Proc \cup Older \cup {"nobody"}
CellOf(authors) == [by : authors, part : {"HEAD", "FRAME", "Y", "U", "V", "hole"}]
CellType == CellOf(Author)

ASSUME ExistingAssumption ==
    /\ Existing \subseteq Seq(CellOf(Author \ Proc)) \cup {NoFile}
    /\ NoFile \notin Seq(CellType)
ASSUME OrderAssumption == Orders \subseteq BOOLEAN
ASSUME FaultAssumption == Faults \subseteq {"open", "write", "close", "kill"}

VARIABLES
    pc,      \* pc[p]: what p does next
    mode,    \* mode[p]: the fopen mode, "wb" or "ab", of its stream
    off,     \* off[p]: the offset of a "wb" stream
    buf,     \* buf[p]: the cells in the stdio buffer
    file,    \* the cells of the file, or NoFile
    serial   \* TRUE when the caller runs one process after the other; never changes

vars == <<pc, mode, off, buf, file, serial>>

Cell(p, part) == [by |-> p, part |-> part]
Hole == [by |-> "nobody", part |-> "hole"]
Frame(p) == <<Cell(p, "FRAME"), Cell(p, "Y"), Cell(p, "U"), Cell(p, "V")>>

(* A process that is "cut" exits with 0 as well, after a failed fclose.     *)
Stopped == {"exit 0", "cut", "exit 1", "killed"}
Started == {"open", "put", "close"}

---------------------------------------------------------------------------

Init ==
    /\ pc = [p \in Proc |-> "access"]
    /\ mode = [p \in Proc |-> "ab"]
    /\ off = [p \in Proc |-> 0]
    /\ buf = [p \in Proc |-> <<>>]
    /\ file \in Existing
    /\ serial \in Orders

Goto(p, from, to) == pc[p] = from /\ pc' = [pc EXCEPT ![p] = to]

(* access(name, F_OK) decides the mode; the file may come or go afterwards.*)
Access(p) ==
    /\ serial => \A q \in Proc : pc[q] \notin Started
    /\ Goto(p, "access", "open")
    /\ mode' = [mode EXCEPT ![p] = IF file = NoFile THEN "wb" ELSE "ab"]
    /\ UNCHANGED <<off, buf, file, serial>>

(* Mutant: the stream of an existing file is not opened for appending.     *)
OpenOverwrite(p) ==
    /\ Goto(p, "open", "put")
    /\ file' = IF mode[p] = "wb" \/ file = NoFile THEN <<>> ELSE file
    /\ buf' = [buf EXCEPT ![p] = IF mode[p] = "wb" THEN <<Cell(p, "HEAD")>> ELSE <<>>]
    /\ mode' = [mode EXCEPT ![p] = "wb"]
    /\ UNCHANGED <<off, serial>>

(* fopen: "wb" empties the file, "ab" makes it when it is not there; the   *)
(* header is put into the stream of the one who found no file.             *)
Open(p) ==
    /\ Goto(p, "open", "put")
    /\ file' = IF mode[p] = "wb" \/ file = NoFile THEN <<>> ELSE file
    /\ buf' = [buf EXCEPT ![p] = IF mode[p] = "wb" THEN <<Cell(p, "HEAD")>> ELSE <<>>]
    /\ UNCHANGED <<mode, off, serial>>

OpenError(p) ==
    /\ "open" \in Faults
    /\ Goto(p, "open", "exit 1")
    /\ UNCHANGED <<mode, off, buf, file, serial>>

(* The marker and the three planes go into the stream.                     *)
Put(p) ==
    /\ Goto(p, "put", "close")
    /\ buf' = [buf EXCEPT ![p] = @ \o Frame(p)]
    /\ UNCHANGED <<mode, off, file, serial>>

(* The file after cells are written at offset o: bytes there are replaced, *)
(* a gap before them is a hole.                                            *)
WrittenAt(o, cells) ==
    [i \in 1 .. IF o + Len(cells) > Len(file) THEN o + Len(cells) ELSE Len(file) |->
        IF i \in o + 1 .. o + Len(cells) THEN cells[i - o]
        ELSE IF i <= Len(file) THEN file[i]
        ELSE Hole]

(* One write(2) of the first k cells of the buffer, by fwrite or fclose.   *)
Flush(p) ==
    /\ pc[p] = "close"
    /\ \E k \in 1 .. Len(buf[p]) :
          LET cells == SubSeq(buf[p], 1, k)
          IN  /\ file' = IF mode[p] = "ab" THEN file \o cells
                         ELSE WrittenAt(off[p], cells)
              /\ off' = [off EXCEPT ![p] = @ + k]
              /\ buf' = [buf EXCEPT ![p] = SubSeq(@, k + 1, Len(@))]
    /\ UNCHANGED <<pc, mode, serial>>

(* A write(2) fails under the fwrite of a plane, which is fatal; exit(3)   *)
(* drops what cannot be written.                                           *)
WriteError(p) ==
    /\ "write" \in Faults
    /\ buf[p] # <<>>
    /\ Goto(p, "close", "exit 1")
    /\ buf' = [buf EXCEPT ![p] = <<>>]
    /\ UNCHANGED <<mode, off, file, serial>>

(* A write(2) fails under fclose, whose result nobody looks at.            *)
CloseError(p) ==
    /\ "close" \in Faults
    /\ buf[p] # <<>>
    /\ Goto(p, "close", "cut")
    /\ buf' = [buf EXCEPT ![p] = <<>>]
    /\ UNCHANGED <<mode, off, file, serial>>

(* Mutant: fclose is forgotten and its cells never leave the buffer.       *)
CloseEarly(p) ==
    /\ Goto(p, "close", "exit 0")
    /\ UNCHANGED <<mode, off, buf, file, serial>>

Close(p) ==
    /\ buf[p] = <<>>
    /\ Goto(p, "close", "exit 0")
    /\ UNCHANGED <<mode, off, buf, file, serial>>

Kill(p) ==
    /\ "kill" \in Faults
    /\ pc[p] \in Started
    /\ pc' = [pc EXCEPT ![p] = "killed"]
    /\ buf' = [buf EXCEPT ![p] = <<>>]
    /\ UNCHANGED <<mode, off, file, serial>>

AllStopped == (\A p \in Proc : pc[p] \in Stopped) /\ UNCHANGED vars

Next ==
    \/ \E p \in Proc :
          \/ Access(p) \/ Open(p) \/ OpenError(p) \/ Put(p) \/ Flush(p)
          \/ WriteError(p) \/ CloseError(p) \/ Close(p) \/ Kill(p)
    \/ AllStopped

Spec == Init /\ [][Next]_vars

---------------------------------------------------------------------------
(* Properties.                                                             *)

(* "Append YUV420 to a file instead" (fits2img.c:97): a process that exits *)
(* with 0 has left its whole frame in the file, in one piece.              *)
Appended(p) == file # NoFile /\ \E i \in DOMAIN file : SubSeq(file, i, i + 3) = Frame(p)

Appends == \A p \in Proc : pc[p] \in {"exit 0", "cut"} => Appended(p)

(* Processes run one after the other, none failing, leave a stream of one  *)
(* header and the whole frames of those that are done, after the frame     *)
(* that was there at first.                                                *)
Stream ==
    serial /\ (\A p \in Proc : pc[p] \in {"access", "exit 0"}) /\ file # NoFile =>
        LET authors == {file[1].by} \cup {p \in Proc : pc[p] = "exit 0"}
        IN  /\ file[1].part = "HEAD"
            /\ Len(file) = 1 + 4 * Cardinality(authors)
            /\ \A p \in authors :
                  \E i \in 0 .. Cardinality(authors) - 1 :
                      SubSeq(file, 4 * i + 2, 4 * i + 5) = Frame(p)

TypeOK ==
    /\ pc \in [Proc -> {"access"} \cup Started \cup Stopped]
    /\ mode \in [Proc -> {"wb", "ab"}]
    /\ off \in [Proc -> Nat]
    /\ buf \in [Proc -> Seq(CellType)]
    /\ file \in Seq(CellType) \cup {NoFile}
    /\ serial \in Orders

(* No two processes can both be the one that starts the file.              *)
Safe == serial \/ \A p \in Proc : mode[p] = "ab"

(* When the file is there first, or processes do not overlap, none takes   *)
(* away what another wrote, also when some fail or are killed: O_APPEND    *)
(* ignores the offsets.                                                    *)
OnlyGrows == [][Safe /\ file # NoFile => file' # NoFile /\ IsPrefix(file, file')]_vars

(* Where a cell stands in a file.                                          *)
Places(f, c) == IF f = NoFile THEN {} ELSE {i \in DOMAIN f : f[i] = c}

(* In the same cases every process leaves a beginning of its frame, each   *)
(* part once and behind the part before it, and one whose calls all        *)
(* succeed the whole of it, interleaved though it may be with the cells of *)
(* others.                                                                 *)
OwnOrder ==
    Safe => \A p \in Proc : \A k \in 1 .. 4 :
        /\ \A i, j \in Places(file, Frame(p)[k]) : i = j
        /\ k > 1 => \A i \in Places(file, Frame(p)[k]) :
                       \E j \in Places(file, Frame(p)[k - 1]) : j < i
        /\ pc[p] = "exit 0" => Places(file, Frame(p)[k]) # {}
===========================================================================
