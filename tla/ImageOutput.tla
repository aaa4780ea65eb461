---------------------------- MODULE ImageOutput ----------------------------
(***************************************************************************)
(* The way of one image from its FITS file to an output file: main of      *)
(* fits2img/fits2img.c with swap_write_png, swap_write_jpg, swap_write_pgm *)
(* (libswap/swap_file.c), swap_write_j2k (libswap/swap_file_j2k.c) and     *)
(* p2sc_open_iofile, p2sc_write and p2sc_free_iofile                       *)
(* (libp2sc/p2sc_file.c), run by several processes on one directory.       *)
(*                                                                         *)
(* A product is a sequence of cells. What is written waits in a buffer of  *)
(* Cap cells, of a GIOChannel or of stdio; a full buffer is handed to      *)
(* write(2), and so is what is left in it when the file is closed.         *)
(***************************************************************************)
EXTENDS Integers, Sequences, SequencesExt

CONSTANTS
    Proc,     \* the processes
    File,     \* the names of output files (not "-", the standard output)
    Jobs,     \* what the processes may be asked for, see JobType
    Before,   \* Before[n]: the cells of file n at the beginning, or NoFile
    Cap,      \* the size of a buffer, in cells
    Faults,   \* what the environment may do, see FaultKinds
    NoFile    \* no file has that name

Format == {"png", "jpg", "pgm", "jhv"}
JobType == [format : Format, name : File, size : Nat \ {0}, print : BOOLEAN]
FaultKinds == {"input", "encode", "open", "write", "close", "kill"}

ASSUME JobAssumption == Jobs \subseteq [Proc -> JobType]
ASSUME BeforeAssumption == Before = [n \in File |-> Before[n]]
ASSUME CapAssumption == Cap \in Nat \ {0}
ASSUME FaultAssumption == Faults \subseteq FaultKinds

VARIABLES
    job,       \* job[p]: format and name of the output of p, its size
    pc,        \* pc[p]: what p does next
    todo,      \* todo[p]: the cells of the product not yet in the buffer
    buf,       \* buf[p]: the cells in the buffer
    off,       \* off[p]: the offset of the descriptor of p
    file,      \* file[n]: the cells of file n, or NoFile
    printed,   \* the processes that have printed their file name
    ignored    \* the processes that have gone on after a failed call

vars == <<job, pc, todo, buf, off, file, printed, ignored>>

(* The bytes of an output, by whose they are and where they stand. What    *)
(* they say is not in the model: every XML has the time it was made at.    *)
Product(p) == [i \in 1 .. job[p].size |-> <<p, i>>]
Hole == <<"hole", 0>>
Name(p) == job[p].name

(* libpng writes while it encodes; the others encode in memory, and the    *)
(* file is opened afterwards. A PGM is not encoded.                        *)
Memory == {"jpg", "jhv"}
Begin(p) == IF job[p].format \in Memory THEN "encode" ELSE "open"

Working == {"read", "encode", "open", "write", "close", "print"}
Stopped == {"exit 0", "refused", "exit 1", "killed"}

---------------------------------------------------------------------------

Init ==
    /\ job \in Jobs
    /\ pc = [p \in Proc |-> "read"]
    /\ todo = [p \in Proc |-> Product(p)]
    /\ buf = [p \in Proc |-> <<>>]
    /\ off = [p \in Proc |-> 0]
    /\ file = Before
    /\ printed = {}
    /\ ignored = {}

Goto(p, from, to) == pc[p] = from /\ pc' = [pc EXCEPT ![p] = to]

(* fitsproc, the pixel operations and the output name.                     *)
Read(p) ==
    /\ Goto(p, "read", Begin(p))
    /\ UNCHANGED <<job, todo, buf, off, file, printed, ignored>>

(* The input, or the date that is part of the name, is refused.            *)
ReadFatal(p) ==
    /\ "input" \in Faults
    /\ Goto(p, "read", "refused")
    /\ UNCHANGED <<job, todo, buf, off, file, printed, ignored>>

(* jpeg_finish_compress, opj_encode_with_info.                             *)
Encode(p) ==
    /\ Goto(p, "encode", "open")
    /\ UNCHANGED <<job, todo, buf, off, file, printed, ignored>>

(* libjpeg ends the process.                                               *)
EncodeFatal(p) ==
    /\ "encode" \in Faults
    /\ job[p].format = "jpg"
    /\ Goto(p, "encode", "refused")
    /\ UNCHANGED <<job, todo, buf, off, file, printed, ignored>>

(* swap_write_j2k reports on stderr and returns.                           *)
EncodeIgnored(p) ==
    /\ "encode" \in Faults
    /\ job[p].format = "jhv"
    /\ Goto(p, "encode", "print")
    /\ ignored' = ignored \cup {p}
    /\ UNCHANGED <<job, todo, buf, off, file, printed>>

(* Mutant: the file is opened for appending, not emptied.                  *)
OpenKeep(p) ==
    /\ Goto(p, "open", "write")
    /\ file' = [file EXCEPT ![Name(p)] = IF @ = NoFile THEN <<>> ELSE @]
    /\ UNCHANGED <<job, todo, buf, off, printed, ignored>>

(* Mutant: the file is opened before there is anything to write.           *)
OpenEarly(p) ==
    /\ \/ Goto(p, "read", "encode") \/ Goto(p, "open", "write")
    /\ file' = [file EXCEPT ![Name(p)] = <<>>]
    /\ UNCHANGED <<job, todo, buf, off, printed, ignored>>

(* Modes "w" and "wb" make the file or empty it.                           *)
Open(p) ==
    /\ Goto(p, "open", "write")
    /\ file' = [file EXCEPT ![Name(p)] = <<>>]
    /\ UNCHANGED <<job, todo, buf, off, printed, ignored>>

(* The directory is not there (nobody makes the one of --out-dateobs-dir), *)
(* or the file cannot be made.                                             *)
OpenFatal(p) ==
    /\ "open" \in Faults
    /\ job[p].format # "jhv"
    /\ Goto(p, "open", "refused")
    /\ UNCHANGED <<job, todo, buf, off, file, printed, ignored>>

OpenIgnored(p) ==
    /\ "open" \in Faults
    /\ job[p].format = "jhv"
    /\ Goto(p, "open", "print")
    /\ ignored' = ignored \cup {p}
    /\ UNCHANGED <<job, todo, buf, off, file, printed>>

---------------------------------------------------------------------------

(* Mutant: the descriptor appends (O_APPEND).                              *)
WrittenAtEnd(p, k) == file[Name(p)] \o SubSeq(buf[p], 1, k)

(* The file after the first k cells of the buffer of p went to its offset. *)
Written(p, k) ==
    LET f == file[Name(p)]
        n == IF off[p] + k > Len(f) THEN off[p] + k ELSE Len(f)
    IN  [i \in 1 .. n |->
            IF i \in off[p] + 1 .. off[p] + k THEN buf[p][i - off[p]]
            ELSE IF i <= Len(f) THEN f[i]
            ELSE Hole]

(* Mutant: a full buffer is dropped.                                       *)
PutDrop(p) ==
    /\ pc[p] = "write" /\ todo[p] # <<>>
    /\ buf' = [buf EXCEPT ![p] = IF Len(@) < Cap THEN Append(@, Head(todo[p]))
                                 ELSE <<Head(todo[p])>>]
    /\ todo' = [todo EXCEPT ![p] = Tail(@)]
    /\ UNCHANGED <<job, pc, off, file, printed, ignored>>

(* The next cell fits into the buffer.                                     *)
Put(p) ==
    /\ pc[p] = "write" /\ todo[p] # <<>>
    /\ Len(buf[p]) < Cap
    /\ buf' = [buf EXCEPT ![p] = Append(@, Head(todo[p]))]
    /\ todo' = [todo EXCEPT ![p] = Tail(@)]
    /\ UNCHANGED <<job, pc, off, file, printed, ignored>>

(* The buffer is full or the file is being closed, by exit(3) when         *)
(* write_data has left it open: write(2) takes some of the buffer.         *)
Flush(p) ==
    /\ \/ pc[p] = "write" /\ todo[p] # <<>> /\ Len(buf[p]) = Cap
       \/ pc[p] = "close"
       \/ pc[p] = "print" /\ job[p].format = "jhv" /\ todo[p] # <<>>
    /\ \E k \in 1 .. Len(buf[p]) :
          /\ file' = [file EXCEPT ![Name(p)] = Written(p, k)]
          /\ off' = [off EXCEPT ![p] = @ + k]
          /\ buf' = [buf EXCEPT ![p] = SubSeq(@, k + 1, Len(@))]
    /\ UNCHANGED <<job, pc, todo, printed, ignored>>

(* A write(2) under p2sc_write fails, or libpng does: what is in the       *)
(* buffer is gone with the process.                                        *)
WriteFatal(p) ==
    /\ job[p].format # "jhv"
    /\ \/ "write" \in Faults /\ todo[p] # <<>> /\ Len(buf[p]) = Cap
       \/ "encode" \in Faults /\ job[p].format = "png" /\ todo[p] # <<>>
    /\ Goto(p, "write", "exit 1")
    /\ UNCHANGED <<job, todo, buf, off, file, printed, ignored>>

(* A write(2) under fwrite fails; write_data reports on stderr and returns.*)
WriteIgnored(p) ==
    /\ "write" \in Faults
    /\ job[p].format = "jhv"
    /\ todo[p] # <<>> /\ Len(buf[p]) = Cap
    /\ Goto(p, "write", "print")
    /\ ignored' = ignored \cup {p}
    /\ UNCHANGED <<job, todo, buf, off, file, printed>>

(* p2sc_free_iofile or fclose.                                             *)
Finish(p) ==
    /\ todo[p] = <<>>
    /\ Goto(p, "write", "close")
    /\ UNCHANGED <<job, todo, buf, off, file, printed, ignored>>

Close(p) ==
    /\ buf[p] = <<>>
    /\ Goto(p, "close", "print")
    /\ UNCHANGED <<job, todo, buf, off, file, printed, ignored>>

(* The last write(2), or close(2), fails: nobody looks.                    *)
CloseIgnored(p) ==
    /\ "close" \in Faults
    /\ Goto(p, "close", "print")
    /\ ignored' = ignored \cup {p}
    /\ UNCHANGED <<job, todo, buf, off, file, printed>>

(* --print-filename, and the end of main.                                  *)
Report(p) ==
    /\ Goto(p, "print", "exit 0")
    /\ printed' = IF job[p].print THEN printed \cup {p} ELSE printed
    /\ UNCHANGED <<job, todo, buf, off, file, ignored>>

Kill(p) ==
    /\ "kill" \in Faults
    /\ pc[p] \in Working
    /\ pc' = [pc EXCEPT ![p] = "killed"]
    /\ UNCHANGED <<job, todo, buf, off, file, printed, ignored>>

AllStopped == (\A p \in Proc : pc[p] \in Stopped) /\ UNCHANGED vars

(* The steps of the program.                                               *)
Step(p) ==
    \/ Read(p) \/ ReadFatal(p)
    \/ Encode(p) \/ EncodeFatal(p) \/ EncodeIgnored(p)
    \/ Open(p) \/ OpenFatal(p) \/ OpenIgnored(p)
    \/ Put(p) \/ Flush(p) \/ WriteFatal(p) \/ WriteIgnored(p)
    \/ Finish(p) \/ Close(p) \/ CloseIgnored(p) \/ Report(p)

Next == AllStopped \/ \E p \in Proc : Step(p) \/ Kill(p)

Spec == Init /\ [][Next]_vars

---------------------------------------------------------------------------
(* Properties.                                                             *)

Cell == (Proc \X Nat) \cup {Hole}

TypeOK ==
    /\ job \in Jobs
    /\ pc \in [Proc -> Working \cup Stopped]
    /\ todo \in [Proc -> Seq(Cell)]
    /\ buf \in [Proc -> Seq(Cell)]
    /\ off \in [Proc -> Nat]
    /\ file = [n \in File |-> file[n]]
    /\ printed \subseteq Proc /\ ignored \subseteq Proc

Alone(p) == \A q \in Proc \ {p} : Name(q) # Name(p)

(* A process that ends well and has not gone on after a failed call leaves *)
(* its whole product, of a process that was first or that replaced an old  *)
(* file, whatever its format and however the writes were cut.              *)
WholeOrToldSo ==
    \A p \in Proc : Alone(p) /\ pc[p] = "exit 0" /\ p \notin ignored
                        => file[Name(p)] = Product(p)

(* The PNG, JPEG and PGM writers look at every write but those of the      *)
(* close: a process that exits with 0 is at most one buffer short.         *)
TailOnly ==
    \A p \in Proc : Alone(p) /\ pc[p] = "exit 0" /\ job[p].format # "jhv" =>
        /\ IsPrefix(file[Name(p)], Product(p))
        /\ Len(file[Name(p)]) >= job[p].size - Cap

(* Processes with one output name write into one file, in place: whatever  *)
(* order their opens, which empty it, and their writes come in, a cell     *)
(* stands where its own product has it, or is a hole that an open tore.    *)
(* When all of them ended well, with products of one length, the file has  *)
(* that length and no hole. It need not be the product of one of them: the *)
(* time in the XML (swap_meta.c:65) makes two runs of one conversion       *)
(* differ, and the file may have parts of both.                            *)
Sharers(n) == {p \in Proc : Name(p) = n /\ pc[p] # "refused"}

InPlace(n) ==
    \A i \in DOMAIN file[n] :
        file[n][i] = Hole \/ \E p \in Proc : Name(p) = n /\ file[n][i] = <<p, i>>

EndedWell(n) ==
    /\ Sharers(n) # {}
    /\ \A p \in Sharers(n) : pc[p] = "exit 0" /\ p \notin ignored
    /\ \A p, q \in Sharers(n) : job[p].size = job[q].size

Aligned ==
    \A n \in File :
        /\ file[n] # Before[n] => InPlace(n)
        /\ EndedWell(n) =>
              \A p \in Sharers(n) : /\ Len(file[n]) = job[p].size
                                    /\ \A i \in 1 .. Len(file[n]) : file[n][i] # Hole

(* A process that has not got to the open of its output, or whose open     *)
(* failed, has not touched an older file of that name: what is wrong with  *)
(* the input or the date, and what libjpeg cannot encode, costs no file.   *)
(* libpng encodes after the open (swap_file.c:65): a PNG that fails there  *)
(* ends with 1, not "refused", and the older file is gone.                 *)
OldKept ==
    \A n \in File :
        (\A p \in Proc : Name(p) = n => pc[p] \in {"read", "refused"})
            => file[n] = Before[n]

(* "Print output filename" (fits2img.c:81), of a program that "creates     *)
(* conforming Helioviewer JP2 files" (README.md:2): a printed name is that *)
(* of the product.                                                         *)
PrintedIsWhole == \A p \in printed : Alone(p) => file[Name(p)] = Product(p)
===========================================================================
