----------------------------- MODULE P2scBuffer -----------------------------
(***************************************************************************)
(* The growable buffer of libp2sc/p2sc_buffer.c. One position serves       *)
(* reading and writing. A buffer is made empty (and then grows), or around *)
(* memory of the caller, all of which counts as its content.               *)
(***************************************************************************)
EXTENDS Integers, Sequences

CONSTANTS
    Byte,      \* the values of a byte
    Junk,      \* memory that was never written
    Outside,   \* memory that is not the buffer's
    None,      \* nothing yet
    SIZBUF,    \* the first size of a buffer
    Chunk,     \* what may be written at once: sequences of bytes
    Given,     \* the memory a caller may hand in: sequences of bytes
    Limit,     \* a bound of the model: of all that is written
    Ordered    \* TRUE: the caller writes first and only into its own
               \* buffer, then rewinds and reads

ASSUME SizeAssumption == SIZBUF \in Nat \ {0} /\ Limit \in Nat
ASSUME ChunkAssumption == Chunk \subseteq Seq(Byte) /\ Given \subseteq Seq(Byte)
ASSUME OrderAssumption == Ordered \in BOOLEAN
ASSUME NoneAssumption == None \notin Seq(Byte \cup {Junk, Outside})
ASSUME JunkAssumption == Junk \notin Byte /\ Outside \notin Byte

VARIABLES
    own,       \* buf->own
    mem,       \* the memory at buf->ptr, buf->allen cells
    len,       \* buf->len
    pos,       \* buf->pos
    rewound,   \* p2sc_buffer_rewind has been called
    got,       \* what p2sc_buffer_read returned last, or None
    taken,     \* what p2sc_buffer_del returned, or None
    failed     \* the process has ended with "Buffer out of bounds"

vars == <<own, mem, len, pos, rewound, got, taken, failed>>

allen == Len(mem)
Live == taken = None /\ ~failed
Larger(a, b) == IF a > b THEN a ELSE b

(* The cells from offset o on, k of them, wherever they are.               *)
CellsAt(o, k) == [i \in 1 .. k |-> IF o + i <= allen THEN mem[o + i] ELSE Outside]

---------------------------------------------------------------------------

(* p2sc_buffer_new; the size it is asked for does not matter when it is    *)
(* its own.                                                                *)
Init ==
    /\ own \in BOOLEAN
    /\ IF own THEN mem = [i \in 1 .. SIZBUF |-> Junk] /\ len = 0
              ELSE mem \in Given /\ len = Len(mem)
    /\ pos = 0
    /\ rewound = FALSE
    /\ got = None /\ taken = None
    /\ failed = FALSE

(* Mutant: the old bytes are not kept.                                     *)
GrownEmpty(n) == [i \in 1 .. Larger(n, 2 * allen) |-> Junk]

(* The memory after g_realloc, for a write that ends at n.                 *)
Grown(n) == [i \in 1 .. Larger(n, 2 * allen) |-> IF i <= allen THEN mem[i] ELSE Junk]

(* m with the bytes of s at offset pos.                                    *)
Copied(m, s) == [i \in 1 .. Len(m) |->
                    IF i \in pos + 1 .. pos + Len(s) THEN s[i - pos] ELSE m[i]]

(* The caller that keeps the order puts bytes only into its own buffer.     *)
MayWrite == Ordered => own /\ ~rewound

Write(s) ==
    /\ Live /\ MayWrite
    /\ len + Len(s) <= Limit
    /\ pos + Len(s) <= allen \/ own
    /\ mem' = Copied(IF pos + Len(s) > allen THEN Grown(pos + Len(s)) ELSE mem, s)
    /\ pos' = pos + Len(s)
    /\ len' = len + Len(s)
    /\ UNCHANGED <<own, rewound, got, taken, failed>>

(* What does not fit into memory of the caller ends the process.            *)
WriteFatal(s) ==
    /\ Live
    /\ len + Len(s) <= Limit
    /\ pos + Len(s) > allen /\ ~own
    /\ failed' = TRUE
    /\ UNCHANGED <<own, mem, len, pos, rewound, got, taken>>

(* Mutants: the comparison lets one cell too many through; the address is  *)
(* taken after the position has moved.                                     *)
ReadPast(k) ==
    /\ Live
    /\ pos + k <= len + 1
    /\ got' = CellsAt(pos, k)
    /\ pos' = pos + k
    /\ UNCHANGED <<own, mem, len, rewound, taken, failed>>

ReadAfter(k) ==
    /\ Live
    /\ pos + k <= len
    /\ got' = CellsAt(pos + k, k)
    /\ pos' = pos + k
    /\ UNCHANGED <<own, mem, len, rewound, taken, failed>>

Read(k) ==
    /\ Live
    /\ pos + k <= len
    /\ got' = CellsAt(pos, k)
    /\ pos' = pos + k
    /\ UNCHANGED <<own, mem, len, rewound, taken, failed>>

(* Not so much left: NULL.                                                 *)
ReadNull(k) ==
    /\ Live
    /\ pos + k > len
    /\ got' = None
    /\ UNCHANGED <<own, mem, len, pos, rewound, taken, failed>>

Rewind ==
    /\ Live
    /\ pos' = 0
    /\ rewound' = TRUE
    /\ UNCHANGED <<own, mem, len, got, taken, failed>>

(* Mutant: the memory is not cut to the length.                            *)
DelWhole(preserve) ==
    /\ Live
    /\ own => preserve
    /\ taken' = mem
    /\ UNCHANGED <<own, mem, len, pos, rewound, got, failed>>

(* p2sc_buffer_del: the memory, cut to the length when it is its own. (Own *)
(* memory that is not to be preserved is freed, and nothing is left to     *)
(* take.)                                                                  *)
Del(preserve) ==
    /\ Live
    /\ own => preserve
    /\ taken' = IF own THEN CellsAt(0, len) ELSE mem
    /\ UNCHANGED <<own, mem, len, pos, rewound, got, failed>>

Ended == ~Live /\ UNCHANGED vars

Next ==
    \/ \E s \in Chunk : Write(s) \/ WriteFatal(s)
    \/ \E k \in 0 .. Limit : Read(k) \/ ReadNull(k)
    \/ Rewind
    \/ \E preserve \in BOOLEAN : Del(preserve)
    \/ Ended

Spec == Init /\ [][Next]_vars

---------------------------------------------------------------------------
(* Properties.                                                             *)

Cell == Byte \cup {Junk, Outside}

TypeOK ==
    /\ own \in BOOLEAN /\ rewound \in BOOLEAN /\ failed \in BOOLEAN
    /\ mem \in Seq(Byte \cup {Junk})
    /\ len \in Nat /\ pos \in Nat
    /\ got \in Seq(Cell) \cup {None}
    /\ taken \in Seq(Cell) \cup {None}

(* What was written: the content of the buffer.                            *)
Content == SubSeq(mem, 1, len)

(* "Buffer out of bounds" (p2sc_buffer.c:79) is fatal: what a caller gets  *)
(* out of a buffer was put into it.                                        *)
InBounds ==
    /\ got # None => got \in Seq(Byte)
    /\ taken # None => taken \in Seq(Byte)

(* For the caller that keeps the order, the length is that of the content, *)
(* which has no holes, and the position is inside; while it writes the     *)
(* position is at the end.                                                 *)
Filled ==
    /\ len <= allen /\ pos <= len
    /\ Content \in Seq(Byte)
    /\ own /\ ~rewound => pos = len

(* A buffer is never more than twice as large as its content, or has its   *)
(* first size.                                                             *)
Thrifty == own => allen <= Larger(SIZBUF, 2 * len)

(* A read after another goes on where that ended, and returns what was     *)
(* written there. (After a rewind nothing has been read yet.)              *)
ReadsContent ==
    got # None /\ pos # 0 => got = SubSeq(Content, pos - Len(got) + 1, pos)

(* Whatever the order of the calls: memory the caller handed in keeps its  *)
(* size (p2sc_buffer.c:78): growing loses nothing, and a write changes only *)
(* the cells it is for.                                                    *)
GivenStays == [][~own => allen' = allen]_vars
Confined == [][\A i \in 1 .. allen : i \notin pos + 1 .. pos' => mem'[i] = mem[i]]_vars

(* For that caller the buffer is the log of ByteLog.                       *)
Log == INSTANCE ByteLog WITH log <- Content
ImplementsLog == Log!LogSpec
=============================================================================
