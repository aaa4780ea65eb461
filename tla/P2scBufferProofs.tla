-------------------------- MODULE P2scBufferProofs --------------------------
(***************************************************************************)
(* Proofs about P2scBuffer, for every size, byte and chunk. The induction  *)
(* is about a caller that keeps the order; the invariant then says that    *)
(* the length is that of what was written and that this has no holes.      *)
(***************************************************************************)
EXTENDS P2scBuffer, TLAPS

(* Filled, with what it takes to be inductive: the buffer around memory of *)
(* the caller is full from the start, and before the rewind nothing but    *)
(* the empty sequence is ever read.                                        *)
IInv ==
    /\ TypeOK
    /\ len <= allen /\ pos <= len
    /\ \A i \in 1 .. len : mem[i] \in Byte
    /\ own /\ ~rewound => pos = len
    /\ ~own => len = allen
    /\ own /\ ~rewound => got \in {None, <<>>}

---------------------------------------------------------------------------
(* Lemmas about the operators.                                             *)

(* A function on 1 .. n is a sequence of length n.                         *)
LEMMA FunctionIsSeq ==
    ASSUME NEW n \in Nat, NEW S, NEW f \in [1 .. n -> S]
    PROVE  f \in Seq(S) /\ Len(f) = n
  BY SMT

(* And the other way around.                                               *)
LEMMA SeqIsFunction ==
    ASSUME NEW S, NEW f \in Seq(S)
    PROVE  f \in [1 .. Len(f) -> S] /\ Len(f) \in Nat
  BY SMT

(* The grown memory holds n cells at least, the old ones first.            *)
LEMMA GrownKeeps ==
    ASSUME TypeOK, NEW n \in Nat, n > allen
    PROVE  /\ Grown(n) \in Seq(Byte \cup {Junk})
           /\ Len(Grown(n)) = Larger(n, 2 * allen)
           /\ \A i \in 1 .. allen : Grown(n)[i] = mem[i]
<1>1. allen \in Nat /\ mem \in [1 .. allen -> Byte \cup {Junk}]
  BY SeqIsFunction DEF TypeOK, allen
<1>2. Larger(n, 2 * allen) \in Nat /\ Larger(n, 2 * allen) >= n
  BY <1>1 DEF Larger
<1>3. Grown(n) \in [1 .. Larger(n, 2 * allen) -> Byte \cup {Junk}]
  BY <1>1, <1>2 DEF Grown
<1>4. \A i \in 1 .. allen : Grown(n)[i] = mem[i]
  BY <1>1, <1>2 DEF Grown
<1> QED BY <1>2, <1>3, <1>4, FunctionIsSeq

(* The copy has the size of the memory, s in its place and the rest as it  *)
(* was.                                                                    *)
LEMMA CopiedPuts ==
    ASSUME NEW S, NEW m \in Seq(S), NEW s \in Seq(S), pos \in Nat
    PROVE  /\ Copied(m, s) \in Seq(S)
           /\ Len(Copied(m, s)) = Len(m)
           /\ \A i \in 1 .. Len(m) :
                 Copied(m, s)[i] = IF i \in pos + 1 .. pos + Len(s) THEN s[i - pos] ELSE m[i]
<1>1. m \in [1 .. Len(m) -> S] /\ Len(m) \in Nat /\ s \in [1 .. Len(s) -> S] /\ Len(s) \in Nat
  BY SeqIsFunction
<1>2. \A i \in 1 .. Len(m) : i \in pos + 1 .. pos + Len(s) => i - pos \in 1 .. Len(s)
  BY <1>1
<1>3. Copied(m, s) \in [1 .. Len(m) -> S]
  BY <1>1, <1>2 DEF Copied
<1>4. \A i \in 1 .. Len(m) :
         Copied(m, s)[i] = IF i \in pos + 1 .. pos + Len(s) THEN s[i - pos] ELSE m[i]
  BY DEF Copied
<1> QED BY <1>1, <1>3, <1>4, FunctionIsSeq

(* k cells from inside of the content are bytes of it.                     *)
LEMMA CellsInside ==
    ASSUME IInv, NEW o \in Nat, NEW k \in Nat, o + k <= len
    PROVE  /\ CellsAt(o, k) \in Seq(Byte)
           /\ Len(CellsAt(o, k)) = k
           /\ CellsAt(o, k) = SubSeq(Content, o + 1, o + k)
<1>1. len \in Nat /\ allen \in Nat /\ len <= allen /\ mem \in Seq(Byte \cup {Junk})
  BY SeqIsFunction DEF IInv, TypeOK, allen
<1>2. \A i \in 1 .. k : o + i \in 1 .. len
  BY <1>1
<1>3. CellsAt(o, k) = [i \in 1 .. k |-> mem[o + i]]
  BY <1>1, <1>2 DEF CellsAt
<1>4. CellsAt(o, k) \in [1 .. k -> Byte]
  BY <1>2, <1>3 DEF IInv
<1>5. Content = [i \in 1 .. len |-> mem[i]]
  BY <1>1 DEF Content
<1>6. SubSeq(Content, o + 1, o + k) = [i \in 1 .. k |-> mem[o + i]]
  BY <1>1, <1>2, <1>5
<1> QED BY <1>3, <1>4, <1>6, FunctionIsSeq

(* A prefix without holes is made of bytes.                                *)
LEMMA PrefixIsBytes ==
    ASSUME NEW m \in Seq(Byte \cup {Junk}), NEW n \in Nat, \A i \in 1 .. n : m[i] \in Byte
    PROVE  /\ SubSeq(m, 1, n) \in Seq(Byte)
           /\ Len(SubSeq(m, 1, n)) = n
           /\ SubSeq(m, 1, n) = [i \in 1 .. n |-> m[i]]
<1>1. SubSeq(m, 1, n) = [i \in 1 .. n |-> m[i]]
  OBVIOUS
<1>2. SubSeq(m, 1, n) \in [1 .. n -> Byte]
  BY <1>1
<1> QED BY <1>1, <1>2, FunctionIsSeq

(* From behind n to n there is nothing.                                    *)
LEMMA EmptyRun ==
    ASSUME NEW S, NEW m \in Seq(S), NEW n \in Nat
    PROVE  SubSeq(m, n - 0 + 1, n) = <<>>
<1>1. SubSeq(m, n - 0 + 1, n) = [i \in 1 .. 0 |-> m[i + n]]
  OBVIOUS
<1>2. SubSeq(m, n - 0 + 1, n) \in [1 .. 0 -> S]
  BY <1>1
<1>3. Len(SubSeq(m, n - 0 + 1, n)) = 0 /\ SubSeq(m, n - 0 + 1, n) \in Seq(S)
  BY <1>2, FunctionIsSeq
<1> QED BY <1>3

(* The content is made of bytes and as long as the buffer says.            *)
LEMMA ContentIsBytes ==
    ASSUME IInv
    PROVE  /\ Content \in Seq(Byte)
           /\ Len(Content) = len
           /\ Content = [i \in 1 .. len |-> mem[i]]
  BY PrefixIsBytes DEF IInv, TypeOK, Content

(* And so it is after a step.                                              *)
LEMMA ContentIsBytesNext ==
    ASSUME IInv'
    PROVE  /\ Content' \in Seq(Byte)
           /\ Len(Content') = len'
           /\ Content' = [i \in 1 .. len' |-> mem'[i]]
  BY PrefixIsBytes DEF IInv, TypeOK, Content

(* What a write does to the memory: it is large enough, s is in its place  *)
(* and every other cell of before keeps its value.                         *)
LEMMA WriteMemory ==
    ASSUME TypeOK, NEW s \in Chunk, Write(s)
    PROVE  /\ mem' \in Seq(Byte \cup {Junk})
           /\ Len(s) \in Nat
           /\ allen' = IF pos + Len(s) > allen THEN Larger(pos + Len(s), 2 * allen) ELSE allen
           /\ allen' >= allen /\ allen' >= pos + Len(s)
           /\ \A i \in pos + 1 .. pos + Len(s) : mem'[i] = s[i - pos] /\ s[i - pos] \in Byte
           /\ \A i \in 1 .. allen : i \notin pos + 1 .. pos + Len(s) => mem'[i] = mem[i]
<1> DEFINE n == pos + Len(s)
           m == IF n > allen THEN Grown(n) ELSE mem
<1>1. s \in Seq(Byte) /\ s \in [1 .. Len(s) -> Byte] /\ Len(s) \in Nat
  BY ChunkAssumption, SeqIsFunction
<1>2. pos \in Nat /\ allen \in Nat /\ mem \in Seq(Byte \cup {Junk})
  BY SeqIsFunction DEF TypeOK, allen
<1>3. /\ m \in Seq(Byte \cup {Junk})
      /\ Len(m) = IF n > allen THEN Larger(n, 2 * allen) ELSE allen
      /\ \A i \in 1 .. allen : m[i] = mem[i]
  <2>1. CASE n > allen
    BY <1>1, <1>2, <2>1, GrownKeeps
  <2>2. CASE ~(n > allen)
    BY <1>2, <2>2 DEF allen
  <2> QED BY <2>1, <2>2
<1>4. Len(m) >= allen /\ Len(m) >= n
  BY <1>1, <1>2, <1>3 DEF Larger
<1>5. s \in Seq(Byte \cup {Junk})
  BY <1>1
<1>6. mem' = Copied(m, s)
  BY DEF Write
<1> HIDE DEF m
<1>7. /\ mem' \in Seq(Byte \cup {Junk})
      /\ Len(mem') = Len(m)
      /\ \A i \in 1 .. Len(m) :
            mem'[i] = IF i \in pos + 1 .. pos + Len(s) THEN s[i - pos] ELSE m[i]
  BY <1>2, <1>3, <1>5, <1>6, CopiedPuts
<1>8. \A i \in pos + 1 .. n : i \in 1 .. Len(m) /\ i - pos \in 1 .. Len(s)
  BY <1>1, <1>2, <1>3, <1>4
<1>9. \A i \in pos + 1 .. n : mem'[i] = s[i - pos] /\ s[i - pos] \in Byte
  BY <1>1, <1>7, <1>8
<1>10. \A i \in 1 .. allen : i \notin pos + 1 .. n => mem'[i] = mem[i]
  BY <1>2, <1>3, <1>4, <1>7
<1> QED BY <1>1, <1>3, <1>4, <1>7, <1>9, <1>10 DEF allen

(* Cells are cells, wherever they are.                                     *)
LEMMA CellsType ==
    ASSUME TypeOK, NEW o \in Nat, NEW k \in Nat
    PROVE  CellsAt(o, k) \in Seq(Cell)
<1>1. allen \in Nat /\ mem \in [1 .. allen -> Byte \cup {Junk}]
  BY SeqIsFunction DEF TypeOK, allen
<1>2. CellsAt(o, k) \in [1 .. k -> Cell]
  BY <1>1 DEF CellsAt, Cell
<1> QED BY <1>2, FunctionIsSeq

(* The memory of a new buffer that is its own.                             *)
LEMMA NewMemory ==
    /\ [i \in 1 .. SIZBUF |-> Junk] \in Seq(Byte \cup {Junk})
    /\ Len([i \in 1 .. SIZBUF |-> Junk]) = SIZBUF
<1>1. [i \in 1 .. SIZBUF |-> Junk] \in [1 .. SIZBUF -> Byte \cup {Junk}]
  OBVIOUS
<1> QED BY <1>1, SizeAssumption, FunctionIsSeq

---------------------------------------------------------------------------
(* Whatever the order of the calls.                                        *)

LEMMA InitType ==
    ASSUME Init
    PROVE  TypeOK
<1>1. mem \in Seq(Byte \cup {Junk}) /\ len \in Nat
  <2>1. CASE own
    <3>1. mem = [i \in 1 .. SIZBUF |-> Junk] /\ len = 0
      BY <2>1, Zenon DEF Init
    <3> QED BY <3>1, NewMemory
  <2>2. CASE ~own
    <3>1. mem \in Seq(Byte) /\ len = Len(mem)
      BY <2>2, ChunkAssumption DEF Init
    <3> QED BY <3>1, SeqIsFunction
  <2> QED BY <2>1, <2>2
<1> QED BY <1>1 DEF Init, TypeOK

LEMMA NextType ==
    ASSUME TypeOK, [Next]_vars
    PROVE  TypeOK'
<1>1. ASSUME NEW s \in Chunk, Write(s) PROVE TypeOK'
  <2>1. mem' \in Seq(Byte \cup {Junk}) /\ Len(s) \in Nat
    BY <1>1, WriteMemory
  <2> QED BY <1>1, <2>1 DEF TypeOK, Write, Cell
<1>2. ASSUME NEW s \in Chunk, WriteFatal(s) PROVE TypeOK'
  BY <1>2 DEF TypeOK, WriteFatal, Cell
<1>3. ASSUME NEW k \in 0 .. Limit, Read(k) PROVE TypeOK'
  <2>1. pos \in Nat /\ k \in Nat
    BY SizeAssumption DEF TypeOK
  <2>2. got' \in Seq(Cell) /\ pos' \in Nat
    BY <1>3, <2>1, CellsType DEF Read
  <2> QED BY <1>3, <2>2 DEF TypeOK, Read, Cell
<1>4. ASSUME NEW k \in 0 .. Limit, ReadNull(k) PROVE TypeOK'
  BY <1>4 DEF TypeOK, ReadNull, Cell
<1>5. CASE Rewind
  BY <1>5 DEF TypeOK, Rewind, Cell
<1>6. ASSUME NEW preserve \in BOOLEAN, Del(preserve) PROVE TypeOK'
  <2>1. taken' \in Seq(Cell)
    <3>1. CASE own
      BY <1>6, <3>1, CellsType DEF Del, TypeOK
    <3>2. CASE ~own
      BY <1>6, <3>2 DEF Del, TypeOK, Cell
    <3> QED BY <3>1, <3>2
  <2> QED BY <1>6, <2>1 DEF TypeOK, Del, Cell
<1>7. CASE Ended
  BY <1>7 DEF TypeOK, Ended, vars, Cell
<1>8. CASE UNCHANGED vars
  BY <1>8 DEF TypeOK, vars, Cell
<1> QED BY <1>1, <1>2, <1>3, <1>4, <1>5, <1>6, <1>7, <1>8 DEF Next

(* Every variable keeps its type through every sequence of calls.          *)
THEOREM TypeCorrect == Spec => []TypeOK
<1> QED BY InitType, NextType, PTL DEF Spec

(* Memory of the caller keeps its size: p2sc_buffer.c:78 ends the process  *)
(* before g_realloc is reached.                                            *)
THEOREM GivenAlwaysStays == Spec => GivenStays
<1>1. TypeOK /\ [Next]_vars => [~own => allen' = allen]_vars
  <2> SUFFICES ASSUME TypeOK, Next, ~own PROVE allen' = allen
    BY DEF vars
  <2>1. ASSUME NEW s \in Chunk, Write(s) PROVE allen' = allen
    <3>1. ~(pos + Len(s) > allen)
      <4>1. pos + Len(s) <= allen
        BY <2>1 DEF Write
      <4>2. pos \in Nat /\ Len(s) \in Nat /\ allen \in Nat
        BY <2>1, WriteMemory, SeqIsFunction DEF TypeOK, allen
      <4> QED BY <4>1, <4>2
    <3> QED BY <2>1, <3>1, WriteMemory
  <2>2. ASSUME mem' = mem PROVE allen' = allen
    BY <2>2 DEF allen
  <2> QED
    BY <2>1, <2>2 DEF Next, WriteFatal, Read, ReadNull, Rewind, Del, Ended, vars
<1> QED BY <1>1, TypeCorrect, PTL DEF Spec, GivenStays

(* A write changes the cells it is for and no other, also when the memory  *)
(* grows under it (p2sc_buffer.c:80-83).                                   *)
THEOREM WritesAreConfined == Spec => Confined
<1> DEFINE Kept == \A i \in 1 .. allen : i \notin pos + 1 .. pos' => mem'[i] = mem[i]
<1>1. TypeOK /\ [Next]_vars => [Kept]_vars
  <2> SUFFICES ASSUME TypeOK, Next PROVE Kept
    BY DEF vars
  <2>1. ASSUME NEW s \in Chunk, Write(s) PROVE Kept
    <3>1. pos' = pos + Len(s)
      BY <2>1 DEF Write
    <3> QED BY <2>1, <3>1, WriteMemory
  <2>2. ASSUME mem' = mem PROVE Kept
    BY <2>2
  <2> QED
    BY <2>1, <2>2 DEF Next, WriteFatal, Read, ReadNull, Rewind, Del, Ended, vars
<1> QED BY <1>1, TypeCorrect, PTL DEF Spec, Confined

---------------------------------------------------------------------------
(* For the caller that keeps the order.                                    *)

(* The memory after a write of that caller: the content is one longer run  *)
(* of bytes.                                                               *)
LEMMA WriteAppends ==
    ASSUME Ordered, IInv, NEW s \in Chunk, Write(s)
    PROVE  /\ own /\ ~rewound /\ pos = len
           /\ len' = len + Len(s) /\ pos' = len' /\ len' <= allen'
           /\ len' \in Nat /\ allen' \in Nat /\ len <= len'
           /\ \A i \in 1 .. len' : mem'[i] \in Byte
           /\ \A i \in 1 .. len : mem'[i] = mem[i]
<1>1. own /\ ~rewound /\ pos = len /\ len' = len + Len(s) /\ pos' = pos + Len(s)
  BY DEF Write, MayWrite, IInv
<1>2. TypeOK /\ len \in Nat /\ allen \in Nat /\ len <= allen
  BY SeqIsFunction DEF IInv, TypeOK, allen
<1>3. Len(s) \in Nat /\ allen' >= pos + Len(s) /\ allen' \in Nat
  BY <1>2, WriteMemory, SeqIsFunction DEF allen
<1>4. \A i \in 1 .. len : mem'[i] = mem[i]
  <2>1. \A i \in 1 .. len : i \in 1 .. allen /\ i \notin pos + 1 .. pos + Len(s)
    BY <1>1, <1>2, <1>3
  <2> QED BY <1>2, <2>1, WriteMemory
<1>5. \A i \in 1 .. len' : mem'[i] \in Byte
  <2>1. \A i \in 1 .. len' : i \in 1 .. len \/ i \in pos + 1 .. pos + Len(s)
    BY <1>1, <1>2, <1>3
  <2>2. \A i \in pos + 1 .. pos + Len(s) : mem'[i] \in Byte
    BY <1>2, WriteMemory
  <2> QED BY <1>4, <2>1, <2>2 DEF IInv
<1> QED BY <1>1, <1>2, <1>3, <1>4, <1>5

(* The invariant holds for every buffer the program starts with.           *)
LEMMA InitIInv ==
    ASSUME Init
    PROVE  IInv
<1>1. TypeOK /\ pos = 0 /\ got = None /\ rewound = FALSE
  <2>1. TypeOK
    BY InitType
  <2> QED BY <2>1 DEF Init
<1>2. CASE own
  <2>1. mem = [i \in 1 .. SIZBUF |-> Junk] /\ len = 0
    BY <1>2, Zenon DEF Init
  <2>2. len <= allen /\ \A i \in 1 .. len : mem[i] \in Byte
    BY <2>1, NewMemory, SizeAssumption DEF allen
  <2> QED BY <1>1, <1>2, <2>1, <2>2 DEF IInv
<1>3. CASE ~own
  <2>1. mem \in Seq(Byte) /\ len = allen
    BY <1>3, ChunkAssumption DEF Init, allen
  <2>2. len \in Nat /\ \A i \in 1 .. len : mem[i] \in Byte
    BY <2>1, SeqIsFunction DEF allen
  <2> QED BY <1>1, <1>3, <2>1, <2>2 DEF IInv
<1> QED BY <1>2, <1>3

(* And every call of that caller preserves it.                             *)
LEMMA NextIInv ==
    ASSUME Ordered, IInv, [Next]_vars
    PROVE  IInv'
<1>1. TypeOK'
  BY NextType DEF IInv
<1>2. len \in Nat /\ pos \in Nat /\ allen \in Nat
  BY SeqIsFunction DEF IInv, TypeOK, allen
<1>3. ASSUME NEW s \in Chunk, Write(s) PROVE IInv'
  <2>1. got' = got /\ own' = own /\ rewound' = rewound
    BY <1>3 DEF Write
  <2> QED BY <1>1, <1>3, <2>1, WriteAppends DEF IInv
<1>4. ASSUME NEW k \in 0 .. Limit, Read(k) PROVE IInv'
  <2>1. k \in Nat /\ pos + k <= len /\ pos' = pos + k
    BY <1>4, SizeAssumption DEF Read
  <2>2. own /\ ~rewound => k = 0 /\ pos' = len
    BY <1>2, <2>1 DEF IInv
  <2>3. own /\ ~rewound => got' = <<>>
    <3>1. Len(got') = k /\ got' \in Seq(Byte)
      BY <1>2, <1>4, <2>1, CellsInside DEF Read
    <3> QED BY <2>2, <3>1
  <2>4. allen' = allen /\ mem' = mem /\ len' = len /\ own' = own /\ rewound' = rewound
    BY <1>4 DEF Read, allen
  <2>5. pos' <= len
    BY <2>1
  <2> QED BY <1>1, <2>2, <2>3, <2>4, <2>5 DEF IInv
<1>5. ASSUME NEW k \in 0 .. Limit, ReadNull(k) PROVE IInv'
  BY <1>1, <1>5 DEF IInv, ReadNull, allen
<1>6. CASE Rewind
  BY <1>1, <1>2, <1>6 DEF IInv, Rewind, allen
<1>7. ASSUME UNCHANGED <<own, mem, len, pos, rewound, got>> PROVE IInv'
  BY <1>1, <1>7 DEF IInv, allen
<1> QED
  BY <1>3, <1>4, <1>5, <1>6, <1>7 DEF Next, WriteFatal, Del, Ended, vars

LEMMA IInvAlways ==
    ASSUME Ordered
    PROVE  Spec => []IInv
<1> QED BY InitIInv, NextIInv, PTL DEF Spec

(* The length of the buffer is that of its content, which has no holes.    *)
THEOREM FilledAlways ==
    ASSUME Ordered
    PROVE  Spec => []Filled
<1>1. IInv => Filled
  <2> SUFFICES ASSUME IInv PROVE Filled
    OBVIOUS
  <2>1. Content \in Seq(Byte)
    BY ContentIsBytes
  <2> QED BY <2>1 DEF IInv, Filled
<1> QED BY <1>1, IInvAlways, PTL

(* Memory is at most doubled beyond what is in it.                         *)
THEOREM ThriftyAlways ==
    ASSUME Ordered
    PROVE  Spec => []Thrifty
<1>1. Init => Thrifty
  <2> SUFFICES ASSUME Init, own PROVE allen = SIZBUF /\ len = 0
    BY SizeAssumption DEF Thrifty, Larger
  <2>1. mem = [i \in 1 .. SIZBUF |-> Junk] /\ len = 0
    BY Zenon DEF Init
  <2> QED BY <2>1, NewMemory DEF allen
<1>2. IInv /\ Thrifty /\ [Next]_vars => Thrifty'
  <2> SUFFICES ASSUME IInv, Thrifty, [Next]_vars PROVE Thrifty'
    OBVIOUS
  <2>1. len \in Nat /\ pos \in Nat /\ allen \in Nat /\ SIZBUF \in Nat
    BY SeqIsFunction, SizeAssumption DEF IInv, TypeOK, allen
  <2>2. ASSUME NEW s \in Chunk, Write(s) PROVE Thrifty'
    <3>1. own' = own /\ TypeOK
      BY <2>2 DEF Write, IInv
    <3>2. /\ own /\ len' = len + Len(s) /\ len' \in Nat /\ len' = pos + Len(s)
          /\ Len(s) \in Nat
          /\ allen' = IF len' > allen THEN Larger(len', 2 * allen) ELSE allen
      BY <2>2, <3>1, WriteAppends, WriteMemory
    <3>3. CASE len' > allen
      <4>1. Larger(len', 2 * allen) <= 2 * len'
        BY <2>1, <3>2, <3>3 DEF Larger
      <4> QED BY <2>1, <3>1, <3>2, <3>3, <4>1 DEF Thrifty, Larger
    <3>4. CASE ~(len' > allen)
      BY <2>1, <3>1, <3>2, <3>4 DEF Thrifty, Larger
    <3> QED BY <3>3, <3>4
  <2>3. ASSUME UNCHANGED <<own, mem, len>> PROVE Thrifty'
    BY <2>3 DEF Thrifty, allen
  <2> QED
    BY <2>2, <2>3 DEF Next, WriteFatal, Read, ReadNull, Rewind, Del, Ended, vars
<1> QED BY <1>1, <1>2, IInvAlways, PTL DEF Spec

(* What is read was written at that place, also after a write has moved    *)
(* the memory (p2sc_buffer.c:64-72, 81).                                   *)
THEOREM ReadsWhatWasWritten ==
    ASSUME Ordered
    PROVE  Spec => []ReadsContent
<1>1. Init => ReadsContent
  BY DEF Init, ReadsContent
<1>2. IInv /\ ReadsContent /\ [Next]_vars => ReadsContent'
  <2> SUFFICES ASSUME IInv, ReadsContent, [Next]_vars PROVE ReadsContent'
    OBVIOUS
  <2>1. len \in Nat /\ pos \in Nat /\ allen \in Nat
    BY SeqIsFunction DEF IInv, TypeOK, allen
  <2>2. ASSUME NEW s \in Chunk, Write(s) PROVE ReadsContent'
    <3>1. got' = got /\ got \in {None, <<>>}
      BY <2>2, WriteAppends DEF Write, IInv
    <3>2. pos' \in Nat /\ IInv'
      BY <2>2, WriteAppends, NextIInv
    <3>3. Content' \in Seq(Byte)
      BY <3>2, ContentIsBytesNext
    <3>4. SubSeq(Content', pos' - 0 + 1, pos') = <<>>
      BY <3>2, <3>3, EmptyRun
    <3>5. Len(<<>>) = 0
      OBVIOUS
    <3> QED BY <3>1, <3>4, <3>5 DEF ReadsContent
  <2>3. ASSUME NEW k \in 0 .. Limit, Read(k) PROVE ReadsContent'
    <3>1. k \in Nat /\ pos + k <= len /\ pos' = pos + k /\ got' = CellsAt(pos, k)
      BY <2>3, SizeAssumption DEF Read
    <3>2. Content' = Content
      BY <2>3 DEF Read, Content
    <3>3. got' = SubSeq(Content, pos + 1, pos + k) /\ Len(got') = k
      BY <2>1, <3>1, CellsInside
    <3>4. pos + 1 = pos' - Len(got') + 1
      BY <2>1, <3>1, <3>3
    <3> QED BY <3>1, <3>2, <3>3, <3>4 DEF ReadsContent
  <2>4. ASSUME NEW k \in 0 .. Limit, ReadNull(k) PROVE ReadsContent'
    BY <2>4 DEF ReadNull, ReadsContent
  <2>5. CASE Rewind
    BY <2>5 DEF Rewind, ReadsContent
  <2>6. ASSUME UNCHANGED <<mem, len, pos, got>> PROVE ReadsContent'
    BY <2>6 DEF ReadsContent, Content
  <2> QED BY <2>2, <2>3, <2>4, <2>5, <2>6 DEF Next, WriteFatal, Del, Ended, vars
<1> QED BY <1>1, <1>2, IInvAlways, PTL DEF Spec

(* The memory taken out is the content.                                    *)
LEMMA TakenIsContent ==
    ASSUME IInv, NEW preserve \in BOOLEAN, Del(preserve)
    PROVE  taken' = Content /\ taken' \in Seq(Byte)
<1>1. len \in Nat /\ mem \in [1 .. allen -> Byte \cup {Junk}] /\ Content \in Seq(Byte)
  BY SeqIsFunction, ContentIsBytes DEF IInv, TypeOK, allen
<1>2. Content = [i \in 1 .. len |-> mem[i]] /\ Len(Content) = len
  BY ContentIsBytes
<1>3. CASE own
  <2>1. taken' = SubSeq(Content, 0 + 1, 0 + len)
    BY <1>1, <1>3, CellsInside DEF Del, IInv
  <2> QED BY <1>1, <1>2, <2>1
<1>4. CASE ~own
  <2>1. taken' = mem /\ len = allen
    BY <1>4 DEF Del, IInv
  <2> QED BY <1>1, <1>2, <2>1
<1> QED BY <1>3, <1>4

(* Nothing but what was put in comes out.                                  *)
THEOREM AlwaysInBounds ==
    ASSUME Ordered
    PROVE  Spec => []InBounds
<1>1. Init => InBounds
  BY DEF Init, InBounds
<1>2. IInv /\ InBounds /\ [Next]_vars => InBounds'
  <2> SUFFICES ASSUME IInv, InBounds, [Next]_vars PROVE InBounds'
    OBVIOUS
  <2>1. ASSUME NEW k \in 0 .. Limit, Read(k) PROVE InBounds'
    <3>1. k \in Nat /\ pos \in Nat /\ pos + k <= len
      BY <2>1, SizeAssumption DEF Read, IInv, TypeOK
    <3>2. got' \in Seq(Byte) /\ taken' = taken
      BY <2>1, <3>1, CellsInside DEF Read
    <3> QED BY <3>2 DEF InBounds
  <2>2. ASSUME NEW k \in 0 .. Limit, ReadNull(k) PROVE InBounds'
    BY <2>2 DEF ReadNull, InBounds
  <2>3. ASSUME NEW preserve \in BOOLEAN, Del(preserve) PROVE InBounds'
    <3>1. got' = got
      BY <2>3 DEF Del
    <3> QED BY <2>3, <3>1, TakenIsContent DEF InBounds
  <2>4. ASSUME UNCHANGED <<got, taken>> PROVE InBounds'
    BY <2>4 DEF InBounds
  <2> QED
    BY <2>1, <2>2, <2>3, <2>4 DEF Next, Write, WriteFatal, Rewind, Ended, vars
<1> QED BY <1>1, <1>2, IInvAlways, PTL DEF Spec

(* For that caller the buffer implements the log: every call appends,      *)
(* takes everything or leaves the log as it is.                            *)
THEOREM BufferImplementsLog ==
    ASSUME Ordered
    PROVE  Spec => ImplementsLog
<1>1. Init => Log!Init
  <2> SUFFICES ASSUME Init PROVE Log!Init
    OBVIOUS
  <2>1. Content \in Seq(Byte)
    BY InitIInv, ContentIsBytes
  <2> QED BY <2>1 DEF Init, Log!Init
<1>2. IInv /\ [Next]_vars => [Log!Next]_<<Content, taken>>
  <2> SUFFICES ASSUME IInv, [Next]_vars PROVE [Log!Next]_<<Content, taken>>
    OBVIOUS
  <2>1. ASSUME NEW s \in Chunk, Write(s) PROVE Log!Put
    <3>1. taken = None /\ taken' = taken
      BY <2>1 DEF Write, Live
    <3>2. IInv'
      BY NextIInv
    <3>3. Content' \in Seq(Byte) /\ Len(Content') = len' /\ Content' = [i \in 1 .. len' |-> mem'[i]]
      BY <3>2, ContentIsBytesNext
    <3>4. Content \in Seq(Byte) /\ Len(Content) = len /\ Content = [i \in 1 .. len |-> mem[i]]
      BY ContentIsBytes
    <3>5. len' \in Nat /\ len \in Nat /\ len <= len' /\ \A i \in 1 .. len : mem'[i] = mem[i]
      BY <2>1, WriteAppends DEF IInv, TypeOK
    <3>6. SubSeq(Content', 1, Len(Content)) = [i \in 1 .. len |-> mem'[i]]
      BY <3>3, <3>4, <3>5
    <3>7. SubSeq(Content', 1, Len(Content)) = Content
      BY <3>4, <3>5, <3>6
    <3> QED BY <3>1, <3>3, <3>4, <3>5, <3>7 DEF Log!Put
  <2>2. ASSUME NEW preserve \in BOOLEAN, Del(preserve) PROVE Log!Take
    <3>1. taken' = Content /\ taken = None
      BY <2>2, TakenIsContent DEF Del, Live
    <3>2. Content' = Content
      BY <2>2 DEF Del, Content
    <3> QED BY <3>1, <3>2 DEF Log!Take
  <2>3. ASSUME UNCHANGED <<mem, len, taken>> PROVE UNCHANGED <<Content, taken>>
    BY <2>3 DEF Content
  <2> QED
    BY <2>1, <2>2, <2>3
    DEF Next, Log!Next, WriteFatal, Read, ReadNull, Rewind, Ended, vars
<1> QED BY <1>1, <1>2, IInvAlways, PTL DEF Spec, ImplementsLog, Log!LogSpec
=============================================================================
