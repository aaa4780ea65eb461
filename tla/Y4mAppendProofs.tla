-------------------------- MODULE Y4mAppendProofs --------------------------
(***************************************************************************)
(* Proofs about Y4mAppend, for any number of processes and failures.       *)
(***************************************************************************)
EXTENDS Y4mAppend, SequenceTheorems, FiniteSetTheorems, TLAPS

---------------------------------------------------------------------------
(* The inductive invariant.                                                *)

(* A process that has not opened the file is at its beginning; one that    *)
(* has, has made it.                                                       *)
Opened ==
    \A p \in Proc :
        /\ pc[p] \in {"access", "open"} => off[p] = 0
        /\ pc[p] \in {"put", "close", "exit 0"} => file # NoFile

(* Processes that take turns: the one that found no file still finds none  *)
(* when it opens it, and then stands at the end of what it writes.         *)
Turns ==
    serial =>
        /\ \A p, q \in Proc : pc[p] \in Started /\ pc[q] \in Started => p = q
        /\ \A p \in Proc : mode[p] = "wb" =>
              /\ pc[p] = "open" => file = NoFile
              /\ pc[p] \in {"put", "close"} => off[p] = Len(file)

IInv == TypeOK /\ Opened /\ Turns

---------------------------------------------------------------------------

LEMMA FrameType == \A p \in Proc : Frame(p) \in Seq(CellType) /\ Cell(p, "HEAD") \in CellType
<1> SUFFICES ASSUME NEW p \in Proc
             PROVE  Frame(p) \in Seq(CellType) /\ Cell(p, "HEAD") \in CellType
  OBVIOUS
<1>1. p \in Author
  BY DEF Author
<1>2. \A part \in {"HEAD", "FRAME", "Y", "U", "V"} : Cell(p, part) \in CellType
  BY <1>1 DEF Cell, CellType, CellOf
<1> QED BY <1>2 DEF Frame

LEMMA HoleType == Hole \in CellType
BY DEF Hole, CellType, CellOf, Author

(* What a write at an offset leaves: never less, and the cells before it.  *)
LEMMA WrittenAtType ==
    ASSUME file \in Seq(CellType), NEW o \in Nat, NEW cells \in Seq(CellType)
    PROVE  /\ WrittenAt(o, cells) \in Seq(CellType)
           /\ Len(WrittenAt(o, cells)) >= Len(file)
           /\ \A i \in 1 .. Len(file) : i <= o => WrittenAt(o, cells)[i] = file[i]
<1> DEFINE n == IF o + Len(cells) > Len(file) THEN o + Len(cells) ELSE Len(file)
<1>1. n \in Nat /\ n >= Len(file)
  OBVIOUS
<1>2. WrittenAt(o, cells) = [i \in 1 .. n |->
            IF i \in o + 1 .. o + Len(cells) THEN cells[i - o]
            ELSE IF i <= Len(file) THEN file[i] ELSE Hole]
  BY DEF WrittenAt
<1> HIDE DEF n
<1>3. ASSUME NEW i \in 1 .. n
      PROVE  (IF i \in o + 1 .. o + Len(cells) THEN cells[i - o]
              ELSE IF i <= Len(file) THEN file[i] ELSE Hole) \in CellType
  <2>1. CASE i \in o + 1 .. o + Len(cells)
    <3>1. i - o \in 1 .. Len(cells)
      BY <2>1
    <3> QED BY <2>1, <3>1
  <2>2. CASE i \notin o + 1 .. o + Len(cells) /\ i <= Len(file)
    BY <2>2
  <2>3. CASE i \notin o + 1 .. o + Len(cells) /\ ~(i <= Len(file))
    BY <2>3, HoleType
  <2> QED BY <2>1, <2>2, <2>3
<1>4. WrittenAt(o, cells) \in [1 .. n -> CellType]
  BY <1>2, <1>3
<1>5. WrittenAt(o, cells) \in Seq(CellType) /\ Len(WrittenAt(o, cells)) = n
  BY <1>1, <1>4
<1>6. \A i \in 1 .. Len(file) : i <= o => WrittenAt(o, cells)[i] = file[i]
  BY <1>1, <1>2
<1> QED BY <1>1, <1>5, <1>6

(* A write at the end of the file appends.                                 *)
LEMMA WrittenAtEnd ==
    ASSUME file \in Seq(CellType), NEW cells \in Seq(CellType)
    PROVE  /\ Len(WrittenAt(Len(file), cells)) = Len(file) + Len(cells)
           /\ WrittenAt(Len(file), cells) = file \o cells
<1> DEFINE n == Len(file) + Len(cells)
           w == WrittenAt(Len(file), cells)
<1>0. Len(file) \in Nat /\ Len(cells) \in Nat
  OBVIOUS
<1>1. n \in Nat /\ w \in Seq(CellType)
  <2>1. w \in Seq(CellType)
    <3> HIDE DEF w
    <3>1. WrittenAt(Len(file), cells) \in Seq(CellType)
      BY <1>0, WrittenAtType
    <3> QED BY <3>1 DEF w
  <2>2. n \in Nat
    BY <1>0
  <2> QED BY <2>1, <2>2
<1>2. w = [i \in 1 .. n |->
             IF i \in Len(file) + 1 .. n THEN cells[i - Len(file)]
             ELSE IF i <= Len(file) THEN file[i] ELSE Hole]
  <2>1. (IF n > Len(file) THEN n ELSE Len(file)) = n
    OBVIOUS
  <2> QED BY <2>1 DEF WrittenAt
<1>3. file \o cells \in Seq(CellType) /\ Len(file \o cells) = n
  OBVIOUS
<1> HIDE DEF n, w
<1>4. Len(w) = n
  BY <1>1, <1>2
<1>5. ASSUME NEW i \in 1 .. n PROVE w[i] = (file \o cells)[i]
  <2>1. CASE i <= Len(file)
    BY <1>2, <2>1 DEF n
  <2>2. CASE ~(i <= Len(file))
    BY <1>2, <2>2 DEF n
  <2> QED BY <2>1, <2>2
<1>6. w = file \o cells
  BY <1>1, <1>3, <1>4, <1>5
<1> QED BY <1>4, <1>6 DEF n, w

(* IsPrefix, as the steps use it.                                          *)
LEMMA Prefix ==
    ASSUME NEW S, NEW s \in Seq(S), NEW t \in Seq(S),
           Len(s) <= Len(t), \A i \in 1 .. Len(s) : t[i] = s[i]
    PROVE  IsPrefix(s, t)
BY DEF IsPrefix

LEMMA ExistingType == Existing \subseteq Seq(CellType) \cup {NoFile}
<1>1. CellOf(Author \ Proc) \subseteq CellType
  BY DEF CellOf, CellType
<1>2. \A S, T : S \subseteq T => Seq(S) \subseteq Seq(T)
  OBVIOUS
<1>3. Seq(CellOf(Author \ Proc)) \subseteq Seq(CellType)
  BY <1>1, <1>2
<1> QED BY <1>3, ExistingAssumption

LEMMA InvInit == Init => IInv
<1> SUFFICES ASSUME Init PROVE IInv
  OBVIOUS
<1>1. file \in Seq(CellType) \cup {NoFile}
  BY ExistingType DEF Init
<1>2. TypeOK
  BY <1>1, OrderAssumption DEF Init, TypeOK
<1>3. Opened /\ Turns
  BY DEF Init, Opened, Turns, Started
<1> QED BY <1>2, <1>3 DEF IInv

(* What one call of write(2) does to the file.                             *)
LEMMA FlushGrows ==
    ASSUME IInv, NEW p \in Proc, Flush(p)
    PROVE  \E k \in 1 .. Len(buf[p]) :
              /\ file \in Seq(CellType) /\ file' \in Seq(CellType)
              /\ off' = [off EXCEPT ![p] = @ + k]
              /\ buf' = [buf EXCEPT ![p] = SubSeq(@, k + 1, Len(@))]
              /\ mode[p] = "ab" \/ off[p] = Len(file) =>
                    file' = file \o SubSeq(buf[p], 1, k) /\ IsPrefix(file, file')
              /\ mode[p] = "wb" /\ off[p] = Len(file) => Len(file') = off[p] + k
<1>1. PICK k \in 1 .. Len(buf[p]) :
         /\ file' = IF mode[p] = "ab" THEN file \o SubSeq(buf[p], 1, k)
                    ELSE WrittenAt(off[p], SubSeq(buf[p], 1, k))
         /\ off' = [off EXCEPT ![p] = @ + k]
         /\ buf' = [buf EXCEPT ![p] = SubSeq(@, k + 1, Len(@))]
  BY DEF Flush
<1> DEFINE cells == SubSeq(buf[p], 1, k)
<1>2. /\ file \in Seq(CellType) /\ buf[p] \in Seq(CellType) /\ off[p] \in Nat
      /\ mode[p] \in {"wb", "ab"}
  BY DEF IInv, TypeOK, Opened, Flush
<1>3. cells \in Seq(CellType) /\ Len(cells) = k /\ k \in Nat
  BY <1>2
<1>c. cells = SubSeq(buf[p], 1, k)
  OBVIOUS
<1>f. file' = IF mode[p] = "ab" THEN file \o cells ELSE WrittenAt(off[p], cells)
  BY <1>1
<1> HIDE DEF cells
<1>4. CASE mode[p] = "ab"
  <2>1. file' = file \o cells
    BY <1>4, <1>f
  <2>2. /\ file' \in Seq(CellType) /\ Len(file) <= Len(file')
        /\ \A i \in 1 .. Len(file) : file'[i] = file[i]
    BY <2>1, <1>2, <1>3
  <2>3. IsPrefix(file, file')
    BY <2>2, <1>2, Prefix
  <2> QED BY <1>1, <1>2, <1>4, <1>c, <2>1, <2>2, <2>3
<1>5. CASE mode[p] = "wb"
  <2>1. file' = WrittenAt(off[p], cells)
    BY <1>5, <1>f
  <2>2. /\ file' \in Seq(CellType) /\ Len(file) <= Len(file')
        /\ \A i \in 1 .. Len(file) : i <= off[p] => file'[i] = file[i]
    BY <2>1, <1>2, <1>3, WrittenAtType
  <2>3. ASSUME off[p] = Len(file) PROVE IsPrefix(file, file')
    <3>1. \A i \in 1 .. Len(file) : file'[i] = file[i]
      BY <2>2, <2>3, <1>2
    <3> QED BY <2>2, <3>1, <1>2, Prefix
  <2>4. ASSUME off[p] = Len(file) PROVE Len(file') = off[p] + k /\ file' = file \o cells
    BY <2>1, <2>4, <1>2, <1>3, WrittenAtEnd
  <2> QED BY <1>1, <1>2, <1>3, <1>5, <1>c, <2>2, <2>3, <2>4
<1> QED BY <1>2, <1>4, <1>5

LEMMA InvNext ==
    ASSUME IInv, [Next]_vars
    PROVE  IInv'
<1>t. TypeOK /\ Opened /\ Turns
  BY DEF IInv
<1>1. ASSUME NEW p \in Proc, Access(p) PROVE IInv'
  <2>1. /\ pc[p] = "access" /\ pc' = [pc EXCEPT ![p] = "open"]
        /\ mode' = [mode EXCEPT ![p] = IF file = NoFile THEN "wb" ELSE "ab"]
        /\ serial => \A q \in Proc : pc[q] \notin Started
        /\ UNCHANGED <<off, buf, file, serial>>
    BY <1>1 DEF Access, Goto
  <2>2. TypeOK'
    BY <2>1, <1>t DEF TypeOK, Started, Stopped
  <2>3. Opened'
    BY <2>1, <1>t DEF Opened, TypeOK
  <2>4. Turns'
    <3> SUFFICES ASSUME serial
                 PROVE  /\ \A q, r \in Proc : pc'[q] \in Started /\ pc'[r] \in Started => q = r
                        /\ \A q \in Proc : mode'[q] = "wb" =>
                              /\ pc'[q] = "open" => file' = NoFile
                              /\ pc'[q] \in {"put", "close"} => off'[q] = Len(file')
      BY <2>1 DEF Turns
    <3>1. \A q \in Proc : q # p => pc'[q] = pc[q] /\ pc[q] \notin Started
      BY <2>1, <1>t DEF TypeOK
    <3>2. pc'[p] = "open" /\ (mode'[p] = "wb" => file' = NoFile)
      BY <2>1, <1>t DEF TypeOK
    <3> QED BY <3>1, <3>2 DEF Started
  <2> QED BY <2>2, <2>3, <2>4 DEF IInv
<1>2. ASSUME NEW p \in Proc, Open(p) PROVE IInv'
  <2>1. /\ pc[p] = "open" /\ pc' = [pc EXCEPT ![p] = "put"]
        /\ file' = IF mode[p] = "wb" \/ file = NoFile THEN <<>> ELSE file
        /\ buf' = [buf EXCEPT ![p] = IF mode[p] = "wb" THEN <<Cell(p, "HEAD")>> ELSE <<>>]
        /\ UNCHANGED <<mode, off, serial>>
    BY <1>2 DEF Open, Goto
  <2>2. file' \in Seq(CellType)
    BY <2>1, <1>t DEF TypeOK
  <2>3. <<Cell(p, "HEAD")>> \in Seq(CellType)
    BY FrameType
  <2>4. TypeOK'
    <3>1. buf' \in [Proc -> Seq(CellType)]
      BY <2>1, <2>3, <1>t DEF TypeOK
    <3>2. pc' \in [Proc -> {"access"} \cup Started \cup Stopped]
      BY <2>1, <1>t DEF TypeOK, Started
    <3> QED BY <2>1, <2>2, <3>1, <3>2, <1>t DEF TypeOK
  <2>5. Opened'
    BY <2>1, <2>2, <1>t, ExistingAssumption DEF Opened, TypeOK
  <2>6. Turns'
    <3> SUFFICES ASSUME serial
                 PROVE  /\ \A q, r \in Proc : pc'[q] \in Started /\ pc'[r] \in Started => q = r
                        /\ \A q \in Proc : mode'[q] = "wb" =>
                              /\ pc'[q] = "open" => file' = NoFile
                              /\ pc'[q] \in {"put", "close"} => off'[q] = Len(file')
      BY <2>1 DEF Turns
    <3>1. \A q \in Proc : q # p => pc'[q] = pc[q] /\ pc[q] \notin Started
      BY <2>1, <1>t DEF TypeOK, Turns, Started
    <3>2. off'[p] = 0 /\ (mode'[p] = "wb" => Len(file') = 0) /\ pc'[p] = "put"
      BY <2>1, <1>t DEF Opened, TypeOK
    <3> QED BY <3>1, <3>2 DEF Started
  <2> QED BY <2>4, <2>5, <2>6 DEF IInv
<1>3. ASSUME NEW p \in Proc, OpenError(p) \/ WriteError(p) \/ CloseError(p) \/ Close(p) \/ Kill(p)
      PROVE  IInv'
  <2>1. /\ pc' = [pc EXCEPT ![p] = pc'[p]] /\ pc'[p] \in Stopped
        /\ pc'[p] = "exit 0" => pc[p] = "close"
        /\ buf' \in {buf, [buf EXCEPT ![p] = <<>>]}
        /\ UNCHANGED <<mode, off, file, serial>>
    BY <1>3, <1>t DEF OpenError, WriteError, CloseError, Close, Kill, Goto, Stopped, TypeOK
  <2>2. TypeOK'
    <3>1. buf' \in [Proc -> Seq(CellType)]
      <4>1. [buf EXCEPT ![p] = <<>>] \in [Proc -> Seq(CellType)]
        BY <1>t DEF TypeOK
      <4> QED BY <2>1, <4>1, <1>t DEF TypeOK
    <3>2. pc' \in [Proc -> {"access"} \cup Started \cup Stopped]
      BY <2>1, <1>t DEF TypeOK
    <3> QED BY <2>1, <3>1, <3>2, <1>t DEF TypeOK
  <2>3. Opened'
    BY <2>1, <1>t DEF Opened, TypeOK, Stopped
  <2>4. Turns'
    <3> SUFFICES ASSUME serial
                 PROVE  /\ \A q, r \in Proc : pc'[q] \in Started /\ pc'[r] \in Started => q = r
                        /\ \A q \in Proc : mode'[q] = "wb" =>
                              /\ pc'[q] = "open" => file' = NoFile
                              /\ pc'[q] \in {"put", "close"} => off'[q] = Len(file')
      BY <2>1 DEF Turns
    <3>1. \A q \in Proc : q # p => pc'[q] = pc[q]
      BY <2>1, <1>t DEF TypeOK
    <3>2. pc'[p] \notin Started
      BY <2>1 DEF Started, Stopped
    <3> QED BY <2>1, <3>1, <3>2, <1>t DEF Turns, Started
  <2> QED BY <2>2, <2>3, <2>4 DEF IInv
<1>4. ASSUME NEW p \in Proc, Put(p) PROVE IInv'
  <2>1. /\ pc[p] = "put" /\ pc' = [pc EXCEPT ![p] = "close"]
        /\ buf' = [buf EXCEPT ![p] = @ \o Frame(p)]
        /\ UNCHANGED <<mode, off, file, serial>>
    BY <1>4 DEF Put, Goto
  <2>2. buf[p] \o Frame(p) \in Seq(CellType)
    BY <1>t, FrameType DEF TypeOK
  <2>3. TypeOK'
    BY <2>1, <2>2, <1>t DEF TypeOK, Started, Stopped
  <2>4. Opened'
    BY <2>1, <1>t DEF Opened, TypeOK
  <2>5. Turns'
    BY <2>1, <1>t DEF Turns, TypeOK, Started
  <2> QED BY <2>3, <2>4, <2>5 DEF IInv
<1>5. ASSUME NEW p \in Proc, Flush(p) PROVE IInv'
  <2>1. pc[p] = "close" /\ UNCHANGED <<pc, mode, serial>>
    BY <1>5 DEF Flush
  <2>2. PICK k \in 1 .. Len(buf[p]) :
              /\ file \in Seq(CellType) /\ file' \in Seq(CellType)
              /\ off' = [off EXCEPT ![p] = @ + k]
              /\ buf' = [buf EXCEPT ![p] = SubSeq(@, k + 1, Len(@))]
              /\ mode[p] = "wb" /\ off[p] = Len(file) => Len(file') = off[p] + k
    BY <1>5, FlushGrows
  <2>3. /\ buf[p] \in Seq(CellType) /\ off[p] \in Nat /\ k \in Nat
        /\ SubSeq(buf[p], k + 1, Len(buf[p])) \in Seq(CellType)
    BY <2>2, <1>t DEF TypeOK
  <2>4. TypeOK'
    BY <2>1, <2>2, <2>3, <1>t DEF TypeOK
  <2>5. Opened'
    <3>1. file' # NoFile
      BY <2>2, ExistingAssumption
    <3>2. \A q \in Proc : q # p => off'[q] = off[q]
      BY <2>2, <1>t DEF TypeOK
    <3> QED BY <2>1, <3>1, <3>2, <1>t DEF Opened
  <2>6. Turns'
    <3> SUFFICES ASSUME serial
                 PROVE  /\ \A q, r \in Proc : pc'[q] \in Started /\ pc'[r] \in Started => q = r
                        /\ \A q \in Proc : mode'[q] = "wb" =>
                              /\ pc'[q] = "open" => file' = NoFile
                              /\ pc'[q] \in {"put", "close"} => off'[q] = Len(file')
      BY <2>1 DEF Turns
    <3>1. \A q \in Proc : q # p => pc[q] \notin Started
      BY <2>1, <1>t DEF Turns, Started
    <3>2. mode[p] = "wb" => off'[p] = Len(file')
      BY <2>1, <2>2, <1>t DEF Turns, TypeOK
    <3> QED BY <2>1, <3>1, <3>2, <1>t DEF Turns, Started
  <2> QED BY <2>4, <2>5, <2>6 DEF IInv
<1>6. CASE UNCHANGED vars
  BY <1>6, <1>t DEF vars, IInv, TypeOK, Opened, Turns
<1> QED
  BY <1>1, <1>2, <1>3, <1>4, <1>5, <1>6 DEF Next, AllStopped

LEMMA Invariance == Spec => []IInv
<1>1. Init => IInv
  BY InvInit
<1>2. IInv /\ [Next]_vars => IInv'
  BY InvNext
<1> QED BY <1>1, <1>2, PTL DEF Spec

---------------------------------------------------------------------------
(* The theorems.                                                           *)

(* The variables keep their types, the offsets and buffers of processes    *)
(* that failed or were killed too.                                         *)
THEOREM TypeCorrect == Spec => []TypeOK
<1>1. IInv => TypeOK
  BY DEF IInv
<1> QED BY <1>1, Invariance, PTL

LEMMA StepGrows ==
    ASSUME IInv, [Next]_vars, Safe, file # NoFile
    PROVE  file' # NoFile /\ IsPrefix(file, file')
<1>1. file \in Seq(CellType)
  BY DEF IInv, TypeOK
<1>2. CASE file' = file
  <2>1. IsPrefix(file, file)
    BY <1>1, Prefix
  <2> QED BY <1>2, <2>1
<1>3. ASSUME NEW p \in Proc, Open(p) PROVE file' = file
  <2>1. mode[p] # "wb"
    <3>1. pc[p] = "open"
      BY <1>3 DEF Open, Goto
    <3> QED BY <3>1 DEF IInv, Turns, Safe
  <2> QED BY <1>3, <2>1 DEF Open
<1>4. ASSUME NEW p \in Proc, Flush(p) PROVE file' # NoFile /\ IsPrefix(file, file')
  <2>1. mode[p] = "ab" \/ off[p] = Len(file)
    <3>1. pc[p] = "close" /\ mode[p] \in {"wb", "ab"}
      BY <1>4 DEF Flush, IInv, TypeOK
    <3> QED BY <3>1 DEF IInv, Turns, Safe
  <2>2. file' \in Seq(CellType) /\ IsPrefix(file, file')
    BY <1>4, <2>1, FlushGrows
  <2> QED BY <2>2, ExistingAssumption
<1> QED
  BY <1>2, <1>3, <1>4 DEF Next, AllStopped, Access, OpenError, Put, WriteError, CloseError, Close,
     Kill, vars

(* Any number of processes that append to a file that is there, or that    *)
(* take turns, take nothing away from it, whichever of them fail.          *)
THEOREM GrowsOnly == Spec => OnlyGrows
<1>1. IInv /\ [Next]_vars
         => [Safe /\ file # NoFile => file' # NoFile /\ IsPrefix(file, file')]_vars
  BY StepGrows
<1> QED BY <1>1, Invariance, PTL DEF Spec, OnlyGrows

---------------------------------------------------------------------------
(* The order of what a process writes.                                     *)

(* All the cells a process has to write, in their order.                   *)
All(m, p) ==
    IF m = "wb"
    THEN <<Cell(p, "HEAD"), Cell(p, "FRAME"), Cell(p, "Y"), Cell(p, "U"), Cell(p, "V")>>
    ELSE <<Cell(p, "FRAME"), Cell(p, "Y"), Cell(p, "U"), Cell(p, "V")>>

Nothing(f, p) == f # NoFile => \A i \in DOMAIN f : f[i].by # p

(* The first n cells of w, and no others of them, are in f, in their order.*)
Has(f, w, n) ==
    \A j \in 1 .. Len(w) :
        /\ \A i, h \in Places(f, w[j]) : i = h
        /\ j <= n => Places(f, w[j]) # {}
        /\ j > n => Places(f, w[j]) = {}
        /\ j > 1 => \A i \in Places(f, w[j]) : \E h \in Places(f, w[j - 1]) : h < i

(* The others are in the buffer, when the frame has been put there.        *)
Own(p) ==
    LET w == All(mode[p], p)
    IN  /\ pc[p] \in {"access", "open", "put"} => Nothing(file, p)
        /\ pc[p] = "put" => buf[p] = SubSeq(w, 1, Len(w) - 4)
        /\ pc[p] = "close" =>
              \E n \in 0 .. Len(w) : Has(file, w, n) /\ buf[p] = SubSeq(w, n + 1, Len(w))
        /\ pc[p] \in Stopped =>
              \E n \in 0 .. Len(w) : Has(file, w, n) /\ (pc[p] = "exit 0" => n = Len(w))

Ordered ==
    /\ \A p \in Proc : pc[p] = "access" => mode[p] = "ab"
    /\ Safe => \A p \in Proc : Own(p)

LEMMA FiveCells ==
    ASSUME NEW S, NEW first \in Seq(S), NEW rest \in Seq(S), NEW whole \in Seq(S),
           Len(first) = 1, Len(rest) = 4, Len(whole) = 5,
           first[1] = whole[1], \A k \in 1 .. 4 : rest[k] = whole[1 + k]
    PROVE  first \o rest = whole
<1>1. first \o rest \in Seq(S) /\ Len(first \o rest) = Len(first) + Len(rest)
  BY ConcatProperties
<1>2. \A k \in 1 .. Len(first) + Len(rest) :
         (first \o rest)[k] = IF k <= Len(first) THEN first[k] ELSE rest[k - Len(first)]
  BY ConcatProperties
<1>3. Len(first) + Len(rest) = 5
  OBVIOUS
<1>4. ASSUME NEW k \in 1 .. 5 PROVE (first \o rest)[k] = whole[k]
  <2>1. CASE k = 1
    BY <2>1, <1>2, <1>3
  <2>2. CASE k # 1
    <3>1. k - 1 \in 1 .. 4 /\ 1 + (k - 1) = k /\ ~(k <= 1)
      BY <2>2
    <3>2. (first \o rest)[k] = rest[k - 1]
      BY <3>1, <1>2, <1>3
    <3>3. rest[k - 1] = whole[1 + (k - 1)]
      BY <3>1
    <3> QED BY <3>1, <3>2, <3>3
  <2> QED BY <2>1, <2>2
<1> QED BY <1>1, <1>3, <1>4, SeqEqual

LEMMA AllCells ==
    ASSUME NEW p \in Proc, NEW m
    PROVE  LET w == All(m, p)
           IN  /\ w \in Seq(CellType) /\ Len(w) \in {4, 5}
               /\ \A i \in 1 .. Len(w) : w[i].by = p
               /\ \A i, j \in 1 .. Len(w) : w[i] = w[j] => i = j
               /\ \A k \in 1 .. 4 : w[Len(w) - 4 + k] = Frame(p)[k]
               /\ m = "wb" => SubSeq(w, 1, Len(w) - 4) = <<Cell(p, "HEAD")>>
               /\ m # "wb" => SubSeq(w, 1, Len(w) - 4) = <<>>
               /\ SubSeq(w, 1, Len(w) - 4) \o Frame(p) = w
<1> DEFINE w == All(m, p)
<1>1. \A part \in {"HEAD", "FRAME", "Y", "U", "V"} :
         /\ Cell(p, part) \in CellType
         /\ Cell(p, part).by = p /\ Cell(p, part).part = part
  <2>1. p \in Author
    BY DEF Author
  <2> QED BY <2>1 DEF Cell, CellType, CellOf
<1>2. Frame(p) = <<Cell(p, "FRAME"), Cell(p, "Y"), Cell(p, "U"), Cell(p, "V")>>
  BY DEF Frame
<1> HIDE DEF w
<1>3. CASE m = "wb"
  <2>1. w = <<Cell(p, "HEAD"), Cell(p, "FRAME"), Cell(p, "Y"), Cell(p, "U"), Cell(p, "V")>>
    BY <1>3 DEF All, w
  <2>2. w \in Seq(CellType) /\ Len(w) = 5 /\ Len(w) - 4 = 1
    BY <1>1, <2>1
  <2>3. \A i \in 1 .. 5 : w[i].by = p
    BY <1>1, <2>1
  <2>4. \A i, j \in 1 .. 5 : w[i] = w[j] => i = j
    <3>1. \A i, j \in 1 .. 5 : w[i].part = w[j].part => i = j
      BY <1>1, <2>1
    <3> QED BY <3>1
  <2>5. SubSeq(w, 1, 1) = <<Cell(p, "HEAD")>>
    <3> DEFINE s == SubSeq(w, 1, 1)
               h == <<Cell(p, "HEAD")>>
    <3>1. s \in Seq(CellType) /\ Len(s) = 1 /\ s[1] = w[1]
      BY <2>2
    <3>2. h \in Seq(CellType) /\ Len(h) = 1 /\ h[1] = w[1]
      BY <1>1, <2>1
    <3> HIDE DEF s, h
    <3>3. s = h
      BY <3>1, <3>2
    <3> QED BY <3>3 DEF s, h
  <2>6. SubSeq(w, 1, 1) \o Frame(p) = w
    <3> DEFINE s == SubSeq(w, 1, 1)
               f == Frame(p)
    <3>1. f \in Seq(CellType) /\ Len(f) = 4 /\ \A k \in 1 .. 4 : f[k] = w[1 + k]
      BY <1>1, <1>2, <2>1
    <3>2. s \in Seq(CellType) /\ Len(s) = 1 /\ s[1] = w[1]
      BY <2>2
    <3> HIDE DEF s, f
    <3>3. s \o f = w
      BY <3>1, <3>2, <2>2, FiveCells
    <3> QED BY <3>3 DEF s, f
  <2>7. \A k \in 1 .. 4 : w[1 + k] = Frame(p)[k]
    BY <2>1, <1>2
  <2> QED BY <1>3, <2>2, <2>3, <2>4, <2>5, <2>6, <2>7 DEF w
<1>4. CASE m # "wb"
  <2>1. w = Frame(p)
    BY <1>2, <1>4 DEF All, w
  <2>2. w \in Seq(CellType) /\ Len(w) = 4 /\ Len(w) - 4 = 0
    BY <1>1, <1>2, <2>1
  <2>3. \A i \in 1 .. 4 : w[i].by = p
    BY <1>1, <1>2, <2>1
  <2>4. \A i, j \in 1 .. 4 : w[i] = w[j] => i = j
    <3>1. \A i, j \in 1 .. 4 : w[i].part = w[j].part => i = j
      BY <1>1, <1>2, <2>1
    <3> QED BY <3>1
  <2>5. SubSeq(w, 1, 0) = <<>>
    BY <2>2
  <2>6. <<>> \o Frame(p) = w
    BY <2>1, <2>2
  <2>7. \A k \in 1 .. 4 : w[0 + k] = Frame(p)[k]
    BY <2>1
  <2> QED BY <1>4, <2>2, <2>3, <2>4, <2>5, <2>6, <2>7 DEF w
<1> QED BY <1>3, <1>4

LEMMA NothingHas ==
    ASSUME NEW p \in Proc, NEW m, NEW f, Nothing(f, p)
    PROVE  Has(f, All(m, p), 0)
<1> DEFINE w == All(m, p)
<1>1. ASSUME NEW j \in 1 .. Len(w) PROVE Places(f, w[j]) = {}
  <2>1. w[j].by = p
    BY AllCells
  <2> QED BY <2>1 DEF Nothing, Places
<1>2. ASSUME NEW j \in 1 .. Len(w) PROVE ~(j <= 0)
  BY AllCells
<1> QED BY <1>1, <1>2 DEF Has

(* Nobody starts the file anew, so nobody has.                             *)
LEMMA SafeBefore ==
    ASSUME IInv, Ordered, [Next]_vars, Safe'
    PROVE  Safe
<1>1. serial' = serial
  BY DEF Next, AllStopped, Access, Open, OpenError, Put, Flush, WriteError, CloseError, Close,
     Kill, vars
<1>2. CASE ~serial
  <2>1. \A q \in Proc : mode'[q] = "ab"
    BY <1>1, <1>2 DEF Safe
  <2>2. ASSUME NEW p \in Proc, Access(p) PROVE \A q \in Proc : mode[q] = "ab"
    BY <2>1, <2>2 DEF Access, Goto, Ordered, IInv, TypeOK
  <2>3. CASE mode' = mode
    BY <2>1, <2>3 DEF Safe
  <2> QED
    BY <2>2, <2>3 DEF Next, AllStopped, Open, OpenError, Put, Flush, WriteError, CloseError,
       Close, Kill, vars, Safe
<1> QED BY <1>2 DEF Safe

(* A file that keeps the places of the cells of p still has what it had.   *)
LEMMA HasStays ==
    ASSUME NEW p \in Proc, NEW m, NEW f, NEW g,
           \A c \in CellType : c.by = p => Places(g, c) = Places(f, c)
    PROVE  \A n : Has(f, All(m, p), n) => Has(g, All(m, p), n)
<1> DEFINE w == All(m, p)
<1>1. ASSUME NEW j \in 1 .. Len(w)
      PROVE  Places(g, w[j]) = Places(f, w[j]) /\ (j > 1 => Places(g, w[j - 1]) = Places(f, w[j - 1]))
  <2>1. j > 1 => j - 1 \in 1 .. Len(w)
    BY AllCells
  <2>2. \A i \in 1 .. Len(w) : w[i] \in CellType /\ w[i].by = p
    BY AllCells
  <2> HIDE DEF w
  <2> QED BY <2>1, <2>2
<1> QED BY <1>1 DEF Has

(* A process keeps its order while its cells keep their places.            *)
LEMMA OwnStays ==
    ASSUME NEW p \in Proc, Own(p),
           pc'[p] = pc[p], buf'[p] = buf[p], mode'[p] = mode[p],
           Nothing(file, p) => Nothing(file', p),
           \A c \in CellType : c.by = p => Places(file', c) = Places(file, c)
    PROVE  Own(p)'
<1> DEFINE w == All(mode[p], p)
<1>1. \A n : Has(file, w, n) => Has(file', w, n)
  BY HasStays
<1> HIDE DEF w
<1> QED BY <1>1 DEF Own, w

(* Cells put at the end of the file take no places from others.            *)
LEMMA PlacesAfter ==
    ASSUME NEW f \in Seq(CellType), NEW cells \in Seq(CellType), NEW c \in CellType
    PROVE  /\ \A i \in Places(f \o cells, c) : \/ i \in Places(f, c)
                           \/ \E m \in 1 .. Len(cells) : cells[m] = c /\ i = Len(f) + m
           /\ \A i \in Places(f, c) : i \in Places(f \o cells, c)
           /\ \A m \in 1 .. Len(cells) : cells[m] = c => Len(f) + m \in Places(f \o cells, c)
<1> DEFINE g == f \o cells
<1>1. g \in Seq(CellType) /\ Len(g) = Len(f) + Len(cells)
  BY ConcatProperties
<1>2. \A i \in 1 .. Len(f) + Len(cells) : g[i] = IF i <= Len(f) THEN f[i] ELSE cells[i - Len(f)]
  BY ConcatProperties
<1> HIDE DEF g
<1>3. f # NoFile /\ g # NoFile
  BY <1>1, ExistingAssumption
<1>4. Places(f, c) = {i \in 1 .. Len(f) : f[i] = c} /\ Places(g, c) = {i \in 1 .. Len(g) : g[i] = c}
  BY <1>1, <1>3 DEF Places
<1>5. ASSUME NEW i \in Places(g, c)
      PROVE  \/ i \in Places(f, c)
             \/ \E m \in 1 .. Len(cells) : cells[m] = c /\ i = Len(f) + m
  <2>1. i \in 1 .. Len(f) + Len(cells) /\ g[i] = c
    BY <1>1, <1>4
  <2>2. CASE i <= Len(f)
    BY <2>1, <2>2, <1>2, <1>4
  <2>3. CASE ~(i <= Len(f))
    <3>1. i - Len(f) \in 1 .. Len(cells) /\ i = Len(f) + (i - Len(f))
      BY <2>1, <2>3
    <3>2. cells[i - Len(f)] = c
      BY <2>1, <2>3, <1>2
    <3> QED BY <3>1, <3>2
  <2> QED BY <2>2, <2>3
<1>6. ASSUME NEW i \in Places(f, c) PROVE i \in Places(g, c)
  <2>1. i \in 1 .. Len(f) /\ f[i] = c
    BY <1>4
  <2>2. i \in 1 .. Len(f) + Len(cells) /\ i <= Len(f)
    BY <2>1
  <2> QED BY <2>1, <2>2, <1>1, <1>2, <1>4
<1>7. ASSUME NEW m \in 1 .. Len(cells), cells[m] = c PROVE Len(f) + m \in Places(g, c)
  <2>1. /\ Len(f) + m \in 1 .. Len(f) + Len(cells) /\ ~(Len(f) + m <= Len(f))
        /\ (Len(f) + m) - Len(f) = m
    OBVIOUS
  <2>2. g[Len(f) + m] = cells[(Len(f) + m) - Len(f)]
    BY <2>1, <1>2
  <2> QED BY <2>1, <2>2, <1>1, <1>4, <1>7
<1>8. /\ \A i \in Places(g, c) : \/ i \in Places(f, c)
                      \/ \E m \in 1 .. Len(cells) : cells[m] = c /\ i = Len(f) + m
      /\ \A i \in Places(f, c) : i \in Places(g, c)
      /\ \A m \in 1 .. Len(cells) : cells[m] = c => Len(f) + m \in Places(g, c)
  BY <1>5, <1>6, <1>7
<1> QED BY <1>8 DEF g

(* The next cells of w, put at the end of a file that has n of them.       *)
LEMMA HasMore ==
    ASSUME NEW f \in Seq(CellType), NEW w \in Seq(CellType),
           \A i, j \in 1 .. Len(w) : w[i] = w[j] => i = j,
           NEW n \in 0 .. Len(w), NEW k \in 0 .. Len(w) - n, Has(f, w, n)
    PROVE  Has(f \o SubSeq(w, n + 1, n + k), w, n + k)
<1> DEFINE cells == SubSeq(w, n + 1, n + k)
           g == f \o cells
<1>1. cells \in Seq(CellType) /\ Len(cells) = k /\ \A m \in 1 .. k : cells[m] = w[n + m]
  OBVIOUS
<1> HIDE DEF cells
<1>2. ASSUME NEW j \in 1 .. Len(w)
      PROVE  /\ \A i \in Places(g, w[j]) : \/ i \in Places(f, w[j])
                             \/ \E m \in 1 .. k : cells[m] = w[j] /\ i = Len(f) + m
             /\ \A i \in Places(f, w[j]) : i \in Places(g, w[j])
             /\ \A m \in 1 .. k : cells[m] = w[j] => Len(f) + m \in Places(g, w[j])
  <2>1. w[j] \in CellType
    OBVIOUS
  <2>2. /\ \A i \in Places(g, w[j]) : \/ i \in Places(f, w[j])
                        \/ \E m \in 1 .. Len(cells) : cells[m] = w[j] /\ i = Len(f) + m
        /\ \A i \in Places(f, w[j]) : i \in Places(g, w[j])
        /\ \A m \in 1 .. Len(cells) : cells[m] = w[j] => Len(f) + m \in Places(g, w[j])
    BY <1>1, <2>1, PlacesAfter
  <2>3. Len(cells) = k
    BY <1>1
  <2> HIDE DEF g
  <2> QED BY <2>2, <2>3
<1> HIDE DEF g
<1>3. ASSUME NEW j \in 1 .. Len(w), j <= n PROVE Places(g, w[j]) = Places(f, w[j])
  <2>1. ASSUME NEW i \in 1 .. k PROVE cells[i] # w[j]
    <3>1. n + i \in 1 .. Len(w) /\ n + i # j
      BY <1>3
    <3> QED BY <3>1, <1>1
  <2> QED BY <2>1, <1>2
<1>4. ASSUME NEW j \in 1 .. Len(w), j > n, j <= n + k PROVE Places(g, w[j]) = {Len(f) + (j - n)}
  <2>1. Places(f, w[j]) = {}
    BY <1>4 DEF Has
  <2>2. j - n \in 1 .. k /\ n + (j - n) = j
    BY <1>4
  <2>3. cells[j - n] = w[j]
    <3>1. cells[j - n] = w[n + (j - n)]
      BY <2>2, <1>1
    <3> QED BY <3>1, <2>2
  <2>4. ASSUME NEW i \in 1 .. k, cells[i] = w[j] PROVE i = j - n
    <3>1. w[n + i] = w[j] /\ n + i \in 1 .. Len(w)
      BY <1>1, <2>4
    <3>2. n + i = j
      BY <3>1
    <3> QED BY <3>2
  <2>5. Len(f) + (j - n) \in Places(g, w[j])
    BY <2>2, <2>3, <1>2
  <2>6. ASSUME NEW i \in Places(g, w[j]) PROVE i = Len(f) + (j - n)
    <3>1. PICK m \in 1 .. k : cells[m] = w[j] /\ i = Len(f) + m
      BY <2>1, <1>2
    <3> QED BY <3>1, <2>4
  <2> QED BY <2>5, <2>6
<1>5. ASSUME NEW j \in 1 .. Len(w), j > n + k PROVE Places(g, w[j]) = {}
  <2>1. Places(f, w[j]) = {}
    <3>1. j > n
      BY <1>5
    <3> QED BY <3>1 DEF Has
  <2>2. ASSUME NEW i \in 1 .. k PROVE cells[i] # w[j]
    <3>1. n + i \in 1 .. Len(w) /\ n + i # j
      BY <1>5
    <3> QED BY <3>1, <1>1
  <2> QED BY <2>1, <2>2, <1>2
<1>6. ASSUME NEW j \in 1 .. Len(w)
      PROVE  /\ \A i, h \in Places(g, w[j]) : i = h
             /\ j <= n + k => Places(g, w[j]) # {}
             /\ j > n + k => Places(g, w[j]) = {}
             /\ j > 1 => \A i \in Places(g, w[j]) : \E h \in Places(g, w[j - 1]) : h < i
  <2>1. CASE j <= n
    <3>1. j > 1 => j - 1 \in 1 .. Len(w) /\ j - 1 <= n
      BY <2>1
    <3>2. Places(g, w[j]) = Places(f, w[j])
          /\ (j > 1 => Places(g, w[j - 1]) = Places(f, w[j - 1]))
      BY <2>1, <3>1, <1>3
    <3>3. ~(j > n + k)
      BY <2>1
    <3> QED BY <2>1, <3>2, <3>3 DEF Has
  <2>2. CASE j > n /\ j <= n + k
    <3>1. Places(g, w[j]) = {Len(f) + (j - n)}
      BY <2>2, <1>4
    <3>2. ASSUME j > 1, j - 1 <= n
          PROVE  \E h \in Places(g, w[j - 1]) : h < Len(f) + (j - n)
      <4>1. j - 1 \in 1 .. Len(w)
        BY <3>2
      <4>2. Places(g, w[j - 1]) = Places(f, w[j - 1]) /\ Places(f, w[j - 1]) # {}
        BY <4>1, <3>2, <1>3 DEF Has
      <4>3. PICK h \in Places(f, w[j - 1]) : TRUE
        BY <4>2
      <4>4. h \in 1 .. Len(f)
        BY <4>3, ExistingAssumption DEF Places
      <4> QED BY <2>2, <4>2, <4>3, <4>4
    <3>3. ASSUME j > 1, ~(j - 1 <= n)
          PROVE  \E h \in Places(g, w[j - 1]) : h < Len(f) + (j - n)
      <4>1. j - 1 \in 1 .. Len(w) /\ j - 1 > n /\ j - 1 <= n + k
        BY <2>2, <3>3
      <4>2. Places(g, w[j - 1]) = {Len(f) + ((j - 1) - n)}
        BY <4>1, <1>4
      <4> QED BY <4>2
    <3>4. ~(j > n + k)
      BY <2>2
    <3> QED BY <2>2, <3>1, <3>2, <3>3, <3>4
  <2>3. CASE j > n + k
    <3>1. Places(g, w[j]) = {}
      BY <2>3, <1>5
    <3>2. ~(j <= n + k)
      BY <2>3
    <3> QED BY <3>1, <3>2
  <2> QED BY <2>1, <2>2, <2>3
<1>7. Has(g, w, n + k)
  BY <1>6 DEF Has
<1> QED BY <1>7 DEF g, cells

LEMMA OrderedInit == Init => Ordered
<1> SUFFICES ASSUME Init PROVE Ordered
  OBVIOUS
<1>1. ASSUME NEW p \in Proc PROVE Nothing(file, p)
  <2> SUFFICES ASSUME file # NoFile, NEW i \in DOMAIN file PROVE file[i].by # p
    BY DEF Nothing
  <2>1. file \in Seq(CellOf(Author \ Proc))
    BY ExistingAssumption DEF Init
  <2>2. file[i] \in CellOf(Author \ Proc)
    BY <2>1
  <2> QED BY <2>2 DEF CellOf
<1>2. ASSUME NEW p \in Proc PROVE Own(p)
  BY <1>1 DEF Init, Own, Stopped
<1> QED BY <1>2 DEF Init, Ordered

(* The cells that wait go to the end of the file, and nowhere else.        *)
LEMMA FlushOrdered ==
    ASSUME IInv, Ordered, Safe, NEW p \in Proc, Flush(p), NEW q \in Proc
    PROVE  Own(q)'
<1> DEFINE w == All(mode[p], p)
<1>1. pc[p] = "close" /\ UNCHANGED <<pc, mode, serial>> /\ mode[p] \in {"wb", "ab"}
  BY DEF Flush, IInv, TypeOK
<1>2. mode[p] = "ab" \/ off[p] = Len(file)
  BY <1>1 DEF IInv, Turns, Safe
<1>3. PICK k \in 1 .. Len(buf[p]) :
         /\ file \in Seq(CellType)
         /\ buf' = [buf EXCEPT ![p] = SubSeq(@, k + 1, Len(@))]
         /\ file' = file \o SubSeq(buf[p], 1, k)
  BY <1>2, FlushGrows
<1>4. PICK n \in 0 .. Len(w) : Has(file, w, n) /\ buf[p] = SubSeq(w, n + 1, Len(w))
  BY <1>1 DEF Ordered, Own
<1>5. /\ w \in Seq(CellType) /\ Len(w) \in Nat
      /\ \A i, j \in 1 .. Len(w) : w[i] = w[j] => i = j
      /\ \A i \in 1 .. Len(w) : w[i].by = p
  BY AllCells
<1>m. mode'[p] = mode[p] /\ pc' = pc
  BY <1>1
<1> HIDE DEF w
<1>6. Len(buf[p]) = Len(w) - n /\ k \in 0 .. Len(w) - n
  BY <1>3, <1>4, <1>5
<1>7. SubSeq(buf[p], 1, k) = SubSeq(w, n + 1, n + k)
  BY <1>4, <1>5, <1>6
<1>8. SubSeq(buf[p], k + 1, Len(buf[p])) = SubSeq(w, n + k + 1, Len(w))
  BY <1>4, <1>5, <1>6
<1>9. CASE q = p
  <2>1. Has(file', w, n + k)
    BY <1>3, <1>4, <1>5, <1>6, <1>7, HasMore
  <2>2. buf'[p] = SubSeq(w, (n + k) + 1, Len(w))
    BY <1>3, <1>8 DEF IInv, TypeOK
  <2>3. n + k \in 0 .. Len(w)
    BY <1>5, <1>6
  <2>4. w = All(mode'[p], p)
    BY <1>m DEF w
  <2>5. pc'[p] = "close"
    BY <1>1
  <2> QED BY <1>9, <2>1, <2>2, <2>3, <2>4, <2>5 DEF Own, Stopped
<1>10. CASE q # p
  <2> DEFINE cells == SubSeq(w, n + 1, n + k)
  <2>1. cells \in Seq(CellType) /\ \A i \in 1 .. Len(cells) : cells[i].by = p
    BY <1>5, <1>6
  <2>2. file' = file \o cells
    BY <1>3, <1>7
  <2> HIDE DEF cells
  <2>3. ASSUME NEW c \in CellType, c.by = q PROVE Places(file', c) = Places(file, c)
    <3>1. \A i \in 1 .. Len(cells) : cells[i] # c
      BY <2>1, <2>3, <1>10
    <3>2. Places(file \o cells, c) = Places(file, c)
      <4>1. /\ \A i \in Places(file \o cells, c) :
                  i \in Places(file, c) \/ \E m \in 1 .. Len(cells) : cells[m] = c
            /\ \A i \in Places(file, c) : i \in Places(file \o cells, c)
        BY <2>1, <1>3, PlacesAfter
      <4> QED BY <3>1, <4>1
    <3> QED BY <3>2, <2>2
  <2>4. Nothing(file, q) => Nothing(file', q)
    <3> SUFFICES ASSUME Nothing(file, q), NEW i \in DOMAIN (file \o cells)
                 PROVE  (file \o cells)[i].by # q
      BY <2>2 DEF Nothing
    <3>1. file \o cells \in Seq(CellType) /\ Len(file \o cells) = Len(file) + Len(cells)
      BY <1>3, <2>1, ConcatProperties
    <3>2. (file \o cells)[i] = IF i <= Len(file) THEN file[i] ELSE cells[i - Len(file)]
      BY <1>3, <2>1, <3>1, ConcatProperties
    <3>3. CASE i <= Len(file)
      <4>1. i \in DOMAIN file /\ file # NoFile
        BY <1>3, <3>1, <3>3, ExistingAssumption
      <4> QED BY <3>2, <3>3, <4>1 DEF Nothing
    <3>4. CASE ~(i <= Len(file))
      <4>1. i - Len(file) \in 1 .. Len(cells)
        BY <1>3, <2>1, <3>1, <3>4
      <4> QED BY <3>2, <3>4, <4>1, <2>1, <1>10
    <3> QED BY <3>3, <3>4
  <2>5. pc'[q] = pc[q] /\ mode'[q] = mode[q] /\ buf'[q] = buf[q] /\ Own(q)
    BY <1>1, <1>3, <1>10 DEF IInv, TypeOK, Ordered
  <2> QED BY <2>3, <2>4, <2>5, OwnStays
<1> QED BY <1>9, <1>10

(* The steps of a process that ends, well or not.                          *)
LEMMA EndOrdered ==
    ASSUME IInv, Ordered, Safe, NEW p \in Proc,
           OpenError(p) \/ WriteError(p) \/ CloseError(p) \/ Close(p) \/ Kill(p)
    PROVE  Own(p)'
<1> DEFINE w == All(mode[p], p)
<1>1. /\ pc[p] \in Started /\ pc'[p] \in Stopped /\ mode' = mode /\ file' = file
      /\ pc'[p] = "exit 0" => pc[p] = "close" /\ buf[p] = <<>>
  BY DEF OpenError, WriteError, CloseError, Close, Kill, Goto, Stopped, Started, IInv, TypeOK
<1>2. Own(p)
  BY DEF Ordered
<1>3. \E n \in 0 .. Len(w) : Has(file, w, n) /\ (pc'[p] = "exit 0" => n = Len(w))
  <2>1. CASE pc[p] = "close"
    <3>1. PICK n \in 0 .. Len(w) : Has(file, w, n) /\ buf[p] = SubSeq(w, n + 1, Len(w))
      BY <1>2, <2>1 DEF Own
    <3>2. w \in Seq(CellType) /\ Len(w) \in Nat
      BY AllCells
    <3> HIDE DEF w
    <3>3. ASSUME buf[p] = <<>> PROVE n = Len(w)
      <4>1. Len(SubSeq(w, n + 1, Len(w))) = Len(w) - n
        BY <3>2
      <4> QED BY <3>1, <3>2, <3>3, <4>1
    <3> QED BY <1>1, <3>1, <3>3
  <2>2. CASE pc[p] # "close"
    <3>1. Nothing(file, p) /\ pc'[p] # "exit 0"
      BY <1>1, <1>2, <2>2 DEF Own, Started
    <3>2. Has(file, w, 0)
      BY <3>1, NothingHas
    <3>3. 0 \in 0 .. Len(w)
      BY AllCells
    <3> QED BY <3>1, <3>2, <3>3
  <2> QED BY <2>1, <2>2
<1>4. pc'[p] \notin {"access", "open", "put", "close"}
  BY <1>1 DEF Stopped
<1>5. All(mode[p], p)' = w /\ file' = file
  BY <1>1
<1> HIDE DEF w
<1> QED BY <1>1, <1>3, <1>4, <1>5 DEF Own

LEMMA OrderedNext ==
    ASSUME IInv, Ordered, [Next]_vars
    PROVE  Ordered'
<1>1. ASSUME NEW p \in Proc, pc'[p] = "access" PROVE mode'[p] = "ab"
  <2>1. pc[p] = "access" => mode[p] = "ab"
    BY DEF Ordered
  <2> QED
    BY <1>1, <2>1 DEF Next, AllStopped, Access, Open, OpenError, Put, Flush, WriteError,
       CloseError, Close, Kill, Goto, vars, IInv, TypeOK, Stopped
<1>2. ASSUME Safe' PROVE \A q \in Proc : Own(q)'
  <2>1. Safe /\ \A q \in Proc : Own(q)
    BY <1>2, SafeBefore DEF Ordered
  <2>2. ASSUME file' = file, NEW q \in Proc,
               pc'[q] = pc[q], mode'[q] = mode[q], buf'[q] = buf[q]
        PROVE  Own(q)'
    BY <2>1, <2>2, OwnStays
  <2>3. ASSUME NEW p \in Proc, Access(p), NEW q \in Proc PROVE Own(q)'
    <3>1. /\ pc[p] = "access" /\ pc' = [pc EXCEPT ![p] = "open"] /\ file' = file /\ buf' = buf
          /\ mode' = [mode EXCEPT ![p] = IF file = NoFile THEN "wb" ELSE "ab"]
      BY <2>3 DEF Access, Goto
    <3>2. CASE q = p
      <4>1. Nothing(file', p) /\ pc'[p] = "open"
        BY <3>1, <2>1 DEF Own, IInv, TypeOK
      <4> QED BY <3>2, <4>1 DEF Own, Stopped
    <3>3. CASE q # p
      BY <3>1, <3>3, <2>2 DEF IInv, TypeOK
    <3> QED BY <3>2, <3>3
  <2>4. ASSUME NEW p \in Proc, Open(p), NEW q \in Proc PROVE Own(q)'
    <3>1. /\ pc[p] = "open" /\ pc' = [pc EXCEPT ![p] = "put"] /\ mode' = mode
          /\ file' = IF mode[p] = "wb" \/ file = NoFile THEN <<>> ELSE file
          /\ buf' = [buf EXCEPT ![p] = IF mode[p] = "wb" THEN <<Cell(p, "HEAD")>> ELSE <<>>]
      BY <2>4 DEF Open, Goto
    <3>2. mode[p] = "wb" => file = NoFile
      BY <3>1, <2>1 DEF IInv, Turns, Safe
    <3>3. ASSUME NEW r \in Proc, Nothing(file, r) PROVE Nothing(file', r)
      BY <3>1, <3>2, <3>3 DEF Nothing
    <3>4. ASSUME NEW c PROVE Places(file', c) = Places(file, c)
      <4>1. CASE file = NoFile
        <5>1. file' = <<>> /\ Places(file, c) = {}
          BY <3>1, <4>1 DEF Places
        <5>2. Places(<<>>, c) = {}
          BY DEF Places
        <5> QED BY <5>1, <5>2
      <4>2. CASE file # NoFile
        BY <3>1, <3>2, <4>2
      <4> QED BY <4>1, <4>2
    <3>5. CASE q = p
      <4>1. Nothing(file', p) /\ pc'[p] = "put" /\ mode'[p] = mode[p]
        BY <3>1, <3>3, <2>1 DEF Own, IInv, TypeOK
      <4>2. buf'[p] = SubSeq(All(mode[p], p), 1, Len(All(mode[p], p)) - 4)
        BY <3>1, AllCells DEF IInv, TypeOK
      <4> QED BY <3>5, <4>1, <4>2 DEF Own, Stopped
    <3>6. CASE q # p
      <4>1. pc'[q] = pc[q] /\ mode'[q] = mode[q] /\ buf'[q] = buf[q]
        BY <3>1, <3>6 DEF IInv, TypeOK
      <4> QED BY <4>1, <2>1, <3>3, <3>4, OwnStays
    <3> QED BY <3>5, <3>6
  <2>5. ASSUME NEW p \in Proc, Put(p), NEW q \in Proc PROVE Own(q)'
    <3>1. /\ pc[p] = "put" /\ pc' = [pc EXCEPT ![p] = "close"] /\ mode' = mode /\ file' = file
          /\ buf' = [buf EXCEPT ![p] = @ \o Frame(p)]
      BY <2>5 DEF Put, Goto
    <3>2. CASE q = p
      <4> DEFINE w == All(mode[p], p)
      <4>1. pc'[p] = "close" /\ w = All(mode'[p], p)
        BY <3>1 DEF IInv, TypeOK
      <4>2. Nothing(file, p) /\ buf[p] = SubSeq(w, 1, Len(w) - 4)
        BY <3>1, <2>1 DEF Own
      <4>3. Has(file', w, 0)
        BY <3>1, <4>2, NothingHas
      <4>4. buf'[p] = SubSeq(w, 1, Len(w) - 4) \o Frame(p)
        BY <3>1, <4>2 DEF IInv, TypeOK
      <4>5. /\ w \in Seq(CellType) /\ Len(w) \in Nat
            /\ SubSeq(w, 1, Len(w) - 4) \o Frame(p) = w
        BY AllCells
      <4> HIDE DEF w
      <4>6. buf'[p] = SubSeq(w, 0 + 1, Len(w)) /\ 0 \in 0 .. Len(w)
        BY <4>4, <4>5
      <4> QED BY <3>2, <4>1, <4>3, <4>6 DEF Own, Stopped
    <3>3. CASE q # p
      BY <3>1, <3>3, <2>2 DEF IInv, TypeOK
    <3> QED BY <3>2, <3>3
  <2>6. ASSUME NEW p \in Proc, Flush(p), NEW q \in Proc PROVE Own(q)'
    BY <2>1, <2>6, FlushOrdered
  <2>7. ASSUME NEW p \in Proc, NEW q \in Proc,
               OpenError(p) \/ WriteError(p) \/ CloseError(p) \/ Close(p) \/ Kill(p)
        PROVE  Own(q)'
    <3>1. CASE q = p
      BY <2>1, <2>7, <3>1, EndOrdered
    <3>2. CASE q # p
      <4>1. file' = file /\ pc'[q] = pc[q] /\ mode'[q] = mode[q] /\ buf'[q] = buf[q]
        BY <2>7, <3>2 DEF OpenError, WriteError, CloseError, Close, Kill, Goto, IInv, TypeOK
      <4> QED BY <4>1, <2>2
    <3> QED BY <3>1, <3>2
  <2>8. CASE UNCHANGED vars
    BY <2>8, <2>2 DEF vars
  <2> QED
    BY <2>3, <2>4, <2>5, <2>6, <2>7, <2>8 DEF Next, AllStopped
<1> QED BY <1>1, <1>2 DEF Ordered

(* A process that does not overtake another's opening leaves the beginning *)
(* of its frame, every part once and behind the one before it, and all of  *)
(* it when no call has failed, wherever the writes of others fall.         *)
THEOREM OwnOrderAlways == Spec => []OwnOrder
<1>1. IInv /\ Ordered => OwnOrder
  <2> SUFFICES ASSUME IInv, Ordered, Safe, NEW p \in Proc, NEW k \in 1 .. 4
               PROVE  /\ \A i, j \in Places(file, Frame(p)[k]) : i = j
                      /\ k > 1 => \A i \in Places(file, Frame(p)[k]) :
                                     \E j \in Places(file, Frame(p)[k - 1]) : j < i
                      /\ pc[p] = "exit 0" => Places(file, Frame(p)[k]) # {}
    BY DEF OwnOrder
  <2> DEFINE w == All(mode[p], p)
  <2>l. Len(w) \in {4, 5}
    BY AllCells
  <2>1. \A i \in 1 .. 4 : w[Len(w) - 4 + i] = Frame(p)[i]
    BY AllCells
  <2>2. \E n \in 0 .. Len(w) : Has(file, w, n) /\ (pc[p] = "exit 0" => n = Len(w))
    <3>1. CASE Nothing(file, p) /\ pc[p] # "exit 0"
      <4>1. Has(file, w, 0)
        BY <3>1, NothingHas
      <4>2. 0 \in 0 .. Len(w)
        BY <2>l
      <4> QED BY <3>1, <4>1, <4>2
    <3>2. CASE ~Nothing(file, p) \/ pc[p] = "exit 0"
      <4>1. pc[p] \in {"close"} \cup Stopped
        BY <3>2 DEF Ordered, Own, IInv, TypeOK, Started
      <4> QED BY <4>1 DEF Ordered, Own, Stopped
    <3> QED BY <3>1, <3>2
  <2> HIDE DEF w
  <2>3. PICK n \in 0 .. Len(w) : Has(file, w, n) /\ (pc[p] = "exit 0" => n = Len(w))
    BY <2>2
  <2>4. PICK place \in 1 .. Len(w) : place = Len(w) - 4 + k
    <3>1. CASE Len(w) = 4
      <4>1. k \in 1 .. Len(w) /\ k = Len(w) - 4 + k
        BY <3>1
      <4> QED BY <4>1
    <3>2. CASE Len(w) = 5
      <4>1. k + 1 \in 1 .. Len(w) /\ k + 1 = Len(w) - 4 + k
        BY <3>2
      <4> QED BY <4>1
    <3> QED BY <2>l, <3>1, <3>2
  <2>5. w[place] = Frame(p)[k]
    BY <2>1, <2>4
  <2>6. k > 1 => place > 1 /\ w[place - 1] = Frame(p)[k - 1]
    <3> SUFFICES ASSUME k > 1 PROVE place > 1 /\ w[place - 1] = Frame(p)[k - 1]
      OBVIOUS
    <3>1. k - 1 \in 1 .. 4 /\ place - 1 = Len(w) - 4 + (k - 1) /\ place > 1
      BY <2>l, <2>4
    <3> QED BY <3>1, <2>1
  <2>7. ASSUME pc[p] = "exit 0" PROVE place <= n
    <3>1. n = Len(w) /\ place \in 1 .. Len(w)
      BY <2>3, <2>4, <2>7
    <3> QED BY <3>1
  <2>8. /\ \A i, j \in Places(file, w[place]) : i = j
        /\ place <= n => Places(file, w[place]) # {}
        /\ place > 1 => \A i \in Places(file, w[place]) :
                            \E j \in Places(file, w[place - 1]) : j < i
    BY <2>3 DEF Has
  <2> QED BY <2>5, <2>6, <2>7, <2>8
<1>2. IInv /\ Ordered /\ [Next]_vars => Ordered'
  BY OrderedNext
<1> QED BY <1>1, <1>2, OrderedInit, Invariance, PTL DEF Spec

-----------------------------------------------------------------------------
(* The stream of some authors: the header of the first and a frame of each. *)
Movie(order) ==
    [n \in 1 .. 1 + 4 * Len(order) |->
        IF n = 1 THEN Cell(order[1], "HEAD")
        ELSE Frame(order[(n - 2) \div 4 + 1])[((n - 2) % 4) + 1]]

(* What the process that is at work has still to write.                    *)
Pending(p) == IF pc[p] = "put" THEN buf[p] \o Frame(p) ELSE buf[p]

Working == {"put", "close"}

(* The file with what is pending is the stream of those who have begun to  *)
(* write, after the author who was there at first.                         *)
Cast(order) ==
    /\ order \in Seq(Author) /\ order # <<>>
    /\ \A j, k \in 1 .. Len(order) : order[j] = order[k] => j = k
    /\ \A k \in 2 .. Len(order) : order[k] \in Proc

MovieOf(order) ==
    /\ Cast(order)
    /\ \A p \in Proc : (\E k \in 1 .. Len(order) : order[k] = p)
                          <=> pc[p] \in Working \cup {"exit 0"}
    /\ \A p \in Proc : pc[p] \in Working => file \o Pending(p) = Movie(order)
    /\ (\A p \in Proc : pc[p] \notin Working) => file = Movie(order)

NoneFails == \A p \in Proc : pc[p] \in {"access", "open", "put", "close", "exit 0"}

Whole ==
    serial /\ NoneFails =>
        /\ file = NoFile => \A p \in Proc : pc[p] \in {"access", "open"}
        /\ \A p \in Proc : pc[p] = "open" /\ mode[p] = "ab" => file # NoFile
        /\ file # NoFile => \E order \in Seq(Author) : MovieOf(order)

OneFrame ==
    \A f \in Existing : f # NoFile =>
        \E a \in Author \ Proc : f = <<Cell(a, "HEAD")>> \o Frame(a)

LEMMA CellTypes ==
    ASSUME NEW a \in Author
    PROVE  /\ Frame(a) \in Seq(CellType) /\ Cell(a, "HEAD") \in CellType
           /\ Len(Frame(a)) = 4 /\ \A k \in 1 .. 4 : Frame(a)[k] \in CellType
<1>2. \A part \in {"HEAD", "FRAME", "Y", "U", "V"} : Cell(a, part) \in CellType
  BY DEF Cell, CellType, CellOf
<1> QED BY <1>2 DEF Frame

LEMMA MovieType ==
    ASSUME NEW order \in Seq(Author), order # <<>>
    PROVE  /\ Movie(order) \in Seq(CellType)
           /\ Len(Movie(order)) = 1 + 4 * Len(order)
           /\ Len(order) \in Nat \ {0}
<1> DEFINE L == Len(order)
<1>1. L \in Nat /\ L # 0 /\ order \in [1 .. L -> Author]
  OBVIOUS
<1>2. ASSUME NEW n \in 1 .. 1 + 4 * L
      PROVE  (IF n = 1 THEN Cell(order[1], "HEAD")
              ELSE Frame(order[(n - 2) \div 4 + 1])[((n - 2) % 4) + 1]) \in CellType
  <2>1. CASE n = 1
    <3>1. order[1] \in Author
      BY <1>1
    <3> QED BY <2>1, <3>1, CellTypes
  <2>2. CASE n # 1
    <3> HIDE DEF L
    <3>1. n - 2 \in Nat /\ n - 2 <= 4 * L - 1
      BY <1>1, <2>2
    <3>2. (n - 2) \div 4 + 1 \in 1 .. L /\ ((n - 2) % 4) + 1 \in 1 .. 4
      BY <1>1, <3>1
    <3>3. order[(n - 2) \div 4 + 1] \in Author
      BY <1>1, <3>2
    <3> QED BY <2>2, <3>2, <3>3, CellTypes
  <2> QED BY <2>1, <2>2
<1>3. 1 + 4 * L \in Nat
  BY <1>1
<1> HIDE DEF L
<1>4. Movie(order) \in [1 .. 1 + 4 * L -> CellType]
  BY <1>2 DEF Movie, L
<1>5. Movie(order) \in Seq(CellType) /\ Len(Movie(order)) = 1 + 4 * L
  BY <1>3, <1>4
<1> QED BY <1>1, <1>5 DEF L

(* The frame of the k-th author.                                           *)
LEMMA FrameInMovie ==
    ASSUME NEW order \in Seq(Author), order # <<>>, NEW k \in 1 .. Len(order),
           NEW c \in 1 .. 4
    PROVE  /\ 4 * (k - 1) + 1 + c \in 1 .. Len(Movie(order))
           /\ Movie(order)[4 * (k - 1) + 1 + c] = Frame(order[k])[c]
<1> DEFINE n == 4 * (k - 1) + 1 + c
<1>1. n \in 1 .. 1 + 4 * Len(order) /\ n # 1
  OBVIOUS
<1>2. (n - 2) \div 4 + 1 = k /\ ((n - 2) % 4) + 1 = c
  OBVIOUS
<1> HIDE DEF n
<1>3. Movie(order)[n] = Frame(order[k])[c]
  BY <1>1, <1>2 DEF Movie
<1> QED BY <1>1, <1>3, MovieType DEF n

LEMMA MovieGrows ==
    ASSUME NEW order \in Seq(Author), order # <<>>, NEW a \in Author
    PROVE  Movie(Append(order, a)) = Movie(order) \o Frame(a)
<1> DEFINE more == Append(order, a)
           L == Len(order)
<1>1. /\ more \in Seq(Author) /\ more # <<>> /\ Len(more) = L + 1 /\ L \in Nat \ {0}
      /\ \A k \in 1 .. L : more[k] = order[k]
      /\ more[L + 1] = a
  OBVIOUS
<1>2. /\ Movie(order) \in Seq(CellType) /\ Len(Movie(order)) = 1 + 4 * L
      /\ Frame(a) \in Seq(CellType) /\ Len(Frame(a)) = 4
  BY MovieType, CellTypes
<1> HIDE DEF more, L
<1>3. Movie(more) \in Seq(CellType) /\ Len(Movie(more)) = 1 + 4 * (L + 1)
  BY <1>1, MovieType
<1> DEFINE both == Movie(order) \o Frame(a)
<1>4. /\ both \in Seq(CellType) /\ Len(both) = 1 + 4 * L + 4
      /\ \A n \in 1 .. 1 + 4 * L + 4 :
            both[n] = IF n <= 1 + 4 * L THEN Movie(order)[n] ELSE Frame(a)[n - (1 + 4 * L)]
  <2> DEFINE m == Movie(order)
             f == Frame(a)
  <2>1. m \in Seq(CellType) /\ Len(m) = 1 + 4 * L /\ f \in Seq(CellType) /\ Len(f) = 4
    BY <1>2
  <2> HIDE DEF m, f
  <2>2. /\ m \o f \in Seq(CellType) /\ Len(m \o f) = Len(m) + Len(f)
        /\ \A n \in 1 .. Len(m) + Len(f) :
              (m \o f)[n] = IF n <= Len(m) THEN m[n] ELSE f[n - Len(m)]
    BY <2>1, ConcatProperties
  <2> QED BY <1>1, <2>1, <2>2 DEF m, f
<1> HIDE DEF both
<1>5. ASSUME NEW n \in 1 .. 1 + 4 * (L + 1) PROVE Movie(more)[n] = both[n]
  <2>0. Movie(more)[n] = IF n = 1 THEN Cell(more[1], "HEAD")
                         ELSE Frame(more[(n - 2) \div 4 + 1])[((n - 2) % 4) + 1]
    BY <1>1 DEF Movie
  <2>n. n \in Nat /\ n >= 1 /\ n <= 1 + 4 * L + 4
    BY <1>1
  <2>1. CASE n <= 1 + 4 * L
    <3>1. Movie(order)[n] = IF n = 1 THEN Cell(order[1], "HEAD")
                         ELSE Frame(order[(n - 2) \div 4 + 1])[((n - 2) % 4) + 1]
      BY <2>1, <2>n DEF Movie, L
    <3>2. 1 \in 1 .. L /\ (n # 1 => (n - 2) \div 4 + 1 \in 1 .. L)
      BY <1>1, <2>1, <2>n
    <3>3. Movie(more)[n] = Movie(order)[n]
      BY <1>1, <2>0, <3>1, <3>2
    <3>4. both[n] = Movie(order)[n]
      BY <1>1, <1>4, <2>1, <2>n
    <3> QED BY <3>3, <3>4
  <2>2. CASE ~(n <= 1 + 4 * L)
    <3>1. (n - 2) \div 4 + 1 = L + 1 /\ ((n - 2) % 4) + 1 = n - (1 + 4 * L) /\ n # 1
      BY <1>1, <2>2, <2>n
    <3>2. both[n] = Frame(a)[n - (1 + 4 * L)]
      BY <1>1, <1>4, <2>2, <2>n
    <3> QED BY <1>1, <2>0, <3>1, <3>2
  <2> QED BY <2>1, <2>2
<1>6. Movie(more) = both
  BY <1>1, <1>3, <1>4, <1>5, SeqEqual
<1> QED BY <1>6 DEF more, both

LEMMA MovieBegins ==
    ASSUME NEW a \in Author
    PROVE  /\ <<a>> \in Seq(Author) /\ <<a>> # <<>> /\ Len(<<a>>) = 1 /\ <<a>>[1] = a
           /\ Movie(<<a>>) = <<Cell(a, "HEAD")>> \o Frame(a)
<1> DEFINE one == <<a>>
           head == <<Cell(a, "HEAD")>>
           f == Frame(a)
           both == head \o f
<1>1. one \in Seq(Author) /\ one # <<>> /\ Len(one) = 1 /\ one[1] = a
  OBVIOUS
<1>2. head \in Seq(CellType) /\ Len(head) = 1 /\ head[1] = Cell(a, "HEAD")
  BY CellTypes
<1>3. f \in Seq(CellType) /\ Len(f) = 4
  BY CellTypes
<1>h. f = Frame(a)
  OBVIOUS
<1> HIDE DEF one, head, f
<1>4. Movie(one) \in Seq(CellType) /\ Len(Movie(one)) = 5
  <2>1. 1 + 4 * 1 = 5
    OBVIOUS
  <2> QED BY <1>1, <2>1, MovieType
<1>5. both \in Seq(CellType) /\ Len(both) = 5 /\
      \A n \in 1 .. 5 : both[n] = IF n <= 1 THEN head[n] ELSE f[n - 1]
  <2>1. head \o f \in Seq(CellType) /\ Len(head \o f) = Len(head) + Len(f) /\
        \A n \in 1 .. Len(head) + Len(f) :
           (head \o f)[n] = IF n <= Len(head) THEN head[n] ELSE f[n - Len(head)]
    BY <1>2, <1>3, ConcatProperties
  <2> QED BY <1>2, <1>3, <2>1
<1> HIDE DEF both
<1>6. ASSUME NEW n \in 1 .. 5 PROVE Movie(one)[n] = both[n]
  <2>1. CASE n = 1
    <3>1. Movie(one)[1] = Cell(a, "HEAD")
      BY <1>1 DEF Movie
    <3> QED BY <1>2, <1>5, <2>1, <3>1
  <2>2. CASE n # 1
    <3>1. PICK c \in 1 .. 4 : n = 4 * (1 - 1) + 1 + c
      <4>1. n - 1 \in 1 .. 4 /\ n = 4 * (1 - 1) + 1 + (n - 1)
        BY <2>2
      <4> QED BY <4>1
    <3>2. 1 \in 1 .. Len(one)
      BY <1>1
    <3>3. Movie(one)[n] = Frame(one[1])[c]
      BY <1>1, <3>1, <3>2, FrameInMovie
    <3>4. both[n] = f[c]
      BY <1>5, <2>2, <3>1
    <3> QED BY <1>1, <1>h, <3>3, <3>4
  <2> QED BY <2>1, <2>2
<1>7. Movie(one) = both
  BY <1>4, <1>5, <1>6, SeqEqual
<1> QED BY <1>1, <1>7 DEF one, head, f, both

(* A step of nobody who is at work.                                        *)
LEMMA MovieStays ==
    ASSUME NEW order \in Seq(Author), MovieOf(order), file' = file,
           \A q \in Proc : pc[q] \in Working \/ pc'[q] \in Working =>
                              pc'[q] = pc[q] /\ buf'[q] = buf[q],
           \A q \in Proc : pc'[q] = "exit 0" <=> pc[q] = "exit 0"
    PROVE  MovieOf(order)'
<1>1. \A q \in Proc : pc'[q] \in Working \cup {"exit 0"} <=> pc[q] \in Working \cup {"exit 0"}
  BY DEF Working
<1>2. ASSUME NEW q \in Proc, pc'[q] \in Working PROVE file' \o Pending(q)' = Movie(order)
  <2>1. pc'[q] = pc[q] /\ buf'[q] = buf[q]
    BY <1>2
  <2>2. Pending(q)' = Pending(q)
    BY <2>1 DEF Pending
  <2>3. file \o Pending(q) = Movie(order)
    BY <1>2, <2>1 DEF MovieOf
  <2> QED BY <2>2, <2>3
<1>3. ASSUME \A q \in Proc : pc'[q] \notin Working PROVE file' = Movie(order)
  <2>1. \A q \in Proc : pc[q] \notin Working
    BY <1>3
  <2> QED BY <2>1 DEF MovieOf
<1> QED BY <1>1, <1>2, <1>3 DEF MovieOf

(* The one who begins to write is the last of the authors.                 *)
LEMMA MovieAuthor ==
    ASSUME NEW order \in Seq(Author), MovieOf(order), NEW p \in Proc,
           pc[p] = "open", pc' = [pc EXCEPT ![p] = "put"], DOMAIN pc = Proc,
           \A q \in Proc : pc[q] \notin Working,
           file' = file, buf'[p] = <<>>
    PROVE  Append(order, p) \in Seq(Author) /\ MovieOf(Append(order, p))'
<1> DEFINE more == Append(order, p)
           L == Len(order)
<1>1. p \in Author
  BY DEF Author
<1>2. /\ more \in Seq(Author) /\ more # <<>> /\ Len(more) = L + 1 /\ L \in Nat
      /\ \A k \in 1 .. L : more[k] = order[k]
      /\ more[L + 1] = p
  BY <1>1
<1>3. /\ order # <<>> /\ L >= 1
      /\ \A j, k \in 1 .. L : order[j] = order[k] => j = k
      /\ \A k \in 2 .. L : order[k] \in Proc
  <2>1. Cast(order)
    BY DEF MovieOf
  <2>2. \A s \in Seq(Author) : s # <<>> => Len(s) >= 1
    OBVIOUS
  <2> QED BY <2>1, <2>2 DEF Cast
<1>f. file = Movie(order)
  BY DEF MovieOf
<1>4. \A k \in 1 .. L : order[k] # p
  BY DEF MovieOf, Working
<1>5. Movie(more) = Movie(order) \o Frame(p)
  BY <1>1, <1>3, MovieGrows
<1>m. Append(order, p) = more
  OBVIOUS
<1> HIDE DEF more, L
<1>6. \A k \in 1 .. L + 1 : k = L + 1 \/ k \in 1 .. L
  BY <1>2
<1>7. \A j, k \in 1 .. L + 1 : more[j] = more[k] => j = k
  <2> SUFFICES ASSUME NEW j \in 1 .. L + 1, NEW k \in 1 .. L + 1, more[j] = more[k] PROVE j = k
    OBVIOUS
  <2>1. CASE j \in 1 .. L /\ k \in 1 .. L
    BY <1>2, <1>3, <2>1
  <2> QED BY <1>2, <1>4, <1>6, <2>1
<1>8. \A k \in 2 .. L + 1 : more[k] \in Proc
  <2> SUFFICES ASSUME NEW k \in 2 .. L + 1 PROVE more[k] \in Proc
    OBVIOUS
  <2>1. CASE k = L + 1
    BY <1>2, <2>1
  <2>2. CASE k \in 2 .. L
    BY <1>2, <1>3, <2>2
  <2> QED BY <1>2, <2>1, <2>2
<1>9. pc'[p] = "put" /\ \A q \in Proc : q # p => pc'[q] = pc[q]
  OBVIOUS
<1>10. ASSUME NEW q \in Proc
       PROVE  (\E k \in 1 .. L + 1 : more[k] = q) <=> pc'[q] \in Working \cup {"exit 0"}
  <2>1. CASE q = p
    <3>1. L + 1 \in 1 .. L + 1 /\ pc'[q] \in Working
      BY <1>2, <1>9, <2>1 DEF Working
    <3> QED BY <1>2, <2>1, <3>1
  <2>2. CASE q # p
    <3>1. (\E k \in 1 .. L + 1 : more[k] = q) <=> (\E k \in 1 .. L : order[k] = q)
      BY <1>2, <1>6, <2>2
    <3>2. (\E k \in 1 .. L : order[k] = q) <=> pc[q] \in Working \cup {"exit 0"}
      BY DEF MovieOf, L
    <3> QED BY <1>9, <2>2, <3>1, <3>2
  <2> QED BY <2>1, <2>2
<1>11. ASSUME NEW q \in Proc, pc'[q] \in Working PROVE file' \o Pending(q)' = Movie(more)
  <2>1. q = p
    BY <1>9, <1>11
  <2>2. Pending(q)' = <<>> \o Frame(p)
    BY <1>9, <2>1 DEF Pending
  <2>3. <<>> \o Frame(p) = Frame(p)
    BY <1>1, CellTypes
  <2> QED BY <1>f, <1>5, <2>2, <2>3
<1>12. ~\A q \in Proc : pc'[q] \notin Working
  BY <1>9 DEF Working
<1>c. Cast(more)
  BY <1>2, <1>7, <1>8 DEF Cast
<1>13. MovieOf(more)'
  <2>1. \A q \in Proc : (\E k \in 1 .. Len(more) : more[k] = q)
                           <=> pc'[q] \in Working \cup {"exit 0"}
    BY <1>2, <1>10
  <2> QED BY <1>c, <1>11, <1>12, <2>1 DEF MovieOf
<1> QED BY <1>2, <1>13, <1>m

LEMMA CastOfOne ==
    ASSUME NEW a \in Author
    PROVE  Cast(<<a>>)
<1> DEFINE one == <<a>>
<1>1. one \in Seq(Author) /\ one # <<>> /\ Len(one) = 1
  BY MovieBegins
<1> HIDE DEF one
<1>2. \A j \in 1 .. Len(one) : j = 1
  BY <1>1
<1>3. 2 .. Len(one) = {}
  BY <1>1
<1>4. Cast(one)
  BY <1>1, <1>2, <1>3 DEF Cast
<1> QED BY <1>4 DEF one

LEMMA WholeInit ==
    ASSUME OneFrame, Init
    PROVE  Whole
<1>1. \A p \in Proc : pc[p] = "access"
  BY DEF Init
<1>2. ASSUME file # NoFile PROVE \E order \in Seq(Author) : MovieOf(order)
  <2>1. PICK a \in Author \ Proc : file = <<Cell(a, "HEAD")>> \o Frame(a)
    BY <1>2 DEF OneFrame, Init
  <2>2. /\ <<a>> \in Seq(Author) /\ Len(<<a>>) = 1 /\ <<a>>[1] = a
        /\ Movie(<<a>>) = file /\ Cast(<<a>>)
    BY <2>1, MovieBegins, CastOfOne
  <2>3. ASSUME NEW p \in Proc
        PROVE  (\E k \in 1 .. Len(<<a>>) : <<a>>[k] = p) <=> pc[p] \in Working \cup {"exit 0"}
    <3>1. \A k \in 1 .. Len(<<a>>) : k = 1
      BY <2>2
    <3> QED BY <1>1, <2>2, <3>1 DEF Working
  <2>4. MovieOf(<<a>>)
    BY <1>1, <2>2, <2>3 DEF MovieOf, Working
  <2> QED BY <2>2, <2>4
<1> QED BY <1>1, <1>2 DEF Whole

LEMMA WholeNext ==
    ASSUME IInv, Whole, [Next]_vars
    PROVE  Whole'
<1> SUFFICES ASSUME serial', NoneFails'
             PROVE  /\ file' = NoFile => \A p \in Proc : pc'[p] \in {"access", "open"}
                    /\ \A p \in Proc : pc'[p] = "open" /\ mode'[p] = "ab" => file' # NoFile
                    /\ file' # NoFile => \E order \in Seq(Author) : MovieOf(order)'
  BY DEF Whole
<1>t. /\ pc \in [Proc -> {"access"} \cup Started \cup Stopped] /\ mode \in [Proc -> {"wb", "ab"}]
      /\ buf \in [Proc -> Seq(CellType)] /\ DOMAIN pc = Proc
      /\ file \in Seq(CellType) \/ file = NoFile
  BY DEF IInv, TypeOK
<1>n. NoFile \notin Seq(CellType)
  BY ExistingAssumption
<1>s. serial
  BY DEF Next, AllStopped, Access, Open, OpenError, Put, Flush, WriteError, CloseError, Close,
      Kill, vars
<1>f. NoneFails
  <2> SUFFICES ASSUME NEW p \in Proc PROVE pc[p] \in {"access", "open", "put", "close", "exit 0"}
    BY DEF NoneFails
  <2>1. pc'[p] \in {"access", "open", "put", "close", "exit 0"}
    BY DEF NoneFails
  <2> QED
    BY <2>1, <1>t DEF Next, AllStopped, Access, Open, OpenError, Put, Flush, WriteError,
        CloseError, Close, Kill, Goto, vars, Started, Stopped
<1>w. /\ file = NoFile => \A p \in Proc : pc[p] \in {"access", "open"}
      /\ \A p \in Proc : pc[p] = "open" /\ mode[p] = "ab" => file # NoFile
      /\ file # NoFile => \E order \in Seq(Author) : MovieOf(order)
  BY <1>s, <1>f DEF Whole
<1>u. /\ \A p, q \in Proc : pc[p] \in Started /\ pc[q] \in Started => p = q
      /\ \A p \in Proc : mode[p] = "wb" /\ pc[p] = "open" => file = NoFile
  BY <1>s DEF IInv, Turns
<1>1. ASSUME NEW p \in Proc, Access(p)
      PROVE  /\ file' = NoFile => \A q \in Proc : pc'[q] \in {"access", "open"}
             /\ \A q \in Proc : pc'[q] = "open" /\ mode'[q] = "ab" => file' # NoFile
             /\ file' # NoFile => \E order \in Seq(Author) : MovieOf(order)'
  <2>1. /\ pc[p] = "access" /\ pc' = [pc EXCEPT ![p] = "open"]
        /\ mode' = [mode EXCEPT ![p] = IF file = NoFile THEN "wb" ELSE "ab"]
        /\ file' = file /\ buf' = buf
    BY <1>1 DEF Access, Goto
  <2>2. ASSUME NEW order \in Seq(Author), MovieOf(order) PROVE MovieOf(order)'
    BY <2>1, <2>2, <1>t, MovieStays DEF Working
  <2> QED BY <2>1, <2>2, <1>t, <1>w
<1>2. ASSUME NEW p \in Proc, Open(p)
      PROVE  /\ file' = NoFile => \A q \in Proc : pc'[q] \in {"access", "open"}
             /\ \A q \in Proc : pc'[q] = "open" /\ mode'[q] = "ab" => file' # NoFile
             /\ file' # NoFile => \E order \in Seq(Author) : MovieOf(order)'
  <2>1. /\ pc[p] = "open" /\ pc' = [pc EXCEPT ![p] = "put"] /\ mode' = mode
        /\ file' = IF mode[p] = "wb" \/ file = NoFile THEN <<>> ELSE file
        /\ buf' = [buf EXCEPT ![p] = IF mode[p] = "wb" THEN <<Cell(p, "HEAD")>> ELSE <<>>]
    BY <1>2 DEF Open, Goto
  <2>2. \A q \in Proc : q # p => pc'[q] = pc[q] /\ pc[q] \notin Started
    BY <2>1, <1>t, <1>u DEF Started
  <2>3. file' # NoFile /\ \A q \in Proc : pc[q] \notin Working
    <3>1. <<>> # NoFile
      <4>1. <<>> \in Seq(CellType)
        OBVIOUS
      <4> QED BY <4>1, <1>n
    <3> QED BY <2>1, <2>2, <3>1 DEF Working, Started
  <2>4. p \in Author
    BY DEF Author
  <2>5. CASE mode[p] = "wb"
    <3>1. /\ \A q \in Proc : pc[q] \in {"access", "open"}
          /\ file' = <<>> /\ buf'[p] = <<Cell(p, "HEAD")>> /\ pc'[p] = "put"
      BY <2>1, <2>5, <1>t, <1>u, <1>w
    <3>2. /\ <<p>> \in Seq(Author) /\ Len(<<p>>) = 1 /\ <<p>>[1] = p
          /\ Movie(<<p>>) = <<Cell(p, "HEAD")>> \o Frame(p) /\ Cast(<<p>>)
      BY <2>4, MovieBegins, CastOfOne
    <3>3. Movie(<<p>>) \in Seq(CellType)
      BY <2>4, <3>2, MovieBegins, MovieType
    <3>4. file' \o Pending(p)' = Movie(<<p>>)
      <4>1. Pending(p)' = Movie(<<p>>)
        BY <3>1, <3>2 DEF Pending
      <4>2. <<>> \o Movie(<<p>>) = Movie(<<p>>)
        BY <3>3
      <4> QED BY <3>1, <4>1, <4>2
    <3>5. \A q \in Proc : (\E k \in 1 .. Len(<<p>>) : <<p>>[k] = q)
                             <=> pc'[q] \in Working \cup {"exit 0"}
      <4> SUFFICES ASSUME NEW q \in Proc
                   PROVE  (\E k \in 1 .. Len(<<p>>) : <<p>>[k] = q)
                             <=> pc'[q] \in Working \cup {"exit 0"}
        OBVIOUS
      <4>1. (\E k \in 1 .. Len(<<p>>) : <<p>>[k] = q) <=> q = p
        <5>1. \A k \in 1 .. Len(<<p>>) : k = 1
          BY <3>2
        <5>2. 1 \in 1 .. Len(<<p>>)
          BY <3>2
        <5> QED BY <3>2, <5>1, <5>2
      <4> QED BY <2>2, <3>1, <4>1 DEF Working
    <3>6. \A q \in Proc : pc'[q] \in Working => q = p
      BY <2>2, <2>3
    <3>7. p \in Proc /\ pc'[p] \in Working
      BY <3>1 DEF Working
    <3>8. MovieOf(<<p>>)'
      BY <3>2, <3>4, <3>5, <3>6, <3>7 DEF MovieOf
    <3> QED BY <2>1, <2>2, <2>3, <3>1, <3>2, <3>8, <1>t, <1>w DEF Started
  <2>6. CASE mode[p] = "ab"
    <3>1. file # NoFile
      BY <2>1, <2>6, <1>w
    <3>2. PICK order \in Seq(Author) : MovieOf(order)
      BY <3>1, <1>w
    <3>3. file' = file /\ buf'[p] = <<>>
      BY <2>1, <2>6, <3>1, <1>t
    <3>4. Append(order, p) \in Seq(Author) /\ MovieOf(Append(order, p))'
      BY <2>1, <2>3, <3>2, <3>3, <1>t, MovieAuthor
    <3> QED BY <2>3, <3>4
  <2> QED BY <2>5, <2>6, <1>t
<1>3. ASSUME NEW p \in Proc, Put(p)
      PROVE  /\ file' = NoFile => \A q \in Proc : pc'[q] \in {"access", "open"}
             /\ \A q \in Proc : pc'[q] = "open" /\ mode'[q] = "ab" => file' # NoFile
             /\ file' # NoFile => \E order \in Seq(Author) : MovieOf(order)'
  <2>1. /\ pc[p] = "put" /\ pc' = [pc EXCEPT ![p] = "close"] /\ mode' = mode /\ file' = file
        /\ buf' = [buf EXCEPT ![p] = @ \o Frame(p)]
    BY <1>3 DEF Put, Goto
  <2>2. \A q \in Proc : q # p => pc'[q] = pc[q] /\ pc[q] \notin Started
    BY <2>1, <1>t, <1>u DEF Started
  <2>3. file # NoFile
    BY <2>1, <1>w
  <2>4. PICK order \in Seq(Author) : MovieOf(order)
    BY <2>3, <1>w
  <2>5. pc'[p] = "close" /\ Pending(p)' = Pending(p)
    BY <2>1, <1>t DEF Pending
  <2>6. ASSUME NEW q \in Proc, pc'[q] \in Working PROVE file' \o Pending(q)' = Movie(order)
    <3>1. q = p /\ pc[p] \in Working
      BY <2>1, <2>2, <2>6 DEF Working, Started
    <3>2. file \o Pending(p) = Movie(order)
      BY <2>4, <3>1 DEF MovieOf
    <3> QED BY <2>1, <2>5, <3>1, <3>2
  <2>7. \A q \in Proc : pc'[q] \in Working \cup {"exit 0"} <=> pc[q] \in Working \cup {"exit 0"}
    BY <2>1, <2>2, <2>5 DEF Working
  <2>8. p \in Proc /\ pc'[p] \in Working
    BY <2>5 DEF Working
  <2>9. MovieOf(order)'
    BY <2>4, <2>6, <2>7, <2>8 DEF MovieOf
  <2> QED BY <2>1, <2>2, <2>3, <2>9, <1>w
<1>4. ASSUME NEW p \in Proc, Flush(p)
      PROVE  /\ file' = NoFile => \A q \in Proc : pc'[q] \in {"access", "open"}
             /\ \A q \in Proc : pc'[q] = "open" /\ mode'[q] = "ab" => file' # NoFile
             /\ file' # NoFile => \E order \in Seq(Author) : MovieOf(order)'
  <2>1. pc[p] = "close" /\ pc' = pc /\ mode' = mode
    BY <1>4 DEF Flush
  <2>2. mode[p] = "ab" \/ off[p] = Len(file)
    BY <2>1, <1>s, <1>t DEF IInv, Turns
  <2>3. PICK k \in 1 .. Len(buf[p]) :
           /\ file \in Seq(CellType) /\ file' \in Seq(CellType)
           /\ buf' = [buf EXCEPT ![p] = SubSeq(@, k + 1, Len(@))]
           /\ file' = file \o SubSeq(buf[p], 1, k)
    BY <1>4, <2>2, FlushGrows
  <2>4. file # NoFile /\ file' # NoFile
    BY <2>3, <1>n
  <2>5. PICK order \in Seq(Author) : MovieOf(order)
    BY <2>4, <1>w
  <2>6. file' \o buf'[p] = file \o buf[p]
    <3> DEFINE b == buf[p]
    <3>1. b \in Seq(CellType)
      BY <1>t
    <3>2. buf'[p] = SubSeq(b, k + 1, Len(b)) /\ file' = file \o SubSeq(b, 1, k) /\ k \in 1 .. Len(b)
      BY <2>3, <1>t
    <3> HIDE DEF b
    <3>3. SubSeq(b, 1, k) \in Seq(CellType) /\ SubSeq(b, k + 1, Len(b)) \in Seq(CellType)
      BY <3>1, <3>2
    <3>4. SubSeq(b, 1, k) \o SubSeq(b, k + 1, Len(b)) = b
      <4>1. /\ 1 \in 1 .. Len(b) + 1 /\ k \in 1 - 1 .. Len(b) /\ Len(b) \in k .. Len(b)
        BY <3>1, <3>2
      <4>2. SubSeq(b, 1, k) \o SubSeq(b, k + 1, Len(b)) = SubSeq(b, 1, Len(b))
        BY <3>1, <4>1, ConcatAdjacentSubSeq
      <4> QED BY <3>1, <4>2, SubSeqFull
    <3>5. (file \o SubSeq(b, 1, k)) \o SubSeq(b, k + 1, Len(b)) = file \o b
      <4> DEFINE x == SubSeq(b, 1, k)
                 y == SubSeq(b, k + 1, Len(b))
      <4>1. x \in Seq(CellType) /\ y \in Seq(CellType) /\ x \o y = b
        BY <3>3, <3>4
      <4> HIDE DEF x, y
      <4>f. file \in Seq(CellType)
        BY <2>3
      <4>2. (file \o x) \o y = file \o (x \o y)
        <5> DEFINE C == CellType
        <5>1. file \in Seq(C) /\ x \in Seq(C) /\ y \in Seq(C)
          BY <4>1, <4>f
        <5> HIDE DEF C
        <5> QED BY <5>1, ConcatAssociative
      <4> QED BY <4>1, <4>2 DEF x, y
    <3> QED BY <3>2, <3>5 DEF b
  <2>7. ASSUME NEW q \in Proc, pc'[q] \in Working PROVE file' \o Pending(q)' = Movie(order)
    <3>1. q = p
      BY <2>1, <2>7, <1>u DEF Working, Started
    <3>2. Pending(p)' = buf'[p] /\ Pending(p) = buf[p]
      BY <2>1 DEF Pending
    <3>3. file \o Pending(p) = Movie(order)
      BY <2>1, <2>5 DEF MovieOf, Working
    <3> QED BY <2>6, <3>1, <3>2, <3>3
  <2>8. p \in Proc /\ pc'[p] \in Working
    BY <2>1 DEF Working
  <2>9. MovieOf(order)'
    BY <2>1, <2>5, <2>7, <2>8 DEF MovieOf
  <2> QED BY <2>1, <2>4, <2>9
<1>5. ASSUME NEW p \in Proc, Close(p)
      PROVE  /\ file' = NoFile => \A q \in Proc : pc'[q] \in {"access", "open"}
             /\ \A q \in Proc : pc'[q] = "open" /\ mode'[q] = "ab" => file' # NoFile
             /\ file' # NoFile => \E order \in Seq(Author) : MovieOf(order)'
  <2>1. /\ pc[p] = "close" /\ pc' = [pc EXCEPT ![p] = "exit 0"] /\ mode' = mode /\ file' = file
        /\ buf[p] = <<>>
    BY <1>5 DEF Close, Goto
  <2>2. \A q \in Proc : q # p => pc'[q] = pc[q] /\ pc[q] \notin Started
    BY <2>1, <1>t, <1>u DEF Started
  <2>3. file # NoFile /\ pc'[p] = "exit 0"
    BY <2>1, <1>t, <1>w
  <2>4. PICK order \in Seq(Author) : MovieOf(order)
    BY <2>3, <1>w
  <2>5. file = Movie(order)
    <3>1. Pending(p) = <<>>
      BY <2>1 DEF Pending
    <3>2. file \o <<>> = Movie(order)
      BY <2>1, <2>4, <3>1 DEF MovieOf, Working
    <3>3. file \o <<>> = file
      <4>1. file \in Seq(CellType)
        BY <2>3, <1>t
      <4> QED BY <4>1, ConcatEmptySeq
    <3> QED BY <3>2, <3>3
  <2>6. \A q \in Proc : pc'[q] \notin Working
    BY <2>2, <2>3 DEF Working, Started
  <2>7. \A q \in Proc : pc'[q] \in Working \cup {"exit 0"} <=> pc[q] \in Working \cup {"exit 0"}
    BY <2>1, <2>2, <2>3 DEF Working
  <2>8. MovieOf(order)'
    BY <2>1, <2>4, <2>5, <2>6, <2>7 DEF MovieOf
  <2> QED BY <2>1, <2>2, <2>3, <2>8, <1>w
<1>6. ASSUME NEW p \in Proc, OpenError(p) \/ WriteError(p) \/ CloseError(p) \/ Kill(p)
      PROVE  FALSE
  <2>1. pc'[p] \in {"exit 1", "cut", "killed"}
    BY <1>6, <1>t DEF OpenError, WriteError, CloseError, Kill, Goto
  <2> QED BY <2>1 DEF NoneFails
<1>7. CASE UNCHANGED vars
  <2>1. pc' = pc /\ mode' = mode /\ buf' = buf /\ file' = file
    BY <1>7 DEF vars
  <2>2. ASSUME NEW order \in Seq(Author), MovieOf(order) PROVE MovieOf(order)'
    BY <2>1, <2>2, MovieStays
  <2> QED BY <2>1, <2>2, <1>w
<1> QED BY <1>1, <1>2, <1>3, <1>4, <1>5, <1>6, <1>7 DEF Next, AllStopped

(* The number of authors is the length of their order.                     *)
LEMMA CountedOnce ==
    ASSUME NEW order, Cast(order), NEW S, S = {order[k] : k \in 1 .. Len(order)}
    PROVE  Cardinality(S) = Len(order)
<1> DEFINE L == Len(order)
           f == [k \in 1 .. L |-> order[k]]
<1>1. L \in Nat
  BY DEF Cast
<1>2. f \in [1 .. L -> S] /\ \A j, k \in 1 .. L : f[j] = f[k] => j = k
  BY DEF Cast
<1>3. \A t \in S : \E k \in 1 .. L : f[k] = t
  OBVIOUS
<1>4. DOMAIN f = 1 .. L
  OBVIOUS
<1> HIDE DEF f, L
<1>5. f \in Bijection(1 .. L, S)
  <2>1. IsInjective(f)
    BY <1>2, <1>4 DEF IsInjective
  <2> QED BY <1>2, <1>3, <2>1 DEF Bijection, Injection, Surjection
<1>6. ExistsBijection(1 .. L, S)
  BY <1>5 DEF ExistsBijection
<1>7. Cardinality(S) = L
  BY <1>1, <1>6, FS_CountingElements
<1> QED BY <1>7 DEF L

LEMMA SomeAuthors ==
    ASSUME NEW order \in Seq(Author), order # <<>>
    PROVE  Len(order) \in Nat \ {0}
OBVIOUS

LEMMA FirstOrLater ==
    ASSUME NEW L \in Nat
    PROVE  /\ L # 0 => 1 \in 1 .. L
           /\ \A k \in 1 .. L : k = 1 \/ k \in 2 .. L
           /\ \A k \in 1 .. L : k - 1 \in 0 .. L - 1
OBVIOUS

(* The stream of an order of authors: who wrote it, how long it is, and     *)
(* where the frame of each author lies.                                     *)
LEMMA AuthorsOfMovie ==
    ASSUME NEW order, MovieOf(order), file = Movie(order),
           NEW authors,
           authors = {order[1]} \cup {p \in Proc : pc[p] = "exit 0"},
           \A p \in Proc : pc[p] \notin Working
    PROVE  authors = {order[k] : k \in 1 .. Len(order)}
<1> DEFINE L == Len(order)
<1>1. L \in Nat \ {0} /\ 1 \in 1 .. L /\ \A k \in 1 .. L : k = 1 \/ k \in 2 .. L
  <2>1. order \in Seq(Author) /\ order # <<>>
    BY DEF MovieOf, Cast
  <2>2. L \in Nat \ {0}
    BY <2>1, SomeAuthors
  <2> HIDE DEF L
  <2> QED BY <2>2, FirstOrLater
<1>2. \A k \in 2 .. L : order[k] \in Proc
  BY DEF MovieOf, Cast
<1>3. \A p \in Proc : (\E k \in 1 .. L : order[k] = p) <=> pc[p] = "exit 0"
  BY DEF MovieOf, Working
<1> HIDE DEF L
<1>4. ASSUME NEW k \in 1 .. L PROVE order[k] \in authors
  BY <1>1, <1>2, <1>3
<1>5. ASSUME NEW p \in authors PROVE \E k \in 1 .. L : order[k] = p
  BY <1>1, <1>3
<1>6. authors = {order[k] : k \in 1 .. L}
  BY <1>4, <1>5
<1> QED BY <1>6 DEF L

LEMMA HeadOfMovie ==
    ASSUME NEW order \in Seq(Author), order # <<>>
    PROVE  Movie(order)[1].part = "HEAD" /\ Movie(order)[1].by = order[1]
<1>1. 1 \in 1 .. 1 + 4 * Len(order)
  OBVIOUS
<1>2. Movie(order)[1] = Cell(order[1], "HEAD")
  BY <1>1 DEF Movie
<1> QED BY <1>2 DEF Cell

LEMMA FrameOfAuthor ==
    ASSUME NEW order \in Seq(Author), order # <<>>, NEW k \in 1 .. Len(order)
    PROVE  SubSeq(Movie(order), 4 * (k - 1) + 2, 4 * (k - 1) + 5) = Frame(order[k])
<1> DEFINE m == Movie(order)
           L == Len(order)
           from == 4 * (k - 1) + 2
           to == 4 * (k - 1) + 5
           part == SubSeq(m, from, to)
<1>1. m \in Seq(CellType) /\ Len(m) = 1 + 4 * L /\ L \in Nat \ {0} /\ k \in 1 .. L
  BY MovieType
<1>2. order[k] \in Author
  OBVIOUS
<1>3. ASSUME NEW c \in 1 .. 4 PROVE m[4 * (k - 1) + 1 + c] = Frame(order[k])[c]
  BY FrameInMovie
<1> HIDE DEF m, L
<1>4. /\ from \in 1 .. Len(m) /\ to \in 1 .. Len(m) /\ to = from + 3
      /\ \A c \in 1 .. 4 : 4 * (k - 1) + 1 + c = from + c - 1
  BY <1>1
<1> HIDE DEF from, to
<1>5. /\ part \in Seq(CellType) /\ Len(part) = 4
      /\ \A c \in 1 .. 4 : part[c] = m[from + c - 1]
  BY <1>1, <1>4
<1>6. \A c \in 1 .. 4 : part[c] = Frame(order[k])[c]
  BY <1>3, <1>4, <1>5
<1> HIDE DEF part
<1>7. part = Frame(order[k])
  BY <1>2, <1>5, <1>6, CellTypes, SeqEqual
<1> QED BY <1>7 DEF part, m, from, to

(* When all are done the file is the stream of those that wrote it.         *)
LEMMA WholeIsStream == IInv /\ Whole => Stream
<1> SUFFICES ASSUME IInv, Whole, serial, \A p \in Proc : pc[p] \in {"access", "exit 0"},
                    file # NoFile,
                    NEW authors, authors = {file[1].by} \cup {p \in Proc : pc[p] = "exit 0"}
             PROVE  /\ file[1].part = "HEAD"
                    /\ Len(file) = 1 + 4 * Cardinality(authors)
                    /\ \A p \in authors :
                          \E i \in 0 .. Cardinality(authors) - 1 :
                              SubSeq(file, 4 * i + 2, 4 * i + 5) = Frame(p)
  BY DEF Stream
<1>1. PICK order \in Seq(Author) : MovieOf(order)
  BY DEF Whole, NoneFails
<1>2. file = Movie(order) /\ Cast(order) /\ \A p \in Proc : pc[p] \notin Working
  BY <1>1 DEF MovieOf, Working
<1>3. order # <<>> /\ Len(order) \in Nat \ {0} /\ Len(file) = 1 + 4 * Len(order)
  BY <1>2, MovieType DEF Cast
<1>4. file[1].part = "HEAD" /\ file[1].by = order[1]
  BY <1>2, <1>3, HeadOfMovie
<1>6. authors = {order[k] : k \in 1 .. Len(order)}
  BY <1>1, <1>2, <1>4, AuthorsOfMovie
<1>7. Cardinality(authors) = Len(order)
  BY <1>2, <1>6, CountedOnce
<1>8. ASSUME NEW p \in authors
      PROVE  \E i \in 0 .. Cardinality(authors) - 1 :
                 SubSeq(file, 4 * i + 2, 4 * i + 5) = Frame(p)
  <2>1. PICK k \in 1 .. Len(order) : order[k] = p
    BY <1>6
  <2>2. SubSeq(Movie(order), 4 * (k - 1) + 2, 4 * (k - 1) + 5) = Frame(p)
    BY <1>3, <2>1, FrameOfAuthor
  <2>3. k - 1 \in 0 .. Len(order) - 1
    <3> DEFINE L == Len(order)
    <3>1. L \in Nat /\ k \in 1 .. L
      BY <1>3, <2>1
    <3> HIDE DEF L
    <3>2. k - 1 \in 0 .. L - 1
      BY <3>1, FirstOrLater
    <3> QED BY <3>2 DEF L
  <2> QED BY <1>2, <1>7, <2>2, <2>3
<1> QED BY <1>3, <1>4, <1>7, <1>8

(* Where every file that was there at first holds the frame of one other    *)
(* author, processes that run one after the other without failing leave the *)
(* header and the whole frames of those that are done.                      *)
THEOREM StreamAlways ==
    ASSUME OneFrame
    PROVE  Spec => []Stream
<1>1. Init => Whole
  BY WholeInit
<1>2. IInv /\ Whole /\ [Next]_vars => Whole'
  BY WholeNext
<1>3. IInv /\ Whole => Stream
  BY WholeIsStream
<1> QED BY <1>1, <1>2, <1>3, Invariance, PTL DEF Spec
====
