------------------------- MODULE ImageOutputProofs -------------------------
(***************************************************************************)
(* Proofs about ImageOutput, for any processes, formats, lengths, buffers  *)
(* and failures. What is in the file, in the buffer and still to come of a *)
(* product follow each other; from this, by name, what the file holds.     *)
(***************************************************************************)
EXTENDS ImageOutput, TLAPS

(* Before a process has opened its file, or when it never will.            *)
Early == {"read", "encode", "open", "refused"}

(* p has opened its file and has not gone on after a failed write.         *)
Has(p) ==
    \/ pc[p] \in {"write", "close"}
    \/ pc[p] \in {"print", "exit 0"} /\ (job[p].format # "jhv" \/ p \notin ignored)

Touched(n) == \E p \in Proc : Name(p) = n /\ (Has(p) \/ buf[p] # <<>>)

---------------------------------------------------------------------------
(* The inductive invariant.                                                *)

(* File, buffer and the rest are the product, in order.                    *)
Stream ==
    \A p \in Proc :
        /\ Len(buf[p]) <= Cap
        /\ off[p] + Len(buf[p]) + Len(todo[p]) = job[p].size
        /\ \A i \in 1 .. Len(buf[p]) : buf[p][i] = <<p, off[p] + i>>
        /\ \A i \in 1 .. Len(todo[p]) :
              todo[p][i] = <<p, job[p].size - Len(todo[p]) + i>>

(* What is left to do in which state.                                      *)
Progress ==
    \A p \in Proc :
        /\ pc[p] \in Early => off[p] = 0 /\ buf[p] = <<>>
        /\ pc[p] = "close" => todo[p] = <<>>
        /\ pc[p] \in {"print", "exit 0"} /\ job[p].format # "jhv" => todo[p] = <<>>
        /\ pc[p] \in {"print", "exit 0"} /\ p \notin ignored =>
              todo[p] = <<>> /\ buf[p] = <<>>

(* No cell lies past what somebody wrote.                                  *)
Bounded(n) ==
    \A i \in DOMAIN file[n] :
        \E p \in Proc : Name(p) = n /\ pc[p] \notin Early /\ i <= off[p]

(* What the process that opened the file last wrote has no hole.           *)
Led(n) ==
    \E r \in Proc :
        /\ Name(r) = n /\ pc[r] \notin Early
        /\ \A i \in 1 .. off[r] : i \in DOMAIN file[n] /\ file[n][i] # Hole

Filled ==
    \A n \in File :
        file[n] # Before[n] \/ Touched(n) =>
            file[n] \in Seq(Cell) /\ InPlace(n) /\ Bounded(n) /\ Led(n)

(* The file of a process that shares its name with no other.               *)
Mine ==
    \A p \in Proc :
        Alone(p) /\ Has(p) =>
            /\ Len(file[Name(p)]) = off[p]
            /\ \A i \in 1 .. off[p] : file[Name(p)][i] = <<p, i>>

Untouched ==
    \A n \in File :
        (\A p \in Proc : Name(p) = n => pc[p] \in Early) => file[n] = Before[n]

IInv == TypeOK /\ Stream /\ Progress /\ Filled /\ Mine /\ Untouched

---------------------------------------------------------------------------
(* Lemmas about the operators.                                             *)

LEMMA FunctionIsSeq ==
    ASSUME NEW n \in Nat, NEW S, NEW f \in [1 .. n -> S]
    PROVE  f \in Seq(S) /\ Len(f) = n /\ DOMAIN f = 1 .. n
  BY SMT

LEMMA JobParts ==
    ASSUME NEW j \in Jobs, NEW p \in Proc
    PROVE  /\ j[p].name \in File
           /\ j[p].format \in Format
           /\ j[p].size \in Nat \ {0}
BY JobAssumption DEF JobType

(* A cell goes from what is to come to the buffer.                         *)
LEMMA MoveOne ==
    ASSUME NEW o \in Nat, NEW b \in Nat, NEW t \in Nat, NEW s \in Nat,
           NEW c \in Nat, b < c, o + b + t = s
    PROVE  b + 1 <= c /\ o + (b + 1) + (t - 1) = s
  OBVIOUS

(* What a write of the first k cells of the buffer makes of the file.      *)
LEMMA WrittenCells ==
    ASSUME TypeOK, NEW p \in Proc, file[Name(p)] \in Seq(Cell),
           NEW k \in 1 .. Len(buf[p])
    PROVE  LET f == file[Name(p)]
               w == Written(p, k)
           IN  /\ w \in Seq(Cell)
               /\ Len(w) = IF off[p] + k > Len(f) THEN off[p] + k ELSE Len(f)
               /\ \A i \in 1 .. Len(w) :
                     w[i] = IF off[p] < i /\ i <= off[p] + k THEN buf[p][i - off[p]]
                            ELSE IF i <= Len(f) THEN f[i] ELSE Hole
<1> DEFINE f == file[Name(p)]
           n == IF off[p] + k > Len(f) THEN off[p] + k ELSE Len(f)
           v == [i \in 1 .. n |-> IF i \in off[p] + 1 .. off[p] + k
                                  THEN buf[p][i - off[p]]
                                  ELSE IF i <= Len(f) THEN f[i] ELSE Hole]
<1>1. off[p] \in Nat /\ buf[p] \in Seq(Cell) /\ f \in Seq(Cell) /\ k \in Nat
      /\ Len(f) \in Nat /\ Len(buf[p]) \in Nat /\ k <= Len(buf[p])
  BY DEF TypeOK
<1>2. n \in Nat
  BY <1>1
<1>3. \A i \in 1 .. n : v[i] \in Cell
  <2> SUFFICES ASSUME NEW i \in 1 .. n PROVE v[i] \in Cell
    OBVIOUS
  <2>1. CASE i \in off[p] + 1 .. off[p] + k
    BY <1>1, <2>1
  <2>2. CASE i \notin off[p] + 1 .. off[p] + k /\ i <= Len(f)
    BY <1>1, <2>2
  <2>3. CASE i \notin off[p] + 1 .. off[p] + k /\ ~(i <= Len(f))
    BY <2>3 DEF Cell
  <2>4. QED
    BY <2>1, <2>2, <2>3
<1>4. v \in [1 .. n -> Cell]
  BY <1>3
<1>5. v \in Seq(Cell) /\ Len(v) = n
  BY <1>2, <1>4, FunctionIsSeq
<1>6. Written(p, k) = v
  BY DEF Written
<1>7. QED
  BY <1>1, <1>5, <1>6

(* The steps of p that leave the files, the buffers and the offsets alone. *)
Quiet(p) ==
    \/ Read(p) \/ ReadFatal(p) \/ Encode(p) \/ EncodeFatal(p) \/ EncodeIgnored(p)
    \/ OpenFatal(p) \/ OpenIgnored(p) \/ WriteFatal(p) \/ WriteIgnored(p)
    \/ Finish(p) \/ Close(p) \/ CloseIgnored(p) \/ Report(p) \/ Kill(p)

LEMMA StepKinds ==
    ASSUME NEW p \in Proc, Step(p) \/ Kill(p)
    PROVE  Quiet(p) \/ Open(p) \/ Put(p) \/ Flush(p)
BY DEF Step, Quiet

LEMMA QuietParts ==
    ASSUME IInv, NEW p \in Proc, Quiet(p)
    PROVE  /\ UNCHANGED <<job, todo, buf, off, file>>
           /\ pc' \in [Proc -> Working \cup Stopped]
           /\ printed' \subseteq Proc /\ ignored' \subseteq Proc
           /\ Progress'
           /\ \A q \in Proc : Has(q)' => Has(q)
           /\ \A q \in Proc : pc'[q] \in Early => pc[q] \in Early
<1> USE DEF IInv, TypeOK, Goto, Early, Working, Stopped, Progress, Has
<1>0. \A q \in Proc : job[q].format \in Format
  BY JobParts
<1>1. CASE Read(p) \/ ReadFatal(p) \/ Encode(p) \/ EncodeFatal(p) \/ EncodeIgnored(p)
  BY <1>0, <1>1 DEF Read, ReadFatal, Encode, EncodeFatal, EncodeIgnored, Begin
<1>2. CASE OpenFatal(p) \/ OpenIgnored(p)
  BY <1>0, <1>2 DEF OpenFatal, OpenIgnored
<1>3. CASE WriteFatal(p) \/ WriteIgnored(p) \/ Finish(p)
  BY <1>0, <1>3 DEF WriteFatal, WriteIgnored, Finish
<1>4. CASE Close(p) \/ CloseIgnored(p)
  BY <1>0, <1>4 DEF Close, CloseIgnored
<1>5. CASE Report(p) \/ Kill(p)
  BY <1>0, <1>5 DEF Report, Kill
<1>6. QED
  BY <1>1, <1>2, <1>3, <1>4, <1>5 DEF Quiet

LEMMA QuietStep ==
    ASSUME IInv, NEW p \in Proc, Quiet(p)
    PROVE  IInv'
<1>1. /\ UNCHANGED <<job, todo, buf, off, file>>
      /\ pc' \in [Proc -> Working \cup Stopped]
      /\ printed' \subseteq Proc /\ ignored' \subseteq Proc
      /\ Progress'
      /\ \A q \in Proc : Has(q)' => Has(q)
      /\ \A q \in Proc : pc'[q] \in Early => pc[q] \in Early
  BY QuietParts
<1>2. TypeOK' /\ Stream'
  BY <1>1 DEF IInv, TypeOK, Stream
<1>3. Filled'
  <2> SUFFICES ASSUME NEW n \in File, (file[n] # Before[n] \/ Touched(n))'
               PROVE  (file[n] \in Seq(Cell) /\ InPlace(n) /\ Bounded(n) /\ Led(n))'
    BY DEF Filled
  <2>1. file[n] # Before[n] \/ Touched(n)
    BY <1>1 DEF Touched, Name
  <2>2. file[n] \in Seq(Cell) /\ InPlace(n) /\ Bounded(n) /\ Led(n)
    BY <2>1 DEF IInv, Filled
  <2>3. file'[n] \in Seq(Cell) /\ InPlace(n)'
    BY <1>1, <2>2 DEF InPlace, Name
  <2>4. Bounded(n)'
    BY <1>1, <2>2 DEF Bounded, Name
  <2>5. Led(n)'
    BY <1>1, <2>2 DEF Led, Name
  <2>6. QED
    BY <2>3, <2>4, <2>5
<1>4. Mine'
  BY <1>1 DEF IInv, Mine, Alone, Name
<1>5. Untouched'
  BY <1>1 DEF IInv, Untouched, Name
<1>6. QED
  BY <1>1, <1>2, <1>3, <1>4, <1>5 DEF IInv

(* A process opens: it leads the file from now on.                         *)
LEMMA OpenStep ==
    ASSUME IInv, NEW p \in Proc, Open(p)
    PROVE  IInv'
<1> USE DEF Open, Goto
<1>0. TypeOK /\ Stream /\ Progress /\ Filled /\ Mine /\ Untouched
  BY DEF IInv
<1>1. Name(p) \in File /\ off[p] = 0 /\ buf[p] = <<>>
  BY <1>0, JobParts DEF TypeOK, Name, Progress, Early
<1>2. TypeOK'
  BY <1>0 DEF TypeOK, Working
<1>3. Stream'
  BY <1>0 DEF Stream
<1>4. Progress'
  BY <1>0 DEF TypeOK, Progress, Early
<1>5. \A q \in Proc : /\ q # p => (Has(q)' <=> Has(q))
                      /\ pc'[q] \in Early => pc[q] \in Early
  BY <1>0 DEF TypeOK, Has, Early
<1>6. pc'[p] \notin Early /\ file'[Name(p)] = <<>>
  BY <1>0, <1>1 DEF TypeOK, Early
<1>7. Filled'
  <2> SUFFICES ASSUME NEW n \in File, (file[n] # Before[n] \/ Touched(n))'
               PROVE  (file[n] \in Seq(Cell) /\ InPlace(n) /\ Bounded(n) /\ Led(n))'
    BY DEF Filled
  <2>1. CASE n = Name(p)
    <3>1. file'[n] = <<>> /\ DOMAIN file'[n] = {} /\ <<>> \in Seq(Cell)
      BY <1>6, <2>1
    <3>2. InPlace(n)' /\ Bounded(n)'
      BY <3>1 DEF InPlace, Bounded
    <3>3. Led(n)'
      <4>1. Name(p)' = n /\ off'[p] = 0
        BY <1>1, <2>1 DEF Name
      <4>2. \A i \in 1 .. off'[p] : FALSE
        BY <4>1
      <4>3. QED
        BY <1>6, <4>1, <4>2 DEF Led
    <3>4. QED
      BY <3>1, <3>2, <3>3
  <2>2. CASE n # Name(p)
    <3>1. file'[n] = file[n]
      BY <2>2 DEF Name
    <3>2. file[n] # Before[n] \/ Touched(n)
      BY <1>5, <2>2, <3>1 DEF Touched, Name
    <3>3. file[n] \in Seq(Cell) /\ InPlace(n) /\ Bounded(n) /\ Led(n)
      BY <1>0, <3>2 DEF Filled
    <3>4. file'[n] \in Seq(Cell) /\ InPlace(n)'
      BY <3>1, <3>3 DEF InPlace, Name
    <3>5. Bounded(n)'
      BY <1>5, <3>1, <3>3 DEF Bounded, Name
    <3>6. Led(n)'
      BY <1>5, <3>1, <3>3 DEF Led, Name
    <3>7. QED
      BY <3>4, <3>5, <3>6
  <2>3. QED
    BY <2>1, <2>2
<1>8. Mine'
  <2> SUFFICES ASSUME NEW q \in Proc, (Alone(q) /\ Has(q))'
               PROVE  (/\ Len(file[Name(q)]) = off[q]
                       /\ \A i \in 1 .. off[q] : file[Name(q)][i] = <<q, i>>)'
    BY DEF Mine
  <2>1. CASE q = p
    <3>1. file'[Name(q)'] = <<>> /\ off'[q] = 0
      BY <1>1, <1>6, <2>1 DEF Name
    <3>2. Len(<<>>) = 0 /\ \A i \in 1 .. 0 : FALSE
      OBVIOUS
    <3>3. QED
      BY <3>1, <3>2
  <2>2. CASE q # p
    <3>1. Name(q) # Name(p) /\ Alone(q) /\ Has(q)
      BY <1>5, <2>2 DEF Alone, Name
    <3>2. file'[Name(q)'] = file[Name(q)] /\ off'[q] = off[q]
      BY <3>1 DEF Name
    <3>3. /\ Len(file[Name(q)]) = off[q]
          /\ \A i \in 1 .. off[q] : file[Name(q)][i] = <<q, i>>
      BY <1>0, <3>1 DEF Mine
    <3>4. QED
      BY <3>2, <3>3
  <2>3. QED
    BY <2>1, <2>2
<1>9. Untouched'
  <2> SUFFICES ASSUME NEW n \in File, \A q \in Proc : Name(q)' = n => pc'[q] \in Early
               PROVE  file'[n] = Before[n]
    BY DEF Untouched
  <2>1. n # Name(p)
    BY <1>6 DEF Name
  <2>2. \A q \in Proc : Name(q) = n => pc[q] \in Early
    BY <1>5 DEF Name
  <2>3. QED
    BY <1>0, <2>1, <2>2 DEF Untouched, Name
<1>10. QED
  BY <1>2, <1>3, <1>4, <1>7, <1>8, <1>9 DEF IInv

(* The next cell of the product joins the buffer.                          *)
LEMMA PutStep ==
    ASSUME IInv, NEW p \in Proc, Put(p)
    PROVE  IInv'
<1> USE DEF Put
<1>0. TypeOK /\ Stream /\ Progress /\ Filled /\ Mine /\ Untouched
  BY DEF IInv
<1>1. todo[p] \in Seq(Cell) /\ buf[p] \in Seq(Cell) /\ off[p] \in Nat
      /\ job[p].size \in Nat /\ Len(todo[p]) \in Nat /\ Len(buf[p]) \in Nat
  BY <1>0, JobParts DEF TypeOK
<1>2. /\ Head(todo[p]) \in Cell
      /\ Tail(todo[p]) \in Seq(Cell)
      /\ Len(Tail(todo[p])) = Len(todo[p]) - 1
      /\ \A i \in 1 .. Len(todo[p]) - 1 : Tail(todo[p])[i] = todo[p][i + 1]
      /\ Head(todo[p]) = todo[p][1] /\ Len(todo[p]) >= 1
  BY <1>1
<1>3. LET b == Append(buf[p], Head(todo[p]))
      IN  /\ b \in Seq(Cell) /\ Len(b) = Len(buf[p]) + 1
          /\ \A i \in 1 .. Len(buf[p]) : b[i] = buf[p][i]
          /\ b[Len(buf[p]) + 1] = Head(todo[p])
  BY <1>1, <1>2
<1>4. TypeOK'
  BY <1>0, <1>2, <1>3 DEF TypeOK
<1>5. Stream'
  <2> SUFFICES ASSUME NEW q \in Proc
               PROVE  (/\ Len(buf[q]) <= Cap
                       /\ off[q] + Len(buf[q]) + Len(todo[q]) = job[q].size
                       /\ \A i \in 1 .. Len(buf[q]) : buf[q][i] = <<q, off[q] + i>>
                       /\ \A i \in 1 .. Len(todo[q]) :
                             todo[q][i] = <<q, job[q].size - Len(todo[q]) + i>>)'
    BY DEF Stream
  <2>1. CASE q # p
    BY <1>0, <2>1 DEF Stream, TypeOK
  <2>2. CASE q = p
    <3> DEFINE b == Append(buf[p], Head(todo[p]))
    <3>1. buf'[p] = b /\ todo'[p] = Tail(todo[p])
      BY <1>0 DEF TypeOK
    <3>2. Len(b) <= Cap /\ off[p] + Len(b) + (Len(todo[p]) - 1) = job[p].size
      <4>1. Len(buf[p]) < Cap /\ off[p] + Len(buf[p]) + Len(todo[p]) = job[p].size
        BY <1>0 DEF Stream
      <4>2. Len(b) = Len(buf[p]) + 1
        BY <1>3
      <4>3. Cap \in Nat
        BY CapAssumption
      <4>4. /\ Len(buf[p]) + 1 <= Cap
            /\ off[p] + (Len(buf[p]) + 1) + (Len(todo[p]) - 1) = job[p].size
        BY <1>1, <4>1, <4>3, MoveOne
      <4> HIDE DEF b
      <4>5. QED
        BY <4>2, <4>4
    <3>3. Head(todo[p]) = <<p, off[p] + Len(buf[p]) + 1>>
      <4>1. todo[p][1] = <<p, job[p].size - Len(todo[p]) + 1>>
        BY <1>0, <1>1, <1>2 DEF Stream
      <4>2. job[p].size - Len(todo[p]) + 1 = off[p] + Len(buf[p]) + 1
        BY <1>0, <1>1 DEF Stream
      <4>3. QED
        BY <1>2, <4>1, <4>2
    <3>4. ASSUME NEW i \in 1 .. Len(b)
          PROVE  b[i] = <<p, off[p] + i>>
      <4>1. CASE i = Len(buf[p]) + 1
        <5>1. off[p] + Len(buf[p]) + 1 = off[p] + i
          BY <1>1, <4>1
        <5>2. QED
          BY <1>3, <3>3, <4>1, <5>1
      <4>2. CASE i \in 1 .. Len(buf[p])
        BY <1>0, <1>3, <4>2 DEF Stream
      <4>3. QED
        BY <1>1, <1>3, <4>1, <4>2
    <3>5. ASSUME NEW i \in 1 .. Len(todo[p]) - 1
          PROVE  Tail(todo[p])[i] = <<p, job[p].size - (Len(todo[p]) - 1) + i>>
      <4>1. todo[p][i + 1] = <<p, job[p].size - Len(todo[p]) + (i + 1)>>
        BY <1>0, <1>1, <1>2 DEF Stream
      <4>2. job[p].size - Len(todo[p]) + (i + 1) = job[p].size - (Len(todo[p]) - 1) + i
        BY <1>1
      <4>3. QED
        BY <1>2, <4>1, <4>2
    <3>6. QED
      BY <1>2, <2>2, <3>1, <3>2, <3>4, <3>5
  <2>3. QED
    BY <2>1, <2>2
<1>6. Progress'
  BY <1>0 DEF TypeOK, Progress, Early
<1>7. \A q \in Proc : Has(q)' <=> Has(q)
  BY DEF Has
<1>8. Filled'
  <2> SUFFICES ASSUME NEW n \in File, (file[n] # Before[n] \/ Touched(n))'
               PROVE  (file[n] \in Seq(Cell) /\ InPlace(n) /\ Bounded(n) /\ Led(n))'
    BY DEF Filled
  <2>1. \A q \in Proc : q # p => buf'[q] = buf[q]
    BY <1>0 DEF TypeOK
  <2>2. Has(p)
    BY DEF Has
  <2>3. file[n] # Before[n] \/ Touched(n)
    BY <1>7, <2>1, <2>2 DEF Touched, Name
  <2>4. file[n] \in Seq(Cell) /\ InPlace(n) /\ Bounded(n) /\ Led(n)
    BY <1>0, <2>3 DEF Filled
  <2>5. QED
    BY <2>4 DEF InPlace, Bounded, Led, Name
<1>9. Mine' /\ Untouched'
  BY <1>0, <1>7 DEF Mine, Untouched, Alone, Name
<1>10. QED
  BY <1>4, <1>5, <1>6, <1>8, <1>9 DEF IInv

(* write(2) takes the first k cells of the buffer.                         *)
LEMMA FlushStep ==
    ASSUME IInv, NEW p \in Proc, Flush(p)
    PROVE  IInv'
<1>0. TypeOK /\ Stream /\ Progress /\ Filled /\ Mine /\ Untouched
  BY DEF IInv
<1>1. PICK k \in 1 .. Len(buf[p]) :
          /\ file' = [file EXCEPT ![Name(p)] = Written(p, k)]
          /\ off' = [off EXCEPT ![p] = @ + k]
          /\ buf' = [buf EXCEPT ![p] = SubSeq(@, k + 1, Len(@))]
          /\ UNCHANGED <<job, pc, todo, printed, ignored>>
  BY DEF Flush
<1> DEFINE f == file[Name(p)]
           w == Written(p, k)
<1>2. buf[p] \in Seq(Cell) /\ off[p] \in Nat /\ k \in Nat \ {0} /\ k <= Len(buf[p])
      /\ Len(buf[p]) \in Nat /\ Name(p) \in File
  BY <1>0, JobParts DEF TypeOK, Name
<1>3. pc[p] \notin Early /\ Touched(Name(p)) /\ buf[p] # <<>>
  <2>1. buf[p] # <<>>
    BY <1>2
  <2>2. QED
    BY <1>0, <2>1 DEF Progress, Touched
<1>4. f \in Seq(Cell) /\ InPlace(Name(p)) /\ Bounded(Name(p)) /\ Led(Name(p))
  BY <1>0, <1>2, <1>3 DEF Filled
<1>5. /\ w \in Seq(Cell)
      /\ Len(w) = IF off[p] + k > Len(f) THEN off[p] + k ELSE Len(f)
      /\ \A i \in 1 .. Len(w) :
            w[i] = IF off[p] < i /\ i <= off[p] + k THEN buf[p][i - off[p]]
                   ELSE IF i <= Len(f) THEN f[i] ELSE Hole
  BY <1>0, <1>1, <1>4, WrittenCells
<1>6. /\ file'[Name(p)] = w /\ off'[p] = off[p] + k
      /\ buf'[p] = SubSeq(buf[p], k + 1, Len(buf[p]))
      /\ \A n \in File : n # Name(p) => file'[n] = file[n]
      /\ \A q \in Proc : q # p => off'[q] = off[q] /\ buf'[q] = buf[q]
  BY <1>0, <1>1, <1>2 DEF TypeOK
<1> HIDE DEF w
<1>7. /\ buf'[p] \in Seq(Cell) /\ Len(buf'[p]) = Len(buf[p]) - k
      /\ \A i \in 1 .. Len(buf[p]) - k : buf'[p][i] = buf[p][k + i]
  BY <1>2, <1>6
(* What was written are cells of the product of p.                         *)
<1>8. \A i \in 1 .. Len(w) :
         w[i] = IF off[p] < i /\ i <= off[p] + k THEN <<p, i>>
                ELSE IF i <= Len(f) THEN f[i] ELSE Hole
  <2> SUFFICES ASSUME NEW i \in 1 .. Len(w), off[p] < i, i <= off[p] + k
               PROVE  buf[p][i - off[p]] = <<p, i>>
    BY <1>5
  <2>1. i - off[p] \in 1 .. Len(buf[p]) /\ off[p] + (i - off[p]) = i
    BY <1>2
  <2>2. QED
    BY <1>0, <2>1 DEF Stream
<1>9. TypeOK'
  <2>1. buf' \in [Proc -> Seq(Cell)] /\ off' \in [Proc -> Nat]
    BY <1>0, <1>1, <1>2, <1>7 DEF TypeOK
  <2>2. file' = [n \in File |-> file'[n]]
    BY <1>0, <1>1 DEF TypeOK
  <2>3. QED
    BY <1>0, <1>1, <2>1, <2>2 DEF TypeOK
<1>10. Stream'
  <2> SUFFICES ASSUME NEW q \in Proc
               PROVE  (/\ Len(buf[q]) <= Cap
                       /\ off[q] + Len(buf[q]) + Len(todo[q]) = job[q].size
                       /\ \A i \in 1 .. Len(buf[q]) : buf[q][i] = <<q, off[q] + i>>
                       /\ \A i \in 1 .. Len(todo[q]) :
                             todo[q][i] = <<q, job[q].size - Len(todo[q]) + i>>)'
    BY DEF Stream
  <2>1. CASE q # p
    BY <1>0, <1>1, <1>6, <2>1 DEF Stream
  <2>2. CASE q = p
    <3>1. Len(todo[p]) \in Nat /\ job[p].size \in Nat /\ Cap \in Nat
      BY <1>0, JobParts, CapAssumption DEF TypeOK
    <3>2. Len(buf'[p]) <= Cap /\ off'[p] + Len(buf'[p]) + Len(todo[p]) = job[p].size
      BY <1>0, <1>2, <1>6, <1>7, <3>1 DEF Stream
    <3>3. ASSUME NEW i \in 1 .. Len(buf'[p])
          PROVE  buf'[p][i] = <<p, off'[p] + i>>
      <4>1. i \in 1 .. Len(buf[p]) - k /\ k + i \in 1 .. Len(buf[p])
        BY <1>2, <1>7
      <4>2. buf[p][k + i] = <<p, off[p] + (k + i)>>
        BY <1>0, <4>1 DEF Stream
      <4>3. off[p] + (k + i) = off'[p] + i
        BY <1>2, <1>6
      <4>4. QED
        BY <1>7, <4>1, <4>2, <4>3
    <3>4. \A i \in 1 .. Len(todo[p]) : todo[p][i] = <<p, job[p].size - Len(todo[p]) + i>>
      BY <1>0 DEF Stream
    <3>5. QED
      BY <1>1, <2>2, <3>2, <3>3, <3>4
  <2>3. QED
    BY <2>1, <2>2
<1>11. Progress'
  BY <1>0, <1>1, <1>3, <1>6, <1>7 DEF Progress
<1>12. \A q \in Proc : Has(q)' <=> Has(q)
  BY <1>1 DEF Has
<1>13. Filled'
  <2> SUFFICES ASSUME NEW n \in File, (file[n] # Before[n] \/ Touched(n))'
               PROVE  (file[n] \in Seq(Cell) /\ InPlace(n) /\ Bounded(n) /\ Led(n))'
    BY DEF Filled
  <2>1. CASE n # Name(p)
    <3>1. file[n] # Before[n] \/ Touched(n)
      BY <1>1, <1>6, <1>12, <2>1 DEF Touched, Name
    <3>2. file[n] \in Seq(Cell) /\ InPlace(n) /\ Bounded(n) /\ Led(n)
      BY <1>0, <3>1 DEF Filled
    <3>3. file'[n] \in Seq(Cell) /\ InPlace(n)'
      BY <1>1, <1>6, <2>1, <3>2 DEF InPlace, Name
    <3>4. Bounded(n)'
      BY <1>1, <1>6, <2>1, <3>2 DEF Bounded, Name
    <3>5. Led(n)'
      BY <1>1, <1>6, <2>1, <3>2 DEF Led, Name
    <3>6. QED
      BY <3>3, <3>4, <3>5
  <2>2. CASE n = Name(p)
    <3>0. /\ file'[n] = w /\ DOMAIN w = 1 .. Len(w)
          /\ DOMAIN f = 1 .. Len(f) /\ Len(f) \in Nat
      BY <1>4, <1>5, <1>6, <2>2
    <3>1. InPlace(n)'
      <4> SUFFICES ASSUME NEW i \in 1 .. Len(w)
                   PROVE  w[i] = Hole \/ \E q \in Proc : Name(q) = n /\ w[i] = <<q, i>>
        BY <1>1, <3>0 DEF InPlace, Name
      <4>1. CASE off[p] < i /\ i <= off[p] + k
        BY <1>8, <2>2, <4>1
      <4>2. CASE ~(off[p] < i /\ i <= off[p] + k) /\ i <= Len(f)
        BY <1>4, <1>8, <2>2, <3>0, <4>2 DEF InPlace
      <4>3. CASE ~(off[p] < i /\ i <= off[p] + k) /\ ~(i <= Len(f))
        BY <1>8, <4>3
      <4>4. QED
        BY <4>1, <4>2, <4>3
    <3>2. Bounded(n)'
      <4> SUFFICES ASSUME NEW i \in 1 .. Len(w)
                   PROVE  \E q \in Proc : Name(q) = n /\ pc[q] \notin Early /\ i <= off'[q]
        BY <1>1, <3>0 DEF Bounded, Name
      <4>1. CASE i <= off[p] + k
        BY <1>3, <1>6, <2>2, <4>1
      <4>2. CASE ~(i <= off[p] + k)
        <5>1. i \in 1 .. Len(f)
          BY <1>2, <1>5, <3>0, <4>2
        <5>2. PICK q \in Proc : Name(q) = n /\ pc[q] \notin Early /\ i <= off[q]
          BY <1>4, <2>2, <3>0, <5>1 DEF Bounded
        <5>3. q # p
          BY <1>2, <4>2, <5>1, <5>2
        <5>4. QED
          BY <1>6, <5>2, <5>3
      <4>3. QED
        BY <4>1, <4>2
    <3>3. Led(n)'
      <4>1. PICK r \in Proc :
               /\ Name(r) = n /\ pc[r] \notin Early
               /\ \A i \in 1 .. off[r] : i \in DOMAIN f /\ f[i] # Hole
        BY <1>4, <2>2 DEF Led
      <4>2. ASSUME NEW i \in 1 .. off'[r]
            PROVE  i \in 1 .. Len(w) /\ w[i] # Hole
        <5>1. CASE off[p] < i /\ i <= off[p] + k
          <6>1. i \in 1 .. Len(w)
            BY <1>2, <1>5, <3>0, <5>1
          <6>2. w[i] = <<p, i>>
            BY <1>8, <5>1, <6>1
          <6>3. i # 0
            OBVIOUS
          <6>4. QED
            BY <6>1, <6>2, <6>3 DEF Hole
        <5>2. CASE ~(off[p] < i /\ i <= off[p] + k)
          <6>1. i \in 1 .. off[r]
            <7>1. off[r] \in Nat
              BY <1>0 DEF TypeOK
            <7>2. CASE r = p
              BY <1>2, <1>6, <5>2, <7>2
            <7>3. CASE r # p
              BY <1>6, <7>3
            <7>4. QED
              BY <7>2, <7>3
          <6>2. i \in 1 .. Len(f) /\ f[i] # Hole
            BY <3>0, <4>1, <6>1
          <6>3. i \in 1 .. Len(w)
            BY <1>2, <1>5, <3>0, <6>2
          <6>4. i <= Len(f) /\ w[i] = f[i]
            <7>1. i <= Len(f)
              BY <3>0, <6>2
            <7>2. QED
              BY <1>8, <5>2, <6>3, <7>1
          <6>5. QED
            BY <6>2, <6>3, <6>4
        <5>3. QED
          BY <5>1, <5>2
      <4>3. QED
        BY <1>1, <3>0, <4>1, <4>2 DEF Led, Name
    <3>4. QED
      BY <1>5, <3>0, <3>1, <3>2, <3>3
  <2>3. QED
    BY <2>1, <2>2
<1>14. Mine'
  <2> SUFFICES ASSUME NEW q \in Proc, (Alone(q) /\ Has(q))'
               PROVE  (/\ Len(file[Name(q)]) = off[q]
                       /\ \A i \in 1 .. off[q] : file[Name(q)][i] = <<q, i>>)'
    BY DEF Mine
  <2>1. /\ Alone(q) /\ Has(q) /\ Name(q)' = Name(q) /\ Name(q) \in File
        /\ Len(file[Name(q)]) = off[q]
        /\ \A i \in 1 .. off[q] : file[Name(q)][i] = <<q, i>>
    <3>1. Alone(q) /\ Has(q) /\ Name(q)' = Name(q) /\ Name(q) \in File
      BY <1>0, <1>1, <1>12, JobParts DEF Alone, Name, TypeOK
    <3>2. QED
      BY <1>0, <3>1 DEF Mine
  <2>2. CASE q # p
    <3>1. Name(q) # Name(p)
      BY <2>1, <2>2 DEF Alone
    <3>2. QED
      BY <1>6, <2>1, <2>2, <3>1
  <2>3. CASE q = p
    <3>1. Len(w) = off[p] + k /\ Len(f) = off[p]
      BY <1>2, <1>5, <2>1, <2>3
    <3>2. ASSUME NEW i \in 1 .. off[p] + k
          PROVE  w[i] = <<p, i>>
      <4>1. i \in 1 .. Len(w)
        BY <3>1
      <4>2. CASE off[p] < i
        <5>1. i <= off[p] + k
          BY <1>2
        <5>2. QED
          BY <1>8, <4>1, <4>2, <5>1
      <4>3. CASE ~(off[p] < i)
        <5>1. i \in 1 .. off[p] /\ i <= Len(f)
          BY <1>2, <3>1, <4>3
        <5>2. w[i] = f[i]
          BY <1>8, <4>1, <4>3, <5>1
        <5>3. QED
          BY <2>1, <2>3, <5>1, <5>2
      <4>4. QED
        BY <4>2, <4>3
    <3>3. QED
      BY <1>6, <2>1, <2>3, <3>1, <3>2
  <2>4. QED
    BY <2>2, <2>3
<1>15. Untouched'
  <2> SUFFICES ASSUME NEW n \in File, \A q \in Proc : Name(q)' = n => pc'[q] \in Early
               PROVE  file'[n] = Before[n]
    BY DEF Untouched
  <2>1. n # Name(p) /\ \A q \in Proc : Name(q) = n => pc[q] \in Early
    BY <1>1, <1>3 DEF Name
  <2>2. QED
    BY <1>0, <1>6, <2>1 DEF Untouched
<1>16. QED
  BY <1>9, <1>10, <1>11, <1>13, <1>14, <1>15 DEF IInv

---------------------------------------------------------------------------
(* Theorems.                                                               *)

LEMMA InitIInv == Init => IInv
<1> SUFFICES ASSUME Init PROVE IInv
  OBVIOUS
<1> USE DEF Init
<1>1. ASSUME NEW p \in Proc
      PROVE  /\ job[p].size \in Nat \ {0}
             /\ Product(p) \in Seq(Cell) /\ Len(Product(p)) = job[p].size
             /\ \A i \in 1 .. job[p].size : Product(p)[i] = <<p, i>>
  <2>1. job[p].size \in Nat \ {0}
    BY JobParts
  <2> DEFINE n == job[p].size
             f == [i \in 1 .. n |-> <<p, i>>]
  <2>2. f \in [1 .. n -> Cell]
    BY DEF Cell
  <2>3. f \in Seq(Cell) /\ Len(f) = n
    BY <2>1, <2>2, FunctionIsSeq
  <2>4. QED
    BY <2>1, <2>3 DEF Product
<1>2. TypeOK
  <2>1. todo \in [Proc -> Seq(Cell)]
    BY <1>1
  <2>2. buf \in [Proc -> Seq(Cell)]
    <3>1. <<>> \in Seq(Cell)
      OBVIOUS
    <3>2. QED
      BY <3>1
  <2>3. QED
    BY <2>1, <2>2, BeforeAssumption DEF TypeOK, Working
<1>3. Stream
  <2> SUFFICES ASSUME NEW p \in Proc
               PROVE  /\ Len(buf[p]) <= Cap
                      /\ off[p] + Len(buf[p]) + Len(todo[p]) = job[p].size
                      /\ \A i \in 1 .. Len(buf[p]) : buf[p][i] = <<p, off[p] + i>>
                      /\ \A i \in 1 .. Len(todo[p]) :
                            todo[p][i] = <<p, job[p].size - Len(todo[p]) + i>>
    BY DEF Stream
  <2>1. buf[p] = <<>> /\ off[p] = 0 /\ Len(<<>>) = 0 /\ todo[p] = Product(p)
    OBVIOUS
  <2>2. \A i \in 1 .. job[p].size : job[p].size - job[p].size + i = i
    BY <1>1
  <2>3. QED
    BY <1>1, <2>1, <2>2, CapAssumption
<1>4. Progress
  BY DEF Progress
<1>5. \A p \in Proc : ~Has(p) /\ buf[p] = <<>>
  BY DEF Has
<1>6. Filled /\ Mine /\ Untouched
  BY <1>5 DEF Filled, Touched, Mine, Untouched
<1>7. QED
  BY <1>2, <1>3, <1>4, <1>6 DEF IInv

LEMMA StepIInv == IInv /\ [Next]_vars => IInv'
<1> SUFFICES ASSUME IInv, [Next]_vars PROVE IInv'
  OBVIOUS
<1>1. CASE UNCHANGED vars
  <2> USE <1>1 DEF vars, IInv, Name
  <2>1. TypeOK' /\ Stream' /\ Progress'
    BY DEF TypeOK, Stream, Progress
  <2>2. Filled'
    <3> SUFFICES ASSUME NEW n \in File, (file[n] # Before[n] \/ Touched(n))'
                 PROVE  (file[n] \in Seq(Cell) /\ InPlace(n) /\ Bounded(n) /\ Led(n))'
      BY DEF Filled
    <3>1. file[n] # Before[n] \/ Touched(n)
      BY DEF Touched, Has
    <3>2. file[n] \in Seq(Cell) /\ InPlace(n) /\ Bounded(n) /\ Led(n)
      BY <3>1 DEF Filled
    <3>3. QED
      BY <3>2 DEF InPlace, Bounded, Led
  <2>3. Mine' /\ Untouched'
    BY DEF Mine, Untouched, Alone, Has
  <2>4. QED
    BY <2>1, <2>2, <2>3
<1>2. CASE AllStopped
  BY <1>1, <1>2 DEF AllStopped
<1>3. ASSUME NEW p \in Proc, Step(p) \/ Kill(p)
      PROVE  IInv'
  BY <1>3, StepKinds, QuietStep, OpenStep, PutStep, FlushStep
<1>4. QED
  BY <1>1, <1>2, <1>3 DEF Next

THEOREM InductiveInvariant == Spec => []IInv
BY InitIInv, StepIInv, PTL DEF Spec

(* Every variable keeps its type.                                          *)
THEOREM TypeCorrect == Spec => []TypeOK
<1>1. IInv => TypeOK
  BY DEF IInv
<1>2. QED
  BY <1>1, InductiveInvariant, PTL

(* A process that ends well, alone with its name and after no failed call, *)
(* leaves its whole product, whatever its format, its length and the sizes *)
(* of the writes.                                                          *)
THEOREM WholeFile == Spec => []WholeOrToldSo
<1>1. ASSUME IInv, NEW p \in Proc, Alone(p), pc[p] = "exit 0", p \notin ignored
      PROVE  file[Name(p)] = Product(p)
  <2>1. Has(p) /\ Name(p) \in File /\ job[p].size \in Nat
    BY <1>1, JobParts DEF Has, IInv, TypeOK, Name
  <2>2. todo[p] = <<>> /\ buf[p] = <<>> /\ off[p] \in Nat
    BY <1>1 DEF IInv, Progress, TypeOK
  <2>3. off[p] = job[p].size
    <3>1. off[p] + Len(buf[p]) + Len(todo[p]) = job[p].size
      BY <1>1 DEF IInv, Stream
    <3>2. Len(<<>>) = 0
      OBVIOUS
    <3>3. QED
      BY <2>1, <2>2, <3>1, <3>2
  <2>4. /\ Len(file[Name(p)]) = off[p]
        /\ \A i \in 1 .. off[p] : file[Name(p)][i] = <<p, i>>
    BY <1>1, <2>1 DEF IInv, Mine
  <2>5. file[Name(p)] \in Seq(Cell)
    BY <1>1, <2>1 DEF IInv, Filled, Touched
  <2>6. file[Name(p)] = [i \in 1 .. Len(file[Name(p)]) |-> file[Name(p)][i]]
    BY <2>5
  <2>7. QED
    BY <2>3, <2>4, <2>6 DEF Product
<1>2. IInv => WholeOrToldSo
  BY <1>1 DEF WholeOrToldSo
<1>3. QED
  BY <1>2, InductiveInvariant, PTL

(* A writer that is not swap_write_j2k and ends well has lost at most what *)
(* was in its last buffer.                                                 *)
THEOREM AtMostTheTail == Spec => []TailOnly
<1>1. ASSUME IInv, NEW p \in Proc, Alone(p), pc[p] = "exit 0", job[p].format # "jhv"
      PROVE  /\ IsPrefix(file[Name(p)], Product(p))
             /\ Len(file[Name(p)]) >= job[p].size - Cap
  <2> DEFINE f == file[Name(p)]
             n == job[p].size
  <2>1. Has(p) /\ Name(p) \in File /\ n \in Nat
    BY <1>1, JobParts DEF Has, IInv, TypeOK, Name
  <2>2. todo[p] = <<>> /\ off[p] \in Nat /\ Len(buf[p]) \in Nat
    <3>1. todo[p] = <<>>
      BY <1>1 DEF IInv, Progress
    <3>2. off[p] \in Nat /\ buf[p] \in Seq(Cell)
      BY <1>1 DEF IInv, TypeOK
    <3>3. QED
      BY <3>1, <3>2
  <2>3. off[p] + Len(buf[p]) = n /\ Len(buf[p]) <= Cap
    <3>1. off[p] + Len(buf[p]) + Len(todo[p]) = n /\ Len(buf[p]) <= Cap
      BY <1>1 DEF IInv, Stream
    <3>2. Len(<<>>) = 0
      OBVIOUS
    <3>3. QED
      BY <2>1, <2>2, <3>1, <3>2
  <2>4. Len(f) = off[p] /\ \A i \in 1 .. off[p] : f[i] = <<p, i>>
    BY <1>1, <2>1 DEF IInv, Mine
  <2>5. f \in Seq(Cell)
    BY <1>1, <2>1 DEF IInv, Filled, Touched
  <2>6. Product(p) \in Seq(Cell) /\ Len(Product(p)) = n
    <3>1. [i \in 1 .. n |-> <<p, i>>] \in [1 .. n -> Cell]
      BY DEF Cell
    <3>2. QED
      BY <2>1, <3>1, FunctionIsSeq DEF Product
  <2>7. \A i \in 1 .. n : Product(p)[i] = <<p, i>>
    BY DEF Product
  <2>8. IsPrefix(f, Product(p))
    <3>1. SubSeq(f, 1, Len(f)) = SubSeq(Product(p), 1, Len(f))
      <4>1. SubSeq(f, 1, off[p]) = [i \in 1 .. off[p] |-> f[i]]
        BY <2>2, <2>4, <2>5
      <4>2. SubSeq(Product(p), 1, off[p]) = [i \in 1 .. off[p] |-> Product(p)[i]]
        BY <2>1, <2>2, <2>3, <2>6
      <4>3. \A i \in 1 .. off[p] : f[i] = Product(p)[i]
        <5>1. \A i \in 1 .. off[p] : i \in 1 .. n
          BY <2>1, <2>2, <2>3
        <5>2. QED
          BY <2>4, <2>7, <5>1
      <4>4. QED
        BY <2>4, <4>1, <4>2, <4>3
    <3>2. Len(f) <= Len(Product(p))
      BY <2>1, <2>2, <2>3, <2>4, <2>6
    <3>3. QED
      BY <3>1, <3>2 DEF IsPrefix
  <2>9. Len(f) >= n - Cap
    BY <2>1, <2>2, <2>3, <2>4, CapAssumption
  <2>10. QED
    BY <2>8, <2>9
<1>2. IInv => TailOnly
  BY <1>1 DEF TailOnly
<1>3. QED
  BY <1>2, InductiveInvariant, PTL

(* A process that ends before it has opened its output leaves an older     *)
(* file of that name alone.                                                *)
THEOREM OldFileKept == Spec => []OldKept
<1>1. IInv => OldKept
  BY DEF IInv, Untouched, OldKept, Early
<1>2. QED
  BY <1>1, InductiveInvariant, PTL

(* Any number of processes with one output name: each cell is where its    *)
(* product has it, and when all have ended well with products of one       *)
(* length, the file has that length and no hole.                           *)
THEOREM SharedFile == Spec => []Aligned
<1>1. ASSUME IInv, NEW n \in File
      PROVE  file[n] # Before[n] => InPlace(n)
  BY <1>1 DEF IInv, Filled
<1>2. ASSUME IInv, NEW n \in File, EndedWell(n), NEW p \in Sharers(n)
      PROVE  /\ Len(file[n]) = job[p].size
             /\ \A i \in 1 .. Len(file[n]) : file[n][i] # Hole
  <2>1. p \in Proc /\ job[p].size \in Nat /\ Has(p) /\ Name(p) = n
    BY <1>2, JobParts DEF Sharers, EndedWell, Has, IInv, TypeOK
  <2>2. file[n] \in Seq(Cell) /\ Bounded(n) /\ Led(n)
    BY <1>2, <2>1 DEF IInv, Filled, Touched
  <2>3. \A q \in Proc : Name(q) = n /\ pc[q] \notin Early => off[q] = job[p].size
    <3> SUFFICES ASSUME NEW q \in Proc, Name(q) = n, pc[q] \notin Early
                 PROVE  off[q] = job[p].size
      OBVIOUS
    <3>1. q \in Sharers(n) /\ job[q].size = job[p].size
      BY <1>2 DEF Sharers, EndedWell, Early
    <3>2. todo[q] = <<>> /\ buf[q] = <<>> /\ off[q] \in Nat
      BY <1>2, <3>1 DEF EndedWell, IInv, Progress, TypeOK
    <3>3. off[q] + Len(buf[q]) + Len(todo[q]) = job[q].size
      BY <1>2 DEF IInv, Stream
    <3>4. Len(<<>>) = 0
      OBVIOUS
    <3>5. QED
      BY <3>1, <3>2, <3>3, <3>4
  <2>4. DOMAIN file[n] = 1 .. Len(file[n]) /\ Len(file[n]) \in Nat
    BY <2>2
  <2>5. \A i \in 1 .. Len(file[n]) : i <= job[p].size
    BY <2>2, <2>3, <2>4 DEF Bounded
  <2>6. \A i \in 1 .. job[p].size : i \in 1 .. Len(file[n]) /\ file[n][i] # Hole
    BY <2>2, <2>3, <2>4 DEF Led
  <2>7. Len(file[n]) = job[p].size
    <3>1. Len(file[n]) <= job[p].size
      <4>1. CASE Len(file[n]) = 0
        BY <2>1, <4>1
      <4>2. CASE Len(file[n]) # 0
        <5>1. Len(file[n]) \in 1 .. Len(file[n])
          BY <2>4, <4>2
        <5>2. QED
          BY <2>5, <5>1
      <4>3. QED
        BY <4>1, <4>2
    <3>2. job[p].size <= Len(file[n])
      <4>1. job[p].size \in 1 .. job[p].size
        BY <1>2, <2>1, JobParts DEF IInv, TypeOK
      <4>2. QED
        BY <2>6, <4>1
    <3>3. QED
      BY <2>1, <2>4, <3>1, <3>2
  <2>8. QED
    BY <2>6, <2>7
<1>3. IInv => Aligned
  BY <1>1, <1>2 DEF Aligned
<1>4. QED
  BY <1>3, InductiveInvariant, PTL

===========================================================================
