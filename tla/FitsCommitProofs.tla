------------------------- MODULE FitsCommitProofs -------------------------
(***************************************************************************)
(* Proofs about FitsCommit, for any number of processes, any products that *)
(* are Apart, any number of names and any combination of failures.         *)
(***************************************************************************)
EXTENDS FitsCommit, SequenceTheorems, TLAPS

---------------------------------------------------------------------------
(* The inductive invariant.                                                *)

Writing == {"write", "rest", "fsync", "close"}
Filed == Writing \cup {"unlink", "finish", "done"}
Committed == Filed \cup {"dead", "unlinked"}

(* A linked file was made by a process that asked for that very name, and  *)
(* whose name no longer changes.                                           *)
Linked ==
    \A n \in Name :
        dir[n] # None => pc[dir[n]] \in Committed /\ name[dir[n]] = n

(* A descriptor refers to a file that was made under the same name.        *)
Descriptors ==
    \A p \in Proc :
        pc[p] \in Writing =>
            /\ fd[p] \in Inode
            /\ pc[fd[p]] \in Committed
            /\ name[fd[p]] = name[p]

(* A process compares only before it may overwrite, one HDU after another. *)
Comparing ==
    \A p \in Proc :
        /\ pc[p] \in {"compare", "read"} => ~nuke[p]
        /\ pc[p] = "read" => look[p] \in Look /\ look[p].next \in 0 .. Len(Data(p))

(* The FILENAMEs of a product in memory: compare_fits makes the first HDU  *)
(* the current one, and another that was it keeps the name asked for.      *)
Marks(p) ==
    LET j == job[p]
    IN  /\ hdu[p] \in {1, j.current}
        /\ \A h \in DOMAIN j.sums : label[p][h] # None => h \in {1, j.current}
        /\ j.current # 1 => label[p][j.current] \in {None, j.asked}
        /\ j.current # 1 /\ hdu[p] = j.current => name[p] = j.asked /\ label[p][1] = None

Marked ==
    \A p \in Proc :
        /\ Marks(p)
        /\ pc[p] \in Filed => label[p][hdu[p]] = name[p]

(* A file that is not empty has the bytes of a process that stopped under  *)
(* the name it was made under.                                             *)
Written ==
    \A i \in Inode :
        content[i].by # None =>
            LET q == content[i].by
            IN  /\ pc[i] \in Committed
                /\ pc[q] \in Committed
                /\ name[q] = name[i]
                /\ content[i].label = label[q]
                /\ label[q][hdu[q]] = name[q]
                /\ content[i].size = Size(q, label[q])

Names == Linked /\ Descriptors /\ Comparing /\ Marked /\ Written

(* The file under the name of p was made by a process with the same data.  *)
Shares(p) == dir[name[p]] \in Inode /\ Data(dir[name[p]]) = Data(p)

(* While no file of that name has been removed, only a process that shares *)
(* the data of a file may overwrite it, has it open, or has been given its *)
(* name.                                                                   *)
Sharing ==
    \A p \in Proc :
        Unharmed(name[p]) /\ (nuke[p] \/ pc[p] \in Filed) => Shares(p)

Opened ==
    \A p \in Proc :
        pc[p] \in Writing /\ Unharmed(name[p]) => fd[p] = dir[name[p]]

Authors ==
    \A i \in Inode :
        content[i].by # None /\ Unharmed(name[i])
            => Data(content[i].by) = Data(i)

Emptied ==
    \A n \in Name :
        dir[n] # None /\ content[dir[n]].by = None /\ Unharmed(n)
            => Rewriting(n, Data(dir[n]))

(* What compare_fits reads is the file of its name, whoever rewrites it,   *)
(* and agrees with the product up to the HDU it reads next.                *)
LooksAt(p) ==
    LET i == look[p].inode
    IN  /\ i = dir[name[p]]
        /\ look[p].was.by # None /\ Data(look[p].was.by) = Data(i)
        /\ \A h \in 1 .. look[p].next - 1 :
              h \in DOMAIN Data(i) /\ Data(i)[h] = Data(p)[h]

Looking == \A p \in Proc : pc[p] = "read" /\ Unharmed(name[p]) => LooksAt(p)

Claims == Sharing /\ Opened /\ Authors /\ Emptied /\ Looking

IInv == TypeOK /\ Names /\ Claims

---------------------------------------------------------------------------
(* Facts about the operators.                                              *)

(* A job has a name, the sums of its HDUs and a length.                    *)
LEMMA JobParts ==
    ASSUME NEW j \in Job
    PROVE  /\ j.asked \in Name
           /\ j.sums \in Seq(Sum \cup {Missing})
           /\ DOMAIN j.sums = 1 .. Len(j.sums)
           /\ Len(j.sums) \in Nat
           /\ j.current \in DOMAIN j.sums
           /\ 1 \in DOMAIN j.sums
           /\ j.size \in Nat \ {0}
           /\ j.more \in Nat
           /\ j.sums # None
<1>1. j \in JobType
  BY JobAssumption
<1>2. j.sums \in Seq(Sum \cup {Missing}) /\ j.current \in DOMAIN j.sums
  BY <1>1 DEF JobType
<1>3. DOMAIN j.sums = 1 .. Len(j.sums) /\ Len(j.sums) \in Nat
  BY <1>2
<1>4. 1 \in DOMAIN j.sums
  BY <1>2, <1>3
<1>5. QED
  BY <1>1, <1>2, <1>3, <1>4, NoneAssumption DEF JobType

(* A label given to one HDU.                                               *)
LEMMA LabelType ==
    ASSUME NEW l \in Seq(Name \cup {None}), NEW h \in DOMAIN l, NEW n \in Name
    PROVE  /\ [l EXCEPT ![h] = n] \in Seq(Name \cup {None})
           /\ DOMAIN [l EXCEPT ![h] = n] = DOMAIN l
           /\ [l EXCEPT ![h] = n][h] = n
           /\ \A g \in DOMAIN l \ {h} : [l EXCEPT ![h] = n][g] = l[g]
OBVIOUS

LEMMA LookNext ==
    ASSUME NEW l \in Look, NEW k \in Nat
    PROVE  /\ [l EXCEPT !.next = k] \in Look
           /\ [l EXCEPT !.next = k].next = k
           /\ [l EXCEPT !.next = k].inode = l.inode
           /\ [l EXCEPT !.next = k].was = l.was
BY DEF Look

LEMMA ContentParts ==
    /\ Empty \in Content /\ Empty.by = None
    /\ \A c \in Content : /\ c.by \in Proc \cup {None}
                          /\ c.label \in Seq(Name \cup {None})
                          /\ c.size \in Nat /\ c.upto \in Nat /\ c.len \in Nat
<1>1. <<>> \in Seq(Name \cup {None})
  OBVIOUS
<1>2. QED
  BY <1>1 DEF Empty, Content

LEMMA SizeType ==
    ASSUME TypeOK, NEW p \in Proc
    PROVE  Size(p, label[p]) \in Nat
<1>1. job[p].size \in Nat /\ job[p].more \in Nat
  BY JobParts DEF TypeOK
<1>2. QED
  BY <1>1 DEF Size

LEMMA OverwrittenType ==
    ASSUME TypeOK, NEW p \in Proc, NEW i \in Inode, NEW k \in Nat
    PROVE  /\ Overwritten(p, i, k) \in Content
           /\ Overwritten(p, i, k).by = p
           /\ Overwritten(p, i, k).label = label[p]
           /\ Overwritten(p, i, k).size = Size(p, label[p])
<1>1. content[i].len \in Nat
  BY ContentParts DEF TypeOK
<1>2. label[p] \in Seq(Name \cup {None}) /\ Size(p, label[p]) \in Nat
  BY SizeType DEF TypeOK
<1>3. QED
  BY <1>1, <1>2 DEF Overwritten, Content

(* What a step of a write leaves in the file.                              *)
LEMMA Writes ==
    ASSUME TypeOK, NEW p \in Proc, WriteSome(p) \/ WriteAll(p)
    PROVE  /\ pc[p] \in {"write", "rest"}
           /\ pc' = [pc EXCEPT ![p] = "rest"] \/ pc' = [pc EXCEPT ![p] = "fsync"]
           /\ UNCHANGED <<job, name, nuke, hdu, label, fd, dir, look>>
           /\ \E k \in Nat : content' = [content EXCEPT ![fd[p]] = Overwritten(p, fd[p], k)]
BY SizeType DEF WriteSome, WriteAll, Goto, memory

(* What an open does in memory.                                            *)
LEMMA LabelledType ==
    ASSUME TypeOK, NEW p \in Proc, Labelled(p)
    PROVE  /\ label' \in [Proc -> Seq(Name \cup {None})]
           /\ DOMAIN label'[p] = DOMAIN label[p]
           /\ label'[p][hdu[p]] = name[p]
           /\ \A h \in DOMAIN label[p] \ {hdu[p]} : label'[p][h] = label[p][h]
           /\ \A q \in Proc \ {p} : label'[q] = label[q]
<1> DEFINE l == [label[p] EXCEPT ![hdu[p]] = name[p]]
<1>1. label' = [label EXCEPT ![p] = l]
  BY DEF Labelled
<1>2. label[p] \in Seq(Name \cup {None}) /\ hdu[p] \in DOMAIN label[p] /\ name[p] \in Name
  BY DEF TypeOK
<1>3. /\ l \in Seq(Name \cup {None}) /\ DOMAIN l = DOMAIN label[p]
      /\ l[hdu[p]] = name[p]
      /\ \A g \in DOMAIN label[p] \ {hdu[p]} : l[g] = label[p][g]
  BY <1>2, LabelType
<1>4. label'[p] = l
  BY <1>1 DEF TypeOK
<1>5. QED
  BY <1>1, <1>3, <1>4 DEF TypeOK

---------------------------------------------------------------------------
(* Type correctness.                                                       *)

LEMMA InitType == Init => TypeOK
<1> SUFFICES ASSUME Init PROVE TypeOK
  OBVIOUS
<1>1. \A p \in Proc : /\ job[p] \in Job /\ job[p].asked \in Name
                      /\ job[p].current \in DOMAIN Data(p) /\ job[p].current \in Nat
                      /\ DOMAIN Data(p) = 1 .. Len(Data(p)) /\ Len(Data(p)) \in Nat
  <2> TAKE p \in Proc
  <2>1. job[p] \in Job
    BY DEF Init
  <2>2. QED
    BY <2>1, JobParts DEF Data
<1>2. \A p \in Proc : label[p] \in Seq(Name \cup {None}) /\ DOMAIN label[p] = DOMAIN Data(p)
  <2> TAKE p \in Proc
  <2>1. label[p] = [h \in 1 .. Len(Data(p)) |-> None]
    BY <1>1 DEF Init, Data
  <2>2. QED
    BY <1>1, <2>1
<1>3. label \in [Proc -> Seq(Name \cup {None})]
  BY <1>2 DEF Init
<1>4. hdu \in [Proc -> Nat] /\ \A p \in Proc : hdu[p] \in DOMAIN Data(p)
  BY <1>1 DEF Init
<1>5. QED
  BY <1>1, <1>2, <1>3, <1>4, ContentParts DEF Init, TypeOK, Inode, Running

LEMMA StepType ==
    ASSUME TypeOK, Descriptors, Comparing, [Next]_vars
    PROVE  TypeOK'
<1> USE DEF Data
<1>1. CASE UNCHANGED vars
  BY <1>1 DEF vars, memory, TypeOK
<1>2. CASE AllStopped
  BY <1>2 DEF AllStopped, vars, memory, TypeOK
<1>3. ASSUME NEW p \in Proc, Step(p) \/ Kill(p)
      PROVE  TypeOK'
  <2> USE <1>3 DEF Goto, Running, Stopped, memory
  <2>1. CASE OpenNew(p)
    <3>1. label' \in [Proc -> Seq(Name \cup {None})]
          /\ \A q \in Proc : DOMAIN label'[q] = DOMAIN label[q]
      BY <2>1, LabelledType DEF OpenNew
    <3>2. QED
      BY <2>1, <3>1, ContentParts DEF OpenNew, TypeOK, Inode
  <2>2. CASE OpenTruncate(p)
    <3>1. dir[name[p]] \in Inode
      BY <2>2 DEF OpenTruncate, TypeOK
    <3>2. label' \in [Proc -> Seq(Name \cup {None})]
          /\ \A q \in Proc : DOMAIN label'[q] = DOMAIN label[q]
      BY <2>2, LabelledType DEF OpenTruncate
    <3>3. QED
      BY <2>2, <3>1, <3>2, ContentParts DEF OpenTruncate, TypeOK
  <2>3. CASE WriteSome(p) \/ WriteAll(p)
    <3>1. fd[p] \in Inode
      BY <2>3, Writes DEF Descriptors, Writing
    <3>2. \A k \in Nat : Overwritten(p, fd[p], k) \in Content
      BY <3>1, OverwrittenType
    <3>3. content' \in [Inode -> Content]
      <4>1. PICK k \in Nat : content' = [content EXCEPT ![fd[p]] = Overwritten(p, fd[p], k)]
        BY <2>3, Writes
      <4>2. QED
        BY <3>1, <3>2, <4>1 DEF TypeOK
    <3>4. QED
      BY <2>3, <3>3, Writes DEF TypeOK
  <2>4. CASE OpenExists(p) \/ OpenError(p)
    <3>1. label' \in [Proc -> Seq(Name \cup {None})]
          /\ \A q \in Proc : DOMAIN label'[q] = DOMAIN label[q]
      BY <2>4, LabelledType DEF OpenExists, OpenError
    <3>2. QED
      BY <2>4, <3>1 DEF OpenExists, OpenError, TypeOK
  <2>5. CASE CompareDiffer(p) \/ CompareSame(p)
    <3>1. name' \in [Proc -> Name]
      BY <2>5, SuffixAssumption DEF CompareDiffer, CompareSame, TypeOK, Name
    <3>2. 1 \in DOMAIN job[p].sums
      BY JobParts DEF TypeOK
    <3>3. hdu' \in [Proc -> Nat] /\ \A q \in Proc : hdu'[q] \in DOMAIN Data(q)
      BY <2>5, <3>2 DEF CompareDiffer, CompareSame, Compared, TypeOK
    <3>4. QED
      BY <2>5, <3>1, <3>3 DEF CompareDiffer, CompareSame, Compared, TypeOK
  <2>6. CASE CompareOpen(p)
    <3>1. dir[name[p]] \in Inode /\ content[dir[name[p]]] \in Content
      BY <2>6 DEF CompareOpen, TypeOK
    <3>2. [inode |-> dir[name[p]], was |-> content[dir[name[p]]], next |-> 0] \in Look
      BY <3>1 DEF Look
    <3>3. QED
      BY <2>6, <3>2 DEF CompareOpen, TypeOK
  <2>7. CASE CompareCount(p) \/ CompareNext(p)
    <3>1. look[p] \in Look
      BY <2>7 DEF CompareCount, CompareNext, Comparing
    <3>2. [look[p] EXCEPT !.next = 1] \in Look /\ [look[p] EXCEPT !.next = @ + 1] \in Look
      BY <3>1 DEF Look
    <3>3. look' \in [Proc -> Look \cup {None}]
      BY <2>7, <3>2 DEF CompareCount, CompareNext, TypeOK
    <3>4. QED
      BY <2>7, <3>3 DEF CompareCount, CompareNext, TypeOK
  <2>8. CASE FitsError(p) \/ CompareFatal(p)
    BY <2>8 DEF FitsError, CompareFatal, TypeOK
  <2>9. CASE WriteShort(p) \/ Fsync(p) \/ Close(p) \/ IoError(p) \/ Unlink(p)
             \/ Finish(p) \/ Kill(p)
    BY <2>9 DEF WriteShort, Fsync, Close, IoError, Unlink, Finish, Kill, TypeOK
  <2>10. QED
    BY <2>1, <2>2, <2>3, <2>4, <2>5, <2>6, <2>7, <2>8, <2>9
    DEF Step, Commit, Write, Compare
<1>4. QED
  BY <1>1, <1>2, <1>3 DEF Next

---------------------------------------------------------------------------
(* Names, descriptors and labels, which hold through every failure.        *)

(* A step of p changes nothing that others hold, and no product.           *)
LEMMA Others ==
    ASSUME TypeOK, NEW p \in Proc, Step(p) \/ Kill(p)
    PROVE  /\ job' = job
           /\ \A q \in Proc \ {p} :
                 /\ pc'[q] = pc[q] /\ name'[q] = name[q] /\ nuke'[q] = nuke[q]
                 /\ hdu'[q] = hdu[q] /\ label'[q] = label[q]
                 /\ fd'[q] = fd[q] /\ look'[q] = look[q]
<1> USE DEF Goto, TypeOK, memory
<1>1. CASE OpenNew(p) \/ OpenExists(p) \/ OpenTruncate(p) \/ OpenError(p)
  <2>1. \A q \in Proc \ {p} : label'[q] = label[q]
    BY <1>1, LabelledType DEF OpenNew, OpenExists, OpenTruncate, OpenError
  <2>2. QED
    BY <1>1, <2>1 DEF OpenNew, OpenExists, OpenTruncate, OpenError
<1>2. CASE WriteSome(p) \/ WriteAll(p)
  BY <1>2, Writes
<1>3. CASE FitsError(p) \/ WriteShort(p) \/ Fsync(p) \/ Close(p) \/ IoError(p)
  BY <1>3 DEF FitsError, WriteShort, Fsync, Close, IoError
<1>4. CASE Unlink(p) \/ Finish(p) \/ Kill(p)
  BY <1>4 DEF Unlink, Finish, Kill
<1>5. CASE CompareOpen(p) \/ CompareCount(p) \/ CompareNext(p) \/ CompareFatal(p)
  BY <1>5 DEF CompareOpen, CompareCount, CompareNext, CompareFatal
<1>6. CASE CompareSame(p) \/ CompareDiffer(p)
  BY <1>6 DEF CompareSame, CompareDiffer, Compared
<1>7. QED
  BY <1>1, <1>2, <1>3, <1>4, <1>5, <1>6, <1>3 DEF Step, Commit, Write, Compare

(* Once a process has opened a file it keeps its name and its labels.      *)
LEMMA Settled ==
    ASSUME TypeOK, NEW p \in Proc, Step(p) \/ Kill(p), pc[p] \in Committed
    PROVE  /\ pc'[p] \in Committed
           /\ pc'[p] \in Filed => pc[p] \in Filed
           /\ pc'[p] \in Writing => pc[p] \in Writing
           /\ pc[p] = "unlinked" => pc'[p] = "unlinked"
           /\ UNCHANGED <<name, nuke, hdu, label>>
<1> USE DEF Goto, TypeOK, memory, Committed, Filed, Writing
<1>1. CASE OpenNew(p) \/ OpenExists(p) \/ OpenTruncate(p) \/ OpenError(p)
  BY <1>1 DEF OpenNew, OpenExists, OpenTruncate, OpenError
<1>2. CASE WriteSome(p) \/ WriteAll(p)
  BY <1>2, Writes
<1>3. CASE FitsError(p) \/ WriteShort(p) \/ Fsync(p) \/ Close(p) \/ IoError(p)
  BY <1>3 DEF FitsError, WriteShort, Fsync, Close, IoError
<1>4. CASE Unlink(p) \/ Finish(p) \/ Kill(p)
  BY <1>4 DEF Unlink, Finish, Kill, Running
<1>5. CASE Compare(p)
  BY <1>5 DEF Compare, CompareOpen, CompareCount, CompareNext, CompareFatal,
              CompareSame, CompareDiffer
<1>6. QED
  BY <1>1, <1>2, <1>3, <1>4, <1>5 DEF Step, Commit, Write

(* What the settled keep, whoever steps.                                   *)
LEMMA Kept ==
    ASSUME TypeOK, [Next]_vars
    PROVE  /\ job' = job
           /\ \A q \in Proc : pc[q] \in Committed =>
                 /\ pc'[q] \in Committed /\ name'[q] = name[q] /\ nuke'[q] = nuke[q]
                 /\ hdu'[q] = hdu[q] /\ label'[q] = label[q]
           /\ \A q \in Proc : pc[q] = "unlinked" =>
                 pc'[q] = "unlinked" /\ name'[q] = name[q]
<1>1. CASE UNCHANGED vars
  BY <1>1 DEF vars, memory
<1>2. CASE AllStopped
  BY <1>2 DEF AllStopped, vars, memory
<1>3. ASSUME NEW p \in Proc, Step(p) \/ Kill(p)
      PROVE  /\ job' = job
             /\ \A q \in Proc : pc[q] \in Committed =>
                   /\ pc'[q] \in Committed /\ name'[q] = name[q] /\ nuke'[q] = nuke[q]
                   /\ hdu'[q] = hdu[q] /\ label'[q] = label[q]
                   /\ pc[q] = "unlinked" => pc'[q] = "unlinked"
  <2>1. job' = job
    BY <1>3, Others
  <2>2. ASSUME NEW q \in Proc, pc[q] \in Committed
        PROVE  /\ pc'[q] \in Committed /\ name'[q] = name[q] /\ nuke'[q] = nuke[q]
               /\ hdu'[q] = hdu[q] /\ label'[q] = label[q]
               /\ pc[q] = "unlinked" => pc'[q] = "unlinked"
    <3>1. CASE q = p
      BY <1>3, <2>2, <3>1, Settled
    <3>2. CASE q # p
      BY <1>3, <2>2, <3>2, Others
    <3>3. QED
      BY <3>1, <3>2
  <2>3. QED
    BY <2>1, <2>2
<1>4. "unlinked" \in Committed
  BY DEF Committed
<1>5. QED
  BY <1>1, <1>2, <1>3, <1>4 DEF Next

(* What a step does to the directory, and to the files.                    *)
LEMMA Linking ==
    ASSUME TypeOK, NEW p \in Proc, Step(p) \/ Kill(p)
    PROVE  \/ dir' = dir
           \/ OpenNew(p) /\ dir' = [dir EXCEPT ![name[p]] = p] /\ dir[name[p]] = None
           \/ Unlink(p) /\ dir' = [dir EXCEPT ![name[p]] = None]
BY Writes
DEF Step, Commit, Write, Compare, FitsError, OpenNew, OpenExists, OpenTruncate, OpenError,
    WriteShort, Fsync, Close, IoError, Unlink, Finish, CompareOpen, CompareCount,
    CompareNext, CompareSame, CompareDiffer, Compared, CompareFatal, Kill

LEMMA Filling ==
    ASSUME TypeOK, Descriptors, NEW p \in Proc, Step(p) \/ Kill(p)
    PROVE  \/ content' = content
           \/ OpenNew(p) /\ content' = [content EXCEPT ![p] = Empty]
           \/ OpenTruncate(p) /\ content' = [content EXCEPT ![dir[name[p]]] = Empty]
           \/ /\ WriteSome(p) \/ WriteAll(p)
              /\ \E k \in Nat : content' = [content EXCEPT ![fd[p]] = Overwritten(p, fd[p], k)]
BY Writes
DEF Step, Commit, Write, Compare, FitsError, OpenNew, OpenExists, OpenTruncate, OpenError,
    WriteShort, Fsync, Close, IoError, Unlink, Finish, CompareOpen, CompareCount,
    CompareNext, CompareSame, CompareDiffer, Compared, CompareFatal, Kill

LEMMA InitNames == Init => Names
<1> SUFFICES ASSUME Init PROVE Names
  OBVIOUS
<1>1. Linked
  BY DEF Init, Linked
<1>2. Descriptors
  BY DEF Init, Descriptors, Writing
<1>3. Comparing
  BY DEF Init, Comparing
<1>4. Marked
  <2> SUFFICES ASSUME NEW p \in Proc
               PROVE  Marks(p) /\ pc[p] \notin Filed
    BY DEF Marked
  <2>1. job[p] \in Job
    BY DEF Init
  <2>2. job[p].current \in DOMAIN job[p].sums /\ 1 \in DOMAIN job[p].sums
    BY <2>1, JobParts
  <2>3. /\ hdu[p] = job[p].current /\ name[p] = job[p].asked
        /\ \A h \in DOMAIN job[p].sums : label[p][h] = None
    BY DEF Init
  <2>4. Marks(p)
    BY <2>2, <2>3 DEF Marks
  <2>5. QED
    BY <2>4 DEF Init, Filed, Writing
<1>5. Written
  BY ContentParts DEF Init, Written
<1>6. QED
  BY <1>1, <1>2, <1>3, <1>4, <1>5 DEF Names

LEMMA StepLinked ==
    ASSUME TypeOK, Linked, [Next]_vars
    PROVE  Linked'
<1> SUFFICES ASSUME NEW n \in Name, dir'[n] # None
             PROVE  pc'[dir'[n]] \in Committed /\ name'[dir'[n]] = n
  BY DEF Linked
<1>1. CASE dir'[n] = dir[n]
  <2>1. dir[n] \in Proc /\ pc[dir[n]] \in Committed /\ name[dir[n]] = n
    BY <1>1 DEF Linked, TypeOK, Inode
  <2>2. QED
    BY <1>1, <2>1, Kept
<1>2. CASE dir'[n] # dir[n]
  <2>1. PICK p \in Proc : Step(p) \/ Kill(p)
    BY <1>2 DEF Next, AllStopped, vars
  <2>2. OpenNew(p) /\ n = name[p] /\ dir'[n] = p
    BY <1>2, <2>1, Linking DEF TypeOK
  <2>3. QED
    BY <2>2 DEF OpenNew, Goto, Committed, Filed, Writing, TypeOK
<1>3. QED
  BY <1>1, <1>2

LEMMA StepDescriptors ==
    ASSUME TypeOK, Linked, Descriptors, [Next]_vars
    PROVE  Descriptors'
<1> SUFFICES ASSUME NEW q \in Proc, pc'[q] \in Writing
             PROVE  fd'[q] \in Inode /\ pc'[fd'[q]] \in Committed /\ name'[fd'[q]] = name'[q]
  BY DEF Descriptors
<1>0. pc[q] \in Writing => pc[q] \in Committed /\ fd[q] \in Inode /\ fd[q] \in Proc
                           /\ pc[fd[q]] \in Committed /\ name[fd[q]] = name[q]
  BY DEF Descriptors, Committed, Filed, Inode
<1>1. CASE pc[q] \in Writing /\ fd'[q] = fd[q]
  BY <1>0, <1>1, Kept
<1>2. CASE ~(pc[q] \in Writing /\ fd'[q] = fd[q])
  <2>1. PICK p \in Proc : Step(p) \/ Kill(p)
    BY <1>2 DEF Next, AllStopped, vars
  <2>2. p = q
    BY <1>2, <2>1, Others
  <2>3. OpenNew(q) \/ OpenTruncate(q)
    BY <1>2, <2>1, <2>2, Writes
    DEF Step, Commit, Write, Compare, FitsError, OpenExists, OpenError, WriteShort, Fsync,
        Close, IoError, Unlink, Finish, CompareOpen, CompareCount, CompareNext, CompareSame,
        CompareDiffer, CompareFatal, Kill, Goto, TypeOK, Writing
  <2>4. CASE OpenNew(q)
    BY <2>4 DEF OpenNew, Goto, TypeOK, Inode, Writing, Filed, Committed
  <2>5. CASE OpenTruncate(q)
    <3>1. /\ dir[name[q]] \in Inode /\ dir[name[q]] \in Proc
          /\ pc[dir[name[q]]] \in Committed /\ name[dir[name[q]]] = name[q]
      BY <2>5 DEF OpenTruncate, Linked, TypeOK, Inode
    <3>2. fd'[q] = dir[name[q]] /\ name' = name
      BY <2>5 DEF OpenTruncate, TypeOK
    <3>3. QED
      BY <3>1, <3>2, Kept
  <2>6. QED
    BY <2>3, <2>4, <2>5
<1>3. QED
  BY <1>1, <1>2

(* compare_fits goes on to the next HDU of the file it has open.           *)
LEMMA ReadsOn ==
    ASSUME TypeOK, NEW p \in Proc, look[p] \in Look, CompareCount(p) \/ CompareNext(p)
    PROVE  /\ look'[p] \in Look
           /\ look'[p].next = look[p].next + 1
           /\ look'[p].inode = look[p].inode
           /\ look'[p].was = look[p].was
<1> DEFINE k == look[p].next + 1
<1>1. look[p].next \in Nat /\ k \in Nat
  BY DEF Look
<1>2. look' = [look EXCEPT ![p] = [look[p] EXCEPT !.next = k]]
  <2>1. CASE CompareCount(p)
    <3>1. k = 1
      BY <2>1 DEF CompareCount
    <3>2. look' = [look EXCEPT ![p] = [look[p] EXCEPT !.next = 1]]
      BY <2>1 DEF CompareCount
    <3>3. QED
      BY <3>1, <3>2
  <2>2. CASE CompareNext(p)
    BY <2>2 DEF CompareNext
  <2>3. QED
    BY <2>1, <2>2
<1>3. look'[p] = [look[p] EXCEPT !.next = k]
  BY <1>2 DEF TypeOK
<1> HIDE DEF k
<1>4. /\ look'[p] \in Look /\ look'[p].next = k
      /\ look'[p].inode = look[p].inode /\ look'[p].was = look[p].was
  BY <1>1, <1>3, LookNext
<1>5. QED
  BY <1>4 DEF k

LEMMA StepComparing ==
    ASSUME TypeOK, Comparing, [Next]_vars
    PROVE  Comparing'
<1> SUFFICES ASSUME NEW q \in Proc
             PROVE  (/\ pc[q] \in {"compare", "read"} => ~nuke[q]
                     /\ pc[q] = "read" => look[q] \in Look /\ look[q].next \in 0 .. Len(Data(q)))'
  BY DEF Comparing
<1>1. CASE UNCHANGED <<pc[q], nuke[q], look[q], job>>
  BY <1>1 DEF Comparing, Data
<1>2. CASE ~UNCHANGED <<pc[q], nuke[q], look[q], job>>
  <2>1. PICK p \in Proc : Step(p) \/ Kill(p)
    BY <1>2 DEF Next, AllStopped, vars
  <2>2. p = q
    BY <1>2, <2>1, Others
  <2> USE DEF Goto, TypeOK, Data
  <2>3. job[q] \in Job /\ Len(Data(q)) \in Nat
    BY JobParts
  <2>4. CASE CompareOpen(q)
    <3>1. dir[name[q]] \in Inode /\ content[dir[name[q]]] \in Content
      BY <2>4 DEF CompareOpen
    <3>2. [inode |-> dir[name[q]], was |-> content[dir[name[q]]], next |-> 0] \in Look
      BY <3>1 DEF Look
    <3>3. QED
      BY <2>3, <2>4, <3>2 DEF CompareOpen, Comparing
  <2>5. CASE CompareCount(q) \/ CompareNext(q)
    <3>1. /\ pc[q] = "read" /\ look[q] \in Look /\ ~nuke[q]
          /\ pc'[q] = "read" /\ nuke' = nuke /\ job' = job
      BY <2>5 DEF CompareCount, CompareNext, Comparing
    <3>2. look'[q] \in Look /\ look'[q].next = look[q].next + 1
      BY <2>5, <3>1, ReadsOn
    <3>3. look[q].next \in 0 .. Len(Data(q)) - 1
      <4>1. Len(Data(q)) > 0
        BY <2>3, JobParts
      <4>2. QED
        BY <2>3, <2>5, <4>1 DEF CompareCount, CompareNext
    <3>4. look[q].next + 1 \in 0 .. Len(Data(q))
      BY <2>3, <3>3
    <3>5. QED
      BY <3>1, <3>2, <3>4
  <2>6. CASE CompareSame(q) \/ CompareDiffer(q) \/ CompareFatal(q)
    BY <2>6 DEF CompareSame, CompareDiffer, CompareFatal
  <2>8. CASE FitsError(q) \/ OpenNew(q) \/ OpenExists(q) \/ OpenTruncate(q) \/ OpenError(q)
    BY <2>8 DEF FitsError, OpenNew, OpenExists, OpenTruncate, OpenError
  <2>9. CASE Write(q) \/ Unlink(q) \/ Finish(q) \/ Kill(q)
    BY <2>9, Writes DEF Write, WriteShort, Fsync, Close, IoError, Unlink, Finish, Kill
  <2>10. QED
    BY <2>1, <2>2, <2>4, <2>5, <2>6, <2>8, <2>9 DEF Step, Commit, Compare
<1>3. QED
  BY <1>1, <1>2

(* An open labels the current HDU with the name it opens.                  *)
LEMMA LabelledMarks ==
    ASSUME TypeOK, NEW p \in Proc, Marks(p), Labelled(p),
           UNCHANGED <<job, name, hdu>>
    PROVE  Marks(p)' /\ label'[p][hdu[p]] = name[p]
<1>1. /\ job[p] \in Job /\ job[p].asked \in Name /\ name[p] \in Name
      /\ job[p].current \in DOMAIN job[p].sums /\ 1 \in DOMAIN job[p].sums
      /\ hdu[p] \in DOMAIN job[p].sums /\ DOMAIN label[p] = DOMAIN job[p].sums
  BY JobParts DEF TypeOK, Data
<1>2. /\ label'[p][hdu[p]] = name[p]
      /\ \A h \in DOMAIN job[p].sums \ {hdu[p]} : label'[p][h] = label[p][h]
  BY <1>1, LabelledType
<1>3. QED
  BY <1>1, <1>2 DEF Marks

LEMMA StepMarked ==
    ASSUME TypeOK, Marked, [Next]_vars
    PROVE  Marked'
<1> SUFFICES ASSUME NEW q \in Proc
             PROVE  Marks(q)' /\ (pc'[q] \in Filed => label'[q][hdu'[q]] = name'[q])
  BY DEF Marked
<1>0. Marks(q) /\ (pc[q] \in Filed => label[q][hdu[q]] = name[q])
  BY DEF Marked
<1>1. CASE UNCHANGED <<pc[q], name[q], hdu[q], label[q], job>>
  BY <1>0, <1>1 DEF Marks
<1>2. CASE ~UNCHANGED <<pc[q], name[q], hdu[q], label[q], job>>
  <2>1. PICK p \in Proc : Step(p) \/ Kill(p)
    BY <1>2 DEF Next, AllStopped, vars, memory
  <2>2. p = q
    BY <1>2, <2>1, Others
  <2> USE DEF Goto, TypeOK, memory
  <2>3. CASE pc[q] \in Committed
    <3>1. UNCHANGED <<name, hdu, label, job>> /\ (pc'[q] \in Filed => pc[q] \in Filed)
      BY <2>1, <2>2, <2>3, Settled, Others
    <3>2. QED
      BY <1>0, <3>1 DEF Marks
  <2>4. CASE OpenNew(q) \/ OpenExists(q) \/ OpenTruncate(q) \/ OpenError(q)
    <3>1. Labelled(q) /\ UNCHANGED <<job, name, hdu>>
      BY <2>4 DEF OpenNew, OpenExists, OpenTruncate, OpenError
    <3>2. QED
      BY <1>0, <3>1, LabelledMarks
  <2>5. CASE CompareSame(q) \/ CompareDiffer(q)
    <3>1. UNCHANGED <<job, label>> /\ hdu'[q] = 1 /\ pc'[q] = "commit"
      BY <2>5 DEF CompareSame, CompareDiffer, Compared
    <3>2. "commit" \notin Filed
      BY DEF Filed, Writing
    <3>3. QED
      BY <1>0, <3>1, <3>2 DEF Marks
  <2>6. CASE FitsError(q) \/ Kill(q) \/ CompareOpen(q) \/ CompareCount(q) \/ CompareNext(q)
             \/ CompareFatal(q)
    <3>1. UNCHANGED <<job, name, hdu, label>> /\ pc'[q] \in {pc[q], "dead", "read"}
      BY <2>6 DEF FitsError, Kill, CompareOpen, CompareCount, CompareNext, CompareFatal
    <3>2. "dead" \notin Filed /\ "read" \notin Filed
      BY DEF Filed, Writing
    <3>3. QED
      BY <1>0, <3>1, <3>2 DEF Marks
  <2>7. CASE Write(q) \/ Unlink(q) \/ Finish(q)
    <3>1. pc[q] \in Committed
      BY <2>7, Writes DEF Write, WriteShort, Fsync, Close, IoError, Unlink, Finish,
                          Committed, Filed, Writing
    <3>2. QED
      BY <2>3, <3>1
  <2>8. QED
    BY <2>1, <2>2, <2>4, <2>5, <2>6, <2>7 DEF Step, Commit, Compare
<1>3. QED
  BY <1>1, <1>2

LEMMA StepWritten ==
    ASSUME TypeOK, Linked, Descriptors, Marked, Written, [Next]_vars
    PROVE  Written'
<1> DEFINE Fact(i) == LET q == content[i].by
                      IN  /\ pc[i] \in Committed
                          /\ pc[q] \in Committed
                          /\ name[q] = name[i]
                          /\ content[i].label = label[q]
                          /\ label[q][hdu[q]] = name[q]
                          /\ content[i].size = Size(q, label[q])
<1> SUFFICES ASSUME NEW i \in Inode, content'[i].by # None
             PROVE  Fact(i)'
  BY DEF Written
<1>1. CASE content'[i] = content[i]
  <2>1. Fact(i) /\ i \in Proc /\ content[i].by \in Proc
    <3>1. content[i].by # None
      BY <1>1
    <3>2. QED
      BY <3>1, ContentParts DEF Written, TypeOK, Inode
  <2>2. QED
    BY <1>1, <2>1, Kept DEF Size
<1>2. CASE content'[i] # content[i]
  <2>1. PICK p \in Proc : Step(p) \/ Kill(p)
    BY <1>2 DEF Next, AllStopped, vars
  <2>2. CASE (OpenNew(p) /\ content' = [content EXCEPT ![p] = Empty])
             \/ (OpenTruncate(p) /\ content' = [content EXCEPT ![dir[name[p]]] = Empty])
    <3>1. content'[i] = Empty
      BY <1>2, <2>2 DEF TypeOK
    <3>2. QED
      BY <3>1, ContentParts
  <2>3. ASSUME WriteSome(p) \/ WriteAll(p),
               NEW k \in Nat, content' = [content EXCEPT ![fd[p]] = Overwritten(p, fd[p], k)]
        PROVE  Fact(i)'
    <3>1. i = fd[p] /\ content'[i] = Overwritten(p, i, k)
      BY <1>2, <2>3 DEF TypeOK
    <3>2. content'[i].by = p /\ content'[i].label = label[p] /\ content'[i].size = Size(p, label[p])
      BY <3>1, OverwrittenType
    <3>3. pc[p] \in Writing /\ pc[p] \in Filed /\ pc[p] \in Committed
      BY <2>3, Writes DEF Committed, Filed, Writing
    <3>4. pc[i] \in Committed /\ name[i] = name[p] /\ i \in Proc
      BY <3>1, <3>3 DEF Descriptors, Inode
    <3>5. label[p][hdu[p]] = name[p]
      BY <3>3 DEF Marked
    <3>6. /\ UNCHANGED <<job, name, hdu, label>>
          /\ pc'[i] \in Committed /\ pc'[p] \in Committed
      BY <2>3, <3>3, <3>4, Writes, Kept
    <3>7. QED
      BY <3>2, <3>4, <3>5, <3>6 DEF Size
  <2>4. QED
    BY <1>2, <2>1, <2>2, <2>3, Filling
<1>3. QED
  BY <1>1, <1>2

LEMMA StepNames ==
    ASSUME TypeOK, Names, [Next]_vars
    PROVE  Names'
BY StepLinked, StepDescriptors, StepComparing, StepMarked, StepWritten DEF Names

---------------------------------------------------------------------------
(* Who may write where, name by name until a file of that name is removed. *)

LEMMA InitClaims == Init => Claims
<1> SUFFICES ASSUME Init PROVE Sharing /\ Opened /\ Authors /\ Emptied /\ Looking
  BY DEF Claims
<1>1. Sharing
  BY DEF Init, Sharing, Filed, Writing
<1>2. Opened
  BY DEF Init, Opened, Writing
<1>3. Authors
  BY ContentParts DEF Init, Authors
<1>4. Emptied
  BY DEF Init, Emptied
<1>5. Looking
  BY DEF Init, Looking
<1>6. QED
  BY <1>1, <1>2, <1>3, <1>4, <1>5

(* The state the lemmas below start from, with a step of p.                *)
Good(p) ==
    /\ TypeOK /\ Names /\ Claims
    /\ Step(p) \/ Kill(p)
    /\ [Next]_vars

(* What was harmed stays so, and whoever is harmless now was before.       *)
LEMMA StillHarmed ==
    ASSUME TypeOK, [Next]_vars, NEW n, Unharmed(n)'
    PROVE  Unharmed(n)
BY Kept DEF Unharmed

(* The file under a name that is unharmed is the same, but where it is new.*)
LEMMA Steady ==
    ASSUME NEW p \in Proc, Good(p), NEW n \in Name, Unharmed(n)'
    PROVE  /\ Unharmed(n)
           /\ dir[n] # None => dir'[n] = dir[n]
           /\ dir'[n] # dir[n] => OpenNew(p) /\ n = name[p] /\ dir'[n] = p
<1>1. TypeOK /\ [Next]_vars /\ (Step(p) \/ Kill(p))
  BY DEF Good
<1>2. Unharmed(n)
  BY <1>1, StillHarmed
<1>3. ~(Unlink(p) /\ name[p] = n)
  BY <1>1 DEF Unharmed, Unlink, Goto, TypeOK
<1>4. QED
  BY <1>1, <1>2, <1>3, Linking DEF TypeOK

(* Two products of which all that compare_fits reads agrees are one.       *)
LEMMA AllRead ==
    ASSUME Apart, TypeOK, NEW p \in Proc, NEW i \in Proc,
           \A h \in 1 .. Len(Data(p)) : h \in DOMAIN Data(i) /\ Data(i)[h] = Data(p)[h]
    PROVE  Data(i) = Data(p)
<1>1. job[p] \in Job /\ job[i] \in Job /\ DOMAIN job[p].sums = 1 .. Len(job[p].sums)
  BY JobParts DEF TypeOK
<1>2. \A k \in DOMAIN job[p].sums \cap DOMAIN job[i].sums : job[p].sums[k] = job[i].sums[k]
  BY <1>1 DEF Data
<1>3. QED
  BY <1>1, <1>2 DEF Apart, Data

(* Whatever is read through a file that is unharmed is its product.        *)
LEMMA Read ==
    ASSUME NEW p \in Proc, TypeOK, Names, Claims, pc[p] = "read", Unharmed(name[p])
    PROVE  LET i == look[p].inode
           IN  /\ i \in Inode /\ i \in Proc /\ i = dir[name[p]]
               /\ \A v \in Views(p) : v \in Content
                                      /\ (v.by # None => Data(v.by) = Data(i))
<1> DEFINE i == look[p].inode
<1>1. LooksAt(p) /\ look[p] \in Look
  BY DEF Claims, Looking, Names, Comparing
<1>2. i \in Inode /\ i = dir[name[p]] /\ name[p] \in Name
  BY <1>1 DEF LooksAt, Look, TypeOK
<1>3. name[i] = name[p]
  BY <1>2, NoneAssumption DEF Names, Linked, Inode
<1>4. content[i].by # None => Data(content[i].by) = Data(i)
  BY <1>2, <1>3 DEF Claims, Authors
<1>5. look[p].was \in Content /\ content[i] \in Content
  BY <1>1, <1>2 DEF Look, TypeOK
<1>6. QED
  BY <1>1, <1>2, <1>4, <1>5 DEF Views, LooksAt, Inode

(* An HDU that agrees is the HDU of the product the file is of.            *)
LEMMA AgreesHdu ==
    ASSUME NEW p \in Proc, TypeOK, Names, Claims, pc[p] = "read", Unharmed(name[p]),
           look[p].next # 0, Agrees(p)
    PROVE  LET k == look[p].next
               i == look[p].inode
           IN  k \in DOMAIN Data(i) /\ Data(i)[k] = Data(p)[k]
<1> DEFINE k == look[p].next
           i == look[p].inode
<1>1. Data(p)[k] \in Sums(p, k)
  BY DEF Agrees
<1>2. PICK v \in Views(p) : v.by # None /\ k \in DOMAIN Data(v.by) /\ Data(p)[k] = Data(v.by)[k]
  BY <1>1 DEF Sums
<1>3. Data(v.by) = Data(i)
  BY <1>2, Read
<1>4. QED
  BY <1>2, <1>3

LEMMA StepSharing ==
    ASSUME Apart, NEW p \in Proc, Good(p)
    PROVE  Sharing'
<1> USE DEF Inode
<1>0. TypeOK /\ Names /\ Claims /\ [Next]_vars /\ (Step(p) \/ Kill(p))
  BY DEF Good
<1> SUFFICES ASSUME NEW q \in Proc, Unharmed(name[q])',
                    nuke'[q] \/ pc'[q] \in Filed
             PROVE  Shares(q)'
  BY DEF Sharing
<1>1. job' = job /\ TypeOK'
  BY <1>0, Kept, StepType DEF Names
<1>2. ASSUME name'[q] = name[q], Shares(q)
      PROVE  Shares(q)'
  <2>1. dir'[name[q]] = dir[name[q]]
    BY <1>0, <1>2, Steady, NoneAssumption DEF Shares, TypeOK
  <2>2. QED
    BY <1>1, <1>2, <2>1 DEF Shares, Data
<1>3. ASSUME name'[q] = name[q], nuke[q] \/ pc[q] \in Filed
      PROVE  Shares(q)'
  <2>1. Unharmed(name[q])
    BY <1>0, <1>3, StillHarmed
  <2>2. QED
    BY <1>0, <1>2, <1>3, <2>1 DEF Claims, Sharing
<1>4. CASE q # p
  BY <1>0, <1>3, <1>4, Others
<1>5. CASE q = p /\ pc[p] \in Committed
  BY <1>0, <1>3, <1>5, Settled
<1>6. CASE q = p /\ OpenNew(p)
  <2>1. name'[p] = name[p] /\ dir'[name[p]] = p
    BY <1>0, <1>6 DEF OpenNew, TypeOK
  <2>2. QED
    BY <1>1, <1>6, <2>1 DEF Shares, Data
<1>7. CASE q = p /\ CompareSame(p)
  <2>1. /\ name' = name /\ pc[p] = "read" /\ Agrees(p) /\ look[p].next = Len(Data(p))
    BY <1>7 DEF CompareSame, Goto
  <2>2. Unharmed(name[p])
    BY <1>0, <1>7, <2>1, StillHarmed
  <2>3. Len(Data(p)) \in Nat \ {0}
    <3>1. job[p] \in Job
      BY <1>0 DEF TypeOK
    <3>2. QED
      BY <3>1, JobParts DEF Data
  <2> DEFINE i == look[p].inode
  <2>4. \A h \in 1 .. Len(Data(p)) : h \in DOMAIN Data(i) /\ Data(i)[h] = Data(p)[h]
    <3>1. /\ Len(Data(p)) \in DOMAIN Data(i)
          /\ Data(i)[Len(Data(p))] = Data(p)[Len(Data(p))]
      BY <1>0, <2>1, <2>2, <2>3, AgreesHdu
    <3>2. \A h \in 1 .. Len(Data(p)) - 1 : h \in DOMAIN Data(i) /\ Data(i)[h] = Data(p)[h]
      BY <1>0, <2>1, <2>2 DEF Claims, Looking, LooksAt
    <3>3. QED
      BY <2>3, <3>1, <3>2
  <2>5. i \in Proc /\ i = dir[name[p]]
    BY <1>0, <2>1, <2>2, Read
  <2>6. Data(i) = Data(p)
    BY <1>0, <2>4, <2>5, AllRead
  <2>7. QED
    BY <1>2, <1>7, <2>1, <2>5, <2>6 DEF Shares
<1>8. CASE q = p /\ pc[p] \notin Committed /\ ~OpenNew(p) /\ ~CompareSame(p)
  <2> USE <1>0, <1>8 DEF Goto, TypeOK, Committed, Filed, Writing
  <2>1. CASE Commit(p) \/ FitsError(p) \/ Kill(p)
    <3>1. name' = name /\ nuke' = nuke /\ (pc'[p] \in Filed => nuke[p])
      BY <2>1 DEF Commit, OpenExists, OpenTruncate, OpenError, FitsError, Kill
    <3>2. QED
      BY <1>3, <3>1
  <2>2. CASE Compare(p)
    <3>1. nuke' = nuke /\ pc'[p] \notin Filed /\ ~nuke[p]
      BY <2>2 DEF Compare, CompareOpen, CompareCount, CompareNext, CompareDiffer,
                  CompareFatal, Names, Comparing
    <3>2. QED
      BY <3>1
  <2>3. CASE Write(p) \/ Unlink(p) \/ Finish(p)
    BY <2>3, Writes DEF Write, WriteShort, Fsync, Close, IoError, Unlink, Finish
  <2>4. QED
    BY <2>1, <2>2, <2>3 DEF Step
<1>9. QED
  BY <1>4, <1>5, <1>6, <1>7, <1>8

LEMMA StepOpened ==
    ASSUME NEW p \in Proc, Good(p)
    PROVE  Opened'
<1> USE DEF Inode
<1>0. TypeOK /\ Names /\ Claims /\ [Next]_vars /\ (Step(p) \/ Kill(p))
  BY DEF Good
<1> SUFFICES ASSUME NEW q \in Proc, pc'[q] \in Writing, Unharmed(name[q])'
             PROVE  fd'[q] = dir'[name'[q]]
  BY DEF Opened
<1>1. ASSUME pc[q] \in Writing, fd'[q] = fd[q], name'[q] = name[q]
      PROVE  fd'[q] = dir'[name'[q]]
  <2>1. Unharmed(name[q]) /\ name[q] \in Name
    BY <1>0, <1>1, StillHarmed DEF TypeOK
  <2>2. fd[q] = dir[name[q]] /\ fd[q] \in Proc
    BY <1>0, <1>1, <2>1 DEF Claims, Opened, Names, Descriptors
  <2>3. dir'[name[q]] = dir[name[q]]
    BY <1>0, <1>1, <2>1, <2>2, Steady, NoneAssumption
  <2>4. QED
    BY <1>1, <2>2, <2>3
<1>2. CASE q # p
  BY <1>0, <1>1, <1>2, Others
<1>3. CASE q = p
  <2> USE <1>0, <1>3 DEF Goto, TypeOK
  <2>1. CASE OpenNew(p) \/ OpenTruncate(p)
    BY <2>1 DEF OpenNew, OpenTruncate
  <2>2. CASE Write(p)
    <3>1. CASE Close(p) \/ IoError(p)
      BY <3>1 DEF Close, IoError, Writing
    <3>2. CASE WriteSome(p) \/ WriteAll(p) \/ WriteShort(p) \/ Fsync(p)
      <4>1. pc[p] \in Writing /\ fd' = fd /\ name' = name
        BY <3>2, Writes DEF WriteShort, Fsync, Writing
      <4>2. QED
        BY <1>1, <4>1
    <3>3. QED
      BY <2>2, <3>1, <3>2 DEF Write
  <2>3. CASE OpenExists(p) \/ OpenError(p) \/ FitsError(p) \/ Unlink(p) \/ Finish(p)
             \/ Compare(p) \/ Kill(p)
    BY <2>3 DEF OpenExists, OpenError, FitsError, Unlink, Finish, Kill, Compare, CompareOpen,
                CompareCount, CompareNext, CompareSame, CompareDiffer, CompareFatal, Writing
  <2>4. QED
    BY <2>1, <2>2, <2>3 DEF Step, Commit
<1>4. QED
  BY <1>2, <1>3

LEMMA StepAuthors ==
    ASSUME NEW p \in Proc, Good(p)
    PROVE  Authors'
<1> USE DEF Inode
<1>0. TypeOK /\ Names /\ Claims /\ [Next]_vars /\ (Step(p) \/ Kill(p)) /\ Descriptors
  BY DEF Good, Names
<1> SUFFICES ASSUME NEW i \in Inode, content'[i].by # None, Unharmed(name[i])'
             PROVE  (Data(content[i].by) = Data(i))'
  BY DEF Authors
<1>1. job' = job
  BY <1>0, Kept
<1>2. CASE content'[i] = content[i]
  <2>1. pc[i] \in Committed /\ name'[i] = name[i]
    BY <1>0, <1>2, Kept DEF Names, Written
  <2>2. Unharmed(name[i])
    BY <1>0, <2>1, StillHarmed
  <2>3. QED
    BY <1>0, <1>1, <1>2, <2>2 DEF Claims, Authors, Data
<1>3. CASE content'[i] # content[i]
  <2>1. content'[i] # Empty
    BY ContentParts
  <2>2. PICK k \in Nat : /\ WriteSome(p) \/ WriteAll(p)
                         /\ content' = [content EXCEPT ![fd[p]] = Overwritten(p, fd[p], k)]
    BY <1>0, <1>3, <2>1, Filling DEF TypeOK
  <2>3. i = fd[p] /\ content'[i].by = p /\ name' = name /\ pc[p] \in Writing
    BY <1>0, <1>3, <2>2, OverwrittenType, Writes DEF TypeOK, Writing
  <2>4. name[i] = name[p] /\ Unharmed(name[p])
    BY <1>0, <2>3, StillHarmed DEF Descriptors
  <2>5. i = dir[name[p]] /\ Shares(p)
    BY <1>0, <2>3, <2>4 DEF Claims, Opened, Sharing, Filed
  <2>6. QED
    BY <1>1, <2>3, <2>5 DEF Shares, Data
<1>4. QED
  BY <1>2, <1>3

LEMMA StepEmptied ==
    ASSUME NEW p \in Proc, Good(p)
    PROVE  Emptied'
<1> USE DEF Inode
<1>0. TypeOK /\ Names /\ Claims /\ [Next]_vars /\ (Step(p) \/ Kill(p)) /\ Descriptors
  BY DEF Good, Names
<1> SUFFICES ASSUME NEW n \in Name, dir'[n] # None, content'[dir'[n]].by = None,
                    Unharmed(n)'
             PROVE  Rewriting(n, Data(dir[n]))'
  BY DEF Emptied
<1>1. job' = job
  BY <1>0, Kept
<1>2. Unharmed(n) /\ (dir'[n] # dir[n] => OpenNew(p) /\ n = name[p] /\ dir'[n] = p)
  BY Steady
<1>3. CASE n = name[p] /\ (OpenNew(p) \/ OpenTruncate(p))
  <2>1. pc'[p] = "write" /\ name'[p] = n
    BY <1>0, <1>3 DEF OpenNew, OpenTruncate, Goto, TypeOK
  <2>2. Data(dir'[n]) = Data(p)
    <3>1. CASE OpenNew(p)
      BY <1>0, <1>3, <3>1 DEF OpenNew, TypeOK
    <3>2. CASE OpenTruncate(p)
      <4>1. Shares(p) /\ dir' = dir
        BY <1>0, <1>2, <1>3, <3>2 DEF OpenTruncate, Claims, Sharing
      <4>2. QED
        BY <1>3, <4>1 DEF Shares
    <3>3. QED
      BY <1>3, <3>1, <3>2
  <2>3. QED
    BY <1>1, <2>1, <2>2 DEF Rewriting, Data
<1>4. CASE ~(n = name[p] /\ (OpenNew(p) \/ OpenTruncate(p)))
  <2>1. dir'[n] = dir[n] /\ dir[n] \in Proc /\ pc[dir[n]] \in Committed /\ name[dir[n]] = n
    BY <1>0, <1>2, <1>4 DEF Names, Linked, TypeOK
  <2>2. content'[dir[n]] = content[dir[n]]
    <3>1. CASE OpenNew(p) /\ content' = [content EXCEPT ![p] = Empty]
      <4>1. dir[n] # p
        BY <2>1, <3>1 DEF OpenNew, Goto, Committed, Filed, Writing
      <4>2. QED
        BY <1>0, <2>1, <3>1, <4>1 DEF TypeOK
    <3>2. CASE OpenTruncate(p) /\ content' = [content EXCEPT ![dir[name[p]]] = Empty]
      <4>1. dir[n] # dir[name[p]]
        BY <1>0, <1>4, <2>1, <3>2 DEF OpenTruncate, Names, Linked, TypeOK
      <4>2. QED
        BY <1>0, <2>1, <3>2, <4>1 DEF TypeOK
    <3>3. ASSUME WriteSome(p) \/ WriteAll(p), NEW k \in Nat,
                 content' = [content EXCEPT ![fd[p]] = Overwritten(p, fd[p], k)]
          PROVE  content'[dir[n]] = content[dir[n]]
      <4>1. fd[p] \in Proc
        BY <1>0, <3>3, Writes DEF Descriptors, Writing
      <4>2. content'[fd[p]].by = p
        BY <1>0, <3>3, <4>1, OverwrittenType DEF TypeOK
      <4>3. dir[n] # fd[p]
        BY <2>1, <4>2, NoneAssumption
      <4>4. QED
        BY <1>0, <2>1, <3>3, <4>3 DEF TypeOK
    <3>4. QED
      BY <1>0, <3>1, <3>2, <3>3, Filling
  <2>3. PICK q \in Proc : /\ pc[q] \in {"write", "unlink", "dead"}
                          /\ name[q] = n /\ Data(q) = Data(dir[n])
    BY <1>0, <1>2, <2>1, <2>2 DEF Claims, Emptied, Rewriting
  <2>4. pc'[q] \in {"write", "unlink", "dead"} /\ name'[q] = n
    <3>0. pc[q] \in Committed
      BY <2>3 DEF Committed, Filed, Writing
    <3>1. name'[q] = n
      BY <1>0, <2>3, <3>0, Kept
    <3>2. CASE q # p
      BY <1>0, <2>3, <3>1, <3>2, Others
    <3>3. CASE q = p
      <4> USE <1>0, <2>3, <3>1, <3>3 DEF Goto, TypeOK
      <4>1. ~WriteSome(p) /\ ~WriteAll(p)
        <5> SUFFICES ASSUME WriteSome(p) \/ WriteAll(p) PROVE FALSE
          OBVIOUS
        <5>1. PICK k \in Nat : content' = [content EXCEPT ![fd[p]] = Overwritten(p, fd[p], k)]
          BY Writes
        <5>2. pc[p] \in Writing /\ fd[p] \in Proc
          BY Writes DEF Descriptors, Writing
        <5>3. content'[fd[p]].by = p
          BY <5>1, <5>2, OverwrittenType
        <5>4. fd[p] = dir[n]
          BY <1>2, <5>2 DEF Claims, Opened
        <5>5. QED
          BY <2>1, <5>3, <5>4, NoneAssumption
      <4>2. ~Unlink(p)
        BY DEF Unlink, Unharmed
      <4>3. QED
        BY <4>1, <4>2
        DEF Step, Commit, Write, Compare, FitsError, OpenNew, OpenExists, OpenTruncate,
            OpenError, WriteShort, Fsync, Close, IoError, Finish, CompareOpen, CompareCount,
            CompareNext, CompareSame, CompareDiffer, CompareFatal, Kill, Running
    <3>4. QED
      BY <3>2, <3>3
  <2>5. QED
    BY <1>1, <2>1, <2>3, <2>4 DEF Rewriting, Data
<1>5. QED
  BY <1>3, <1>4

LEMMA StepLooking ==
    ASSUME NEW p \in Proc, Good(p)
    PROVE  Looking'
<1> USE DEF Inode
<1>0. /\ TypeOK /\ Names /\ Claims /\ [Next]_vars /\ (Step(p) \/ Kill(p)) /\ Descriptors
      /\ Comparing
  BY DEF Good, Names
<1> SUFFICES ASSUME NEW q \in Proc, pc'[q] = "read", Unharmed(name[q])'
             PROVE  LooksAt(q)'
  BY DEF Looking
<1>1. job' = job
  BY <1>0, Kept
<1>2. ASSUME pc[q] = "read", look'[q] = look[q], name'[q] = name[q]
      PROVE  LooksAt(q)'
  <2>1. Unharmed(name[q]) /\ name[q] \in Name
    BY <1>0, <1>2, StillHarmed DEF TypeOK
  <2>2. LooksAt(q) /\ look[q].inode \in Proc
    BY <1>0, <1>2, <2>1, Read DEF Claims, Looking
  <2>3. dir'[name[q]] = dir[name[q]]
    BY <1>2, <2>1, <2>2, Steady, NoneAssumption DEF LooksAt
  <2>4. QED
    BY <1>1, <1>2, <2>2, <2>3 DEF LooksAt, Data
<1>3. CASE q # p
  BY <1>0, <1>2, <1>3, Others
<1>4. CASE q = p
  <2> USE <1>0, <1>4 DEF Goto, TypeOK
  <2>1. CASE CompareOpen(p)
    <3> DEFINE i == dir[name[p]]
    <3>1. /\ i \in Proc /\ content[i].by # None /\ name' = name /\ dir' = dir
          /\ look'[p] = [inode |-> i, was |-> content[i], next |-> 0]
      BY <2>1 DEF CompareOpen
    <3>2. name[i] = name[p] /\ Unharmed(name[p])
      BY <3>1, StillHarmed, NoneAssumption DEF Names, Linked
    <3>3. Data(content[i].by) = Data(i)
      BY <3>1, <3>2 DEF Claims, Authors
    <3>4. look'[p].inode = i /\ look'[p].was = content[i] /\ look'[p].next = 0
      BY <3>1
    <3>5. QED
      BY <1>1, <3>1, <3>3, <3>4 DEF LooksAt, Data
  <2>2. CASE CompareCount(p) \/ CompareNext(p)
    <3>1. /\ pc[p] = "read" /\ UNCHANGED <<name, dir>> /\ Agrees(p) /\ look[p] \in Look
          /\ look[p].next \in Nat
      BY <2>2 DEF CompareCount, CompareNext, Look, Comparing
    <3>3. /\ look'[p].inode = look[p].inode /\ look'[p].was = look[p].was
          /\ look'[p].next = look[p].next + 1
      BY <2>2, <3>1, ReadsOn
    <3>4. Unharmed(name[p])
      BY <3>1, StillHarmed
    <3>5. LooksAt(p)
      BY <3>1, <3>4 DEF Claims, Looking
    <3>6. \A h \in 1 .. look[p].next :
             h \in DOMAIN Data(look[p].inode) /\ Data(look[p].inode)[h] = Data(p)[h]
      <4> TAKE h \in 1 .. look[p].next
      <4>1. CASE h = look[p].next
        <5>1. look[p].next # 0
          BY <3>1
        <5>2. QED
          BY <3>1, <3>4, <4>1, <5>1, AgreesHdu
      <4>2. CASE h # look[p].next
        <5>1. h \in 1 .. look[p].next - 1
          BY <3>1, <4>2
        <5>2. QED
          BY <3>5, <5>1 DEF LooksAt
      <4>3. QED
        BY <4>1, <4>2
    <3>7. look'[p].next - 1 = look[p].next
      BY <3>1, <3>3
    <3>8. QED
      BY <1>1, <3>1, <3>3, <3>5, <3>6, <3>7 DEF LooksAt, Data
  <2>3. CASE ~CompareOpen(p) /\ ~CompareCount(p) /\ ~CompareNext(p)
    BY <2>3, Writes
    DEF Step, Commit, Write, Compare, FitsError, OpenNew, OpenExists, OpenTruncate,
        OpenError, WriteShort, Fsync, Close, IoError, Unlink, Finish,
        CompareSame, CompareDiffer, CompareFatal, Kill
  <2>4. QED
    BY <2>1, <2>2, <2>3
<1>5. QED
  BY <1>3, <1>4

LEMMA StepClaims ==
    ASSUME Apart, TypeOK, Names, Claims, [Next]_vars
    PROVE  Claims'
<1>1. CASE UNCHANGED vars
  BY <1>1
  DEF vars, memory, Claims, Sharing, Shares, Opened, Authors, Emptied, Looking, LooksAt,
      Rewriting, Data, Unharmed
<1>2. CASE AllStopped
  BY <1>1, <1>2 DEF AllStopped
<1>3. ASSUME NEW p \in Proc, Step(p) \/ Kill(p)
      PROVE  Claims'
  <2>1. Good(p)
    BY <1>3 DEF Good
  <2>2. QED
    BY <2>1, StepSharing, StepOpened, StepAuthors, StepEmptied, StepLooking DEF Claims
<1>4. QED
  BY <1>1, <1>2, <1>3 DEF Next

---------------------------------------------------------------------------
(* Theorems.                                                               *)

NameInv == TypeOK /\ Names

THEOREM NameInvariant == Spec => []NameInv
<1>1. Init => NameInv
  BY InitType, InitNames DEF NameInv
<1>2. NameInv /\ [Next]_vars => NameInv'
  BY StepType, StepNames DEF NameInv, Names
<1>3. QED
  BY <1>1, <1>2, PTL DEF Spec

LEMMA InitIInv == Init => IInv
BY InitType, InitNames, InitClaims DEF IInv

LEMMA StepIInv ==
    ASSUME Apart, IInv, [Next]_vars
    PROVE  IInv'
BY StepType, StepNames, StepClaims DEF IInv, Names

THEOREM InductiveInvariant ==
    ASSUME Apart
    PROVE  Spec => []IInv
<1>1. IInv /\ [Next]_vars => IInv'
  BY StepIInv
<1>2. QED
  BY InitIInv, <1>1, PTL DEF Spec

(* Every variable keeps its type; in particular no process goes past the   *)
(* last numbered name, whatever fails.                                     *)
THEOREM TypeCorrect == Spec => []TypeOK
<1>1. NameInv => TypeOK
  BY DEF NameInv
<1>2. QED
  BY <1>1, NameInvariant, PTL

(* Every whole file has its name in a FILENAME keyword, through all        *)
(* failures, restarts and replacements; one that also has another name has *)
(* it in the HDU that was current, of a product that lost that name, and   *)
(* its own in the first.                                                   *)
THEOREM FilenameIsName == Spec => []FilenameKey
<1>1. ASSUME NameInv, NEW n \in Name, dir[n] # None, Whole(content[dir[n]])
      PROVE  LET c == content[dir[n]]
                 j == job[c.by]
             IN  /\ \E h \in DOMAIN c.label : c.label[h] = n
                 /\ \A h \in DOMAIN c.label : c.label[h] \notin {None, n} =>
                        h = j.current /\ h # 1 /\ c.label[h] = j.asked /\ c.label[1] = n
  <2> DEFINE i == dir[n]
             q == content[i].by
  <2>1. TypeOK /\ Linked /\ Marked /\ Written
    BY <1>1 DEF NameInv, Names
  <2>2. i \in Inode /\ name[i] = n /\ q # None
    BY <1>1, <2>1 DEF Linked, TypeOK, Whole
  <2>3. q \in Proc /\ name[q] = n /\ content[i].label = label[q] /\ label[q][hdu[q]] = n
    BY <2>1, <2>2, ContentParts DEF Written, TypeOK
  <2>4. /\ Marks(q) /\ DOMAIN label[q] = DOMAIN job[q].sums
        /\ hdu[q] \in DOMAIN label[q] /\ 1 \in DOMAIN label[q]
    <3>1. job[q] \in Job
      BY <2>1, <2>3 DEF TypeOK
    <3>2. QED
      BY <2>1, <2>3, <3>1, JobParts DEF TypeOK, Data, Marked
  <2>5. QED
    BY <2>3, <2>4 DEF Marks
<1>2. NameInv => FilenameKey
  BY <1>1 DEF FilenameKey
<1>3. QED
  BY <1>2, NameInvariant, PTL

(* One name is never given back for two different products, unless a       *)
(* failed write has removed the file of that name.                         *)
THEOREM NamesDistinct ==
    ASSUME Apart
    PROVE  Spec => []DistinctNames
<1>1. IInv => DistinctNames
  BY DEF IInv, DistinctNames, Claims, Sharing, Shares, Filed
<1>2. QED
  BY <1>1, InductiveInvariant, PTL

(* A name that was given back has the caller's data behind it, or data     *)
(* being written again, unless a failed write has removed its file.        *)
THEOREM ReturnedIsBacked ==
    ASSUME Apart
    PROVE  Spec => []ReturnedBacked
<1>1. ASSUME IInv, NEW p \in Proc, pc[p] = "done", Unharmed(name[p])
      PROVE  LET i == dir[name[p]]
             IN  /\ i # None
                 /\ \/ content[i].by = None /\ Rewriting(name[p], Data(p))
                    \/ content[i].by # None /\ Data(content[i].by) = Data(p)
  <2>1. Shares(p) /\ name[p] \in Name
    BY <1>1 DEF IInv, Claims, Sharing, Filed, TypeOK
  <2>2. Authors /\ Emptied
    BY <1>1 DEF IInv, Claims
  <2>3. dir[name[p]] # None
    BY <2>1, NoneAssumption DEF Shares, Inode
  <2>4. dir[name[p]] \in Inode /\ name[dir[name[p]]] = name[p]
    BY <1>1, <2>1, <2>3 DEF IInv, Names, Linked, Shares
  <2>5. QED
    BY <1>1, <2>1, <2>2, <2>3, <2>4 DEF Shares, Authors, Emptied
<1>2. IInv => ReturnedBacked
  BY <1>1 DEF ReturnedBacked
<1>3. QED
  BY <1>2, InductiveInvariant, PTL

(* A file only ever holds the data it was created for, whichever processes *)
(* are between their comparison and their O_TRUNC, and whatever a process  *)
(* reads of a file another rewrites, unless a failed write has removed its *)
(* name.                                                                   *)
THEOREM FilesKeepTheirProduct ==
    ASSUME Apart
    PROVE  Spec => []OneProductPerFile
<1>1. IInv => OneProductPerFile
  BY DEF IInv, Claims, Authors, OneProductPerFile
<1>2. QED
  BY <1>1, InductiveInvariant, PTL

---------------------------------------------------------------------------
(* Products of one length, while no call fails once a file is open.        *)

OneLength == \A j, k \in Job : j.size = k.size /\ j.more = 0
Calm == Faults \subseteq {"fits", "open"} /\ OneLength /\ Apart

(* A file is no longer than its product, and the product as the others.    *)
Even(c) == c.by # None => (\A j \in Job : c.size = j.size) /\ c.len <= c.size

(* What is not being written is whole.                                     *)
Finished ==
    \A i \in Inode :
        /\ Even(content[i])
        /\ content[i].by = None => content[i] = Empty
        /\ content[i].by # None /\ ~Whole(content[i]) => Busy(i)

(* And so is, or was cut, what is read.                                    *)
Evenly == \A p \in Proc : pc[p] = "read" => Even(look[p].was)

(* Whoever emptied a file is about to write it.                            *)
Refilled ==
    \A n \in Name :
        dir[n] # None /\ content[dir[n]].by = None =>
            \E q \in Proc : pc[q] = "write" /\ name[q] = n

(* Every name a product of one HDU has gone past belongs to other data.    *)
Passed ==
    \A p \in Proc : Len(Data(p)) = 1 =>
        /\ job[p].asked <= name[p]
        /\ \A n \in Name :
              job[p].asked <= n /\ n < name[p] =>
                  dir[n] # None /\ Data(dir[n]) # Data(p)

Harmless == \A p \in Proc : pc[p] \notin {"unlink", "unlinked"}

CalmInv == IInv /\ Finished /\ Evenly /\ Refilled /\ Passed /\ Harmless

(* The length of a product, when all have one.                             *)
LEMMA CalmSize ==
    ASSUME Calm, TypeOK, NEW p \in Proc
    PROVE  \A j \in Job : Size(p, label[p]) = j.size /\ j.size \in Nat \ {0}
<1>1. job[p] \in Job
  BY DEF TypeOK
<1>2. \A j \in Job : j.size \in Nat \ {0} /\ j.more \in Nat
  BY JobParts
<1>3. QED
  BY <1>1, <1>2 DEF Calm, OneLength, Size

(* A product of one HDU is found to differ from others only, although the  *)
(* file is being cut or written while it is read.                          *)
LEMMA DiffersOther ==
    ASSUME Calm, CalmInv, NEW p \in Proc, pc[p] = "read", Differs(p), Len(Data(p)) = 1
    PROVE  dir[name[p]] # None /\ Data(dir[name[p]]) # Data(p)
<1> DEFINE i == look[p].inode
<1>0. TypeOK /\ Names /\ Claims /\ Unharmed(name[p])
  BY DEF CalmInv, IInv, Harmless, Unharmed
<1>1. /\ i \in Inode /\ i \in Proc /\ i = dir[name[p]]
      /\ \A v \in Views(p) : v \in Content /\ (v.by # None => Data(v.by) = Data(i))
  BY <1>0, Read
<1>2. \A v \in Views(p) : Even(v)
  BY <1>1 DEF CalmInv, Finished, Evenly, Views
<1>3. \A v \in Views(p) : v.by # None => /\ v.size = job[p].size
                                         /\ ~(v.len > v.size)
  <2> TAKE v \in Views(p)
  <2> HAVE v.by # None
  <2>1. job[p] \in Job /\ v.size \in Nat /\ v.len \in Nat
    BY <1>0, <1>1, ContentParts DEF TypeOK
  <2>2. v.len <= v.size /\ v.size = job[p].size
    BY <1>2, <2>1 DEF Even
  <2>3. QED
    BY <2>1, <2>2
<1>4. ~Misplaced(p)
  BY <1>3 DEF Misplaced
<1>5. i # None
  BY <1>1, NoneAssumption
<1>6. CASE look[p].next = 0
  <2>1. PICK v \in Views(p) : Counts(v) \ {Len(Data(p))} # {}
    BY <1>4, <1>6 DEF Differs, Counted
  <2>2. v.by # None /\ Data(v.by) = Data(i)
    BY <1>1, <2>1 DEF Counts
  <2>3. ASSUME Data(i) = Data(p)
        PROVE  FALSE
    <3>1. Len(Data(v.by)) = 1
      BY <2>2, <2>3
    <3>2. \A m \in 1 .. 1 : m = 1
      OBVIOUS
    <3>3. Counts(v) \subseteq {1}
      BY <3>1, <3>2 DEF Counts
    <3>4. QED
      BY <2>1, <3>3
  <2>4. QED
    BY <1>1, <1>5, <2>3
<1>7. CASE look[p].next # 0
  <2>1. PICK v \in Views(p) : /\ v.by # None /\ look[p].next \in DOMAIN Data(v.by)
                              /\ Data(v.by)[look[p].next] # Data(p)[look[p].next]
    BY <1>4, <1>7 DEF Differs, Sums
  <2>2. QED
    BY <1>1, <1>5, <2>1
<1>8. QED
  BY <1>6, <1>7

LEMMA CalmInit ==
    ASSUME Calm, Init
    PROVE  CalmInv
<1>1. Finished
  BY ContentParts DEF Init, Finished, Even
<1>2. Evenly /\ Refilled /\ Harmless
  BY DEF Init, Evenly, Refilled, Harmless
<1>3. Passed
  <2>1. \A p \in Proc : name[p] = job[p].asked /\ job[p].asked \in Name
    BY JobParts DEF Init
  <2>2. ASSUME NEW p \in Proc
        PROVE  /\ job[p].asked <= name[p]
               /\ \A n \in Name : ~(job[p].asked <= n /\ n < name[p])
    BY <2>1, SuffixAssumption DEF Name
  <2>3. QED
    BY <2>2 DEF Passed
<1>4. QED
  BY <1>1, <1>2, <1>3, InitIInv DEF CalmInv

(* A state of a calm run, with a step of p.                                *)
Calmly(p) ==
    Calm /\ CalmInv /\ (Step(p) \/ Kill(p)) /\ [Next]_vars

LEMMA CalmParts ==
    ASSUME NEW p \in Proc, Calmly(p)
    PROVE  /\ TypeOK /\ Names /\ Claims /\ Descriptors /\ IInv'
           /\ ~IoError(p) /\ ~Kill(p) /\ ~Unlink(p) /\ ~WriteShort(p) /\ Step(p)
           /\ job' = job
           /\ \A n \in Name : Unharmed(n)
<1>1. TypeOK /\ Names /\ Claims /\ Descriptors
  BY DEF Calmly, CalmInv, IInv, Names
<1>2. IInv'
  BY StepIInv DEF Calmly, Calm, CalmInv
<1>3. ~IoError(p) /\ ~Kill(p) /\ ~Unlink(p) /\ ~WriteShort(p)
  BY DEF Calmly, Calm, CalmInv, Harmless, IoError, Kill, Unlink, WriteShort, Goto
<1>4. QED
  BY <1>1, <1>2, <1>3, Kept DEF Calmly, CalmInv, Harmless, Unharmed

(* What a process writes is in the file of its name, no longer than all.   *)
LEMMA CalmWrite ==
    ASSUME NEW p \in Proc, Calmly(p), WriteSome(p) \/ WriteAll(p)
    PROVE  LET i == fd[p]
           IN  /\ i \in Inode /\ i = dir[name[p]] /\ content'[i].by = p /\ Even(content'[i])
               /\ \/ WriteAll(p) /\ Whole(content'[i])
                  \/ WriteSome(p)
               /\ \A k \in Inode \ {i} : content'[k] = content[k]
<1> DEFINE i == fd[p]
           s == Size(p, label[p])
<1>0. TypeOK /\ Names /\ Claims /\ Descriptors /\ (\A n \in Name : Unharmed(n)) /\ Calm
  BY CalmParts DEF Calmly
<1>1. i \in Inode /\ i = dir[name[p]]
  BY <1>0, Writes DEF Descriptors, Claims, Opened, Writing, TypeOK
<1>2. s \in Nat /\ (\A j \in Job : s = j.size) /\ job[p] \in Job
  BY <1>0, CalmSize DEF TypeOK
<1>3. PICK k \in 0 .. s : /\ content' = [content EXCEPT ![i] = Overwritten(p, i, k)]
                          /\ WriteSome(p) \/ (WriteAll(p) /\ k = s)
  BY <1>2 DEF WriteSome, WriteAll
<1>4. content[i] \in Content /\ content[i].len \in Nat
  BY <1>0, <1>1, ContentParts DEF TypeOK
<1>5. content[i].len <= s
  BY <1>0, <1>1, <1>2, <1>4 DEF Calmly, CalmInv, Finished, Even, Empty
<1>6. content'[i] = Overwritten(p, i, k) /\ \A g \in Inode \ {i} : content'[g] = content[g]
  BY <1>0, <1>1, <1>3 DEF TypeOK
<1>7. /\ Overwritten(p, i, k).by = p /\ Overwritten(p, i, k).size = s
      /\ Overwritten(p, i, k).upto = k /\ Overwritten(p, i, k).len <= s
      /\ k = s => Overwritten(p, i, k).len = s
  <2> HIDE DEF i, s
  <2>1. k \in Nat /\ k <= s
    BY <1>2
  <2>2. Overwritten(p, i, k).len = IF content[i].len > k THEN content[i].len ELSE k
    BY DEF Overwritten
  <2>3. Overwritten(p, i, k).len <= s /\ (k = s => Overwritten(p, i, k).len = s)
    BY <1>2, <1>4, <1>5, <2>1, <2>2
  <2>4. QED
    BY <2>3 DEF Overwritten, s
<1>8. Even(content'[i]) /\ (k = s => Whole(content'[i]))
  BY <1>2, <1>6, <1>7, NoneAssumption DEF Even, Whole
<1>9. QED
  BY <1>1, <1>3, <1>6, <1>7, <1>8

LEMMA CalmFinished ==
    ASSUME NEW p \in Proc, Calmly(p)
    PROVE  Finished'
<1> USE DEF Inode
<1>0. TypeOK /\ Names /\ Descriptors /\ Finished /\ Step(p) /\ ~WriteShort(p) /\ ~IoError(p)
  BY CalmParts DEF Calmly, CalmInv
<1> SUFFICES ASSUME NEW i \in Inode
             PROVE  (/\ Even(content[i])
                     /\ content[i].by = None => content[i] = Empty
                     /\ content[i].by # None /\ ~Whole(content[i]) => Busy(i))'
  BY DEF Finished
<1>1. CASE WriteSome(p) \/ WriteAll(p)
  <2>1. CASE i = fd[p]
    <3>1. CASE WriteAll(p) /\ Whole(content'[i])
      BY <1>1, <2>1, <3>1, CalmWrite, NoneAssumption DEF Whole
    <3>2. CASE WriteSome(p)
      <4>1. pc'[p] = "rest" /\ fd'[p] = i
        BY <1>0, <2>1, <3>2 DEF WriteSome, Goto, TypeOK
      <4>2. QED
        BY <1>1, <2>1, <4>1, CalmWrite, NoneAssumption DEF Busy
    <3>3. QED
      BY <1>1, <2>1, <3>1, <3>2, CalmWrite
  <2>2. CASE i # fd[p]
    <3>1. content'[i] = content[i]
      BY <1>1, <2>2, CalmWrite
    <3>2. Busy(i) => Busy(i)'
      BY <1>0, <1>1, <2>2, Writes, Others DEF Busy
    <3>3. QED
      BY <1>0, <3>1, <3>2 DEF Finished
  <2>3. QED
    BY <2>1, <2>2
<1>2. CASE ~WriteSome(p) /\ ~WriteAll(p)
  <2>1. content'[i] = content[i] \/ content'[i] = Empty
    BY <1>0, <1>2, Filling DEF TypeOK
  <2>2. CASE content'[i] = Empty
    BY <2>2, ContentParts DEF Even
  <2>3. CASE content'[i] = content[i]
    <3>1. Busy(i) => Busy(i)'
      <4> SUFFICES ASSUME NEW q \in Proc, pc[q] = "rest", fd[q] = i
                   PROVE  pc'[q] = "rest" /\ fd'[q] = i
        BY DEF Busy
      <4>1. q # p
        BY <1>0, <1>2
        DEF Step, Commit, Write, Compare, FitsError, OpenNew, OpenExists, OpenTruncate,
            OpenError, Fsync, Close, Unlink, Finish, CompareOpen, CompareCount,
            CompareNext, CompareSame, CompareDiffer, CompareFatal, Goto
      <4>2. QED
        BY <1>0, <4>1, Others
    <3>2. QED
      BY <1>0, <2>3, <3>1 DEF Finished
  <2>4. QED
    BY <2>1, <2>2, <2>3
<1>3. QED
  BY <1>1, <1>2

LEMMA CalmEvenly ==
    ASSUME NEW p \in Proc, Calmly(p)
    PROVE  Evenly'
<1>0. TypeOK /\ Names /\ Comparing /\ Finished /\ Evenly /\ Step(p)
  BY CalmParts DEF Calmly, CalmInv, Names
<1> SUFFICES ASSUME NEW q \in Proc, pc'[q] = "read"
             PROVE  Even(look'[q].was)
  BY DEF Evenly, Even
<1>1. CASE pc[q] = "read" /\ look'[q] = look[q]
  BY <1>0, <1>1 DEF Evenly
<1>2. CASE ~(pc[q] = "read" /\ look'[q] = look[q])
  <2>1. q = p
    BY <1>0, <1>2, Others
  <2>2. CASE CompareOpen(p)
    <3>1. look'[p].was = content[dir[name[p]]] /\ dir[name[p]] \in Inode
      BY <1>0, <2>2 DEF CompareOpen, TypeOK
    <3>2. QED
      BY <1>0, <2>1, <3>1 DEF Finished
  <2>3. CASE CompareCount(p) \/ CompareNext(p)
    <3>1. pc[p] = "read" /\ look[p] \in Look
      BY <1>0, <2>3 DEF CompareCount, CompareNext, Comparing
    <3>2. look'[p].was = look[p].was
      BY <1>0, <2>3, <3>1, ReadsOn
    <3>3. QED
      BY <1>0, <2>1, <3>1, <3>2 DEF Evenly
  <2>4. QED
    BY <1>0, <1>2, <2>1, <2>2, <2>3, Writes
    DEF Step, Commit, Write, Compare, FitsError, OpenNew, OpenExists, OpenTruncate, OpenError,
        WriteShort, Fsync, Close, IoError, Unlink, Finish, CompareSame, CompareDiffer,
        CompareFatal, Goto, TypeOK
<1>3. QED
  BY <1>1, <1>2

LEMMA CalmRefilled ==
    ASSUME NEW p \in Proc, Calmly(p)
    PROVE  Refilled'
<1> USE DEF Inode
<1>0. /\ TypeOK /\ Names /\ Descriptors /\ Linked /\ Refilled /\ Step(p)
      /\ ~Unlink(p) /\ ~IoError(p) /\ ~WriteShort(p)
  BY CalmParts DEF Calmly, CalmInv, Names
<1> SUFFICES ASSUME NEW n \in Name, dir'[n] # None, content'[dir'[n]].by = None
             PROVE  \E q \in Proc : pc'[q] = "write" /\ name'[q] = n
  BY DEF Refilled
<1>1. CASE n = name[p] /\ (OpenNew(p) \/ OpenTruncate(p))
  BY <1>0, <1>1 DEF OpenNew, OpenTruncate, Goto, TypeOK
<1>2. CASE ~(n = name[p] /\ (OpenNew(p) \/ OpenTruncate(p)))
  <2>1. dir'[n] = dir[n] /\ dir[n] \in Proc /\ pc[dir[n]] \in Committed /\ name[dir[n]] = n
    BY <1>0, <1>2, Linking DEF Linked, TypeOK
  <2>2. ~((WriteSome(p) \/ WriteAll(p)) /\ fd[p] = dir[n])
    BY <2>1, CalmWrite, NoneAssumption
  <2>3. content'[dir[n]] = content[dir[n]]
    <3>1. CASE WriteSome(p) \/ WriteAll(p)
      BY <2>1, <2>2, <3>1, CalmWrite
    <3>2. CASE OpenNew(p) /\ content' = [content EXCEPT ![p] = Empty]
      <4>1. dir[n] # p
        BY <2>1, <3>2 DEF OpenNew, Goto, Committed, Filed, Writing
      <4>2. QED
        BY <1>0, <2>1, <3>2, <4>1 DEF TypeOK
    <3>3. CASE OpenTruncate(p) /\ content' = [content EXCEPT ![dir[name[p]]] = Empty]
      <4>1. dir[n] # dir[name[p]]
        BY <1>0, <1>2, <2>1, <3>3 DEF OpenTruncate, Linked, TypeOK
      <4>2. QED
        BY <1>0, <2>1, <3>3, <4>1 DEF TypeOK
    <3>4. QED
      BY <1>0, <3>1, <3>2, <3>3, Filling
  <2>4. PICK q \in Proc : pc[q] = "write" /\ name[q] = n
    BY <1>0, <2>1, <2>3 DEF Refilled
  <2>5. CASE q # p
    BY <1>0, <2>4, <2>5, Others
  <2>6. CASE q = p
    <3>1. WriteSome(p) \/ WriteAll(p)
      BY <1>0, <2>4, <2>6
      DEF Step, Commit, Write, Compare, FitsError, OpenNew, OpenExists, OpenTruncate,
          OpenError, Fsync, Close, Finish, CompareOpen, CompareCount, CompareNext,
          CompareSame, CompareDiffer, CompareFatal, Goto
    <3>2. QED
      BY <2>2, <2>4, <2>6, <3>1, CalmWrite
  <2>7. QED
    BY <2>5, <2>6
<1>3. QED
  BY <1>1, <1>2

LEMMA CalmPassed ==
    ASSUME NEW p \in Proc, Calmly(p)
    PROVE  Passed'
<1>0. /\ TypeOK /\ Passed /\ Step(p) /\ ~Unlink(p) /\ job' = job
      /\ \A n \in Name : dir[n] # None => dir'[n] = dir[n]
  BY CalmParts, Linking DEF Calmly, CalmInv, TypeOK
<1> SUFFICES ASSUME NEW q \in Proc, Len(Data(q)) = 1
             PROVE  /\ job[q].asked <= name'[q]
                    /\ \A n \in Name : job[q].asked <= n /\ n < name'[q] =>
                          dir[n] # None /\ Data(dir[n]) # Data(q)
  BY <1>0 DEF Passed, Data
<1>1. CASE name'[q] = name[q]
  BY <1>1 DEF Calmly, CalmInv, Passed
<1>2. CASE name'[q] # name[q]
  <2>1. q = p
    BY <1>0, <1>2, Others
  <2>2. CompareDiffer(p)
    BY <1>0, <1>2, <2>1, Writes
    DEF Step, Commit, Write, Compare, FitsError, OpenNew, OpenExists, OpenTruncate, OpenError,
        WriteShort, Fsync, Close, IoError, Unlink, Finish, CompareOpen, CompareCount,
        CompareNext, CompareSame, CompareFatal
  <2>3. dir[name[p]] # None /\ Data(dir[name[p]]) # Data(p)
    BY <2>1, <2>2, DiffersOther DEF Calmly, CompareDiffer, Goto
  <2>4. /\ job[p].asked \in Nat /\ name[p] \in Nat /\ (\A n \in Name : n \in Nat)
        /\ name'[p] = name[p] + 1
    <3>1. job[p] \in Job
      BY <1>0 DEF TypeOK
    <3>2. QED
      BY <1>0, <2>2, <3>1, JobParts, SuffixAssumption DEF Name, TypeOK, CompareDiffer
  <2>5. /\ job[p].asked <= name[p]
        /\ \A n \in Name : job[p].asked <= n /\ n < name[p] =>
              dir[n] # None /\ Data(dir[n]) # Data(p)
    BY <1>0, <2>1 DEF Passed
  <2>6. \A n \in Name : n < name[p] + 1 => n < name[p] \/ n = name[p]
    BY <2>4
  <2>7. QED
    BY <2>1, <2>3, <2>4, <2>5, <2>6
<1>3. QED
  BY <1>1, <1>2

LEMMA CalmHarmless ==
    ASSUME NEW p \in Proc, Calmly(p)
    PROVE  Harmless'
<1>0. TypeOK /\ Harmless /\ Step(p) /\ ~IoError(p) /\ ~Unlink(p)
  BY CalmParts DEF Calmly, CalmInv
<1>1. pc'[p] \notin {"unlink", "unlinked"}
  BY <1>0, Writes
  DEF Step, Commit, Write, Compare, FitsError, OpenNew, OpenExists, OpenTruncate, OpenError,
      WriteShort, Fsync, Close, Finish, CompareOpen, CompareCount, CompareNext, CompareSame,
      CompareDiffer, CompareFatal, Goto, TypeOK, Harmless
<1>2. QED
  BY <1>0, <1>1, Others DEF Harmless

LEMMA CalmStep ==
    ASSUME Calm, CalmInv, [Next]_vars
    PROVE  CalmInv'
<1>1. CASE UNCHANGED vars
  <2>1. IInv'
    BY StepIInv DEF Calm, CalmInv
  <2>2. QED
    BY <1>1, <2>1
    DEF vars, memory, CalmInv, Finished, Evenly, Even, Whole, Busy, Refilled, Passed,
        Harmless, Data
<1>2. CASE AllStopped
  BY <1>1, <1>2 DEF AllStopped
<1>3. ASSUME NEW p \in Proc, Step(p) \/ Kill(p)
      PROVE  CalmInv'
  <2>1. Calmly(p)
    BY <1>3 DEF Calmly
  <2>2. QED
    BY <2>1, CalmParts, CalmFinished, CalmEvenly, CalmRefilled, CalmPassed, CalmHarmless
    DEF CalmInv
<1>4. QED
  BY <1>1, <1>2, <1>3 DEF Next

THEOREM CalmInvariant ==
    ASSUME Calm
    PROVE  Spec => []CalmInv
<1>1. Init => CalmInv
  BY CalmInit
<1>2. CalmInv /\ [Next]_vars => CalmInv'
  BY CalmStep
<1>3. QED
  BY <1>1, <1>2, PTL DEF Spec

(* While no call fails once a file is open, and the lengths agree, a name  *)
(* that was given back holds the whole product once all have stopped.      *)
THEOREM QuietlyIntact ==
    ASSUME Calm
    PROVE  Spec => []QuiescentIntact
<1>1. ASSUME CalmInv, \A q \in Proc : pc[q] \in Stopped, NEW p \in Proc, pc[p] = "done"
      PROVE  Intact(p)
  <2>0. TypeOK /\ Names /\ Claims /\ (\A n \in Name : Unharmed(n)) /\ Finished /\ Refilled
    BY <1>1 DEF CalmInv, IInv, Harmless, Unharmed
  <2>1. Shares(p) /\ name[p] \in Name
    BY <1>1, <2>0 DEF Claims, Sharing, Filed, TypeOK
  <2> DEFINE i == dir[name[p]]
  <2>2. i \in Inode /\ i # None /\ name[i] = name[p]
    BY <2>0, <2>1, NoneAssumption DEF Shares, Names, Linked, Inode
  <2>3. content[i].by # None
    BY <1>1, <2>0, <2>1, <2>2 DEF Refilled, Stopped
  <2>4. ~Busy(i)
    BY <1>1 DEF Busy, Stopped
  <2>5. Whole(content[i])
    BY <2>0, <2>2, <2>3, <2>4 DEF Finished
  <2>6. Data(content[i].by) = Data(i)
    BY <2>0, <2>2, <2>3 DEF Claims, Authors, TypeOK
  <2>7. QED
    BY <2>1, <2>2, <2>5, <2>6 DEF Intact, Shares
<1>2. CalmInv => QuiescentIntact
  BY <1>1 DEF QuiescentIntact
<1>3. QED
  BY <1>2, CalmInvariant, PTL

(* While no call fails once a file is open, and the lengths agree, equal   *)
(* data of one HDU under one asked name comes back under one name, however *)
(* the processes interleave and although they read files while others cut  *)
(* and write them: a process goes past other data only.                    *)
THEOREM NothingFiledTwice ==
    ASSUME Calm
    PROVE  Spec => []NoDuplicates
<1>1. ASSUME CalmInv, NEW p \in Proc, NEW q \in Proc, pc[p] = "done", pc[q] = "done",
             Data(p) = Data(q), job[p].asked = job[q].asked, Len(Data(p)) = 1
      PROVE  ~(name[p] < name[q])
  <2>0. TypeOK /\ Claims /\ (\A n \in Name : Unharmed(n)) /\ Passed
    BY <1>1 DEF CalmInv, IInv, Harmless, Unharmed
  <2>1. Shares(p) /\ name[p] \in Name
    BY <1>1, <2>0 DEF Claims, Sharing, Filed, TypeOK
  <2>2. job[q].asked <= name[p]
    BY <1>1, <2>0 DEF Passed
  <2>3. QED
    BY <1>1, <2>0, <2>1, <2>2 DEF Passed, Shares
<1>2. ASSUME CalmInv
      PROVE  NoDuplicates
  <2>1. \A p \in Proc : name[p] \in Nat
    <3>1. name \in [Proc -> Name]
      BY <1>2 DEF CalmInv, IInv, TypeOK
    <3>2. QED
      BY <3>1, SuffixAssumption DEF Name
  <2>2. ASSUME NEW p \in Proc, NEW q \in Proc, pc[p] = "done", pc[q] = "done",
               Data(p) = Data(q), job[p].asked = job[q].asked, Len(Data(p)) = 1
        PROVE  name[p] = name[q]
    <3>1. ~(name[p] < name[q])
      BY <1>1, <1>2, <2>2
    <3>2. Len(Data(q)) = 1
      BY <2>2
    <3>3. ~(name[q] < name[p])
      BY <1>1, <1>2, <2>2, <3>2
    <3>4. QED
      BY <2>1, <3>1, <3>3
  <2>3. QED
    BY <2>2 DEF NoDuplicates
<1>3. CalmInv => NoDuplicates
  BY <1>2
<1>4. QED
  BY <1>3, CalmInvariant, PTL

---------------------------------------------------------------------------
(* Every call ends: how much is left of the call of p, counted in steps.   *)

(* The place of p in one attempt at a name: an attempt that may overwrite  *)
(* comes after the comparison that allowed it, which reads the HDUs once.  *)
Place(p) ==
    CASE pc[p] = "commit"  -> IF nuke[p] THEN 8 ELSE 11 + Len(Data(p))
      [] pc[p] = "compare" -> 10 + Len(Data(p))
      [] pc[p] = "read"    -> 9 + Len(Data(p)) - look[p].next
      [] pc[p] = "write"   -> 7
      [] pc[p] = "rest"    -> 6
      [] pc[p] = "fsync"   -> 5
      [] pc[p] = "close"   -> 4
      [] pc[p] = "finish"  -> 3
      [] pc[p] = "unlink"  -> 2
      [] OTHER             -> 0

(* One more than there are places, for each name new_name has left.        *)
Most(p) == 12 + Len(Data(p))
Left(p) == Most(p) * (LastSuffix - name[p]) + Place(p)

LEMMA PlaceType ==
    ASSUME NameInv, NEW p \in Proc
    PROVE  Place(p) \in 0 .. Most(p) - 1 /\ Most(p) \in Nat
<1>1. Len(Data(p)) \in Nat
  BY JobParts DEF NameInv, TypeOK, Data
<1>2. pc[p] = "read" => look[p].next \in 0 .. Len(Data(p))
  BY DEF NameInv, Names, Comparing
<1>3. QED
  BY <1>1, <1>2 DEF Place, Most

(* What is left of n names and a place in one.                             *)
LEMMA Product ==
    ASSUME NEW m \in Nat, NEW n \in Nat, NEW l \in Nat, n <= l
    PROVE  /\ m * (l - n) \in 0 .. m * l
           /\ m * (l - (n + 1)) = m * (l - n) - m
<1>1. PICK d \in Nat : d = l - n /\ l = n + d
  OBVIOUS
<1>2. m * l = m * n + m * d /\ m * n \in Nat /\ m * d \in Nat
  BY <1>1
<1>3. m * (d - 1) = m * d - m /\ l - (n + 1) = d - 1
  BY <1>1
<1>4. QED
  BY <1>1, <1>2, <1>3

LEMMA LeftType ==
    ASSUME NameInv, NEW p \in Proc
    PROVE  Left(p) \in 0 .. Most(p) * (LastSuffix + 1) - 1
<1>1. name[p] \in Nat /\ LastSuffix \in Nat /\ name[p] <= LastSuffix
  BY SuffixAssumption DEF NameInv, TypeOK, Name
<1>2. Place(p) \in 0 .. Most(p) - 1 /\ Most(p) \in Nat
  BY PlaceType
<1>3. Most(p) * (LastSuffix - name[p]) \in 0 .. Most(p) * LastSuffix
  BY <1>1, <1>2, Product
<1>4. Most(p) * (LastSuffix + 1) = Most(p) * LastSuffix + Most(p)
      /\ Most(p) * LastSuffix \in Nat
  BY <1>1, <1>2
<1>5. QED
  BY <1>2, <1>3, <1>4 DEF Left

(* A step of p brings its own call nearer to its end.                      *)
LEMMA LeftLess ==
    ASSUME NameInv, NEW p \in Proc, Step(p) \/ Kill(p)
    PROVE  Left(p)' < Left(p)
<1> USE DEF Goto, TypeOK
<1>0. TypeOK /\ Comparing /\ Descriptors
  BY DEF NameInv, Names
<1>1. name[p] \in Nat /\ LastSuffix \in Nat /\ name[p] <= LastSuffix
  BY <1>0, SuffixAssumption DEF Name
<1>2. Place(p) \in 0 .. Most(p) - 1 /\ Most(p) \in Nat
  BY PlaceType
<1>3. Most(p)' = Most(p) /\ Len(Data(p))' = Len(Data(p)) /\ Len(Data(p)) \in Nat
  <2>1. job' = job
    BY <1>0, Others
  <2>2. job[p] \in Job
    BY <1>0
  <2>3. QED
    BY <2>1, <2>2, JobParts DEF Most, Data
<1>4. Most(p) * (LastSuffix - name[p]) \in Int
      /\ Most(p) * (LastSuffix - (name[p] + 1)) = Most(p) * (LastSuffix - name[p]) - Most(p)
  BY <1>1, <1>2, Product
<1>5. CASE CompareDiffer(p)
  <2>1. Place(p) >= 9
    BY <1>0, <1>3, <1>5 DEF CompareDiffer, Comparing, Place
  <2>2. name'[p] = name[p] + 1
    BY <1>0, <1>5 DEF CompareDiffer
  <2>3. Left(p)' = Most(p) * (LastSuffix - name[p]) - Most(p) + Place(p)'
    BY <1>3, <1>4, <2>2 DEF Left
  <2>4. Place(p)' \in Int /\ Place(p)' <= 11 + Len(Data(p))
    BY <1>0, <1>3, <1>5 DEF CompareDiffer, Place
  <2>5. QED
    BY <1>2, <1>3, <1>4, <2>1, <2>3, <2>4 DEF Left, Most
<1>6. ASSUME name' = name, Place(p)' \in Int, Place(p)' < Place(p)
      PROVE  Left(p)' < Left(p)
  <2>1. Left(p)' = Most(p) * (LastSuffix - name[p]) + Place(p)'
    BY <1>3, <1>6 DEF Left
  <2>2. QED
    BY <1>2, <1>3, <1>4, <1>6, <2>1 DEF Left
<1>7. CASE Commit(p) \/ FitsError(p)
  <2>1. name' = name /\ Place(p)' \in Int /\ Place(p)' < Place(p)
    BY <1>0, <1>3, <1>7
    DEF Commit, OpenNew, OpenExists, OpenTruncate, OpenError, FitsError, Place
  <2>2. QED
    BY <1>6, <2>1
<1>8. CASE WriteSome(p) \/ WriteAll(p) \/ WriteShort(p) \/ Fsync(p) \/ Close(p)
           \/ IoError(p) \/ Unlink(p) \/ Finish(p)
  <2>1. name' = name /\ Place(p)' \in Int /\ Place(p)' < Place(p)
    BY <1>0, <1>8
    DEF WriteSome, WriteAll, WriteShort, Fsync, Close, IoError, Unlink, Finish, Place
  <2>2. QED
    BY <1>6, <2>1
<1>9. CASE CompareOpen(p)
  <2>1. look'[p].next = 0 /\ name' = name
    BY <1>0, <1>9 DEF CompareOpen
  <2>2. Place(p)' \in Int /\ Place(p)' < Place(p)
    BY <1>0, <1>3, <1>9, <2>1 DEF CompareOpen, Place
  <2>3. QED
    BY <1>6, <2>1, <2>2
<1>10. CASE CompareCount(p) \/ CompareNext(p)
  <2>1. pc[p] = "read" /\ look[p] \in Look /\ name' = name /\ pc'[p] = "read"
        /\ look[p].next \in Nat
    BY <1>0, <1>10 DEF CompareCount, CompareNext, Comparing, Look
  <2>2. look'[p].next = look[p].next + 1
    BY <1>0, <1>10, <2>1, ReadsOn
  <2>3. Place(p)' \in Int /\ Place(p)' < Place(p)
    BY <1>3, <2>1, <2>2 DEF Place
  <2>4. QED
    BY <1>6, <2>1, <2>3
<1>11. CASE CompareSame(p) \/ CompareFatal(p)
  <2>1. pc[p] = "read" => look[p].next \in 0 .. Len(Data(p))
    BY <1>0 DEF Comparing
  <2>2. name' = name /\ Place(p)' \in Int /\ Place(p)' < Place(p)
    BY <1>0, <1>3, <1>11, <2>1 DEF CompareSame, CompareFatal, Place
  <2>3. QED
    BY <1>6, <2>2
<1>12. CASE Kill(p)
  <2>1. pc[p] = "read" => look[p].next \in 0 .. Len(Data(p))
    BY <1>0 DEF Comparing
  <2>2. name' = name /\ Place(p)' \in Int /\ Place(p)' < Place(p)
    BY <1>0, <1>3, <1>12, <2>1 DEF Kill, Running, Place
  <2>3. QED
    BY <1>6, <2>2
<1>13. QED
  BY <1>5, <1>7, <1>8, <1>9, <1>10, <1>11, <1>12 DEF Step, Write, Compare

(* A step of p leaves the calls of the others where they are.              *)
LEMMA LeftOthers ==
    ASSUME TypeOK, NEW p \in Proc, Step(p) \/ Kill(p), NEW q \in Proc \ {p}
    PROVE  Left(q)' = Left(q)
BY Others DEF Left, Most, Place, Data

(* No call runs forever, with any failures and however the others run: a   *)
(* step of one process uses up some of what is left of its own call, of    *)
(* which there are twelve steps and one for each HDU at most for each      *)
(* name, and no process gives another one work to do again. Neither taking *)
(* a name nor giving way to another's file, or overwriting it, can go      *)
(* round in a circle.                                                      *)
THEOREM StepsRunOut ==
    Spec => /\ [](\A p \in Proc : Left(p) \in 0 .. Most(p) * (LastSuffix + 1) - 1)
            /\ [][\E p \in Proc : /\ Left(p)' < Left(p)
                                  /\ \A q \in Proc \ {p} : Left(q)' = Left(q)]_vars
<1>1. NameInv => \A p \in Proc : Left(p) \in 0 .. Most(p) * (LastSuffix + 1) - 1
  BY LeftType
<1>2. ASSUME NameInv, [Next]_vars
      PROVE  [\E p \in Proc : /\ Left(p)' < Left(p)
                              /\ \A q \in Proc \ {p} : Left(q)' = Left(q)]_vars
  <2>1. ASSUME NEW p \in Proc, Step(p) \/ Kill(p)
        PROVE  /\ Left(p)' < Left(p)
               /\ \A q \in Proc \ {p} : Left(q)' = Left(q)
    <3>1. Left(p)' < Left(p)
      BY <1>2, <2>1, LeftLess
    <3>2. \A q \in Proc \ {p} : Left(q)' = Left(q)
      BY <1>2, <2>1, LeftOthers DEF NameInv
    <3>3. QED
      BY <3>1, <3>2
  <2>2. QED
    BY <1>2, <2>1 DEF Next, AllStopped
<1>3. QED
  BY <1>1, <1>2, NameInvariant, PTL DEF Spec

---------------------------------------------------------------------------
(* Refinement, until a failed write removes a file.                        *)

(* The variables of the store as functions of those of the commit.         *)
Bound == [n \in Name |-> IF dir[n] = None THEN None ELSE Data(dir[n])]
Result == [p \in Proc |-> CASE pc[p] = "done" -> <<"returned", name[p]>>
                            [] pc[p] \in {"dead", "unlinked"} -> <<"failed">>
                            [] OTHER -> <<"pending">>]
Payload == [p \in Proc |-> Data(p)]

(* A step that stops p without returning is a failure of the store.        *)
LEMMA FailRefined ==
    ASSUME TypeOK, NEW p \in Proc,
           pc[p] \in Running, pc' = [pc EXCEPT ![p] = "dead"],
           UNCHANGED <<job, name, dir>>
    PROVE  Store!Fail(p)
<1>1. Result[p] = <<"pending">>
  BY DEF Result, Running
<1>2. Result' = [Result EXCEPT ![p] = <<"failed">>]
  BY DEF Result, TypeOK
<1>3. Bound' = Bound /\ Payload' = Payload
  BY DEF Bound, Payload, Data
<1>4. QED
  BY <1>1, <1>2, <1>3
  DEF Store!Fail, Store!Pending, Store!Failed, Result, Bound, Payload

(* A step between two running states that keeps the names keeps the store. *)
LEMMA StutterRefined ==
    ASSUME TypeOK, NEW p \in Proc, NEW s \in Running,
           pc[p] \in Running, pc' = [pc EXCEPT ![p] = s],
           name' = [name EXCEPT ![p] = name'[p]],
           UNCHANGED <<job, dir>>
    PROVE  UNCHANGED Store!store
<1>1. Result' = Result
  <2>1. ASSUME NEW q \in Proc
        PROVE  (CASE pc[q] = "done" -> <<"returned", name[q]>>
                  [] pc[q] \in {"dead", "unlinked"} -> <<"failed">>
                  [] OTHER -> <<"pending">>)'
               = (CASE pc[q] = "done" -> <<"returned", name[q]>>
                    [] pc[q] \in {"dead", "unlinked"} -> <<"failed">>
                    [] OTHER -> <<"pending">>)
    BY DEF TypeOK, Running
  <2>2. QED
    BY <2>1 DEF Result
<1>2. Bound' = Bound /\ Payload' = Payload
  BY DEF Bound, Payload, Data
<1>3. QED
  BY <1>1, <1>2 DEF Store!store, Result, Bound, Payload

LEMMA BindRefined ==
    ASSUME TypeOK, NEW p \in Proc, OpenNew(p)
    PROVE  Store!Bind(p, name[p])
<1> USE DEF OpenNew, Goto, TypeOK
<1>1. Result[p] = <<"pending">>
  BY DEF Result
<1>2. Result' = Result
  <2>1. ASSUME NEW q \in Proc
        PROVE  (CASE pc[q] = "done" -> <<"returned", name[q]>>
                  [] pc[q] \in {"dead", "unlinked"} -> <<"failed">>
                  [] OTHER -> <<"pending">>)'
               = (CASE pc[q] = "done" -> <<"returned", name[q]>>
                    [] pc[q] \in {"dead", "unlinked"} -> <<"failed">>
                    [] OTHER -> <<"pending">>)
    OBVIOUS
  <2>2. QED
    BY <2>1 DEF Result
<1>3. Payload' = Payload
  BY DEF Payload, Data
<1>4. Bound[name[p]] = None
  BY DEF Bound
<1>5. Bound' = [Bound EXCEPT ![name[p]] = Payload[p]]
  BY NoneAssumption DEF Bound, Payload, Data
<1>6. QED
  BY <1>1, <1>2, <1>3, <1>4, <1>5
  DEF Store!Bind, Store!Pending, Result, Bound, Payload

LEMMA ReturnRefined ==
    ASSUME TypeOK, Claims, NothingUnlinked, NEW p \in Proc, Finish(p)
    PROVE  Store!Return(p, name[p])
<1> USE DEF Finish, Goto, TypeOK
<1>1. Result[p] = <<"pending">>
  BY DEF Result
<1>2. Result' = [Result EXCEPT ![p] = <<"returned", name[p]>>]
  BY DEF Result
<1>3. Bound' = Bound /\ Payload' = Payload
  BY DEF Bound, Payload, Data
<1>4. Shares(p)
  BY DEF Claims, Sharing, Filed, NothingUnlinked
<1>5. Bound[name[p]] = Payload[p]
  BY <1>4, NoneAssumption DEF Bound, Payload, Shares, Inode
<1>6. QED
  BY <1>1, <1>2, <1>3, <1>5
  DEF Store!Return, Store!Pending, Store!Returned, Result, Bound, Payload

LEMMA StepRefined ==
    ASSUME TypeOK, Claims, NothingUnlinked', [Next]_vars
    PROVE  [Store!StoreNext]_(Store!store)
<1>0. NothingUnlinked /\ \A p \in Proc : ~Unlink(p)
  <2>1. \A n \in Name : Unharmed(n)
    BY StillHarmed DEF NothingUnlinked
  <2>2. \A p \in Proc : ~Unlink(p)
    BY DEF NothingUnlinked, Unharmed, Unlink, Goto, TypeOK
  <2>3. QED
    BY <2>1, <2>2 DEF NothingUnlinked
<1>1. CASE UNCHANGED vars
  BY <1>1 DEF vars, Store!store, Data
<1>2. CASE AllStopped
  BY <1>1, <1>2 DEF AllStopped
<1>3. ASSUME NEW p \in Proc, Step(p) \/ Kill(p)
      PROVE  [Store!StoreNext]_(Store!store)
  <2>1. name[p] \in Name
    BY DEF TypeOK
  <2>2. CASE OpenNew(p)
    <3>1. Store!Bind(p, name[p])
      BY <2>2, BindRefined
    <3>2. \E n \in Name : Store!Bind(p, n) \/ Store!Return(p, n)
      BY <2>1, <3>1 DEF Store!Bind, Store!Return
    <3>3. QED
      BY <3>2 DEF Store!StoreNext
  <2>3. CASE Finish(p)
    <3>1. Store!Return(p, name[p])
      BY <1>0, <2>3, ReturnRefined
    <3>2. \E n \in Name : Store!Bind(p, n) \/ Store!Return(p, n)
      BY <2>1, <3>1 DEF Store!Bind, Store!Return
    <3>3. QED
      BY <3>2 DEF Store!StoreNext
  <2>4. CASE FitsError(p) \/ OpenError(p) \/ CompareFatal(p) \/ Kill(p)
    <3>1. Store!Fail(p)
      BY <2>4, FailRefined
      DEF FitsError, OpenError, CompareFatal, Kill, Goto, Running
    <3>2. QED
      BY <3>1 DEF Store!StoreNext
  <2>5. CASE OpenExists(p) \/ OpenTruncate(p) \/ WriteShort(p) \/ Fsync(p) \/ Close(p)
             \/ IoError(p) \/ CompareOpen(p) \/ CompareSame(p) \/ CompareDiffer(p)
    <3>1. PICK s \in Running : pc' = [pc EXCEPT ![p] = s]
      BY <2>5 DEF OpenExists, OpenTruncate, WriteShort, Fsync, Close, IoError,
                  CompareOpen, CompareSame, CompareDiffer, Goto, Running
    <3>2. /\ pc[p] \in Running
          /\ name' = [name EXCEPT ![p] = name'[p]]
          /\ UNCHANGED <<job, dir>>
      BY <2>5 DEF OpenExists, OpenTruncate, WriteShort, Fsync, Close, IoError,
                  CompareOpen, CompareSame, CompareDiffer, Compared, Goto, Running, TypeOK
    <3>3. QED
      BY <3>1, <3>2, StutterRefined
  <2>8. CASE WriteSome(p) \/ WriteAll(p)
    <3>1. PICK s \in Running : pc' = [pc EXCEPT ![p] = s]
      BY <2>8, Writes DEF Running
    <3>2. /\ pc[p] \in Running
          /\ name' = [name EXCEPT ![p] = name'[p]]
          /\ UNCHANGED <<job, dir>>
      BY <2>8, Writes DEF Running, TypeOK
    <3>3. QED
      BY <3>1, <3>2, StutterRefined
  <2>9. CASE CompareCount(p) \/ CompareNext(p)
    BY <2>9 DEF CompareCount, CompareNext, Store!store, Data
  <2>6. CASE Unlink(p)
    BY <1>0, <2>6
  <2>10. QED
    BY <1>3, <2>2, <2>3, <2>4, <2>5, <2>6, <2>8, <2>9 DEF Step, Commit, Write, Compare
<1>4. QED
  BY <1>1, <1>2, <1>3 DEF Next

(* Until a failed write removes a file, sfts_free implements the store: a  *)
(* name is bound once, to one product, and whoever is given it back        *)
(* committed that product.                                                 *)
THEOREM CommitImplementsStore ==
    ASSUME Apart
    PROVE  Spec => ImplementsStore
<1>1. Init => Store!StoreInit
  BY DEF Init, Store!StoreInit, Store!Pending, Data
<1>2. IInv /\ [Next]_vars
      => [NothingUnlinked' => Store!StoreNext]_(Store!store)
  BY StepRefined DEF IInv
<1>3. QED
  BY <1>1, <1>2, InductiveInvariant, PTL DEF Spec, ImplementsStore

===========================================================================
