---------------------------- MODULE FitsCommit ----------------------------
(***************************************************************************)
(* Committing FITS products to disk: sfts_free, commit_fits, compare_fits  *)
(* and new_name of libp2sc/p2sc_fits.c with p2sc_create_file of            *)
(* libp2sc/p2sc_file.c, run by several processes on one directory.         *)
(*                                                                         *)
(* A process holds a finished product in memory and calls sfts_free once.  *)
(* Every system call of p2sc_create_file is a step of its own, and write   *)
(* is two, for others see the file while it grows; the work in memory      *)
(* before a call is part of the step that makes the call. compare_fits is  *)
(* a step for the open, for the count of the HDUs and for the DATASUM of   *)
(* each: others may rewrite the file from one to the next.                 *)
(***************************************************************************)
EXTENDS Integers, Sequences

CONSTANTS
    Proc,        \* processes that call sfts_free
    Sum,         \* values of a DATASUM keyword
    Job,         \* the products that may be committed, see JobType
    LastSuffix,  \* the number new_name refuses to go past, 999 in the code
    Faults,      \* the failures the environment may inject, see FaultKinds
    None         \* no file, no author, no data

(* An HDU without the DATASUM keyword: sfts_free writes checksums in the   *)
(* current HDU only, the others have what the caller put there.            *)
Missing == "missing"

(* base.ext is name 0, base.NNN.ext is name NNN.                           *)
Name == 0 .. LastSuffix

(* A product: the name asked for, the DATASUM of each of its HDUs, which   *)
(* of them is the current one, the length of the file (headers included,   *)
(* so equal data may differ in it) and by how much it grows when the first *)
(* HDU gets the keywords of a commit that another one already has.         *)
JobType ==
    {j \in [asked : Name, sums : Seq(Sum \cup {Missing}), current : Nat,
            size : Nat \ {0}, more : Nat] :
        j.current \in DOMAIN j.sums /\ j.sums[j.current] # Missing}

FaultKinds == {"fits", "open", "write", "short", "fsync", "close", "kill"}

ASSUME SuffixAssumption == LastSuffix \in Nat
ASSUME JobAssumption == Job \subseteq JobType
ASSUME FaultAssumption == Faults \subseteq FaultKinds
ASSUME NoneAssumption ==
    None \notin Proc /\ None \notin {j.sums : j \in Job} /\ None \notin Name

(* No product is the beginning of another: HDU by HDU, what they have both *)
(* tells them apart. Where one is, a file of the longer that is cut, or    *)
(* not yet whole, passes for the shorter and is replaced by it.            *)
Apart ==
    \A a, b \in Job :
        (\A k \in DOMAIN a.sums \cap DOMAIN b.sums : a.sums[k] = b.sums[k])
            => a.sums = b.sums

VARIABLES
    job,         \* job[p]: the product of p
    pc,          \* pc[p]: what p does next
    name,        \* name[p]: f->name
    nuke,        \* nuke[p]: the argument of the commit_fits in progress
    hdu,         \* hdu[p]: the current HDU of the product in memory
    label,       \* label[p][h]: the FILENAME in its HDU h, or None
    fd,          \* fd[p]: the inode p has open for writing, or None
    dir,         \* dir[n]: the inode linked as n, or None
    content,     \* content[i]: the bytes of inode i
    look         \* look[p]: what p has open in compare_fits, or None

memory == <<hdu, label>>
vars == <<job, pc, name, nuke, memory, fd, dir, content, look>>

(* A process creates at most one file (after it has, it never restarts),   *)
(* so the inode it creates goes by its name.                               *)
Inode == Proc

(* The bytes of a file: who wrote its beginning last, with what FILENAME   *)
(* in each HDU, how many bytes the product has and how many of them were   *)
(* written, and how long the file is.                                      *)
Empty == [by |-> None, label |-> <<>>, size |-> 0, upto |-> 0, len |-> 0]
Content == [by : Proc \cup {None}, label : Seq(Name \cup {None}),
            size : Nat, upto : Nat, len : Nat]

(* A file is whole when it is exactly the product written.                 *)
Whole(c) == c.by # None /\ c.upto = c.size /\ c.len = c.size

(* What compare_fits has read of the file it has open: the bytes it found, *)
(* which cfitsio keeps in its buffers with the length of the file, and the *)
(* HDU it reads next, 0 before they are counted.                           *)
Look == [inode : Inode, was : Content, next : Nat]

Running == {"commit", "compare", "read", "write", "rest", "fsync", "close", "unlink", "finish"}
Stopped == {"done", "dead", "unlinked"}

Data(p) == job[p].sums

---------------------------------------------------------------------------

Init ==
    /\ job \in [Proc -> Job]
    /\ pc = [p \in Proc |-> "commit"]
    /\ name = [p \in Proc |-> job[p].asked]
    /\ nuke = [p \in Proc |-> FALSE]
    /\ hdu = [p \in Proc |-> job[p].current]
    /\ label = [p \in Proc |-> [h \in DOMAIN job[p].sums |-> None]]
    /\ fd = [p \in Proc |-> None]
    /\ dir = [n \in Name |-> None]
    /\ content = [i \in Inode |-> Empty]
    /\ look = [p \in Proc |-> None]

Goto(p, from, to) == pc[p] = from /\ pc' = [pc EXCEPT ![p] = to]

---------------------------------------------------------------------------
(* commit_fits up to the open of p2sc_create_file.                         *)

(* Mutant: FILENAME is written once, before the first attempt.             *)
LabelledOnce(p) ==
    /\ Data(p)[hdu[p]] # Missing
    /\ label' = IF \A h \in DOMAIN label[p] : label[p][h] = None
                THEN [label EXCEPT ![p] = [@ EXCEPT ![hdu[p]] = name[p]]]
                ELSE label

(* What commit_fits writes into the current HDU, the name before all. Then *)
(* it updates CHECKSUM, for which the HDU must have DATASUM.               *)
Labelled(p) ==
    /\ Data(p)[hdu[p]] # Missing
    /\ label' = [label EXCEPT ![p] = [@ EXCEPT ![hdu[p]] = name[p]]]

(* The length of the product with the labels l.                            *)
Size(p, l) == job[p].size + IF job[p].current # 1 /\ l[1] # None THEN job[p].more ELSE 0

(* A keyword or checksum that cannot be written in memory is fatal.        *)
FitsError(p) ==
    /\ \/ "fits" \in Faults /\ pc[p] \in {"commit", "finish"}
       \/ pc[p] = "commit" /\ Data(p)[hdu[p]] = Missing
    /\ pc' = [pc EXCEPT ![p] = "dead"]
    /\ UNCHANGED <<job, name, nuke, memory, fd, dir, content, look>>

(* The name is free: open makes the file, with or without O_EXCL.          *)
OpenNew(p) ==
    /\ dir[name[p]] = None
    /\ Goto(p, "commit", "write")
    /\ Labelled(p)
    /\ dir' = [dir EXCEPT ![name[p]] = p]
    /\ fd' = [fd EXCEPT ![p] = p]
    /\ content' = [content EXCEPT ![p] = Empty]
    /\ UNCHANGED <<job, name, nuke, hdu, look>>

(* Mutant: the -1 of commit_fits is taken for success.                     *)
OpenExistsIgnored(p) ==
    /\ dir[name[p]] # None
    /\ ~nuke[p]
    /\ Goto(p, "commit", "finish")
    /\ Labelled(p)
    /\ UNCHANGED <<job, name, nuke, hdu, fd, dir, content, look>>

(* The name is taken and O_EXCL is set: EEXIST, commit_fits returns -1.    *)
OpenExists(p) ==
    /\ dir[name[p]] # None
    /\ ~nuke[p]
    /\ Goto(p, "commit", "compare")
    /\ Labelled(p)
    /\ UNCHANGED <<job, name, nuke, hdu, fd, dir, content, look>>

(* The kernel lets one write or truncation of a file at a time proceed,    *)
(* and readers meanwhile.                                                  *)
Busy(i) == \E q \in Proc : pc[q] = "rest" /\ fd[q] = i

(* Mutant: p2sc_create_file without O_EXCL.                                *)
OpenTruncateAlways(p) ==
    /\ dir[name[p]] # None
    /\ ~Busy(dir[name[p]])
    /\ Goto(p, "commit", "write")
    /\ Labelled(p)
    /\ fd' = [fd EXCEPT ![p] = dir[name[p]]]
    /\ content' = [content EXCEPT ![dir[name[p]]] = Empty]
    /\ UNCHANGED <<job, name, nuke, hdu, dir, look>>

(* The name is taken and may be overwritten: O_TRUNC empties the file.     *)
OpenTruncate(p) ==
    /\ dir[name[p]] # None
    /\ nuke[p]
    /\ ~Busy(dir[name[p]])
    /\ Goto(p, "commit", "write")
    /\ Labelled(p)
    /\ fd' = [fd EXCEPT ![p] = dir[name[p]]]
    /\ content' = [content EXCEPT ![dir[name[p]]] = Empty]
    /\ UNCHANGED <<job, name, nuke, hdu, dir, look>>

(* Any other error of open is fatal; nothing has been touched.             *)
OpenError(p) ==
    /\ "open" \in Faults
    /\ Goto(p, "commit", "dead")
    /\ Labelled(p)
    /\ UNCHANGED <<job, name, nuke, hdu, fd, dir, content, look>>

---------------------------------------------------------------------------
(* p2sc_create_file from write to close.                                   *)

(* The bytes of inode i after p writes its first k bytes over them.        *)
Overwritten(p, i, k) ==
    [by    |-> p,
     label |-> label[p],
     size  |-> Size(p, label[p]),
     upto  |-> k,
     len   |-> IF content[i].len > k THEN content[i].len ELSE k]

(* Some of the bytes are there, and others can read them.                  *)
WriteSome(p) ==
    /\ ~Busy(fd[p])
    /\ Goto(p, "write", "rest")
    /\ \E k \in 1 .. Size(p, label[p]) - 1 :
          content' = [content EXCEPT ![fd[p]] = Overwritten(p, fd[p], k)]
    /\ UNCHANGED <<job, name, nuke, memory, fd, dir, look>>

WriteAll(p) ==
    /\ \/ Goto(p, "write", "fsync") /\ ~Busy(fd[p])
       \/ Goto(p, "rest", "fsync")
    /\ content' = [content EXCEPT ![fd[p]] = Overwritten(p, fd[p], Size(p, label[p]))]
    /\ UNCHANGED <<job, name, nuke, memory, fd, dir, look>>

(* write may take fewer bytes than asked, which the code does not look at. *)
WriteShort(p) ==
    /\ "short" \in Faults
    /\ Goto(p, "rest", "fsync")
    /\ UNCHANGED <<job, name, nuke, memory, fd, dir, content, look>>

Fsync(p) ==
    /\ Goto(p, "fsync", "close")
    /\ UNCHANGED <<job, name, nuke, memory, fd, dir, content, look>>

Close(p) ==
    /\ Goto(p, "close", "finish")
    /\ fd' = [fd EXCEPT ![p] = None]
    /\ UNCHANGED <<job, name, nuke, memory, dir, content, look>>

(* write (of no byte), fsync or close fails.                               *)
IoError(p) ==
    /\ pc[p] \in {"write", "fsync", "close"} \cap Faults
    /\ pc' = [pc EXCEPT ![p] = "unlink"]
    /\ UNCHANGED <<job, name, nuke, memory, fd, dir, content, look>>

(* The file is removed by name, whatever is linked there now, and the      *)
(* process exits.                                                          *)
Unlink(p) ==
    /\ Goto(p, "unlink", "unlinked")
    /\ dir' = [dir EXCEPT ![name[p]] = None]
    /\ fd' = [fd EXCEPT ![p] = None]
    /\ UNCHANGED <<job, name, nuke, memory, content, look>>

(* fits_close_file of the memory file; the name goes to the caller.        *)
Finish(p) ==
    /\ Goto(p, "finish", "done")
    /\ UNCHANGED <<job, name, nuke, memory, fd, dir, content, look>>

---------------------------------------------------------------------------
(* compare_fits and the choice sfts_free makes of its result.              *)

(* cfitsio reads a block of the file, or finds it in its buffers.          *)
Views(p) == {look[p].was, content[look[p].inode]}

(* A file that is too short ends with one of its HDUs.                     *)
Counts(c) ==
    IF c.by = None THEN {}
    ELSE IF c.len < c.size THEN 1 .. Len(Data(c.by)) ELSE {Len(Data(c.by))}
Counted(p) == UNION {Counts(c) : c \in Views(p)}

(* The DATASUM of HDU k, as it is read.                                    *)
Sums(p, k) ==
    {Data(c.by)[k] : c \in {v \in Views(p) : v.by # None /\ k \in DOMAIN Data(v.by)}}

(* What is behind the product, and headers of another length, put HDUs     *)
(* where there were none. That one of them passes for the one expected is  *)
(* left out.                                                               *)
Misplaced(p) ==
    \/ \E c \in Views(p) : c.by # None /\ c.len > c.size
    \/ \E c, d \in Views(p) : c.by # None /\ d.by # None /\ c.size # d.size

(* Mutant: only the numbers of HDUs are compared.                          *)
AgreesCount(p) == look[p].next = 0 => Len(Data(p)) \in Counted(p)

(* The HDUs are counted and their sums read in turn, up to the first that  *)
(* is another.                                                             *)
Agrees(p) ==
    LET k == look[p].next
    IN  IF k = 0 THEN Len(Data(p)) \in Counted(p)
        ELSE Data(p)[k] \in Sums(p, k) \ {Missing}

(* Mutant: a file that cannot be read counts as another product.           *)
DiffersDamaged(p) ==
    LET k == look[p].next
    IN  \/ \E c \in Views(p) : ~Whole(c)
        \/ k = 0 /\ Counted(p) # {Len(Data(p))}
        \/ k # 0 /\ Sums(p, k) \ {Data(p)[k], Missing} # {}

Differs(p) ==
    LET k == look[p].next
    IN  \/ Misplaced(p)
        \/ k = 0 /\ Counted(p) \ {Len(Data(p))} # {}
        \/ k # 0 /\ Data(p)[k] # Missing /\ Sums(p, k) \ {Data(p)[k], Missing} # {}

(* A DATASUM is missing, or a checksum is wrong or a block lost that is    *)
(* needed. sfts_openro reads an argument compare_fits does not pass, so a  *)
(* file that is damaged may also be taken for what its headers say.        *)
Unreadable(p) ==
    \/ \E c \in Views(p) : ~Whole(c)
    \/ look[p].next # 0 /\ Missing \in Sums(p, look[p].next) \cup {Data(p)[look[p].next]}

(* sfts_openro; a file that is gone or empty does not open, and one that   *)
(* is damaged may not.                                                     *)
CompareOpen(p) ==
    /\ dir[name[p]] # None
    /\ LET i == dir[name[p]]
       IN  /\ content[i].by # None
           /\ look' = [look EXCEPT ![p] = [inode |-> i, was |-> content[i], next |-> 0]]
    /\ Goto(p, "compare", "read")
    /\ UNCHANGED <<job, name, nuke, memory, fd, dir, content>>

(* The number of HDUs is the same.                                         *)
CompareCount(p) ==
    /\ pc[p] = "read" /\ look[p].next = 0
    /\ Agrees(p)
    /\ look' = [look EXCEPT ![p].next = 1]
    /\ UNCHANGED <<job, pc, name, nuke, memory, fd, dir, content>>

(* The sums of an HDU are, and there are more.                             *)
CompareNext(p) ==
    /\ pc[p] = "read" /\ look[p].next \in 1 .. Len(Data(p)) - 1
    /\ Agrees(p)
    /\ look' = [look EXCEPT ![p].next = look[p].next + 1]
    /\ UNCHANGED <<job, pc, name, nuke, memory, fd, dir, content>>

(* The file is closed, and the first HDU of the product is the current one.*)
Compared(p) ==
    /\ hdu' = [hdu EXCEPT ![p] = 1]
    /\ look' = [look EXCEPT ![p] = None]
    /\ UNCHANGED <<job, label, fd, dir, content>>

(* Identical data, will replace.                                           *)
CompareSame(p) ==
    /\ Goto(p, "read", "commit")
    /\ look[p].next = Len(Data(p))
    /\ Agrees(p)
    /\ Compared(p)
    /\ nuke' = [nuke EXCEPT ![p] = TRUE]
    /\ UNCHANGED name

(* Mutants: no limit to the numbers, new_name returning the same name, and *)
(* the restart keeping the permission to overwrite.                        *)
CompareDifferUnlimited(p) ==
    /\ Goto(p, "read", "commit")
    /\ Differs(p)
    /\ Compared(p)
    /\ name' = [name EXCEPT ![p] = @ + 1]
    /\ UNCHANGED nuke

CompareDifferStuck(p) ==
    /\ Goto(p, "read", "commit")
    /\ Differs(p)
    /\ Compared(p)
    /\ UNCHANGED <<name, nuke>>

CompareDifferNuke(p) ==
    /\ Goto(p, "read", "commit")
    /\ Differs(p)
    /\ name[p] < LastSuffix
    /\ Compared(p)
    /\ name' = [name EXCEPT ![p] = @ + 1]
    /\ nuke' = [nuke EXCEPT ![p] = TRUE]

(* Other data: new_name, and the commit is restarted without nuke.         *)
CompareDiffer(p) ==
    /\ Goto(p, "read", "commit")
    /\ Differs(p)
    /\ name[p] < LastSuffix
    /\ Compared(p)
    /\ name' = [name EXCEPT ![p] = @ + 1]
    /\ UNCHANGED nuke

(* The file is gone or unreadable, or new_name has no number left.         *)
CompareFatal(p) ==
    /\ \/ pc[p] = "compare" /\ (dir[name[p]] # None => ~Whole(content[dir[name[p]]]))
       \/ pc[p] = "read" /\ (Unreadable(p) \/ (Differs(p) /\ name[p] = LastSuffix))
    /\ pc' = [pc EXCEPT ![p] = "dead"]
    /\ look' = [look EXCEPT ![p] = None]
    /\ UNCHANGED <<job, name, nuke, memory, fd, dir, content>>

---------------------------------------------------------------------------

(* The process is killed; the system closes its descriptors.               *)
Kill(p) ==
    /\ "kill" \in Faults
    /\ pc[p] \in Running
    /\ pc' = [pc EXCEPT ![p] = "dead"]
    /\ fd' = [fd EXCEPT ![p] = None]
    /\ look' = [look EXCEPT ![p] = None]
    /\ UNCHANGED <<job, name, nuke, memory, dir, content>>

(* Every process has returned or died.                                     *)
AllStopped ==
    /\ \A p \in Proc : pc[p] \in Stopped
    /\ UNCHANGED vars

Commit(p) == OpenNew(p) \/ OpenExists(p) \/ OpenTruncate(p) \/ OpenError(p)
Write(p) ==
    WriteSome(p) \/ WriteAll(p) \/ WriteShort(p) \/ Fsync(p) \/ Close(p) \/ IoError(p)
Compare(p) ==
    \/ CompareOpen(p) \/ CompareCount(p) \/ CompareNext(p)
    \/ CompareSame(p) \/ CompareDiffer(p) \/ CompareFatal(p)

(* The steps the program itself takes, all but its being killed.           *)
Step(p) ==
    \/ FitsError(p) \/ Commit(p) \/ Write(p) \/ Unlink(p)
    \/ Compare(p) \/ Finish(p)

Next == AllStopped \/ \E p \in Proc : Step(p) \/ Kill(p)

(* A process that can run is scheduled, and system calls return.           *)
Fairness == \A p \in Proc : WF_vars(Step(p))

Spec == Init /\ [][Next]_vars
FairSpec == Spec /\ Fairness

---------------------------------------------------------------------------
(* Properties.                                                             *)

TypeOK ==
    /\ job \in [Proc -> Job]
    /\ pc \in [Proc -> Running \cup Stopped]
    /\ name \in [Proc -> Name]
    /\ nuke \in [Proc -> BOOLEAN]
    /\ hdu \in [Proc -> Nat] /\ \A p \in Proc : hdu[p] \in DOMAIN Data(p)
    /\ label \in [Proc -> Seq(Name \cup {None})]
    /\ \A p \in Proc : DOMAIN label[p] = DOMAIN Data(p)
    /\ fd \in [Proc -> Inode \cup {None}]
    /\ dir \in [Name -> Inode \cup {None}]
    /\ content \in [Inode -> Content]
    /\ look \in [Proc -> Look \cup {None}]

(* No process has removed the file called n after a failed write, fsync or *)
(* close.                                                                  *)
Unharmed(n) == \A p \in Proc : pc[p] = "unlinked" => name[p] # n

NothingUnlinked == \A n \in Name : Unharmed(n)

(* Two callers that were given the same name back committed the same data, *)
(* unless a failed write has removed a file of that very name: the O_EXCL  *)
(* create, the DATASUM comparison and the numbered names of sfts_free keep *)
(* one product from taking the place of another, whatever the interleaving *)
(* and through kills, short writes and the unlinks of other names. It      *)
(* takes products that are Apart.                                          *)
DistinctNames ==
    \A p, q \in Proc :
        /\ Unharmed(name[p])
        /\ pc[p] = "done" /\ pc[q] = "done" /\ name[p] = name[q]
        => Data(p) = Data(q)

(* The file under a name that was given back exists and holds the caller's *)
(* data, unless someone with that same data has emptied it (O_TRUNC) to    *)
(* write it again, or died doing so. What a failed write, fsync or close   *)
(* removes is at most the file of its own name.                            *)
Rewriting(n, d) ==
    \E q \in Proc : /\ pc[q] \in {"write", "unlink", "dead"}
                     /\ name[q] = n
                     /\ Data(q) = d

ReturnedBacked ==
    \A p \in Proc :
        pc[p] = "done" /\ Unharmed(name[p]) =>
            LET i == dir[name[p]]
            IN  /\ i # None
                /\ \/ content[i].by = None /\ Rewriting(name[p], Data(p))
                   \/ content[i].by # None /\ Data(content[i].by) = Data(p)

(* A whole file says in a FILENAME keyword what it is called, the "final   *)
(* name of file" (p2sc_fits.c:113), and says nothing else, but for one     *)
(* case: a product whose current HDU was not its first, and which lost the *)
(* name it asked for, has that name in that HDU and its own in the first,  *)
(* where compare_fits left it (p2sc_fits.c:69).                            *)
FilenameKey ==
    \A n \in Name :
        dir[n] # None /\ Whole(content[dir[n]]) =>
            LET c == content[dir[n]]
                j == job[c.by]
            IN  /\ \E h \in DOMAIN c.label : c.label[h] = n
                /\ \A h \in DOMAIN c.label : c.label[h] \notin {None, n} =>
                       h = j.current /\ h # 1 /\ c.label[h] = j.asked /\ c.label[1] = n

(* A file only ever holds the data it was created for, unless a failed     *)
(* write has removed its name: whatever happens between the comparison of  *)
(* a process and its O_TRUNC, what it overwrites is its own data.          *)
OneProductPerFile ==
    \A i \in Inode :
        content[i].by # None /\ Unharmed(name[i])
            => Data(content[i].by) = Data(i)

(* Without failures, and when the lengths agree, a name given back holds   *)
(* the whole product once the others have stopped.                         *)
Intact(p) ==
    dir[name[p]] # None
        /\ LET c == content[dir[name[p]]]
           IN  Whole(c) /\ Data(c.by) = Data(p)

QuiescentIntact ==
    (\A p \in Proc : pc[p] \in Stopped) =>
        \A p \in Proc : pc[p] = "done" => Intact(p)

(* Without failures, and when the lengths agree, a product of one HDU is   *)
(* not filed twice: equal data under the same asked name comes back under  *)
(* one name, although the file may be read while it is written. A product  *)
(* of more HDUs is filed twice when it is counted before all are there.    *)
NoDuplicates ==
    \A p, q \in Proc :
        /\ pc[p] = "done" /\ pc[q] = "done"
        /\ Data(p) = Data(q) /\ job[p].asked = job[q].asked
        /\ Len(Data(p)) = 1
        => name[p] = name[q]

(* Every call of sfts_free returns or ends its process: the chain of       *)
(* numbered names is finite, and a process waits for no more than a write. *)
Termination == <>(\A p \in Proc : pc[p] \in Stopped)

(* sfts_free implements the store of ProductStore, until a failed write    *)
(* removes a file (which no store does): a name is bound when it is        *)
(* created, and the caller is answered when sfts_free returns.             *)
Store == INSTANCE ProductStore WITH
    Payload <- {j.sums : j \in Job},
    bound <- [n \in Name |-> IF dir[n] = None THEN None ELSE Data(dir[n])],
    result <- [p \in Proc |-> CASE pc[p] = "done" -> <<"returned", name[p]>>
                                 [] pc[p] \in {"dead", "unlinked"} -> <<"failed">>
                                 [] OTHER -> <<"pending">>],
    data <- [p \in Proc |-> Data(p)]

ImplementsStore ==
    Store!StoreInit /\ [][NothingUnlinked' => Store!StoreNext]_(Store!store)

===========================================================================
