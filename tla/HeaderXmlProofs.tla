--------------------------- MODULE HeaderXmlProofs ---------------------------
(***************************************************************************)
(* Proofs about HeaderXml, for headers of any length and any cards.        *)
(***************************************************************************)
EXTENDS HeaderXml, LibraryProofs, SequenceTheorems, FiniteSetTheorems

---------------------------------------------------------------------------
(* The inductive invariant.                                                *)

(* The first n cards are well formed, and a name that XML does not have is *)
(* among the entries.                                                      *)
Read(h, es, n) ==
    \A j \in 1 .. n :
        /\ h[j].ok
        /\ h[j].key \in BadName => \E k \in 1 .. Len(es) : es[k].key = h[j].key

(* An entry with a name that XML does not have comes from a card.          *)
FromCards ==
    \A k \in 1 .. Len(entries) :
        entries[k].key \in BadName => \E j \in DOMAIN header : header[j].key = entries[k].key

(* What makes the header one that is refused.                              *)
Cause == \E j \in DOMAIN header : ~header[j].ok \/ header[j].key \in BadName

IInv ==
    /\ header \in Headers
    /\ \E S : entries \in Seq(S)
    /\ i \in Nat \ {0}
    /\ stage \in {"collect", "write", "done", "failed"}
    /\ FromCards
    /\ stage = "collect" => i <= Len(header) + 1 /\ Read(header, entries, i - 1)
    /\ stage = "write" =>
          /\ i <= Len(entries) + 1 /\ Read(header, entries, Len(header))
          /\ \A k \in 1 .. i - 1 : entries[k].key \notin BadName
    /\ stage = "done" => ~Cause
    /\ stage = "failed" => Cause

---------------------------------------------------------------------------

LEMMA HeaderType ==
    ASSUME header \in Headers
    PROVE  /\ header \in Seq(CardType)
           /\ \A j \in DOMAIN header :
                 /\ header[j].key \in Regular \cup {Comment, History, Blank, Continue}
                 /\ header[j].ok \/ header[j].key \in Regular
<1>1. /\ header \in Seq(CardType)
      /\ \A j \in DOMAIN header : header[j].ok \/ header[j].key \in Regular
  BY HeaderAssumption
<1>2. \A j \in DOMAIN header : header[j] \in CardType
  BY <1>1
<1> QED BY <1>1, <1>2 DEF CardType

LEMMA Least ==
    ASSUME NEW S \in SUBSET Nat, S # {}
    PROVE  /\ Min(S) \in S
           /\ \A y \in S : Min(S) <= y
<1>1. PICK x \in S : \A y \in S : x <= y
  BY LeastOf
<1> QED BY <1>1 DEF Min

(* The search for the name of a card finds a card with that name.          *)
LEMMA FoundIsThere ==
    ASSUME header \in Headers, NEW j \in DOMAIN header
    PROVE  Found(j) \in DOMAIN header /\ header[Found(j)].key = header[j].key
<1> DEFINE same == {k \in DOMAIN header : header[k].key = header[j].key}
           later == {k \in same : k > j}
<1>1. j \in same /\ later \subseteq same
  OBVIOUS
<1>2. same \in SUBSET Nat /\ later \in SUBSET Nat
  <2>1. DOMAIN header \subseteq Nat
    BY HeaderType
  <2> QED BY <2>1
<1>3. Found(j) = IF later # {} THEN Min(later) ELSE Min(same)
  BY DEF Found
<1>4. Found(j) \in same
  <2>1. CASE later # {}
    <3> HIDE DEF same, later
    <3> QED BY <1>1, <1>2, <1>3, <2>1, Least
  <2>2. CASE later = {}
    <3> HIDE DEF same, later
    <3> QED BY <1>1, <1>2, <1>3, <2>2, Least
  <2> QED BY <2>1, <2>2
<1> QED BY <1>4

(* One more entry, of the card that is read.                               *)
LEMMA EntryAdded ==
    ASSUME IInv, stage = "collect", i <= Len(header), header[i].ok,
           NEW e, entries' = Append(entries, e), e.key = header[i].key \/ e.key = Comment,
           header[i].key \in BadName => e.key = header[i].key,
           i' = i + 1, UNCHANGED <<header, stage>>
    PROVE  IInv'
<1>1. /\ header \in Headers /\ i \in Nat \ {0} /\ FromCards /\ Read(header, entries, i - 1)
      /\ header \in Seq(CardType)
  BY HeaderType DEF IInv
<1>2. PICK S : entries \in Seq(S)
  BY DEF IInv
<1> DEFINE T == S \cup {e}
<1>3. /\ entries \in Seq(T) /\ e \in T
      /\ Append(entries, e) \in Seq(T) /\ Len(Append(entries, e)) = Len(entries) + 1
      /\ \A k \in 1 .. Len(entries) : Append(entries, e)[k] = entries[k]
      /\ Append(entries, e)[Len(entries) + 1] = e
  BY <1>2
<1>4. /\ Len(entries) \in Nat /\ Len(entries') = Len(entries) + 1
      /\ \A k \in 1 .. Len(entries) : entries'[k] = entries[k]
      /\ entries'[Len(entries) + 1] = e
  BY <1>2, <1>3
<1>5. \E U : entries' \in Seq(U)
  BY <1>3
<1>6. FromCards'
  <2> SUFFICES ASSUME NEW k \in 1 .. Len(entries'), entries'[k].key \in BadName
               PROVE  \E j \in DOMAIN header : header[j].key = entries'[k].key
    BY DEF FromCards
  <2>1. CASE k \in 1 .. Len(entries)
    BY <1>1, <1>4, <2>1 DEF FromCards
  <2>2. CASE k = Len(entries) + 1
    <3>1. entries'[k].key = e.key /\ e.key # Comment
      BY <1>4, <2>2, NameAssumption
    <3>2. i \in DOMAIN header
      BY <1>1
    <3> QED BY <3>1, <3>2
  <2> QED BY <1>4, <2>1, <2>2
<1>7. Read(header, entries', i)
  <2> SUFFICES ASSUME NEW j \in 1 .. i
               PROVE  /\ header[j].ok
                      /\ header[j].key \in BadName =>
                            \E k \in 1 .. Len(entries') : entries'[k].key = header[j].key
    BY DEF Read
  <2>1. CASE j = i
    <3>1. Len(entries) + 1 \in 1 .. Len(entries')
      BY <1>4
    <3> QED BY <1>4, <2>1, <3>1
  <2>2. CASE j \in 1 .. i - 1
    <3>1. header[j].ok /\ (header[j].key \in BadName =>
             \E k \in 1 .. Len(entries) : entries[k].key = header[j].key)
      BY <1>1, <2>2 DEF Read
    <3>2. 1 .. Len(entries) \subseteq 1 .. Len(entries')
      BY <1>4
    <3> QED BY <1>4, <3>1, <3>2
  <2>3. j = i \/ j \in 1 .. i - 1
    BY <1>1
  <2> QED BY <2>1, <2>2, <2>3
<1>8. i' - 1 = i /\ i' \in Nat \ {0} /\ i' <= Len(header) + 1
  BY <1>1
<1>9. Read(header', entries', i' - 1)
  BY <1>7, <1>8
<1> QED BY <1>1, <1>5, <1>6, <1>8, <1>9 DEF IInv

LEMMA InvInit == Init => IInv
<1> SUFFICES ASSUME Init PROVE IInv
  OBVIOUS
<1>1. header \in Headers /\ stage = "collect" /\ i = 1 /\ entries = <<>>
  BY DEF Init
<1>2. header \in Seq(CardType) /\ Len(entries) = 0
  BY <1>1, HeaderType
<1>3. \E S : entries \in Seq(S)
  <2>1. entries \in Seq({})
    BY <1>1
  <2> QED BY <2>1
<1>4. FromCards /\ Read(header, entries, i - 1) /\ i <= Len(header) + 1
  BY <1>1, <1>2 DEF FromCards, Read
<1> QED BY <1>1, <1>3, <1>4 DEF IInv

(* The steps that leave the entries alone.                                 *)
LEMMA SameEntries ==
    ASSUME IInv, UNCHANGED <<header, entries>>
    PROVE  /\ header' \in Headers /\ (\E S : entries' \in Seq(S)) /\ FromCards'
           /\ \A n : Read(header, entries, n) => Read(header', entries', n)
           /\ Cause => Cause'
           /\ ~Cause => ~Cause'
<1>1. header' \in Headers /\ \E S : entries' \in Seq(S)
  BY DEF IInv
<1>2. FromCards'
  BY DEF IInv, FromCards
<1>3. (Cause => Cause') /\ (~Cause => ~Cause')
  BY DEF Cause
<1> QED BY <1>1, <1>2, <1>3

LEMMA InvNext ==
    ASSUME IInv, [Next]_vars
    PROVE  IInv'
<1>t. /\ header \in Headers /\ header \in Seq(CardType) /\ Len(header) \in Nat
      /\ Len(entries) \in Nat /\ i \in Nat \ {0}
      /\ stage \in {"collect", "write", "done", "failed"}
      /\ \A j \in DOMAIN header :
            /\ header[j].key \in Regular \cup {Comment, History, Blank, Continue}
            /\ header[j].ok \/ header[j].key \in Regular
  BY HeaderType DEF IInv
<1>1. CASE SkipContinue
  <2>1. /\ stage = "collect" /\ i <= Len(header) /\ header[i].key = Continue
        /\ i' = i + 1 /\ UNCHANGED <<header, stage, entries>>
    BY <1>1 DEF SkipContinue, Collecting
  <2>2. i \in DOMAIN header /\ header[i].ok /\ header[i].key \notin BadName
    BY <2>1, <1>t, NameAssumption
  <2>3. Read(header, entries, i - 1)
    BY <2>1 DEF IInv
  <2>4. Read(header, entries, i)
    <3> SUFFICES ASSUME NEW j \in 1 .. i
                 PROVE  /\ header[j].ok
                        /\ header[j].key \in BadName =>
                              \E k \in 1 .. Len(entries) : entries[k].key = header[j].key
      BY DEF Read
    <3>1. j = i \/ j \in 1 .. i - 1
      BY <1>t
    <3> QED BY <2>2, <2>3, <3>1 DEF Read
  <2>5. i' - 1 = i /\ i' \in Nat \ {0} /\ i' <= Len(header) + 1
    BY <2>1, <1>t
  <2> QED BY <2>1, <2>4, <2>5, SameEntries DEF IInv
<1>2. CASE CollectText
  <2>1. /\ stage = "collect" /\ i <= Len(header) /\ header[i].key \in {Comment, History, Blank}
        /\ i' = i + 1 /\ UNCHANGED <<header, stage>>
        /\ entries' = Append(entries,
             [key |-> Name(header[i].key), val |-> header[i].val, com |-> header[i].com])
    BY <1>2 DEF CollectText, Collecting
  <2>2. i \in DOMAIN header /\ header[i].ok /\ header[i].key \notin BadName
    BY <2>1, <1>t, NameAssumption
  <2>3. Name(header[i].key) = header[i].key \/ Name(header[i].key) = Comment
    BY DEF Name
  <2> QED BY <2>1, <2>2, <2>3, EntryAdded
<1>3. CASE CollectValue
  <2>1. /\ stage = "collect" /\ i <= Len(header) /\ header[i].ok
        /\ i' = i + 1 /\ UNCHANGED <<header, stage>>
        /\ entries' = Append(entries,
             [key |-> header[i].key, val |-> Trimmed(Joined[Found(i)].val),
              com |-> Joined[Found(i)].com])
    BY <1>3 DEF CollectValue, Collecting
  <2> QED BY <2>1, EntryAdded
<1>4. CASE CollectBroken
  <2>1. /\ stage' = "failed" /\ UNCHANGED <<header, i, entries>>
        /\ i <= Len(header) /\ ~(header[i].ok /\ header[Found(i)].ok)
    BY <1>4 DEF CollectBroken, Collecting
  <2>2. i \in DOMAIN header
    BY <2>1, <1>t
  <2>3. Cause
    BY <2>1, <2>2, <1>t, FoundIsThere DEF Cause
  <2> QED BY <2>1, <2>3, <1>t, SameEntries DEF IInv
<1>5. CASE CollectEnd
  <2>1. /\ stage = "collect" /\ i > Len(header) /\ stage' = "write" /\ i' = 1
        /\ UNCHANGED <<header, entries>>
    BY <1>5 DEF CollectEnd
  <2>2. i - 1 = Len(header)
    BY <2>1, <1>t DEF IInv
  <2>3. Read(header', entries', Len(header'))
    BY <2>1, <2>2 DEF IInv
  <2>4. i' <= Len(entries') + 1 /\ \A k \in 1 .. i' - 1 : entries'[k].key \notin BadName
    BY <2>1, <1>t
  <2> QED BY <2>1, <2>3, <2>4, SameEntries DEF IInv
<1>6. CASE Write
  <2>1. /\ stage = "write" /\ i <= Len(entries) /\ entries[i].key \notin BadName
        /\ i' = i + 1 /\ UNCHANGED <<header, stage, entries>>
    BY <1>6 DEF Write, Writing
  <2>2. i' \in Nat \ {0} /\ i' <= Len(entries) + 1
    BY <2>1, <1>t
  <2>3. \A k \in 1 .. i' - 1 : entries[k].key \notin BadName
    <3> SUFFICES ASSUME NEW k \in 1 .. i' - 1 PROVE entries[k].key \notin BadName
      OBVIOUS
    <3>1. k = i \/ k \in 1 .. i - 1
      BY <2>1, <1>t
    <3> QED BY <2>1, <3>1 DEF IInv
  <2>4. Read(header', entries', Len(header'))
    BY <2>1 DEF IInv
  <2> QED BY <2>1, <2>2, <2>3, <2>4, SameEntries DEF IInv
<1>7. CASE WriteRefused
  <2>1. /\ stage' = "failed" /\ UNCHANGED <<header, i, entries>>
        /\ i <= Len(entries) /\ entries[i].key \in BadName
    BY <1>7 DEF WriteRefused, Writing
  <2>2. i \in 1 .. Len(entries)
    BY <2>1, <1>t
  <2>3. Cause
    BY <2>1, <2>2 DEF IInv, FromCards, Cause
  <2> QED BY <2>1, <2>3, <1>t, SameEntries DEF IInv
<1>8. CASE WriteEnd
  <2>1. /\ stage = "write" /\ i > Len(entries) /\ stage' = "done"
        /\ UNCHANGED <<header, i, entries>>
    BY <1>8 DEF WriteEnd
  <2>2. /\ Read(header, entries, Len(header))
        /\ \A k \in 1 .. i - 1 : entries[k].key \notin BadName
    BY <2>1 DEF IInv
  <2>3. 1 .. Len(entries) \subseteq 1 .. i - 1
    BY <2>1, <1>t
  <2>4. DOMAIN header = 1 .. Len(header)
    BY <1>t
  <2>5. ~Cause
    BY <2>2, <2>3, <2>4 DEF Cause, Read
  <2> QED BY <2>1, <2>5, <1>t, SameEntries DEF IInv
<1>9. CASE UNCHANGED vars
  <2>1. UNCHANGED <<header, stage, i, entries>>
    BY <1>9 DEF vars
  <2> QED BY <2>1, SameEntries DEF IInv
<1> QED
  BY <1>1, <1>2, <1>3, <1>4, <1>5, <1>6, <1>7, <1>8, <1>9 DEF Next, Step, Ended

---------------------------------------------------------------------------
(* The characters that XML has.                                            *)
Clean == Character \ {Bad}

LEMMA Greatest ==
    ASSUME NEW n \in Nat, NEW S \in SUBSET (0 .. n), S # {}
    PROVE  /\ Max(S) \in S
           /\ \A y \in S : y <= Max(S)
<1> DEFINE R == {n - y : y \in S}
<1>1. R \in SUBSET Nat /\ R # {}
  <2>1. \A y \in S : n - y \in Nat
    OBVIOUS
  <2>2. R \in SUBSET Nat
    BY <2>1
  <2>3. PICK y \in S : TRUE
    OBVIOUS
  <2>4. n - y \in R
    BY <2>3
  <2> QED BY <2>2, <2>4
<1>2. PICK r \in R : \A y \in R : r <= y
  BY <1>1, LeastOf
<1>3. PICK x \in S : r = n - x
  OBVIOUS
<1>4. ASSUME NEW y \in S PROVE y <= x
  <2>1. n - y \in R /\ x \in Nat /\ y \in Nat
    OBVIOUS
  <2>2. n - x <= n - y
    BY <1>2, <1>3, <2>1
  <2> QED BY <2>1, <2>2
<1>5. \A y \in S : x >= y
  BY <1>4
<1> HIDE DEF R
<1>6. Max(S) \in S /\ \A y \in S : Max(S) >= y
  BY <1>5 DEF Max
<1>t. \A y \in S : y \in Int
  OBVIOUS
<1>7. ASSUME NEW y \in S PROVE y <= Max(S)
  <2>1. Max(S) \in Int /\ y \in Int /\ Max(S) >= y
    BY <1>t, <1>6
  <2> QED BY <2>1
<1> QED BY <1>6, <1>7

---------------------------------------------------------------------------
(* Texts.                                                                  *)

LEMMA ScrubbedClean ==
    ASSUME NEW t \in Text
    PROVE  Scrubbed(t) \in Seq(Clean)
<1>1. Character \cap (Character \ {Bad}) = Clean
  BY DEF Clean
<1>2. Selected(t, Character \ {Bad}) \in Seq(Character \cap (Character \ {Bad}))
  BY SelectedType DEF Text
<1> QED BY <1>1, <1>2 DEF Scrubbed

LEMMA SentClean ==
    ASSUME NEW t \in Text, Bad \in Range(t)
    PROVE  SentBefore(t) \in Seq(Clean)
<1> DEFINE S == {k \in DOMAIN t : t[k] = Bad}
           bad == Min(S)
           A == {0} \cup {k \in 1 .. bad - 1 : t[k] = Amp}
           m == Max(A)
<1>1. t \in Seq(Character) /\ DOMAIN t = 1 .. Len(t) /\ Len(t) \in Nat
  BY DEF Text
<1>2. S \in SUBSET Nat /\ S # {}
  BY <1>1 DEF Range
<1>3. bad \in S /\ \A y \in S : bad <= y
  <2> HIDE DEF S
  <2> QED BY <1>2, Least
<1> HIDE DEF bad
<1>4. bad \in 1 .. Len(t) /\ \A k \in 1 .. bad - 1 : t[k] # Bad
  <2>1. bad \in 1 .. Len(t)
    BY <1>1, <1>3
  <2>2. ASSUME NEW k \in 1 .. bad - 1, t[k] = Bad PROVE FALSE
    <3>1. k \in 1 .. Len(t) /\ ~(bad <= k)
      BY <1>1, <2>1
    <3>2. k \in S
      BY <1>1, <2>2, <3>1
    <3> QED BY <1>3, <3>1, <3>2
  <2> QED BY <2>1, <2>2
<1>5. A \in SUBSET (0 .. bad - 1) /\ A # {} /\ bad - 1 \in Nat
  BY <1>1, <1>4
<1> HIDE DEF A
<1>6. m \in 0 .. bad - 1
  <2> DEFINE n == bad - 1
  <2>1. A \in SUBSET (0 .. n) /\ A # {} /\ n \in Nat
    BY <1>5
  <2> HIDE DEF n
  <2>2. Max(A) \in A
    BY <2>1, Greatest
  <2> QED BY <2>1, <2>2 DEF n
<1>7. SentBefore(t) = SubSeq(t, 1, m)
  BY DEF SentBefore, bad, A
<1> HIDE DEF m
<1>8. m \in 0 .. Len(t) /\ m \in Nat /\ \A k \in 1 .. m : k \in 1 .. Len(t) /\ t[k] # Bad
  BY <1>1, <1>4, <1>6
<1>9. \A k \in 1 .. m : t[k] \in Clean
  BY <1>1, <1>8 DEF Clean
<1>10. SubSeq(t, 1, m) = [k \in 1 .. m |-> t[k]]
  BY <1>1, <1>8
<1>11. [k \in 1 .. m |-> t[k]] \in Seq(Clean)
  BY <1>8, <1>9
<1> QED BY <1>7, <1>10, <1>11

(* What is written for a text has no character that XML does not have.     *)
LEMMA WrittenClean ==
    ASSUME NEW t \in Text
    PROVE  Written(t) \in Seq(Clean)
<1>1. CASE Bad \in Range(t)
  <2>1. SentBefore(t) \in Seq(Clean) /\ Scrubbed(t) \in Seq(Clean)
    BY <1>1, SentClean, ScrubbedClean
  <2>2. SentBefore(t) \o Scrubbed(t) \in Seq(Clean)
    BY <2>1
  <2> QED BY <1>1, <2>2 DEF Written
<1>2. CASE Bad \notin Range(t)
  <2>1. t \in Seq(Character) /\ \A k \in 1 .. Len(t) : t[k] # Bad
    BY <1>2 DEF Text, Range
  <2>2. \A k \in 1 .. Len(t) : t[k] \in Clean
    BY <2>1 DEF Clean
  <2>3. t \in Seq(Clean)
    BY <2>1, <2>2
  <2> QED BY <1>2, <2>3 DEF Written
<1> QED BY <1>1, <1>2

LEMMA CleanHasNoBad ==
    ASSUME NEW t \in Seq(Clean)
    PROVE  Bad \notin Range(t)
BY DEF Range, Clean

(* A clean text is written as it is.                                       *)
LEMMA CleanUnchanged ==
    ASSUME NEW t \in Seq(Clean)
    PROVE  /\ Written(t) = t
           /\ Attribute(t) = IF t = <<>> THEN None ELSE t
<1>1. Written(t) = t
  BY CleanHasNoBad DEF Written
<1>2. Scrubbed(t) = t
  BY SelectedAll DEF Scrubbed, Clean
<1> QED BY <1>1, <1>2 DEF Attribute
---------------------------------------------------------------------------
(* Joined cards.                                                           *)

(* Card j goes on in the one behind it.                                    *)
GoesOn(j) ==
    /\ header[j].val # <<>> /\ Last(header[j].val) = Amp
    /\ j < Len(header) /\ header[j + 1].key = Continue
    /\ header[j + 1].val # <<>> \/ header[j + 1].com # <<>>

(* Values and comments of these characters.                                *)
Texts(C) == [val : Seq(C), com : Seq(C)]
WrittenWith(C) == \A j \in DOMAIN header : header[j].val \in Seq(C) /\ header[j].com \in Seq(C)

(* What card j makes of what is behind it.                                 *)
JoinTo(j, rest) ==
    IF GoesOn(j) THEN [val |-> Front(header[j].val) \o rest.val, com |-> header[j].com \o rest.com]
    ELSE [val |-> header[j].val, com |-> header[j].com]

LEMMA FrontType ==
    ASSUME NEW C, NEW s \in Seq(C), s # <<>>
    PROVE  Front(s) \in Seq(C)
BY DEF Front

LEMMA JoinToType ==
    ASSUME NEW C, WrittenWith(C), NEW j \in DOMAIN header, NEW rest \in Texts(C)
    PROVE  JoinTo(j, rest) \in Texts(C)
<1>1. /\ header[j].val \in Seq(C) /\ header[j].com \in Seq(C)
      /\ rest.val \in Seq(C) /\ rest.com \in Seq(C)
  BY DEF WrittenWith, Texts
<1>2. CASE GoesOn(j)
  <2>1. Front(header[j].val) \in Seq(C)
    BY <1>1, <1>2, FrontType DEF GoesOn
  <2>2. Front(header[j].val) \o rest.val \in Seq(C) /\ header[j].com \o rest.com \in Seq(C)
    BY <1>1, <2>1
  <2> QED BY <1>2, <2>2 DEF JoinTo, Texts
<1>3. CASE ~GoesOn(j)
  BY <1>1, <1>3 DEF JoinTo, Texts
<1> QED BY <1>2, <1>3

(* The cards can be joined, from the last one up.                          *)
LEMMA JoinedExists ==
    ASSUME NEW C, header \in Seq(CardType), WrittenWith(C)
    PROVE  \E joined : joined = [j \in DOMAIN header |-> JoinTo(j, joined[j + 1])]
<1> DEFINE n == Len(header)
           V == Texts(C)
           none == [val |-> <<>>, com |-> <<>>]
           f == [k \in 1 .. n |-> [rest \in V |-> JoinTo(n + 1 - k, rest)]]
<1>1. n \in Nat /\ DOMAIN header = 1 .. n
  OBVIOUS
<1>2. none \in V
  BY DEF Texts
<1> HIDE DEF n, none
<1>3. ASSUME NEW k \in 1 .. n, NEW rest \in V PROVE JoinTo(n + 1 - k, rest) \in V
  <2>1. n + 1 - k \in 1 .. n
    BY <1>1
  <2> QED BY <1>1, <2>1, JoinToType
<1> HIDE DEF V
<1>4. f \in [1 .. n -> [V -> V]]
  BY <1>3
<1>5. \A k \in 1 .. n : \A rest \in V : f[k][rest] = JoinTo(n + 1 - k, rest)
  OBVIOUS
<1> HIDE DEF f
<1>6. PICK g \in [0 .. n -> V] : Steps(g, none, f, n)
  BY <1>1, <1>2, <1>4, StepsExist
<1>7. ASSUME NEW k \in 1 .. n PROVE g[k] = JoinTo(n + 1 - k, g[k - 1])
  <2>1. k - 1 \in 0 .. n /\ g[k - 1] \in V
    BY <1>1, <1>6
  <2> QED BY <1>5, <1>6, <2>1 DEF Steps
<1> DEFINE joined == [j \in 1 .. n |-> g[n + 1 - j]]
<1>8. ASSUME NEW j \in 1 .. n PROVE joined[j] = JoinTo(j, joined[j + 1])
  <2>1. n + 1 - j \in 1 .. n /\ n + 1 - (n + 1 - j) = j /\ (n + 1 - j) - 1 = n - j
    BY <1>1
  <2>2. joined[j] = JoinTo(j, g[n - j])
    <3>1. g[n + 1 - j] = JoinTo(n + 1 - (n + 1 - j), g[(n + 1 - j) - 1])
      BY <1>7, <2>1
    <3> QED BY <2>1, <3>1
  <2>3. CASE GoesOn(j)
    <3>1. j < n
      BY <2>3 DEF GoesOn, n
    <3>2. j + 1 \in 1 .. n /\ n + 1 - (j + 1) = n - j
      BY <1>1, <3>1
    <3>3. joined[j + 1] = g[n - j]
      BY <3>2
    <3> HIDE DEF joined
    <3> QED BY <2>2, <3>3
  <2>4. CASE ~GoesOn(j)
    <3> HIDE DEF joined
    <3> QED BY <2>2, <2>4 DEF JoinTo
  <2> QED BY <2>3, <2>4
<1>9. joined = [j \in 1 .. n |-> joined[j]]
  OBVIOUS
<1> HIDE DEF joined
<1>10. joined = [j \in DOMAIN header |-> JoinTo(j, joined[j + 1])]
  BY <1>1, <1>8, <1>9
<1> QED BY <1>10

LEMMA JoinedIs ==
    ASSUME NEW C, header \in Seq(CardType), WrittenWith(C)
    PROVE  /\ Joined = [j \in DOMAIN header |-> JoinTo(j, Joined[j + 1])]
           /\ \A j \in DOMAIN header : Joined[j] \in Texts(C)
<1> DEFINE n == Len(header)
           chosen == CHOOSE joined : joined = [j \in DOMAIN header |-> JoinTo(j, joined[j + 1])]
<1>1. chosen = [j \in DOMAIN header |-> JoinTo(j, chosen[j + 1])]
  BY JoinedExists
<1>2. Joined = chosen
  BY DEF Joined, JoinTo, GoesOn
<1> HIDE DEF chosen
<1>3. Joined = [j \in DOMAIN header |-> JoinTo(j, Joined[j + 1])]
  BY <1>1, <1>2
<1>4. n \in Nat /\ DOMAIN header = 1 .. n
  OBVIOUS
<1> HIDE DEF n
<1> DEFINE D == {k \in 0 .. n : k # 0 => Joined[n + 1 - k] \in Texts(C)}
<1>5. 0 \in D
  BY <1>4
<1>6. ASSUME NEW k \in 0 .. n - 1, k \in D PROVE k + 1 \in D
  <2>1. k + 1 \in 0 .. n /\ n + 1 - (k + 1) = n - k /\ n - k \in 1 .. n /\ (n - k) + 1 = n + 1 - k
    BY <1>4, <1>6
  <2>2. Joined[n - k] = JoinTo(n - k, Joined[n + 1 - k])
    BY <1>3, <1>4, <2>1
  <2>3. CASE GoesOn(n - k)
    <3>1. n - k < n
      BY <2>3 DEF GoesOn, n
    <3>2. Joined[n + 1 - k] \in Texts(C)
      <4>1. k # 0
        BY <1>4, <3>1
      <4> QED BY <1>6, <4>1
    <3> QED BY <1>4, <2>1, <2>2, <3>2, JoinToType
  <2>4. CASE ~GoesOn(n - k)
    <3>1. JoinTo(n - k, Joined[n + 1 - k]) \in Texts(C)
      BY <1>4, <2>1, <2>4 DEF JoinTo, Texts, WrittenWith
    <3> QED BY <2>1, <2>2, <3>1
  <2> QED BY <2>3, <2>4
<1> HIDE DEF D
<1>7. \A k \in 0 .. n : k \in D
  BY <1>4, <1>5, <1>6, UpTo
<1>8. ASSUME NEW j \in DOMAIN header PROVE Joined[j] \in Texts(C)
  <2>1. n + 1 - j \in 0 .. n /\ n + 1 - j # 0 /\ n + 1 - (n + 1 - j) = j
    BY <1>4
  <2>2. Joined[n + 1 - (n + 1 - j)] \in Texts(C)
    BY <1>7, <2>1 DEF D
  <2> QED BY <2>1, <2>2
<1> QED BY <1>3, <1>8
---------------------------------------------------------------------------
(* The cards that become elements, of the first n.                         *)

Elements == {j \in DOMAIN header : header[j].key # Continue}
KeptTo(n) == Selected([j \in 1 .. n |-> j], Elements)

LEMMA KeptSteps ==
    ASSUME header \in Seq(CardType), NEW n \in 0 .. Len(header)
    PROVE  /\ KeptTo(0) = <<>>
           /\ KeptTo(n) \in Seq(1 .. n)
           /\ n < Len(header) =>
                 KeptTo(n + 1) = IF header[n + 1].key = Continue THEN KeptTo(n)
                                 ELSE Append(KeptTo(n), n + 1)
<1> DEFINE s == [j \in 1 .. n |-> j]
<1>1. n \in Nat /\ Len(header) \in Nat /\ DOMAIN header = 1 .. Len(header)
  OBVIOUS
<1>2. s \in Seq(1 .. n) /\ s \in Seq(1 .. n + 1) /\ Len(s) = n
  BY <1>1
<1>3. KeptTo(0) = <<>>
  <2>1. [j \in 1 .. 0 |-> j] = <<>>
    OBVIOUS
  <2> QED BY <2>1, SelectedNone DEF KeptTo
<1>4. KeptTo(n) \in Seq(1 .. n)
  <2>1. Selected(s, Elements) \in Seq((1 .. n) \cap Elements)
    BY <1>2, SelectedType
  <2>2. (1 .. n) \cap Elements \subseteq 1 .. n
    OBVIOUS
  <2> HIDE DEF s
  <2>3. Selected(s, Elements) \in Seq(1 .. n)
    BY <2>1, <2>2
  <2> QED BY <2>3 DEF KeptTo, s
<1>5. ASSUME n < Len(header)
      PROVE  KeptTo(n + 1) = IF header[n + 1].key = Continue THEN KeptTo(n)
                             ELSE Append(KeptTo(n), n + 1)
  <2>1. [j \in 1 .. n + 1 |-> j] = Append(s, n + 1)
    <3>1. /\ [j \in 1 .. n + 1 |-> j] \in Seq(1 .. n + 1)
          /\ Len([j \in 1 .. n + 1 |-> j]) = n + 1
      BY <1>1
    <3>2. n + 1 \in 1 .. n + 1
      BY <1>1
    <3>3. /\ Append(s, n + 1) \in Seq(1 .. n + 1) /\ Len(Append(s, n + 1)) = n + 1
          /\ \A k \in 1 .. n + 1 : Append(s, n + 1)[k] = k
      BY <1>1, <1>2, <3>2
    <3> HIDE DEF s
    <3>4. \A k \in 1 .. n + 1 : [j \in 1 .. n + 1 |-> j][k] = Append(s, n + 1)[k]
      BY <3>3
    <3> QED BY <3>1, <3>3, <3>4, SeqEqual
  <2>2. n + 1 \in DOMAIN header /\ n + 1 \in 1 .. n + 1
    BY <1>1, <1>5
  <2> HIDE DEF s
  <2>3. Selected(Append(s, n + 1), Elements)
           = IF n + 1 \in Elements THEN Append(Selected(s, Elements), n + 1)
             ELSE Selected(s, Elements)
    <3> DEFINE e == n + 1
               T == 1 .. n + 1
    <3>1. s \in Seq(T) /\ e \in T
      BY <1>2, <2>2
    <3> HIDE DEF e, T
    <3>2. Selected(Append(s, e), Elements)
             = IF e \in Elements THEN Append(Selected(s, Elements), e) ELSE Selected(s, Elements)
      BY <3>1, SelectedOne
    <3> QED BY <3>2 DEF e
  <2>4. KeptTo(n + 1) = Selected(Append(s, n + 1), Elements) /\ KeptTo(n) = Selected(s, Elements)
    BY <2>1 DEF KeptTo, s
  <2>5. n + 1 \in Elements <=> header[n + 1].key # Continue
    BY <2>2 DEF Elements
  <2> QED BY <2>3, <2>4, <2>5
<1> QED BY <1>3, <1>4, <1>5

(* These are all the cards but the continuations, each once.               *)
Enumerates(q, n) ==
    /\ \A k \in 1 .. Len(q) : q[k] \in 1 .. n /\ header[q[k]].key # Continue
    /\ \A j, k \in 1 .. Len(q) : q[j] = q[k] => j = k
    /\ \A j \in 1 .. n : header[j].key # Continue => \E k \in 1 .. Len(q) : q[k] = j

LEMMA EnumerateOne ==
    ASSUME NEW n \in Nat, NEW q \in Seq(1 .. n), Enumerates(q, n)
    PROVE  /\ header[n + 1].key = Continue => Enumerates(q, n + 1)
           /\ header[n + 1].key # Continue => Enumerates(Append(q, n + 1), n + 1)
<1> DEFINE t == Append(q, n + 1)
           m == Len(q)
<1>1. /\ m \in Nat /\ Len(t) = m + 1 /\ t[m + 1] = n + 1
      /\ \A k \in 1 .. m : t[k] = q[k]
  <2>1. n + 1 \in 1 .. n + 1 /\ q \in Seq(1 .. n + 1)
    OBVIOUS
  <2> QED BY <2>1
<1> HIDE DEF t
<1>2. /\ \A k \in 1 .. m : q[k] \in 1 .. n /\ header[q[k]].key # Continue
      /\ \A j, k \in 1 .. m : q[j] = q[k] => j = k
      /\ \A j \in 1 .. n : header[j].key # Continue => \E k \in 1 .. m : q[k] = j
  BY DEF Enumerates
<1>3. /\ \A k \in 1 .. m + 1 : k = m + 1 \/ k \in 1 .. m
      /\ \A k \in 1 .. n + 1 : k = n + 1 \/ k \in 1 .. n
      /\ \A k \in 1 .. n : k \in 1 .. n + 1 /\ k # n + 1
      /\ \A k \in 1 .. m : k \in 1 .. m + 1
      /\ n + 1 \in 1 .. n + 1 /\ m + 1 \in 1 .. m + 1
  BY <1>1
<1>4. ASSUME header[n + 1].key = Continue PROVE Enumerates(q, n + 1)
  <2>1. \A k \in 1 .. m : q[k] \in 1 .. n + 1 /\ header[q[k]].key # Continue
    BY <1>2, <1>3
  <2>2. \A j \in 1 .. n + 1 : header[j].key # Continue => \E k \in 1 .. m : q[k] = j
    BY <1>2, <1>3, <1>4
  <2> QED BY <1>2, <2>1, <2>2 DEF Enumerates
<1>5. ASSUME header[n + 1].key # Continue PROVE Enumerates(t, n + 1)
  <2>1. ASSUME NEW k \in 1 .. m + 1 PROVE t[k] \in 1 .. n + 1 /\ header[t[k]].key # Continue
    BY <1>1, <1>2, <1>3, <1>5
  <2>2. ASSUME NEW j \in 1 .. m + 1, NEW k \in 1 .. m + 1, t[j] = t[k] PROVE j = k
    <3>1. CASE j = m + 1 /\ k \in 1 .. m
      BY <1>1, <1>2, <1>3, <2>2, <3>1
    <3>2. CASE k = m + 1 /\ j \in 1 .. m
      BY <1>1, <1>2, <1>3, <2>2, <3>2
    <3>3. CASE j \in 1 .. m /\ k \in 1 .. m
      BY <1>1, <1>2, <2>2, <3>3
    <3> QED BY <1>3, <3>1, <3>2, <3>3
  <2>3. ASSUME NEW j \in 1 .. n + 1, header[j].key # Continue
        PROVE  \E k \in 1 .. m + 1 : t[k] = j
    <3>1. CASE j = n + 1
      BY <1>1, <1>3, <3>1
    <3>2. CASE j \in 1 .. n
      <4>1. PICK k \in 1 .. m : q[k] = j
        BY <1>2, <2>3, <3>2
      <4> QED BY <1>1, <1>3, <4>1
    <3> QED BY <1>3, <3>1, <3>2
  <2> HIDE DEF m
  <2> QED BY <1>1, <2>1, <2>2, <2>3 DEF Enumerates
<1> QED BY <1>4, <1>5 DEF t

LEMMA KeptEnumerates ==
    ASSUME header \in Seq(CardType)
    PROVE  /\ \A n \in 0 .. Len(header) : Enumerates(KeptTo(n), n)
           /\ Kept = KeptTo(Len(header))
<1> DEFINE L == Len(header)
           D == {n \in 0 .. L : Enumerates(KeptTo(n), n)}
<1>1. L \in Nat /\ DOMAIN header = 1 .. L /\ 0 \in 0 .. L
  OBVIOUS
<1>2. 0 \in D
  <2>1. KeptTo(0) = <<>> /\ Len(<<>>) = 0
    BY <1>1, KeptSteps
  <2>2. Enumerates(<<>>, 0)
    BY <2>1 DEF Enumerates
  <2> QED BY <1>1, <2>1, <2>2
<1>3. ASSUME NEW n \in 0 .. L - 1, n \in D PROVE n + 1 \in D
  <2>1. n \in Nat /\ n + 1 \in 0 .. L /\ n \in 0 .. L /\ n < L
    BY <1>1
  <2>2. /\ KeptTo(n) \in Seq(1 .. n)
        /\ KeptTo(n + 1) = IF header[n + 1].key = Continue THEN KeptTo(n)
                           ELSE Append(KeptTo(n), n + 1)
    BY <2>1, KeptSteps
  <2>3. Enumerates(KeptTo(n), n)
    BY <1>3
  <2>4. Enumerates(KeptTo(n + 1), n + 1)
    BY <2>1, <2>2, <2>3, EnumerateOne
  <2> QED BY <2>1, <2>4
<1> HIDE DEF D
<1>4. \A n \in 0 .. L : n \in D
  <2> HIDE DEF L
  <2> QED BY <1>1, <1>2, <1>3, UpTo
<1>5. Kept = KeptTo(L)
  BY <1>1 DEF Kept, KeptTo, Elements
<1> QED BY <1>4, <1>5 DEF D
---------------------------------------------------------------------------
(* What becomes of the cards: the entry of card j, and what is written of  *)
(* an entry.                                                               *)

Entry(j) ==
    [key |-> Name(header[j].key),
     val |-> IF HasValue(j) THEN Trimmed(Joined[Found(j)].val) ELSE header[j].val,
     com |-> IF HasValue(j) THEN Joined[Found(j)].com ELSE header[j].com]

Sent(e) == [key |-> e.key, val |-> Written(e.val), com |-> Attribute(e.com)]

Collected(n) ==
    /\ Len(entries) = Len(KeptTo(n))
    /\ \A k \in 1 .. Len(entries) : entries[k] = Entry(KeptTo(n)[k])

SentSoFar ==
    /\ \E S : elements \in Seq(S)
    /\ Len(elements) <= Len(entries)
    /\ \A k \in 1 .. Len(elements) :
          elements[k] = Sent(entries[k]) /\ entries[k].key \notin BadName

Converted ==
    /\ contact \in Contacts
    /\ stage = "collect" =>
          /\ \E n \in 0 .. Len(header) : n = i - 1 /\ Collected(n)
          /\ elements = <<>> /\ hvcomment = None
    /\ stage # "collect" =>
          /\ \E n \in 0 .. Len(header) : Collected(n)
          /\ SentSoFar
          /\ stage \in {"write", "done"} =>
                \E n \in 0 .. Len(header) : n = Len(header) /\ Collected(n)
          /\ stage = "write" => Len(elements) = i - 1 /\ hvcomment = None
          /\ stage = "done" => Len(elements) = Len(entries) /\ hvcomment = Written(contact)
          /\ stage = "failed" => hvcomment = None

LEMMA ConvertedInit == Init => Converted
<1> SUFFICES ASSUME Init PROVE Converted
  OBVIOUS
<1>1. /\ header \in Headers /\ contact \in Contacts /\ stage = "collect" /\ i = 1
      /\ entries = <<>> /\ elements = <<>> /\ hvcomment = None
  BY DEF Init
<1>2. header \in Seq(CardType) /\ Len(header) \in Nat
  BY <1>1, HeaderType
<1>3. KeptTo(0) = <<>> /\ i - 1 = 0 /\ 0 \in 0 .. Len(header)
  <2>1. 0 \in 0 .. Len(header)
    BY <1>2
  <2> QED BY <1>1, <1>2, <2>1, KeptSteps
<1>4. Collected(0)
  BY <1>1, <1>3 DEF Collected
<1> QED BY <1>1, <1>3, <1>4 DEF Converted

LEMMA SameHeader ==
    ASSUME header' = header
    PROVE  /\ \A n : KeptTo(n)' = KeptTo(n)
           /\ \A j : Entry(j)' = Entry(j)
<1>1. ASSUME NEW n PROVE KeptTo(n)' = KeptTo(n)
  BY DEF KeptTo, Elements
<1>2. ASSUME NEW j PROVE Entry(j)' = Entry(j)
  BY DEF Entry, Joined, Found, HasValue
<1> QED BY <1>1, <1>2

(* The entry of one more card.                                             *)
LEMMA OneCollected ==
    ASSUME NEW n, IInv, stage = "collect", i <= Len(header), n = i - 1, Collected(n),
           header[i].key # Continue, entries' = Append(entries, Entry(i)), header' = header
    PROVE  Collected(n + 1)'
<1> DEFINE q == KeptTo(n)
           r == KeptTo(n + 1)
           m == Len(q)
           e == Entry(i)
<1>1. /\ header \in Seq(CardType) /\ n \in 0 .. Len(header) /\ n < Len(header) /\ n + 1 = i
  BY HeaderType DEF IInv
<1>2. q \in Seq(1 .. n) /\ r = Append(q, n + 1)
  BY <1>1, KeptSteps
<1>3. /\ m \in Nat /\ Len(r) = m + 1 /\ r[m + 1] = i
      /\ \A k \in 1 .. m : r[k] = q[k]
  <2>1. q \in Seq(1 .. n + 1) /\ n + 1 \in 1 .. n + 1
    BY <1>1, <1>2
  <2> HIDE DEF q, r
  <2> QED BY <1>1, <1>2, <2>1
<1>4. Len(entries) = m /\ \A k \in 1 .. m : entries[k] = Entry(q[k])
  BY DEF Collected
<1> HIDE DEF q, m, e, r
<1>5. PICK S : entries \in Seq(S)
  BY DEF IInv
<1>6. /\ Len(entries') = m + 1 /\ entries'[m + 1] = e
      /\ \A k \in 1 .. m : entries'[k] = entries[k]
  <2>1. entries \in Seq(S \cup {e}) /\ e \in S \cup {e} /\ entries' = Append(entries, e)
    BY <1>5 DEF e
  <2> QED BY <1>4, <2>1
<1>7. ASSUME NEW k \in 1 .. m + 1 PROVE entries'[k] = Entry(r[k])
  <2>1. k = m + 1 \/ k \in 1 .. m
    BY <1>3
  <2> QED BY <1>3, <1>4, <1>6, <2>1 DEF e
<1>8. Len(entries') = Len(r) /\ \A k \in 1 .. Len(entries') : entries'[k] = Entry(r[k])
  BY <1>3, <1>6, <1>7
<1> QED BY <1>8, SameHeader DEF Collected, r

LEMMA SameCollected ==
    ASSUME NEW n, Collected(n), UNCHANGED <<header, entries>>
    PROVE  Collected(n)'
BY SameHeader DEF Collected

LEMMA TextEntry ==
    ASSUME header[i].key \in {Comment, History, Blank},
           Regular \cap {Comment, History, Blank, Continue} = {}
    PROVE  Entry(i) = [key |-> Name(header[i].key), val |-> header[i].val, com |-> header[i].com]
BY DEF Entry, HasValue

LEMMA NothingSent ==
    ASSUME elements = <<>>, Len(entries) \in Nat, UNCHANGED <<elements, entries>>
    PROVE  SentSoFar' /\ Len(elements') = 0
<1>1. elements' = <<>> /\ Len(elements') = 0 /\ elements' \in Seq({}) /\ Len(entries') \in Nat
  OBVIOUS
<1>2. \E S : elements' \in Seq(S)
  BY <1>1
<1> QED BY <1>1, <1>2 DEF SentSoFar

(* Nothing but the stage changes, to the failed one if at all.             *)
LEMMA SameConverted ==
    ASSUME Converted, UNCHANGED <<header, contact, i, entries, elements, hvcomment>>,
           stage' = stage \/ (stage = "write" /\ stage' = "failed")
    PROVE  Converted'
<1>1. \A n : Collected(n) => Collected(n)'
  BY SameCollected
<1>2. SentSoFar => SentSoFar'
  BY DEF SentSoFar
<1>3. CASE stage = "collect"
  <2>1. PICK n \in 0 .. Len(header) : n = i - 1 /\ Collected(n)
    BY <1>3 DEF Converted
  <2> QED BY <1>1, <1>3, <2>1 DEF Converted
<1>4. CASE stage # "collect"
  <2>1. PICK n \in 0 .. Len(header) : Collected(n)
    BY <1>4 DEF Converted
  <2>2. stage \in {"write", "done"} => \E k \in 0 .. Len(header) : k = Len(header) /\ Collected(k)
    BY <1>4 DEF Converted
  <2>3. stage' \in {"write", "done"} =>
           \E k \in 0 .. Len(header') : k = Len(header') /\ Collected(k)'
    BY <1>1, <2>2
  <2>4. \E k \in 0 .. Len(header') : Collected(k)'
    BY <1>1, <2>1
  <2> QED BY <1>2, <1>4, <2>3, <2>4 DEF Converted
<1> QED BY <1>3, <1>4

LEMMA OneSent ==
    ASSUME SentSoFar, NEW n \in Nat, Len(elements) = n, n < Len(entries),
           Len(entries) \in Nat,
           entries[n + 1].key \notin BadName, entries' = entries,
           elements' = Append(elements, Sent(entries[n + 1]))
    PROVE  SentSoFar' /\ Len(elements') = n + 1
<1>1. PICK S : elements \in Seq(S)
  BY DEF SentSoFar
<1> DEFINE e == Sent(entries[n + 1])
<1>2. elements \in Seq(S \cup {e}) /\ e \in S \cup {e} /\ elements' = Append(elements, e)
  BY <1>1
<1>e. e = Sent(entries[n + 1])
  OBVIOUS
<1> HIDE DEF e
<1>3. /\ elements' \in Seq(S \cup {e}) /\ Len(elements') = n + 1 /\ elements'[n + 1] = e
      /\ \A k \in 1 .. n : elements'[k] = elements[k]
  BY <1>2
<1>4. ASSUME NEW k \in 1 .. n + 1
      PROVE  elements'[k] = Sent(entries[k]) /\ entries[k].key \notin BadName
  <2>1. k = n + 1 \/ k \in 1 .. n
    OBVIOUS
  <2> QED BY <1>3, <1>e, <2>1 DEF SentSoFar
<1>5. n + 1 <= Len(entries)
  OBVIOUS
<1>6. \E U : elements' \in Seq(U)
  BY <1>3
<1>7. Len(elements') <= Len(entries')
  BY <1>3, <1>5
<1>8. \A k \in 1 .. Len(elements') :
         elements'[k] = Sent(entries'[k]) /\ entries'[k].key \notin BadName
  BY <1>3, <1>4
<1>9. SentSoFar'
  BY <1>6, <1>7, <1>8 DEF SentSoFar
<1> QED BY <1>3, <1>9

LEMMA ConvertedNext ==
    ASSUME IInv, Converted, [Next]_vars
    PROVE  Converted'
<1>t. /\ header \in Headers /\ header \in Seq(CardType) /\ Len(header) \in Nat
      /\ DOMAIN header = 1 .. Len(header)
      /\ Len(entries) \in Nat /\ i \in Nat \ {0} /\ contact \in Contacts
      /\ stage \in {"collect", "write", "done", "failed"}
  BY HeaderType DEF IInv, Converted
<1>n. /\ Regular \cap {Comment, History, Blank, Continue} = {}
      /\ Continue \notin {Comment, History, Blank}
  BY NameAssumption
<1>1. CASE SkipContinue
  <2>1. /\ stage = "collect" /\ i <= Len(header) /\ header[i].key = Continue
        /\ i' = i + 1 /\ UNCHANGED <<header, contact, stage, entries, elements, hvcomment>>
    BY <1>1 DEF SkipContinue, Collecting
  <2>2. PICK n \in 0 .. Len(header) : n = i - 1 /\ Collected(n)
    BY <2>1 DEF Converted
  <2>3. n < Len(header) /\ n + 1 = i /\ n + 1 = i' - 1 /\ n + 1 \in 0 .. Len(header)
    BY <1>t, <2>1, <2>2
  <2>4. KeptTo(n + 1) = KeptTo(n)
    BY <1>t, <2>1, <2>3, KeptSteps
  <2>5. Collected(n + 1)
    BY <2>2, <2>4 DEF Collected
  <2>6. Collected(n + 1)'
    BY <2>1, <2>5, SameCollected
  <2> QED BY <1>t, <2>1, <2>3, <2>6 DEF Converted
<1>2. CASE CollectText
  <2>1. /\ stage = "collect" /\ i <= Len(header) /\ header[i].key \in {Comment, History, Blank}
        /\ i' = i + 1 /\ UNCHANGED <<header, contact, stage, elements, hvcomment>>
        /\ entries' = Append(entries,
             [key |-> Name(header[i].key), val |-> header[i].val, com |-> header[i].com])
    BY <1>2 DEF CollectText, Collecting
  <2>2. PICK n \in 0 .. Len(header) : n = i - 1 /\ Collected(n)
    BY <2>1 DEF Converted
  <2>3. n + 1 = i' - 1 /\ n + 1 \in 0 .. Len(header)
    BY <1>t, <2>1, <2>2
  <2>4. entries' = Append(entries, Entry(i)) /\ header[i].key # Continue
    <3>1. entries' = Append(entries, Entry(i))
      BY <1>n, <2>1, TextEntry
    <3> QED BY <1>n, <2>1, <3>1
  <2>5. Collected(n + 1)'
    BY <2>1, <2>2, <2>4, OneCollected
  <2> QED BY <1>t, <2>1, <2>3, <2>5 DEF Converted
<1>3. CASE CollectValue
  <2>1. /\ stage = "collect" /\ i <= Len(header) /\ HasValue(i)
        /\ i' = i + 1 /\ UNCHANGED <<header, contact, stage, elements, hvcomment>>
        /\ entries' = Append(entries,
             [key |-> header[i].key, val |-> Trimmed(Joined[Found(i)].val),
              com |-> Joined[Found(i)].com])
    BY <1>3 DEF CollectValue, Collecting
  <2>2. PICK n \in 0 .. Len(header) : n = i - 1 /\ Collected(n)
    BY <2>1 DEF Converted
  <2>3. n + 1 = i' - 1 /\ n + 1 \in 0 .. Len(header)
    BY <1>t, <2>1, <2>2
  <2>4. header[i].key # Continue /\ header[i].key # Blank
    BY <1>n, <2>1 DEF HasValue
  <2>5. entries' = Append(entries, Entry(i))
    BY <2>1, <2>4 DEF Entry, Name
  <2>6. Collected(n + 1)'
    BY <2>1, <2>2, <2>4, <2>5, OneCollected
  <2> QED BY <1>t, <2>1, <2>3, <2>6 DEF Converted
<1>4. CASE CollectBroken
  <2>1. /\ stage = "collect" /\ stage' = "failed"
        /\ UNCHANGED <<header, contact, i, entries, elements, hvcomment>>
    BY <1>4 DEF CollectBroken, Collecting
  <2>2. PICK n \in 0 .. Len(header) : Collected(n)
    BY <2>1 DEF Converted
  <2>3. Collected(n)'
    BY <2>1, <2>2, SameCollected
  <2>4. SentSoFar'
    BY <1>t, <2>1, NothingSent DEF Converted
  <2> QED BY <1>t, <2>1, <2>3, <2>4 DEF Converted
<1>5. CASE CollectEnd
  <2>1. /\ stage = "collect" /\ i > Len(header) /\ stage' = "write" /\ i' = 1
        /\ UNCHANGED <<header, contact, entries, elements, hvcomment>>
    BY <1>5 DEF CollectEnd
  <2>2. PICK n \in 0 .. Len(header) : n = i - 1 /\ Collected(n)
    BY <2>1 DEF Converted
  <2>3. n = Len(header)
    BY <1>t, <2>1, <2>2
  <2>4. Collected(n)'
    BY <2>1, <2>2, SameCollected
  <2>5. SentSoFar' /\ Len(elements') = 0 /\ i' - 1 = 0 /\ hvcomment' = None
    BY <1>t, <2>1, NothingSent DEF Converted
  <2> QED BY <1>t, <2>1, <2>3, <2>4, <2>5 DEF Converted
<1>6. CASE Write
  <2>1. /\ stage = "write" /\ i <= Len(entries) /\ entries[i].key \notin BadName
        /\ i' = i + 1 /\ UNCHANGED <<header, contact, stage, entries, hvcomment>>
        /\ elements' = Append(elements, Sent(entries[i]))
    BY <1>6 DEF Write, Writing, Sent
  <2>2. PICK n \in 0 .. Len(header) : n = Len(header) /\ Collected(n)
    BY <2>1 DEF Converted
  <2>3. Collected(n)'
    BY <2>1, <2>2, SameCollected
  <2>4. SentSoFar /\ Len(elements) = i - 1 /\ hvcomment = None
    BY <2>1 DEF Converted
  <2>5. SentSoFar' /\ Len(elements') = i' - 1
    <3> DEFINE m == i - 1
    <3>1. m \in Nat /\ m + 1 = i /\ m < Len(entries) /\ Len(elements) = m /\ i' - 1 = m + 1
      BY <1>t, <2>1, <2>4
    <3> HIDE DEF m
    <3> QED BY <1>t, <2>1, <2>4, <3>1, OneSent
  <2> QED BY <1>t, <2>1, <2>2, <2>3, <2>4, <2>5 DEF Converted
<1>7. CASE WriteRefused
  <2>1. /\ stage = "write" /\ stage' = "failed"
        /\ UNCHANGED <<header, contact, i, entries, elements, hvcomment>>
    BY <1>7 DEF WriteRefused, Writing
  <2> QED BY <1>t, <2>1, SameConverted
<1>8. CASE WriteEnd
  <2>1. /\ stage = "write" /\ i > Len(entries) /\ stage' = "done" /\ hvcomment' = Written(contact)
        /\ UNCHANGED <<header, contact, i, entries, elements>>
    BY <1>8 DEF WriteEnd
  <2>2. PICK n \in 0 .. Len(header) : n = Len(header) /\ Collected(n)
    BY <2>1 DEF Converted
  <2>3. Collected(n)'
    BY <2>1, <2>2, SameCollected
  <2>4. SentSoFar /\ Len(elements) = i - 1
    BY <2>1 DEF Converted
  <2>5. SentSoFar'
    BY <2>1, <2>4 DEF SentSoFar
  <2>6. Len(elements) = Len(entries)
    <3>1. Len(elements) <= Len(entries)
      BY <2>4 DEF SentSoFar
    <3> QED BY <1>t, <2>1, <2>4, <3>1
  <2> QED BY <1>t, <2>1, <2>2, <2>3, <2>5, <2>6 DEF Converted
<1>9. CASE UNCHANGED vars
  <2>1. UNCHANGED <<header, contact, stage, i, entries, elements, hvcomment>>
    BY <1>9 DEF vars
  <2> QED BY <2>1, SameConverted
<1> QED
  BY <1>1, <1>2, <1>3, <1>4, <1>5, <1>6, <1>7, <1>8, <1>9 DEF Next, Step, Ended
---------------------------------------------------------------------------
(* Entries and their texts.                                                *)

LEMMA TextWithoutBad ==
    ASSUME NEW t \in Seq(Character), Bad \notin Range(t)
    PROVE  t \in Seq(Clean)
<1>1. \A k \in 1 .. Len(t) : t[k] \in Character /\ t[k] # Bad
  BY DEF Range
<1>2. \A k \in 1 .. Len(t) : t[k] \in Clean
  BY <1>1 DEF Clean
<1> QED BY <1>2

LEMMA HeaderTexts ==
    ASSUME header \in Headers
    PROVE  WrittenWith(Character) /\ (CleanHeader => WrittenWith(Clean))
<1>1. header \in Seq(CardType)
  BY HeaderType
<1>2. ASSUME NEW j \in DOMAIN header
      PROVE  header[j].val \in Seq(Character) /\ header[j].com \in Seq(Character)
  <2>1. header[j] \in CardType
    BY <1>1
  <2> QED BY <2>1 DEF CardType, Text
<1>3. ASSUME CleanHeader, NEW j \in DOMAIN header
      PROVE  header[j].val \in Seq(Clean) /\ header[j].com \in Seq(Clean)
  <2>1. Bad \notin Range(header[j].val) /\ Bad \notin Range(header[j].com)
    BY <1>3 DEF CleanHeader
  <2> QED BY <1>2, <2>1, TextWithoutBad
<1> QED BY <1>2, <1>3 DEF WrittenWith

LEMMA TrimmedType ==
    ASSUME NEW C, NEW t \in Seq(C)
    PROVE  Trimmed(t) \in Seq(C)
<1>1. CASE Len(t) > LongString /\ Last(t) = Amp
  <2>1. t # <<>>
    BY <1>1, LengthAssumption
  <2> QED BY <1>1, <2>1, FrontType DEF Trimmed
<1>2. CASE ~(Len(t) > LongString /\ Last(t) = Amp)
  BY <1>2 DEF Trimmed
<1> QED BY <1>1, <1>2

LEMMA EntryType ==
    ASSUME header \in Headers, NEW C, WrittenWith(C), NEW j \in DOMAIN header
    PROVE  Entry(j).val \in Seq(C) /\ Entry(j).com \in Seq(C)
<1>1. /\ Entry(j).val = IF HasValue(j) THEN Trimmed(Joined[Found(j)].val) ELSE header[j].val
      /\ Entry(j).com = IF HasValue(j) THEN Joined[Found(j)].com ELSE header[j].com
  BY DEF Entry
<1>2. Found(j) \in DOMAIN header
  BY FoundIsThere
<1>3. Joined[Found(j)] \in Texts(C)
  BY <1>2, HeaderType, JoinedIs
<1>4. Joined[Found(j)].val \in Seq(C) /\ Joined[Found(j)].com \in Seq(C)
  BY <1>3 DEF Texts
<1>5. Trimmed(Joined[Found(j)].val) \in Seq(C)
  BY <1>4, TrimmedType
<1> QED BY <1>1, <1>4, <1>5 DEF WrittenWith

(* What has been collected is the entry of a card.                         *)
LEMMA CollectedCard ==
    ASSUME IInv, NEW n \in 0 .. Len(header), Collected(n), NEW k \in 1 .. Len(entries)
    PROVE  KeptTo(n)[k] \in DOMAIN header /\ entries[k] = Entry(KeptTo(n)[k])
<1>1. header \in Seq(CardType)
  BY HeaderType DEF IInv
<1>2. Enumerates(KeptTo(n), n)
  BY <1>1, KeptEnumerates
<1>3. k \in 1 .. Len(KeptTo(n)) /\ entries[k] = Entry(KeptTo(n)[k])
  BY DEF Collected
<1>4. KeptTo(n)[k] \in 1 .. n
  BY <1>2, <1>3 DEF Enumerates
<1> QED BY <1>1, <1>3, <1>4

LEMMA ConvertedWellFormed == IInv /\ Converted => WellFormed
<1> SUFFICES ASSUME IInv, Converted PROVE WellFormed
  OBVIOUS
<1>1. header \in Headers /\ header \in Seq(CardType) /\ WrittenWith(Character)
  BY HeaderType, HeaderTexts DEF IInv
<1>2. hvcomment # None => Bad \notin Range(hvcomment)
  <2>1. SUFFICES ASSUME hvcomment # None PROVE Bad \notin Range(hvcomment)
    OBVIOUS
  <2>2. hvcomment = Written(contact)
    BY <2>1 DEF Converted, IInv
  <2>3. contact \in Text
    BY ContactAssumption DEF Converted
  <2> QED BY <2>2, <2>3, WrittenClean, CleanHasNoBad
<1>3. ASSUME NEW k \in DOMAIN elements
      PROVE  /\ Bad \notin Range(elements[k].val)
             /\ elements[k].com # None => Bad \notin Range(elements[k].com)
             /\ elements[k].key \notin BadName
  <2>1. stage # "collect"
    BY <1>3 DEF Converted
  <2>2. PICK n \in 0 .. Len(header) : Collected(n)
    BY <2>1 DEF Converted
  <2>3. SentSoFar
    BY <2>1 DEF Converted
  <2>4. k \in 1 .. Len(elements) /\ k \in 1 .. Len(entries)
    <3>1. PICK S : elements \in Seq(S)
      BY <2>3 DEF SentSoFar
    <3>2. PICK T : entries \in Seq(T)
      BY DEF IInv
    <3>3. Len(elements) \in Nat /\ Len(entries) \in Nat /\ Len(elements) <= Len(entries)
      BY <2>3, <3>1, <3>2 DEF SentSoFar
    <3> QED BY <1>3, <3>1, <3>3
  <2>5. elements[k] = Sent(entries[k]) /\ entries[k].key \notin BadName
    BY <2>3, <2>4 DEF SentSoFar
  <2>6. entries[k].val \in Text /\ entries[k].com \in Text
    <3>1. KeptTo(n)[k] \in DOMAIN header /\ entries[k] = Entry(KeptTo(n)[k])
      BY <2>2, <2>4, CollectedCard
    <3> QED BY <1>1, <3>1, EntryType DEF Text
  <2>7. /\ elements[k].val = Written(entries[k].val) /\ elements[k].com = Attribute(entries[k].com)
        /\ elements[k].key = entries[k].key
    BY <2>5 DEF Sent
  <2>8. Bad \notin Range(elements[k].val)
    BY <2>6, <2>7, WrittenClean, CleanHasNoBad
  <2>9. elements[k].com # None => Bad \notin Range(elements[k].com)
    <3>1. elements[k].com # None => elements[k].com = Scrubbed(entries[k].com)
      BY <2>7 DEF Attribute
    <3> QED BY <2>6, <3>1, ScrubbedClean, CleanHasNoBad
  <2> QED BY <2>5, <2>7, <2>8, <2>9
<1> QED BY <1>2, <1>3 DEF WellFormed

---------------------------------------------------------------------------
(* The element of a card.                                                  *)

(* What is written of card j when the search finds card f.                 *)
LEMMA SentIsOwn ==
    ASSUME header \in Headers, CleanHeader, NEW j \in DOMAIN header
    PROVE  /\ HasValue(j) => Sent(Entry(j)) = Own(Found(j))
           /\ ~HasValue(j) => Sent(Entry(j)) = Own(j)
           /\ Sent(Entry(j)).key = Own(j).key
<1>1. Entry(j).val \in Seq(Clean) /\ Entry(j).com \in Seq(Clean)
  BY HeaderTexts, EntryType
<1>2. /\ Written(Entry(j).val) = Entry(j).val
      /\ Attribute(Entry(j).com) = IF Entry(j).com = <<>> THEN None ELSE Entry(j).com
  BY <1>1, CleanUnchanged
<1>3. Sent(Entry(j)) = [key |-> Entry(j).key, val |-> Entry(j).val,
                        com |-> IF Entry(j).com = <<>> THEN None ELSE Entry(j).com]
  BY <1>2 DEF Sent
<1>4. Found(j) \in DOMAIN header /\ header[Found(j)].key = header[j].key
  BY FoundIsThere
<1>5. ASSUME HasValue(j) PROVE Sent(Entry(j)) = Own(Found(j))
  <2>1. HasValue(Found(j))
    BY <1>4, <1>5 DEF HasValue
  <2>2. Entry(j) = [key |-> Name(header[Found(j)].key),
                    val |-> Trimmed(Joined[Found(j)].val), com |-> Joined[Found(j)].com]
    BY <1>4, <1>5 DEF Entry
  <2> HIDE DEF Joined, Found
  <2> QED BY <1>3, <2>1, <2>2 DEF Own, Trimmed, Name
<1>6. ASSUME ~HasValue(j) PROVE Sent(Entry(j)) = Own(j)
  <2>1. Entry(j) = [key |-> Name(header[j].key), val |-> header[j].val, com |-> header[j].com]
    BY <1>6 DEF Entry
  <2> QED BY <1>3, <1>6, <2>1 DEF Own, Name
<1>7. Sent(Entry(j)).key = Own(j).key
  BY DEF Sent, Entry, Own, Name
<1> QED BY <1>5, <1>6, <1>7

(* A name that is used once is found where it is.                          *)
LEMMA FoundItself ==
    ASSUME header \in Headers, NEW j \in DOMAIN header, ~Repeated(j)
    PROVE  Found(j) = j
<1>1. Found(j) \in DOMAIN header /\ header[Found(j)].key = header[j].key
  BY FoundIsThere
<1> QED BY <1>1 DEF Repeated
---------------------------------------------------------------------------
(* The elements when all is written.                                       *)

LEMMA DoneElements ==
    ASSUME IInv, Converted, stage = "done"
    PROVE  /\ header \in Headers /\ header \in Seq(CardType)
           /\ Kept \in Seq(1 .. Len(header)) /\ Enumerates(Kept, Len(header))
           /\ Len(elements) = Len(Kept) /\ \E S : elements \in Seq(S)
           /\ \A k \in 1 .. Len(Kept) :
                 Kept[k] \in DOMAIN header /\ elements[k] = Sent(Entry(Kept[k]))
<1>1. header \in Headers /\ header \in Seq(CardType) /\ Len(header) \in 0 .. Len(header)
  <2>1. header \in Headers /\ header \in Seq(CardType)
    BY HeaderType DEF IInv
  <2>2. Len(header) \in Nat
    BY <2>1
  <2> QED BY <2>1, <2>2
<1>2. Kept = KeptTo(Len(header)) /\ Enumerates(Kept, Len(header)) /\ Kept \in Seq(1 .. Len(header))
  BY <1>1, KeptEnumerates, KeptSteps
<1>3. Collected(Len(header)) /\ SentSoFar /\ Len(elements) = Len(entries)
  BY DEF Converted
<1>4. Len(entries) = Len(Kept)
  BY <1>2, <1>3 DEF Collected
<1>5. ASSUME NEW k \in 1 .. Len(Kept)
      PROVE  Kept[k] \in DOMAIN header /\ elements[k] = Sent(Entry(Kept[k]))
  <2>1. k \in 1 .. Len(entries) /\ k \in 1 .. Len(elements)
    BY <1>3, <1>4
  <2>2. Kept[k] \in DOMAIN header /\ entries[k] = Entry(Kept[k])
    BY <1>1, <1>2, <1>3, <2>1, CollectedCard
  <2> QED BY <1>3, <2>1, <2>2 DEF SentSoFar
<1>6. \E S : elements \in Seq(S)
  BY <1>3 DEF SentSoFar
<1> QED BY <1>1, <1>2, <1>3, <1>4, <1>5, <1>6

LEMMA ConvertedInPlace == IInv /\ Converted => InPlace
<1> SUFFICES ASSUME IInv, Converted, stage = "done"
             PROVE  /\ Len(elements) = Len(Kept)
                    /\ \A k \in DOMAIN Kept :
                          /\ elements[k].key = Own(Kept[k]).key
                          /\ CleanHeader /\ (~HasValue(Kept[k]) \/ ~Repeated(Kept[k])) =>
                                elements[k] = Own(Kept[k])
  BY DEF InPlace
<1>1. /\ header \in Headers /\ Len(elements) = Len(Kept) /\ DOMAIN Kept = 1 .. Len(Kept)
      /\ \A k \in 1 .. Len(Kept) :
            Kept[k] \in DOMAIN header /\ elements[k] = Sent(Entry(Kept[k]))
  <2>1. Kept \in Seq(1 .. Len(header))
    BY DoneElements
  <2>2. DOMAIN Kept = 1 .. Len(Kept)
    BY <2>1
  <2> QED BY <2>2, DoneElements
<1>2. ASSUME NEW k \in DOMAIN Kept
      PROVE  /\ elements[k].key = Own(Kept[k]).key
             /\ CleanHeader /\ (~HasValue(Kept[k]) \/ ~Repeated(Kept[k])) =>
                   elements[k] = Own(Kept[k])
  <2>1. PICK j \in DOMAIN header : j = Kept[k] /\ elements[k] = Sent(Entry(j))
    BY <1>1, <1>2
  <2>2. Sent(Entry(j)).key = Own(j).key
    BY DEF Sent, Entry, Own, Name
  <2>3. ASSUME CleanHeader, ~HasValue(j) \/ ~Repeated(j) PROVE elements[k] = Own(j)
    BY <1>1, <2>1, <2>3, SentIsOwn, FoundItself
  <2> QED BY <2>1, <2>2, <2>3
<1> QED BY <1>1, <1>2

---------------------------------------------------------------------------
(* The search for a name is a permutation of the cards with that name.     *)

LEMMA FoundBetween ==
    ASSUME header \in Headers, NEW a \in DOMAIN header, NEW b \in DOMAIN header,
           header[a].key = header[b].key, a < b
    PROVE  /\ Found(a) > a /\ Found(a) <= b
           /\ Found(b) > b \/ Found(b) <= a
<1> DEFINE same == {k \in DOMAIN header : header[k].key = header[a].key}
           lateA == {k \in same : k > a}
           lateB == {k \in same : k > b}
<1>1. DOMAIN header \subseteq Nat /\ a \in Nat /\ b \in Nat
  <2>1. DOMAIN header \subseteq Nat
    BY HeaderType
  <2> QED BY <2>1
<1>2. /\ same \in SUBSET Nat /\ lateA \in SUBSET Nat /\ lateB \in SUBSET Nat
      /\ a \in same /\ b \in lateA /\ \A k \in lateA : k > a
      /\ \A k \in lateB : k > b
  BY <1>1
<1>3. Found(a) = IF lateA # {} THEN Min(lateA) ELSE Min(same)
  BY DEF Found
<1>4. Found(b) = IF lateB # {} THEN Min(lateB) ELSE Min(same)
  BY DEF Found
<1> HIDE DEF same, lateA, lateB
<1>5. Found(a) \in lateA /\ Found(a) <= b
  <2>1. lateA # {} /\ Found(a) = Min(lateA)
    BY <1>2, <1>3
  <2>2. Min(lateA) \in lateA /\ \A y \in lateA : Min(lateA) <= y
    BY <1>2, <2>1, Least
  <2> QED BY <1>2, <2>1, <2>2
<1>6. Found(b) > b \/ Found(b) <= a
  <2>1. CASE lateB # {}
    <3>1. Min(lateB) \in lateB
      BY <1>2, <2>1, Least
    <3> QED BY <1>2, <1>4, <2>1, <3>1
  <2>2. CASE lateB = {}
    <3>1. same # {}
      BY <1>2
    <3>2. \A y \in same : Min(same) <= y
      BY <1>2, <3>1, Least
    <3> QED BY <1>2, <1>4, <2>2, <3>2
  <2> QED BY <2>1, <2>2
<1> QED BY <1>2, <1>5, <1>6

LEMMA FoundOnce ==
    ASSUME header \in Headers, NEW a \in DOMAIN header, NEW b \in DOMAIN header,
           Found(a) = Found(b)
    PROVE  a = b
<1>1. header[a].key = header[b].key
  BY FoundIsThere
<1>2. a \in Nat /\ b \in Nat
  BY HeaderType
<1>3. Found(a) \in Nat
  <2>1. Found(a) \in DOMAIN header
    BY FoundIsThere
  <2> QED BY <2>1, HeaderType
<1>4. CASE a < b
  <2>1. Found(a) > a /\ Found(a) <= b /\ (Found(b) > b \/ Found(b) <= a)
    BY <1>1, <1>4, FoundBetween
  <2> QED BY <1>2, <1>3, <2>1
<1>5. CASE b < a
  <2>1. Found(b) > b /\ Found(b) <= a /\ (Found(a) > a \/ Found(a) <= b)
    BY <1>1, <1>5, FoundBetween
  <2> QED BY <1>2, <1>3, <2>1
<1> QED BY <1>2, <1>4, <1>5

(* The card whose element stands where that of card j should.              *)
Source == [j \in Elements |-> IF HasValue(j) THEN Found(j) ELSE j]

LEMMA SourcePermutes ==
    ASSUME header \in Headers
    PROVE  Source \in Bijection(Elements, Elements)
<1>1. ASSUME NEW j \in Elements
      PROVE  Source[j] \in Elements /\ header[Source[j]].key = header[j].key
  <2>1. Source[j] = IF HasValue(j) THEN Found(j) ELSE j
    BY DEF Source
  <2>2. j \in DOMAIN header /\ header[j].key # Continue
    BY DEF Elements
  <2>3. Found(j) \in DOMAIN header /\ header[Found(j)].key = header[j].key
    BY <2>2, FoundIsThere
  <2> QED BY <2>1, <2>2, <2>3 DEF Elements
<1>2. Source \in [Elements -> Elements]
  BY <1>1 DEF Source
<1>3. ASSUME NEW a \in Elements, NEW b \in Elements, Source[a] = Source[b] PROVE a = b
  <2>1. header[a].key = header[b].key
    BY <1>1, <1>3
  <2>2. a \in DOMAIN header /\ b \in DOMAIN header
    BY DEF Elements
  <2>3. CASE HasValue(a)
    <3>1. HasValue(b)
      BY <2>1, <2>3 DEF HasValue
    <3>2. Found(a) = Found(b)
      BY <1>3, <2>3, <3>1 DEF Source
    <3> QED BY <2>2, <3>2, FoundOnce
  <2>4. CASE ~HasValue(a)
    <3>1. ~HasValue(b)
      BY <2>1, <2>4 DEF HasValue
    <3> QED BY <1>3, <2>4, <3>1 DEF Source
  <2> QED BY <2>3, <2>4
<1>4. DOMAIN Source = Elements
  BY DEF Source
<1>5. Source \in Injection(Elements, Elements)
  BY <1>2, <1>3, <1>4 DEF Injection, IsInjective
<1>6. IsFiniteSet(Elements)
  <2>1. header \in Seq(CardType)
    BY HeaderType
  <2>2. Elements \in SUBSET (1 .. Len(header)) /\ Len(header) \in Nat
    BY <2>1 DEF Elements
  <2>3. IsFiniteSet(1 .. Len(header))
    BY <2>2, FS_Interval
  <2> QED BY <2>2, <2>3, FS_Subset
<1>7. Source \in Surjection(Elements, Elements)
  BY <1>5, <1>6, FS_Injection
<1> QED BY <1>5, <1>7 DEF Bijection

(* The elements of K in two orders, each given what stands for it, are the *)
(* same bag.                                                               *)
LEMMA SameCount ==
    ASSUME NEW m \in Nat, NEW K, NEW f \in Bijection(1 .. m, K), NEW g \in Bijection(1 .. m, K),
           NEW A \in SUBSET (1 .. m), NEW B \in SUBSET (1 .. m),
           \A j, k \in 1 .. m : f[j] = g[k] => (j \in A <=> k \in B)
    PROVE  Cardinality(A) = Cardinality(B)
<1>1. /\ f \in [1 .. m -> K] /\ g \in [1 .. m -> K]
      /\ \A j, k \in 1 .. m : f[j] = f[k] => j = k
      /\ \A j, k \in 1 .. m : g[j] = g[k] => j = k
      /\ \A x \in K : (\E j \in 1 .. m : f[j] = x) /\ (\E k \in 1 .. m : g[k] = x)
  BY DEF Bijection, Injection, Surjection, IsInjective
<1> DEFINE h == [j \in A |-> CHOOSE k \in B : g[k] = f[j]]
<1>2. ASSUME NEW j \in A PROVE h[j] \in B /\ g[h[j]] = f[j]
  <2>1. \E k \in B : g[k] = f[j]
    BY <1>1
  <2> QED BY <2>1
<1>3. h \in [A -> B]
  BY <1>2
<1>4. ASSUME NEW a \in A, NEW b \in A, h[a] = h[b] PROVE a = b
  <2>1. f[a] = f[b]
    BY <1>2, <1>4
  <2> QED BY <1>1, <2>1
<1>5. ASSUME NEW k \in B PROVE \E j \in A : h[j] = k
  <2>1. PICK j \in 1 .. m : f[j] = g[k]
    BY <1>1
  <2>2. j \in A
    BY <2>1
  <2>3. g[h[j]] = g[k] /\ h[j] \in B
    BY <1>2, <2>1, <2>2
  <2>4. h[j] = k
    <3>1. h[j] \in 1 .. m /\ k \in 1 .. m
      BY <2>3
    <3> DEFINE x == h[j]
    <3>2. x \in 1 .. m /\ g[x] = g[k]
      BY <2>3, <3>1
    <3> HIDE DEF x
    <3>3. x = k
      BY <1>1, <3>1, <3>2
    <3> QED BY <3>3 DEF x
  <2> QED BY <2>2, <2>4
<1>6. DOMAIN h = A
  OBVIOUS
<1> HIDE DEF h
<1>7. h \in Bijection(A, B)
  <2>1. IsInjective(h)
    BY <1>4, <1>6 DEF IsInjective
  <2> QED BY <1>3, <1>5, <2>1 DEF Bijection, Injection, Surjection
<1>8. IsFiniteSet(A)
  <2>1. IsFiniteSet(1 .. m)
    BY FS_Interval
  <2> QED BY <2>1, FS_Subset
<1>9. ExistsBijection(A, B)
  BY <1>7 DEF ExistsBijection
<1> QED BY <1>8, <1>9, FS_Bijection

LEMMA SameBag ==
    ASSUME NEW m \in Nat, NEW K, NEW f \in Bijection(1 .. m, K), NEW g \in Bijection(1 .. m, K),
           NEW s, NEW t, DOMAIN s = 1 .. m, DOMAIN t = 1 .. m,
           \A j, k \in 1 .. m : f[j] = g[k] => s[j] = t[k]
    PROVE  ToBag(s) = ToBag(t)
<1>1. /\ \A j \in 1 .. m : \E k \in 1 .. m : f[j] = g[k]
      /\ \A k \in 1 .. m : \E j \in 1 .. m : f[j] = g[k]
  <2>1. f \in Surjection(1 .. m, K) /\ g \in Surjection(1 .. m, K)
    BY DEF Bijection
  <2>2. /\ \A j \in 1 .. m : f[j] \in K /\ g[j] \in K
        /\ \A x \in K : (\E j \in 1 .. m : f[j] = x) /\ (\E k \in 1 .. m : g[k] = x)
    BY <2>1 DEF Surjection
  <2> QED BY <2>2
<1>2. Range(s) = Range(t)
  <2>1. Range(s) = {s[j] : j \in 1 .. m} /\ Range(t) = {t[k] : k \in 1 .. m}
    BY DEF Range
  <2>2. \A j \in 1 .. m : \E k \in 1 .. m : s[j] = t[k]
    BY <1>1
  <2>3. \A k \in 1 .. m : \E j \in 1 .. m : s[j] = t[k]
    BY <1>1
  <2>4. ASSUME NEW x \in Range(s) PROVE x \in Range(t)
    BY <2>1, <2>2
  <2>5. ASSUME NEW x \in Range(t) PROVE x \in Range(s)
    BY <2>1, <2>3
  <2> QED BY <2>4, <2>5, Zenon
<1>3. ASSUME NEW x
      PROVE  Cardinality({j \in DOMAIN s : s[j] = x}) = Cardinality({k \in DOMAIN t : t[k] = x})
  <2> DEFINE A == {j \in 1 .. m : s[j] = x}
             B == {k \in 1 .. m : t[k] = x}
  <2>1. /\ A \in SUBSET (1 .. m) /\ B \in SUBSET (1 .. m)
        /\ \A j, k \in 1 .. m : f[j] = g[k] => (j \in A <=> k \in B)
    OBVIOUS
  <2> HIDE DEF A, B
  <2>2. Cardinality(A) = Cardinality(B)
    BY <2>1, SameCount
  <2> QED BY <2>2 DEF A, B
<1>4. ToBag(s) = [x \in Range(s) |-> Cardinality({j \in DOMAIN s : s[j] = x})]
  BY DEF ToBag
<1>5. ToBag(t) = [x \in Range(t) |-> Cardinality({k \in DOMAIN t : t[k] = x})]
  BY DEF ToBag
<1> QED BY <1>2, <1>3, <1>4, <1>5

LEMMA Composed ==
    ASSUME NEW S, NEW K, NEW q \in Bijection(S, K), NEW p \in Bijection(K, K)
    PROVE  [k \in S |-> p[q[k]]] \in Bijection(S, K)
<1> DEFINE f == [k \in S |-> p[q[k]]]
<1>1. /\ q \in [S -> K] /\ p \in [K -> K]
      /\ \A j, k \in S : q[j] = q[k] => j = k
      /\ \A j, k \in K : p[j] = p[k] => j = k
      /\ \A x \in K : (\E k \in S : q[k] = x) /\ (\E j \in K : p[j] = x)
  BY DEF Bijection, Injection, Surjection, IsInjective
<1>2. f \in [S -> K] /\ DOMAIN f = S
  BY <1>1
<1>3. \A j, k \in S : f[j] = f[k] => j = k
  BY <1>1
<1>4. ASSUME NEW x \in K PROVE \E k \in S : f[k] = x
  <2>1. PICK j \in K : p[j] = x
    BY <1>1
  <2>2. PICK k \in S : q[k] = j
    BY <1>1
  <2> QED BY <2>1, <2>2
<1> HIDE DEF f
<1>5. IsInjective(f)
  BY <1>2, <1>3 DEF IsInjective
<1>6. f \in Bijection(S, K)
  BY <1>2, <1>4, <1>5 DEF Bijection, Injection, Surjection
<1> QED BY <1>6 DEF f

LEMMA ConvertedCardsKept == IInv /\ Converted => CardsKept
<1> SUFFICES ASSUME IInv, Converted, stage = "done", CleanHeader
             PROVE  ToBag(elements) = ToBag([k \in DOMAIN Kept |-> Own(Kept[k])])
  BY DEF CardsKept
<1> DEFINE m == Len(Kept)
           t == [k \in DOMAIN Kept |-> Own(Kept[k])]
           f == [k \in 1 .. m |-> Source[Kept[k]]]
<1>1. /\ header \in Headers /\ header \in Seq(CardType)
      /\ Kept \in Seq(1 .. Len(header)) /\ Enumerates(Kept, Len(header))
      /\ Len(elements) = m /\ \E S : elements \in Seq(S)
      /\ \A k \in 1 .. m : Kept[k] \in DOMAIN header /\ elements[k] = Sent(Entry(Kept[k]))
  BY DoneElements
<1>2. DOMAIN Kept = 1 .. m /\ m \in Nat /\ DOMAIN elements = 1 .. m
  BY <1>1
<1>3. Kept \in Bijection(1 .. m, Elements)
  <2>1. ASSUME NEW k \in 1 .. m PROVE Kept[k] \in Elements
    BY <1>1 DEF Elements, Enumerates
  <2>2. Kept = [k \in 1 .. m |-> Kept[k]]
    BY <1>1
  <2>3. Kept \in [1 .. m -> Elements]
    BY <2>1, <2>2
  <2>4. ASSUME NEW j \in Elements PROVE \E k \in 1 .. m : Kept[k] = j
    <3>1. j \in 1 .. Len(header) /\ header[j].key # Continue
      BY <1>1 DEF Elements
    <3> QED BY <1>1, <3>1 DEF Enumerates
  <2>5. \A j, k \in 1 .. m : Kept[j] = Kept[k] => j = k
    BY <1>1 DEF Enumerates
  <2>6. IsInjective(Kept)
    BY <1>2, <2>5 DEF IsInjective
  <2> QED BY <2>3, <2>4, <2>6 DEF Bijection, Injection, Surjection
<1>4. Source \in Bijection(Elements, Elements)
  BY <1>1, SourcePermutes
<1>5. f \in Bijection(1 .. m, Elements)
  BY <1>3, <1>4, Composed
<1>6. ASSUME NEW j \in 1 .. m, NEW k \in 1 .. m, f[j] = Kept[k]
      PROVE  elements[j] = t[k]
  <2>1. Kept[j] \in DOMAIN header /\ elements[j] = Sent(Entry(Kept[j]))
    BY <1>1
  <2>2. Kept[j] \in Elements
    BY <1>1, <2>1 DEF Elements, Enumerates
  <2>3. Source[Kept[j]] = IF HasValue(Kept[j]) THEN Found(Kept[j]) ELSE Kept[j]
    BY <2>2 DEF Source
  <2>4. Source[Kept[j]] = Kept[k]
    BY <1>6
  <2>5. elements[j] = Own(Source[Kept[j]])
    BY <1>1, <2>1, <2>3, SentIsOwn
  <2>6. t[k] = Own(Kept[k])
    BY <1>2
  <2> QED BY <2>4, <2>5, <2>6
<1>7. DOMAIN t = 1 .. m
  BY <1>2
<1> HIDE DEF t, f, m
<1>8. ToBag(elements) = ToBag(t)
  <2> DEFINE e == elements
             q == Kept
             K == Elements
  <2>1. /\ m \in Nat /\ f \in Bijection(1 .. m, K) /\ q \in Bijection(1 .. m, K)
        /\ DOMAIN e = 1 .. m /\ DOMAIN t = 1 .. m
        /\ \A j, k \in 1 .. m : f[j] = q[k] => e[j] = t[k]
    BY <1>2, <1>3, <1>5, <1>6, <1>7
  <2> HIDE DEF e, q, K
  <2>2. ToBag(e) = ToBag(t)
    BY <2>1, SameBag
  <2> QED BY <2>2 DEF e
<1> QED BY <1>8 DEF t

---------------------------------------------------------------------------
(* The theorems.                                                           *)

(* A header is refused exactly for a name XML does not have or a card that *)
(* cannot be parsed, although the values are found by names that may be    *)
(* repeated and the names are only looked at when the XML is written.      *)
THEOREM RefusalHasCause == Spec => []RefusedForCause
<1>1. Init => IInv
  BY InvInit
<1>2. IInv /\ [Next]_vars => IInv'
  BY InvNext
<1>3. IInv => RefusedForCause
  BY DEF IInv, Cause, RefusedForCause
<1> QED BY <1>1, <1>2, <1>3, PTL DEF Spec

LEMMA ConvertedAlways == Spec => [](IInv /\ Converted)
<1>1. Init => IInv /\ Converted
  BY InvInit, ConvertedInit
<1>2. IInv /\ Converted /\ [Next]_vars => (IInv /\ Converted)'
  BY InvNext, ConvertedNext
<1> QED BY <1>1, <1>2, PTL DEF Spec

(* Nothing that XML does not have is ever in the document, whatever is on   *)
(* the cards, although a text that is refused has been written in part.     *)
THEOREM AlwaysWellFormed == Spec => []WellFormed
BY ConvertedAlways, ConvertedWellFormed, PTL

(* The elements stand in the order of the cards, and each has the value and *)
(* the comment of its card unless its name is used more than once.          *)
THEOREM AlwaysInPlace == Spec => []InPlace
BY ConvertedAlways, ConvertedInPlace, PTL

(* The search for a name, which starts behind the card and wraps, finds each *)
(* card with that name once: no card is lost or written twice.              *)
THEOREM CardsKeptAlways == Spec => []CardsKept
BY ConvertedAlways, ConvertedCardsKept, PTL
===========================================================================
