------------------------------ MODULE HeaderXml ------------------------------
(***************************************************************************)
(* The header of a FITS file becomes the XML of the image: sfts_head2str   *)
(* reads the cards into three arrays, head2xml writes one element for each *)
(* entry, and swap_fits2hv adds a comment of its own. Texts are short      *)
(* sequences of characters of three kinds: plain ones, ones that XML       *)
(* escapes (Amp), and ones XML does not have (Bad).                        *)
(***************************************************************************)
EXTENDS Naturals, SequencesExt, FiniteSetsExt, Stepwise

CONSTANTS
    Plain, Amp, Bad,           \* the characters
    Regular, BadName,          \* names of cards with values; those XML refuses
    Comment, History, Blank, Continue,    \* the other names
    None,                      \* no attribute
    Headers,                   \* the headers: sequences of cards
    Contacts,                  \* what --contact may be
    LongString                 \* 68: what one card holds of a string

ASSUME NameAssumption ==
    /\ BadName \subseteq Regular /\ Regular \cap {Comment, History, Blank, Continue} = {}
    /\ Continue \notin {Comment, History, Blank}

(* Texts and cards, as they are on the header; only a value can be broken. *)
Character == Plain \cup {Amp, Bad}
Text == Seq(Character)
CardType == [key : Regular \cup {Comment, History, Blank, Continue},
             val : Text, com : Text, ok : BOOLEAN]

ASSUME HeaderAssumption ==
    Headers \subseteq {h \in Seq(CardType) : \A j \in DOMAIN h : h[j].ok \/ h[j].key \in Regular}

ASSUME ContactAssumption == Contacts \subseteq Text

ASSUME LengthAssumption == LongString \in Nat

VARIABLES
    header,    \* the cards: key, value and comment as they are on the card,
               \* and whether the card can be parsed
    contact,
    stage,     \* "collect", "write", "done" or "failed" (exit status 1)
    i,         \* the card, then the entry, that is next
    entries,   \* keys, vals and coms of sfts_head2str
    elements,  \* what has been written of <fits>
    hvcomment  \* the text of <HV_COMMENT>, or None

vars == <<header, contact, stage, i, entries, elements, hvcomment>>

---------------------------------------------------------------------------
(* The cards.                                                              *)

(* Card j with the CONTINUE cards behind it, as fits_read_key_longstr      *)
(* joins them. (Left out: the blank it puts between comments, that it cuts *)
(* the joined comment to 72 characters, and CONTINUE cards it cannot       *)
(* parse.)                                                                 *)
Joined ==
    LET joined[j \in DOMAIN header] ==
          LET c == header[j] IN
          IF /\ c.val # <<>> /\ Last(c.val) = Amp
             /\ j < Len(header) /\ header[j + 1].key = Continue
             /\ header[j + 1].val # <<>> \/ header[j + 1].com # <<>>
          THEN [val |-> Front(c.val) \o joined[j + 1].val, com |-> c.com \o joined[j + 1].com]
          ELSE [val |-> c.val, com |-> c.com]
    IN joined

(* Mutant: the search starts from the top.                                 *)
FoundFirst(j) == Min({k \in DOMAIN header : header[k].key = header[j].key})

(* The card a search for the name of card j finds: it starts behind card   *)
(* j, which has just been read, and goes on from the top.                  *)
Found(j) ==
    LET same == {k \in DOMAIN header : header[k].key = header[j].key}
        later == {k \in same : k > j}
    IN IF later # {} THEN Min(later) ELSE Min(same)

(* Mutant: whatever its length.                                            *)
TrimmedAlways(t) == IF t # <<>> /\ Last(t) = Amp THEN Front(t) ELSE t

(* "long strings may end in &"                                             *)
Trimmed(t) == IF Len(t) > LongString /\ Last(t) = Amp THEN Front(t) ELSE t

Name(key) == IF key = Blank THEN Comment ELSE key

---------------------------------------------------------------------------
(* Writing with genx.                                                      *)

Scrubbed(t) == Selected(t, Character \ {Bad})

(* What genxAddText has sent when it refuses t: everything up to the last  *)
(* character it had to escape.                                             *)
SentBefore(t) ==
    LET bad == Min({k \in DOMAIN t : t[k] = Bad})
    IN SubSeq(t, 1, Max({0} \cup {k \in 1 .. bad - 1 : t[k] = Amp}))

(* Mutant: the text that was refused is sent as it is.                     *)
WrittenRaw(t) == t

(* genx_addText: refused text is scrubbed and sent once more.              *)
Written(t) == IF Bad \in Range(t) THEN SentBefore(t) \o Scrubbed(t) ELSE t

(* genx_addAttribute: a refused value leaves nothing behind.               *)
Attribute(t) == IF t = <<>> THEN None ELSE Scrubbed(t)

---------------------------------------------------------------------------

Init ==
    /\ header \in Headers
    /\ contact \in Contacts
    /\ stage = "collect"
    /\ i = 1
    /\ entries = <<>> /\ elements = <<>>
    /\ hvcomment = None

Collecting == stage = "collect" /\ i <= Len(header)
HasValue(j) == header[j].key \in Regular

SkipContinue ==
    /\ Collecting /\ header[i].key = Continue
    /\ i' = i + 1
    /\ UNCHANGED <<header, contact, stage, entries, elements, hvcomment>>

(* COMMENT, HISTORY and cards without a name: as fits_read_keyn has them.  *)
CollectText ==
    /\ Collecting /\ header[i].key \in {Comment, History, Blank}
    /\ entries' = Append(entries,
          [key |-> Name(header[i].key), val |-> header[i].val, com |-> header[i].com])
    /\ i' = i + 1
    /\ UNCHANGED <<header, contact, stage, elements, hvcomment>>

(* The others: read again, by name.                                        *)
CollectValue ==
    /\ Collecting /\ HasValue(i)
    /\ header[i].ok /\ header[Found(i)].ok
    /\ entries' = Append(entries,
          [key |-> header[i].key, val |-> Trimmed(Joined[Found(i)].val), com |-> Joined[Found(i)].com])
    /\ i' = i + 1
    /\ UNCHANGED <<header, contact, stage, elements, hvcomment>>

(* A card that cannot be parsed: longstr is NULL, or what the last card    *)
(* left behind, and is used; whether that ends the process or CHK_FTS      *)
(* does, the exit status is 1.                                             *)
CollectBroken ==
    /\ Collecting /\ HasValue(i)
    /\ ~(header[i].ok /\ header[Found(i)].ok)
    /\ stage' = "failed"
    /\ UNCHANGED <<header, contact, i, entries, elements, hvcomment>>

CollectEnd ==
    /\ stage = "collect" /\ i > Len(header)
    /\ stage' = "write"
    /\ i' = 1
    /\ UNCHANGED <<header, contact, entries, elements, hvcomment>>

Writing == stage = "write" /\ i <= Len(entries)

(* Mutant: names are not checked.                                          *)
WriteAny ==
    /\ Writing
    /\ elements' = Append(elements,
          [key |-> entries[i].key, val |-> Written(entries[i].val), com |-> Attribute(entries[i].com)])
    /\ i' = i + 1
    /\ UNCHANGED <<header, contact, stage, entries, hvcomment>>

Write ==
    /\ Writing /\ entries[i].key \notin BadName
    /\ elements' = Append(elements,
          [key |-> entries[i].key, val |-> Written(entries[i].val), com |-> Attribute(entries[i].com)])
    /\ i' = i + 1
    /\ UNCHANGED <<header, contact, stage, entries, hvcomment>>

(* genxStartElementLiteral refuses the name, and GENX_Try is fatal.        *)
WriteRefused ==
    /\ Writing /\ entries[i].key \in BadName
    /\ stage' = "failed"
    /\ UNCHANGED <<header, contact, i, entries, elements, hvcomment>>

WriteEnd ==
    /\ stage = "write" /\ i > Len(entries)
    /\ hvcomment' = Written(contact)
    /\ stage' = "done"
    /\ UNCHANGED <<header, contact, i, entries, elements>>

Ended == stage \in {"done", "failed"} /\ UNCHANGED vars

Step ==
    \/ SkipContinue \/ CollectText \/ CollectValue \/ CollectBroken \/ CollectEnd
    \/ Write \/ WriteRefused \/ WriteEnd

Next == Step \/ Ended

Spec == Init /\ [][Next]_vars

---------------------------------------------------------------------------
(* Properties.                                                             *)

(* The cards that become elements, in their order.                         *)
Kept == Selected([j \in DOMAIN header |-> j], {j \in DOMAIN header : header[j].key # Continue})

(* The element that card j should become.                                  *)
Own(j) ==
    LET c == IF HasValue(j) THEN Joined[j] ELSE [val |-> header[j].val, com |-> header[j].com]
    IN [key |-> IF header[j].key = Blank THEN Comment ELSE header[j].key,
        val |-> IF HasValue(j) /\ Len(c.val) > LongString /\ Last(c.val) = Amp THEN Front(c.val)
                ELSE c.val,
        com |-> IF c.com = <<>> THEN None ELSE c.com]

CleanHeader ==
    \A j \in DOMAIN header : Bad \notin Range(header[j].val) \cup Range(header[j].com)

Repeated(j) == \E k \in DOMAIN header : k # j /\ header[k].key = header[j].key

(* No card is lost, doubled or changed: the elements are those of the      *)
(* cards, although cards with one name are read by a search for that name  *)
(* (p2sc_fits.c:630) and may change places.                                *)
CardsKept ==
    stage = "done" /\ CleanHeader =>
        ToBag(elements) = ToBag([k \in DOMAIN Kept |-> Own(Kept[k])])

(* The elements stand where their cards stood, and a card whose name is    *)
(* not used twice has its own value and comment (as have comments).        *)
InPlace ==
    stage = "done" =>
        /\ Len(elements) = Len(Kept)
        /\ \A k \in DOMAIN Kept :
              /\ elements[k].key = Own(Kept[k]).key
              /\ CleanHeader /\ (~HasValue(Kept[k]) \/ ~Repeated(Kept[k])) =>
                    elements[k] = Own(Kept[k])

(* No character XML does not have is ever written: the document is well    *)
(* formed whatever is on the cards (p2sc_xml.c:30, 44).                    *)
WellFormed ==
    /\ \A k \in DOMAIN elements :
          /\ Bad \notin Range(elements[k].val)
          /\ elements[k].com # None => Bad \notin Range(elements[k].com)
          /\ elements[k].key \notin BadName
    /\ hvcomment # None => Bad \notin Range(hvcomment)

(* A header is refused for a name XML does not have or for a card that     *)
(* cannot be parsed, and for nothing else; and always for these.           *)
RefusedForCause ==
    LET cause == \E j \in DOMAIN header : ~header[j].ok \/ header[j].key \in BadName
    IN /\ stage = "failed" => cause
       /\ stage = "done" => ~cause

(* "Silently wipe any non-XML characters out of a chunk of text" (genx.h): *)
(* the element has the value without these characters, and nothing else.   *)
Wiped ==
    \A k \in DOMAIN elements : elements[k].val = Scrubbed(entries[k].val)
=============================================================================
