------------------------------ MODULE FitsRead ------------------------------
(***************************************************************************)
(* Reading one FITS file: fitsproc and process_header of                   *)
(* libswap/fitsproc.c with the reading half of libp2sc/p2sc_fits.c.        *)
(*                                                                         *)
(* cfitsio keeps a current HDU and a status. A call made with a status set *)
(* does nothing, so a failure is only seen where CHK_FTS looks at it. One  *)
(* action stands for the calls between two looks; the environment may make *)
(* any of them fail (CallFails).                                           *)
(***************************************************************************)
EXTENDS Integers, Sequences

CONSTANTS
    File,      \* the files that may be read, see FileType
    Option,    \* the command lines, see OptionType
    Faults,    \* {"io"} when calls into cfitsio may fail, or {}
    None       \* nothing yet, NULL

(* The fields of procfits_t, and the keywords that are read for each.      *)
Field == {"DATE-OBS", "TELESCOP", "INSTRUME", "DETECTOR", "WAVELNTH"}
Keyword == Field \cup {"OBSRVTRY", "NAXIS1", "NAXIS2", "ZNAXIS1", "ZNAXIS2"}

(* What reading a keyword finds: no card, a card without a value           *)
(* (VALUE_UNDEFINED), a malformed value, or a value.                       *)
Card == {"absent", "undefined", "bad", "value"}

(* An HDU: its cards, whether some other card is malformed, whether every  *)
(* keyword is a name XML has, its checksums, the integers in NAXISn and    *)
(* ZNAXISn, and the image cfitsio finds in it (the decompressed one when   *)
(* the HDU is a compressed image).                                         *)
HduType == [card : [Keyword -> Card], rest : {"good", "bad"}, named : BOOLEAN,
            sum : {"right", "wrong", "none"},
            naxis : Nat \X Nat, znaxis : Nat \X Nat,
            dim : Nat, size : Nat \X Nat]

FileType == [opens : BOOLEAN, hdus : Seq(HduType) \ {<<>>}]
OptionType == [noverify : BOOLEAN, override : SUBSET Field]

ASSUME FileAssumption == File \subseteq FileType
ASSUME OptionAssumption == Option \subseteq OptionType
ASSUME FaultAssumption == Faults \subseteq {"io"}
ASSUME NoneAssumption == None \notin (Keyword \cup {"option"}) \X (Keyword \cup Nat)

VARIABLES
    file, opt,   \* the input
    pc,          \* what comes next
    hdu,         \* the current HDU of cfitsio
    stat,        \* f->stat: "ok" or "error"
    fields,      \* procfits_t: where each field came from, or None
    xml,         \* the HDU the XML was made of and its NAXISn, or None
    image        \* the HDU the pixels were read from and its size, or None

vars == <<file, opt, pc, hdu, stat, fields, xml, image>>

Stopped == {"done", "exit 1", "crash"}
Num == Len(file.hdus)
Here == file.hdus[hdu]

---------------------------------------------------------------------------

Init ==
    /\ file \in File
    /\ opt \in Option
    /\ pc = "open"
    /\ hdu = 1
    /\ stat = "ok"
    /\ fields = [k \in Field |-> None]
    /\ xml = None
    /\ image = None

(* fits_open_file; nothing looks at the status before the next call.       *)
Open ==
    /\ pc = "open"
    /\ stat' = IF file.opens THEN "ok" ELSE "error"
    /\ pc' = IF opt.noverify THEN "find" ELSE "verify"
    /\ UNCHANGED <<file, opt, hdu, fields, xml, image>>

(* A call into cfitsio fails.                                              *)
CallFails ==
    /\ "io" \in Faults
    /\ pc \notin Stopped \cup {"open"}
    /\ stat = "ok"
    /\ stat' = "error"
    /\ UNCHANGED <<file, opt, pc, hdu, fields, xml, image>>

(* CHK_FTS, which ends the process.                                        *)
Checked ==
    /\ stat = "error"
    /\ pc \notin Stopped \cup {"open", "xml"}
    /\ pc' = "exit 1"
    /\ UNCHANGED <<file, opt, hdu, stat, fields, xml, image>>

---------------------------------------------------------------------------
(* Checksums: every HDU, then back to the first.                           *)

(* Mutant: the last HDU is not verified.                                   *)
VerifyAllButLast ==
    /\ pc = "verify" /\ stat = "ok"
    /\ Here.sum # "wrong"
    /\ IF hdu + 1 < Num THEN hdu' = hdu + 1 /\ pc' = "verify"
                        ELSE hdu' = 1 /\ pc' = "find"
    /\ UNCHANGED <<file, opt, stat, fields, xml, image>>

Verify ==
    /\ pc = "verify" /\ stat = "ok"
    /\ Here.sum # "wrong"
    /\ IF hdu < Num THEN hdu' = hdu + 1 /\ pc' = "verify"
                    ELSE hdu' = 1 /\ pc' = "find"
    /\ UNCHANGED <<file, opt, stat, fields, xml, image>>

(* Mutant: an HDU without checksums is refused.                            *)
VerifyFatalMissing ==
    /\ pc = "verify" /\ stat = "ok"
    /\ Here.sum # "right"
    /\ pc' = "exit 1"
    /\ UNCHANGED <<file, opt, hdu, stat, fields, xml, image>>

VerifyFatal ==
    /\ pc = "verify" /\ stat = "ok"
    /\ Here.sum = "wrong"
    /\ pc' = "exit 1"
    /\ UNCHANGED <<file, opt, hdu, stat, fields, xml, image>>

---------------------------------------------------------------------------
(* sfts_find_hdukey: stop at the first HDU with the key, or at the last.   *)

(* Mutant: the loop goes on after the key was found.                       *)
FindLast ==
    /\ pc = "find" /\ stat = "ok"
    /\ Here.card["DATE-OBS"] # "bad"
    /\ IF hdu = Num THEN UNCHANGED hdu /\ pc' = "fields"
       ELSE hdu' = hdu + 1 /\ pc' = "find"
    /\ UNCHANGED <<file, opt, stat, fields, xml, image>>

Find ==
    /\ pc = "find" /\ stat = "ok"
    /\ Here.card["DATE-OBS"] # "bad"
    /\ IF Here.card["DATE-OBS"] = "value" \/ hdu = Num
       THEN UNCHANGED hdu /\ pc' = "fields"
       ELSE hdu' = hdu + 1 /\ pc' = "find"
    /\ UNCHANGED <<file, opt, stat, fields, xml, image>>

FindFatal ==
    /\ pc = "find" /\ stat = "ok"
    /\ Here.card["DATE-OBS"] = "bad"
    /\ pc' = "exit 1"
    /\ UNCHANGED <<file, opt, hdu, stat, fields, xml, image>>

---------------------------------------------------------------------------
(* The fields, from the options or the current HDU.                        *)

(* The keywords tried for a field, in order.                               *)
Tried(k) ==
    CASE k = "TELESCOP" -> <<"TELESCOP", "OBSRVTRY">>
      [] k = "DETECTOR" -> <<"DETECTOR", "INSTRUME">>
      [] OTHER -> <<k>>

(* The one that decides: the first that is there, well formed or not. The  *)
(* detector that is not there is a copy of the field instrume, which may   *)
(* be an option.                                                           *)
Deciding(k) ==
    {t \in {Tried(k)[i] : i \in DOMAIN Tried(k)} :
        /\ Here.card[t] \in {"value", "bad"}
        /\ t # Tried(k)[1] => Here.card[Tried(k)[1]] \notin {"value", "bad"}}

FromInstrume(k) == k = "DETECTOR" /\ Here.card[k] \in {"absent", "undefined"}

Source(k) ==
    IF k \in opt.override THEN <<"option", k>>
    ELSE IF FromInstrume(k) /\ "INSTRUME" \in opt.override
    THEN <<"option", "INSTRUME">>
    ELSE <<CHOOSE t \in Deciding(k) : TRUE, hdu>>

Readable(k) ==
    \/ k \in opt.override
    \/ FromInstrume(k) /\ "INSTRUME" \in opt.override
    \/ \E t \in Deciding(k) : Here.card[t] = "value"

(* Mutant: a field that is not there is no reason to stop.                 *)
FieldsLenient ==
    /\ pc = "fields" /\ stat = "ok"
    /\ \A k \in Field : Readable(k) \/ Deciding(k) = {}
    /\ fields' = [k \in Field |-> IF Readable(k) THEN Source(k) ELSE None]
    /\ pc' = "xml"
    /\ UNCHANGED <<file, opt, hdu, stat, xml, image>>

Fields ==
    /\ pc = "fields" /\ stat = "ok"
    /\ \A k \in Field : Readable(k)
    /\ fields' = [k \in Field |-> Source(k)]
    /\ pc' = "xml"
    /\ UNCHANGED <<file, opt, hdu, stat, xml, image>>

FieldsFatal ==
    /\ pc = "fields" /\ stat = "ok"
    /\ \E k \in Field : ~Readable(k)
    /\ pc' = "exit 1"
    /\ UNCHANGED <<file, opt, hdu, stat, fields, xml, image>>

---------------------------------------------------------------------------
(* process_header and swap_fits2hv.                                        *)

(* NAXISn as an integer: a card without a value reads as 0.                *)
Naxis(n) == IF Here.card[<<"NAXIS1", "NAXIS2">>[n]] = "undefined" THEN 0
            ELSE Here.naxis[n]

Compressed == /\ Here.card["ZNAXIS1"] = "value"
              /\ Here.card["ZNAXIS2"] = "value"

(* The integers are read one after the other; NAXISn only after ZNAXISn,   *)
(* and there it must be there.                                             *)
AxesFatal ==
    \/ Here.card["ZNAXIS1"] = "bad"
    \/ Here.card["ZNAXIS2"] = "bad"
    \/ /\ Compressed
       /\ \E k \in {"NAXIS1", "NAXIS2"} : Here.card[k] \in {"absent", "bad"}

(* A header sfts_head2str can walk through to its end.                     *)
Walkable == Here.rest = "good" /\ \A k \in Keyword : Here.card[k] # "bad"

(* Mutant: the axes of the table that holds a compressed image are kept.   *)
XmlRaw ==
    /\ pc = "xml" /\ stat = "ok"
    /\ ~AxesFatal /\ Walkable /\ Here.named
    /\ xml' = [hdu |-> hdu, axes |-> <<Naxis(1), Naxis(2)>>]
    /\ pc' = "image"
    /\ UNCHANGED <<file, opt, hdu, stat, fields, image>>

(* The XML is the header, with the axes of the image where they differ.    *)
Xml ==
    /\ pc = "xml" /\ stat = "ok"
    /\ ~AxesFatal /\ Walkable /\ Here.named
    /\ xml' = [hdu |-> hdu,
               axes |-> IF Compressed THEN Here.znaxis ELSE <<Naxis(1), Naxis(2)>>]
    /\ pc' = "image"
    /\ UNCHANGED <<file, opt, hdu, stat, fields, image>>

(* An axis cannot be read, or a legal FITS keyword is no name of XML,      *)
(* which genx refuses and GENX_Try makes fatal.                            *)
XmlFatal ==
    /\ pc = "xml" /\ stat = "ok"
    /\ AxesFatal \/ (Walkable /\ ~Here.named)
    /\ pc' = "exit 1"
    /\ UNCHANGED <<file, opt, hdu, stat, fields, xml, image>>

(* A call under sfts_head2str fails, on its own or on a malformed card:    *)
(* the value it did not return is measured and copied (undefined), and the *)
(* status looked at after the loop if the process lives that long.         *)
XmlUndefined ==
    /\ pc = "xml"
    /\ \/ stat = "error"
       \/ stat = "ok" /\ ~AxesFatal /\ ~Walkable
    /\ stat' = "error"
    /\ pc' \in {"exit 1", "crash"}
    /\ UNCHANGED <<file, opt, hdu, fields, xml, image>>

---------------------------------------------------------------------------
(* sfts_read_image and sfts_free.                                          *)

Image ==
    /\ pc = "image" /\ stat = "ok"
    /\ Here.dim = 2
    /\ image' = [hdu |-> hdu, axes |-> Here.size]
    /\ pc' = "close"
    /\ UNCHANGED <<file, opt, hdu, stat, fields, xml>>

ImageFatal ==
    /\ pc = "image" /\ stat = "ok"
    /\ Here.dim # 2
    /\ pc' = "exit 1"
    /\ UNCHANGED <<file, opt, hdu, stat, fields, xml, image>>

(* Mutant: the status after fits_close_file is not looked at.              *)
CloseUnchecked ==
    /\ pc = "close"
    /\ pc' = "done"
    /\ UNCHANGED <<file, opt, hdu, stat, fields, xml, image>>

(* sfts_free of a file that is not a product.                              *)
Close ==
    /\ pc = "close" /\ stat = "ok"
    /\ pc' = "done"
    /\ UNCHANGED <<file, opt, hdu, stat, fields, xml, image>>

Ended == pc \in Stopped /\ UNCHANGED vars

(* The steps of the program.                                               *)
Step == \/ Open \/ Checked \/ Verify \/ VerifyFatal \/ Find \/ FindFatal
        \/ Fields \/ FieldsFatal \/ Xml \/ XmlFatal \/ XmlUndefined
        \/ Image \/ ImageFatal \/ Close

Next == Step \/ CallFails \/ Ended

Spec == Init /\ [][Next]_vars

---------------------------------------------------------------------------
(* Properties.                                                             *)

TypeOK ==
    /\ file \in File
    /\ opt \in Option
    /\ pc \in {"open", "verify", "find", "fields", "xml", "image", "close"} \cup Stopped
    /\ hdu \in 1 .. Num
    /\ stat \in {"ok", "error"}
    /\ \A k \in Field : \/ fields[k] \in {None, <<"option", k>>, <<"option", "INSTRUME">>}
                        \/ fields[k] \in Keyword \X (1 .. Num)
    /\ xml = None \/ xml.axes \in Nat \X Nat
    /\ image = None \/ image.axes \in Nat \X Nat

(* The HDU sfts_find_hdukey promises: the first one with DATE-OBS, or the  *)
(* last one when there is none.                                            *)
Dated == {i \in 1 .. Num : file.hdus[i].card["DATE-OBS"] = "value"}
Wanted == IF Dated = {} THEN Num ELSE CHOOSE i \in Dated : \A j \in Dated : i <= j

(* The image, the XML and every field that is not an option come from that *)
(* one HDU, wherever the verification and the search left the cursor.      *)
OneSource ==
    pc = "done" =>
        /\ image.hdu = Wanted /\ xml.hdu = Wanted
        /\ \A k \in Field : \/ fields[k][1] = "option"
                            \/ fields[k][2] = Wanted

(* No field of a result is missing, and each is the best the file has: its *)
(* own keyword before the stand-in, an option before both.                 *)
BestField ==
    pc = "done" =>
        \A k \in Field :
            LET h == file.hdus[Wanted]
            IN  /\ fields[k] # None
                /\ k \in opt.override => fields[k] = <<"option", k>>
                /\ k \notin opt.override /\ h.card[k] = "value"
                      => fields[k] = <<k, Wanted>>

(* Pixels are only handed out when no checksum of the whole file is wrong, *)
(* unless the user asked for that ("Do not verify FITS checksums").        *)
Verified ==
    pc = "done" /\ ~opt.noverify => \A i \in 1 .. Num : file.hdus[i].sum # "wrong"

(* A failure of any call, seen late as it may be, never ends in a result.  *)
NoFailedResult == pc = "done" => stat = "ok" /\ file.opens

(* The NAXISn of the XML are the size of the image, compressed or not, as  *)
(* long as ZNAXISn are in the headers of compressed images only.           *)
XmlAgrees ==
    pc = "done" => xml.axes = image.axes

(* What a file needs to become an image: checksums that are not wrong, if  *)
(* they are looked at, dates that can be read as far as the search goes,   *)
(* and in the HDU it ends at an image, cards that can be parsed under      *)
(* names that XML has, and the fields, or what stands in for them.         *)
Given(h, k) ==
    \/ k \in opt.override
    \/ h.card[k] = "value"
    \/ k = "TELESCOP" /\ h.card["OBSRVTRY"] = "value"
    \/ k = "DETECTOR"

Flawless ==
    /\ file.opens
    /\ opt.noverify \/ \A i \in 1 .. Num : file.hdus[i].sum # "wrong"
    /\ \A i \in 1 .. Wanted : file.hdus[i].card["DATE-OBS"] # "bad"
    /\ LET h == file.hdus[Wanted]
       IN  /\ h.dim = 2 /\ h.rest = "good" /\ h.named
           /\ \A k \in Keyword : h.card[k] # "bad"
           /\ \A k \in Field : Given(h, k)

(* Such a file is not refused, wherever its other HDUs have defects: only  *)
(* a call that fails ends the process.                                     *)
NotRefused == pc \in {"exit 1", "crash"} => stat = "error" \/ ~Flawless
===========================================================================
