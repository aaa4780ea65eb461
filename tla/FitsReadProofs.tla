--------------------------- MODULE FitsReadProofs ---------------------------
(***************************************************************************)
(* Proofs about FitsRead, for any files, command lines and failures.       *)
(***************************************************************************)
EXTENDS FitsRead, WellFoundedInduction, TLAPS

(* What comes after a stage of the program.                                *)
Later(stage) ==
    CASE stage = "verified" -> {"find", "fields", "xml", "image", "close", "done"}
      [] stage = "found"    -> {"fields", "xml", "image", "close", "done"}
      [] stage = "filled"   -> {"xml", "image", "close", "done"}
      [] stage = "written"  -> {"image", "close", "done"}
      [] stage = "read"     -> {"close", "done"}

---------------------------------------------------------------------------
(* The inductive invariant.                                                *)

(* The status tells of a failure from the call that fails to the end.      *)
Told ==
    /\ pc = "open" => hdu = 1
    /\ pc # "open" /\ stat = "ok" => file.opens
    /\ pc = "done" => stat = "ok"

(* The HDUs behind the cursor are verified, or have no date.               *)
Behind ==
    /\ opt.noverify => pc # "verify"
    /\ pc = "verify" => \A i \in 1 .. hdu - 1 : file.hdus[i].sum # "wrong"
    /\ pc = "find" => \A i \in 1 .. hdu - 1 : file.hdus[i].card["DATE-OBS"] # "value"
    /\ pc \in Later("verified") /\ ~opt.noverify =>
          \A i \in 1 .. Num : file.hdus[i].sum # "wrong"

(* From the search on, everything comes from the HDU it stopped at.        *)
FromHere ==
    /\ pc \in Later("found") => hdu = Wanted
    /\ pc \in Later("filled") => \A k \in Field : Readable(k) /\ fields[k] = Source(k)
    /\ pc \in Later("written") =>
          /\ xml.hdu = hdu
          /\ xml.axes = IF Compressed THEN Here.znaxis ELSE <<Naxis(1), Naxis(2)>>
    /\ pc \in Later("read") =>
          image.hdu = hdu /\ image.axes = Here.size /\ Here.dim = 2

IInv == TypeOK /\ Told /\ Behind /\ FromHere

---------------------------------------------------------------------------
(* The definitions of the model that the steps need.                       *)

LEMMA Hdus ==
    ASSUME TypeOK
    PROVE  /\ Num \in Nat \ {0}
           /\ \A i \in 1 .. Num : file.hdus[i] \in HduType
           /\ Here \in HduType /\ hdu \in 1 .. Num
           /\ opt \in OptionType /\ file.opens \in BOOLEAN
BY FileAssumption, OptionAssumption DEF TypeOK, FileType, Num, Here

(* The search stops where it should.                                       *)
LEMMA StopsAtWanted ==
    ASSUME NEW n \in Nat \ {0}, NEW h \in 1 .. n, NEW D \in SUBSET (1 .. n),
           \A i \in 1 .. h - 1 : i \notin D,
           h \in D \/ h = n
    PROVE  h = IF D = {} THEN n ELSE CHOOSE i \in D : \A j \in D : i <= j
<1>1. CASE D = {}
  BY <1>1
<1>2. CASE D # {}
  <2>1. h \in D
    <3> SUFFICES ASSUME h = n, h \notin D PROVE FALSE
      OBVIOUS
    <3>1. PICK i \in D : TRUE
      BY <1>2
    <3> QED BY <3>1
  <2>2. \A j \in D : h <= j
    OBVIOUS
  <2>3. \A i \in D : (\A j \in D : i <= j) => i = h
    BY <2>1, <2>2
  <2> QED BY <1>2, <2>1, <2>2, <2>3
<1> QED BY <1>1, <1>2

(* A field that can be read is an option or stands in the current HDU.     *)
LEMMA SourceIsHere ==
    ASSUME TypeOK, NEW k \in Field, Readable(k)
    PROVE  /\ \/ Source(k) = <<"option", k>> /\ k \in opt.override
              \/ Source(k) = <<"option", "INSTRUME">> /\ k \notin opt.override
                    /\ FromInstrume(k)
              \/ \E t \in Keyword : Source(k) = <<t, hdu>> /\ k \notin opt.override
           /\ Source(k) # None
<1>1. CASE k \in opt.override
  <2>1. Source(k) = <<"option", k>>
    BY <1>1 DEF Source
  <2>2. <<"option", k>> \in (Keyword \cup {"option"}) \X (Keyword \cup Nat)
    BY DEF Keyword
  <2> QED BY <1>1, <2>1, <2>2, NoneAssumption
<1>2. CASE k \notin opt.override /\ FromInstrume(k) /\ "INSTRUME" \in opt.override
  <2>1. Source(k) = <<"option", "INSTRUME">>
    BY <1>2 DEF Source
  <2>2. <<"option", "INSTRUME">> \in (Keyword \cup {"option"}) \X (Keyword \cup Nat)
    BY DEF Keyword, Field
  <2> QED BY <1>2, <2>1, <2>2, NoneAssumption
<1>3. CASE k \notin opt.override /\ ~(FromInstrume(k) /\ "INSTRUME" \in opt.override)
  <2> DEFINE t == CHOOSE t \in Deciding(k) : TRUE
  <2>1. Deciding(k) # {}
    BY <1>3 DEF Readable
  <2>2. t \in Deciding(k)
    BY <2>1
  <2>3. \A i \in DOMAIN Tried(k) : Tried(k)[i] \in Keyword
    <3>1. CASE k = "TELESCOP"
      BY <3>1 DEF Tried, Keyword, Field
    <3>2. CASE k = "DETECTOR"
      BY <3>2 DEF Tried, Keyword, Field
    <3>3. CASE k \notin {"TELESCOP", "DETECTOR"}
      <4>1. Tried(k) = <<k>>
        BY <3>3 DEF Tried
      <4> QED BY <4>1 DEF Keyword
    <3> QED BY <3>1, <3>2, <3>3
  <2>4. Deciding(k) \subseteq Keyword
    BY <2>3 DEF Deciding
  <2>5. t \in Keyword
    BY <2>2, <2>4
  <2>6. Source(k) = <<t, hdu>>
    BY <1>3 DEF Source
  <2> HIDE DEF t
  <2>7. <<t, hdu>> \in (Keyword \cup {"option"}) \X (Keyword \cup Nat)
    <3>1. hdu \in Nat
      BY DEF TypeOK, Num
    <3> QED BY <2>5, <3>1
  <2> QED BY <1>3, <2>5, <2>6, <2>7, NoneAssumption
<1> QED BY <1>1, <1>2, <1>3

(* A field whose own keyword is there is read from it.                     *)
LEMMA OwnKeyword ==
    ASSUME NEW k \in Field, k \notin opt.override, Here.card[k] = "value"
    PROVE  Readable(k) /\ Source(k) = <<k, hdu>>
<1>1. Tried(k)[1] = k /\ 1 \in DOMAIN Tried(k)
  BY DEF Tried, Field
<1>2. k \in Deciding(k)
  BY <1>1 DEF Deciding
<1>3. \A t \in Deciding(k) : t = k
  BY <1>1 DEF Deciding
<1>4. (CHOOSE t \in Deciding(k) : TRUE) = k
  BY <1>2, <1>3
<1>5. ~FromInstrume(k)
  BY DEF FromInstrume
<1> QED BY <1>2, <1>4, <1>5 DEF Readable, Source

---------------------------------------------------------------------------

(* What depends on the file and on the current HDU alone stays when they   *)
(* do.                                                                     *)
LEMMA FromHereStays ==
    ASSUME FromHere, UNCHANGED <<file, opt, hdu, fields, xml, image>>,
           pc' \in {"find", "fields", "xml", "image", "close", "done"} =>
              \/ pc' = pc
              \/ pc' = "find" /\ pc \in {"open", "verify"}
    PROVE  FromHere'
<1>1. Wanted' = Wanted /\ Here' = Here
  BY DEF Wanted, Dated, Num, Here
<1>2. Compressed' = Compressed /\ Naxis(1)' = Naxis(1) /\ Naxis(2)' = Naxis(2)
  BY <1>1 DEF Compressed, Naxis
<1>3. \A k \in Field : Readable(k)' = Readable(k) /\ Source(k)' = Source(k)
  BY <1>1 DEF Readable, Source, Deciding, FromInstrume
<1>4. \A s \in {"found", "filled", "written", "read"} : pc' \in Later(s) => pc \in Later(s)
  BY DEF Later
<1>5. pc' \in Later("found") => hdu' = Wanted'
  BY <1>1, <1>4 DEF FromHere
<1>6. pc' \in Later("filled") => \A k \in Field : Readable(k)' /\ fields'[k] = Source(k)'
  BY <1>3, <1>4 DEF FromHere
<1>7. pc' \in Later("written") =>
         /\ xml'.hdu = hdu'
         /\ xml'.axes = IF Compressed' THEN (Here').znaxis ELSE <<Naxis(1)', Naxis(2)'>>
  BY <1>1, <1>2, <1>4 DEF FromHere
<1>8. pc' \in Later("read") => image'.hdu = hdu' /\ image'.axes = (Here').size /\ (Here').dim = 2
  BY <1>1, <1>4 DEF FromHere
<1> QED BY <1>5, <1>6, <1>7, <1>8 DEF FromHere

LEMMA InvInit == Init => IInv
<1> SUFFICES ASSUME Init PROVE IInv
  OBVIOUS
<1>1. TypeOK
  BY FileAssumption, OptionAssumption DEF Init, TypeOK, Num, FileType, Stopped
<1>2. Told /\ Behind /\ FromHere
  BY DEF Init, Told, Behind, FromHere, Later
<1> QED BY <1>1, <1>2 DEF IInv

(* The process ends; so much for any way to do that.                       *)
LEMMA InvExit ==
    ASSUME IInv, UNCHANGED <<file, opt, hdu, fields, xml, image>>,
           stat' \in {stat, "error"}, pc # "open", pc' \in {"exit 1", "crash"}
    PROVE  IInv'
<1>1. TypeOK'
  BY DEF IInv, TypeOK, Num, Stopped
<1>2. Told'
  BY DEF IInv, Told
<1>3. Behind'
  BY DEF IInv, Behind, Later
<1>4. FromHere'
  BY DEF IInv, FromHere, Later
<1> QED BY <1>1, <1>2, <1>3, <1>4 DEF IInv

LEMMA InvNext == IInv /\ [Next]_vars => IInv'
<1> SUFFICES ASSUME IInv, [Next]_vars PROVE IInv'
  OBVIOUS
<1>t. TypeOK /\ Told /\ Behind /\ FromHere
  BY DEF IInv
<1>h. /\ Num \in Nat \ {0}
      /\ \A i \in 1 .. Num : file.hdus[i] \in HduType
      /\ Here \in HduType /\ hdu \in 1 .. Num
      /\ opt \in OptionType /\ file.opens \in BOOLEAN
  BY <1>t, Hdus
<1>1. CASE Open
  <2>1. TypeOK' /\ Told'
    BY <1>1, <1>t DEF Open, TypeOK, Told, Num, Stopped
  <2>2. hdu' = 1 /\ opt' = opt /\ pc' = IF opt.noverify THEN "find" ELSE "verify"
    BY <1>1, <1>t DEF Open, Told
  <2>3. opt.noverify \in BOOLEAN
    BY <1>h DEF OptionType
  <2>4. Behind'
    BY <2>2, <2>3 DEF Behind, Later
  <2>5. FromHere'
    BY <2>2, <2>3 DEF FromHere, Later
  <2> QED BY <2>1, <2>4, <2>5 DEF IInv
<1>2. CASE CallFails
  <2>1. UNCHANGED <<file, opt, pc, hdu, fields, xml, image>> /\ stat' = "error" /\ pc # "done" /\ pc # "open"
    BY <1>2 DEF CallFails, Stopped
  <2>2. TypeOK' /\ Told' /\ Behind'
    BY <2>1, <1>t DEF TypeOK, Told, Behind, Num
  <2>3. FromHere'
    BY <2>1, <1>t, FromHereStays
  <2> QED BY <2>2, <2>3 DEF IInv
<1>3. CASE Checked \/ VerifyFatal \/ FindFatal \/ FieldsFatal \/ XmlFatal \/ XmlUndefined \/ ImageFatal
  <2>1. /\ UNCHANGED <<file, opt, hdu, fields, xml, image>>
        /\ stat' \in {stat, "error"} /\ pc # "open" /\ pc' \in {"exit 1", "crash"}
    BY <1>3 DEF Checked, VerifyFatal, FindFatal, FieldsFatal, XmlFatal, XmlUndefined, ImageFatal
  <2> QED BY <2>1, InvExit
<1>4. CASE Verify
  <2>1. /\ UNCHANGED <<file, opt, stat, fields, xml, image>> /\ pc = "verify"
        /\ Here.sum # "wrong" /\ opt.noverify \in BOOLEAN /\ ~opt.noverify
    BY <1>4, <1>t, <1>h DEF Verify, Behind, OptionType
  <2>2. \A i \in 1 .. hdu : file.hdus[i].sum # "wrong"
    BY <2>1, <1>t, <1>h DEF Behind, Here
  <2>3. CASE hdu < Num
    <3>1. hdu' = hdu + 1 /\ pc' = "verify"
      BY <2>3, <1>4 DEF Verify
    <3>2. TypeOK' /\ Told'
      BY <2>1, <3>1, <2>3, <1>t, <1>h DEF TypeOK, Told, Num
    <3>3. Behind'
      BY <2>1, <2>2, <3>1, <1>h DEF Behind, Later
    <3>4. FromHere'
      BY <3>1 DEF FromHere, Later
    <3> QED BY <3>2, <3>3, <3>4 DEF IInv
  <2>4. CASE ~(hdu < Num)
    <3>1. hdu' = 1 /\ pc' = "find" /\ hdu = Num
      BY <2>4, <1>4, <1>h DEF Verify
    <3>2. TypeOK' /\ Told'
      BY <2>1, <3>1, <1>t, <1>h DEF TypeOK, Told, Num
    <3>3. Num' = Num
      BY <2>1 DEF Num
    <3>4. Behind'
      BY <2>1, <2>2, <3>1, <3>3, <1>h DEF Behind, Later
    <3>5. FromHere'
      BY <3>1 DEF FromHere, Later
    <3> QED BY <3>2, <3>4, <3>5 DEF IInv
  <2> QED BY <2>3, <2>4
<1>5. CASE Find
  <2>1. UNCHANGED <<file, opt, stat, fields, xml, image>> /\ pc = "find"
    BY <1>5 DEF Find
  <2>2. CASE Here.card["DATE-OBS"] = "value" \/ hdu = Num
    <3>1. hdu' = hdu /\ pc' = "fields"
      BY <2>2, <1>5 DEF Find
    <3>2. TypeOK' /\ Told'
      BY <2>1, <3>1, <1>t DEF TypeOK, Told, Num
    <3>3. Num' = Num
      BY <2>1 DEF Num
    <3>4. Behind'
      BY <2>1, <3>1, <3>3, <1>t DEF Behind, Later
    <3>5. \A i \in 1 .. hdu - 1 : i \notin Dated
      BY <2>1, <1>t DEF Behind, Dated
    <3>6. hdu \in Dated \/ hdu = Num
      BY <2>2, <1>h DEF Dated, Here
    <3>7. Dated \in SUBSET (1 .. Num)
      BY DEF Dated
    <3>8. hdu = Wanted
      BY <3>5, <3>6, <3>7, <1>h, StopsAtWanted DEF Wanted
    <3>9. Wanted' = Wanted
      BY <2>1, <3>3 DEF Wanted, Dated
    <3>10. FromHere'
      BY <3>1, <3>8, <3>9 DEF FromHere, Later
    <3> QED BY <3>2, <3>4, <3>10 DEF IInv
  <2>3. CASE ~(Here.card["DATE-OBS"] = "value" \/ hdu = Num)
    <3>1. hdu' = hdu + 1 /\ pc' = "find"
      BY <2>3, <1>5 DEF Find
    <3>2. TypeOK' /\ Told'
      BY <2>1, <3>1, <2>3, <1>t, <1>h DEF TypeOK, Told, Num
    <3>3. Num' = Num
      BY <2>1 DEF Num
    <3>4. \A i \in 1 .. hdu : file.hdus[i].card["DATE-OBS"] # "value"
      BY <2>1, <2>3, <1>t, <1>h DEF Behind, Here
    <3>5. Behind'
      BY <2>1, <3>1, <3>3, <3>4, <1>t, <1>h DEF Behind, Later
    <3>6. FromHere'
      BY <3>1 DEF FromHere, Later
    <3> QED BY <3>2, <3>5, <3>6 DEF IInv
  <2> QED BY <2>2, <2>3
<1>6. CASE Fields
  <2>1. /\ UNCHANGED <<file, opt, hdu, stat, xml, image>> /\ pc = "fields" /\ pc' = "xml"
        /\ \A k \in Field : Readable(k)
        /\ fields' = [k \in Field |-> Source(k)]
    BY <1>6 DEF Fields
  <2>2. \A k \in Field : \/ Source(k) \in {None, <<"option", k>>, <<"option", "INSTRUME">>}
                         \/ Source(k) \in Keyword \X (1 .. Num)
    BY <2>1, <1>t, <1>h, SourceIsHere
  <2>3. Num' = Num
    BY <2>1 DEF Num
  <2>4. TypeOK'
    BY <2>1, <2>2, <2>3, <1>t DEF TypeOK
  <2>5. Told' /\ Behind'
    BY <2>1, <2>3, <1>t DEF Told, Behind, Later
  <2>6. Wanted' = Wanted /\ Here' = Here
    BY <2>1 DEF Wanted, Dated, Num, Here
  <2>7. \A k \in Field : Readable(k)' = Readable(k) /\ Source(k)' = Source(k)
    BY <2>1, <2>6 DEF Readable, Source, Deciding, FromInstrume
  <2>8. hdu = Wanted
    BY <2>1, <1>t DEF FromHere, Later
  <2>9. FromHere'
    BY <2>1, <2>6, <2>7, <2>8 DEF FromHere, Later
  <2> QED BY <2>4, <2>5, <2>9 DEF IInv
<1>7. CASE Xml
  <2>1. /\ UNCHANGED <<file, opt, hdu, stat, fields, image>> /\ pc = "xml" /\ pc' = "image"
        /\ xml'.hdu = hdu
        /\ xml'.axes = IF Compressed THEN Here.znaxis ELSE <<Naxis(1), Naxis(2)>>
    BY <1>7 DEF Xml
  <2>2. Num' = Num /\ Wanted' = Wanted /\ Here' = Here
    BY <2>1 DEF Wanted, Dated, Num, Here
  <2>3. Here.znaxis \in Nat \X Nat /\ Here.naxis \in Nat \X Nat
    BY <1>h DEF HduType
  <2>4. Naxis(1) \in Nat /\ Naxis(2) \in Nat
    BY <2>3 DEF Naxis
  <2>5. xml'.axes \in Nat \X Nat
    BY <2>1, <2>3, <2>4
  <2>6. TypeOK'
    BY <2>1, <2>2, <2>5, <1>t DEF TypeOK
  <2>7. Told' /\ Behind'
    BY <2>1, <2>2, <1>t DEF Told, Behind, Later
  <2>8. Compressed' = Compressed /\ Naxis(1)' = Naxis(1) /\ Naxis(2)' = Naxis(2)
    BY <2>2 DEF Compressed, Naxis
  <2>9. \A k \in Field : Readable(k)' = Readable(k) /\ Source(k)' = Source(k)
    BY <2>1, <2>2 DEF Readable, Source, Deciding, FromInstrume
  <2>10. hdu = Wanted /\ \A k \in Field : Readable(k) /\ fields[k] = Source(k)
    BY <2>1, <1>t DEF FromHere, Later
  <2>11. FromHere'
    BY <2>1, <2>2, <2>8, <2>9, <2>10 DEF FromHere, Later
  <2> QED BY <2>6, <2>7, <2>11 DEF IInv
<1>8. CASE Image
  <2>1. /\ UNCHANGED <<file, opt, hdu, stat, fields, xml>> /\ pc = "image" /\ pc' = "close"
        /\ image'.hdu = hdu /\ image'.axes = Here.size /\ Here.dim = 2
    BY <1>8 DEF Image
  <2>2. Num' = Num /\ Wanted' = Wanted /\ Here' = Here
    BY <2>1 DEF Wanted, Dated, Num, Here
  <2>3. image'.axes \in Nat \X Nat
    BY <2>1, <1>h DEF HduType
  <2>4. TypeOK'
    BY <2>1, <2>2, <2>3, <1>t DEF TypeOK
  <2>5. Told' /\ Behind'
    BY <2>1, <2>2, <1>t DEF Told, Behind, Later
  <2>6. Compressed' = Compressed /\ Naxis(1)' = Naxis(1) /\ Naxis(2)' = Naxis(2)
    BY <2>2 DEF Compressed, Naxis
  <2>7. \A k \in Field : Readable(k)' = Readable(k) /\ Source(k)' = Source(k)
    BY <2>1, <2>2 DEF Readable, Source, Deciding, FromInstrume
  <2>8. /\ hdu = Wanted /\ xml.hdu = hdu
        /\ xml.axes = IF Compressed THEN Here.znaxis ELSE <<Naxis(1), Naxis(2)>>
        /\ \A k \in Field : Readable(k) /\ fields[k] = Source(k)
    BY <2>1, <1>t DEF FromHere, Later
  <2>9. FromHere'
    BY <2>1, <2>2, <2>6, <2>7, <2>8 DEF FromHere, Later
  <2> QED BY <2>4, <2>5, <2>9 DEF IInv
<1>9. CASE Close
  <2>1. UNCHANGED <<file, opt, hdu, stat, fields, xml, image>> /\ pc = "close" /\ pc' = "done" /\ stat = "ok"
    BY <1>9 DEF Close
  <2>2. TypeOK' /\ Told' /\ Behind'
    BY <2>1, <1>t DEF TypeOK, Told, Behind, Num, Later, Stopped
  <2>3. Wanted' = Wanted /\ Here' = Here
    BY <2>1 DEF Wanted, Dated, Num, Here
  <2>4. Compressed' = Compressed /\ Naxis(1)' = Naxis(1) /\ Naxis(2)' = Naxis(2)
    BY <2>3 DEF Compressed, Naxis
  <2>5. \A k \in Field : Readable(k)' = Readable(k) /\ Source(k)' = Source(k)
    BY <2>1, <2>3 DEF Readable, Source, Deciding, FromInstrume
  <2>6. /\ hdu = Wanted /\ xml.hdu = hdu
        /\ xml.axes = IF Compressed THEN Here.znaxis ELSE <<Naxis(1), Naxis(2)>>
        /\ \A k \in Field : Readable(k) /\ fields[k] = Source(k)
        /\ image.hdu = hdu /\ image.axes = Here.size /\ Here.dim = 2
    BY <2>1, <1>t DEF FromHere, Later
  <2>7. FromHere'
    BY <2>1, <2>3, <2>4, <2>5, <2>6 DEF FromHere, Later
  <2> QED BY <2>2, <2>7 DEF IInv
<1>10. CASE UNCHANGED vars
  <2>1. TypeOK' /\ Told' /\ Behind'
    BY <1>10, <1>t DEF vars, TypeOK, Told, Behind, Num
  <2>2. FromHere'
    BY <1>10, <1>t, FromHereStays DEF vars
  <2> QED BY <2>1, <2>2 DEF IInv
<1> QED
  BY <1>1, <1>2, <1>3, <1>4, <1>5, <1>6, <1>7, <1>8, <1>9, <1>10 DEF Next, Step, Ended
---------------------------------------------------------------------------
(* The theorems.                                                           *)

LEMMA Invariance == Spec => []IInv
<1>1. Init => IInv
  BY InvInit
<1>2. IInv /\ [Next]_vars => IInv'
  BY InvNext
<1> QED BY <1>1, <1>2, PTL DEF Spec

(* The cursor of cfitsio never leaves the file, and a field is missing or  *)
(* named by where it was found.                                            *)
THEOREM TypeCorrect == Spec => []TypeOK
<1>1. IInv => TypeOK
  BY DEF IInv
<1> QED BY <1>1, Invariance, PTL

(* Image, XML and fields of a result come from the first HDU with a date,  *)
(* although verification and search both move the cursor.                  *)
THEOREM OneSourceAlways == Spec => []OneSource
<1>1. IInv => OneSource
  <2> SUFFICES ASSUME IInv, pc = "done"
               PROVE  /\ image.hdu = Wanted /\ xml.hdu = Wanted
                      /\ \A k \in Field : fields[k][1] = "option" \/ fields[k][2] = Wanted
    BY DEF OneSource
  <2>1. /\ TypeOK /\ hdu = Wanted /\ image.hdu = hdu /\ xml.hdu = hdu
        /\ \A k \in Field : Readable(k) /\ fields[k] = Source(k)
    BY DEF IInv, FromHere, Later
  <2>2. ASSUME NEW k \in Field PROVE fields[k][1] = "option" \/ fields[k][2] = hdu
    <3>1. \/ Source(k) = <<"option", k>> \/ Source(k) = <<"option", "INSTRUME">>
          \/ \E t \in Keyword : Source(k) = <<t, hdu>>
      BY <2>1, SourceIsHere
    <3>2. fields[k] = Source(k)
      BY <2>1
    <3> QED BY <3>1, <3>2
  <2> QED BY <2>1, <2>2
<1> QED BY <1>1, Invariance, PTL

(* No field of a result is missing, an option wins over the file, and a    *)
(* field's own keyword over its stand-in.                                  *)
THEOREM BestFieldAlways == Spec => []BestField
<1>1. IInv => BestField
  <2> SUFFICES ASSUME IInv, pc = "done", NEW k \in Field
               PROVE  /\ fields[k] # None
                      /\ k \in opt.override => fields[k] = <<"option", k>>
                      /\ k \notin opt.override /\ file.hdus[Wanted].card[k] = "value"
                            => fields[k] = <<k, Wanted>>
    BY DEF BestField
  <2>1. TypeOK /\ hdu = Wanted /\ Readable(k) /\ fields[k] = Source(k)
    BY DEF IInv, FromHere, Later
  <2>2. fields[k] # None
    BY <2>1, SourceIsHere
  <2>3. k \in opt.override => fields[k] = <<"option", k>>
    BY <2>1 DEF Source
  <2>4. ASSUME k \notin opt.override, file.hdus[Wanted].card[k] = "value"
        PROVE  fields[k] = <<k, Wanted>>
    <3>1. Here.card[k] = "value"
      BY <2>1, <2>4 DEF Here
    <3> QED BY <2>1, <2>4, <3>1, OwnKeyword
  <2> QED BY <2>2, <2>3, <2>4
<1> QED BY <1>1, Invariance, PTL

(* A result of a verified read is of a file without a wrong checksum, in   *)
(* the HDUs behind the one that was read too.                              *)
THEOREM VerifiedAlways == Spec => []Verified
<1>1. IInv => Verified
  BY DEF IInv, Behind, Later, Verified
<1> QED BY <1>1, Invariance, PTL

(* A failure anywhere, of the opening too, which nothing looks at, never   *)
(* ends in a result.                                                       *)
THEOREM FailureStops == Spec => []NoFailedResult
<1>1. IInv => NoFailedResult
  BY DEF IInv, Told, NoFailedResult
<1> QED BY <1>1, Invariance, PTL

---------------------------------------------------------------------------
(* What holds of files whose images have axes, and axes that fit: what     *)
(* cfitsio sees to in the files it finds an image in.                      *)

Fitting(h) ==
    h.dim = 2 =>
        /\ h.card["NAXIS1"] = "value" /\ h.card["NAXIS2"] = "value"
        /\ h.size = IF h.card["ZNAXIS1"] = "value" /\ h.card["ZNAXIS2"] = "value"
                    THEN h.znaxis ELSE h.naxis

AllFitting == \A f \in File : \A i \in 1 .. Len(f.hdus) : Fitting(f.hdus[i])

(* The axes written into the XML are those of the pixels, also where the   *)
(* header describes the table a compressed image is kept in.               *)
THEOREM XmlAgreesAlways ==
    ASSUME AllFitting
    PROVE  Spec => []XmlAgrees
<1>1. IInv => XmlAgrees
  <2> SUFFICES ASSUME IInv, pc = "done" PROVE xml.axes = image.axes
    BY DEF XmlAgrees
  <2>1. /\ TypeOK /\ Here.dim = 2 /\ image.axes = Here.size
        /\ xml.axes = IF Compressed THEN Here.znaxis ELSE <<Naxis(1), Naxis(2)>>
    BY DEF IInv, FromHere, Later
  <2>2. Here \in HduType /\ Fitting(Here)
    <3>1. hdu \in 1 .. Len(file.hdus) /\ file \in File
      BY <2>1 DEF TypeOK, Num
    <3> QED BY <3>1, <2>1, Hdus DEF AllFitting, Here
  <2>3. Here.size = IF Compressed THEN Here.znaxis ELSE Here.naxis
    BY <2>1, <2>2 DEF Fitting, Compressed
  <2>4. <<Naxis(1), Naxis(2)>> = Here.naxis
    <3>1. Naxis(1) = Here.naxis[1]
      BY <2>1, <2>2 DEF Fitting, Naxis
    <3>2. Naxis(2) = Here.naxis[2]
      BY <2>1, <2>2 DEF Fitting, Naxis
    <3>3. Here.naxis \in Nat \X Nat
      BY <2>2 DEF HduType
    <3> QED BY <3>1, <3>2, <3>3
  <2> QED BY <2>1, <2>3, <2>4
<1> QED BY <1>1, Invariance, PTL

(* A field that is given, itself or by its stand-in, can be read.          *)
LEMMA GivenReadable ==
    ASSUME NEW k \in Field, Here \in HduType,
           \A t \in Keyword : Here.card[t] # "bad",
           \A t \in Field : Given(Here, t)
    PROVE  Readable(k)
<1>1. CASE k \in opt.override
  BY <1>1 DEF Readable
<1>2. CASE k \notin opt.override /\ Here.card[k] = "value"
  BY <1>2, OwnKeyword
<1>3. CASE k \notin opt.override /\ Here.card[k] # "value" /\ k = "TELESCOP"
  <2>1. Here.card["OBSRVTRY"] = "value"
    BY <1>3 DEF Given
  <2>2. Tried(k) = <<"TELESCOP", "OBSRVTRY">> /\ Here.card["TELESCOP"] # "bad"
    BY <1>3 DEF Tried, Keyword, Field
  <2>3. "OBSRVTRY" \in Deciding(k)
    BY <1>3, <2>1, <2>2 DEF Deciding
  <2> QED BY <2>1, <2>3 DEF Readable
<1>4. CASE k \notin opt.override /\ Here.card[k] # "value" /\ k = "DETECTOR"
  <2>1. Here.card["DETECTOR"] \in {"absent", "undefined"}
    BY <1>4 DEF HduType, Card, Keyword, Field
  <2>2. FromInstrume(k)
    BY <1>4, <2>1 DEF FromInstrume
  <2>3. CASE "INSTRUME" \in opt.override
    BY <2>2, <2>3 DEF Readable
  <2>4. CASE "INSTRUME" \notin opt.override
    <3>1. Here.card["INSTRUME"] = "value"
      BY <2>4 DEF Given, Field
    <3>2. Tried(k) = <<"DETECTOR", "INSTRUME">>
      BY <1>4 DEF Tried
    <3>3. "INSTRUME" \in Deciding(k)
      BY <2>1, <3>1, <3>2 DEF Deciding
    <3> QED BY <3>1, <3>3 DEF Readable
  <2> QED BY <2>3, <2>4
<1>5. CASE k \notin opt.override /\ Here.card[k] # "value" /\ k \notin {"TELESCOP", "DETECTOR"}
  <2>1. Given(Here, k)
    OBVIOUS
  <2> QED BY <1>5, <2>1 DEF Given
<1> QED BY <1>1, <1>2, <1>3, <1>4, <1>5

(* Where the search ends is a matter of the file alone.                    *)
LEMMA SearchStays ==
    ASSUME UNCHANGED <<file, opt>>
    PROVE  Num' = Num /\ Wanted' = Wanted
BY DEF Num, Wanted, Dated

(* A set of places that is not empty has a first one.                      *)
LEMMA FirstOf ==
    ASSUME NEW S \in SUBSET Nat, S # {}
    PROVE  \E x \in S : \A y \in S : x <= y
<1> DEFINE R == {r \in Nat \X Nat : r[1] < r[2]}
<1>1. IsWellFoundedOn(R, Nat)
  BY NatLessThanWellFounded DEF OpToRel
<1>2. PICK x \in S : \A y \in S : ~(<<y, x>> \in R)
  BY <1>1, WFMin
<1>3. \A y \in S : x <= y
  <2> TAKE y \in S
  <2>1. <<y, x>> \in Nat \X Nat /\ ~(<<y, x>>[1] < <<y, x>>[2])
    BY <1>2
  <2> QED BY <2>1
<1> QED BY <1>3

(* The search does not go past the HDU it is for.                          *)
LEMMA SearchBefore ==
    ASSUME IInv, pc = "find"
    PROVE  hdu <= Wanted /\ hdu \in 1 .. Wanted
<1>1. hdu \in 1 .. Num /\ Num \in Nat \ {0}
  BY Hdus DEF IInv
<1>2. \A i \in 1 .. hdu - 1 : i \notin Dated
  BY DEF IInv, Behind, Dated
<1>3. CASE Dated = {}
  BY <1>1, <1>3 DEF Wanted
<1>4. CASE Dated # {}
  <2>1. Dated \subseteq 1 .. Num
    BY DEF Dated
  <2>2. \E i \in Dated : \A j \in Dated : i <= j
    <3>1. Dated \in SUBSET Nat
      BY <2>1, <1>1
    <3> QED BY <3>1, <1>4, FirstOf
  <2>3. Wanted \in Dated
    BY <2>2, <1>4 DEF Wanted
  <2> QED BY <1>1, <1>2, <2>1, <2>3
<1> QED BY <1>3, <1>4

(* A step that gives a file up has a reason in the file or a failed call.  *)
LEMMA RefusalHasCause ==
    ASSUME AllFitting, IInv, NotRefused, [Next]_vars
    PROVE  NotRefused'
<1> SUFFICES ASSUME pc' \in {"exit 1", "crash"}, stat' # "error", Flawless'
             PROVE  FALSE
  BY DEF NotRefused
<1>1. file' = file /\ opt' = opt
  BY DEF Next, Step, Open, CallFails, Checked, Verify, VerifyFatal, Find, FindFatal, Fields,
         FieldsFatal, Xml, XmlFatal, XmlUndefined, Image, ImageFatal, Close, Ended, vars
<1>2. Flawless
  <2>1. Num' = Num /\ Wanted' = Wanted
    BY <1>1, SearchStays
  <2>2. \A h, k : Given(h, k)' = Given(h, k)
    BY <1>1 DEF Given
  <2> QED BY <1>1, <2>1, <2>2 DEF Flawless
<1>3. TypeOK /\ Here \in HduType /\ file \in File /\ hdu \in 1 .. Num
  BY Hdus DEF IInv, TypeOK
<1>4. ~VerifyFatal
  <2> SUFFICES ASSUME pc = "verify" PROVE Here.sum # "wrong"
    BY DEF VerifyFatal
  <2>1. ~opt.noverify
    BY DEF IInv, Behind
  <2> QED BY <2>1, <1>2, <1>3 DEF Flawless, Here
<1>5. ~FindFatal
  <2> SUFFICES ASSUME pc = "find" PROVE Here.card["DATE-OBS"] # "bad"
    BY DEF FindFatal
  <2> QED BY <1>2, SearchBefore DEF Flawless, Here
<1>6. ASSUME pc \in {"fields", "xml", "image"}
      PROVE  /\ Here.dim = 2 /\ Here.named /\ Walkable
             /\ \A k \in Keyword : Here.card[k] # "bad"
             /\ \A k \in Field : Given(Here, k)
  <2>1. hdu = Wanted
    BY <1>6 DEF IInv, FromHere, Later
  <2> QED BY <1>2, <2>1 DEF Flawless, Here, Walkable
<1>7. ~ImageFatal
  BY <1>6 DEF ImageFatal
<1>8. ~XmlFatal
  <2> SUFFICES ASSUME pc = "xml" PROVE ~AxesFatal /\ Here.named
    BY DEF XmlFatal
  <2>1. Here.dim = 2 /\ Here.named /\ Here.card["ZNAXIS1"] # "bad" /\ Here.card["ZNAXIS2"] # "bad"
    BY <1>6 DEF Keyword
  <2>2. Fitting(Here)
    BY <1>3 DEF AllFitting, Here, Num
  <2> QED BY <2>1, <2>2 DEF AxesFatal, Fitting
<1>9. ~FieldsFatal
  <2> SUFFICES ASSUME pc = "fields", NEW k \in Field PROVE Readable(k)
    BY DEF FieldsFatal
  <2> QED BY <1>3, <1>6, GivenReadable
<1>x. pc = "xml" => Walkable /\ ~AxesFatal
  <2> SUFFICES ASSUME pc = "xml" PROVE Walkable /\ ~AxesFatal
    OBVIOUS
  <2>1. Walkable /\ Here.dim = 2 /\ Here.card["ZNAXIS1"] # "bad" /\ Here.card["ZNAXIS2"] # "bad"
    BY <1>6 DEF Keyword
  <2>2. Fitting(Here)
    BY <1>3 DEF AllFitting, Here, Num
  <2> QED BY <2>1, <2>2 DEF AxesFatal, Fitting
<1>10. CASE pc \in {"exit 1", "crash"} /\ stat = stat'
  BY <1>2, <1>10 DEF NotRefused
<1>11. CASE pc \notin {"exit 1", "crash"}
  BY <1>4, <1>5, <1>7, <1>8, <1>9, <1>11, <1>x
     DEF Next, Step, Open, CallFails, Checked, Verify, Find, Fields, Xml,
         XmlUndefined, Image, Close, Ended, vars
<1>12. CASE pc \in {"exit 1", "crash"} /\ stat # stat'
  BY <1>12 DEF Next, Step, Open, CallFails, Checked, Verify, VerifyFatal, Find, FindFatal,
         Fields, FieldsFatal, Xml, XmlFatal, XmlUndefined, Image, ImageFatal, Close, Ended,
         vars, Stopped
<1> QED BY <1>10, <1>11, <1>12

(* A file with nothing wrong where the search goes and where it ends, and  *)
(* with keywords that XML can have there, is only given up when a call     *)
(* into cfitsio fails, whatever its other HDUs are.                        *)
THEOREM NotRefusedAlways ==
    ASSUME AllFitting
    PROVE  Spec => []NotRefused
<1>1. Init => NotRefused
  BY DEF Init, NotRefused
<1>2. IInv /\ NotRefused /\ [Next]_vars => NotRefused'
  BY RefusalHasCause
<1> QED BY <1>1, <1>2, Invariance, PTL DEF Spec
=============================================================================
