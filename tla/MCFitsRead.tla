----------------------------- MODULE MCFitsRead -----------------------------
(* Small instances of FitsRead: HDUs that differ from a plain image in one *)
(* or two respects, in files of one to three of them.                      *)
EXTENDS FitsRead

Plain == [card |-> [k \in Keyword |->
                      IF k \in {"OBSRVTRY", "ZNAXIS1", "ZNAXIS2"} THEN "absent" ELSE "value"],
          rest |-> "good", named |-> TRUE, sum |-> "right",
          naxis |-> <<3, 2>>, znaxis |-> <<0, 0>>, dim |-> 2, size |-> <<3, 2>>]

(* A compressed image in a table.                                          *)
Packed == [Plain EXCEPT !.card["ZNAXIS1"] = "value", !.card["ZNAXIS2"] = "value",
                        !.naxis = <<8, 2>>, !.znaxis = <<3, 2>>]

(* A primary HDU without data.                                             *)
Bare == [Plain EXCEPT !.card["NAXIS1"] = "absent", !.card["NAXIS2"] = "absent",
                      !.card["DATE-OBS"] = "absent", !.dim = 0, !.sum = "none"]

(* One card, or one of the other parts, is not as it should be. An image   *)
(* has its NAXISn (the library sees to it), so those are not touched.      *)
Spoilt(h) ==
    LET Cards(g) == {[g EXCEPT !.card[k] = c] : k \in Keyword \ {"NAXIS1", "NAXIS2", "ZNAXIS1", "ZNAXIS2"},
                                                c \in Card}
    IN  Cards(h) \cup {[h EXCEPT !.rest = "bad"], [h EXCEPT !.named = FALSE], [h EXCEPT !.sum = "wrong"],
                       [h EXCEPT !.sum = "none"], [h EXCEPT !.dim = 3]}

SpoiltAxes(h) == {[h EXCEPT !.card[k] = c] : k \in {"ZNAXIS1", "ZNAXIS2"}, c \in {"bad", "value"}}

Dates(h) == {[h EXCEPT !.card["DATE-OBS"] = c, !.sum = s] :
                c \in Card, s \in {"right", "wrong", "none"}}

Singles == {<<h>> : h \in UNION {Spoilt(g) : g \in Spoilt(Plain)} \cup Spoilt(Packed)
                            \cup {Bare} \cup SpoiltAxes(Packed)}
Pairs == {<<a, b>> : a \in Dates(Plain) \cup {Bare}, b \in Spoilt(Plain) \cup Spoilt(Packed)}
Triples == LET Two(h) == {g \in Dates(h) : g.sum # "none"}
           IN  Two(Plain) \X Two(Packed) \X Two(Plain)

Files == {[opens |-> TRUE, hdus |-> s] : s \in Singles \cup Pairs \cup Triples}
            \cup {[opens |-> FALSE, hdus |-> <<Plain>>]}

Options == {[noverify |-> n, override |-> {}] : n \in BOOLEAN}
            \cup {[noverify |-> FALSE, override |-> o] :
                    o \in {{"DATE-OBS"}, {"TELESCOP"}, {"INSTRUME"}, Field}}
===========================================================================
