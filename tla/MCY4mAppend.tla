---------------------------- MODULE MCY4mAppend ----------------------------
(* Small instances of Y4mAppend.                                           *)
EXTENDS Y4mAppend

CONSTANTS p1, p2, p3, old

(* A stream that holds one frame already.                                  *)
OldStream == <<Cell(old, "HEAD")>> \o Frame(old)

(* A new file, and one that exists.                                        *)
Both == {NoFile, OldStream}
New == {NoFile}

===========================================================================
