----------------------------- MODULE IccProfile -----------------------------
(***************************************************************************)
(* jpeg_icc_write_profile (libswap/swap_file.c:192): a colour profile is   *)
(* cut into markers of the JPEG file. A piece of the profile is the        *)
(* interval of its bytes, from the first to the last.                      *)
(***************************************************************************)
EXTENDS Integers, Sequences, Stepwise

ICC_OVERHEAD_LEN == 14
MAX_BYTES_IN_MARKER == 65533
MAX_DATA_BYTES_IN_MARKER == MAX_BYTES_IN_MARKER - ICC_OVERHEAD_LEN

(* Mutant: not rounded up.                                                 *)
NumMarkersDown(len) == len \div MAX_DATA_BYTES_IN_MARKER
NumMarkers(len) ==
    LET full == len \div MAX_DATA_BYTES_IN_MARKER
    IN  IF full * MAX_DATA_BYTES_IN_MARKER # len THEN full + 1 ELSE full

(* One marker more, for what remains of len bytes; the two numbers of a    *)
(* marker are bytes.                                                       *)
OneMarker(p, len) ==
    LET length == IF p.rem > MAX_DATA_BYTES_IN_MARKER THEN MAX_DATA_BYTES_IN_MARKER ELSE p.rem
    IN  [rem     |-> p.rem - length,
         cur     |-> p.cur + 1,
         markers |-> Append(p.markers,
                        [size |-> length + ICC_OVERHEAD_LEN, number |-> p.cur % 256,
                         of   |-> NumMarkers(len) % 256,
                         from |-> len - p.rem + 1, upto |-> len - p.rem + length])]

(* While bytes remain, which is not so after this many rounds.             *)
Turns(len) == [k \in 1 .. len \div MAX_DATA_BYTES_IN_MARKER + 1 |-> k]

jpeg_icc_write_profile(len) ==
    Loop(LAMBDA p, k : IF p.rem > 0 THEN OneMarker(p, len) ELSE p,
         [rem |-> len, cur |-> 1, markers |-> <<>>], Turns(len)).markers
=============================================================================
