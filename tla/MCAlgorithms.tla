---------------------------- MODULE MCAlgorithms ----------------------------
(* Inputs of Algorithms for TLC.                                           *)
EXTENDS Algorithms

ArraysOf(n, max) == [0 .. n - 1 -> 0 .. max]

(* A network that is right for all arrays of 0 and 1 is right for every    *)
(* array (the 0-1 principle); for 25 elements, those arrays are taken in   *)
(* which the places of the ones are an interval around the ring, or every  *)
(* k-th place of one. Quickselect also sees three and four values.         *)
Ring25 == {[i \in 0 .. 24 |-> IF (i - s) % 25 < l THEN 1 ELSE 0] :
              s \in 0 .. 24, l \in 0 .. 25}
Comb25 == {[i \in 0 .. 24 |-> IF (i * k + s) % 25 < l THEN 1 ELSE 0] :
              k \in {2, 3, 7, 11}, s \in 0 .. 24, l \in 10 .. 15}
MCArrays ==
    UNION {ArraysOf(n, 1) : n \in {3, 5, 7, 9, 8}} \cup UNION {ArraysOf(n, 3) : n \in 1 .. 4}
    \cup ArraysOf(6, 2) \cup Ring25 \cup Comb25

MCSizes == {<<4, 4>>, <<5, 3>>, <<1, 2>>}
Window == {-1, 0, 1, 2, 4}
MCWalks == {<<p, q, p>> : p, q \in Window \X Window}

(* Planes in which a value read twice, or one written too early, shows.    *)
MCPlanes ==
    {<<wh[1], wh[2], [o \in 0 .. wh[1] * wh[2] - 1 |-> (o * k) % 256]>> :
        wh \in {<<2, 2>>, <<4, 2>>, <<2, 4>>, <<4, 4>>, <<6, 4>>, <<6, 6>>,
               <<1, 1>>, <<3, 2>>, <<4, 3>>, <<3, 3>>, <<5, 3>>, <<5, 5>>,
               <<1, 8>>, <<3, 11>>}, k \in {7, 37, 255}}
    \cup {<<4, 2, p>> : p \in [0 .. 7 -> {0, 255}]}

(* 10 and 32 are blanks; a number of two bytes may begin with one.         *)
MCImages ==
    {[w |-> wh[1], h |-> wh[2], max |-> m, pixels |-> p] :
        wh \in {<<1, 1>>}, m \in {1, 255, 256, 4095}, p \in [1 .. 1 -> {0, 10, 32, 200}]}
    \cup {[w |-> 2, h |-> 1, max |-> m, pixels |-> p] :
            m \in {20, 255}, p \in [1 .. 2 -> {0, 10, 32, 200}]}
    \cup {[w |-> 1, h |-> 2, max |-> 4095, pixels |-> p] :
            p \in [1 .. 2 -> {0, 10, 2570, 2561, 4094, 8224}]}

(* Numbers at both ends of their ranges, and what is no number.            *)
Fields(max) == {decimal(k) : k \in {-1, 0, 1, max, max + 1}} \cup {byte(35)}
MCHeaders ==
    {byte(53), byte(50)} \X Fields(32767) \X {decimal(1), decimal(32768), byte(35)} \X Fields(65535)
    \cup {<<byte(53), decimal(w), decimal(2), decimal(255)>> : w \in {1, 2}}

MCLengths == {0, 1, 255, 256, 3144} \cup 65518 .. 65521 \cup 131037 .. 131039 \cup 196556 .. 196558

(* Around the reference, the overflow and the end of the round, with and   *)
(* without bits of the fraction that do not count.                         *)
MCObets ==
    {REFERENCE_OBET, REFERENCE_OBET + 1, TWENTY_EIGHT - 1, TWENTY_EIGHT, TWENTY_EIGHT + 1,
     REFERENCE_OBET + TWENTY_EIGHT - 1} \X {0, 1, 1023, 1024, 8388608, 16776192, 16777215}

MCTimes ==
    {0, 9, 58, 59, 60, 3599, 86399, 2678399 - 86400, January - 2}
        \X {0, 499, 500, 1500, 999499, 999500, 999999, 123456}

MCData == {<<>>} \cup {<<k>> : k \in 0 .. 255} \cup {<<k, 255 - k, k \div 2>> : k \in 0 .. 255}

(* A job of three layers and XML such that there is d more than room for   *)
(* the packets.                                                            *)
Job(w, h, precinct, res, packets, xml) ==
    [w |-> w, h |-> h, precinct |-> precinct, res |-> res, layers |-> 3,
     packets |-> packets, xml |-> xml]
AtTheEdge(w, h, precinct, res, packets, d) ==
    LET room == BufferLength(w, h) - HeadersLength(Job(w, h, precinct, res, packets, 0))
    IN  Job(w, h, precinct, res, packets, room - Total(packets) + d)
(* Small images of one grey level, of several precincts and resolutions,   *)
(* all packets of which are a byte, with XML such that the buffer ends at  *)
(* each byte from the end of the packets to the XML.                       *)
Small(w, h, precinct, res, xml) ==
    LET g == [w |-> w, h |-> h, precinct |-> precinct, res |-> res, layers |-> 3]
    IN  Job(w, h, precinct, res, Fill(1, NumPackets(g)), xml)
AtEveryCut(w, h, precinct, res) ==
    LET empty == Small(w, h, precinct, res, 0)
        least == HeadersLength(empty) + Len(empty.packets)
        room  == BufferLength(w, h) - least
    IN  {Small(w, h, precinct, res, room + d) : d \in -3 .. least - 85}
MCJobs ==
    AtEveryCut(5, 5, 1, 2) \cup AtEveryCut(7, 3, 0, 4) \cup
    {AtTheEdge(1, 1, WholeImage, 1, p, d) : p \in {<<1, 127, 128>>, <<40, 1, 300>>}, d \in -41 .. 4}
    \cup {AtTheEdge(5, 5, 1, 2, [k \in 1 .. 39 |-> IF k % 13 = 0 THEN 130 ELSE 7], d) :
            d \in {-500, -131, -130, -129, -8, -7, -6} \cup -2 .. 1}
    \cup {Job(1, 1, WholeImage, 1, <<1, 5, 9>>, xml) : xml \in {0, 1} \cup 1906 .. 1916 \cup {2500}}
    \cup {Job(130, 130, WholeImage, 1, p, 10) : p \in {<<16383, 129, 127>>, <<255, 16384, 1>>}}
    \cup {Job(5, 5, 1, 2, [k \in 1 .. 39 |-> len], xml) :
            len \in {1, 25}, xml \in {100, 1500, 1550, 1580}}

(* The sizes of precincts, resolutions and layers that fits2img has as     *)
(* defaults, and four times the layers.                                    *)
Sides == {1, 2, 127, 128, 129, 257, 1023, 1024, 1025, 2049, 3072, 4095, 4096}
MCGrids ==
    {[w |-> w, h |-> h, precinct |-> 7, res |-> 6, layers |-> n] : w, h \in Sides, n \in {4, 16}}
    \cup {[w |-> w, h |-> h, precinct |-> e, res |-> r, layers |-> 1] :
            w, h \in 1 .. 18, e \in {1, 2}, r \in {1, 2, 5}}
=============================================================================
