------------------------------- MODULE Jp2File -------------------------------
(***************************************************************************)
(* The file that swap_write_j2k (libswap/swap_file_j2k.c:99) writes: the   *)
(* boxes and markers that OpenJPEG lays into one buffer of a fixed size,   *)
(* with the boxes and the marker of packet lengths that this program adds, *)
(* and what OpenJPEG's reader finds in it. Bytes are numbers; what headers *)
(* and packets say is not modelled, only where they are. An output stream  *)
(* (opj_cio_t) is its buffer and the place of the next byte.               *)
(***************************************************************************)
EXTENDS Integers, Sequences, Stepwise

Unset == 256     \* a byte of the buffer that was never written
PastEnd == 257   \* a byte after the end of the buffer
Code == 119      \* a byte of a packet
Text == 60       \* a byte of the XML

Fill(b, n) == [k \in 1 .. n |-> b]

(* A number in so many bytes, most significant first.                      *)
Bytes(v, n) == [k \in 1 .. n |-> (v \div 256 ^ (n - k)) % 256]

---------------------------------------------------------------------------
(* The output stream.                                                      *)

(* 0.1625 bytes for each of the 8 bits of a pixel, and 2000 more.          *)
BufferLength(w, h) == 2000 + (13 * w * h) \div 10

opj_cio_open(w, h) == [bp |-> 0, buf |-> Fill(Unset, BufferLength(w, h))]

(* As many of the bytes as there is room for: a byte is refused at the end *)
(* of the buffer, and the caller is not told.                              *)
Put(cio, bytes) ==
    LET room == Len(cio.buf) - cio.bp
        n    == IF room < Len(bytes) THEN room ELSE Len(bytes)
    IN  IF n <= 0 THEN cio
        ELSE [bp  |-> cio.bp + n,
              buf |-> SubSeq(cio.buf, 1, cio.bp) \o SubSeq(bytes, 1, n)
                      \o SubSeq(cio.buf, cio.bp + n + 1, Len(cio.buf))]
cio_write(cio, v, n) == Put(cio, Bytes(v, n))
cio_seek(cio, at) == [cio EXCEPT !.bp = at]      \* neither looks at the ends
cio_skip(cio, n) == [cio EXCEPT !.bp = @ + n]

(* A length goes where room was left for it, and writing goes on after     *)
(* what it counts.                                                         *)
Patched(cio, at, size, len) == cio_seek(cio_write(cio_seek(cio, at), len, size), at + len)

---------------------------------------------------------------------------
(* The boxes around the code stream.                                       *)

JP2_JP   == <<106, 80, 32, 32>>
JP2_FTYP == <<102, 116, 121, 112>>
JP2_JP2H == <<106, 112, 50, 104>>
JP2_IHDR == <<105, 104, 100, 114>>
JP2_COLR == <<99, 111, 108, 114>>
JP2_XML  == <<120, 109, 108, 32>>
JP2_JP2C == <<106, 112, 50, 99>>
JP2_JP2  == <<106, 112, 50, 32>>
Signature == <<13, 10, 135, 10>>

(* What every box does, whatever its Content writes.                       *)
Box(cio, type, Content(_)) ==
    LET whole == Content(Put(cio_skip(cio, 4), type))
    IN  Patched(whole, cio.bp, 4, whole.bp - cio.bp)

jp2_write_jp(cio) == Box(cio, JP2_JP, LAMBDA c : Put(c, Signature))
jp2_write_ftyp(cio) == Box(cio, JP2_FTYP, LAMBDA c : Put(c, JP2_JP2 \o Bytes(0, 4) \o JP2_JP2))
jp2_write_ihdr(cio, w, h) ==
    Box(cio, JP2_IHDR, LAMBDA c : Put(c, Bytes(h, 4) \o Bytes(w, 4) \o <<0, 1, 7, 7, 0, 0>>))
jp2_write_colr_orig(cio) == Box(cio, JP2_COLR, LAMBDA c : Put(c, <<1, 0, 0, 0, 0, 0, 17>>))
jp2_write_jp2h(cio, w, h) ==
    Box(cio, JP2_JP2H, LAMBDA c : jp2_write_colr_orig(jp2_write_ihdr(c, w, h)))

(* Mutant: the length leaves out the header of the box.                    *)
jp2_write_xml_bare(cio, len) ==
    LET whole == Put(Put(cio_skip(cio, 4), JP2_XML), Fill(Text, len))
    IN  cio_seek(cio_write(cio_seek(cio, cio.bp), len, 4), whole.bp)
jp2_write_xml(cio, len) == Box(cio, JP2_XML, LAMBDA c : Put(c, Fill(Text, len)))

---------------------------------------------------------------------------
(* Precincts. A job gives the size of the image, w and h, the exponent of  *)
(* the size of precincts (WholeImage for one precinct), the numbers of     *)
(* resolutions and layers, the length of the XML and the lengths of the    *)
(* packets that the rate allocation settles on.                            *)

WholeImage == 15

CeilDiv(a, b) == (a + b - 1) \div b
Total(lengths) == Loop(LAMBDA a, b : a + b, 0, lengths)

(* The precincts at each resolution as the coder makes them (tcd.c:275),   *)
(* and as the marker counts them, from a size that is rounded down.        *)
NumPackets(j) ==
    j.layers * Total([r \in 1 .. j.res |->
        LET P(x) == CeilDiv(CeilDiv(x, 2 ^ (r - 1)), 2 ^ j.precinct) IN P(j.w) * P(j.h)])
PltNum(j) ==
    j.layers * Total([r \in 1 .. j.res |->
        LET P(x) == CeilDiv(x \div 2 ^ (r - 1), 2 ^ j.precinct)
            One(n) == IF n < 1 THEN 1 ELSE n
        IN  One(P(j.w)) * One(P(j.h))])

(* The length of a packet in groups of seven bits, all but the last marked; *)
(* three groups at most.                                                   *)
EntryUnmarked(len) ==
    LET b0 == len % 128  b1 == (len \div 128) % 128  b2 == (len \div 16384) % 128
    IN  IF b2 > 0 THEN <<b2, b1, b0>> ELSE IF b1 > 0 THEN <<b1, b0>> ELSE <<b0>>
Entry(len) ==
    LET b0 == len % 128  b1 == (len \div 128) % 128  b2 == (len \div 16384) % 128
    IN  IF b2 > 0 THEN <<b2 + 128, b1 + 128, b0>>
        ELSE IF b1 > 0 THEN <<b1 + 128, b0>> ELSE <<b0>>

---------------------------------------------------------------------------
(* The code stream.                                                        *)

SOC == <<255, 79>>
SIZ == <<255, 81>>
COD == <<255, 82>>
QCD == <<255, 92>>
COM == <<255, 100>>
SOT == <<255, 144>>
PLT == <<255, 88>>
SOD == <<255, 147>>
EOC == <<255, 217>>

CommentLength == 21          \* "SIDC OpenJPEG v" and the version, 1.99.0

Segment(cio, marker, Content(_)) ==
    LET from  == Put(cio, marker)
        whole == Content(cio_skip(from, 2))
    IN  Patched(whole, from.bp, 2, whole.bp - from.bp)

Zeros(cio, marker, n) == Segment(cio, marker, LAMBDA c : Put(c, Fill(0, n)))

j2k_write_soc(cio) == Put(cio, SOC)
j2k_write_siz(cio) == Zeros(cio, SIZ, 39)
j2k_write_cod(cio, j) == Zeros(cio, COD, 10 + IF j.precinct = WholeImage THEN 0 ELSE j.res)
j2k_write_qcd(cio, j) == Zeros(cio, QCD, 1 + 2 * (3 * j.res - 2))
j2k_write_com(cio) == Zeros(cio, COM, 2 + CommentLength)

j2k_write_main(cio, j) ==
    j2k_write_com(j2k_write_qcd(j2k_write_cod(j2k_write_siz(j2k_write_soc(cio)), j), j))

(* Its fifth to eighth byte are left for the length of the tile.           *)
j2k_write_sot(cio) ==
    Segment(cio, SOT, LAMBDA c : Put(cio_skip(Put(c, Bytes(0, 2)), 4), <<0, 1>>))

(* Which passes are coded tcd_rateallocate settles before, by their slopes, *)
(* the rates of the layers and the room, but the steepest are coded in any *)
(* case. When the packets are too long for the room, writing them fails,   *)
(* with -999 for a length, at the first for which there is none.           *)
Failed == -999
tcd_encode_tile(packets, room) ==
    IF Total(packets) <= room THEN [l |-> Total(packets), packets |-> packets]
    ELSE LET Fit(n) == Total(SubSeq(packets, 1, n)) <= room
             last   == CHOOSE n \in 0 .. Len(packets) - 1 : ~Fit(n + 1) /\ \A m \in 1 .. n : Fit(m)
         IN  [l |-> Failed, packets |-> SubSeq(packets, 1, last)]

(* The room for packets: two bytes are for the marker after them.          *)
TileRoom(cio) == Len(cio.buf) - cio.bp - 2

(* Room for three bytes for each packet is made before the tile, which is  *)
(* then coded at the place of the stream without moving it; the lengths    *)
(* are filled in after that. The length of the tile, which is wrong when   *)
(* the coder failed, tells where the stream goes on.                       *)
j2k_write_sod(cio, sot, j) ==
    LET plt     == cio_write(cio_write(Put(cio, PLT), 3 * PltNum(j) + 3, 2), 0, 1)
        sod     == Put(Put(plt, Fill(0, 3 * PltNum(j))), SOD)
        tile    == tcd_encode_tile(j.packets, TileRoom(sod))
        coded   == Put(sod, Fill(Code, Total(tile.packets)))
        entries == Loop(LAMBDA s, len : s \o Entry(len), <<>>, tile.packets)
        filled  == Put(cio_seek(coded, plt.bp), entries)
        totlen  == sod.bp + tile.l - sot
    IN  cio_seek(cio_write(cio_seek(filled, sot + 6), totlen, 4), sot + totlen)

j2k_encode(cio, j) ==
    LET main == j2k_write_main(cio, j)
    IN  Put(j2k_write_sod(j2k_write_sot(main), main.bp, j), EOC)

jp2_write_jp2c(cio, j) ==
    LET from == Put(cio_skip(cio, 4), JP2_JP2C)
        upto == j2k_encode(from, j)
    IN  Patched(upto, cio.bp, 4, 8 + (upto.bp - from.bp))

opj_jp2_encode(j) ==
    LET headers == jp2_write_jp2h(jp2_write_ftyp(jp2_write_jp(opj_cio_open(j.w, j.h))), j.w, j.h)
    IN  jp2_write_jp2c(jp2_write_xml(headers, j.xml), j)

(* The buffer up to the place of the stream, wherever that is.             *)
swap_write_j2k(j) ==
    LET cio == opj_jp2_encode(j)
    IN  IF cio.bp <= Len(cio.buf) THEN SubSeq(cio.buf, 1, cio.bp)
        ELSE cio.buf \o Fill(PastEnd, cio.bp - Len(cio.buf))

---------------------------------------------------------------------------
(* The reader: jp2_read_struct. At the end of the file bytes are 0 and the *)
(* place stays. Box lengths of 1 stand for long boxes, which are not       *)
(* written.                                                                *)

ByteAt(f, p) == IF p \in 0 .. Len(f) - 1 THEN f[p + 1] ELSE 0
Word(f, p, n) == [k \in 1 .. n |-> ByteAt(f, p + k - 1)]
(* Two bytes, and four as an int.                                          *)
Short(f, p) == 256 * ByteAt(f, p) + ByteAt(f, p + 1)
Signed(f, p) ==
    LET top == ByteAt(f, p)
    IN  16777216 * (IF top > 127 THEN top - 256 ELSE top) + 65536 * ByteAt(f, p + 1)
        + Short(f, p + 2)

(* Where the stream is after reading n bytes.                              *)
Read(f, p, n) == IF p >= Len(f) THEN p ELSE IF p + n > Len(f) THEN Len(f) ELSE p + n

jp2_read_boxhdr(f, p) ==
    LET bp == Read(f, p, 8)
        n  == Signed(f, p)
    IN  [from |-> p, type |-> Word(f, p + 4, 4), bp |-> bp,
         length |-> IF n = 0 THEN Len(f) - bp + 8 ELSE n]

Refused == [found |-> "refused"]
Never == [found |-> "never"]

(* Boxes are skipped until one of the types comes. A walk longer than      *)
(* MaxBoxes does not end: at the end of the file an empty header is read   *)
(* again and again (for a header box, a walk that gets there is refused).  *)
MaxBoxes == 12
Walk(f, p, types) ==
    Loop(LAMBDA box, k : IF box.type \in types THEN box
                         ELSE jp2_read_boxhdr(f, box.bp + box.length - 8),
         jp2_read_boxhdr(f, p), Fill(0, MaxBoxes))

(* Of the header box only its first box is required here; the rest is      *)
(* jumped over.                                                            *)
jp2_read_struct(f) ==
    LET jp   == jp2_read_boxhdr(f, 0)
        ftyp == jp2_read_boxhdr(f, Read(f, jp.bp, 4))
        brand == Read(f, ftyp.bp, 8 + 4 * ((ftyp.length - 16) \div 4))
        jp2h == Walk(f, brand, {JP2_JP2H, JP2_JP2C})
        ihdr == jp2_read_boxhdr(f, jp2h.bp)
        jp2c == Walk(f, jp2h.from + jp2h.length, {JP2_JP2C})
    IN  IF \/ jp.type # JP2_JP \/ Word(f, jp.bp, 4) # Signature \/ jp.length # 12
           \/ ftyp.type # JP2_FTYP \/ brand # ftyp.from + ftyp.length
           \/ jp2h.type # JP2_JP2H \/ ihdr.type # JP2_IHDR \/ ihdr.length # 22
        THEN Refused
        ELSE IF jp2c.type # JP2_JP2C THEN Never
        ELSE [found |-> "code", from |-> jp2c.bp, length |-> jp2c.length - 8]
---------------------------------------------------------------------------
(* The reference: what a file is by the standard, from its bytes alone.    *)

BoxesOf(f) ==
    LET from[p \in Nat] ==
            LET n == Signed(f, p)
            IN  IF p + 8 > Len(f) \/ n < 8 THEN <<>>
                ELSE <<[type |-> Word(f, p + 4, 4), from |-> p + 8, upto |-> p + n]>>
                     \o from[p + n]
    IN  from[0]

(* The markers of a code stream up to SOD, by their lengths.               *)
MarkersOf(f, start) ==
    LET from[p \in Nat] ==
            LET m == [marker |-> Word(f, p, 2), at |-> p]
            IN  IF p >= Len(f) \/ m.marker = SOD THEN <<m>>
                ELSE <<m>> \o from[p + 2 + Short(f, p + 2)]
    IN  from[start]

(* Numbers in groups of seven bits, all but the last of a number marked.   *)
Numbers(bytes) ==
    Loop(LAMBDA s, b : IF b >= 128 THEN [s EXCEPT !.part = 128 * @ + b - 128]
                       ELSE [done |-> Append(s.done, 128 * s.part + b), part |-> 0],
         [done |-> <<>>, part |-> 0], bytes).done

(* All that is written for a job but the packets.                          *)
HeadersLength(j) ==
    LET styles == IF j.precinct = WholeImage THEN 0 ELSE j.res
        boxes  == 12 + 20 + (8 + 22 + 15) + (8 + j.xml) + 8
        main   == 2 + (4 + 39) + (4 + 10 + styles) + (4 + 6 * j.res - 3) + (6 + CommentLength)
    IN  boxes + main + 12 + (5 + 3 * PltNum(j)) + 2 + 2

(* The boxes follow each other to the end of the file, the XML is all      *)
(* there, and so are the markers and a tile as long as it says, with the   *)
(* end of the code stream after it.                                        *)
IsWhole(f, j) ==
    LET boxes == BoxesOf(f)
        ms    == MarkersOf(f, boxes[5].from + 2)
    IN  /\ [k \in DOMAIN boxes |-> boxes[k].type]
              = <<JP2_JP, JP2_FTYP, JP2_JP2H, JP2_XML, JP2_JP2C>>
        /\ SubSeq(f, boxes[4].from + 1, boxes[4].upto) = Fill(Text, j.xml)
        /\ boxes[5].upto = Len(f)
        /\ Word(f, boxes[5].from, 2) = SOC
        /\ [k \in DOMAIN ms |-> ms[k].marker] = <<SIZ, COD, QCD, COM, SOT, PLT, SOD>>
        /\ ms[5].at + Signed(f, ms[5].at + 6) = Len(f) - 2
        /\ \A k \in ms[7].at + 3 .. Len(f) - 2 : f[k] = Code
        /\ Word(f, Len(f) - 2, 2) = EOC
        /\ \A k \in DOMAIN f : f[k] \in 0 .. 255

(* The numbers in the marker of packet lengths, and the bytes of packets.  *)
PltOf(f) ==
    LET ms == MarkersOf(f, BoxesOf(f)[5].from + 2)
    IN  [lengths |-> Numbers(SubSeq(f, ms[6].at + 6, ms[7].at)),
         bytes   |-> Len(f) - 2 - (ms[7].at + 2)]
=============================================================================
