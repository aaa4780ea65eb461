----------------------------- MODULE Algorithms -----------------------------
(***************************************************************************)
(* The pure functions of the libraries, called once with inputs from small *)
(* sets: a behaviour makes one call and sees its answer. Each module below *)
(* holds the functions of one source file or of one part of it.            *)
(***************************************************************************)
EXTENDS Integers, Sequences, FiniteSets, SequencesExt,
        Median, Bicubic, Yuv420, Pgm, IccProfile, OnBoardTime, Dates, Crc, Jp2File

CONSTANTS
    Arrays,       \* arrays to take a median of: functions on 0 .. n-1
    Sizes,        \* widths and heights <<w, h>>
    Walks,        \* sequences of places <<i, j>> to sample an image at
    Planes,       \* planes of a colour component: <<w, h, function on offsets>>
    Images,       \* images for a PGM file: records of w, h, max and pixels
    Headers,      \* what may stand in the header of one: kind, width, height, maximum
    Lengths,      \* lengths of a colour profile, or of a file
    Obets,        \* times of the on-board clock: <<seconds, fraction>>, in
                  \* the one round of the counter from REFERENCE_OBET on
    Times,        \* times of January 1970: <<seconds, microseconds>>
    Data,         \* sequences of bytes
    Jobs,         \* images for a JP2 file: see Jp2File
    Grids         \* the same with neither XML nor packets

ASSUME ArraysAssumption ==
    \A a \in Arrays : LET n == Cardinality(DOMAIN a)
                      IN  n \in Nat \ {0} /\ a \in [0 .. n - 1 -> Int]

(* Images and samples are where a filter can tell places apart.            *)
ASSUME SizesAssumption == Sizes \subseteq (0 .. Half - 1) \X (0 .. Half - 1)
ASSUME WalksAssumption == Walks \subseteq Seq(Places)

(* What is rounded up stays in January.                                    *)
ASSUME TimesAssumption == Times \subseteq (0 .. January - 2) \X (0 .. MUL[1] * 10 - 1)

(* An image has a number for each pixel.                                   *)
ASSUME ImagesAssumption ==
    \A im \in Images : /\ im.w \in Nat /\ im.h \in Nat /\ im.max \in Nat
                       /\ im.pixels \in Seq(Nat) /\ Len(im.pixels) = im.w * im.h

(* In place of the numbers of a header may stand bytes that are no blanks  *)
(* and begin no number, as digits and signs do.                            *)
IsField(t) == \/ t[2] \in Int /\ t = decimal(t[2])
              \/ t[2] \in (33 .. 255) \ (43 .. 57) /\ t = byte(t[2])
ASSUME HeadersAssumption ==
    \A f \in Headers : /\ f[1][2] \in 33 .. 255 /\ f[1] = byte(f[1][2])
                        /\ IsField(f[2]) /\ IsField(f[3]) /\ IsField(f[4])

(* A plane has a byte for each pixel.                                      *)
ASSUME PlanesAssumption ==
    \A p \in Planes : p[1] \in Nat /\ p[2] \in Nat /\ p[3] \in [0 .. p[1] * p[2] - 1 -> 0 .. 255]

(* The markers of a profile are numbered by a byte.                        *)
ASSUME LengthsAssumption == Lengths \subseteq 0 .. 255 * MAX_DATA_BYTES_IN_MARKER
ASSUME ObetsAssumption ==
    Obets \subseteq (REFERENCE_OBET .. REFERENCE_OBET + TWENTY_EIGHT - 1) \X (0 .. TWENTY_FOUR - 1)

(* Bytes, less of them than TLC can count.                                 *)
ASSUME DataAssumption == \A d \in Data : d \in Seq(0 .. 255) /\ Len(d) <= 2147483647

(* A coder that fails goes back 999 bytes; no image has packets for which  *)
(* that is before the buffer (the rates are a byte for a pixel at most).   *)
ASSUME JobsAssumption ==
    \A j \in Jobs : /\ Len(j.packets) = NumPackets(j)
                     /\ Total(j.packets) + 1001 <= BufferLength(j.w, j.h)

VARIABLES
    op,          \* the function that was called, or None
    arg,         \* what with
    answer       \* what it returned

vars == <<op, arg, answer>>

None == "none"

Init == op = None /\ arg = <<>> /\ answer = <<>>

Call(o, x, result) == op = None /\ op' = o /\ arg' = x /\ answer' = result

---------------------------------------------------------------------------

TakeMedian == \E a \in Arrays : Call("median", a, SwapMedian(a))

Sample == \E wh \in Sizes, s \in Walks :
    Call("sample", <<wh, s>>, Sampled(wh[1], wh[2], s))

Fetch9 == \E wh \in Sizes, i \in -1 .. 5, j \in -1 .. 5 :
    Call("fetch9", <<wh, i, j>>, swap_fetch9(wh[1], wh[2], i, j))

Affine == \E wh \in Sizes, owh \in Sizes :
    Call("affine", <<wh, owh>>, AffineCopied(wh[1], wh[2], owh[1], owh[2]))

(* A grey level stands for itself in y, and for two others in u and v.     *)
Subsample == \E p \in Planes :
    LET lut == [k \in 0 .. 255 |-> [y |-> k, u |-> 255 - k, v |-> (k * 7) % 256]]
        im  == swap_mono2yuv(lut, p[3])
    IN  Call("yuv", <<p, im>>, Frame(swap_yuv2yuv420(im, p[1], p[2]), p[1], p[2]))

WriteRead == \E im \in Images :
    Call("pgm", im, swap_read_pgm(swap_write_pgm(im.pixels, im.w, im.h, im.max)))

(* A file that somebody else wrote, up to its second byte of data or less. *)
ReadForeign == \E f \in Headers, n \in 0 .. 11 :
    LET file == HeaderOf(f[1], f[2], f[3], f[4]) \o <<byte(1), byte(2)>>
    IN  Call("foreign", <<f, n>>, ReadHeader(SubSeq(file, 1, n)).fatal)

WriteProfile == \E len \in Lengths : Call("icc", len, jpeg_icc_write_profile(len))

(* The clock shows 28 bits of the seconds; passes are numbered on, and the *)
(* one at the reference is not later than it.                              *)
Shown(t) == t % TWENTY_EIGHT
PassAt(t) == IF t >= TWENTY_EIGHT THEN {REFERENCE_PASS + 1} ELSE {REFERENCE_PASS, REFERENCE_PASS + 1}

ReadClock == \E t \in Obets : \E p \in PassAt(t[1]), upper \in BOOLEAN :
    LET digits == DigitsOf(CucOf(Shown(t[1]), t[2]))
        text   == [k \in DOMAIN digits |-> [digit |-> digits[k], upper |-> upper]]
    IN  Call("obet", t, p2sc_cuc2ticks(p2sc_ascii2cuc(text), p))

(* Digits of which one is lost, or is none.                                *)
ReadBadClock == \E k \in 1 .. 2 * SIZEOF_CUC, lost \in BOOLEAN :
    LET text == [i \in 1 .. 2 * SIZEOF_CUC |->
                    IF i = k THEN OtherChar ELSE [digit |-> i, upper |-> FALSE]]
    IN  Call("badobet", <<k, lost>>, p2sc_ascii2cuc(IF lost THEN RemoveAt(text, k) ELSE text))

ReadGroundClock == \E t \in Obets : \E p \in PassAt(t[1]) :
    Call("gp1", t, p2sc_gp1obt2ticks(Shown(t[1]), t[2] \div 1024, p))

Stamp == \E t \in Times : Call("stamp", t, p2sc_string2date(p2sc_timestamp(t[1], t[2])))

(* The date of a product in its basic spelling.                            *)
NameProduct == \E t \in Times :
    LET s == Basic(Dated(gmtime(t[1]), t[2]), SixOf(t[2]))
    IN  Call("name", t, <<p2sc_string2date(s), p2sc_name_swap_lv0(s)>>)

Checksum16 == \E d \in Data : Call("crc16", d, p2sc_crc16(65535, d))
Checksum32 == \E d \in Data : Call("crc32", d, p2sc_name_swap_tmr(d))

(* The sum so far of a file of any length.                                 *)
Finalise == \E d \in Data, len \in Lengths :
    LET crc == p2sc_crc32(<<0, 0>>, d)
    IN  Call("cksum", <<crc, len>>, p2sc_crc32_finalise(crc, len))

WriteJp2 == \E j \in Jobs :
    LET f == swap_write_j2k(j) IN Call("jp2", j, [file |-> f, read |-> jp2_read_struct(f)])

CountPackets == \E g \in Grids :
    Call("plt", g, [counted |-> PltNum(g), packets |-> NumPackets(g),
                    field |-> Bytes(3 * PltNum(g) + 3, 2)])

Answered == op # None /\ UNCHANGED vars

Next ==
    \/ TakeMedian \/ Sample \/ Fetch9 \/ Affine
    \/ Subsample \/ WriteRead \/ ReadForeign \/ WriteProfile
    \/ ReadClock \/ ReadBadClock \/ ReadGroundClock \/ Stamp \/ NameProduct
    \/ Checksum16 \/ Checksum32 \/ Finalise
    \/ WriteJp2 \/ CountPackets
    \/ Answered

Spec == Init /\ [][Next]_vars

---------------------------------------------------------------------------
(* Properties.                                                             *)

(* "The result array is guaranteed to contain the median value in middle   *)
(* position" (swap_math.c:235): every network and Quickselect return the   *)
(* lower median, and no scan of Quickselect leaves the array, although     *)
(* nothing but the values stops it.                                        *)
MedianIsMiddle == op = "median" => IsLowerMedian(answer, arg)

(* "avoid neighborhood re-fetch" (swap_math.c:155): the pixels kept from   *)
(* sample to sample are those around the place sampled, however the walk   *)
(* goes and whether rows were copied or pixels looked at one by one, and   *)
(* copying an image as it is gives what sampling it gives. Samples at      *)
(* (-1, 0) before any other are left out: the key of a new filter is the   *)
(* key of that place, and its pixels were never fetched (swap_math.c:104). *)
SamplesCoherent ==
    /\ op = "sample" =>
        \A k \in DOMAIN arg[2] : (\E m \in 1 .. k : arg[2][m] # <<-1, 0>>) =>
            answer[k + 1].n = Around(arg[1][1], arg[1][2], arg[2][k][1], arg[2][k][2], 4, 1)
    /\ op = "fetch9" => answer = Around(arg[1][1], arg[1][2], arg[2], arg[3], 3, 1)
    /\ op = "affine" => answer = AffineSampled(arg[1][1], arg[1][2], arg[2][1], arg[2][2])

(* The planes are averaged in place (swap_color.c:146), yet no mean is made *)
(* of another mean: what is written of u and v are the means of blocks of  *)
(* the planes as they were, for odd sizes too, where some blocks reach     *)
(* beyond the plane. For even sizes none does and each block is written:   *)
(* the "C420" of the header (swap_file.c:447) is kept. For a narrow, high  *)
(* plane of odd width the last places written are pixels as they were.     *)
SubsampledInPlace ==
    op = "yuv" =>
        LET w == arg[1][1]  h == arg[1][2]  im == arg[2]
        IN  /\ answer = [y |-> im.y, u |-> BlockMeans(im.u, w, h), v |-> BlockMeans(im.v, w, h)]
            /\ w % 2 = 0 /\ h % 2 = 0 =>
                  /\ Cardinality(DOMAIN answer.u) = Cardinality(Blocks(w, h))
                  /\ \A o \in DOMAIN answer.u : Foreign \notin {answer.u[o], answer.v[o]}

IsImageHeader(header) ==
    LET Number(t, max) == t = decimal(t[2]) /\ t[2] \in 1 .. max
    IN  /\ header[1] = byte(53)
        /\ Number(header[2], 32767) /\ Number(header[3], 32767) /\ Number(header[4], 65535)

(* The first e bytes of the data d are blanks, and no more.                *)
BlanksLead(d, e) ==
    /\ \A i \in 1 .. e : d[i] \in Blanks
    /\ e < Len(d) => d[e + 1] \notin Blanks

(* The i-th pixel of the data d, as far as there are data.                 *)
PixelOf(d, i, max) ==
    LET at(k) == IF k <= Len(d) THEN d[k][2] ELSE Unwritten
    IN  IF max < 256 THEN at(i) ELSE Pixel(at(2 * i), at(2 * i - 1))

(* What is read of an image that was written, with e bytes lost.           *)
AsWritten(im, e, read) ==
    LET d == Buffer(im.pixels, im.max)
    IN  /\ read.fatal <=> e = Len(d) \/ ~IsImageHeader(<<byte(53), decimal(im.w), decimal(im.h),
                                                         decimal(im.max)>>)
        /\ ~read.fatal =>
              /\ read.w = im.w /\ read.h = im.h /\ (read.warned <=> e > 0)
              /\ read.pixels = [i \in DOMAIN im.pixels |->
                    IF e = 0 THEN Clipped(im.pixels[i], im.max)
                    ELSE PixelOf(SubSeq(d, e + 1, Len(d)), i, im.max)]

(* The blanks skipped after the header may be pixels (swap_file.c:402). An *)
(* image that was written is read as it was, clipped, exactly when its     *)
(* data begin with no blank. Otherwise the reader warns, and returns the   *)
(* rest of the data from the first pixel on with as many bytes at the end  *)
(* that it never wrote; of blanks alone it returns nothing. A file is      *)
(* refused exactly when its header is not one of an image or nothing comes *)
(* after it.                                                               *)
PgmShiftTold ==
    /\ op = "pgm" => \E e \in 0 .. Len(Buffer(arg.pixels, arg.max)) :
                        /\ BlanksLead(Buffer(arg.pixels, arg.max), e)
                        /\ AsWritten(arg, e, answer)
    /\ op = "foreign" => (answer <=> ~IsImageHeader(arg[1]) \/ arg[2] < 10)

(* A profile "can be larger than the maximum size" (swap_file.c:163):      *)
(* markers hold it without gap, none of them is too long, and their        *)
(* numbers tell their order and how many there are.                        *)
ProfileWhole ==
    op = "icc" =>
        /\ \A k \in DOMAIN answer :
              /\ answer[k].size <= MAX_BYTES_IN_MARKER
              /\ answer[k].number = k /\ answer[k].of = Len(answer)
              /\ answer[k].from = (IF k = 1 THEN 1 ELSE answer[k - 1].upto + 1)
              /\ answer[k].from <= answer[k].upto
        /\ IF arg = 0 THEN answer = <<>> ELSE answer[Len(answer)].upto = arg

(* Through the overflow of the counter ("the rollover date",               *)
(* p2sc_time.c:24) ticks go on, for as long as the counter does not        *)
(* overflow again; bits that do not count, and only those, are told of     *)
(* where the seven bytes are read.                                         *)
TicksContinue ==
    /\ op = "obet" =>
        /\ answer.ticks = <<arg[1], arg[2] \div 1024>>
        /\ answer.warned = IF arg[2] % 1024 = 0 THEN <<>>
                           ELSE <<DigitsOf(CucOf(Shown(arg[1]), arg[2]))>>
    /\ op = "gp1" => answer = <<arg[1], arg[2] \div 1024>>
    /\ op = "badobet" => answer = <<>>

(* A time stamp is the instant rounded to milliseconds, also where the     *)
(* rounding carries into the second, the minute or the day, and no field of *)
(* it leaves its range; a date in its basic spelling is the same date, and *)
(* its product is filed under its day and named by its second.             *)
DatesAgree ==
    /\ op = "stamp" =>
        LET ms == (arg[2] + 500) \div 1000
        IN  answer = Dated(gmtime(arg[1] + ms \div 1000), 1000 * (ms % 1000))
    /\ op = "name" =>
        LET tm == gmtime(arg[1])
        IN  answer = <<Dated(tm, arg[2]), << <<tm[1], tm[2], tm[3]>>, tm>> >>

(* "needed for results identical to cksum" (p2sc_hash.h:34): the tables    *)
(* give the remainders of the polynomials, for cksum with the length       *)
(* appended and the bits inverted.                                         *)
CrcIsRemainder ==
    LET Sum(crc, data, len) ==
            LET r == Register32(crc, data \o FewestBytes(len)) IN <<65535 - r[1], 65535 - r[2]>>
    IN  /\ op = "crc16" => answer = Register16(65535, arg)
        /\ op = "crc32" => answer = Sum(<<0, 0>>, arg, Len(arg))
        /\ op = "cksum" => answer = Sum(arg[1], <<>>, arg[2])

(* Boxes go into a buffer of a size that is set before the XML is known    *)
(* (cio.c:61), by functions whose failures are not looked at: the file is  *)
(* whole, and the reader finds its code stream, exactly when there is room *)
(* for the headers, the XML and the packets that the rate allocation has   *)
(* settled on, and it never has bytes that were not written.               *)
JpWhole ==
    op = "jp2" =>
        LET f == answer.file
            boxes == BoxesOf(f)
            fits == HeadersLength(arg) + Total(arg.packets) <= BufferLength(arg.w, arg.h)
        IN  /\ \A k \in DOMAIN f : f[k] \in 0 .. 255
            /\ fits <=> IsWhole(f, arg)
            /\ fits => answer.read = [found |-> "code", from |-> boxes[5].from,
                                     length |-> Len(f) - boxes[5].from]

(* "INDEX >> - PLT" (libopenjpeg j2k.c:3803): packet lengths are put where *)
(* room was left before any of them was known, by a count that is too low  *)
(* where a size is not divided without rest. They never reach the packets, *)
(* the marker is as long as it says, and it says how the bytes of the tile *)
(* are cut into packets.                                                   *)
PacketLengths ==
    /\ op = "jp2" /\ IsWhole(answer.file, arg) =>
        LET plt  == PltOf(answer.file)
            zero == Fill(0, Len(plt.lengths) - Len(arg.packets))
        IN  /\ plt.lengths = arg.packets \o zero
            /\ plt.bytes = Total(arg.packets)
    /\ op = "plt" =>
        /\ 2 * answer.packets <= 3 * answer.counted
        /\ 256 * answer.field[1] + answer.field[2] = 3 * answer.counted + 3
=============================================================================
