# fits2img in TLA+

A verification project for [fits2img](../src/README.md), the program that turns
FITS images of the Sun into the JPEG 2000 files of Helioviewer (and into JPEG,
PNG, PGM and YUV4MPEG2), and for the part of the PROBA-2 libraries (libp2sc,
libswap) it is built from. The modules are translations of the C code; the
configurations check them with TLC on small instances; the `*Proofs` modules
prove the central properties with TLAPS for all values of the constants.

How to run a check, in this directory:

    tlc -config FitsCommitFaults.cfg MCFitsCommit
    tlapm FitsCommitProofs.tla

`PROJECT.json` lists the runs with what each shows, the lines of the source
behind every definition, the hazards, the mutants and the theorems.

## 1. The system

fits2img is a sequential program; what runs concurrently are *processes* of it
(a pipeline converts many files at once, into one directory or one movie file).
They share nothing but the file system. Its components:

| component | state it keeps | operations | talks to |
|---|---|---|---|
| fits2img (`fits2img.c`) | options, one image | main: read, process, name, write, print | all below |
| FITS reading (`fitsproc.c`, `p2sc_fits.c`) | a cfitsio handle with its *current HDU* and its *status* | open and verify, find the HDU, read keywords, header, pixels, close | cfitsio, header to XML |
| FITS product commit (`p2sc_fits.c`, `p2sc_file.c`) | a product in memory, its name | `sfts_free`: create exclusively, compare, replace or take the next number | the directory shared with other processes |
| header to XML (`swap_meta.c`, `p2sc_xml.c`) | three arrays of keys, values and comments; a genx writer | collect the cards, write the elements, add HV_COMMENT | cfitsio, genx, the growable buffer |
| growable buffer (`p2sc_buffer.c`) | memory, size, length, one position | new, write, read, rewind, delete | genx (as its sink) |
| image writers (`swap_file.c`, `swap_file_j2k.c`) | a stream with a buffer | PNG, JPEG, PGM, JP2 | libpng, libjpeg, OpenJPEG, GLib, stdio |
| Y4M appender (`swap_file.c`) | a movie file shared with other processes | `swap_y4m` | stdio |
| PGM reader, colour profiles (`swap_file.c`) | none | read and write an image, cut a profile into markers | libjpeg |
| image processing (`swap_math.c`, `swap_qlook.c`, `swap_warp.c`, ...) | the neighbourhood kept by the bicubic filter; otherwise none | median, bicubic sampling, filters, scaling, rotation | |
| colour (`swap_color.c`) | tables | grey to RGB or YUV, 4:2:0 subsampling | Y4M appender |
| names and dates (`p2sc_name.c`, `p2sc_time.c`) | none | on-board time, dates, product names | |
| hashes, mathematics (`p2sc_hash.c`, `p2sc_math.c`) | none | CRC-16, CRC-32, rotations, statistics | |
| runtime, messages (`p2sc_stdlib.c`, `p2sc_msg.c`, `send2LMAT.c`) | program name, handlers | signals, spawn, messages; a fatal message ends the process | all |
| JP2 reader and jp2img (`swap_file_j2k.c`, `jp2img.c`) | one image | decode, sharpen, write | OpenJPEG, image writers |
| JP2 boxes and PLT (`opj_extra.c`, patched OpenJPEG) | encoder's packet index | XML, palette and mapping boxes; packet lengths | image writers |

The vendored cfitsio, genx, libjpeg and OpenJPEG are not modelled for their own
sake; where a property depends on one of their routines (the card a search by
name finds, what genx has sent when it refuses a text, what a status that is
set does to later calls), the routine is modelled from how the code uses it.

### What is hard

* **Several processes, one directory.** A name is taken by `O_CREAT|O_EXCL`
  before there is content under it; a comparison reads, closes and decides, and
  the overwriting opens the name again; a failing process unlinks a *name*.
* **Several processes, one movie.** `access` and `fopen` are two calls; a frame
  is several `write`s.
* **Failures reported late or not at all.** cfitsio's status is looked at after
  several calls; a GIOChannel's or a FILE's last buffer is written by the close,
  whose result is ignored; `write` may take less than it was given.
* **Room that is measured beforehand.** OpenJPEG's buffer has a size set before
  the XML is known, and the marker of packet lengths a room set before there are
  packets; nobody is told of what did not fit.
* **Hidden cursors.** The current HDU moves under verification and search; a
  card is read again by a search that starts *behind* the card and wraps.
* **Kills** leave whatever was written, under the final name.
* **Boundaries.** Sizes at the limits of a buffer, a marker, a counter that
  overflows, blanks that may be pixels, a fraction that rounds up to one.

### What makes each part correct

* commit: a name belongs to one product; what a caller is told is on disk;
  equal data of one HDU is filed once; every commit ends.
* Y4M: one header, whole frames in order, nothing taken away.
* reading: XML, fields and pixels of one HDU, verified, complete; a flawless
  file is accepted; no failure is overlooked.
* output: exit status 0 means the whole product; an old file survives a
  program that failed before it opened its output; two programs with one
  name write each cell at its own place.
* JP2: the file is whole exactly when everything has room, and the packet
  lengths cut the tile where its packets end.
* XML: every card becomes its element, in place, well formed.
* buffer: a caller gets what was put in.
* algorithms: the answer is that of a definition that can be read at a glance.

## 2. The modules

| module | of | composes |
|---|---|---|
| `ProductStore` | abstract: a write-once store of names | |
| `FitsCommit`, `FitsCommitProofs` | `sfts_free` on one directory | refines `ProductStore` |
| `Y4mAppend`, `Y4mAppendProofs` | `swap_y4m` on one file | |
| `FitsRead`, `FitsReadProofs` | `fitsproc`, `process_header` and the readers they call | |
| `ImageOutput`, `ImageOutputProofs` | `main` and the four writers on one directory | takes `FitsRead` as one step |
| `ByteLog` | abstract: a log read from the start | |
| `P2scBuffer`, `P2scBufferProofs` | the growable buffer | refines `ByteLog` |
| `HeaderXml`, `HeaderXmlProofs` | cards to elements | takes the buffer as the log it is |
| `Jp2File` | the file `swap_write_j2k` makes in OpenJPEG's buffer, and how the reader finds the code stream | |
| `Median`, `Bicubic`, `Yuv420`, `Pgm`, `IccProfile`, `OnBoardTime`, `Dates`, `Crc` | functions, one module for each source file or part of it | `Stepwise` (a loop as a fold over a range) |
| `LibraryProofs` | induction over data, for loops and recursive functions; the checksums | `Crc` |
| `Algorithms`, `AlgorithmsProofs` | one call of one function, with its answer | `Jp2File` and the eight above |
| `MC*` | the inputs of the runs | |

### FitsCommit

A process holds one product (`job`: the name asked for, the DATASUM of each HDU,
which of them is current, the length) and calls `sfts_free` once. `pc` is the
place in `sfts_free` → `commit_fits` → `p2sc_create_file`; each system call
there is an action: the four outcomes of `open` (`OpenNew`, `OpenExists`,
`OpenTruncate`, `OpenError`), `WriteSome` and `WriteAll` or `WriteShort`,
`Fsync`, `Close`, `IoError` followed by `Unlink`. A write has two steps because
others read the file while it grows; a second write or truncation of the same
inode waits for it (`Busy`), as the kernel makes it.

The current HDU is hidden state of cfitsio, and so it is here: `commit_fits`
writes FILENAME into the HDU `hdu[p]`, whichever that is (`Labelled`), and
`compare_fits` leaves the first one current (`Compared`). `label[p]` has the
FILENAME of every HDU. A product whose current HDU was another keeps the name it
lost there, and its length grows when the first HDU gets the keywords as well
(`more`); `FilenameKey` says that this is the only wrong name a whole file can
have in it.

The directory maps names to inodes, and `content` says of an inode who wrote its
beginning last, with which FILENAMEs, and of how many bytes it has how many:
as much of the bytes as the properties tell apart. `compare_fits` opens
(`CompareOpen`), counts the HDUs (`CompareCount`), and compares the DATASUM of
one after another (`CompareNext`), each in a step of its own, while others cut
and rewrite the file. Each step may see what was there at the open, for cfitsio
has read it into its buffers, or what is there now (`Views`). A file that is
short can have any smaller number of HDUs (`Counts`), so the same product, half
written, can be judged different; one with something behind its end, or with
headers of another length than the first read, can have HDUs in wrong places
(`Misplaced`). A damaged file may fail to open or fail its checksums, or be
believed, because `sfts_openro` fetches a variadic argument `compare_fits` does
not pass (undefined) and may therefore skip verification. A short `write` goes
unnoticed, as in the code. A number beyond `LastSuffix` (999) is fatal. `Kill`
may hit between any two calls. A process creates at most one file (after a create
it never restarts), hence the inode goes by the name of its creator.

`Apart` is an assumption about products: none is the beginning of another, HDU by
HDU. It is needed (section 4), and the data of one instrument meets it unless a
product is another one with HDUs added.

### Y4mAppend

The file is a sequence of cells: header, FRAME marker, Y, U, V plane. The
actions are `access`, `fopen` in one of two modes, the writes into the stdio
buffer, any split of that buffer into `write(2)`s, and `fclose`; a "wb" stream
has its own offset, an "ab" stream none. The write that fails under `fwrite` is
fatal; under `fclose` nobody looks ("cut", exit status 0). A file that exists
holds the frame of an older run (`Older`), or nothing was there. `serial` (chosen
initially, constant) separates callers that run one process after the other.
`Safe` are the two situations in which nothing can be lost: turns are taken, or
every process found the file there (mode "ab").

### FitsRead

cfitsio's discipline is explicit: a current HDU, a sticky status, calls that do
nothing while it is set, and `CHK_FTS` (`Checked`) at the places where the code
has it. `CallFails` lets any call fail between two looks. HDUs carry, for each
keyword that matters, whether its card is absent, without value, malformed or
has a value, the state of the checksums, both pairs of axes, and the image;
and whether all their keywords are names that XML has (`named`): one that is
legal in FITS only ends the process when the XML is written (`XmlFatal`,
`p2sc_xml.c:66`). `Flawless` asks this, and two axes, of the HDU that is wanted
only, and the fields of it; the HDUs before it must have readable dates and all
of them their checksums, which is what the code reads. The
one place where the status is looked at too late, the loop of `sfts_head2str`,
has both outcomes of using what was not returned (`XmlUndefined`).

### ImageOutput

One process makes one product; the order of `main` with the early ends of every
stage. The writers differ in when the file is opened (libpng writes as it
encodes; JPEG and JP2 encode in memory first), in what a failure does (the
process ends; `swap_write_j2k` reports and *returns*), and in who closes. The
stream has a buffer of `Cap` cells, flushed in arbitrary pieces. `ignored` is a
history variable: the processes that went on after a failed call. Two
processes may share a name: each write goes to the offset of its descriptor
(`Written`), each open empties the file under the others, and a write beyond
the end leaves a hole. A cell says whose byte it is and where it belongs, not
what it says. Two runs of one conversion differ in their XML, which has the time
it was made at in milliseconds (`swap_meta.c:65`): `Aligned` says that every cell
stands at its place and that no hole is left, not that the file is one of the
two products, and it is not always. The name is taken as given, by option or by
`p2sc_name.c`; "-", the standard output, is none of `File`.

`OldKept` is about processes that have not opened their output. A PNG is encoded
after the open (`swap_file.c:65`): when libpng gives up there, the older file is
gone and the exit status is 1. That is in the model (`WriteFatal`), and no
property promises more.

### P2scBuffer and ByteLog

Every function of `p2sc_buffer.c` is an action, for buffers of its own and for
memory of the caller. `Junk` is memory that was never written and `Outside` is
memory that is not the buffer's. The constant `Ordered` is the interface that the callers
in the repository keep: write into an own buffer, then rewind, then read. With
`Ordered = FALSE` (everything the header permits) `InBounds` does not hold: `len`
grows by every write, so a rewind followed by writes makes it exceed the
content. Nothing in `src/` calls it so. `Del` is what both callers do
(`swap_meta.c:51`, `:85`): they take the memory; that own memory can also be freed
and nothing be returned is left out.

### HeaderXml

`sfts_head2str` walks the cards by number, but reads those with values *by
name*; `Found` is the card that such a search reaches. `Joined` follows CONTINUE
cards, `Trimmed` is the "&" of long strings; the cut of a joined comment to 72
characters and CONTINUE cards that cannot be parsed are left out. `Written` is `genx_addText`: the
first attempt has already sent everything up to the last escaped character when
genx refuses a text, and the scrubbed text follows it.

### Jp2File

The output stream of OpenJPEG is a buffer and a place, as `opj_cio_t` is: its
length comes from the size of the image (`BufferLength`), a byte beyond it is
refused without the caller being told, `cio_seek` and `cio_skip` look at
nothing. On it are laid the boxes with the XML box of `opj_extra.c` and the
segments of the code stream with the PLT marker this program adds (room for
three bytes a packet, counted by `PltNum`; filled in after the tile is coded).
The rate allocation is OpenJPEG's own business: what it settles on, the length of
each packet, is a parameter of the job. `tcd_encode_tile` is what happens to these
packets in the room they have: their length when they fit, else -999
(`Failed`), with the packets before the first that has no room written, and
`j2k_write_sod` takes -999 for a length. The bytes of packets and XML have no
content. `jp2_read_struct` is the reader, whose search
may not end (`Never`). The palette and mapping boxes of `opj_extra.c` are never
called (`jp2.c:1549` writes the colour box only) and are not here.

### The algorithms

`Median` has the sorting networks for 3, 5, 7, 9 and 25 values and Quickselect
with its unguarded scans; `Bicubic` the pixels the bicubic filter uses, with the
neighbourhood it keeps from one sample to the next, and the 3x3 fetch; `Yuv420`
the in-place subsampling, for odd sizes too, where blocks reach beyond the row
or the plane; `Pgm` the writer and the reader with its header
scanner; `IccProfile` the markers of a profile; `OnBoardTime` the seven bytes of
the spacecraft clock, through its overflow; `Dates` both spellings of a date,
the time stamp and its rounding; `Crc` the tables and loops of CRC-16, CRC-32
and the cksum variant, in 16-bit halves since TLC's integers have 32 bits.
Loops of the code are `Stepwise!Loop`, a fold, except where the number of
rounds is not known beforehand. `Algorithms` wraps them: an action picks
a function and an input and stores the answer, the invariants compare it with a
reference that does not follow the code (a count of smaller elements, a clamped
window, a mean of a block, polynomial division bit by bit, ...).

## 3. The runs

| run | configuration | question | bounds |
|---|---|---|---|
| `commit_faults` | `FitsCommitFaults` | names stay distinct, backed, labelled, and the store is implemented, under every failure | 3 processes, 4 products (equal data of two lengths; two of two HDUs, one with its second HDU current, one asking for a numbered name), names 0..1 |
| `commit_quiet` | `FitsCommitQuiet` | with failures only before a file is open, all returned files are whole, equal data of one HDU is filed once, every call ends | 3 processes, 4 products of one length (one HDU under two names, two of two HDUs, one of which lacks a DATASUM), names 0..2 |
| `commit_mixed` | `FitsCommitMixed` | *violated*: two replacers of different length | |
| `y4m` | `Y4mAppend` | a stream when serial; own frames in order, each part once, nothing lost, when the file exists | 2 processes, new and existing file, all failures |
| `y4m_race` | `Y4mRace` | *violated*: two processes start a file | |
| `read_files` | `FitsRead` | one source, verified, complete, nothing overlooked, no flawless file refused | files of 1 to 3 HDUs with every single and most double defects, 6 option sets |
| `output_apart` | `ImageOutput` | exit 0 and the file, old files, the places of cells two writers of one file leave | 2 processes, all pairs of formats, 3 cells (and 2 or 3 under one name), buffer of 2 |
| `output_printed` | `ImageOutputPrint` | *violated*: a JP2 that failed is printed | |
| `buffer` | `P2scBuffer` | the buffer is a log | first size 2, writes of 0, 1 and 3, at most 7 bytes |
| `header_xml` | `HeaderXml` | what becomes of every card | all headers of at most 4 of 10 cards |
| `header_xml_wiped` | `HeaderXmlWiped` | *violated*: a text written with its beginning twice | headers of at most 3 |
| `algorithms` | `Algorithms` | answers are those of the references | inputs around each boundary |

Why the bounds suffice. *Commit*: the interesting races need a creator, a
comparer and one who interferes, hence three; one numbered name is enough to
restart with and one to run out of. Symmetry is used for the safety runs only.
The properties of `commit_faults` are stated *for each name*: a failed write,
fsync or close unlinks a name, which may be another's product
(`p2sc_file.c:348`), and what is claimed is that this harms that name only.
Products of two bytes can be half written, and of two HDUs half counted.
*Y4M, output*: two writers give every overlap of a pair, and a product one cell
longer than the buffer gives both the flush in the middle and the one at the
close; under one name, products of 3 and of 2 or 3 cells give the open of one
before, between and after the writes of the other. *Reading*: properties relate
one HDU to those before and behind it, hence three. *Buffer*: the first size 2
makes 3 the write that needs more than one growth step of doubling would give
from empty, and 7 goes past two growths. *XML*: four cards hold a repeated name,
its continuation and a bystander.
*Median*: a network right on all arrays of zeroes and ones is right on all
arrays; for 25 values a family of such arrays (intervals and combs) is taken,
not all 2^25 (section 5 has the proof for all of them). *Subsampling*: even,
odd and single rows and columns, and two planes narrow and high enough for their last
places to keep pixels. *PGM*: headers with each number at both ends of its
range, beyond it, or no number, cut after every token. *Clock*:
every boundary of the round, with and without fraction bits that do not count.
*CRC*: every one-byte message, which reaches every entry of the tables, and
three-byte messages. *JP2*: the XML is as long as makes the room for the packets
exactly enough, three bytes less, to four bytes more, for packets of one byte
and of 25; for two images of several
precincts and resolutions, the buffer ends at every byte from the end of the packets
back through SOD, PLT, SOT, the main header and JP2C into the XML; packet lengths lie around
127 and 16383, where another group of seven bits begins; for `PltNum` also the
grids of real images, up to 4096, with the precincts and resolutions that
fits2img has as defaults.

The type invariants of `FitsRead`, `ImageOutput`, `Y4mAppend` and `P2scBuffer`
are proved (section 5) and are not checked by a run again.

Each property of a passing run has a mutant, a definition with the bug a hand
could make, under which TLC finds it violated.

### Deadlock

No run disables the deadlock check. Models that end have an action that
stutters once every process has stopped (`AllStopped`, `Ended`, `Answered`);
a process that waited for anything else would be found.

### Fairness and liveness

Only `commit_quiet` uses it: `FairSpec` has weak fairness of `Step(p)`, the
program's own steps of each process. The code has no locks; a process waits for
another at most as long as a write of the same file takes, in the kernel. The
assumption is that the scheduler runs a process that can run and that a system
call returns. `Kill` and
the failures are not in it. `Termination` then says that the chain of numbered
names ends: O_EXCL, comparison and restart do not go round forever against
other processes. The other programs are straight lines and loops over data, for
which an end under fairness would follow from their shape.

## 4. Findings

1. **Two replacers mix a product** (`commit_mixed`, `p2sc_fits.c:158`). "identical
   data, will replace": two processes that both found the DATASUMs equal open the
   file with `O_TRUNC` and write it in place. Their headers may differ in length,
   and the file ends as the shorter product with the tail of the longer one.
2. **A second starter of a movie removes the first frame** (`y4m_race`,
   `swap_file.c:442`). `access` then `fopen("wb")`: both processes find no file,
   one opens it, writes its frame and exits with 0, and the other opens it with
   "wb", which empties it; the option says "Append".
3. **A JP2 that failed is printed as output** (`output_printed`,
   `swap_file_j2k.c:207`), with exit status 0.
4. **A wiped text is written with its beginning twice** (`header_xml_wiped`,
   `p2sc_xml.c:34`).

Seen while modelling, not stated as runs: a product of several HDUs, compared
while the same product is half written under that name, has fewer HDUs there, is
judged different and is filed a second time under the next number
(`p2sc_fits.c:78`; `NoDuplicates` therefore speaks of products of one HDU); where
one product is the beginning of another (not `Apart`), a file of the longer, cut
or not yet whole, passes for the shorter and is replaced by it; a product whose
current HDU was not its first keeps the FILENAME it lost in that HDU
(`p2sc_fits.c:69`, `:115`); an image read from a PGM whose first pixels are blanks
is returned shifted, the end of it memory nobody wrote, with a warning only
(`swap_file.c:402`); a keyword that is legal in FITS and no XML name makes the
program refuse the file (`p2sc_xml.c:66`); a PNG that libpng cannot encode has
emptied the older file (`swap_file.c:65`); a buffer that is written, rewound and
written again has a length beyond its content (`p2sc_buffer.c:85`), which nothing
in `src/` does; a failing commit unlinks a name that may hold
another process's product (`p2sc_file.c:348`); the first sample of a new
bicubic filter, when it is at (-1, 0), finds the key of the filter equal to its own and uses
a neighbourhood that was never fetched (`swap_math.c:156`); for x just below
zero the weights are taken from beyond the table (`swap_math.c:161`); odd image sizes reach
across rows in the subsampling, and the planes are shorter than the header
promises (`swap_color.c:150`); a long header with a small image makes a JP2 that
is cut, or has no code stream, without a word (`opj_extra.c:43`), and the reader
searches such a file for ever (`jp2.c:1642`); where a plane is narrow, high and
of odd width, the last places of the written quarter lie behind every mean and
still hold pixels of full size (`swap_color.c:146`), which a proof attempt
showed, `Subsampled` having been undefined there; with more than 21844 packets,
beyond fits2img's defaults, the length of the PLT marker wraps (`j2k.c:3825`);
`swap_read_j2k` uses the decoder's image without looking whether there is one
(`swap_file_j2k.c:79`), and jp2img sharpens before it looks (`jp2img.c:49`); the third
round of the on-board counter begins in 2026 and would be read as the second
(`p2sc_time.c:61`).

## 5. What is proved

The proofs hold for every value of the constants that satisfies the named
assumptions of the modules. Most of these give the types of inputs and tell
special values apart. Those of `Algorithms` say a little more: an array to take
a median of is a C array of at least one number; images are smaller, and samples
nearer to the origin, than 32768 pixels, where the key of the filter (two halves
of a word) tells places apart; planes hold bytes, images one number for each
pixel; a profile has at most 255 markers, since their number is written in a
byte; times of the on-board clock lie in the round that the code names as its
reference; times to print lie in January 1970, after rounding too, where
`gmtime` needs no calendar; the bytes in place of numbers in a PGM header are
neither blanks nor the beginning of a number; the packets of a JP2 leave a
thousand bytes of OpenJPEG's buffer, so that the 999 it goes back when it fails
do not lead out of it; what a checksum is taken of are
bytes, less than 2^31 of them, a length TLC can count and whose bytes are at
most four. A theorem that needs more has it
as an assumption of its own, named below.

Induction over data is not out of reach altogether. The library's induction
theorems take an operator and cannot be instantiated, but the set of the numbers
with a property is a constant like any other: **LibraryProofs** shows that a
set of numbers that is not empty has a least one (`LeastOf`, from
well-foundedness), that a set that holds 0 and with k also k + 1 holds all
numbers (`SetInduction`, `UpTo` for a range), that the function a loop defines
by recursion exists and is determined by its start and its steps (`StepsExist`,
`StepsFollow`),
and what selecting from a sequence yields. Every loop below is treated with
these.

**FitsCommitProofs**: any number of processes, products, HDUs and names, any
failures. None of the properties is inductive. The invariant is

    IInv == TypeOK /\ Names /\ Claims

*Names* holds always: a linked file was created under the name it has by a
process whose name no longer changes (`Linked`), descriptors refer to a file
created under the holder's name (`Descriptors`), a process that may overwrite
never compares again (`Comparing`), the FILENAMEs of a product in memory are its
name in the current HDU and at most the name asked for in the one that was
current before (`Marked`), and what is in a file has the labels of a process of
that name (`Written`). From it follow `TypeCorrect` and `FilenameIsName`, for any
products.

*Claims* takes products that are `Apart`, and holds, for each name, until a
failed write unlinks that name: a process that may overwrite, has a file open or
has been answered shares the data of the file under its name (`Sharing`), it has
*that* file open (`Opened`), a file holds data of its creator (`Authors`), an
empty linked file has somebody writing it, or dead in doing so (`Emptied`), and
what a process is comparing is the file of its name, which agrees with its own
product in all HDUs it has looked at (`Looking`), whoever rewrites the file
meanwhile: a rewriter shares its data. The point of `Sharing` is the window
between the comparison and the `O_TRUNC`: the name cannot have changed its file
in between because only an unlink removes one. From it follow `NamesDistinct`,
`ReturnedIsBacked`, `FilesKeepTheirProduct`, and `CommitImplementsStore`: the
refinement of `ProductStore`, in which a create binds a name, the return answers
the caller, the ends fail it and every other step stutters.

`QuietlyIntact` and `NothingFiledTwice` are proved under `Calm`: products of one
length that are `Apart`, and failures of cfitsio and of `open` only (what
`commit_quiet` checks; with two lengths `commit_mixed` is the counterexample, and
a failed write may leave a process dead over an empty file). `CalmInv` adds to
`IInv` that a file nobody is writing is whole and no file is longer than its
product (`Finished`), that what a process is comparing is so too (`Evenly`), that
an empty file has a writer who will return (`Refilled`), that a process with a
product of one HDU has passed a name only because other data is filed there
(`Passed`), and that nobody unlinks (`Harmless`). The last two make equal data
end under one name: names only go up, and each one passed is occupied for good.
For `Passed` a half-written file must not look different: of one HDU there is
always the first, and its sum is that of its author, however little of it is
there.

`StepsRunOut` is the part of `Termination` that is a safety property: no call
runs forever. `Left` counts what a call has before it, at most twelve steps and
one for each HDU for each name it can still take; every step of a process, with any failure, uses up
some of what is left of its own call, and no step gives another process work to
do again. What the rest of `Termination` needs, that a call that has not ended
can take a step and takes it, is about ENABLED and fairness.

**ImageOutputProofs**: any processes, files, formats, lengths and buffers.
`Stream` says that what is written, in the buffer and to do is the product in
its order; `Progress` what is empty in which state; `Mine` that the file of a
process alone with its name ends at its offset. From these follow `WholeFile`,
`AtMostTheTail` and `OldFileKept`. For shared names `Bounded` and `Led` carry
`SharedFile`: no cell lies past what somebody wrote, and the file has no hole
below the offset of *one* process, the one that opened it last (or has caught
up): this is why equal lengths leave no hole.

**FitsReadProofs**: files of any number of HDUs with any defects, any options, a
failing call at any moment. The invariant says per stage what the stages before
have established: the status tells of a failure until the end (`Told`), the HDUs
behind the cursor are verified or have no date (`Behind`), and from the search
on everything comes from the HDU where it stopped (`FromHere`). From it
`OneSourceAlways`, `BestFieldAlways`, `VerifiedAlways` and `FailureStops`. Two
theorems, `XmlAgreesAlways` and `NotRefusedAlways`, assume `AllFitting`: the
size of an image is what its axes say (those of the table's Z keywords when it
is compressed), which cfitsio sees to when a file is read and without which the
statements mean nothing. The files of the run fit in this sense but for those
whose spoilt axes are given up.

**Y4mAppendProofs**: any processes, sizes, splits of buffers, failures and
kills. `GrowsOnly` needs `Turns`: when turns are taken at most one process has
started and not stopped, so a "wb" stream writes at the end of the file as an
"ab" stream always does. `OwnOrderAlways` needs `Ordered`: of the cells a
process has to write the first n are in the file, each once and in their order,
and the rest is its buffer; what others write in between moves none of them. It
is stated by places (`Places`), not by a subsequence, because subsequences are
defined by recursion. `StreamAlways` is about processes that take turns and do
not fail: the header once, then the whole frames of those that are done. It
counts frames in a set of any size: the invariant `Whole` has the file as the
movie of a sequence of authors without repetition, who are those that are done
and the one before them. It assumes `OneFrame`, a file that was there before
holds a header and one frame of an author who is none of the processes: the
statement itself counts that one author. `OwnOrderAlways` needs no such
assumption.

**HeaderXmlProofs**: headers of any length. `RefusalHasCause`: collecting, a
card is read by a search that may find another; the point is that a card that
cannot be parsed is met by the walk itself, whichever card the search then
returns, that the search returns a card of the same name, and that the names
that XML refuses reach the entries. `AlwaysWellFormed` (nothing XML does not
have is written, whatever is on the cards), `AlwaysInPlace` (the k-th element is
that of the k-th card kept) and `CardsKeptAlways` (no card is lost, doubled or
changed, although those of one name may change places: the bags are equal) rest
on what the loops and selections of the model return, by `StepsExist` and the
lemmas on `Selected`.

**P2scBufferProofs**: for any bytes, first size and calls, `TypeCorrect` and
`WritesAreConfined` (growth loses nothing) without any assumption on the order
of calls; for the caller that writes first, `FilledAlways`,
`ReadsWhatWasWritten`, `AlwaysInBounds`, `ThriftyAlways`, and
`BufferImplementsLog`, the refinement of `ByteLog`. The invariant adds to
`Filled` that memory of the caller is full from the start, and that before the
rewind only empty reads have succeeded.

**AlgorithmsProofs**: inputs of any size. Eight of the properties of the run
`algorithms` hold for every value of the constants; the theorems before each say
the same of the functions alone.

*The clock* (`ClocksAlways`). `ClockIsRead`: from the bytes shown at any time of
the round come the seconds and the ticks of the fraction (bytes recombine, and
the pass number restores the bits above the 28th); `TicksGrow`: ticks never run
back through the overflow. TLC sees six seconds of that round, the theorem all
of its 2^28. Digits lost or spoilt are read as nothing.

*The profile* (`ProfilesAlways`). `ProfileIsCut`: the markers are numbered in
order and together hold each byte once. The invariant of the loop is that what
is cut so far and what is left make the profile.

*Samples* (`SamplesAlways`). Inside the image the bicubic filter copies four
rows as they lie in memory, at the border it looks at each pixel;
`FetchIsAround` and `Fetch9IsAround` say that both give the pixels around the
place. `WalkCoherent` is about a filter through any number of samples: the
neighbourhood in use is that of the place sampled. Its invariant is that the key
kept is that of the last place and that no two places of `Places` share a key;
the first key, -1, is that of (-1, 0), which is why samples there do not count
until one elsewhere was taken. `CopyIsSampling`: the affine transformation that
changes nothing gives the pixels themselves.

*Planes* (`FramesAlways`). Subsampling works in place, row by row:
`MeansStayBehind`, a mean is written before every pixel that is still to be
read, for odd sizes too; `MeansFillTheQuarter`, for even sizes the means have
places of their own; `MeansAsBefore`, hence each mean is that of the pixels as
they were, and a place keeps the mean of the last block whose turn wrote it.

*Dates* (`DatesAlways`). `StampIsInstant`: a time stamp reads as the time
rounded to milliseconds, with the carry into the second and beyond;
`NameIsDate`: a date in its basic spelling is read with its microseconds, and
its product is filed under its day and second.

*PGM* (`PgmAlways`). `ImageIsRead`: blanks at the front of the data are skipped
like those of the header, and what is read of an image that was written is the
image, clipped and shifted by exactly so many bytes, with memory nobody wrote in
place of the last ones; the reader warns when there are such blanks, and only
then, and returns the image all the same (data that are nothing but blanks it
refuses); `ForeignIsChecked`: a
file is refused exactly when its header is not that of an image, or nothing
follows it. The scanner skips blanks and reads a number; the lemmas say where it
stands after each.

*The median* (`MediansAlways`), by two algorithms. `SelectIsMedian`: Quickselect
on arrays of any length and any numbers, equal ones included. A span of the
array is bounded by elements that are not larger below and not smaller above
(`SpanOk`); each round puts the smallest and the largest of three items at the
ends of what is scanned, which stops both scans although they look at no bound,
splits the span, and keeps the half that has the middle, or has found it; a span
shrinks in every round, so n rounds are enough. It also proves that no scan
leaves the array. `NetworkIsMedian`: for a bound v, look only at the *set of
places* whose element is at most v. A comparator moves such a place to its first
end (`Sifts`) and keeps the number of them; if for each v the middle place ends
in the set exactly when at least half of the places are in it, what stands there
is the median. For 3, 5, 7 and 9 places the prover follows all comparators at
once. For 25 the first 23 comparators sort the columns, the next 23 sort across
the columns, the next 23 across the blocks of columns: a cube of 3 x 3 x 3
without two corners that is sorted in all three directions. The other thirty
find its middle. This is the 0-1 principle, but for 25 values TLC would have to
try 2^25 arrays.

*Checksums* (`CrcAlways`, on the lemmas of LibraryProofs). What
`p2sc_crc16`, `p2sc_crc32` and the variant of cksum leave is the remainder of
the bits divided by the polynomial, for any data and any length. An exclusive or
is the sum of bits without carries (`XorValue`), hence associative, and shifting
a register, with the polynomial if the top bit falls out, is linear
(`Turn1Linear`, `Turn8Linear`). So eight bits that are fed one by one leave what
the byte leaves when it is added at the top and the register is turned eight
times (`ByteFed`), and a register is its lower bytes moved up and the turned top
byte, which depends on 8 bits only. That the tables hold these turned bytes
follows from their rows 0 and 1 when each row 2 k is row k turned once more and
each row 2 k + 1 is row 2 k with the polynomial (`TableIs`); the prover checks
the 256 entries of both tables for that (`AllRows16`, `AllRows32`). A byte
looked up is then a byte divided (`Byte16Is`, `Byte32Is`), and by induction over
the data so are all of them. For cksum the loop of `LengthBytes` yields the
fewest bytes of the length (`LengthBytesAre`), and the division goes on from
where the data left it (`Register32Further`).

### What is only model-checked

* `Termination`: liveness under fairness is beyond the prover, as is ENABLED.
  That every step brings an end nearer is proved (`StepsRunOut`).
* `JpWhole`, `PacketLengths`: a proof would follow each of some thirty writes, and
  every way the end of the buffer can cut one of them, to the bytes that two walks
  over boxes and markers then find. It has not been done; the run has jobs at
  every such cut instead.

## 6. What is not modelled

* Pixels as floating-point numbers: filters, warps, scaling, colour tables,
  rotations, statistics. They are sequential functions of one image; only their
  index arithmetic (`Median`, `Bicubic`, `Yuv420`) is here.
* Runtime and messages: signal handlers, `spawn`, the socket (compiled out). In
  every model a fatal message ends the process. What a handler that formats and
  exits inside malloc or stdio may meet (`p2sc_stdlib.c:42`) are locks of libc,
  of which nothing is in `src/`.
* jp2img: reading is `Jp2File`, writing is `ImageOutput`; its own part is work on
  the pixels of one image, and undefined when there is none. The coding of pixels
  into packets is OpenJPEG's.
* The FITS writers of keywords and images, `sfts_copy`, `sfts_read_history`:
  no program of the repository calls them.
* Durability: a crash of the machine between `write` and `fsync`. Kills are of
  processes.
* Details left out on purpose: the blank cfitsio puts between joined comments;
  sizes beyond `size_t`; time stamps with other than three digits; leap days in `gmtime` (inputs are in January 1970); the layout of
  the XML and the wording of messages.

## 7. Plan

Done: the core (commit, movie, reading, output), header and buffer, the
functions of the libraries, the JP2 file; proofs of all safety properties of the
runs but two (end of section 5). What could follow:

1. **Proofs**: what `PltNum` counts for images of any size, and the cut of the tile by the
   PLT marker when everything has room.
2. **Pipeline**: `FitsRead`, `HeaderXml` and `ImageOutput` composed in one
   process, and jp2img as a reader that maps a file another process rewrites.
3. **Durability** of `p2sc_create_file`: machine crashes between write and fsync.
4. **Buffer**: the sequences of calls that nothing in `src/` makes
   (`p2sc_buffer.c:85`), stated as what remains true when writes follow a rewind.
