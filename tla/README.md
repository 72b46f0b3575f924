# ESP32-targz: a TLA+ project

ESP32-targz packs and unpacks `.tar`, `.gz` and `.tar.gz` files on
microcontrollers (ESP32, ESP8266, RP2040, Teensy). It is sequential code, built
on callbacks: what makes it hard is that three decoders (a tar parser, an inflate
decoder, a filesystem writer) are chopped into steps that call each other, keep
their position in globals and function statics that outlive a call, and report
failures through four different conventions. The library is in `src/src/`.

## 1. The system

| Component | Source | State it keeps | Operations |
|---|---|---|---|
| TinyUntar | `TinyUntar/untar.c` | buffer, callbacks, counters (globals); `block_read`, `readstep` (function statics) | `tar_setup`, `read_tar_step`, `tar_abort`, `read_tar` |
| gz to tar glue | `libunpacker/LibUnpacker.cpp` | `output_buffer`, `gzTarBlockPos`, `firstblock`, `lastblock`, `_error` | `gzUncompress`, `tarGzStreamExpander`, `tarGzExpanderNoTempFile`, `gzProcessTarBuffer`, `gzFeedTarBuffer`, `tarReadGzStream` |
| file callbacks | same | `tarGzIO.output`, `untarredFile`, counts of files and bytes | `tarHeaderCallBack`, `tarStreamWriteCallback`, `tarEndCallBack`, `tarExpander` |
| unpacker object | same | `gzWriteCallback`, `_error`, progress callbacks (globals shared by all instances) | constructors, `gzExpander`, `gzStreamExpander`, `tarGzExpander` |
| updater | same | `Update` partition | `gzUpdater`, `gzStreamUpdater`, `tarGzStreamUpdater`, `GzUpdateClass` |
| source reading | `libunpacker/LibUnpacker.cpp` | a deadline, the stream | `gzReadSourceByte` |
| inflate | `uzlib/tinflate.c`, `tinfgzip.c` | block state machine, trees, dictionary ring, checksum | `uzlib_uncompress_chksum`, `uzlib_gzip_parse_header` |
| deflate | `uzlib/genlz77.c`, `defl_static.c` | hash table, bit buffer, output window | `uzlib_deflate_stream`, `uzlib_compress` |
| LZ packer | `libpacker/LibPacker.cpp` | input and output buffers, byte counts | `LZStreamWriter`, `LZBufferWriter`, the overloads of `LZPacker::compress` |
| Tar packer | `libpacker/LibPacker.cpp`, `.hpp`, `tar/libtar.c` | the tar handle, entry list | `TarPacker::pack_files`, `TarGzPacker::compress`, `collectDirEntities`, `th_write`, `tar_append_eof` |
| paths | `helpers/path_tools.h` | none | `dirname`, `mkpath`, `mkdirp` |

The remaining files are a forwarding layer over another filesystem library
(`Teensy`), checksums, the logger and the platform headers.

### How the parts interact

- **Callbacks, four deep.** `gzUncompress` calls the decompressor, which calls
  back for source bytes and, without a dictionary, for bytes it already wrote.
  Its output goes to `gzWriteCallback`: a file, the updater, or
  `gzProcessTarBuffer`, which steps the tar machine, whose read callback takes
  blocks out of the buffer the decompressor has just filled. The tar machine
  calls a header, a write and an end callback per entry, and those write files.
  In *pull* mode the nesting is the other way round: the tar machine is stepped
  and its read callback runs the decompressor.
- **Globals shared by all unpackers.** `untarredFile`, `tarGzIO`, `_error`,
  `gzWriteCallback`, `output_buffer`, `blockmod`, `gzTarBlockPos`, and all of
  TinyUntar's state are globals: an object's constructor does not renew them.
- **Function statics.** `block_read` and `readstep` of `untar.c` cannot be reset
  from outside at all.
- **Return conventions.** `bool`; a code in `_error`; a negative number (TinyUntar);
  a number of bytes that may be 0, -1 or `(size_t)-1` (the packer).
- **The world.** The filesystem, the heap and the source may fail at each call; a
  stream may fall silent and speak again, break off, or turn a bit over;
  while a list is packed, the files of the list may change.

### What is hard about it

There are no threads. The order of events is nevertheless difficult: two or three
machines that each keep a position in the same stream advance in turn, and a
failure in one of them has to reach the outermost caller through two others. A
session that failed leaves state to the next one. Sizes that were read at one time
are used at another. Buffers of a fixed size are filled by parts that may produce
more than they were given. Each such place is a hazard in `PROJECT.json`, at its
line, with the properties that cover it.

### What makes each part correct

| Component | Correct when |
|---|---|
| TinyUntar | each block is consumed once, in order, and reaches the callback of the entry it belongs to; nothing is called after a refusal; every path that ends a session frees the buffer; a session leaves no trace in the next |
| gz to tar glue | the two positions agree (nothing inflated over a block that was not taken, no block taken twice); OK means all entries expanded; a good stream gives OK; the call returns |
| file callbacks | success means the filesystem holds what the archive has, and only that; no handle stays open; each entry is counted once |
| source reading | a byte is given up only after the timeout, and is given up after it |
| inflate | the output is what the symbols stand for, with the ring and without; a corrupt source is an error, and a dry one too before the size at the very end |
| deflate, LZ packer | each source byte is compressed once and in order; each compressed byte written once; a size means a whole file; what was compressed expands to itself |
| Tar packer | a full size means an archive with all entries; the layout is the estimated one, whatever the files do meanwhile; what was packed comes back under its names |
| unpacker session, updater | a session does not depend on the one before; an update has only whole sectors |
| paths | `mkpath` ends and makes each parent once |

## 2. The modules

`TarReader` is the abstract specification. It says what a tar reader promises to
its three callbacks: blocks consumed once each and in order; an entry announced by its
header block, given its data blocks in order with the last one marked, and
ended; nothing after a refusal; done after two empty headers. It does not say how the
input is cut into steps. Two independent pieces of code implement it: the step machine
(`Untar`, and `GzUncompress` on top of it) and the loop `read_tar` (`TarFiles`).

    TarReader  <--implements--  Untar  <--extends--  GzUncompress
         ^
         +------implements------  TarFiles
    TarNames  <--extends--  TarPacker
    BitSequences  <--extend--  Deflate, Huffman;  Deflate, Huffman, GzSource  <--extend--  GzMember
    UnpackerSession     Updater     Inflate     LZStreamWriter

A module `XProofs` extends the module `X` and has its theorems: `GzUncompressProofs` (with
those of `Untar`, which they rest on), `TarFilesProofs`, `LZStreamWriterProofs`, `InflateProofs`,
`UnpackerSessionProofs`, `UpdaterProofs`, `TarPackerProofs`, `GzMemberProofs`. What each needs of numbers
(positions modulo the size of a buffer, induction, recursion) is at its beginning.

### Untar

`untar.c` as a step machine. Variables have the names of the globals and of the two
statics; `archive` and `fed` stand for the stream and the number of blocks taken from
it; `calls` is the sequence of callbacks the last step fired. A call of
`read_tar_step` is one action, and each path through it
(`read_tar_step` → `tar_step` → `tar_datablock_step` → `expand_tar_data_block`, with
`tar_abort` where the code calls it) is one disjunct:

| Action | Path |
|---|---|
| `Refused` | no callbacks, or `tar_error` is set |
| `Done` | two empty headers were met |
| `ReadHeader` | the block of a header is read; `read_tar_step` makes TAR_OK of a miss |
| `EmptyHeader`, `HeaderRefused` | the block is parsed; it names nothing, or its callback refuses |
| `OpenBare` | an entry without data: header and end callback in one call |
| `OpenAndRead` | the header callback, then the first data block, in one call |
| `OpenAndExpand` | the same with `block_read` left over from another session |
| `ReadData`, `ExpandData`, `EndData` | the branches of `tar_datablock_step` |
| `SetupOK`, `SetupNoHeap` | `tar_setup` |
| `Reboot` | power off: the only thing that resets the statics |

A block is a position in the archive. What a header parser sees in it is a
record: whether it names something, and the number of data blocks `GET_NUM_BLOCKS`
makes of its size. A parser that is given bytes nobody wrote may see anything.

`MCUntar` builds the archives: up to `MaxPieces` entries or stray empty headers,
an end of 0 to 2 empty headers, and all that is left of those when they are cut at
a block. Data blocks look like headers, so that a lost block is noticed.

### GzUncompress

Extends `Untar` with the state of `gzUncompress`. *Push* is
`tarGzStreamExpander`: `InflateBlock` and `InflateEnds` fill `output_buffer`,
`ProcessFirst`, `ProcessNext`, `ProcessStep` and `ProcessReturns` are
`gzProcessTarBuffer`, which drives `ReadTarStep` with what `gzFeedTarBuffer`
takes from the buffer. *Pull* is `tarGzExpanderNoTempFile`: `PullStep` is a
`read_tar_step` whose read callback is `tarReadGzStream`. Bytes are counted in blocks;
a stream that breaks inside a block leaves a torn one. The tar machine underneath still
implements `TarReader` (`ImplementsReaderUnlessDamaged`), as long as what it is fed is what was
packed.

### TarFiles

`tarStreamExpander`, `tarExpander`, the loop of `read_tar`, and the three file callbacks.
The filesystem maps a path to the header a file was made for and the number of blocks
it holds. It may be full, refuse to open, create less than it says (`create`: no
file behind the handle), write short, lose a write, or refuse to reopen. `untarredFile` and
`output` are the two views of one handle, and outlive the session.
`MCTarFiles` builds the archives, with repeated paths, filtered ones, directories (also ones with data),
ignored entries, whole and cut.

### LZStreamWriter

`LZPacker::compress`, `LZStreamWriter::write` and
`uzlib_deflate_stream`. A source byte is its position; the compressor makes of a
buffer any number of bytes from 1 to its length plus `Growth`. (Its Huffman codes are
fixed, so that a literal above 143 takes nine bits: `genlz77.c` does have input that grows.)
`Cache` is a write that stays in `inputBuffer`, `Deflate` one that completes it,
`Flush` one that finds no room because the pending output filled the buffer,
`WriteIgnored` one the checks turn away, `ReadFails` a source that has less than it said.
`target` says where it goes: `Start` begins the loop of a source that is a stream, to a stream or a
buffer; `StartEmpty`, `CompressBytes` (a source in memory, in one write), `ToFile` and `Refused` are the
calls that end at once; `Forget` is the next one.

### TarNames, TarPacker

`TarPacker::pack_files` and `TarGzPacker::compress` (`gz`): `pack_tar_init`, `pack_tar_impl`,
`TarEntity` with its chunks, the io functions and `libtar.c`. What matters is *when*
each size was read: the list has collected sizes; a header states the size the file
has when it is written; the number of chunks is computed from the collected size, in
`float`; the chunks hold what the file then has, or as much of a block as a read gave (`Reads`): the rest of
the block is zeros, also in the middle of a file. `Change` is another task, or the packer
itself when its output is in the list: it changes or removes a file at any time. `changed` says that either has happened.

`TarNames` is what becomes of a name, as operators on sequences of characters: the
recursion of `collectDirEntities` over a tree, `savepath`, `th_set_path` with its limit of
`T_NAMELEN`; then, when the archive is expanded, `trim`, the path `tarHeaderCallBack` makes of it, and
`dirname`, `mkpath` and `mkdirp` on the folders above it. `Expanded` runs all the headers of an
archive over a filesystem that was empty. `MCTarPacker` has the trees, the folder that is packed, its
prefix and the destinations.

### GzMember: Deflate, Huffman, GzSource

A `.gz` from end to end, a bit at a time. (`BitSequences` has what is written and read of a number.)

- `Deflate` is `uzlib_compress` chunk after chunk: `NextBlock` opens a block, `SumByte` is the
  checksum, `Match` and `Literal` the matcher over its hash table, `EndBlock` and `EndMember` the end
  of a block, the empty stored block between two chunks, and the footer.
- `Huffman` has `tinf_build_tree` and `tinf_decode_symbol`, with the counters of `TINF_TREE`.
- `GzSource` is `gzReadSourceByte`: `StartWaiting`, `Delay`, `StopWaiting`, `GiveUp` are its loop on a
  `millis()` that wraps. A byte that was given up is what the stack holds.
- `GzMember` puts a stream between them. `Disturbed` cuts it, makes it pause, or turns one bit over.
  `ParseHeader` is `uzlib_gzip_parse_header`, a field at a time; `Inflate` has one
  action per state of the decoder: the header of a block, stored bytes, the two trees and
  their code lengths, symbols, extra bits, copies, the checksum.

The reader takes a byte (`Fetch`) when it needs it, and no sooner: what it has left over is the bits of
the byte it is in. `MCGzMember` has what is compressed and the members `uzlib_compress` does not
write: trees of their own, a header with all the optional fields, and headers that are to be refused.

### Inflate

`gzUncompress` to a file: one output byte per step, `output_buffer`,
`gzStreamWriteCallback`, `gzReadDestByteFS`, and `uzlib_uncompress_chksum` with the
dictionary ring or without. Symbols are chosen one at a time: stored blocks, literals,
matches with a length and a distance. No two literals are the same byte, so the output
shows where each byte came from. (Bits, trees and checksum are those of `GzMember`.) `expanded` is what the symbols stand for,
computed apart from ring and buffer; it is the reference the output is compared with. Behind the last block the checksum is
compared (`Checksum`) before the size is read, which nobody looks at: a source that ends in it is no error (`SizeUnread`).

### UnpackerSession

One call after another: ten operations (`gzExpander`, the two `gzStreamExpander`s,
`tarGzExpander` with and without a temporary file, `tarGzStreamExpander`, `tarGzStreamUpdater`,
`gzUpdater`, `gzStreamUpdater`, and `begingz` with `writeGzStream` and `endgz`), on two kinds of
board. `Start` is a call up to `gzUncompress` with all it installs; `RefusesStart`
and `RefusesInstalled` are those that end before; `Inflates`, `CannotInflate`, `StreamEnds` and
`SourceDry` are `gzUncompress`; `StreamWrite`, `OtherWrite` and `TarWrite`, with their failures, the
write callbacks; `GzEnds`, `GzFailed`, `UpdateFails`, `TarAfterGz` the end. What is inflated is a
number of calls of the write callback and *where each went*. `fits` says whether the callback the call
found was its own: most calls install theirs only when there is none.

### Updater

Updates of an ESP32: a `.gz` image (`UpdateImage`, `WriteBuffer`, `WriteRest`, `FillImage`, `EndImage`),
and the images of a `.tar.gz` (`UpdateArchive`, `TarSetup`, then one action per tar callback). Two things outlive a call and decide what
the next one does. `gzWriteCallback` is one: an image installs its writer, an archive only if there is none. With
the writer of an image, an archive goes to `Update.write` as it is, and no tar runs (`RawWrite`, `RawEnds`). The other is
the statics of `untar.c`: `atRest` says that both are 0, and an archive that finds them otherwise is misread
(`TarMisreads`). `firstblock` stays set in a call that did not set up tar, as `TarSetupFails` does without saying so. `Update` is
external, and modelled from its use: `begin` opens a partition, and refuses while another is open;
`write` may refuse, and then `end` fails; `end(true)` makes what was written the content. Whether `end`
without `begin` fails is left open. `committed` is what became the content of a partition.

## 3. The runs

Run one with `tlc -workers 2 -config X.cfg M`. Times are those of two workers.

| Run | Module, cfg | Question | Bounds |
|---|---|---|---|
| `untar` | `MCUntar`, `Untar.cfg` | With every callback refusing and every read failing at any point: is a block ever skipped, doubled or given to another entry, the buffer leaked or used after free, a static left set? Is each step one of `TarReader`? | 2 entries of up to 2 blocks, cut anywhere |
| `untar_sessions` | `MCUntar`, `UntarSessions.cfg` | Does each session end, even with statics left over from one that failed? | 1 entry, no reboot needed between sessions |
| `gz` | `MCGzUncompress`, `Gz.cfg` | Both modes under all faults: do the positions of the two machines agree, does the code that is returned say what happened, do the callbacks still see `TarReader`, and does the call return? | 2 entries, archives of up to 6 blocks, up to 1 block of padding (behind those of up to 5), a buffer of 2 blocks |
| `tar_files` | `MCTarFiles`, `TarFiles.cfg` | Is success what is on the filesystem, and is failure justified? | 2 entries (files of 0 and 2 blocks, directories of 0 and 1, one that is ignored), 2 paths (one long, one filtered), cut by 0, 1 or 3 blocks |
| `lz_writer` | `LZStreamWriter` | Is the file whole, the source in order, the buffer respected? | a buffer of 4, writes of 1, 2 and 4, sources of 0 to 9, stated length right or wrong; to a stream, a buffer, a file |
| `tar_packer` | `MCTarPacker`, `TarPacker.cfg` | What can still be said of the archive when files change and writes fail? Which names come back? (3.4 million states, two minutes) | 2 files, blocks of 4 bytes, floats of 2 bits, sizes 0, 4, 5, 6, reads of a block that give 1 byte; paths of 2 to 7 characters where a header holds 6, in folders three deep, 4 prefixes (none among them), 3 destinations |
| `inflate` | `Inflate` | Is the output exact, with and without the ring? | 8 bytes, a ring of 4, a buffer of 3, matches of 1, 3, 4 at distances 1, 2, 4, 5 |
| `gz_member` | `MCGzMember`, `GzMember.cfg` | Does what was compressed come back, and is what was disturbed ever called done? Does the reader end? | 3 inputs, 6 members of other programs; those of up to 30 bytes disturbed in every way |
| `session` | `UnpackerSession` | Does a call work as it would on a device that was just switched on, whatever was called before and however it ended? | 2 chunks per call, buffers of 1 and 2 blocks |
| `updater` | `Updater` | Is what becomes the content of a partition a whole image that was meant for it? Are sound images flashed? After any calls before, with what those left installed. (1.2 million states, two minutes) | sectors of 2 units, images of 0 to 3, 2 entries |
| `gz_pull_failure` | `MCGzUncompress`, `GzPullFailure.cfg` | *expected violation:* 0 means no problem | pull mode, a refused write |
| `lz_grown` | `LZStreamWriter`, `LZGrown.cfg` | *expected violation:* a size means a whole file | no destination fault |

### Why these bounds are enough

- *Two entries of up to two blocks*: the counters that may disagree are per entry and per
  block. Two blocks have a first that is not the last; a second entry shows
  what the first left behind; an entry of none, one and two blocks takes each branch of
  `tar_step`. The theorems of section 5 hold for any number of either.
- *A buffer of 2 blocks* against archives of 1 to 6: the buffer is filled several
  times, its end falls before, inside and after an entry, and the last one is partial.
- *A buffer of 4 bytes, sources of 1 to 9*: shorter than a buffer, a multiple of it, one
  more, and more than two; `Growth` 1 is enough for output that exceeds the buffer, since
  the pending rest is then not empty.
- *Floats of 2 bits*: 5 is not representable (4 is), as 16777217 is not with 24. Blocks of 4
  keep 5 on the far side of a block boundary, which is where rounding bites.
- *A ring of 4 with distances up to 5, matches up to 4*: a match longer than its distance
  (it reads what it writes), as long as the ring, one that wraps, and one beyond the ring; a
  buffer of 3 is not a divisor of the ring, so the two wrap at different times.
- *Names of 6 characters* (`T_NAMELEN`), for 100: paths of two to seven, and a dot or a prefix before them, are shorter than a header, at its
  limit, one more, and longer. A blank is at the start and at the end of names and of folders, and at the start of
  one that is at the limit (`/ bbbb`); an unprintable character (`~`) is a name, ends one, and is a folder. Of the prefixes, `.` is one
  that the reader forgets, and `/b` makes a path from the root.
- *Inputs of* `MCGzMember`: `Short` has literals of eight and nine bits and a match over its own end, and
  is what is disturbed, with a foreign member that has a name; `TwoChunks` meets the hash table of the chunk
  before; `Long` has a run for every length code, each literal, hashes that meet (`hash_bits` 3),
  and distances up to one more than the ring (`dict_size` 300). A member is cut
  at every byte, and each of its bits turned over but one, the flag of an extra field, whose length would
  be thousands of bytes.
- *A clock of 6 values and a timeout of 2*: a call begins at any of them, so that a deadline falls before the
  wrap, after it and on the last value. `MaxSilences` 1: the sender pauses at any byte, for any time.
  `StackBytes` are 0, which ends a name, and 24, which does not.
- *Two chunks per call* in `session`: a first that installs or takes over, and one that finds
  what the first did; the number of calls is not bounded. Buffers of 1 and 2 blocks are the two
  sizes an ESP8266 has.
- *Sectors of 2 units, images of 0 to 3*: none, less than a sector, a sector (a fill of
  nothing), and one more.

### What the properties say

`TarReader` (as `ImplementsReader`) is a property of three models, so the three ways to
drive a tar parser are interchangeable for their callbacks. (In `gz` it is
`ImplementsReaderUnlessDamaged`: what inflates to something else is not this archive.) The others, by hazard:

- *Positions that must agree*: `Aligned`, `NothingOverwritten`, `CompressedInOrder`, `OutputExact`,
  `LayoutKept`, and three of the type invariants, which have `RingNeverWraps`, `InsideBuffer` and
  `FeedInsideBuffer` as conjuncts.
- *What went in comes out*: `RoundTrip`, from the bytes that are compressed to those that were expanded;
  `TreeComesBack`, from a folder to the folder it is expanded to.
- *A reported success is one*: `SuccessMeansExpanded`, `SuccessMeansOnDisk`, `SizedMeansWhole`,
  `FullSizeMeansArchive`, `OkMeansWhole`, `DoneMeansWhole`, `ReturnTells`, `SuccessMeansFlashed`. Their
  preconditions are the weakest for which they hold, and each exception is a defect listed in section 6.
- *A failure has a reason*, and is reported: `WholeStreamSucceeds`, `HealthyFilesSucceed`,
  `SoundUpdateSucceeds`, `ReturnTells`, `GivesUpAfterTimeout`.
- *Nothing is left behind*: `BufferHeld`, `RestAfterSession`, `WritesWhereAsked`.
- *Nothing else is touched*: `LeavesFilesAlone`, `CommittedIsImage`.
- *Ends*: `SessionEnds`, `CallReturns`, `CompressReturns`, `MemberReturns`.

Each property of a passing run has a mutant in `PROJECT.json`: a plausible bug in one
definition (a dropped guard, an off-by-one, a missing reset) that violates it.

`Inflate`, `TarPacker` and `GzMember` are models of one call, which returns: a state after that has no
successor and deadlock is not checked. (That the reader of `GzMember` does not stop before is `MemberReturns`.) In the other models another session is
always possible, and deadlock is checked.

## 4. Fairness

Weak fairness is assumed of the code only: `WF(Step)` in `Untar` and `LZStreamWriter`,
`WF(GzStep)` in `GzUncompress`, `WF(Write)` and `WF(Read)` in `GzMember`. It says that the calling thread runs the
call to its end, which synchronous code does; for `Untar`, that whoever opened a session
keeps calling while it is told `TAR_OK`, as the loops in `gzUncompress` and `gzProcessTarBuffer`
do. Nothing is assumed of the environment: sessions may never be opened, a source may
fail at once or never, a sender may stay silent for good (`Sender` is not in `Read`); the clock does run,
since `Delay` is the loop's own `vTaskDelay(1)`. The other models state safety only, and assume no fairness.

## 5. What is proved

Each theorem holds for every value of the constants that the named assumptions of its module
allow: every archive, every size of a buffer, every set of faults, sessions without a bound on
their number. No leaf is left unproved. The obligations are those `tlapm` counts.

| Module | Theorem | Statement |
|---|---|---|
| `GzUncompressProofs` (3391) | `TypeCorrect` | `Spec => []TypeOK` |
| | `AlignedAlways` | `FreshStart => (Spec => []Aligned)` |
| | `BufferHeldAlways` | `FreshStart => (Spec => []BufferHeld)` |
| | `RestAfterSessionAlways` | `FreshStart => (Spec => []RestAfterSession)` |
| | `Implementation` | `FreshStart => (Spec => ImplementsReader)` |
| | `GzTypeCorrect` | `GzSpec => []GzTypeOK` |
| | `BufferKept` | `GzSpec => []NothingOverwritten` |
| | `WholeSucceeds` | `GzSpec => []WholeStreamSucceeds` |
| | `GzImplementation` | `FreshStart`, all `Archives` complete: `GzSpec => ImplementsReaderUnlessDamaged` |
| | `EverythingExpanded` | `FreshStart`, all `Archives` complete: `GzSpec => []SuccessMeansExpanded` |
| `TarFilesProofs` (1835) | `TypeCorrect` | `Spec => []FilesTypeOK` |
| | `FilesLeftAlone` | `FreshStart => (Spec => LeavesFilesAlone)` |
| | `Implementation` | `Spec => ImplementsReader` |
| | `HealthySucceeds` | `FreshStart => (Spec => []HealthyFilesSucceed)` |
| | `EverythingOnDisk` | `FreshStart`, `HealthChecks`: `Spec => []SuccessMeansOnDisk` |
| `LZStreamWriterProofs` (1363) | `TypeCorrect` | `Spec => []LzTypeOK` |
| | `InOrder` | `Spec => []CompressedInOrder` |
| | `SizedWhole` | `Spec => []SizedMeansWhole` |
| `InflateProofs` (1612) | `TypeCorrect` | `Spec => []InTypeOK` |
| | `OutputCorrect` | `Spec => []OutputExact` |
| | `OkWhole` | `Spec => []OkMeansWhole` |
| `UnpackerSessionProofs` (1336) | `TypeCorrect` | `Spec => []SsTypeOK` |
| | `RightPlace` | `Spec => []WritesWhereAsked` |
| | `ResultTells` | `Spec => []ReturnTells` |
| `UpdaterProofs` (4011) | `TypeCorrect` | `Spec => []UpTypeOK` |
| | `WholeImages` | `Spec => []CommittedIsImage` |
| | `SuccessFlashed` | `Spec => []SuccessMeansFlashed` |
| | `SoundSucceeds` | `Spec => []SoundUpdateSucceeds` |
| `TarPackerProofs` (3308) | `PackerTypes` | `Spec => []PkTypeOK` |
| | `LayoutIsKept` | `Spec => []LayoutKept` |
| | `FullSizeIsArchive` | `Spec => []FullSizeMeansArchive` |
| `GzMemberProofs` (7521) | `MemberComesBack` | `WriterInit /\ Spec => []RoundTrip` |
| | `SilenceIsWaitedFor` | `Spec => GivesUpAfterTimeout` |

**Assumptions.** The `ASSUME`s of the modules type the constants and ask for sizes that are not
zero; TLC evaluates each on the runs. `FreshStart`
says that a device which was left in the middle of something is rebooted before the next session. It is
an assumption about use, and the code does not enforce it: for `Untar`, that no static is left set
(without it, `Aligned` is false: section 6, `untar.c:274`); for `TarFiles`, that no handle is left open (without it
a session writes to a file of the one before, or closes it: `LibUnpacker.cpp:724`). A theorem has it as a
hypothesis only where it is needed: no type invariant is, and neither are `BufferKept`,
`WholeSucceeds` and the refinement of `TarFiles`. `HealthChecks` is
`unTarDoHealthChecks`, which is true on an ESP32 until `setPsram(true)` clears it, and false on the other boards
(`LibUnpacker.cpp:113, 190`): there, nothing compares what was written with what is on the filesystem.
`WriterInit` says that the member is one that this library writes; of the members of other programs, which are
any bytes to the model, there is nothing to say but what TLC finds of those in the run.

An archive is `Complete` when it has all the blocks its headers announce, and a second empty header behind them. The two
theorems of `GzUncompressProofs` that say what tar makes of the blocks are about such archives (`ASSUME WholeStreamsAreComplete` in
`MCGzUncompress` has TLC evaluate it on those of the runs; `pack_tar_impl` writes no other). Without it they are false, and for a reason that is in
the code: `gzFeedTarBuffer` knows the size of the buffer but not how much of it was filled, so that a tar machine that asks for more
than the last buffer holds is given what an earlier one left there.

The modules prove in the same way: an inductive invariant `IInv` of named conjuncts, with the
property among them; a lemma per action that the step keeps it; a lemma for `UNCHANGED`; and
`Invariance`. A step that only moves, or only returns, is a lemma that several actions use. What each
invariant says, and why the property is not inductive without it:

### The tar machine (`GzUncompressProofs`, first part)

None of the three safety properties is inductive. `IInv` is all of them with
`TypeOK`. `Aligned` holds after `tar_setup` only if the statics are at rest; that they are,
unless a write was refused, is `RestAfterSession`; a session that failed in any
other way got there from a state in which `Aligned` says which counters are zero; and that
no step is taken with an error pending is `BufferHeld`. There is one lemma per
conjunct (`StepTypeOK`, `StepAligned`, `StepBuffer`, `StepRest`), each with one case per path
of `read_tar_step`; `Invariance` joins them.

*Refinement.* A block is consumed, for the reader, when its header is handled or its data is
delivered, which is up to two calls after it was read: `Position` subtracts what
is still in the buffer. `InsideView` and `BetweenView` give the value of the mapping in the two
kinds of state `Aligned` allows; then one lemma per action shows the step of `TarReader` it is (`RefinedExpandData`
is a `Write`, `RefinedOpenAndRead` a `Header`, ...) or that it is none.
`NoHeaderExpanded` is where `FreshStart` enters: `OpenAndExpand`, the action which
the reader does not allow, is not enabled.

### From gz to tar (`GzUncompressProofs`, the rest)

`GzIInv` says where the call is (`Stages`) and where the blocks are (`Taken`): before
the end of the stream a buffer is full when it is handed over, so that what tar has taken and what it has
left add up to what was decompressed; `gzTarBlockPos` is at the end of the buffer when the decompressor goes on.
`NothingOverwritten` follows, and needs both. The ring is not lapped because a call of `read_tar_step` takes one
block at the most (`OneBlock`): the code's own comment says it "may fire more than 1", and checks for
it afterwards. `WholeStreamSucceeds` needs `outlen > 0` at the end, which in turn needs that a
session has written a buffer before it can end (a conjunct of `Stages`).

*What tar makes of the blocks* takes more. `GzSound` adds what is where: `Pushed`, that the buffer holds the blocks behind
those tar has, each in its slot (`Contents`), in numbers that add up at every point of the call (`Counted`); `Pulled`, the same without a buffer;
`Given`, that the machine, while the stream is intact, is `Upright`, which is the invariant `IInv` of the machine with `OnRoute`.
This is what makes tar ask for no block behind the end: the header it is at, or looks for, is
one of the archive, and `entry_index` is the number of entries of the headers before it (`Tally`).

The number of entries of an archive is by nature recursive, and an archive is no recursive datum here. It is therefore stated as
the headers on *every* route: a set of places that has the first block, and with each place the one its header leads to (`Following`).
`HeadersOf` is the least such set. The invariant needs two facts of it, and both follow without induction by taking
places away from it and finding that it is still a route: between a header and the next there is none (`Advance`), and
behind the second empty one there is none (`LastOne`).

The refinement is then one lemma per action (`...Kept`): each slot tar takes holds the block the reader is to get (`ProcessStepKept`), so that a step of the call
is one of the machine's (`StepRefined`) or leaves the machine alone. For `SuccessMeansExpanded`, `Expanded` says that tar has ended all entries as soon as
`lastblock` is set or the loop is left: in the first case it met the second empty header (`DoneExpanding`), in the second it took
every block, and still lives (`GoesOn`), since the step that took the last one failed no callback (`TakenLive`).

### The files (`TarFilesProofs`)

`Driven` (types, and that the loop of `read_tar` is where its counters say) carries the refinement: each
iteration is a step of `TarReader`, with one lemma per action (`Refined...`). It is a second implementation of the
same abstract machine, and needs no `FreshStart`: the loop has its state in locals. `LeavesFilesAlone`, an
action property, needs `Handle`: `untarredFile` is open only for the file that is being expanded, or
after a session that failed.

What a session leaves is compared with the archive as a whole, and not with the entries as they come. The
headers of an archive are the least set of positions that has the first block and is closed under `After`
(`Chain`). `Advance` is the lemma that takes the place of an induction: between a header and the one that follows it there is
no other, since the set without it would be a smaller one. `Tally` then says that `read_tar` is at a header of the archive, and that its
counters are what `Had`, the headers behind it, holds. `Writing` is about the file that is being written: its handle is at its end, and as
long as the filesystem behaves, so is the file. It gives `HealthyFilesSucceed` by itself: none of the three
checks can then fail. `OnDisk` says that every other path has its last file among those of `Had`, whole. A file joins it by `FileEnds`,
which is where the health checks are needed: without them a lost write leaves a short file, and the session succeeds.
At the end, `Had` is all there is (`AtTheEnd`).

### The compressor (`LZStreamWriterProofs`)

The source is given in writes, kept in a buffer, compressed when that is full, and what was compressed
is pending until the destination takes it. `InPlace`, `BufferFilled`, `Compressed` and `Pending` each
say of one of these what its bytes are, as positions of the source; `WholeSoFar` adds them up: what the destination has, with
what is pending and what is in the buffer, is all that was read. `SizedMeansWhole` is that, at the end of a call.

### The decompressor (`InflateProofs`)

`Window` says that a slot of the ring holds the last byte of the output whose position is congruent to
it modulo `dict_size`; `OutputExact` follows, since a distance of at most `dict_size` is then read from
where it was written (`ModDistinct`, `ModBack`). `Exact` says that what was written to the file, with what is in `output_buffer`, is a
prefix of `expanded`; `Matching`, that a match that is being copied has the bytes it still
needs before it, also when it copies what it has just written. The first part of `OkMeansWhole` is in `SourceOK`: no byte was given up
while the stream is what was packed and the loop runs, so that one which is OK all the same was given up behind the checksum.

### The calls of an unpacker (`UnpackerSessionProofs`)

`Installed` ties the write callback, a global that outlives a call, to the kind of the calls before; `Armed`
ties `firstblock`, `lastblock` and the state of the tar machine to it; `Wrote`, where the chunks of
this call went. `fits`, on which the properties depend, is read when the call begins; these say that it
remains true until the call ends. `Ended` and `Buffers` are about what a call leaves.

### The updates (`UpdaterProofs`)

`Stages` ties the partition to where the update is: between `begin` and `end`, what was written is a prefix of
the image that was announced; `Roomy`, that it does not pass its end; `Inflated` and `Unpacked` are the
two ways of writing it. `CommittedIsImage` is then what `end(true)` finds. `Results` ties the codes to what was
flashed, which `SuccessMeansFlashed` and `SoundUpdateSucceeds` read in the two directions.

`Writer` is about what a call found: the entries of an archive are handled only where tar was set up (`firstblock` is clear), with
its statics at rest if the call is `fresh`; an archive goes raw only where the writer is not that of tar. It is an invariant
of its own (`NextWriter`), and `Inductive` joins it to the others, which need it where an archive succeeds or fails.

### The packer (`TarPackerProofs`)

`Written` is the number of blocks that are *to be written* up to where the call is: those that the collected sizes ask for
of the entities before, and what was begun of this one. `Bounded` is the heart of the invariant `PkIInv`: `total_bytes`, which
counts what the destination took, is never more than `Written` blocks; and if it is just as much, the archive is whole so
far (`WholeSoFar`): its headers are where the collected sizes place them (`PlaceIn`), each entity has its blocks behind its header, no
other block is a header, and where no file has changed the blocks hold what was collected (`Filled`). `Planned` is
the same without the count, while the destination takes what it is given and sizes are exact; `Steady` is what
has not changed while `changed` is not set (a read that gives too little sets it, too), the position in the source file among it; `Stages` and `Listed` say where the call is, and what the two lists are.

What makes it inductive is a fact about floats: a size rounded to a float never has more
blocks than the size itself (`FloatBlocks`). Rounding may go up, but not past the next whole number of blocks, since
that is a float too: below 2^33 bytes (`CallsAssumption`) the unit of the last place divides a block, as both are powers
of two (`PowerAssumption`). Where it goes down, blocks are left out, and `total_bytes` falls behind `Written` for good. So
the last block that a float may lose (`LibPacker.cpp:897`) and a write that is shortened (`LibPacker.cpp:802`) cannot make up for one another: a
call that returns the estimated size left nothing out (`LastBlock`).

Each step is one of a few kinds (`Kinds`): a write that goes on or ends something, a move, or a failure. One lemma per
action says which kinds it is, and one per conjunct that every kind keeps it.

`ReadFrom`, what a reader makes of an archive, is a recursion from its end over positions; `Estimate` one over the list. Both are
functions, so `Recursion` says that there is one which does as they say, and `OneFunction` that there is no other. The function that is wanted
is then given in closed form, and shown to be it: `PlaceIn` and `PlaceIs` for `Estimate`, `ReadIs` for
`ReadFrom`. `Induction`, which they rest on, follows from the fact of the library that `<` is well-founded.

### From the writer to the reader (`GzMemberProofs`)

`RoundTrip` is about two programs that never meet: what relates them is the stream of bits. A *node* is a place of the stream
where something begins, with the number of bytes of the input that are before it: a block (`AtBlock`), a symbol of one that is the last or is
not (`AtSymbol`), an empty stored block (`AtEmpty`), the trailer (`AtTrailer`). A *road* is a set of nodes each of which `Goes` on
to another one of the set by what the stream `Spells` there: a literal that is the next byte of the input, a match that
`Repeats` it, the end of a block. This takes the place of a grammar and of its induction.

- *The writer* (`WriterInv`) is always at the end of a road (`Writing`), and each of its steps makes it longer: `BlockBegins`,
  `LiteralIsWritten`, `MatchIsWritten`, `BlockIsEnded`, `MemberIsEnded`. Whatever is in the hash table,
  `Match` compares the bytes before it copies, so that no more is needed of the table than that it holds positions. What it compares is
  `inputBuffer`, which is the chunk (`BufferHolds`) only up to its end: a match never passes `slen`. What is in `outbits` belongs to the
  stream while a block is open, and does not between two blocks (`SoFar`). When the member is written the road goes all the way (`Finished`).
- *The reader* (`ReaderInv`) is somewhere on such a road: `Position` is where its bits end to be consumed, and `PlaceIn`
  says, by its stage, which node it has left, and what of it it still has to read. Each action arrives at a place again
  (`ReaderGoes`), since what it takes is what is spelled there. `Tight` says that it never holds a whole byte more
  than that: before a stored block and the trailer the rest of a byte is dropped, and a whole one would be lost with it.
- *The codes.* A word `Means` a symbol in a tree when `Decoded` gives it, whatever follows, and no fewer bits do. `CodeMeans` shows it of the code of
  `L` bits at a place among those of its length, from the invariants of the loop of `tinf_decode_symbol` (`CurOfCode`, `LengthOfCode`); `LiteralMeans`,
  `LengthMeans` and `DistanceMeans` apply it to what `zlib_literal` and `zlib_match` write, so that the tables of the two programs
  (`lencodes` and `length_base`, ...) are compared row by row and the codes are not.
- *Bits.* `Bits` and `Value` are recursions; that they undo each other (`ValueOfFew`), and that bytes and bits do (`FlatOfPacked`), is proved by `Recursion`, as in the
  packer. The checksum is any function of the bytes, as long as both sides run it over the same ones (`CrcIs`).

The invariant claims nothing of a member that was disturbed: a bit that was turned over makes it `~intact`, a byte that was given up `gaveUp`.
A pause is no disturbance. `SilenceIsWaitedFor` holds of all of them: `ClockInv` says that a deadline which has not wrapped is as
many turns away as are left to wait.

### What the proofs changed

- `GzMember`: a size had no width. The trailer has 32 bits for it, and `RoundTrip` says that the size it states is right: that is so below 4 GB
  only, which is now said of `Inputs`. `Bits`, `Code` and `ReadBits` each had a recursion or powers of their own, and are now two operators and
  what is made of them (`BitSequences`); the header of a block and the test of a stored length are written as the code has them.
- `TarPacker`: `BlocksKept`, a premise of `FullSizeMeansArchive`, was about a subsequence of the archive, picked by a fold; it is now about
  the headers among its blocks. The unit of a float was a recursion inside an operator, and is `Two[e]` for the first `e` that
  `Holds`. That names are over a given set of characters (`Letters`), that a block is a power of two,
  and that a file is shorter than 2^33 bytes was not said anywhere, and now is.
- `UnpackerSession`: `RefusesStart` had a disjunction that took in less than it should have (a matter of precedence).
  TLC had no state that showed it; the proof of `ResultTells` stopped there.
- `Inflate`: `Copied`, what a match stands for, is a closed form, the byte at a remainder of its distance, instead of a recursion. It is proved equal to
  copying one byte after the other, which is what the code does (`Matching`).
- `Updater`: `SuccessMeansFlashed` counts the images before an entry as a set instead of filtering a sequence. The bound on `outlen` was
  of the instance, and not of the code.
- `GzUncompress`: `EntriesOf` was a recursion over the archive. It is the number of named headers on every route, which can be reasoned about;
  TLC checks `SuccessMeansExpanded` with it as before.
- `TarFiles`: the constant `Archives` was used as a set of sequences of blocks, and nothing said so
  (`ArchivesAssumption`). `Headers` was a recursion over the archive, and is now the least set that is closed under `After`.
- `TarFiles`: `HealthyFilesSucceed` left out archives with an ignored entry, and was false for one with a directory that
  has data: `tarStreamWriteCallback` writes that to the closed handle of the file before it as well. `WriteRefused` was the case that could not
  be proved. It now asks that only files have data, which also lets ignored entries in that have none; the run has such
  directories.

### Only model-checked

- Liveness, which with `ENABLED` is out of the prover's reach: `SessionEnds`, `CallReturns`, `CompressReturns`, `MemberReturns`.
- `TreeComesBack`: what `mkpath`, `dirname` and `trim` make of a name, and the state a filesystem is in after all entries of an archive, are folds
  over characters and over headers, and whether two names of one folder collide after `th_set_path` is a question
  about strings of any length. TLC answers it for the names that are at the limits of a header.
- `DoneMeansWhole`, which is about members that were disturbed: for long ones it is false, as two inputs may have one checksum, so that it can
  only be checked of those in the run. `GmTypeOK`: the stages have their types with trees that another program makes only if these are
  sound, which the code does not ask (section 7).

No module has a `RECURSIVE` operator.

## 6. What the models showed

### Disagreements with what the repository says (a run shows each)

- `gz_pull_failure`. `LibUnpacker.cpp:1326`: pull mode drops the code on which
  `read_tar_step` stopped. A write refused by the filesystem ends in `ESP32_TARGZ_OK`, where
  `README.md:511` and `515` say 0 is "no error".
- `lz_grown`. `LibPacker.cpp:282`: a buffer that grows when compressed loses input, and
  the "end health check" of `LibPacker.cpp:158` is never reached.

### Behaviour met while modelling

These are in the models, as steps or as the exceptions of properties, unless noted.

- `LibUnpacker.cpp:1369`: `TINF_CHKSUM_ERROR` and `TINF_DATA_ERROR` are logged only, and the call
  returns `ESP32_TARGZ_OK`; `README.md:535` lists them as results. (`InflateEnds`. In `Updater`,
  `damaged`: a `.gz` image that is cut or corrupt is filled with zeros and becomes the content of its
  partition.)
- `untar.c:416`: an archive that is cut between two entries is a success, where `untar.c:412` says
  that two empty entries are the end. (`EndOfArchive`.)
- `LibUnpacker.cpp:1604` and its like: a write callback stays installed and is a global of all
  unpackers. After `tarGzStreamExpander`, `gzExpander` returns true and leaves an empty file: the archive has
  ended, and `gzProcessTarBuffer` takes anything; `tarGzExpander` with a temporary file then succeeds
  with nothing expanded. After `tarGzExpander` without one, `gzExpander` fails with -39. After
  `gzExpander`, `tarGzStreamUpdater` writes through a handle that is gone. (`fits` excludes these.)
- `LibUnpacker.cpp:1078`: a refused `Update.write` sets no error, so that `gzUncompress` returns
  `ESP32_TARGZ_OK`, or an old error. What keeps a half written image from being committed is that
  `Update.end` remembers.
- `LibUnpacker.cpp:2203`: `tarGzStreamUpdater` installs its writer only if there is none, and `gzStreamUpdater` and
  `gzUpdater` leave theirs (`:1862`). After one of them, an archive goes to `Update.write` as it is. Where no update was left
  open each write is refused, and the call returns `_error`: true if that is `ESP32_TARGZ_OK`, with nothing flashed, and false with
  the old error otherwise, however sound the archive is. (An update that was left open takes the raw bytes, and is not ended.) (`UpdateArchive`, `AfterRaw`; exceptions of `SuccessMeansFlashed` and
  `SoundUpdateSucceeds`.)
- `LibUnpacker.cpp:1391`: with an image that fills its last sector, the zero fill writes 0 bytes, and that is
  a failure of the callback. It does no harm unless `_error` holds an old error, which `gzStreamUpdater`
  does not clear: then a sound image is refused.
- `LibUnpacker.cpp:854`: `Update.end` runs for each entry of an archive, those that are "not relevant to
  Update" included; `examples/Test_tar_gz_tgz/SD/README.md` says that other files "are ignored". Whether
  they are is up to what `Update.end` returns when nothing was begun.
- `LibUnpacker.cpp:814`: an update that fails is not aborted, and `tarBlockIsUpdateData` stays set: the data of
  an entry that is not for `Update` may be appended to the image of the failed call. (`fresh` excludes it.)
- `LibUnpacker.cpp:821, 871`: `tarGzStreamUpdater` calls `tarProgressCallback` and `tarMessageCallback`, and
  does not set them as the other expanders do. (`Crashes`.)
- `LibUnpacker.cpp:1572`: `gzStreamExpander` without a name for its file returns false and sets no error.
- `LibUnpacker.cpp:1320`: when pull mode has no memory for the tar machine, `output_buffer` and the
  dictionary leak.
- `LibUnpacker.cpp:1230` (excluded from `FeedInsideBuffer`, a conjunct of `SsTypeOK`): on an ESP8266 `tarGzStreamUpdater` may feed two blocks
  from a buffer of one.
- `untar.c:274`: `block_read` stays set after a refused write. The next session then writes the
  *header block* of its first entry as data and is one block late. (`OpenAndExpand`;
  excluded by `FreshStart` from `Aligned`.)
- `untar.c:308`: `readstep` is left alone by `tar_setup`; a push session whose end marker takes
  the last slot of the buffer stops with it set. An update whose source runs dry stops between two steps as well, with
  either static set, and the next archive is misread. (`Stops`, `TarMisreads`; excluded by `fresh`.)
- `LibUnpacker.cpp:706, 926`: the data of an entry of an ignored type (a pax header, a link), or
  of a directory, is written to the closed handle of the file before it, and the expansion fails. `HealthyFilesSucceed`
  leaves archives with such data out.
- `LibUnpacker.cpp:724`: `untarredFile` stays open when a session fails in the middle of a file. A retry
  whose first entry does not open another compares its header with the old handle.
- `LibUnpacker.cpp:606`: without free space the header callback refuses, but does not set the code
  `README.md:522` gives for it.
- `LibUnpacker.cpp:662`: a long name sets an error that is found after a success.
- `LibUnpacker.cpp:1413`: success is "some bytes were written". In pull mode an archive of empty files
  is a `STREAM_ERROR`.
- `LibUnpacker.cpp:1948`: when `tar_setup` has no memory, `gzUncompress` returns whatever
  `_error` held, `ESP32_TARGZ_OK` included: an update is then a success that has flashed nothing. (`TarSetupFails`; an exception
  of `SuccessMeansFlashed`.)
- `LibUnpacker.cpp:1095`: `gzStreamWriteCallback` takes a short write for a whole one, and writes
  the whole buffer again after a write of 0.
- `tinflate.c:736`: the size at the end of a stream is read and dropped, and whether it could be read is not asked, neither here nor
  by `gzUncompress`, which looks at `readSourceErrors` only where the code is not `TINF_DONE` (`LibUnpacker.cpp:1369`). A
  stream that ends in it is `ESP32_TARGZ_OK`; what was inflated is whole, as its checksum says. (`SizeUnread`, and
  `SkipSize` in `GzMember`; the exception of `OkMeansWhole` and of `DoneMeansWhole`.)
- `tinflate.c:502`: distances are compared with the size of the ring, not with how much was written;
  without a ring the check needs `destStart`, which is never set.
- `LibPacker.cpp:494`: `write` returns `(size_t)-1` on error and its caller compares with 0.
- `LibPacker.cpp:175`: if the header cannot be written or the compressor cannot be set up, the destructor frees
  what was not allocated.
- `LibPacker.cpp:521`: from a buffer to a stream no answer of the destination is looked at: a size is
  returned whatever was written. (`CompressBytes`.)
- `LibPacker.cpp:552`: the guard of stream to file is inverted, `srcLen > 0`. A source that is not empty is
  refused; an empty one truncates the file. (`ToFile`.)
- `LibPacker.cpp:1018`: `ret ? size : -1` takes -1 for a success. (`Return`.)
- `LibPacker.cpp:826`: the path that is to be ignored, the archive itself, is compared with `nullptr`.
- `LibPacker.cpp:895, 927`: a file which changes its number of blocks while it is packed shifts all
  entries after it. The total still equals the estimate, which is what "Success" is
  decided on.
- `LibPacker.cpp:799`: a read that gives less than a block is padded with zeros in the middle of a file too, and packing goes
  on: all bytes of the file behind it are moved, and its last ones may be left out, in an archive of the right size.
  (`AddBodyChunk`; `FullSizeMeansArchive` says of the content of such files nothing.)
- `LibPacker.cpp:897`: a file above 16 MiB may lose its last block to `float`.
- `LibPacker.cpp` (not in a model): `tar_block` and `src_file` leak on the failure paths of packing.
- `LibUnpacker.cpp:1185`: near the wrap of `millis()` a byte is given up after one look
  (`DeadlineWrapped`); when the deadline is the last value of the clock the wait has no end but an answer
  (the first exception of `MemberReturns`).
- `tinfgzip.c:99`: when the stream ends inside a name or a comment, the loop looks for its end in
  what the stack holds, one timeout per byte. (The second.)
- `tinflate.c:627`: a byte that was lost in the header is forgotten, and the blocks are read out of their place.
  That this is never called done is `DoneMeansWhole`.
- `tinflate.c:482`: a distance that could not be read is negative, and two tables are read before their start.
  In every case that is an error, one or another. (`DistanceSymbol`.)
- `libtar.c:193`: a name that fills its field loses its last character to the end of the string (a path of 99
  characters, with its dot): two such files may become one. Of a longer path the first part goes to a field
  that `tarHeaderCallBack` does not look at.
- `libtar.c:196`: a path of exactly `T_NAMELEN` characters, with no prefix, is too long with its dot, and loses its first slash
  instead. If a blank follows it, that is now the first character of the name, and the reader trims it.
- `path_tools.h:91`: `mkpath` does not return for a path that has no root, or begins with `//`. A `tar_prefix` that
  begins with `/` makes such a path of every name that is expanded to `/`.
- `path_tools.h:109`: the folders of a name outside ASCII are not made, and its file cannot be
  created.
- `LibUnpacker.cpp`, `trim`: a name that ends in a blank comes back without it. Folders that hold no file
  do not come back. (These six are the exceptions of `TreeComesBack`: `Survives`.)
- `LibUnpacker.cpp:1809` (not in a model): an ESP8266 takes a stream that pauses for one that has ended, and
  commits what has come.

## 7. What is left out

Per module, and so outside of what its properties say:

- **Untar.** Bytes of a header: octal numbers, names, checksums (`parse_header` does not
  verify them). The context pointer.
- **GzUncompress.** The `.gz` header and the bits, which are in `GzMember`; allocation of the dictionary, but
  for its failure. Files and their callbacks are outcomes.
- **TarFiles.** `read_tar` does not check its `malloc`; the model has one that
  succeeds. MD5 sums, progress and messages. `haltOnError`, which
  stops the device at the first error. `mkpath` is a directory that exists.
- **UnpackerSession.** What tar and `Update` do with what they are given is an outcome. The other boards have
  the paths of one of the two. `noDict`, PSRAM, and the callbacks for progress and messages.
- **Updater.** What tar makes of the rest of a buffer when an archive breaks off, and of blocks that it misreads, but for how the call
  returns. The bytes of an archive that goes to `Update` raw. The writers that other unpackers leave installed, or the
  caller with `setStreamWriter` (the former are in `UnpackerSession`). The update of an
  ESP8266, where the boot loader inflates. `GzUpdateClass::abortgz`.
- **LZStreamWriter.** Which bytes the compressor makes (`Deflate` has them). The growing buffer of
  `LZBufferWriter`, but that it may have no memory. Progress.
- **TarPacker.** Owner, mode, date and checksum of a header, which nothing in the repository reads; the callbacks
  for progress. The buffers of 256 that paths are copied through. What a filesystem makes of a name
  (case, forbidden characters), and a destination that ends in `/`.
- **Inflate.** Huffman tables and bits: a symbol is chosen. Whether a symbol is read from a source
  that ran dry is `readSourceErrors`, and then it may be any symbol. Checksums: a
  stream that was corrupt or dry anywhere before the size has a wrong one.
- **GzMember.** The buffers and the file that output passes through (`Inflate` has them). A code of a distance tree
  that stands for nothing. A stream that is disturbed twice. A bit that announces an extra field.

`gzUncompress` to a partition is in `Updater` by its callbacks only. Not modelled at all: `tinfzlib.c` and `adler32.c`, which nothing of the library calls; MD5, which only a log shows; the
logger and the platform configuration (no state); the Teensy layer (forwards each call).

## 8. The plan

Done, in this order, the most important first: the tar machine with its abstract
specification and its proofs; the glue from gz to tar; the file callbacks;
the two packers; the decompressor; the calls of an unpacker and what they leave to each other; the
updates; a `.gz` from writer to reader over a stream that misbehaves; the names of an archive, from
folder to folder; the other destinations of the compressor. What is left to model:

1. The update of an ESP8266 (`LibUnpacker.cpp:1757`), with `GzUpdateClass::abortgz`.
2. `gzUncompress` in update mode as a part of `GzUncompress`, so that `Updater` has its buffers.
3. The capacity of `LZBufferWriter`.

