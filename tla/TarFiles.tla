------------------------------ MODULE TarFiles ------------------------------
(***************************************************************************)
(* Expanding a .tar to a filesystem: TarUnpacker::tarStreamExpander, the   *)
(* loop of read_tar it runs (src/src/TinyUntar/untar.c), and the three     *)
(* callbacks that loop calls (src/src/libunpacker/LibUnpacker.cpp), which  *)
(* share one file handle, untarredFile, that outlives the session.         *)
(*                                                                         *)
(* Sizes are counts of 512-byte blocks. An archive is a sequence of blocks *)
(* known by what a header parser sees in them; a file of the filesystem is *)
(* known by the header it was opened for and the blocks it holds.          *)
(***************************************************************************)
EXTENDS Integers, Sequences, FiniteSetsExt

CONSTANTS
  Archives,      \* what a session may be opened on
  Paths,         \* the paths of their entries
  LongPaths,     \* those of more than 32 characters
  SkippedPaths,  \* those the filters exclude
  Faults,        \* what the filesystem may do, a subset of FaultKinds
  HealthChecks,  \* unTarDoHealthChecks
  LimitedFs,     \* WARN_LIMITED_FS is defined
  FreshStart     \* TRUE: the device is rebooted when a session left a file open

Types == {"file", "dir", "ignored"}
FaultKinds == {"full", "open", "create", "short", "lost", "reopen"}
Block == [named : BOOLEAN, blocks : Nat, type : Types, path : Paths]
ASSUME ArchivesAssumption == Archives \subseteq Seq(Block)
ASSUME PathsAssumption == LongPaths \subseteq Paths /\ SkippedPaths \subseteq Paths
ASSUME ConfigAssumption == /\ Faults \subseteq FaultKinds
                           /\ {HealthChecks, LimitedFs, FreshStart} \subseteq BOOLEAN

\* esp32_targz_types.h, and the codes of untar.h after the offset of -30.
ESP32_TARGZ_OK == 0
ESP32_TARGZ_FS_ERROR == -1
ESP32_TARGZ_TAR_ERR_DATACB_FAIL == -32
ESP32_TARGZ_TAR_ERR_HEADERCB_FAIL == -33
ESP32_TARGZ_TAR_ERR_FOOTERCB_FAIL == -34
ESP32_TARGZ_TAR_ERR_READBLOCK_FAIL == -35
ESP32_TARGZ_TAR_ERR_FILENAME_TOOLONG == -40

VARIABLES
  archive,            \* the stream
  pos,                \* blocks of it handled
  pc,                 \* where read_tar is
  cur,                \* position of the header being expanded, 0: none
  i,                  \* data blocks of it written
  empty_count, entry_index,
  files,              \* the filesystem
  untarredFile,       \* the handle: open or not, its path, its position
  output,             \* tarGzIO.output # nullptr; it points to untarredFile
  tarSkipThisEntry,
  totalFiles, totalFolders,
  _error,
  returned,           \* "no" while tarStreamExpander runs, then "true" or "false"
  faulty,             \* the filesystem misbehaved in this session
  calls               \* the callbacks of the last step

loop == <<archive, pos, cur, i, empty_count, entry_index>>
disk == <<files, untarredFile, output>>
counts == <<totalFiles, totalFolders>>
vars == <<loop, pc, disk, tarSkipThisEntry, counts, _error, returned, faulty, calls>>

Absent == [from |-> 0, len |-> 0]
Closed == [open |-> FALSE, path |-> "", pos |-> 0, real |-> FALSE]
HeaderCall(h) == [cb |-> "header", block |-> h, last |-> FALSE]
WriteCall(b, isLast) == [cb |-> "write", block |-> b, last |-> isLast]
EndCall(h) == [cb |-> "end", block |-> h, last |-> FALSE]
May(fault) == fault \in Faults
Entry == archive[cur]

Init ==
  /\ archive = <<>> /\ pos = 0 /\ pc = "idle" /\ cur = 0 /\ i = 0
  /\ empty_count = 0 /\ entry_index = 0
  /\ files = [p \in Paths |-> Absent] /\ untarredFile = Closed /\ output = FALSE
  /\ tarSkipThisEntry = FALSE /\ totalFiles = 0 /\ totalFolders = 0
  /\ _error = ESP32_TARGZ_OK /\ returned = "no"
  /\ faulty = FALSE /\ calls = <<>>

Reboot ==
  /\ archive' = <<>> /\ pos' = 0 /\ pc' = "idle" /\ cur' = 0 /\ i' = 0
  /\ empty_count' = 0 /\ entry_index' = 0
  /\ files' = files /\ untarredFile' = Closed /\ output' = FALSE
  /\ tarSkipThisEntry' = FALSE /\ totalFiles' = 0 /\ totalFolders' = 0
  /\ _error' = ESP32_TARGZ_OK /\ returned' = "no"
  /\ faulty' = FALSE /\ calls' = <<>>

-----------------------------------------------------------------------------
\* tarExpander without its source file: no session.
SourceMissing ==
  /\ pc = "idle" /\ _error' = ESP32_TARGZ_FS_ERROR /\ returned' = "false"
  /\ UNCHANGED <<loop, pc, disk, tarSkipThisEntry, counts, faulty, calls>>

\* The files of the sessions before: -1, for this one.
Aged == [p \in Paths |-> IF files[p] = Absent THEN Absent ELSE [files[p] EXCEPT !.from = -1]]

\* tarStreamExpander up to read_tar, and the head of read_tar.
Start(a) ==
  /\ pc = "idle" /\ (FreshStart => ~untarredFile.open)
  /\ pc' = "header" /\ archive' = a /\ pos' = 0 /\ cur' = 0 /\ i' = 0
  /\ empty_count' = 0 /\ entry_index' = 0 /\ files' = Aged
  /\ totalFiles' = 0 /\ totalFolders' = 0
  /\ _error' = ESP32_TARGZ_OK /\ returned' = "no"
  /\ faulty' = FALSE /\ calls' = <<>>
  /\ UNCHANGED <<untarredFile, output, tarSkipThisEntry>>

Succeed == pc' = "idle" /\ returned' = "true"
\* read_tar returns a code that is not TAR_OK, or one of its callbacks does.
Fail(code) == pc' = "idle" /\ cur' = 0 /\ i' = 0 /\ returned' = "false" /\ _error' = code

\* Two empty headers end the archive.
HeadersLeft == empty_count < 2

\* It ended, or there are no more blocks: the session is a success either way.
EndOfArchive ==
  /\ pc = "header" /\ (~HeadersLeft \/ pos = Len(archive))
  /\ Succeed /\ calls' = <<>>
  /\ UNCHANGED <<loop, disk, tarSkipThisEntry, counts, _error, faulty>>

AtHeader == pc = "header" /\ HeadersLeft /\ pos < Len(archive)

EmptyHeader ==
  /\ AtHeader /\ ~archive[pos + 1].named
  /\ pos' = pos + 1 /\ empty_count' = empty_count + 1 /\ entry_index' = entry_index + 1
  /\ calls' = <<>>
  /\ UNCHANGED <<archive, cur, i, pc, disk, tarSkipThisEntry, counts, _error, returned, faulty>>

\* (A bug: the filters are not asked.)
NoFilter(path) == path # path
\* tarSkipThisEntryOut, tarSkipThisEntryIn
Filtered(path) == path \in SkippedPaths

\* The call of tarHeaderCallBack for the next header, of one of the types.
HeaderCallBack(types) ==
  /\ AtHeader /\ archive[pos + 1].named /\ archive[pos + 1].type \in types
  /\ pos' = pos + 1 /\ calls' = <<HeaderCall(pos + 1)>>
  /\ tarSkipThisEntry' = Filtered(archive[pos + 1].path)
  /\ UNCHANGED <<archive, empty_count, entry_index, totalFiles>>
\* It returned ESP32_TARGZ_OK: read_tar goes on with the data.
Accepted == pc' = "data" /\ cur' = pos + 1 /\ i' = 0 /\ UNCHANGED returned

\* The free space is looked at first, for an entry that will be skipped too. The
\* code is not passed to setError.
NoSpace ==
  /\ HeaderCallBack({"file"}) /\ May("full")
  /\ Fail(ESP32_TARGZ_TAR_ERR_HEADERCB_FAIL)
  /\ faulty' = TRUE /\ UNCHANGED <<disk, totalFolders>>

SkipFile ==
  /\ HeaderCallBack({"file"}) /\ tarSkipThisEntry' /\ Accepted
  /\ UNCHANGED <<disk, totalFolders, _error, faulty>>

\* real: the file is on the filesystem under its path. Where names are cut short
\* it is not, and open returns a handle nevertheless.
OpenFile(real) ==
  LET path == archive[pos + 1].path
  IN /\ HeaderCallBack({"file"}) /\ ~tarSkipThisEntry' /\ Accepted
     /\ real \/ (May("create") /\ files[path] = Absent)
     /\ untarredFile' = [open |-> TRUE, path |-> path, pos |-> 0, real |-> real]
     /\ files' = IF real THEN [files EXCEPT ![path] = [from |-> pos + 1, len |-> 0]] ELSE files
     /\ output' = TRUE
     /\ _error' = IF path \in LongPaths /\ LimitedFs
                  THEN ESP32_TARGZ_TAR_ERR_FILENAME_TOOLONG ELSE _error
     /\ faulty' = (faulty \/ ~real) /\ UNCHANGED totalFolders

CannotOpen ==
  /\ HeaderCallBack({"file"}) /\ ~tarSkipThisEntry' /\ May("open")
  /\ untarredFile' = Closed /\ Fail(ESP32_TARGZ_TAR_ERR_HEADERCB_FAIL)
  /\ faulty' = TRUE /\ UNCHANGED <<files, output, totalFolders>>

\* Anything that is not a file is left alone: the handle and the pointer to it too.
IgnoreEntry ==
  /\ HeaderCallBack({"dir", "ignored"}) /\ Accepted
  /\ totalFolders' = totalFolders + (IF archive[pos + 1].type = "dir" THEN 1 ELSE 0)
  /\ UNCHANGED <<disk, _error, faulty>>

-----------------------------------------------------------------------------
\* (A bug: one block too many.)
DataLeftOrOne == i <= Entry.blocks
\* while(i < num_blocks)
DataLeft == i < Entry.blocks

\* A block is read, then written.
Reading == pc = "data" /\ DataLeft

BlockMissing ==
  /\ Reading /\ pos = Len(archive)
  /\ Fail(ESP32_TARGZ_TAR_ERR_READBLOCK_FAIL) /\ calls' = <<>>
  /\ UNCHANGED <<archive, pos, empty_count, entry_index, disk, tarSkipThisEntry, counts, faulty>>

\* A call of tarStreamWriteCallback.
WriteCallBack ==
  /\ Reading /\ pos < Len(archive)
  /\ calls' = <<WriteCall(pos + 1, i >= Entry.blocks - 1)>>
  /\ UNCHANGED <<archive, empty_count, entry_index, output, tarSkipThisEntry, counts>>
WriteReturnsOK == pos' = pos + 1 /\ i' = i + 1 /\ UNCHANGED <<cur, pc, returned, _error>>

SkipBlock ==
  /\ WriteCallBack /\ (tarSkipThisEntry \/ ~output) /\ WriteReturnsOK
  /\ UNCHANGED <<files, untarredFile, faulty>>

\* lost: write says it took the block, the filesystem does not hold it.
WriteBlock(lost) ==
  /\ WriteCallBack /\ ~tarSkipThisEntry /\ output /\ untarredFile.open /\ WriteReturnsOK
  /\ lost => May("lost")
  /\ untarredFile' = [untarredFile EXCEPT !.pos = @ + 1]
  /\ files' = IF untarredFile.real /\ ~lost
              THEN [files EXCEPT ![untarredFile.path].len = @ + 1] ELSE files
  /\ faulty' = (faulty \/ lost)

\* A short write, or a write to a handle that is closed: the session fails, the
\* handle stays as it is.
WriteRefused ==
  /\ WriteCallBack /\ ~tarSkipThisEntry /\ output
  /\ ~untarredFile.open \/ May("short")
  /\ Fail(ESP32_TARGZ_TAR_ERR_DATACB_FAIL) /\ faulty' = (faulty \/ untarredFile.open)
  /\ UNCHANGED <<pos, files, untarredFile>>

-----------------------------------------------------------------------------
\* The handle after tarEndCallBack, whatever it returned.
AfterEnd == Closed
\* totalFiles once an entry has ended.
EndedFiles == totalFiles + 1

\* A call of tarEndCallBack.
EndCallBack ==
  /\ pc = "data" /\ ~DataLeft /\ calls' = <<EndCall(cur)>>
  /\ untarredFile' = AfterEnd /\ cur' = 0 /\ i' = 0
  /\ UNCHANGED <<archive, pos, empty_count, files, output, tarSkipThisEntry, totalFolders>>
EndReturnsOK ==
  /\ entry_index' = entry_index + 1 /\ totalFiles' = EndedFiles /\ pc' = "header"
  /\ UNCHANGED <<_error, returned, faulty>>

\* (A bug: the size on the filesystem is not compared.)
PositionOnly == untarredFile.pos = Entry.blocks
\* Health checks 1, 2 and 4: the file is there, and the handle's position, the
\* header and the filesystem agree on its size.
Healthy ==
  /\ untarredFile.real /\ untarredFile.pos = Entry.blocks
  /\ files[untarredFile.path].len = Entry.blocks

EndOK ==
  /\ EndCallBack /\ (untarredFile.open /\ HealthChecks => Healthy) /\ EndReturnsOK

EndUnhealthy ==
  /\ EndCallBack /\ untarredFile.open /\ HealthChecks /\ ~Healthy
  /\ Fail(ESP32_TARGZ_TAR_ERR_FOOTERCB_FAIL)
  /\ UNCHANGED <<entry_index, totalFiles, faulty>>

\* Health check 3.
CannotReopen ==
  /\ EndCallBack /\ untarredFile.open /\ HealthChecks /\ May("reopen")
  /\ untarredFile.real /\ untarredFile.pos = Entry.blocks
  /\ Fail(ESP32_TARGZ_TAR_ERR_FOOTERCB_FAIL) /\ faulty' = TRUE
  /\ UNCHANGED <<entry_index, totalFiles>>

Step ==
  \/ EndOfArchive \/ EmptyHeader
  \/ NoSpace \/ SkipFile \/ CannotOpen \/ IgnoreEntry
  \/ \E real \in BOOLEAN : OpenFile(real)
  \/ BlockMissing \/ SkipBlock \/ WriteRefused
  \/ \E lost \in BOOLEAN : WriteBlock(lost)
  \/ EndOK \/ EndUnhealthy \/ CannotReopen
Next == Reboot \/ SourceMissing \/ Step \/ \E a \in Archives : Start(a)
Spec == Init /\ [][Next]_vars

-----------------------------------------------------------------------------
FilesTypeOK ==
  /\ pc \in {"idle", "header", "data"} /\ pos \in 0..Len(archive)
  /\ cur \in 0..Len(archive) /\ i \in 0..(IF cur = 0 THEN 0 ELSE Entry.blocks)
  /\ empty_count \in 0..2 /\ entry_index \in Nat
  /\ files \in [Paths -> [from : Int, len : Nat]]
  /\ untarredFile \in [open : BOOLEAN, path : Paths \cup {""}, pos : Nat, real : BOOLEAN]
  /\ output \in BOOLEAN /\ tarSkipThisEntry \in BOOLEAN
  /\ totalFiles \in Nat /\ totalFolders \in Nat /\ _error \in Int
  /\ returned \in {"no", "true", "false"} /\ faulty \in BOOLEAN

\* Where the header is that follows the one at p, and the least set of positions that has
\* the first block and is closed under this, as far as the archive goes.
After(a, p) == IF a[p].named THEN p + 1 + a[p].blocks ELSE p + 1
Chains(a) ==
  {c \in SUBSET (1..Len(a)) :
     (a # <<>> => 1 \in c) /\ \A p \in c : After(a, p) <= Len(a) => After(a, p) \in c}
Chain(a) == {p \in 1..Len(a) : \A c \in Chains(a) : p \in c}
\* The empty headers that are before a position.
Empties(a, p) == {q \in Chain(a) : q < p /\ ~a[q].named}
\* The positions of the headers that name something, up to the end of each archive: its
\* second empty header, or its last block.
Headers ==
  [a \in Archives |-> {h \in Chain(a) : a[h].named /\ Cardinality(Empties(a, h)) < 2}]
\* The files of the archive to be written under a path.
Owners(path) ==
  {h \in Headers[archive] : /\ archive[h].type = "file" /\ archive[h].path = path
                            /\ path \notin SkippedPaths}

\* The statistics agree with the archive: each entry is counted once.
CountsEntries ==
  /\ totalFiles = Cardinality(Headers[archive])
  /\ totalFolders = Cardinality({h \in Headers[archive] : archive[h].type = "dir"})

\* When the expansion is reported as a success, the filesystem holds each file the
\* archive has and the filters let through, whole, from its last occurrence, and
\* nothing else was touched: what health checks are for. No handle stays open, and the
\* statistics are right.
SuccessMeansOnDisk ==
  returned = "true" =>
    /\ ~untarredFile.open /\ CountsEntries
    /\ \A p \in Paths :
         IF Owners(p) = {} THEN files[p].from <= 0
         ELSE files[p] = [from |-> Max(Owners(p)), len |-> archive[Max(Owners(p))].blocks]

\* While an entry that is skipped or ignored is handled, no file changes.
Untouched(h) == archive[h].type # "file" \/ archive[h].path \in SkippedPaths
LeavesFilesAlone == [][cur # 0 /\ Untouched(cur) => files' = files]_vars

\* An archive that has at least the data of its entries is expanded, on a filesystem that
\* does what it is asked, if only files have data. (That of a directory or of an entry that is
\* to be ignored is written to the closed handle of the file before it.)
HealthyFilesSucceed ==
  /\ returned = "false" /\ _error # ESP32_TARGZ_FS_ERROR
  /\ \A h \in Headers[archive] : /\ archive[h].type = "file" \/ archive[h].blocks = 0
                                /\ h + archive[h].blocks <= Len(archive)
  => faulty

(***************************************************************************)
(* read_tar shows its callbacks what the step machine of module Untar does:*)
(* the same abstract reader.                                               *)
(***************************************************************************)
Status ==
  IF archive = <<>> /\ pc = "idle" THEN "closed"
  ELSE IF pc # "idle" THEN "running"
  ELSE IF empty_count = 2 THEN "done" ELSE "failed"
Reader == INSTANCE TarReader WITH
  got <- i, empties <- empty_count, entries <- entry_index - empty_count, status <- Status
ImplementsReader == Reader!Spec
=============================================================================
