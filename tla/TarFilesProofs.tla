--------------------------- MODULE TarFilesProofs ---------------------------
(***************************************************************************)
(* Theorems about module TarFiles: for every archive, whatever the         *)
(* filesystem does, the loop of read_tar and its callbacks keep their      *)
(* types, implement the abstract reader, and change no file while an entry *)
(* that is none of theirs goes by; what a session that succeeds has left   *)
(* on the filesystem, and that a healthy one does.                         *)
(***************************************************************************)
EXTENDS TarFiles, FiniteSetTheorems, TLAPS

\* The conjuncts of FilesTypeOK, with what archive is.
LoopTypes ==
  /\ archive \in Seq(Block) /\ pos \in 0..Len(archive) /\ cur \in 0..Len(archive)
  /\ i \in 0..(IF cur = 0 THEN 0 ELSE Entry.blocks)
  /\ empty_count \in 0..2 /\ entry_index \in Nat
DiskTypes ==
  /\ files \in [Paths -> [from : Int, len : Nat]]
  /\ untarredFile \in [open : BOOLEAN, path : Paths \cup {""}, pos : Nat, real : BOOLEAN]
CountTypes == totalFiles \in Nat /\ totalFolders \in Nat /\ _error \in Int
FlagTypes == output \in BOOLEAN /\ tarSkipThisEntry \in BOOLEAN /\ faulty \in BOOLEAN
LabelTypes == pc \in {"idle", "header", "data"} /\ returned \in {"no", "true", "false"}
FlTypes == LoopTypes /\ DiskTypes /\ CountTypes /\ FlagTypes /\ LabelTypes

\* There is an entry exactly while its data is expanded, and each empty header counts as
\* an entry.
Looping ==
  /\ pc = "data" => cur # 0 /\ empty_count < 2
  /\ pc # "data" => cur = 0 /\ i = 0
  /\ empty_count <= entry_index
  /\ archive = <<>> => entry_index = 0 /\ empty_count = 0

\* The handle is open for the file that is expanded, or a failed session left it open.
Handle ==
  /\ untarredFile.open => pc # "header" /\ untarredFile.path \in Paths
  /\ pc = "data" /\ untarredFile.open => Entry.type = "file"
  /\ pc = "data" /\ Entry.type = "file" => (tarSkipThisEntry <=> Filtered(Entry.path))

\* Driven is inductive by itself. IInv is when FreshStart holds: without it a handle that a
\* failed session has left may be open in the next one.
Driven == FlTypes /\ Looping
IInv == Driven /\ Handle

USE DEF ESP32_TARGZ_OK, ESP32_TARGZ_FS_ERROR, ESP32_TARGZ_TAR_ERR_DATACB_FAIL,
        ESP32_TARGZ_TAR_ERR_HEADERCB_FAIL, ESP32_TARGZ_TAR_ERR_FOOTERCB_FAIL,
        ESP32_TARGZ_TAR_ERR_READBLOCK_FAIL, ESP32_TARGZ_TAR_ERR_FILENAME_TOOLONG

-----------------------------------------------------------------------------
(***************************************************************************)
(* What an archive holds.                                                  *)
(***************************************************************************)
LEMMA BlockTypes ==
  ASSUME NEW a \in Seq(Block), NEW b \in 1..Len(a)
  PROVE  /\ a[b] \in Block /\ a[b].blocks \in Nat /\ a[b].path \in Paths
         /\ a[b].named \in BOOLEAN
<1>1. a[b] \in Block
  OBVIOUS
<1>2. a[b].blocks \in Nat /\ a[b].path \in Paths
  BY <1>1 DEF Block
<1>3. a[b].named \in BOOLEAN
  BY <1>1, Zenon DEF Block
<1>4. QED
  BY <1>1, <1>2, <1>3

LEMMA HeaderTypes ==
  ASSUME Driven, AtHeader
  PROVE  /\ pos \in Nat /\ Len(archive) \in Nat /\ pos < Len(archive) /\ pos + 1 \in 1..Len(archive)
         /\ archive[pos + 1].blocks \in Nat /\ archive[pos + 1].path \in Paths
         /\ archive \in Seq(Block) /\ cur = 0 /\ i = 0 /\ pc = "header"
         /\ archive # <<>> /\ empty_count \in {0, 1}
<1>1. archive \in Seq(Block) /\ pos \in 0..Len(archive) /\ pos < Len(archive) /\ cur = 0
      /\ i = 0 /\ pc = "header" /\ empty_count \in 0..2 /\ empty_count < 2
  BY DEF Driven, FlTypes, LoopTypes, Looping, AtHeader, HeadersLeft
<1>2. Len(archive) \in Nat
  BY <1>1
<1>3. pos + 1 \in 1..Len(archive) /\ archive # <<>>
  BY <1>1, <1>2
<1>4. archive[pos + 1].blocks \in Nat /\ archive[pos + 1].path \in Paths
  BY <1>1, <1>3, BlockTypes, Zenon
<1>5. QED
  BY <1>1, <1>2, <1>3, <1>4

LEMMA DataTypes ==
  ASSUME Driven, pc = "data"
  PROVE  /\ archive \in Seq(Block) /\ Len(archive) \in Nat /\ pos \in Nat
         /\ pos <= Len(archive) /\ cur \in 1..Len(archive) /\ cur # 0
         /\ Entry.blocks \in Nat /\ Entry.path \in Paths /\ i \in 0..Entry.blocks
         /\ archive # <<>> /\ empty_count \in {0, 1}
<1>1. archive \in Seq(Block) /\ pos \in 0..Len(archive) /\ cur \in 0..Len(archive) /\ cur # 0
      /\ empty_count \in 0..2 /\ empty_count < 2
  BY DEF Driven, FlTypes, LoopTypes, Looping
<1>2. Len(archive) \in Nat
  BY <1>1
<1>3. cur \in 1..Len(archive) /\ archive # <<>>
  BY <1>1, <1>2
<1>4. Entry.blocks \in Nat /\ Entry.path \in Paths
  BY <1>1, <1>3, BlockTypes, Zenon DEF Entry
<1>5. i \in 0..Entry.blocks
  BY <1>1, Zenon DEF Driven, FlTypes, LoopTypes
<1>6. QED
  BY <1>1, <1>2, <1>3, <1>4, <1>5

-----------------------------------------------------------------------------
(***************************************************************************)
(* The loop of read_tar.                                                   *)
(***************************************************************************)
\* What a step leaves of the loop.
LoopOK == LoopTypes /\ Looping

\* A session that starts, or none.
LEMMA LoopStarts ==
  ASSUME archive' \in Seq(Block), pos' = 0, cur' = 0, i' = 0, empty_count' = 0,
         entry_index' = 0, pc' # "data"
  PROVE  LoopOK'
<1>1. Len(archive') \in Nat
  OBVIOUS
<1>2. QED
  BY <1>1 DEF LoopOK, LoopTypes, Looping

\* A session that ends, after its last header or inside an entry.
LEMMA LoopEnds ==
  ASSUME Driven, archive' = archive, cur' = 0, i' = 0, pc' = "idle",
         pos' \in {pos, pos + 1}, pos' <= Len(archive),
         empty_count' = empty_count, entry_index' = entry_index
  PROVE  LoopOK'
<1>1. /\ archive \in Seq(Block) /\ pos \in 0..Len(archive) /\ empty_count \in 0..2
      /\ entry_index \in Nat
  BY DEF Driven, FlTypes, LoopTypes
<1>2. Len(archive) \in Nat
  BY <1>1
<1>3. pos' \in 0..Len(archive)
  BY <1>1, <1>2
<1>4. LoopTypes'
  BY <1>1, <1>2, <1>3 DEF LoopTypes
<1>5. Looping'
  BY DEF Driven, Looping
<1>6. QED
  BY <1>4, <1>5 DEF LoopOK

\* The header of an entry was accepted.
LEMMA LoopAccepts ==
  ASSUME Driven, AtHeader, Accepted, archive' = archive, pos' = pos + 1,
         empty_count' = empty_count, entry_index' = entry_index
  PROVE  LoopOK'
<1>1. /\ pos \in Nat /\ Len(archive) \in Nat /\ pos + 1 \in 1..Len(archive)
      /\ archive[pos + 1].blocks \in Nat /\ archive \in Seq(Block) /\ archive # <<>>
      /\ empty_count \in {0, 1}
  BY HeaderTypes
<1>2. pc' = "data" /\ cur' = pos + 1 /\ i' = 0
  BY DEF Accepted
<1>3. entry_index \in Nat /\ empty_count <= entry_index
  BY DEF Driven, FlTypes, LoopTypes, Looping
<1>4. LoopTypes'
  <2>1. archive' \in Seq(Block) /\ pos' \in 0..Len(archive') /\ cur' \in 0..Len(archive')
        /\ empty_count' \in 0..2 /\ entry_index' \in Nat
    BY <1>1, <1>2, <1>3
  <2>2. Entry' = archive[pos + 1] /\ cur' # 0
    BY <1>1, <1>2 DEF Entry
  <2>3. i' \in 0..(IF cur' = 0 THEN 0 ELSE Entry'.blocks)
    BY <1>1, <1>2, <2>2
  <2>4. QED
    BY <2>1, <2>3, Zenon DEF LoopTypes
<1>5. Looping'
  BY <1>1, <1>2, <1>3 DEF Looping
<1>6. QED
  BY <1>4, <1>5 DEF LoopOK

LEMMA LoopEmpty == ASSUME Driven, EmptyHeader PROVE LoopOK'
<1>1. /\ AtHeader /\ pos' = pos + 1 /\ empty_count' = empty_count + 1
      /\ entry_index' = entry_index + 1 /\ archive' = archive /\ cur' = cur /\ i' = i
      /\ pc' = pc
  BY DEF EmptyHeader
<1>2. /\ pos \in Nat /\ Len(archive) \in Nat /\ pos + 1 \in 1..Len(archive)
      /\ archive \in Seq(Block) /\ cur = 0 /\ i = 0 /\ pc = "header"
      /\ archive # <<>> /\ empty_count \in {0, 1}
  BY <1>1, HeaderTypes
<1>3. entry_index \in Nat /\ empty_count <= entry_index
  BY DEF Driven, FlTypes, LoopTypes, Looping
<1>4. QED
  BY <1>1, <1>2, <1>3 DEF LoopOK, LoopTypes, Looping

\* A block of data was written.
LEMMA LoopWrites ==
  ASSUME Driven, WriteCallBack, WriteReturnsOK
  PROVE  LoopOK'
<1>1. /\ pc = "data" /\ i < Entry.blocks /\ pos < Len(archive) /\ archive' = archive
      /\ empty_count' = empty_count /\ entry_index' = entry_index
      /\ pos' = pos + 1 /\ i' = i + 1 /\ cur' = cur /\ pc' = pc
  BY DEF WriteCallBack, WriteReturnsOK, Reading, DataLeft
<1>2. /\ archive \in Seq(Block) /\ Len(archive) \in Nat /\ pos \in Nat
      /\ cur \in 1..Len(archive) /\ cur # 0
      /\ Entry.blocks \in Nat /\ i \in 0..Entry.blocks /\ archive # <<>>
      /\ empty_count \in {0, 1}
  BY <1>1, DataTypes
<1>3. entry_index \in Nat /\ empty_count <= entry_index
  BY DEF Driven, FlTypes, LoopTypes, Looping
<1>4. LoopTypes'
  <2>1. archive' \in Seq(Block) /\ pos' \in 0..Len(archive') /\ cur' \in 0..Len(archive')
        /\ empty_count' \in 0..2 /\ entry_index' \in Nat
    BY <1>1, <1>2, <1>3
  <2>2. Entry' = Entry /\ cur' # 0
    BY <1>1, <1>2 DEF Entry
  <2>3. i' \in 0..Entry.blocks
    BY <1>1, <1>2
  <2>4. i' \in 0..(IF cur' = 0 THEN 0 ELSE Entry'.blocks)
    BY <2>2, <2>3, Zenon
  <2>5. QED
    BY <2>1, <2>4, Zenon DEF LoopTypes
<1>5. Looping'
  BY <1>1, <1>2, <1>3 DEF Looping
<1>6. QED
  BY <1>4, <1>5 DEF LoopOK

LEMMA LoopCloses ==
  ASSUME Driven, EndCallBack, EndReturnsOK
  PROVE  LoopOK'
<1>1. /\ pc = "data" /\ archive' = archive /\ pos' = pos /\ empty_count' = empty_count
      /\ entry_index' = entry_index + 1 /\ cur' = 0 /\ i' = 0 /\ pc' = "header"
  BY DEF EndCallBack, EndReturnsOK
<1>2. /\ archive \in Seq(Block) /\ Len(archive) \in Nat /\ pos \in Nat
      /\ pos <= Len(archive) /\ archive # <<>> /\ empty_count \in {0, 1}
  BY <1>1, DataTypes
<1>3. entry_index \in Nat /\ empty_count <= entry_index
  BY DEF Driven, FlTypes, LoopTypes, Looping
<1>4. QED
  BY <1>1, <1>2, <1>3 DEF LoopOK, LoopTypes, Looping

LEMMA LoopSame == ASSUME Driven, UNCHANGED <<loop, pc>> PROVE LoopOK'
<1>1. /\ archive' = archive /\ pos' = pos /\ cur' = cur /\ i' = i /\ pc' = pc
      /\ empty_count' = empty_count /\ entry_index' = entry_index /\ Entry' = Entry
  BY DEF loop, Entry
<1>2. QED
  BY <1>1 DEF Driven, FlTypes, LoopTypes, Looping, LoopOK

LEMMA NextLoop == ASSUME Driven, [Next]_vars PROVE LoopOK'
<1>1. CASE Reboot
  BY <1>1, LoopStarts DEF Reboot
<1>2. CASE SourceMissing \/ UNCHANGED vars
  BY <1>2, LoopSame DEF SourceMissing, vars
<1>3. ASSUME NEW a \in Archives, Start(a) PROVE LoopOK'
  <2>1. a \in Seq(Block)
    BY ArchivesAssumption
  <2>2. QED
    BY <1>3, <2>1, LoopStarts DEF Start
<1>4. CASE EndOfArchive
  <2>1. /\ pc = "header" /\ pc' = "idle" /\ archive' = archive /\ pos' = pos /\ cur' = cur
        /\ i' = i /\ empty_count' = empty_count /\ entry_index' = entry_index
    BY <1>4 DEF EndOfArchive, Succeed, loop
  <2>2. cur = 0 /\ i = 0 /\ pos <= Len(archive)
    <3>1. cur = 0 /\ i = 0 /\ pos \in 0..Len(archive) /\ archive \in Seq(Block)
      BY <2>1 DEF Driven, FlTypes, LoopTypes, Looping
    <3>2. QED
      BY <3>1
  <2>3. QED
    BY <2>1, <2>2, LoopEnds
<1>5. CASE EmptyHeader
  BY <1>5, LoopEmpty
<1>6. CASE NoSpace \/ CannotOpen
  <2>1. /\ AtHeader /\ archive' = archive /\ pos' = pos + 1 /\ cur' = 0 /\ i' = 0
        /\ pc' = "idle" /\ empty_count' = empty_count /\ entry_index' = entry_index
    BY <1>6 DEF NoSpace, CannotOpen, HeaderCallBack, Fail
  <2>2. pos + 1 <= Len(archive)
    BY <2>1, HeaderTypes
  <2>3. QED
    BY <2>1, <2>2, LoopEnds
<1>7. CASE SkipFile \/ IgnoreEntry \/ \E real \in BOOLEAN : OpenFile(real)
  <2>1. AtHeader /\ Accepted /\ archive' = archive /\ pos' = pos + 1
        /\ empty_count' = empty_count /\ entry_index' = entry_index
    BY <1>7 DEF SkipFile, IgnoreEntry, OpenFile, HeaderCallBack
  <2>2. QED
    BY <2>1, LoopAccepts
<1>8. CASE SkipBlock \/ \E lost \in BOOLEAN : WriteBlock(lost)
  <2>1. WriteCallBack /\ WriteReturnsOK
    BY <1>8 DEF SkipBlock, WriteBlock
  <2>2. QED
    BY <2>1, LoopWrites
<1>9. CASE BlockMissing \/ WriteRefused \/ EndUnhealthy \/ CannotReopen
  <2>1. /\ pc = "data" /\ archive' = archive /\ pos' = pos /\ cur' = 0 /\ i' = 0
        /\ pc' = "idle" /\ empty_count' = empty_count /\ entry_index' = entry_index
    BY <1>9 DEF BlockMissing, WriteRefused, EndUnhealthy, CannotReopen, WriteCallBack, Reading,
                EndCallBack, Fail
  <2>2. pos <= Len(archive)
    BY <2>1, DataTypes
  <2>3. QED
    BY <2>1, <2>2, LoopEnds
<1>10. CASE EndOK
  BY <1>10, LoopCloses DEF EndOK
<1>11. QED
  BY <1>1, <1>2, <1>3, <1>4, <1>5, <1>6, <1>7, <1>8, <1>9, <1>10, Zenon DEF Next, Step

-----------------------------------------------------------------------------
(***************************************************************************)
(* The filesystem and the handle.                                          *)
(***************************************************************************)
Handles == [open : BOOLEAN, path : Paths \cup {""}, pos : Nat, real : BOOLEAN]

LEMMA HandleTypes ==
  /\ Closed \in Handles
  /\ \A p \in Paths, real \in BOOLEAN :
       [open |-> TRUE, path |-> p, pos |-> 0, real |-> real] \in Handles
<1>1. TRUE \in BOOLEAN /\ FALSE \in BOOLEAN /\ 0 \in Nat /\ "" \in Paths \cup {""}
      /\ \A p \in Paths : p \in Paths \cup {""}
  OBVIOUS
<1>2. Closed \in Handles
  BY <1>1, Zenon DEF Closed, Handles
<1>3. QED
  BY <1>1, <1>2, Zenon DEF Handles

LEMMA AgedTypes ==
  ASSUME DiskTypes
  PROVE  Aged \in [Paths -> [from : Int, len : Nat]]
<1>1. ASSUME NEW p \in Paths
      PROVE  (IF files[p] = Absent THEN Absent ELSE [files[p] EXCEPT !.from = -1])
                \in [from : Int, len : Nat]
  <2>1. files[p] \in [from : Int, len : Nat]
    BY DEF DiskTypes
  <2>2. Absent \in [from : Int, len : Nat]
    BY DEF Absent
  <2>3. [files[p] EXCEPT !.from = -1] \in [from : Int, len : Nat]
    BY <2>1
  <2>4. QED
    BY <2>2, <2>3, Zenon
<1>2. QED
  BY <1>1, Zenon DEF Aged

\* One more block at the end of a file.
LEMMA LongerTypes ==
  ASSUME DiskTypes, NEW p
  PROVE  [files EXCEPT ![p].len = @ + 1] \in [Paths -> [from : Int, len : Nat]]
<1>1. files \in [Paths -> [from : Int, len : Nat]]
  BY DEF DiskTypes
<1>2. CASE p \in Paths
  <2>1. files[p] \in [from : Int, len : Nat]
    BY <1>1, <1>2
  <2>2. [files[p] EXCEPT !.len = @ + 1] \in [from : Int, len : Nat]
    BY <2>1
  <2>3. QED
    BY <1>1, <2>2
<1>3. CASE p \notin Paths
  BY <1>1, <1>3
<1>4. QED
  BY <1>2, <1>3

LEMMA NextDisk == ASSUME Driven, [Next]_vars PROVE DiskTypes'
<1>1. /\ DiskTypes /\ files \in [Paths -> [from : Int, len : Nat]] /\ untarredFile \in Handles
  BY Zenon DEF Driven, FlTypes, DiskTypes, Handles
<1>2. SUFFICES files' \in [Paths -> [from : Int, len : Nat]] /\ untarredFile' \in Handles
  BY Zenon DEF DiskTypes, Handles
<1>3. CASE Reboot
  BY <1>1, <1>3, HandleTypes, Zenon DEF Reboot
<1>4. CASE SourceMissing \/ UNCHANGED vars \/ EndOfArchive \/ EmptyHeader \/ NoSpace \/ SkipFile
           \/ IgnoreEntry \/ BlockMissing \/ SkipBlock \/ WriteRefused
  <2>1. files' = files /\ untarredFile' = untarredFile
    BY <1>4, Zenon DEF SourceMissing, vars, disk, EndOfArchive, EmptyHeader, NoSpace, SkipFile,
                IgnoreEntry, BlockMissing, SkipBlock, WriteRefused
  <2>2. QED
    BY <1>1, <2>1
<1>5. ASSUME NEW a \in Archives, Start(a)
      PROVE  files' \in [Paths -> [from : Int, len : Nat]] /\ untarredFile' \in Handles
  BY <1>1, <1>5, AgedTypes, Zenon DEF Start
<1>6. CASE CannotOpen
  BY <1>1, <1>6, HandleTypes, Zenon DEF CannotOpen
<1>7. ASSUME NEW real \in BOOLEAN, OpenFile(real)
      PROVE  files' \in [Paths -> [from : Int, len : Nat]] /\ untarredFile' \in Handles
  <2> DEFINE path == archive[pos + 1].path
  <2>1. /\ AtHeader /\ untarredFile' = [open |-> TRUE, path |-> path, pos |-> 0, real |-> real]
        /\ files' = IF real THEN [files EXCEPT ![path] = [from |-> pos + 1, len |-> 0]] ELSE files
    BY <1>7, Zenon DEF OpenFile, HeaderCallBack
  <2>2. path \in Paths /\ pos + 1 \in Int
    BY <2>1, HeaderTypes
  <2> HIDE DEF path
  <2>3. [from |-> pos + 1, len |-> 0] \in [from : Int, len : Nat]
    BY <2>2
  <2>4. [files EXCEPT ![path] = [from |-> pos + 1, len |-> 0]] \in [Paths -> [from : Int, len : Nat]]
    BY <1>1, <2>3
  <2>5. untarredFile' \in Handles
    BY <2>1, <2>2, HandleTypes, Zenon
  <2>6. QED
    BY <1>1, <2>1, <2>4, <2>5
<1>8. ASSUME NEW lost \in BOOLEAN, WriteBlock(lost)
      PROVE  files' \in [Paths -> [from : Int, len : Nat]] /\ untarredFile' \in Handles
  <2>1. /\ untarredFile' = [untarredFile EXCEPT !.pos = @ + 1]
        /\ files' = IF untarredFile.real /\ ~lost
                    THEN [files EXCEPT ![untarredFile.path].len = @ + 1] ELSE files
    BY <1>8, Zenon DEF WriteBlock
  <2>2. [files EXCEPT ![untarredFile.path].len = @ + 1] \in [Paths -> [from : Int, len : Nat]]
    BY <1>1, LongerTypes
  <2>3. files' \in [Paths -> [from : Int, len : Nat]]
    BY <1>1, <2>1, <2>2, Zenon
  <2>4. untarredFile.pos + 1 \in Nat
    <3>1. untarredFile \in Handles
      BY <1>1
    <3>2. untarredFile.pos \in Nat
      BY <3>1, Zenon DEF Handles
    <3>3. QED
      BY <3>2
  <2>5. untarredFile' \in Handles
    BY <1>1, <2>1, <2>4 DEF Handles
  <2>6. QED
    BY <2>3, <2>5
<1>9. CASE EndOK \/ EndUnhealthy \/ CannotReopen
  BY <1>1, <1>9, HandleTypes, Zenon DEF EndOK, EndUnhealthy, CannotReopen, EndCallBack, AfterEnd
<1>10. QED
  BY <1>3, <1>4, <1>5, <1>6, <1>7, <1>8, <1>9, Zenon DEF Next, Step

-----------------------------------------------------------------------------
(***************************************************************************)
(* Counts, flags and labels.                                               *)
(***************************************************************************)
LEMMA NextCounts == ASSUME Driven, [Next]_vars PROVE CountTypes'
<1>1. totalFiles \in Nat /\ totalFolders \in Nat /\ _error \in Int
  BY DEF Driven, FlTypes, CountTypes
<1> USE DEF CountTypes, counts, Fail
<1>2. CASE Reboot \/ SourceMissing \/ UNCHANGED vars
  BY <1>1, <1>2 DEF Reboot, SourceMissing, vars
<1>3. ASSUME NEW a \in Archives, Start(a) PROVE CountTypes'
  BY <1>3 DEF Start
<1>4. CASE EndOfArchive \/ EmptyHeader
  BY <1>1, <1>4 DEF EndOfArchive, EmptyHeader
<1>5. CASE NoSpace \/ SkipFile \/ CannotOpen
  BY <1>1, <1>5 DEF NoSpace, SkipFile, CannotOpen, HeaderCallBack
<1>6. CASE IgnoreEntry
  <2>1. totalFolders' \in {totalFolders, totalFolders + 1}
    BY <1>1, <1>6 DEF IgnoreEntry
  <2>2. totalFiles' = totalFiles /\ _error' = _error
    BY <1>6 DEF IgnoreEntry, HeaderCallBack
  <2>3. QED
    BY <1>1, <2>1, <2>2
<1>7. CASE \E real \in BOOLEAN : OpenFile(real)
  BY <1>1, <1>7 DEF OpenFile, HeaderCallBack
<1>8. CASE BlockMissing \/ SkipBlock \/ WriteRefused \/ \E lost \in BOOLEAN : WriteBlock(lost)
  BY <1>1, <1>8 DEF BlockMissing, SkipBlock, WriteRefused, WriteBlock, WriteCallBack, WriteReturnsOK
<1>9. CASE EndOK \/ EndUnhealthy \/ CannotReopen
  BY <1>1, <1>9 DEF EndOK, EndUnhealthy, CannotReopen, EndCallBack, EndReturnsOK, EndedFiles
<1>10. QED
  BY <1>2, <1>3, <1>4, <1>5, <1>6, <1>7, <1>8, <1>9, Zenon DEF Next, Step

LEMMA FilteredType ==
  ASSUME NEW p, tarSkipThisEntry' = Filtered(p)
  PROVE  tarSkipThisEntry' \in BOOLEAN
<1>1. CASE p \in SkippedPaths
  BY <1>1 DEF Filtered
<1>2. CASE p \notin SkippedPaths
  BY <1>2 DEF Filtered
<1>3. QED
  BY <1>1, <1>2

LEMMA NextFlags == ASSUME Driven, [Next]_vars PROVE FlagTypes'
<1>1. output \in BOOLEAN /\ tarSkipThisEntry \in BOOLEAN /\ faulty \in BOOLEAN
  BY Zenon DEF Driven, FlTypes, FlagTypes
<1> USE DEF FlagTypes, disk
<1>2. CASE Reboot \/ SourceMissing \/ UNCHANGED vars
  BY <1>1, <1>2, Zenon DEF Reboot, SourceMissing, vars
<1>3. ASSUME NEW a \in Archives, Start(a) PROVE FlagTypes'
  BY <1>1, <1>3, Zenon DEF Start
<1>4. CASE EndOfArchive \/ EmptyHeader
  BY <1>1, <1>4, Zenon DEF EndOfArchive, EmptyHeader
<1>5. CASE NoSpace \/ SkipFile \/ CannotOpen \/ IgnoreEntry
  <2>1. tarSkipThisEntry' \in BOOLEAN
    BY <1>5, FilteredType, Zenon DEF NoSpace, SkipFile, CannotOpen, IgnoreEntry, HeaderCallBack
  <2>2. output' = output /\ (faulty' = faulty \/ faulty' = TRUE)
    BY <1>5, Zenon DEF NoSpace, SkipFile, CannotOpen, IgnoreEntry
  <2>3. QED
    BY <1>1, <2>1, <2>2, Zenon
<1>6. ASSUME NEW real \in BOOLEAN, OpenFile(real) PROVE FlagTypes'
  <2>1. tarSkipThisEntry' \in BOOLEAN
    BY <1>6, FilteredType, Zenon DEF OpenFile, HeaderCallBack
  <2>2. output' = TRUE /\ faulty' \in BOOLEAN
    BY <1>1, <1>6, Zenon DEF OpenFile
  <2>3. QED
    BY <2>1, <2>2, Zenon
<1>7. CASE BlockMissing \/ SkipBlock
  BY <1>1, <1>7, Zenon DEF BlockMissing, SkipBlock, WriteCallBack
<1>8. CASE WriteRefused
  <2>1. untarredFile.open \in BOOLEAN
    BY DEF Driven, FlTypes, DiskTypes
  <2>2. QED
    BY <1>1, <1>8, <2>1, Zenon DEF WriteRefused, WriteCallBack
<1>9. CASE \E lost \in BOOLEAN : WriteBlock(lost)
  BY <1>1, <1>9, Zenon DEF WriteBlock, WriteCallBack
<1>10. CASE EndOK \/ EndUnhealthy \/ CannotReopen
  BY <1>1, <1>10, Zenon DEF EndOK, EndUnhealthy, CannotReopen, EndCallBack, EndReturnsOK
<1>11. QED
  BY <1>2, <1>3, <1>4, <1>5, <1>6, <1>7, <1>8, <1>9, <1>10, Zenon DEF Next, Step

LEMMA NextLabels == ASSUME Driven, [Next]_vars PROVE LabelTypes'
<1>1. LabelTypes
  BY DEF Driven, FlTypes
<1> USE DEF LabelTypes, Fail
<1>2. CASE Reboot \/ SourceMissing \/ UNCHANGED vars \/ \E a \in Archives : Start(a)
  BY <1>1, <1>2 DEF Reboot, SourceMissing, vars, Start
<1>3. CASE EndOfArchive \/ EmptyHeader \/ NoSpace \/ SkipFile \/ CannotOpen \/ IgnoreEntry
           \/ \E real \in BOOLEAN : OpenFile(real)
  BY <1>1, <1>3 DEF EndOfArchive, EmptyHeader, NoSpace, SkipFile, CannotOpen, IgnoreEntry,
                    OpenFile, Succeed, Accepted
<1>4. CASE BlockMissing \/ SkipBlock \/ WriteRefused \/ \E lost \in BOOLEAN : WriteBlock(lost)
  BY <1>1, <1>4 DEF BlockMissing, SkipBlock, WriteRefused, WriteBlock, WriteReturnsOK
<1>5. CASE EndOK \/ EndUnhealthy \/ CannotReopen
  BY <1>1, <1>5 DEF EndOK, EndUnhealthy, CannotReopen, EndReturnsOK
<1>6. QED
  BY <1>2, <1>3, <1>4, <1>5, Zenon DEF Next, Step

LEMMA InitDriven == Init => Driven
<1> SUFFICES ASSUME Init PROVE Driven
  OBVIOUS
<1>1. LoopTypes /\ Looping
  BY DEF Init, LoopTypes, Looping
<1>2. DiskTypes
  <2>1. Absent \in [from : Int, len : Nat]
    BY DEF Absent
  <2>2. files \in [Paths -> [from : Int, len : Nat]] /\ untarredFile \in Handles
    BY <2>1, HandleTypes, Zenon DEF Init
  <2>3. QED
    BY <2>2, Zenon DEF DiskTypes, Handles
<1>3. CountTypes /\ LabelTypes
  BY DEF Init, CountTypes, LabelTypes
<1>4. FlagTypes
  BY Zenon DEF Init, FlagTypes
<1>5. QED
  BY <1>1, <1>2, <1>3, <1>4, Zenon DEF Driven, FlTypes

LEMMA NextDriven == Driven /\ [Next]_vars => Driven'
BY NextLoop, NextDisk, NextCounts, NextFlags, NextLabels, Zenon DEF Driven, FlTypes, LoopOK

\* The variables keep their types, from session to session and whatever the filesystem does.
THEOREM TypeCorrect == Spec => []FilesTypeOK
<1>1. Driven => FilesTypeOK
  BY Zenon DEF Driven, FlTypes, LoopTypes, DiskTypes, CountTypes, FlagTypes, LabelTypes,
               FilesTypeOK
<1>2. QED
  BY <1>1, InitDriven, NextDriven, PTL DEF Spec

-----------------------------------------------------------------------------
(***************************************************************************)
(* The handle.                                                             *)
(***************************************************************************)
\* The handle after a session has ended, or before it has an entry.
LEMMA HandleKept ==
  ASSUME IInv, untarredFile' = untarredFile, pc' = "idle"
  PROVE  Handle'
BY DEF IInv, Handle

LEMMA HandleClosed == ASSUME untarredFile' = Closed PROVE Handle' \/ pc' = "data"
BY DEF Handle, Closed

LEMMA NextHandle == ASSUME FreshStart, IInv, [Next]_vars PROVE Handle'
<1>1. Driven /\ Handle
  BY DEF IInv
<1>2. CASE Reboot \/ EndOK \/ EndUnhealthy \/ CannotReopen \/ CannotOpen
  <2>1. untarredFile' = Closed /\ pc' # "data"
    BY <1>2 DEF Reboot, EndOK, EndUnhealthy, CannotReopen, CannotOpen, EndCallBack, AfterEnd,
                EndReturnsOK, Fail
  <2>2. QED
    BY <2>1, HandleClosed
<1>3. CASE SourceMissing \/ UNCHANGED vars
  <2>1. /\ untarredFile' = untarredFile /\ pc' = pc /\ Entry' = Entry
        /\ tarSkipThisEntry' = tarSkipThisEntry
    BY <1>3 DEF SourceMissing, vars, disk, loop, Entry
  <2>2. QED
    BY <1>1, <2>1 DEF Handle, Filtered
<1>4. ASSUME NEW a \in Archives, Start(a) PROVE Handle'
  BY <1>4 DEF Start, Handle
<1>5. CASE EndOfArchive \/ NoSpace \/ BlockMissing \/ WriteRefused
  <2>1. untarredFile' = untarredFile /\ pc' = "idle"
    BY <1>5 DEF EndOfArchive, NoSpace, BlockMissing, WriteRefused, disk, Succeed, Fail
  <2>2. QED
    BY <2>1, HandleKept
<1>6. CASE EmptyHeader
  <2>1. untarredFile' = untarredFile /\ pc = "header" /\ pc' = "header"
    BY <1>6 DEF EmptyHeader, AtHeader, disk
  <2>2. QED
    BY <1>1, <2>1 DEF Handle
<1>7. CASE SkipFile \/ IgnoreEntry
  <2>1. /\ untarredFile' = untarredFile /\ pc = "header" /\ pc' = "data"
        /\ tarSkipThisEntry' = Filtered(archive[pos + 1].path)
        /\ archive' = archive /\ cur' = pos + 1
    BY <1>7 DEF SkipFile, IgnoreEntry, HeaderCallBack, AtHeader, Accepted, disk
  <2>2. Entry' = archive[pos + 1]
    BY <2>1 DEF Entry
  <2>3. QED
    BY <1>1, <2>1, <2>2 DEF Handle, Filtered
<1>8. ASSUME NEW real \in BOOLEAN, OpenFile(real) PROVE Handle'
  <2> DEFINE path == archive[pos + 1].path
  <2>1. /\ AtHeader /\ archive[pos + 1].type = "file" /\ pc' = "data"
        /\ untarredFile' = [open |-> TRUE, path |-> path, pos |-> 0, real |-> real]
        /\ archive' = archive /\ cur' = pos + 1 /\ tarSkipThisEntry' = Filtered(path)
    BY <1>8 DEF OpenFile, HeaderCallBack, Accepted
  <2>2. path \in Paths
    BY <1>1, <2>1, HeaderTypes
  <2>3. Entry' = archive[pos + 1]
    BY <2>1 DEF Entry
  <2>4. QED
    BY <2>1, <2>2, <2>3 DEF Handle, Filtered
<1>9. CASE SkipBlock \/ \E lost \in BOOLEAN : WriteBlock(lost)
  <2>1. /\ untarredFile' \in {untarredFile, [untarredFile EXCEPT !.pos = @ + 1]}
        /\ pc = "data" /\ pc' = pc
        /\ archive' = archive /\ cur' = cur /\ tarSkipThisEntry' = tarSkipThisEntry
    BY <1>9 DEF SkipBlock, WriteBlock, WriteCallBack, WriteReturnsOK, Reading
  <2>2. untarredFile \in Handles
    BY <1>1, Zenon DEF Driven, FlTypes, DiskTypes, Handles
  <2>3. untarredFile'.open = untarredFile.open /\ untarredFile'.path = untarredFile.path
    BY <2>1, <2>2 DEF Handles
  <2>4. Entry' = Entry
    BY <2>1 DEF Entry
  <2>5. QED
    BY <1>1, <2>1, <2>3, <2>4 DEF Handle, Filtered
<1>10. QED
  BY <1>2, <1>3, <1>4, <1>5, <1>6, <1>7, <1>8, <1>9, Zenon DEF Next, Step

\* The handle is open for nothing but the file whose entry is expanded.
LEMMA Untouching ==
  ASSUME IInv, [Next]_vars, cur # 0, Untouched(cur)
  PROVE  files' = files
<1>1. pc = "data"
  BY DEF IInv, Driven, Looping
<1>2. CASE Reboot \/ SourceMissing \/ UNCHANGED vars \/ EndOK \/ EndUnhealthy \/ CannotReopen
           \/ BlockMissing \/ SkipBlock \/ WriteRefused
  BY <1>2 DEF Reboot, SourceMissing, vars, disk, EndOK, EndUnhealthy, CannotReopen, EndCallBack,
              BlockMissing, SkipBlock, WriteRefused
<1>3. ~(\E a \in Archives : Start(a))
  BY <1>1 DEF Start
<1>4. ~(EndOfArchive \/ EmptyHeader \/ NoSpace \/ SkipFile \/ CannotOpen \/ IgnoreEntry
        \/ \E real \in BOOLEAN : OpenFile(real))
  BY <1>1 DEF EndOfArchive, EmptyHeader, NoSpace, SkipFile, CannotOpen, IgnoreEntry, OpenFile,
              HeaderCallBack, AtHeader
<1>5. ~(\E lost \in BOOLEAN : WriteBlock(lost))
  BY <1>1 DEF WriteBlock, IInv, Handle, Untouched, Entry, Filtered
<1>6. QED
  BY <1>2, <1>3, <1>4, <1>5, Zenon DEF Next, Step

\* An entry that is filtered out, or is no file, goes by without a change to any file:
\* when the device is rebooted after a session that has left a file open.
THEOREM FilesLeftAlone == ASSUME FreshStart PROVE Spec => LeavesFilesAlone
<1>1. Init => IInv
  <2> SUFFICES ASSUME Init PROVE IInv
    OBVIOUS
  <2>1. Handle
    BY DEF Init, Handle, Closed
  <2>2. QED
    BY <2>1, InitDriven DEF IInv
<1>2. IInv /\ [Next]_vars => IInv'
  BY NextDriven, NextHandle DEF IInv
<1>3. IInv /\ [Next]_vars => [cur # 0 /\ Untouched(cur) => files' = files]_vars
  BY Untouching
<1>4. QED
  BY <1>1, <1>2, <1>3, PTL DEF Spec, LeavesFilesAlone

-----------------------------------------------------------------------------
(***************************************************************************)
(* Refinement: the loop is the reader of module TarReader.                 *)
(***************************************************************************)
LEMMA Runs == ASSUME pc # "idle" PROVE Status = "running"
BY DEF Status

LEMMA FailedNext ==
  ASSUME pc' = "idle", archive' # <<>>, empty_count' # 2
  PROVE  Status' = "failed"
BY DEF Status

\* Empty headers are entries to read_tar, and not to the reader.
LEMMA SameEntries ==
  ASSUME entry_index' = entry_index, empty_count' = empty_count
  PROVE  (entry_index - empty_count)' = entry_index - empty_count
OBVIOUS

LEMMA RefinedEnd == ASSUME Driven, EndOfArchive PROVE Reader!Next
<1>1. /\ pc = "header" /\ pc' = "idle" /\ archive' = archive /\ pos' = pos /\ cur' = cur
      /\ i' = i /\ empty_count' = empty_count /\ entry_index' = entry_index /\ calls' = <<>>
      /\ (~(empty_count < 2) \/ pos = Len(archive))
  BY DEF EndOfArchive, Succeed, loop, HeadersLeft
<1>2. /\ cur = 0 /\ i = 0 /\ pos \in 0..Len(archive) /\ empty_count \in 0..2
      /\ entry_index \in Nat /\ (archive = <<>> => entry_index = 0 /\ empty_count = 0)
  BY <1>1 DEF Driven, FlTypes, LoopTypes, Looping
<1>3. Status = "running"
  BY <1>1, Runs
<1>4. CASE archive = <<>>
  <2>1. pos = 0 /\ entry_index - empty_count = 0
    BY <1>2, <1>4
  <2>2. Status' = "closed"
    BY <1>1, <1>4 DEF Status
  <2>3. Reader!Close
    BY <1>1, <1>2, <1>4, <2>1, <2>2 DEF Reader!Close
  <2>4. QED
    BY <2>3 DEF Reader!Next
<1>5. CASE archive # <<>> /\ empty_count = 2
  <2>1. Status' = "done"
    BY <1>1, <1>5 DEF Status
  <2>2. Reader!Finish
    BY <1>1, <1>2, <1>3, <1>5, <2>1 DEF Reader!Finish, Reader!Running
  <2>3. QED
    BY <2>2 DEF Reader!Next
<1>6. CASE archive # <<>> /\ empty_count # 2
  <2>1. Status' = "failed"
    BY <1>1, <1>6, FailedNext
  <2>2. Reader!Truncated
    BY <1>1, <1>2, <1>3, <1>6, <2>1 DEF Reader!Truncated, Reader!Running
  <2>3. QED
    BY <2>2 DEF Reader!Next
<1>7. QED
  BY <1>4, <1>5, <1>6

LEMMA AtReadersHeader == ASSUME Driven, AtHeader PROVE Reader!AtHeader
<1>1. cur = 0 /\ pc = "header"
  BY HeaderTypes
<1>2. QED
  BY <1>1, Runs DEF AtHeader, HeadersLeft, Reader!AtHeader, Reader!Running

LEMMA RefinedEmpty == ASSUME Driven, EmptyHeader PROVE Reader!Next
<1>1. /\ AtHeader /\ ~archive[pos + 1].named /\ pos' = pos + 1
      /\ empty_count' = empty_count + 1
      /\ entry_index' = entry_index + 1 /\ archive' = archive /\ cur' = cur /\ i' = i
      /\ pc' = pc /\ pc = "header" /\ calls' = <<>>
  BY DEF EmptyHeader, AtHeader
<1>2. empty_count \in Int /\ entry_index \in Int
  BY DEF Driven, FlTypes, LoopTypes
<1>3. (entry_index - empty_count)' = entry_index - empty_count
  BY <1>1, <1>2
<1>4. Status = "running" /\ Status' = "running"
  BY <1>1 DEF Status
<1>5. Reader!EmptyHeader
  BY <1>1, <1>3, <1>4, AtReadersHeader DEF Reader!EmptyHeader
<1>6. QED
  BY <1>5 DEF Reader!Next

\* tarHeaderCallBack refused.
LEMMA RefinedRefusedHeader ==
  ASSUME Driven, NoSpace \/ CannotOpen
  PROVE  Reader!Next
<1>1. /\ AtHeader /\ archive[pos + 1].named /\ archive' = archive /\ pos' = pos + 1
      /\ cur' = 0 /\ i' = 0 /\ pc' = "idle" /\ empty_count' = empty_count
      /\ entry_index' = entry_index /\ calls' = <<HeaderCall(pos + 1)>>
  BY DEF NoSpace, CannotOpen, HeaderCallBack, Fail
<1>2. i = 0 /\ archive # <<>> /\ empty_count # 2
  BY <1>1, HeaderTypes
<1>3. Status' = "failed"
  BY <1>1, <1>2, FailedNext
<1>4. Reader!Header(FALSE)
  BY <1>1, <1>2, <1>3, SameEntries, AtReadersHeader
  DEF Reader!Header, Reader!StatusIf, HeaderCall, Reader!HeaderCall
<1>5. QED
  BY <1>4 DEF Reader!Next

LEMMA RefinedHeader ==
  ASSUME Driven, SkipFile \/ IgnoreEntry \/ \E real \in BOOLEAN : OpenFile(real)
  PROVE  Reader!Next
<1>1. /\ AtHeader /\ archive[pos + 1].named /\ archive' = archive /\ pos' = pos + 1
      /\ cur' = pos + 1 /\ i' = 0 /\ pc' = "data" /\ empty_count' = empty_count
      /\ entry_index' = entry_index /\ calls' = <<HeaderCall(pos + 1)>>
  BY DEF SkipFile, IgnoreEntry, OpenFile, HeaderCallBack, Accepted
<1>2. i = 0
  BY <1>1, HeaderTypes
<1>3. Status' = "running"
  BY <1>1 DEF Status
<1>4. Reader!Header(TRUE)
  BY <1>1, <1>2, <1>3, SameEntries, AtReadersHeader
  DEF Reader!Header, Reader!StatusIf, HeaderCall, Reader!HeaderCall
<1>5. QED
  BY <1>4 DEF Reader!Next

LEMMA RefinedMissing == ASSUME Driven, BlockMissing PROVE Reader!Next
<1>1. /\ pc = "data" /\ archive' = archive /\ pos' = pos /\ cur' = 0 /\ i' = 0 /\ pc' = "idle"
      /\ empty_count' = empty_count /\ entry_index' = entry_index /\ calls' = <<>>
  BY DEF BlockMissing, Reading, Fail
<1>2. cur # 0 /\ archive # <<>> /\ empty_count # 2
  BY <1>1, DataTypes
<1>3. Status = "running" /\ Status' = "failed"
  BY <1>1, <1>2, FailedNext, Runs
<1>4. Reader!Truncated
  BY <1>1, <1>2, <1>3, SameEntries DEF Reader!Truncated, Reader!Running
<1>5. QED
  BY <1>4 DEF Reader!Next

\* tarStreamWriteCallback is called for the next block; the last is marked.
LEMMA AtReadersBlock ==
  ASSUME Driven, WriteCallBack
  PROVE  /\ pc = "data" /\ cur # 0 /\ archive # <<>> /\ empty_count # 2
         /\ Reader!Running /\ i < archive[cur].blocks /\ pos < Len(archive)
         /\ archive' = archive /\ empty_count' = empty_count /\ entry_index' = entry_index
         /\ calls' = <<Reader!WriteCall(pos + 1, i + 1 = archive[cur].blocks)>>
<1>1. /\ pc = "data" /\ i < archive[cur].blocks /\ pos < Len(archive)
      /\ archive' = archive /\ empty_count' = empty_count /\ entry_index' = entry_index
      /\ calls' = <<WriteCall(pos + 1, i >= Entry.blocks - 1)>>
  BY DEF WriteCallBack, Reading, DataLeft, Entry
<1>2. cur # 0 /\ archive # <<>> /\ empty_count # 2 /\ Entry.blocks \in Nat /\ i \in Nat
  BY <1>1, DataTypes
<1>3. (i >= Entry.blocks - 1) = (i + 1 = archive[cur].blocks)
  BY <1>1, <1>2 DEF Entry
<1>4. calls' = <<Reader!WriteCall(pos + 1, i + 1 = archive[cur].blocks)>>
  BY <1>1, <1>3, Zenon DEF WriteCall, Reader!WriteCall
<1>5. QED
  BY <1>1, <1>2, <1>4, Runs DEF Reader!Running

LEMMA RefinedWrite ==
  ASSUME Driven, SkipBlock \/ \E lost \in BOOLEAN : WriteBlock(lost)
  PROVE  Reader!Next
<1>1. WriteCallBack /\ pos' = pos + 1 /\ i' = i + 1 /\ cur' = cur /\ pc' = pc
  BY DEF SkipBlock, WriteBlock, WriteReturnsOK
<1>2. /\ pc = "data" /\ cur # 0
      /\ Reader!Running /\ i < archive[cur].blocks /\ pos < Len(archive)
      /\ archive' = archive /\ empty_count' = empty_count /\ entry_index' = entry_index
      /\ calls' = <<Reader!WriteCall(pos + 1, i + 1 = archive[cur].blocks)>>
  BY <1>1, AtReadersBlock
<1>3. Status' = "running"
  BY <1>1, <1>2 DEF Status
<1>4. Reader!Write(TRUE)
  BY <1>1, <1>2, <1>3, SameEntries DEF Reader!Write, Reader!StatusIf
<1>5. QED
  BY <1>4 DEF Reader!Next

LEMMA RefinedWriteRefused == ASSUME Driven, WriteRefused PROVE Reader!Next
<1>1. WriteCallBack /\ pos' = pos /\ i' = 0 /\ cur' = 0 /\ pc' = "idle"
  BY DEF WriteRefused, Fail
<1>2. /\ cur # 0 /\ archive # <<>> /\ empty_count # 2
      /\ Reader!Running /\ i < archive[cur].blocks /\ pos < Len(archive)
      /\ archive' = archive /\ empty_count' = empty_count /\ entry_index' = entry_index
      /\ calls' = <<Reader!WriteCall(pos + 1, i + 1 = archive[cur].blocks)>>
  BY <1>1, AtReadersBlock
<1>3. Status' = "failed"
  BY <1>1, <1>2, FailedNext
<1>4. Reader!Write(FALSE)
  BY <1>1, <1>2, <1>3, SameEntries DEF Reader!Write, Reader!StatusIf
<1>5. QED
  BY <1>4 DEF Reader!Next

\* The entry has all its data.
LEMMA AtReadersEnd ==
  ASSUME Driven, EndCallBack
  PROVE  /\ pc = "data" /\ cur # 0 /\ archive # <<>> /\ empty_count # 2
         /\ Reader!Running /\ i = archive[cur].blocks /\ pos' = pos /\ cur' = 0 /\ i' = 0
         /\ archive' = archive /\ empty_count' = empty_count
         /\ calls' = <<Reader!EndCall(cur)>>
<1>1. /\ pc = "data" /\ ~(i < Entry.blocks) /\ pos' = pos /\ cur' = 0 /\ i' = 0
      /\ archive' = archive /\ empty_count' = empty_count
      /\ calls' = <<Reader!EndCall(cur)>>
  BY DEF EndCallBack, DataLeft, EndCall, Reader!EndCall
<1>2. cur # 0 /\ archive # <<>> /\ empty_count # 2 /\ Entry.blocks \in Nat /\ i \in 0..Entry.blocks
  BY <1>1, DataTypes
<1>3. i = archive[cur].blocks
  BY <1>1, <1>2 DEF Entry
<1>4. QED
  BY <1>1, <1>2, <1>3, Runs DEF Reader!Running

LEMMA RefinedEndOK == ASSUME Driven, EndOK PROVE Reader!Next
<1>1. EndCallBack /\ entry_index' = entry_index + 1 /\ pc' = "header"
  BY DEF EndOK, EndReturnsOK
<1>2. /\ cur # 0
      /\ Reader!Running /\ i = archive[cur].blocks /\ pos' = pos /\ cur' = 0 /\ i' = 0
      /\ archive' = archive /\ empty_count' = empty_count
      /\ calls' = <<Reader!EndCall(cur)>>
  BY <1>1, AtReadersEnd
<1>3. Status' = "running"
  BY <1>1 DEF Status
<1>4. empty_count \in Int /\ entry_index \in Int
  BY DEF Driven, FlTypes, LoopTypes
<1>5. (entry_index - empty_count)' = (entry_index - empty_count) + 1
  BY <1>1, <1>2, <1>4
<1>6. Reader!End(TRUE)
  BY <1>1, <1>2, <1>3, <1>5 DEF Reader!End, Reader!StatusIf
<1>7. QED
  BY <1>6 DEF Reader!Next

LEMMA RefinedEndRefused ==
  ASSUME Driven, EndUnhealthy \/ CannotReopen
  PROVE  Reader!Next
<1>1. EndCallBack /\ entry_index' = entry_index /\ pc' = "idle"
  BY DEF EndUnhealthy, CannotReopen, Fail
<1>2. /\ cur # 0 /\ archive # <<>> /\ empty_count # 2
      /\ Reader!Running /\ i = archive[cur].blocks /\ pos' = pos /\ cur' = 0 /\ i' = 0
      /\ archive' = archive /\ empty_count' = empty_count
      /\ calls' = <<Reader!EndCall(cur)>>
  BY <1>1, AtReadersEnd
<1>3. Status' = "failed"
  BY <1>1, <1>2, FailedNext
<1>4. Reader!End(FALSE)
  BY <1>1, <1>2, <1>3, SameEntries DEF Reader!End, Reader!StatusIf
<1>5. QED
  BY <1>4 DEF Reader!Next

\* read_tar, and what the file callbacks answer it, is the reader of module TarReader, for
\* every archive and whatever the filesystem does, handles left open included.
THEOREM Implementation == Spec => ImplementsReader
<1>1. Init => Reader!Init
  BY DEF Init, Reader!Init, Status
<1>2. Driven /\ [Next]_vars => [Reader!Next]_(Reader!readerVars)
  <2> SUFFICES ASSUME Driven, [Next]_vars
               PROVE  Reader!Next \/ UNCHANGED Reader!readerVars
    OBVIOUS
  <2>1. CASE Reboot
    <3>1. Reader!Close
      BY <2>1 DEF Reboot, Reader!Close, Status
    <3>2. QED
      BY <3>1 DEF Reader!Next
  <2>2. ASSUME NEW a \in Archives, Start(a)
        PROVE  Reader!Next
    <3>1. Reader!Open
      BY <2>2 DEF Start, Reader!Open, Status
    <3>2. QED
      BY <3>1 DEF Reader!Next
  <2>3. CASE SourceMissing \/ UNCHANGED vars
    BY <2>3 DEF SourceMissing, vars, loop, Status, Reader!readerVars
  <2>4. CASE Step
    BY <2>4, RefinedEnd, RefinedEmpty, RefinedRefusedHeader, RefinedHeader, RefinedMissing,
       RefinedWrite, RefinedWriteRefused, RefinedEndOK, RefinedEndRefused, Zenon DEF Step
  <2>5. QED
    BY <2>1, <2>2, <2>3, <2>4 DEF Next
<1>3. QED
  BY <1>1, <1>2, InitDriven, NextDriven, PTL DEF Spec, ImplementsReader, Reader!Spec

-----------------------------------------------------------------------------
(***************************************************************************)
(* The headers of an archive, and those before the one read_tar is at. The *)
(* chain is the least set with the first block that is closed under After; *)
(* nothing of it is between a header and the one that follows it.          *)
(***************************************************************************)
Behind(a, c) == {p \in Chain(a) : p < c}
Had(a, c) == {h \in Behind(a, c) : a[h].named}
Dirs(a, S) == {h \in S : a[h].type = "dir"}

\* A header is expected at c, and none before it leads beyond c.
Passed(a, c) ==
  /\ c <= Len(a) => c \in Chain(a)
  /\ \A p \in Behind(a, c) : After(a, p) <= c

LEMMA ChainTypes ==
  ASSUME NEW a \in Seq(Block), NEW p \in Chain(a)
  PROVE  /\ p \in 1..Len(a) /\ p \in Nat /\ Len(a) \in Nat /\ a # <<>> /\ a[p].blocks \in Nat
         /\ After(a, p) \in Nat /\ After(a, p) > p
         /\ (After(a, p) <= Len(a) => After(a, p) \in Chain(a))
<1>1. p \in 1..Len(a) /\ p \in Nat /\ Len(a) \in Nat /\ a # <<>>
  BY DEF Chain
<1>2. a[p].blocks \in Nat
  BY <1>1, BlockTypes, Zenon
<1>3. After(a, p) = p + 1 + a[p].blocks \/ After(a, p) = p + 1
  BY DEF After
<1>4. After(a, p) \in Nat /\ After(a, p) > p
  BY <1>1, <1>2, <1>3
<1>5. ASSUME After(a, p) <= Len(a)
      PROVE  After(a, p) \in Chain(a)
  <2>1. After(a, p) \in 1..Len(a)
    BY <1>1, <1>4, <1>5
  <2>2. \A c \in Chains(a) : After(a, p) \in c
    BY <1>5 DEF Chain, Chains
  <2>3. QED
    BY <2>1, <2>2 DEF Chain
<1>6. QED
  BY <1>1, <1>2, <1>4, <1>5

LEMMA Advance ==
  ASSUME NEW a \in Seq(Block), NEW c \in Chain(a), Passed(a, c)
  PROVE  Passed(a, After(a, c)) /\ Behind(a, After(a, c)) = Behind(a, c) \cup {c}
<1> DEFINE q == After(a, c)
           Between == {p \in Chain(a) : c < p /\ p < q}
           r == Chain(a) \ Between
<1>1. /\ c \in 1..Len(a) /\ c \in Nat /\ Len(a) \in Nat /\ q \in Nat /\ q > c /\ a # <<>>
      /\ (q <= Len(a) => q \in Chain(a))
  BY ChainTypes
<1>2. ASSUME NEW p \in Chain(a)
      PROVE  /\ p \in Nat /\ p >= 1 /\ After(a, p) \in Nat /\ After(a, p) > p
             /\ (After(a, p) <= Len(a) => After(a, p) \in Chain(a))
  BY ChainTypes
<1> HIDE DEF q
<1>3. 1 \in r
  <2>1. 1 \in Chain(a)
    BY <1>1 DEF Chain, Chains
  <2>2. QED
    BY <1>1, <2>1
<1>4. ASSUME NEW p \in r, After(a, p) <= Len(a)
      PROVE  After(a, p) \in r
  <2>1. p \in Chain(a) /\ After(a, p) \in Chain(a) /\ ~(c < p /\ p < q)
    BY <1>2, <1>4
  <2>2. CASE p < c
    <3>1. After(a, p) <= c
      BY <2>1, <2>2 DEF Passed, Behind
    <3>2. QED
      BY <1>1, <1>2, <2>1, <3>1
  <2>3. CASE p = c
    BY <1>1, <2>1, <2>3 DEF q
  <2>4. CASE p >= q
    BY <1>1, <1>2, <2>1, <2>4
  <2>5. QED
    BY <1>1, <1>2, <2>1, <2>2, <2>3, <2>4
<1>5. r \in Chains(a)
  <2>1. r \in SUBSET (1..Len(a))
    BY DEF Chain
  <2>2. QED
    BY <1>3, <1>4, <2>1, Zenon DEF Chains
<1>6. Between = {}
  <2>1. Chain(a) \subseteq r
    BY <1>5, Zenon DEF Chain
  <2>2. QED
    BY <2>1
<1>7. Behind(a, q) = Behind(a, c) \cup {c}
  <2>1. ASSUME NEW p \in Chain(a)
        PROVE  p < q <=> (p < c \/ p = c)
    <3>1. p \notin Between
      BY <1>6
    <3>2. ~(c < p /\ p < q)
      BY <3>1
    <3>3. QED
      BY <1>1, <1>2, <3>2
  <2> HIDE DEF Between, r
  <2>2. QED
    BY <2>1, Zenon DEF Behind
<1>8. Passed(a, q)
  <2>1. ASSUME NEW p \in Behind(a, q)
        PROVE  After(a, p) <= q
    <3>1. CASE p = c
      BY <1>1, <3>1 DEF q
    <3>2. CASE p \in Behind(a, c)
      <4>1. p \in Chain(a) /\ After(a, p) <= c
        BY <3>2 DEF Passed, Behind
      <4>2. QED
        BY <1>1, <1>2, <4>1
    <3>3. QED
      BY <1>7, <2>1, <3>1, <3>2
  <2>2. QED
    BY <1>1, <2>1 DEF Passed
<1>9. QED
  BY <1>7, <1>8 DEF q

LEMMA FinitePlaces ==
  ASSUME NEW a \in Seq(Block), NEW S \in SUBSET (1..Len(a))
  PROVE  IsFiniteSet(S) /\ Cardinality(S) \in Nat
<1>1. 1 \in Int /\ Len(a) \in Int
  OBVIOUS
<1>2. IsFiniteSet(1..Len(a))
  BY <1>1, FS_Interval, Zenon
<1>3. IsFiniteSet(S)
  BY <1>2, FS_Subset, Zenon
<1>4. QED
  BY <1>3, FS_CardinalityType, Zenon

LEMMA OneMorePlace ==
  ASSUME NEW a \in Seq(Block), NEW S \in SUBSET (1..Len(a)), NEW c, c \notin S
  PROVE  Cardinality(S \cup {c}) = Cardinality(S) + 1
BY FinitePlaces, FS_AddElement

\* A header that names something: one entry more, and a folder if it is one.
LEMMA OverEntry ==
  ASSUME NEW a \in Archives, NEW c \in Chain(a), Passed(a, c), a[c].named,
         Cardinality(Empties(a, c)) < 2, Had(a, c) \subseteq Headers[a]
  PROVE  LET q == After(a, c)
         IN  /\ c \in Headers[a] /\ Passed(a, q) /\ Had(a, q) = Had(a, c) \cup {c}
             /\ Had(a, q) \subseteq Headers[a] /\ Empties(a, q) = Empties(a, c)
             /\ Cardinality(Had(a, q)) = Cardinality(Had(a, c)) + 1
             /\ Cardinality(Dirs(a, Had(a, q))) =
                  Cardinality(Dirs(a, Had(a, c))) + (IF a[c].type = "dir" THEN 1 ELSE 0)
<1> DEFINE q == After(a, c)
<1>1. a \in Seq(Block)
  BY ArchivesAssumption
<1>2. Passed(a, q) /\ Behind(a, q) = Behind(a, c) \cup {c}
  BY <1>1, Advance
<1> HIDE DEF q
<1>3. c \in Headers[a]
  BY DEF Headers
<1>4. Had(a, q) = Had(a, c) \cup {c}
  BY <1>2 DEF Had
<1>5. Had(a, q) \subseteq Headers[a]
  BY <1>3, <1>4
<1>6. Empties(a, q) = Empties(a, c)
  BY <1>2 DEF Empties, Behind
<1>7. Had(a, c) \in SUBSET (1..Len(a)) /\ Dirs(a, Had(a, c)) \in SUBSET (1..Len(a))
      /\ c \notin Had(a, c) /\ c \notin Dirs(a, Had(a, c))
  <2>1. c \notin Behind(a, c)
    BY <1>1, ChainTypes DEF Behind
  <2>2. QED
    BY <2>1 DEF Had, Dirs, Behind, Chain
<1>8. Cardinality(Had(a, q)) = Cardinality(Had(a, c)) + 1
  BY <1>1, <1>4, <1>7, OneMorePlace
<1>9. Cardinality(Dirs(a, Had(a, c))) \in Nat
  BY <1>1, <1>7, FinitePlaces
<1>10. CASE a[c].type = "dir"
  <2>1. Dirs(a, Had(a, q)) = Dirs(a, Had(a, c)) \cup {c}
    BY <1>4, <1>10 DEF Dirs
  <2>2. Cardinality(Dirs(a, Had(a, q))) = Cardinality(Dirs(a, Had(a, c))) + 1
    BY <1>1, <1>7, <2>1, OneMorePlace
  <2>3. QED
    BY <1>2, <1>3, <1>4, <1>5, <1>6, <1>8, <1>10, <2>2 DEF q
<1>11. CASE a[c].type # "dir"
  <2>1. Dirs(a, Had(a, q)) = Dirs(a, Had(a, c))
    BY <1>4, <1>11 DEF Dirs
  <2>2. QED
    BY <1>2, <1>3, <1>4, <1>5, <1>6, <1>8, <1>9, <1>11, <2>1 DEF q
<1>12. QED
  BY <1>10, <1>11

\* One that names nothing.
LEMMA OverEmpty ==
  ASSUME NEW a \in Archives, NEW c \in Chain(a), Passed(a, c), ~a[c].named
  PROVE  /\ After(a, c) = c + 1 /\ Passed(a, c + 1) /\ Had(a, c + 1) = Had(a, c)
         /\ Cardinality(Empties(a, c + 1)) = Cardinality(Empties(a, c)) + 1
<1>1. a \in Seq(Block) /\ After(a, c) = c + 1
  BY ArchivesAssumption DEF After
<1>2. Passed(a, c + 1) /\ Behind(a, c + 1) = Behind(a, c) \cup {c}
  BY <1>1, Advance
<1>3. Had(a, c + 1) = Had(a, c)
  BY <1>2 DEF Had
<1>4. Empties(a, c + 1) = Empties(a, c) \cup {c}
  BY <1>2 DEF Empties, Behind
<1>5. c \notin Empties(a, c) /\ Empties(a, c) \in SUBSET (1..Len(a))
  BY <1>1, ChainTypes DEF Empties, Chain
<1>6. QED
  BY <1>1, <1>2, <1>3, <1>4, <1>5, OneMorePlace

\* The end: behind the last block, or the second empty header.
LEMMA AtTheEnd ==
  ASSUME NEW a \in Archives, NEW c \in Nat, Had(a, c) \subseteq Headers[a],
         c > Len(a) \/ Cardinality(Empties(a, c)) = 2
  PROVE  Headers[a] = Had(a, c)
<1>1. a \in Seq(Block) /\ Len(a) \in Nat
  BY ArchivesAssumption
<1>2. ASSUME NEW h \in Headers[a], ~(h < c)
      PROVE  FALSE
  <2>1. h \in Chain(a) /\ Cardinality(Empties(a, h)) < 2
    BY <1>2 DEF Headers
  <2>2. h \in Nat /\ h <= Len(a)
    BY <1>1, <2>1, ChainTypes
  <2>3. Cardinality(Empties(a, c)) = 2
    BY <1>1, <1>2, <2>2
  <2>4. Empties(a, c) \subseteq Empties(a, h)
    <3>1. ASSUME NEW p \in Empties(a, c)
          PROVE  p \in Empties(a, h)
      <4>1. p \in Chain(a) /\ p < c /\ ~a[p].named
        BY DEF Empties
      <4>2. p \in Nat
        BY <1>1, <4>1, ChainTypes
      <4>3. p < h
        BY <1>2, <2>2, <4>1, <4>2
      <4>4. QED
        BY <4>1, <4>3 DEF Empties
    <3>2. QED
      BY <3>1
  <2>5. Empties(a, h) \in SUBSET (1..Len(a)) /\ Empties(a, c) \in SUBSET (1..Len(a))
    BY DEF Empties, Chain
  <2>6. IsFiniteSet(Empties(a, h)) /\ Cardinality(Empties(a, h)) \in Nat
        /\ Cardinality(Empties(a, c)) \in Nat
    BY <1>1, <2>5, FinitePlaces
  <2>7. Cardinality(Empties(a, c)) <= Cardinality(Empties(a, h))
    BY <2>4, <2>6, FS_Subset
  <2>8. QED
    BY <2>1, <2>3, <2>6, <2>7
<1>3. Headers[a] \subseteq Had(a, c)
  BY <1>2 DEF Headers, Had, Behind
<1>4. QED
  BY <1>3

\* Before the first.
LEMMA AtTheStart ==
  ASSUME NEW a \in Archives
  PROVE  /\ Passed(a, 1) /\ Had(a, 1) = {} /\ Cardinality(Empties(a, 1)) = 0
         /\ Cardinality(Had(a, 1)) = 0 /\ Cardinality(Dirs(a, Had(a, 1))) = 0
<1>1. a \in Seq(Block)
  BY ArchivesAssumption
<1>2. \A p \in Chain(a) : ~(p < 1)
  BY <1>1, ChainTypes
<1>3. Behind(a, 1) = {} /\ Empties(a, 1) = {}
  BY <1>2 DEF Behind, Empties
<1>4. Had(a, 1) = {} /\ Dirs(a, Had(a, 1)) = {}
  BY <1>3 DEF Had, Dirs
<1>5. 1 <= Len(a) => 1 \in Chain(a)
  <2>1. SUFFICES ASSUME 1 <= Len(a) PROVE 1 \in Chain(a)
    OBVIOUS
  <2>2. a # <<>> /\ 1 \in 1..Len(a)
    BY <1>1, <2>1
  <2>3. QED
    BY <2>2 DEF Chain, Chains
<1>6. QED
  BY <1>3, <1>4, <1>5, FS_EmptySet DEF Passed

-----------------------------------------------------------------------------
(***************************************************************************)
(* What read_tar has counted, and what the filesystem holds.               *)
(***************************************************************************)
\* The header that is expanded or looked for is one of the archive; the entries before it
\* were counted, and a folder when its header was met.
Spot == IF pc = "data" THEN cur ELSE pos + 1
InFolder == IF pc = "data" /\ Entry.type = "dir" THEN 1 ELSE 0
Counted ==
  /\ Cardinality(Empties(archive, Spot)) = empty_count
  /\ totalFiles = Cardinality(Had(archive, Spot))
  /\ totalFolders = Cardinality(Dirs(archive, Had(archive, Spot))) + InFolder
Tally ==
  pc # "idle" =>
    /\ archive \in Archives /\ returned = "no"
    /\ Passed(archive, Spot) /\ Had(archive, Spot) \subseteq Headers[archive] /\ Counted
    /\ pc = "data" => cur \in Chain(archive) /\ Entry.named /\ pos = cur + i

\* The handle is open for each file that the filters let through, and for nothing else; while
\* nothing went wrong it is at the end of the file, which has the blocks that were written.
Wanted(h) == archive[h].type = "file" /\ archive[h].path \notin SkippedPaths
Writing ==
  pc = "data" =>
    /\ untarredFile.open => Wanted(cur)
    /\ Wanted(cur) =>
         /\ untarredFile.open /\ output /\ untarredFile.path = Entry.path /\ untarredFile.pos = i
         /\ untarredFile.real => files[Entry.path].from = cur
         /\ ~faulty => untarredFile.real /\ files[Entry.path].len = i

\* A path has the file of the last of the entries S that go there, whole.
OwnersIn(a, S, p) == {h \in S : a[h].type = "file" /\ a[h].path = p /\ p \notin SkippedPaths}
Held(a, f, S, p) ==
  IF OwnersIn(a, S, p) = {} THEN f[p].from <= 0
  ELSE f[p] = [from |-> Max(OwnersIn(a, S, p)), len |-> a[Max(OwnersIn(a, S, p))].blocks]
InWork(p) == pc = "data" /\ Wanted(cur) /\ p = Entry.path
OnDisk ==
  pc # "idle" =>
    \A p \in Paths : InWork(p) \/ Held(archive, files, Had(archive, Spot), p)

LEMMA NextHeader ==
  ASSUME IInv, Tally, AtHeader
  PROVE  /\ archive \in Archives /\ returned = "no" /\ Spot = pos + 1 /\ pos + 1 \in Chain(archive)
         /\ pos + 1 \in Nat /\ pos \in Nat
         /\ Passed(archive, pos + 1) /\ Had(archive, pos + 1) \subseteq Headers[archive]
         /\ Cardinality(Empties(archive, pos + 1)) = empty_count
         /\ empty_count \in {0, 1}
         /\ totalFiles = Cardinality(Had(archive, pos + 1))
         /\ totalFolders = Cardinality(Dirs(archive, Had(archive, pos + 1)))
         /\ totalFolders \in Nat
<1>1. pc = "header" /\ pos \in Nat /\ Len(archive) \in Nat /\ pos < Len(archive)
      /\ empty_count \in {0, 1}
  BY HeaderTypes DEF IInv
<1>2. Spot = pos + 1 /\ InFolder = 0
  BY <1>1 DEF Spot, InFolder
<1>3. totalFolders \in Nat /\ archive \in Archives
  BY <1>1 DEF IInv, Driven, FlTypes, CountTypes, Tally
<1>4. archive \in Seq(Block)
  BY <1>3, ArchivesAssumption
<1>5. Had(archive, pos + 1) \in SUBSET (1..Len(archive))
      /\ Dirs(archive, Had(archive, pos + 1)) \in SUBSET (1..Len(archive))
  BY DEF Had, Dirs, Behind, Chain
<1>6. Cardinality(Dirs(archive, Had(archive, pos + 1))) \in Nat
  BY <1>4, <1>5, FinitePlaces
<1>7. QED
  BY <1>1, <1>2, <1>3, <1>6 DEF Tally, Counted, Passed

LEMMA OpenEntry ==
  ASSUME IInv, Tally, pc = "data"
  PROVE  /\ archive \in Archives /\ returned = "no" /\ cur \in Chain(archive)
         /\ archive[cur].named /\ pos = cur + i /\ cur \in Nat /\ pos \in Nat /\ i \in Nat
         /\ Entry.blocks \in Nat /\ i <= Entry.blocks /\ Len(archive) \in Nat
         /\ Passed(archive, cur) /\ Had(archive, cur) \subseteq Headers[archive]
         /\ Cardinality(Empties(archive, cur)) = empty_count /\ empty_count < 2
         /\ totalFiles = Cardinality(Had(archive, cur))
         /\ totalFolders = Cardinality(Dirs(archive, Had(archive, cur)))
                             + (IF archive[cur].type = "dir" THEN 1 ELSE 0)
         /\ cur \in Headers[archive]
<1>1. /\ Len(archive) \in Nat /\ pos \in Nat /\ cur \in 1..Len(archive) /\ Entry.blocks \in Nat
      /\ i \in 0..Entry.blocks /\ empty_count \in {0, 1}
  BY DataTypes DEF IInv
<1>2. Spot = cur
  BY DEF Spot
<1>3. /\ archive \in Archives /\ returned = "no" /\ cur \in Chain(archive)
      /\ archive[cur].named /\ pos = cur + i
      /\ Passed(archive, cur) /\ Had(archive, cur) \subseteq Headers[archive]
      /\ Cardinality(Empties(archive, cur)) = empty_count
      /\ totalFiles = Cardinality(Had(archive, cur))
      /\ totalFolders = Cardinality(Dirs(archive, Had(archive, cur))) + InFolder
  BY <1>2 DEF Tally, Counted, Entry
<1>4. InFolder = IF archive[cur].type = "dir" THEN 1 ELSE 0
  BY DEF InFolder, Entry
<1>5. cur \in Headers[archive]
  BY <1>1, <1>3 DEF Headers
<1>6. QED
  BY <1>1, <1>3, <1>4, <1>5

\* The end callback of the entry: its data is read, and the next header follows.
LEMMA EntryLeft ==
  ASSUME IInv, Tally, EndCallBack
  PROVE  /\ pc = "data" /\ After(archive, cur) = pos + 1 /\ i = Entry.blocks
         /\ Passed(archive, pos + 1) /\ Had(archive, pos + 1) = Had(archive, cur) \cup {cur}
         /\ Had(archive, pos + 1) \subseteq Headers[archive]
         /\ Cardinality(Empties(archive, pos + 1)) = empty_count
         /\ Cardinality(Had(archive, pos + 1)) = totalFiles + 1
         /\ Cardinality(Dirs(archive, Had(archive, pos + 1))) = totalFolders
<1>1. pc = "data" /\ ~(i < Entry.blocks)
  BY DEF EndCallBack, DataLeft
<1>2. /\ archive \in Archives /\ cur \in Chain(archive)
      /\ archive[cur].named /\ pos = cur + i /\ cur \in Nat /\ pos \in Nat /\ i \in Nat
      /\ Entry.blocks \in Nat /\ i <= Entry.blocks
      /\ Passed(archive, cur) /\ Had(archive, cur) \subseteq Headers[archive]
      /\ Cardinality(Empties(archive, cur)) = empty_count /\ empty_count < 2
      /\ totalFiles = Cardinality(Had(archive, cur))
      /\ totalFolders = Cardinality(Dirs(archive, Had(archive, cur)))
                          + (IF archive[cur].type = "dir" THEN 1 ELSE 0)
  BY <1>1, OpenEntry
<1>3. i = Entry.blocks
  BY <1>1, <1>2
<1>4. After(archive, cur) = pos + 1
  <2>1. After(archive, cur) = cur + 1 + Entry.blocks
    BY <1>2 DEF After, Entry
  <2>2. QED
    BY <1>2, <1>3, <2>1
<1>5. QED
  BY <1>1, <1>2, <1>3, <1>4, OverEntry

LEMMA NextTally == ASSUME IInv, Tally, [Next]_vars PROVE Tally'
<1>1. CASE Reboot \/ SourceMissing \/ EndOfArchive \/ NoSpace \/ CannotOpen \/ BlockMissing
           \/ WriteRefused \/ EndUnhealthy \/ CannotReopen
  <2>1. pc' = "idle"
    BY <1>1 DEF Reboot, SourceMissing, EndOfArchive, NoSpace, CannotOpen, BlockMissing,
                WriteRefused, EndUnhealthy, CannotReopen, Succeed, Fail
  <2>2. QED
    BY <2>1 DEF Tally
<1>2. CASE UNCHANGED vars
  <2>1. /\ archive' = archive /\ pos' = pos /\ cur' = cur /\ i' = i /\ pc' = pc
        /\ empty_count' = empty_count /\ totalFiles' = totalFiles /\ totalFolders' = totalFolders
        /\ returned' = returned
    BY <1>2 DEF vars, loop, counts
  <2>2. Entry' = Entry
    BY <2>1 DEF Entry
  <2>3. Spot' = Spot /\ InFolder' = InFolder
    BY <2>1, <2>2 DEF Spot, InFolder
  <2>4. QED
    BY <2>1, <2>2, <2>3 DEF Tally, Counted
<1>3. ASSUME NEW a \in Archives, Start(a)
      PROVE  Tally'
  <2>1. /\ pc' = "header" /\ archive' = a /\ pos' = 0 /\ empty_count' = 0 /\ totalFiles' = 0
        /\ totalFolders' = 0 /\ returned' = "no"
    BY <1>3 DEF Start
  <2>2. Spot' = 1 /\ InFolder' = 0
    BY <2>1 DEF Spot, InFolder
  <2>3. /\ Passed(a, 1) /\ Had(a, 1) = {} /\ Cardinality(Empties(a, 1)) = 0
        /\ Cardinality(Had(a, 1)) = 0 /\ Cardinality(Dirs(a, Had(a, 1))) = 0
    BY AtTheStart
  <2>4. QED
    BY <2>1, <2>2, <2>3 DEF Tally, Counted
<1>4. CASE EmptyHeader
  <2>1. /\ AtHeader /\ ~archive[pos + 1].named /\ archive' = archive /\ pos' = pos + 1
        /\ empty_count' = empty_count + 1 /\ pc' = pc /\ totalFiles' = totalFiles
        /\ totalFolders' = totalFolders /\ returned' = returned /\ pc' = "header"
    BY <1>4 DEF EmptyHeader, AtHeader, counts
  <2>2. /\ archive \in Archives /\ returned = "no" /\ pos + 1 \in Chain(archive)
        /\ Passed(archive, pos + 1) /\ Had(archive, pos + 1) \subseteq Headers[archive]
        /\ Cardinality(Empties(archive, pos + 1)) = empty_count
        /\ totalFiles = Cardinality(Had(archive, pos + 1))
        /\ totalFolders = Cardinality(Dirs(archive, Had(archive, pos + 1)))
        /\ totalFolders \in Nat
    BY <2>1, NextHeader
  <2>3. /\ Passed(archive, pos + 1 + 1) /\ Had(archive, pos + 1 + 1) = Had(archive, pos + 1)
        /\ Cardinality(Empties(archive, pos + 1 + 1)) = Cardinality(Empties(archive, pos + 1)) + 1
    BY <2>1, <2>2, OverEmpty
  <2>4. Spot' = pos + 1 + 1 /\ InFolder' = 0
    BY <2>1 DEF Spot, InFolder
  <2>5. QED
    BY <2>1, <2>2, <2>3, <2>4 DEF Tally, Counted
<1>5. CASE SkipFile \/ IgnoreEntry \/ \E real \in BOOLEAN : OpenFile(real)
  <2>1. /\ AtHeader /\ archive[pos + 1].named /\ archive' = archive /\ pos' = pos + 1
        /\ empty_count' = empty_count /\ totalFiles' = totalFiles
        /\ cur' = pos + 1 /\ i' = 0 /\ pc' = "data" /\ returned' = returned
    BY <1>5 DEF SkipFile, IgnoreEntry, OpenFile, HeaderCallBack, Accepted
  <2>2. /\ archive \in Archives /\ returned = "no" /\ pos + 1 \in Chain(archive)
        /\ pos + 1 \in Nat /\ pos \in Nat
        /\ Passed(archive, pos + 1) /\ Had(archive, pos + 1) \subseteq Headers[archive]
        /\ Cardinality(Empties(archive, pos + 1)) = empty_count
        /\ totalFiles = Cardinality(Had(archive, pos + 1))
        /\ totalFolders = Cardinality(Dirs(archive, Had(archive, pos + 1)))
        /\ totalFolders \in Nat
    BY <2>1, NextHeader
  <2>3. Spot' = pos + 1 /\ Entry' = archive[pos + 1]
    BY <2>1 DEF Spot, Entry
  <2>4. totalFolders' = totalFolders + InFolder'
    <3>1. InFolder' = IF archive[pos + 1].type = "dir" THEN 1 ELSE 0
      BY <2>1, <2>3 DEF InFolder
    <3>2. QED
      BY <1>5, <2>2, <3>1 DEF SkipFile, IgnoreEntry, OpenFile, HeaderCallBack
  <2>5. pos' = cur' + i'
    BY <2>1, <2>2
  <2>6. QED
    BY <2>1, <2>2, <2>3, <2>4, <2>5 DEF Tally, Counted
<1>6. CASE SkipBlock \/ \E lost \in BOOLEAN : WriteBlock(lost)
  <2>1. /\ pc = "data" /\ pc' = pc /\ archive' = archive /\ cur' = cur /\ pos' = pos + 1
        /\ i' = i + 1 /\ empty_count' = empty_count /\ totalFiles' = totalFiles
        /\ totalFolders' = totalFolders /\ returned' = returned
    BY <1>6 DEF SkipBlock, WriteBlock, WriteCallBack, WriteReturnsOK, Reading, counts
  <2>2. Spot' = Spot /\ Entry' = Entry
    BY <2>1 DEF Spot, Entry
  <2>3. InFolder' = InFolder
    BY <2>1, <2>2 DEF InFolder
  <2>4. pos = cur + i /\ pos \in Nat /\ cur \in Nat /\ i \in Nat
    BY <2>1, OpenEntry
  <2>5. pos' = cur' + i'
    BY <2>1, <2>4
  <2>6. QED
    BY <2>1, <2>2, <2>3, <2>5 DEF Tally, Counted
<1>7. CASE EndOK
  <2>1. /\ EndCallBack /\ pc = "data" /\ pc' = "header" /\ archive' = archive /\ pos' = pos
        /\ empty_count' = empty_count /\ totalFiles' = totalFiles + 1
        /\ totalFolders' = totalFolders /\ returned' = returned
    BY <1>7 DEF EndOK, EndCallBack, EndReturnsOK, EndedFiles
  <2>2. /\ Passed(archive, pos + 1) /\ Had(archive, pos + 1) \subseteq Headers[archive]
        /\ Cardinality(Empties(archive, pos + 1)) = empty_count
        /\ Cardinality(Had(archive, pos + 1)) = totalFiles + 1
        /\ Cardinality(Dirs(archive, Had(archive, pos + 1))) = totalFolders
    BY <2>1, EntryLeft
  <2>3. Spot' = pos + 1 /\ InFolder' = 0
    BY <2>1 DEF Spot, InFolder
  <2>4. archive \in Archives /\ returned = "no" /\ totalFolders \in Nat
    BY <2>1, OpenEntry DEF IInv, Driven, FlTypes, CountTypes
  <2>5. QED
    BY <2>1, <2>2, <2>3, <2>4 DEF Tally, Counted
<1>8. QED
  BY <1>1, <1>2, <1>3, <1>4, <1>5, <1>6, <1>7, Zenon DEF Next, Step

-----------------------------------------------------------------------------
(***************************************************************************)
(* The handle and the file that is written.                                *)
(***************************************************************************)
LEMMA DiskIs ==
  ASSUME IInv
  PROVE  files \in [Paths -> [from : Int, len : Nat]] /\ untarredFile \in Handles
BY Zenon DEF IInv, Driven, FlTypes, DiskTypes, Handles

\* At a header no file is open.
LEMMA ClosedAtHeader == ASSUME IInv, AtHeader PROVE ~untarredFile.open
BY Zenon DEF IInv, Handle, AtHeader

\* The filters were asked when the file was met.
LEMMA WantedIsWritten ==
  ASSUME IInv, pc = "data", Wanted(cur)
  PROVE  ~tarSkipThisEntry
<1>1. Entry.type = "file" /\ ~Filtered(Entry.path)
  BY DEF Wanted, Entry, Filtered
<1>2. QED
  BY <1>1, Zenon DEF IInv, Handle

\* What OpenFile does, in terms of the next entry.
LEMMA OpenedFile ==
  ASSUME IInv, NEW real \in BOOLEAN, OpenFile(real)
  PROVE  /\ AtHeader /\ archive' = archive /\ cur' = pos + 1 /\ pos' = pos + 1 /\ i' = 0
         /\ pc' = "data" /\ Entry' = archive[pos + 1] /\ Entry'.type = "file"
         /\ Entry'.path \in Paths /\ Wanted(cur)' /\ output'
         /\ untarredFile'.open /\ untarredFile'.path = Entry'.path /\ untarredFile'.pos = 0
         /\ (untarredFile'.real <=> real)
         /\ \A p \in Paths : p # Entry'.path => files'[p] = files[p]
         /\ real => files'[Entry'.path] = [from |-> pos + 1, len |-> 0]
         /\ ~real => faulty'
<1> DEFINE path == archive[pos + 1].path
<1>1. /\ AtHeader /\ archive' = archive /\ cur' = pos + 1 /\ pos' = pos + 1 /\ i' = 0
      /\ pc' = "data" /\ archive[pos + 1].type = "file"
      /\ untarredFile' = [open |-> TRUE, path |-> path, pos |-> 0, real |-> real]
      /\ files' = IF real THEN [files EXCEPT ![path] = [from |-> pos + 1, len |-> 0]] ELSE files
  BY DEF OpenFile, HeaderCallBack, Accepted
<1>2. Entry' = archive[pos + 1] /\ path \in Paths
  BY <1>1, HeaderTypes DEF Entry, IInv
<1>3. ~Filtered(path)
  BY Zenon DEF OpenFile, HeaderCallBack
<1>4. Wanted(cur)'
  BY <1>1, <1>3 DEF Wanted, Filtered
<1>5. output' /\ (~real => faulty')
  BY Zenon DEF OpenFile
<1>6. /\ untarredFile'.open /\ untarredFile'.path = path /\ untarredFile'.pos = 0
      /\ (untarredFile'.real <=> real)
  BY <1>1
<1>7. /\ \A p \in Paths : p # path => files'[p] = files[p]
      /\ real => files'[path] = [from |-> pos + 1, len |-> 0]
  BY <1>1, <1>2, DiskIs
<1> HIDE DEF path
<1>8. Entry'.type = "file" /\ Entry'.path = path
  BY <1>1, <1>2 DEF path
<1>9. QED
  BY <1>1, <1>2, <1>4, <1>5, <1>6, <1>7, <1>8, Zenon DEF path

\* A write that was taken: one block more behind the handle, and in the file unless it is lost.
LEMMA WrittenBlock ==
  ASSUME IInv, Writing, NEW lost \in BOOLEAN, WriteBlock(lost)
  PROVE  /\ pc = "data" /\ Wanted(cur) /\ untarredFile.path = Entry.path /\ Entry.path \in Paths
         /\ pc' = pc /\ archive' = archive /\ cur' = cur /\ i' = i + 1 /\ pos' = pos + 1
         /\ i \in Nat /\ output' = output
         /\ untarredFile'.open /\ untarredFile'.path = Entry.path
         /\ (untarredFile'.real <=> untarredFile.real)
         /\ untarredFile.pos = i /\ untarredFile'.pos = i + 1
         /\ \A p \in Paths : p # Entry.path => files'[p] = files[p]
         /\ files'[Entry.path].from = files[Entry.path].from
         /\ untarredFile.real /\ ~lost => files'[Entry.path].len = files[Entry.path].len + 1
         /\ ~faulty' => ~faulty /\ ~lost
<1>1. /\ pc = "data" /\ untarredFile.open /\ pc' = pc /\ archive' = archive /\ cur' = cur
      /\ i' = i + 1 /\ pos' = pos + 1 /\ output' = output
      /\ untarredFile' = [untarredFile EXCEPT !.pos = @ + 1]
      /\ files' = IF untarredFile.real /\ ~lost
                  THEN [files EXCEPT ![untarredFile.path].len = @ + 1] ELSE files
  BY DEF WriteBlock, WriteCallBack, WriteReturnsOK, Reading
<1>2. ~faulty' => ~faulty /\ ~lost
  BY Zenon DEF WriteBlock
<1>3. /\ Wanted(cur) /\ untarredFile.path = Entry.path /\ untarredFile.pos = i
  BY <1>1 DEF Writing
<1>4. i \in Nat /\ Entry.path \in Paths
  <2>1. i \in 0..Entry.blocks /\ Entry.blocks \in Nat /\ Entry.path \in Paths
    BY <1>1, DataTypes DEF IInv
  <2>2. QED
    BY <2>1
<1>5. files \in [Paths -> [from : Int, len : Nat]] /\ untarredFile \in Handles
  BY DiskIs
<1>6. /\ untarredFile'.open = untarredFile.open /\ untarredFile'.path = untarredFile.path
      /\ untarredFile'.real = untarredFile.real /\ untarredFile'.pos = untarredFile.pos + 1
  BY <1>1, <1>5 DEF Handles
<1>7. /\ \A p \in Paths : p # Entry.path => files'[p] = files[p]
      /\ files'[Entry.path].from = files[Entry.path].from
      /\ untarredFile.real /\ ~lost => files'[Entry.path].len = files[Entry.path].len + 1
  BY <1>1, <1>3, <1>4, <1>5
<1>8. untarredFile'.open /\ (untarredFile'.real <=> untarredFile.real)
      /\ untarredFile'.path = Entry.path /\ untarredFile'.pos = i + 1
  BY <1>1, <1>3, <1>6, Zenon
<1>9. QED
  BY <1>1, <1>2, <1>3, <1>4, <1>7, <1>8, Zenon

LEMMA NextWriting == ASSUME IInv, Writing, [Next]_vars PROVE Writing'
<1>1. CASE Reboot \/ SourceMissing \/ EndOfArchive \/ NoSpace \/ CannotOpen \/ BlockMissing
           \/ WriteRefused \/ EndUnhealthy \/ CannotReopen \/ EmptyHeader \/ EndOK
           \/ \E a \in Archives : Start(a)
  <2>1. pc' # "data"
    BY <1>1 DEF Reboot, SourceMissing, EndOfArchive, NoSpace, CannotOpen, BlockMissing,
                WriteRefused, EndUnhealthy, CannotReopen, Succeed, Fail, EmptyHeader, AtHeader,
                EndOK, EndReturnsOK, Start
  <2>2. QED
    BY <2>1 DEF Writing
<1>2. CASE UNCHANGED vars
  <2>1. /\ pc' = pc /\ untarredFile' = untarredFile /\ output' = output /\ files' = files
        /\ i' = i /\ cur' = cur /\ faulty' = faulty /\ archive' = archive
    BY <1>2, Zenon DEF vars, loop, disk
  <2>2. Entry' = Entry /\ (Wanted(cur)' <=> Wanted(cur))
    BY <2>1 DEF Entry, Wanted
  <2>3. QED
    BY <2>1, <2>2, Zenon DEF Writing
<1>3. CASE SkipFile \/ IgnoreEntry
  <2>1. AtHeader /\ archive' = archive /\ cur' = pos + 1 /\ untarredFile' = untarredFile
    BY <1>3 DEF SkipFile, IgnoreEntry, HeaderCallBack, Accepted, disk
  <2>2. ~Wanted(cur)' /\ ~untarredFile'.open
    <3>1. ~untarredFile'.open
      BY <2>1, ClosedAtHeader
    <3>2. CASE SkipFile
      <4>1. Filtered(archive[pos + 1].path)
        BY <3>2, Zenon DEF SkipFile, HeaderCallBack
      <4>2. QED
        BY <2>1, <3>1, <4>1 DEF Wanted, Filtered
    <3>3. CASE IgnoreEntry
      <4>1. archive[pos + 1].type \in {"dir", "ignored"}
        BY <3>3 DEF IgnoreEntry, HeaderCallBack
      <4>2. QED
        BY <2>1, <3>1, <4>1 DEF Wanted
    <3>4. QED
      BY <1>3, <3>2, <3>3
  <2>3. QED
    BY <2>2 DEF Writing
<1>4. ASSUME NEW real \in BOOLEAN, OpenFile(real)
      PROVE  Writing'
  <2>1. /\ cur' = pos + 1 /\ i' = 0 /\ Wanted(cur)' /\ output'
        /\ untarredFile'.open /\ untarredFile'.path = Entry'.path /\ untarredFile'.pos = 0
        /\ (untarredFile'.real <=> real)
        /\ real => files'[Entry'.path] = [from |-> pos + 1, len |-> 0]
        /\ ~real => faulty'
    BY <1>4, OpenedFile, Zenon
  <2>2. real => files'[Entry'.path].from = cur' /\ files'[Entry'.path].len = 0
    BY <2>1
  <2>3. QED
    BY <2>1, <2>2, Zenon DEF Writing
<1>5. CASE SkipBlock
  <2>1. /\ pc = "data" /\ (tarSkipThisEntry \/ ~output) /\ archive' = archive /\ cur' = cur
        /\ untarredFile' = untarredFile
    BY <1>5 DEF SkipBlock, WriteCallBack, WriteReturnsOK, Reading
  <2>2. ~Wanted(cur)
    BY <2>1, WantedIsWritten DEF Writing
  <2>3. ~Wanted(cur)' /\ ~untarredFile'.open
    BY <2>1, <2>2 DEF Writing, Wanted
  <2>4. QED
    BY <2>3 DEF Writing
<1>6. ASSUME NEW lost \in BOOLEAN, WriteBlock(lost)
      PROVE  Writing'
  <2>1. /\ pc = "data" /\ Wanted(cur) /\ archive' = archive /\ cur' = cur /\ i' = i + 1
        /\ output' = output /\ untarredFile'.open /\ untarredFile'.path = Entry.path
        /\ (untarredFile'.real <=> untarredFile.real) /\ untarredFile'.pos = i + 1
        /\ files'[Entry.path].from = files[Entry.path].from
        /\ untarredFile.real /\ ~lost => files'[Entry.path].len = files[Entry.path].len + 1
        /\ ~faulty' => ~faulty /\ ~lost
    BY <1>6, WrittenBlock, Zenon
  <2>2. /\ output /\ (untarredFile.real => files[Entry.path].from = cur)
        /\ ~faulty => untarredFile.real /\ files[Entry.path].len = i
    BY <2>1 DEF Writing
  <2>3. Entry' = Entry /\ Wanted(cur)'
    BY <2>1 DEF Entry, Wanted
  <2>4. QED
    BY <2>1, <2>2, <2>3, Zenon DEF Writing
<1>7. QED
  BY <1>1, <1>2, <1>3, <1>4, <1>5, <1>6, Zenon DEF Next, Step

-----------------------------------------------------------------------------
(***************************************************************************)
(* An archive with all its data fails on a faulty filesystem only.         *)
(***************************************************************************)
\* The archive has the data of its entries, and only files have any.
WholeFiles ==
  \A h \in Headers[archive] : /\ archive[h].type = "file" \/ archive[h].blocks = 0
                              /\ h + archive[h].blocks <= Len(archive)

\* While a session runs nothing was returned.
LEMMA NothingReturned == ASSUME Tally, pc # "idle" PROVE returned = "no"
BY DEF Tally

LEMMA NextHealthy ==
  ASSUME IInv, Tally, Writing, HealthyFilesSucceed, [Next]_vars
  PROVE  HealthyFilesSucceed'
<1>1. CASE Reboot \/ EndOfArchive \/ \E a \in Archives : Start(a)
  BY <1>1 DEF Reboot, EndOfArchive, Start, Succeed, HealthyFilesSucceed
<1>2. CASE EmptyHeader \/ SkipFile \/ IgnoreEntry \/ SkipBlock \/ EndOK
           \/ (\E real \in BOOLEAN : OpenFile(real)) \/ \E lost \in BOOLEAN : WriteBlock(lost)
  <2>1. pc # "idle" /\ returned' = returned
    BY <1>2 DEF EmptyHeader, SkipFile, IgnoreEntry, SkipBlock, EndOK, OpenFile, WriteBlock,
                HeaderCallBack, Accepted, AtHeader, WriteCallBack, WriteReturnsOK, Reading,
                EndCallBack, EndReturnsOK
  <2>2. QED
    BY <2>1, NothingReturned DEF HealthyFilesSucceed
<1>3. CASE SourceMissing \/ NoSpace \/ CannotOpen \/ CannotReopen
  <2>1. _error' = ESP32_TARGZ_FS_ERROR \/ faulty'
    BY <1>3, Zenon DEF SourceMissing, NoSpace, CannotOpen, CannotReopen
  <2>2. QED
    BY <2>1, Zenon DEF HealthyFilesSucceed
<1>4. CASE UNCHANGED vars
  <2>1. archive' = archive /\ returned' = returned /\ _error' = _error /\ faulty' = faulty
    BY <1>4, Zenon DEF vars, loop
  <2>2. QED
    BY <2>1, Zenon DEF HealthyFilesSucceed
<1>5. CASE BlockMissing
  <2>1. pc = "data" /\ i < Entry.blocks /\ pos = Len(archive) /\ archive' = archive
    BY <1>5 DEF BlockMissing, Reading, DataLeft
  <2>2. /\ pos = cur + i /\ cur \in Nat /\ pos \in Nat /\ i \in Nat /\ Entry.blocks \in Nat
        /\ cur \in Headers[archive]
    BY <2>1, OpenEntry
  <2>3. ~WholeFiles
    BY <2>1, <2>2 DEF WholeFiles, Entry
  <2>4. QED
    BY <2>1, <2>3, Zenon DEF HealthyFilesSucceed, WholeFiles
<1>6. CASE WriteRefused
  <2>1. /\ pc = "data" /\ i < Entry.blocks /\ archive' = archive
        /\ (faulty' <=> (faulty \/ untarredFile.open))
    <3>1. pc = "data" /\ i < Entry.blocks /\ archive' = archive
      BY <1>6 DEF WriteRefused, WriteCallBack, Reading, DataLeft
    <3>2. faulty' <=> (faulty \/ untarredFile.open)
      BY <1>6, Zenon DEF WriteRefused
    <3>3. QED
      BY <3>1, <3>2
  <2>2. ~tarSkipThisEntry
    BY <1>6, Zenon DEF WriteRefused
  <2>3. i \in Nat /\ Entry.blocks \in Nat /\ cur \in Headers[archive]
    BY <2>1, OpenEntry
  <2>4. ASSUME ~untarredFile.open
        PROVE  ~WholeFiles
    <3>1. ~Wanted(cur)
      BY <2>1, <2>4 DEF Writing
    <3>2. Entry.type # "file"
      <4>1. SUFFICES ASSUME Entry.type = "file" PROVE FALSE
        OBVIOUS
      <4>2. ~Filtered(Entry.path)
        BY <2>1, <2>2, <4>1, Zenon DEF IInv, Handle
      <4>3. QED
        BY <3>1, <4>1, <4>2 DEF Wanted, Filtered, Entry
    <3>3. Entry.blocks # 0
      BY <2>1, <2>3
    <3>4. QED
      BY <2>3, <3>2, <3>3 DEF WholeFiles, Entry
  <2>5. QED
    BY <2>1, <2>4, Zenon DEF HealthyFilesSucceed, WholeFiles
<1>7. CASE EndUnhealthy
  <2>1. pc = "data" /\ ~(i < Entry.blocks) /\ untarredFile.open /\ ~Healthy
    BY <1>7 DEF EndUnhealthy, EndCallBack, DataLeft
  <2>2. faulty' = faulty
    BY <1>7, Zenon DEF EndUnhealthy
  <2>3. i = Entry.blocks
    BY <2>1, OpenEntry
  <2>4. faulty
    BY <2>1, <2>3 DEF Writing, Healthy
  <2>5. QED
    BY <2>2, <2>4, Zenon DEF HealthyFilesSucceed
<1>8. QED
  BY <1>1, <1>2, <1>3, <1>4, <1>5, <1>6, <1>7, Zenon DEF Next, Step

\* The invariants that hold whatever the health checks are.
Inside == IInv /\ Tally /\ Writing /\ HealthyFilesSucceed

LEMMA InitInside == ASSUME Init PROVE Inside
<1>1. pc = "idle" /\ returned = "no"
  BY DEF Init
<1>2. Handle
  BY DEF Init, Handle, Closed
<1>3. QED
  BY <1>1, <1>2, InitDriven DEF Inside, IInv, Tally, Writing, HealthyFilesSucceed

LEMMA NextInside == ASSUME FreshStart, Inside, [Next]_vars PROVE Inside'
<1>1. IInv'
  BY NextDriven, NextHandle DEF Inside, IInv
<1>2. QED
  BY <1>1, NextTally, NextWriting, NextHealthy, Zenon DEF Inside

\* An archive that has the data of its entries, which are files where they have any, fails
\* only when the filesystem does not do what it is asked, or the source is not there: for
\* every archive, when the device is rebooted after a session that has left a file open.
THEOREM HealthySucceeds == ASSUME FreshStart PROVE Spec => []HealthyFilesSucceed
<1>1. Init => Inside
  BY InitInside
<1>2. Inside /\ [Next]_vars => Inside'
  BY NextInside
<1>3. Inside => HealthyFilesSucceed
  BY Zenon DEF Inside
<1>4. QED
  BY <1>1, <1>2, <1>3, PTL DEF Spec

-----------------------------------------------------------------------------
(***************************************************************************)
(* What the filesystem holds.                                              *)
(***************************************************************************)
\* An entry that is not to be written under a path is none of its owners.
LEMMA SameOwners ==
  ASSUME NEW a, NEW S, NEW c, NEW p,
         ~(a[c].type = "file" /\ a[c].path = p /\ p \notin SkippedPaths)
  PROVE  OwnersIn(a, S \cup {c}, p) = OwnersIn(a, S, p)
BY DEF OwnersIn

\* One that is comes after the others, and is the last.
LEMMA LastOwner ==
  ASSUME NEW a, NEW S \in SUBSET Nat, NEW c \in Nat, \A h \in S : h < c, NEW p, NEW f,
         a[c].type = "file", a[c].path = p, p \notin SkippedPaths,
         f[p] = [from |-> c, len |-> a[c].blocks]
  PROVE  Held(a, f, S \cup {c}, p)
<1> DEFINE O == OwnersIn(a, S \cup {c}, p)
<1>1. c \in O /\ \A h \in O : h \in Nat /\ c >= h
  BY DEF OwnersIn
<1> HIDE DEF O
<1>2. Max(O) = c
  <2>1. \E m \in O : \A h \in O : m >= h
    BY <1>1
  <2>2. Max(O) \in O /\ \A h \in O : Max(O) >= h
    BY <2>1 DEF Max
  <2>3. Max(O) \in Nat /\ c >= Max(O) /\ Max(O) >= c
    BY <1>1, <2>2, Zenon
  <2>4. QED
    BY <2>3
<1>3. O # {}
  BY <1>1
<1>4. QED
  BY <1>2, <1>3, Zenon DEF Held, O

\* What a path has is kept when neither its file nor its owners change.
LEMMA StillHeld ==
  ASSUME NEW a, NEW f, NEW S, NEW p, Held(a, f, S, p), NEW g, NEW T,
         g[p] = f[p], OwnersIn(a, T, p) = OwnersIn(a, S, p)
  PROVE  Held(a, g, T, p)
BY Zenon DEF Held

\* At the end of a file that is healthy, its path has it.
LEMMA FileEnds ==
  ASSUME IInv, Tally, Writing, HealthChecks, EndOK, Wanted(cur)
  PROVE  Held(archive, files, Had(archive, cur) \cup {cur}, Entry.path)
<1>1. pc = "data" /\ EndCallBack
  BY DEF EndOK, EndCallBack
<1>2. /\ untarredFile.open /\ untarredFile.path = Entry.path
      /\ untarredFile.real => files[Entry.path].from = cur
  BY <1>1 DEF Writing
<1>3. Healthy
  BY <1>2 DEF EndOK
<1>4. files[Entry.path].from = cur /\ files[Entry.path].len = Entry.blocks
  BY <1>2, <1>3 DEF Healthy
<1>5. cur \in Nat /\ Entry.path \in Paths
  <2>1. cur \in 1..Len(archive) /\ Entry.path \in Paths /\ Len(archive) \in Nat
    BY <1>1, DataTypes DEF IInv
  <2>2. QED
    BY <2>1
<1>6. files[Entry.path] = [from |-> cur, len |-> Entry.blocks]
  <2>1. files[Entry.path] \in [from : Int, len : Nat]
    BY <1>5, DiskIs
  <2>2. QED
    BY <1>4, <2>1
<1>7. Had(archive, cur) \in SUBSET Nat /\ \A h \in Had(archive, cur) : h < cur
  BY DEF Had, Behind, Chain
<1>8. Entry.type = "file" /\ Entry.path \notin SkippedPaths
  BY DEF Wanted, Entry
<1>9. QED
  BY <1>5, <1>6, <1>7, <1>8, LastOwner, Zenon DEF Entry

LEMMA NextOnDisk ==
  ASSUME IInv, Tally, Writing, HealthChecks, OnDisk, [Next]_vars
  PROVE  OnDisk'
<1>1. CASE Reboot \/ SourceMissing \/ EndOfArchive \/ NoSpace \/ CannotOpen \/ BlockMissing
           \/ WriteRefused \/ EndUnhealthy \/ CannotReopen
  <2>1. pc' = "idle"
    BY <1>1 DEF Reboot, SourceMissing, EndOfArchive, NoSpace, CannotOpen, BlockMissing,
                WriteRefused, EndUnhealthy, CannotReopen, Succeed, Fail
  <2>2. QED
    BY <2>1 DEF OnDisk
<1>2. CASE UNCHANGED vars \/ SkipBlock
  <2>1. pc' = pc /\ files' = files /\ cur' = cur /\ archive' = archive
        /\ (pos' = pos \/ pc = "data")
    BY <1>2, Zenon DEF vars, loop, disk, SkipBlock, WriteCallBack, WriteReturnsOK, Reading
  <2>2. Entry' = Entry /\ Spot' = Spot /\ (Wanted(cur)' <=> Wanted(cur))
    BY <2>1 DEF Entry, Spot, Wanted
  <2>3. QED
    BY <2>1, <2>2, Zenon DEF OnDisk, InWork
<1>3. ASSUME NEW a \in Archives, Start(a)
      PROVE  OnDisk'
  <2>1. pc' = "header" /\ archive' = a /\ pos' = 0 /\ files' = Aged
    BY <1>3 DEF Start
  <2>2. Spot' = 1 /\ Had(a, 1) = {}
    BY <2>1, AtTheStart DEF Spot
  <2>3. ASSUME NEW p \in Paths
        PROVE  Held(a, Aged, {}, p)
    <3>1. files[p] \in [from : Int, len : Nat]
      BY DiskIs
    <3>2. Aged[p].from <= 0
      BY <3>1 DEF Aged, Absent
    <3>3. OwnersIn(a, {}, p) = {}
      BY DEF OwnersIn
    <3>4. QED
      BY <3>2, <3>3 DEF Held
  <2>4. QED
    BY <2>1, <2>2, <2>3, Zenon DEF OnDisk
<1>4. CASE EmptyHeader
  <2>1. /\ AtHeader /\ ~archive[pos + 1].named /\ archive' = archive /\ pos' = pos + 1
        /\ files' = files /\ pc = "header" /\ pc' = "header"
    BY <1>4 DEF EmptyHeader, AtHeader, disk
  <2>2. /\ archive \in Archives /\ pos + 1 \in Chain(archive) /\ Passed(archive, pos + 1)
        /\ Spot = pos + 1
    BY <2>1, NextHeader
  <2>3. Had(archive, pos + 1 + 1) = Had(archive, pos + 1)
    BY <2>1, <2>2, OverEmpty
  <2>4. Spot' = pos + 1 + 1
    BY <2>1 DEF Spot
  <2>5. \A p \in Paths : Held(archive, files, Had(archive, pos + 1), p)
    BY <2>1, <2>2 DEF OnDisk, InWork
  <2>6. QED
    BY <2>1, <2>3, <2>4, <2>5, Zenon DEF OnDisk
<1>5. ASSUME AtHeader
      PROVE  /\ pc = "header"
             /\ \A p \in Paths : Held(archive, files, Had(archive, pos + 1), p)
  <2>1. pc = "header" /\ Spot = pos + 1
    BY <1>5, NextHeader DEF AtHeader
  <2>2. QED
    BY <2>1 DEF OnDisk, InWork
<1>6. CASE SkipFile \/ IgnoreEntry
  <2>1. AtHeader /\ archive' = archive /\ cur' = pos + 1 /\ pc' = "data" /\ files' = files
    BY <1>6 DEF SkipFile, IgnoreEntry, HeaderCallBack, Accepted, disk
  <2>2. Spot' = pos + 1
    BY <2>1 DEF Spot
  <2>3. QED
    BY <1>5, <2>1, <2>2, Zenon DEF OnDisk
<1>7. ASSUME NEW real \in BOOLEAN, OpenFile(real)
      PROVE  OnDisk'
  <2>1. /\ AtHeader /\ archive' = archive /\ cur' = pos + 1 /\ pc' = "data" /\ Wanted(cur)'
        /\ \A p \in Paths : p # Entry'.path => files'[p] = files[p]
    BY <1>7, OpenedFile, Zenon
  <2>2. Spot' = pos + 1
    BY <2>1 DEF Spot
  <2>3. ASSUME NEW p \in Paths
        PROVE  InWork(p)' \/ Held(archive, files', Had(archive, pos + 1), p)
    <3>1. CASE p = Entry'.path
      BY <2>1, <3>1, Zenon DEF InWork
    <3>2. CASE p # Entry'.path
      <4>1. files'[p] = files[p] /\ Held(archive, files, Had(archive, pos + 1), p)
        BY <1>5, <2>1, <3>2, Zenon
      <4>2. QED
        BY <4>1, StillHeld, Zenon
    <3>3. QED
      BY <3>1, <3>2, Zenon
  <2>4. QED
    BY <2>1, <2>2, <2>3, Zenon DEF OnDisk
<1>8. ASSUME NEW lost \in BOOLEAN, WriteBlock(lost)
      PROVE  OnDisk'
  <2>1. /\ pc = "data" /\ Wanted(cur) /\ pc' = pc /\ archive' = archive /\ cur' = cur
        /\ \A p \in Paths : p # Entry.path => files'[p] = files[p]
    BY <1>8, WrittenBlock, Zenon
  <2>2. Entry' = Entry /\ Spot' = Spot /\ Wanted(cur)'
    BY <2>1 DEF Entry, Spot, Wanted
  <2>3. ASSUME NEW p \in Paths
        PROVE  InWork(p)' \/ Held(archive, files', Had(archive, Spot), p)
    <3>1. CASE p = Entry.path
      BY <2>1, <2>2, <3>1, Zenon DEF InWork
    <3>2. CASE p # Entry.path
      <4>1. files'[p] = files[p] /\ Held(archive, files, Had(archive, Spot), p)
        BY <2>1, <3>2, Zenon DEF OnDisk, InWork
      <4>2. QED
        BY <4>1, StillHeld, Zenon
    <3>3. QED
      BY <3>1, <3>2, Zenon
  <2>4. QED
    BY <2>1, <2>2, <2>3, Zenon DEF OnDisk
<1>9. CASE EndOK
  <2>1. /\ EndCallBack /\ pc = "data" /\ pc' = "header" /\ archive' = archive /\ pos' = pos
        /\ files' = files
    BY <1>9 DEF EndOK, EndCallBack, EndReturnsOK
  <2>2. Spot' = pos + 1 /\ Spot = cur
    BY <2>1 DEF Spot
  <2>3. Had(archive, pos + 1) = Had(archive, cur) \cup {cur}
    BY <2>1, EntryLeft
  <2>4. ASSUME NEW p \in Paths
        PROVE  Held(archive, files, Had(archive, cur) \cup {cur}, p)
    <3>1. CASE Wanted(cur) /\ p = Entry.path
      BY <1>9, <3>1, FileEnds, Zenon
    <3>2. CASE ~(Wanted(cur) /\ p = Entry.path)
      <4>1. Held(archive, files, Had(archive, cur), p)
        BY <2>1, <2>2, <3>2, Zenon DEF OnDisk, InWork
      <4>2. OwnersIn(archive, Had(archive, cur) \cup {cur}, p) = OwnersIn(archive, Had(archive, cur), p)
        <5>1. ~(archive[cur].type = "file" /\ archive[cur].path = p /\ p \notin SkippedPaths)
          BY <3>2 DEF Wanted, Entry
        <5>2. QED
          BY <5>1, SameOwners, Zenon
      <4>3. QED
        BY <4>1, <4>2, StillHeld, Zenon
    <3>3. QED
      BY <3>1, <3>2, Zenon
  <2>5. QED
    BY <2>1, <2>2, <2>3, <2>4, Zenon DEF OnDisk
<1>10. QED
  BY <1>1, <1>2, <1>3, <1>4, <1>6, <1>7, <1>8, <1>9, Zenon DEF Next, Step

\* At the end of the archive the headers before the next are all it has.
LEMMA EndHolds ==
  ASSUME IInv, Tally, OnDisk, EndOfArchive
  PROVE  SuccessMeansOnDisk'
<1>1. /\ pc = "header" /\ (~(empty_count < 2) \/ pos = Len(archive)) /\ archive' = archive
      /\ files' = files /\ untarredFile' = untarredFile /\ totalFiles' = totalFiles
      /\ totalFolders' = totalFolders
  BY DEF EndOfArchive, HeadersLeft, loop, disk, counts
<1>2. pos \in Nat /\ empty_count \in 0..2 /\ Len(archive) \in Nat /\ totalFolders \in Nat
  <2>1. /\ archive \in Seq(Block) /\ pos \in 0..Len(archive) /\ empty_count \in 0..2
        /\ totalFolders \in Nat
    BY DEF IInv, Driven, FlTypes, LoopTypes, CountTypes
  <2>2. QED
    BY <2>1
<1>3. Spot = pos + 1 /\ InFolder = 0
  BY <1>1 DEF Spot, InFolder
<1>4. /\ archive \in Archives /\ Had(archive, pos + 1) \subseteq Headers[archive]
      /\ Cardinality(Empties(archive, pos + 1)) = empty_count
      /\ totalFiles = Cardinality(Had(archive, pos + 1))
      /\ totalFolders = Cardinality(Dirs(archive, Had(archive, pos + 1))) + 0
  BY <1>1, <1>3 DEF Tally, Counted
<1>5. Headers[archive] = Had(archive, pos + 1)
  <2>1. pos + 1 > Len(archive) \/ empty_count = 2
    BY <1>1, <1>2
  <2>2. pos + 1 \in Nat
    BY <1>2
  <2>3. QED
    BY <1>4, <2>1, <2>2, AtTheEnd
<1>6. ~untarredFile'.open
  BY <1>1, Zenon DEF IInv, Handle
<1>7. CountsEntries'
  <2>1. Cardinality(Dirs(archive, Had(archive, pos + 1))) \in Nat
    <3>1. Dirs(archive, Had(archive, pos + 1)) \in SUBSET (1..Len(archive))
      BY DEF Dirs, Had, Behind, Chain
    <3>2. QED
      BY <1>4, <3>1, ArchivesAssumption, FinitePlaces
  <2>2. totalFolders = Cardinality({h \in Headers[archive] : archive[h].type = "dir"})
    BY <1>4, <1>5, <2>1 DEF Dirs
  <2>3. QED
    BY <1>1, <1>4, <1>5, <2>2, Zenon DEF CountsEntries
<1>8. ASSUME NEW p \in Paths
      PROVE  IF Owners(p)' = {} THEN files'[p].from <= 0
             ELSE files'[p] = [from |-> Max(Owners(p)'), len |-> archive'[Max(Owners(p)')].blocks]
  <2>1. Owners(p)' = OwnersIn(archive, Had(archive, pos + 1), p)
    BY <1>1, <1>5 DEF Owners, OwnersIn
  <2>2. Held(archive, files, Had(archive, pos + 1), p)
    BY <1>1, <1>3 DEF OnDisk, InWork
  <2>3. QED
    BY <1>1, <2>1, <2>2, Zenon DEF Held
<1>9. QED
  BY <1>6, <1>7, <1>8, Zenon DEF SuccessMeansOnDisk

LEMMA NextSuccess ==
  ASSUME IInv, Tally, OnDisk, SuccessMeansOnDisk, [Next]_vars
  PROVE  SuccessMeansOnDisk'
<1>1. CASE EndOfArchive
  BY <1>1, EndHolds
<1>2. CASE Reboot \/ SourceMissing \/ NoSpace \/ CannotOpen \/ BlockMissing \/ WriteRefused
           \/ EndUnhealthy \/ CannotReopen \/ \E a \in Archives : Start(a)
  BY <1>2 DEF Reboot, SourceMissing, NoSpace, CannotOpen, BlockMissing, WriteRefused,
              EndUnhealthy, CannotReopen, Start, Fail, SuccessMeansOnDisk
<1>3. CASE EmptyHeader \/ SkipFile \/ IgnoreEntry \/ SkipBlock \/ EndOK
           \/ (\E real \in BOOLEAN : OpenFile(real)) \/ \E lost \in BOOLEAN : WriteBlock(lost)
  <2>1. pc # "idle" /\ returned' = returned
    BY <1>3 DEF EmptyHeader, SkipFile, IgnoreEntry, SkipBlock, EndOK, OpenFile, WriteBlock,
                HeaderCallBack, Accepted, AtHeader, WriteCallBack, WriteReturnsOK, Reading,
                EndCallBack, EndReturnsOK
  <2>2. QED
    BY <2>1, NothingReturned DEF SuccessMeansOnDisk
<1>4. CASE UNCHANGED vars
  <2>1. /\ archive' = archive /\ returned' = returned /\ files' = files
        /\ untarredFile' = untarredFile /\ totalFiles' = totalFiles
        /\ totalFolders' = totalFolders
    BY <1>4, Zenon DEF vars, loop, disk, counts
  <2>2. (CountsEntries' <=> CountsEntries) /\ \A p : Owners(p)' = Owners(p)
    BY <2>1 DEF CountsEntries, Owners
  <2>3. QED
    BY <2>1, <2>2, Zenon DEF SuccessMeansOnDisk
<1>5. QED
  BY <1>1, <1>2, <1>3, <1>4, Zenon DEF Next, Step

\* A session that is reported as a success has left, under each path, the last of the
\* archive's files that go there, whole, and nothing under the others; it has closed its handle
\* and counted its entries right: for every archive and whatever the filesystem does, with
\* the health checks on and no handle left open by a session before.
THEOREM EverythingOnDisk ==
  ASSUME FreshStart, HealthChecks PROVE Spec => []SuccessMeansOnDisk
<1>1. Init => Inside /\ OnDisk /\ SuccessMeansOnDisk
  BY InitInside DEF Init, OnDisk, SuccessMeansOnDisk
<1>2. Inside /\ OnDisk /\ SuccessMeansOnDisk /\ [Next]_vars
      => (Inside /\ OnDisk /\ SuccessMeansOnDisk)'
  <2> SUFFICES ASSUME Inside, OnDisk, SuccessMeansOnDisk, [Next]_vars
               PROVE  Inside' /\ OnDisk' /\ SuccessMeansOnDisk'
    OBVIOUS
  <2>1. Inside'
    BY NextInside
  <2>2. IInv /\ Tally /\ Writing
    BY Zenon DEF Inside
  <2>3. OnDisk' /\ SuccessMeansOnDisk'
    BY <2>2, NextOnDisk, NextSuccess
  <2>4. QED
    BY <2>1, <2>3
<1>3. QED
  BY <1>1, <1>2, PTL DEF Spec
=============================================================================
