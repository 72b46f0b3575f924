------------------------------ MODULE Updater ------------------------------
(***************************************************************************)
(* Updates of an ESP32 over the air: a .gz image with gzUpdater or         *)
(* gzStreamUpdater, or the images of a .tar.gz with tarGzStreamUpdater     *)
(* (src/src/libunpacker/LibUnpacker.cpp). All of them write to the object  *)
(* Update of the platform, which is modelled from how they use it: begin   *)
(* opens a partition, write may be refused and then end fails, end(true)   *)
(* makes what was written the partition's content.                         *)
(*                                                                         *)
(* A unit of data is the entry it belongs to and its place in the entry;   *)
(* zeros, and what is raw tar, are of no entry. The callbacks of an        *)
(* archive come in the order that TarReader promises. An archive has its   *)
(* end marker.                                                             *)
(***************************************************************************)
EXTENDS Integers, Sequences

CONSTANTS
  SPI_FLASH_SEC_SIZE,   \* units of a sector, and of output_buffer
  MaxSize,              \* units of an entry (bound)
  MaxEntries,           \* of an archive (bound)
  Faults                \* what may go wrong: "source", "memory", "begin", "write", "end"

ASSUME UpdaterAssumption ==
  /\ SPI_FLASH_SEC_SIZE \in Nat \ {0} /\ MaxSize \in Nat /\ MaxEntries \in Nat \ {0}
  /\ Faults \subseteq {"source", "memory", "begin", "write", "end"}

UPDATE_SIZE_UNKNOWN == 0
Unlimited == 2 * (MaxSize + SPI_FLASH_SEC_SIZE)     \* more than any image
\* What the name of an entry says: an app, a filesystem, or neither; and what it is for.
Kinds == {"ino.bin", "littlefs.bin", "other"}
\* (A bug: a filesystem is not looked for.)
PartitionOfApp(kind) == IF kind = "ino.bin" THEN "U_FLASH" ELSE "none"
PartitionOf(kind) ==
  IF kind = "ino.bin" THEN "U_FLASH" ELSE IF kind = "littlefs.bin" THEN "U_PART" ELSE "none"
Entries == [kind : Kinds, size : 0..MaxSize]

VARIABLES
  partition, room, flashed,     \* Update: what it has begun, or "none"; room left; content
  updateError,                  \* Update.hasError(), since the last begin
  committed,                    \* by end, during this call: what, and to where
  callbacks,                    \* tarProgressCallback and tarMessageCallback are set
  tarBlockIsUpdateData,
  _error,
  gzWriteCallback,              \* "none", or what the first or the last call has installed
  firstblock,                   \* the call has not set up tar
  atRest,                       \* block_read and readstep of tar are 0
  mode,                         \* "image" or "archive"
  entries,                      \* of the archive; the image
  entry, block,                 \* the one the call is at, and its units that are done
  outlen,
  pc, returned,
  fresh,       \* when the call began no update was left unfinished, nor a step of tar
  sound,       \* nothing has failed in this call
  damaged,     \* the stream ended early, without an error of the source
  stale,       \* _error held an error when the call began
  fits         \* there is room for what the caller said the size would be

update == <<partition, room, flashed, updateError>>
position == <<entry, block, outlen>>
installed == <<callbacks, gzWriteCallback>>
call == <<mode, entries, fresh, stale, fits>>
vars == <<update, committed, installed, firstblock, atRest, tarBlockIsUpdateData, _error,
          position, call, pc, returned, sound, damaged>>

ESP32_TARGZ_OK == 0
AnError == -1                                      \* any of the other codes
May(fault) == fault \in Faults
Size == entries[entry].size
InRest == block + SPI_FLASH_SEC_SIZE > Size        \* less than a buffer is left

Init ==
  /\ partition = "none" /\ room = 0 /\ flashed = <<>> /\ updateError = FALSE
  /\ committed = <<>> /\ callbacks = FALSE /\ tarBlockIsUpdateData = FALSE
  /\ _error = ESP32_TARGZ_OK /\ mode = "image" /\ entries = <<>> /\ entry = 1 /\ block = 0
  /\ outlen = 0 /\ pc = "idle" /\ returned = "none" /\ fresh = TRUE /\ sound = TRUE
  /\ damaged = FALSE /\ stale = FALSE /\ fits = TRUE
  /\ gzWriteCallback = "none" /\ firstblock = TRUE /\ atRest = TRUE

-----------------------------------------------------------------------------
(***************************************************************************)
(* Update.                                                                 *)
(***************************************************************************)
Begin(p, size) ==
  /\ partition = "none" /\ partition' = p /\ room' = size /\ flashed' = <<>>
  /\ updateError' = FALSE
\* It refuses when another one is not ended, too.
Faulty(fault) == May(fault) /\ sound' = FALSE
BeginFails ==
  /\ (partition # "none" /\ UNCHANGED sound) \/ Faulty("begin")
  /\ UNCHANGED update

\* Units that are written: nothing, when there is no update, or no room.
Accepts(units) == partition # "none" /\ ~updateError /\ Len(units) <= room
Flash(units) ==
  /\ Accepts(units) /\ flashed' = flashed \o units /\ room' = room - Len(units)
  /\ UNCHANGED <<partition, updateError>>
Refuses(units) ==
  /\ (~Accepts(units) /\ UNCHANGED sound) \/ Faulty("write")
  /\ \/ /\ partition # "none" /\ updateError' = TRUE /\ partition' \in {partition, "none"}
        /\ UNCHANGED <<room, flashed>>
     \/ partition = "none" /\ UNCHANGED update

\* end(true): what was written is all, however much was announced.
End ==
  /\ partition # "none" /\ ~updateError /\ partition' = "none" /\ room' = 0 /\ flashed' = <<>>
  /\ committed' = Append(committed, [to |-> partition, content |-> flashed])
  /\ UNCHANGED updateError
\* Without a begin: its callers ask it all the same, and do not know if it fails.
EndOfNothing == partition = "none" /\ ~updateError /\ UNCHANGED <<update, committed>>
EndFails ==
  /\ ((partition = "none" \/ updateError) /\ UNCHANGED sound) \/ Faulty("end")
  /\ partition' \in {partition, "none"} /\ UNCHANGED <<room, flashed, updateError, committed>>
\* It is ended, and not finished.
EndIncomplete == End /\ Faulty("end")

\* Units from one to another of the entry.
Units(from, to) == [i \in 1..(to - from) |-> <<entry, from + i>>]
Zeros(n) == [i \in 1..n |-> <<0, 0>>]

-----------------------------------------------------------------------------
(***************************************************************************)
(* Between calls.                                                          *)
(***************************************************************************)
Idle == returned = "none"
KeepCall ==
  UNCHANGED <<committed, position, call, pc, returned, sound, damaged, gzWriteCallback,
              firstblock, atRest>>
\* The caller has seen what was returned. (Of an update that is left unfinished, no property
\* asks what it holds.)
Forgets ==
  /\ pc = "idle" /\ returned' = "none" /\ committed' = <<>>
  /\ mode' = "image" /\ entries' = <<>> /\ entry' = 1 /\ block' = 0 /\ outlen' = 0
  /\ fresh' = TRUE /\ stale' = FALSE /\ fits' = TRUE /\ sound' = TRUE /\ damaged' = FALSE
  /\ firstblock' = TRUE /\ UNCHANGED pc
Forget ==
  /\ returned \in {"true", "false"} /\ Forgets
  /\ flashed' = <<>>
  /\ UNCHANGED <<partition, room, updateError, installed, atRest, tarBlockIsUpdateData, _error>>
Reboot ==
  /\ returned \in {"none", "crash"} /\ Forgets
  /\ partition' = "none" /\ room' = 0 /\ flashed' = <<>> /\ updateError' = FALSE
  /\ callbacks' = FALSE /\ tarBlockIsUpdateData' = FALSE /\ _error' = ESP32_TARGZ_OK
  /\ gzWriteCallback' = "none" /\ atRest' = TRUE
Abort ==           \* Update.abort, by the caller
  /\ Idle /\ partition' = "none" /\ room' = 0 /\ flashed' = <<>> /\ updateError' = FALSE
  /\ UNCHANGED <<callbacks, tarBlockIsUpdateData, _error>> /\ KeepCall
SetCallbacks ==
  /\ Idle /\ callbacks' = TRUE /\ UNCHANGED <<update, tarBlockIsUpdateData, _error>> /\ KeepCall
\* A call, with what it found: an update that was neither ended nor aborted, a tar machine
\* that stopped between two of its steps, an old error.
Fresh(m) == partition = "none" /\ ~tarBlockIsUpdateData /\ (m = "archive" => atRest)
Called(m, es, error) ==
  /\ Idle /\ mode' = m /\ entries' = es /\ entry' = 1 /\ block' = 0 /\ outlen' = 0
  /\ committed' = <<>> /\ sound' = TRUE /\ damaged' = FALSE
  /\ fresh' = Fresh(m) /\ stale' = (error # ESP32_TARGZ_OK)
  /\ firstblock' = TRUE /\ UNCHANGED <<callbacks, atRest, tarBlockIsUpdateData>>

Returns(result, code) == returned' = result /\ _error' = code /\ pc' = "idle"
Working == pc \notin {"idle", "ending"}
KeepTar == UNCHANGED <<installed, firstblock, atRest>>
KeepFlags == UNCHANGED <<committed, tarBlockIsUpdateData, call, damaged, installed, firstblock>>
KeepRest == KeepFlags /\ UNCHANGED atRest
KeepOutcome == UNCHANGED <<_error, returned, sound>>
\* Where the tar machine is at work, and may be stopped between two of its steps.
InTar == pc \in {"header", "data", "end"}
Stops == IF InTar THEN atRest' \in BOOLEAN ELSE UNCHANGED atRest
\* The source has no more bytes: the update that was begun stays so.
Dry ==
  /\ Working /\ May("source") /\ Returns("false", AnError) /\ sound' = FALSE
  /\ Stops /\ UNCHANGED <<update, position>> /\ KeepFlags
\* No dictionary, or no output buffer.
NoMemory ==
  /\ pc \in {"inflating", "setup", "raw"} /\ outlen = 0 /\ ~damaged /\ Faulty("memory")
  /\ Returns("false", AnError) /\ UNCHANGED <<update, position>> /\ KeepRest

-----------------------------------------------------------------------------
(***************************************************************************)
(* One image: gzUpdater and gzStreamUpdater.                               *)
(***************************************************************************)
\* (A bug: Update is told the size of the image.)
JustTheSize(size) == IF size = UPDATE_SIZE_UNKNOWN THEN Unlimited ELSE size
WholeSectors(size) ==
  ((size + SPI_FLASH_SEC_SIZE - 1) \div SPI_FLASH_SEC_SIZE) * SPI_FLASH_SEC_SIZE
RoomFor(size) == IF size = UPDATE_SIZE_UNKNOWN THEN Unlimited ELSE WholeSectors(size)

\* gzUpdater starts from a clear error, gzStreamUpdater does not. The write callback is
\* installed before the update is begun, and stays so.
UpdateImage(image, update_size, error) ==
  /\ image.kind # "other" /\ error \in {ESP32_TARGZ_OK, _error}
  /\ Called("image", <<image>>, error)
  /\ fits' = (update_size = UPDATE_SIZE_UNKNOWN \/ image.size <= update_size)
  /\ Begin(PartitionOf(image.kind), RoomFor(update_size))
  /\ gzWriteCallback' = "gzUpdateWriteCallback"
  /\ pc' = "inflating" /\ returned' = "no" /\ _error' = error
\* A source that gives nothing, or too little memory for an image, is found before that.
NotStarted(m) ==
  /\ Faulty("source") \/ (m = "image" /\ Faulty("memory"))
  /\ UNCHANGED <<update, gzWriteCallback>>
UpdateRefused(m) ==
  /\ Idle /\ mode' = m /\ entries' = <<>> /\ entry' = 1 /\ block' = 0 /\ outlen' = 0
  /\ committed' = <<>> /\ damaged' = FALSE /\ stale' = FALSE
  /\ fresh' = Fresh(m) /\ fits' = TRUE /\ firstblock' = TRUE
  /\ \/ NotStarted(m)
     \/ m = "image" /\ BeginFails /\ gzWriteCallback' = "gzUpdateWriteCallback"
  /\ Returns("false", AnError) /\ UNCHANGED <<callbacks, atRest, tarBlockIsUpdateData>>

Image == pc = "inflating" /\ mode = "image"
\* gzUpdateWriteCallback fails when nothing was written, and leaves _error as it is.
GzUpdateWriteCallback(units) == Flash(units) /\ units # <<>>
\* gzUncompress returns _error then, and what it returns decides.
Refused == UNCHANGED <<_error, position>>
AfterRefusal ==
  IF _error = ESP32_TARGZ_OK THEN pc' = "ending" /\ UNCHANGED returned
  ELSE pc' = "idle" /\ returned' = "false"

WriteBuffer ==
  /\ Image /\ ~InRest /\ KeepRest
  /\ LET next == block + SPI_FLASH_SEC_SIZE IN
     \/ /\ GzUpdateWriteCallback(Units(block, next))
        /\ block' = next /\ outlen' = outlen + SPI_FLASH_SEC_SIZE
        /\ UNCHANGED <<entry, pc>> /\ KeepOutcome
     \/ Refuses(Units(block, next)) /\ Refused /\ AfterRefusal
\* The stream breaks without an error of the source. What is left in the buffer is written.
Breaks ==
  /\ Image /\ ~InRest /\ May("source") /\ damaged' = TRUE
  /\ \E n \in 0..(SPI_FLASH_SEC_SIZE - 1) : entries' = <<[entries[1] EXCEPT !.size = block + n]>>
  /\ UNCHANGED <<update, committed, tarBlockIsUpdateData, position, mode, fresh, stale, fits, pc>>
  /\ KeepTar /\ KeepOutcome
\* (A bug: the whole buffer.)
WholeBuffer == [i \in 1..SPI_FLASH_SEC_SIZE |-> <<entry, block + i>>]
Rest == Units(block, Size)
WriteRest ==
  /\ Image /\ InRest /\ block < Size /\ KeepRest
  /\ \/ /\ GzUpdateWriteCallback(Rest)
        /\ block' = Size /\ outlen' = outlen + (Size - block)
        /\ UNCHANGED <<entry, pc>> /\ KeepOutcome
     \/ Refuses(Rest) /\ Refused /\ AfterRefusal

\* (A bug: none is missing.)
NotFilled == 0
ZeroFill == WholeSectors(outlen) - outlen
FillImage ==
  /\ Image /\ block = Size /\ outlen > 0 /\ KeepRest
  /\ \/ /\ GzUpdateWriteCallback(Zeros(ZeroFill)) /\ outlen' = outlen + ZeroFill
        /\ pc' = "ending" /\ UNCHANGED <<entry, block>> /\ KeepOutcome
     \/ ZeroFill > 0 /\ Refuses(Zeros(ZeroFill)) /\ Refused /\ AfterRefusal
     \* A fill of nothing is a failure of the callback, and of nothing else.
     \/ ZeroFill = 0 /\ UNCHANGED <<update, position, _error, sound>> /\ AfterRefusal
NothingInflated ==
  /\ Image /\ block = Size /\ outlen = 0 /\ Returns("false", AnError)
  /\ UNCHANGED <<update, position, sound>> /\ KeepRest

EndImage ==
  /\ pc = "ending" /\ UNCHANGED <<position, tarBlockIsUpdateData, call, damaged>> /\ KeepTar
  /\ \/ End /\ Returns("true", ESP32_TARGZ_OK) /\ UNCHANGED sound
     \/ (EndFails \/ EndIncomplete) /\ Returns("false", AnError)

-----------------------------------------------------------------------------
(***************************************************************************)
(* The images of an archive: tarGzStreamUpdater. Every call of an entry's  *)
(* callbacks is an action.                                                 *)
(***************************************************************************)
\* Its write callback is installed only if there is none: the one of an image stays.
UpdateArchive(archive) ==
  /\ Called("archive", archive, _error) /\ fits' = TRUE /\ UNCHANGED <<update, _error>>
  /\ gzWriteCallback' =
       IF gzWriteCallback = "none" THEN "gzProcessTarBuffer" ELSE gzWriteCallback
  /\ pc' = (IF gzWriteCallback' = "gzProcessTarBuffer" THEN "setup" ELSE "raw")
  /\ returned' = "no"

\* A callback that fails ends the tar machine; gzProcessTarBuffer fails with its own code.
TarFails == Returns("false", AnError) /\ UNCHANGED position

\* With the callback of an image what is inflated goes to Update as it is, and nothing of
\* tar runs. A write that fails decides as for an image, and nothing ends the update. The
\* stream may end anywhere.
Raw == pc = "raw" /\ KeepRest /\ UNCHANGED <<entry, block>>
AfterRaw ==
  Returns(IF _error = ESP32_TARGZ_OK THEN "true" ELSE "false", _error) /\ UNCHANGED outlen
RawWrite ==
  /\ outlen % SPI_FLASH_SEC_SIZE = 0
  /\ \E n \in 1..SPI_FLASH_SEC_SIZE :
       /\ Raw
       /\ \/ Flash(Zeros(n)) /\ outlen' = outlen + n /\ UNCHANGED pc /\ KeepOutcome
          \/ Refuses(Zeros(n)) /\ AfterRaw
RawEnds ==
  /\ Raw /\ outlen > 0
  /\ \/ /\ GzUpdateWriteCallback(Zeros(ZeroFill)) /\ Returns("true", _error)
        /\ UNCHANGED <<outlen, sound>>
     \/ ZeroFill > 0 /\ Refuses(Zeros(ZeroFill)) /\ AfterRaw
     \/ ZeroFill = 0 /\ UNCHANGED <<update, sound>> /\ AfterRaw

\* gzProcessTarBuffer sets up tar for the first buffer. It does not say that it could not.
TarSetup ==
  /\ pc = "setup" /\ firstblock' = FALSE /\ pc' = "header"
  /\ UNCHANGED <<update, committed, position, installed, atRest, tarBlockIsUpdateData, call,
                 damaged>>
  /\ KeepOutcome
TarSetupFails ==
  /\ pc = "setup" /\ Faulty("memory") /\ AfterRaw /\ UNCHANGED <<update, entry, block>> /\ KeepRest
\* A machine that was stopped between two steps takes a block for what it is not. (What it
\* makes of it is left out, but that it fails: no property asks about such a call.)
TarMisreads ==
  /\ pc = "header" /\ ~atRest /\ TarFails /\ atRest' \in BOOLEAN
  /\ UNCHANGED <<update, sound>> /\ KeepFlags

Archive == mode = "archive" /\ entry <= Len(entries)
Crashes == Returns("crash", _error) /\ UNCHANGED position

\* tarHeaderUpdateCallBack. The first image of all calls tarProgressCallback, if it is set or not.
Relevant == PartitionOf(entries[entry].kind) # "none"
HeaderIgnored ==
  /\ pc = "header" /\ Archive /\ ~Relevant
  /\ pc' = (IF Size > 0 THEN "data" ELSE "end")
  /\ UNCHANGED <<update, position>> /\ KeepOutcome /\ KeepRest
HeaderBegins ==
  /\ pc = "header" /\ Archive /\ Relevant
  /\ Begin(PartitionOf(entries[entry].kind), Size) /\ tarBlockIsUpdateData' = TRUE
  /\ UNCHANGED <<committed, call, damaged, sound>> /\ KeepTar
  /\ \/ /\ pc' = (IF Size > 0 THEN "data" ELSE "end")
        /\ UNCHANGED <<position, _error, returned>>
     \/ ~callbacks /\ Crashes
HeaderFails ==
  /\ pc = "header" /\ Archive /\ Relevant /\ BeginFails /\ TarFails /\ KeepRest

\* tarStreamWriteUpdateCallback: the data of an entry that is not for Update is dropped, as
\* long as the flag is that of this entry. A progress neither 0 nor 100 is shown.
Data ==
  /\ pc = "data" /\ KeepRest
  /\ block' = block + 1 /\ pc' = (IF block + 1 = Size THEN "end" ELSE "data")
  /\ IF tarBlockIsUpdateData
     THEN /\ callbacks \/ block + 1 = Size
          /\ Flash(Units(block, block + 1)) /\ outlen' = outlen + 1
     ELSE UNCHANGED <<update, outlen>>
  /\ UNCHANGED entry /\ KeepOutcome
\* The tar machine stops with the block that it has read.
DataFails ==
  /\ pc = "data" /\ tarBlockIsUpdateData /\ atRest' = FALSE /\ KeepFlags
  /\ \/ Refuses(Units(block, block + 1)) /\ TarFails
     \/ /\ ~callbacks /\ block + 1 # Size /\ Flash(Units(block, block + 1)) /\ Crashes
        /\ UNCHANGED sound

\* tarEndUpdateCallBack, of every entry.
EndEntry ==
  /\ pc = "end" /\ (End \/ EndOfNothing) /\ UNCHANGED <<call, damaged, sound>> /\ KeepTar
  /\ tarBlockIsUpdateData' = FALSE
  /\ \/ /\ callbacks /\ entry' = entry + 1 /\ block' = 0 /\ pc' = "header"
        /\ UNCHANGED <<outlen, _error, returned>>
     \/ ~callbacks /\ Crashes
EndEntryFails ==
  /\ pc = "end" /\ (EndFails \/ EndIncomplete) /\ TarFails
  /\ UNCHANGED <<tarBlockIsUpdateData, call, damaged>> /\ KeepTar

\* What gzUncompress counts is the archive, which is never empty. All steps of tar are done.
ArchiveEnds ==
  /\ pc = "header" /\ mode = "archive" /\ entry > Len(entries) /\ Returns("true", _error)
  /\ atRest' = TRUE /\ UNCHANGED <<update, position, sound>> /\ KeepFlags

\* The stream breaks without an error of the source. (What tar makes of the rest of the buffer
\* is left out, but for how the call returns.)
ArchiveBreaks ==
  /\ (InTar \/ pc = "setup") /\ May("source") /\ damaged' = TRUE /\ Stops
  /\ (Returns("true", _error) \/ Returns("false", AnError))
  /\ UNCHANGED <<update, position, sound, committed, installed, firstblock,
                 tarBlockIsUpdateData, call>>

Next ==
  \/ Forget \/ Abort \/ SetCallbacks \/ Reboot
  \/ \E image \in Entries, error \in {ESP32_TARGZ_OK, AnError} :
       \E update_size \in 0..MaxSize : UpdateImage(image, update_size, error)
  \/ \E m \in {"image", "archive"} : UpdateRefused(m)
  \/ \E n \in 1..MaxEntries : \E archive \in [1..n -> Entries] : UpdateArchive(archive)
  \/ RawWrite \/ RawEnds \/ TarSetup \/ TarSetupFails \/ TarMisreads
  \/ Dry \/ NoMemory
  \/ WriteBuffer \/ Breaks \/ WriteRest \/ FillImage \/ NothingInflated \/ EndImage
  \/ HeaderIgnored \/ HeaderBegins \/ HeaderFails \/ Data \/ DataFails
  \/ EndEntry \/ EndEntryFails \/ ArchiveEnds \/ ArchiveBreaks
Spec == Init /\ [][Next]_vars

-----------------------------------------------------------------------------
UpTypeOK ==
  /\ partition \in {"none", "U_FLASH", "U_PART"} /\ room \in 0..Unlimited
  /\ {updateError, callbacks, tarBlockIsUpdateData, firstblock, atRest, fresh, sound, damaged,
      stale, fits} \subseteq BOOLEAN
  /\ gzWriteCallback \in {"none", "gzUpdateWriteCallback", "gzProcessTarBuffer"}
  /\ flashed \in Seq((0..MaxEntries) \X (0..MaxSize))
  /\ \A i \in DOMAIN committed : committed[i].to \in {"U_FLASH", "U_PART"}
  /\ _error \in {ESP32_TARGZ_OK, AnError}
  /\ mode \in {"image", "archive"} /\ entries \in Seq(Entries) /\ entry \in 1..(MaxEntries + 1)
  /\ block \in 0..MaxSize /\ outlen \in Nat
  /\ pc \in {"idle", "inflating", "ending", "setup", "raw", "header", "data", "end"}
  /\ returned \in {"none", "no", "true", "false", "crash"}

\* The content of an entry, and what a partition has after it was updated.
ContentOf(e) == [i \in 1..entries[e].size |-> <<e, i>>]
ImageOf(e) ==
  IF mode = "archive" THEN ContentOf(e)
  ELSE ContentOf(e) \o Zeros((-entries[e].size) % SPI_FLASH_SEC_SIZE)
Wanted(e) ==
  [to |-> IF entries[e].kind = "ino.bin" THEN "U_FLASH" ELSE "U_PART", content |-> ImageOf(e)]
IsImage(e) == entries[e].kind # "other"

\* What becomes the content of a partition is one whole image, the one meant for it, with
\* zeros up to a sector if it was a .gz of its own: whatever was refused on the way, and
\* whether the call succeeds or not. Two conditions: no earlier call has left an update that
\* was neither ended nor aborted, and the .gz is not damaged.
CommittedIsImage ==
  fresh /\ ~damaged =>
    \A i \in DOMAIN committed :
      \E e \in DOMAIN entries : IsImage(e) /\ committed[i] = Wanted(e)

\* What was committed are the images before an entry, all of them, in the order of the archive.
Images(last) == {e \in DOMAIN entries : IsImage(e) /\ e < last}
FlashedBefore(last) ==
  \E at \in [DOMAIN committed -> Images(last)] :
    /\ \A i \in DOMAIN committed : committed[i] = Wanted(at[i])
    /\ \A i, j \in DOMAIN committed : i < j => at[i] < at[j]
    /\ \A e \in Images(last) : \E i \in DOMAIN committed : at[i] = e

\* A call that is a success has updated each partition that there was an image for, in the
\* order of the archive, and nothing else. The exception is that of the code: the update of an
\* archive that could not set up tar, or was not to, because the writer of an image was left
\* installed, may be a success as well. Nothing is then updated at all.
SuccessMeansFlashed ==
  returned = "true" /\ fresh /\ ~damaged =>
    IF mode = "archive" /\ firstblock THEN committed = <<>> ELSE FlashedBefore(Len(entries) + 1)

\* Images are flashed when nothing fails: they are not refused for their size, for a zero
\* fill that has no room, for what the archive has before them or for an earlier failure.
\* Three conditions are those of the code: the callbacks of tar are set; no update of one
\* image was called before that of an archive, whose writer would be used; there is no old
\* error in _error when the image fills its last sector.
SoundUpdateSucceeds ==
  /\ sound /\ fresh /\ fits /\ ~damaged
  /\ mode = "archive" =>
       /\ callbacks /\ gzWriteCallback = "gzProcessTarBuffer"
       /\ \A e \in DOMAIN entries : IsImage(e)
  /\ mode = "image" => ~(stale /\ entries # <<>> /\ entries[1].size % SPI_FLASH_SEC_SIZE = 0)
  /\ \A e \in DOMAIN entries : entries[e].size > 0
  => returned \notin {"false", "crash"}
=============================================================================
