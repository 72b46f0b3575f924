-------------------------- MODULE UnpackerSession --------------------------
(***************************************************************************)
(* One call of an unpacker after another                                   *)
(* (src/src/libunpacker/LibUnpacker.cpp). All unpackers share globals that *)
(* a call finds as the calls before left them: the write callback, which   *)
(* most calls only install when there is none; the handle it writes to;    *)
(* the callbacks and flags of the tar machine; buffers and their sizes;    *)
(* the last error.                                                         *)
(*                                                                         *)
(* A stream is a number of chunks, that is of calls of the write callback  *)
(* (the zero fill of an update is one). What tar and Update make of them   *)
(* is an outcome. Chunks are known by where they go.                       *)
(***************************************************************************)
EXTENDS Integers

CONSTANTS
  Boards,        \* what the library is built for: "ESP32", "ESP8266"
  BuffBlocks,    \* GZIP_BUFF_SIZE / TAR_BLOCK_SIZE
  MaxChunks,     \* of a stream (bound)
  Operations,    \* what is called
  Faults         \* what may go wrong, of FaultKinds

ToFile == {"gzExpander", "gzStreamExpander", "tarGzExpander"}
ToTar == {"tarGzStreamExpander", "tarGzExpanderNoTempFile", "tarGzStreamUpdater"}
ToUpdate == {"gzUpdater", "gzStreamUpdater"}
ToAny == {"gzStreamExpander to a writer"}     \* the overload without a destination
ToClass == {"writeGzStream"}                  \* begingz, writeGzStream, endgz
FaultKinds == {"heap", "source", "refuse", "end"}
ASSUME OperationsAssumption ==
  Operations \subseteq ToFile \cup ToTar \cup ToUpdate \cup ToAny \cup ToClass
ASSUME SessionAssumption ==
  /\ Boards \subseteq {"ESP32", "ESP8266"} /\ Faults \subseteq FaultKinds
  /\ BuffBlocks \in Nat \ {0, 1} /\ MaxChunks \in Nat

ESP32_TARGZ_OK == 0
ESP32_TARGZ_STREAM_ERROR == -6
ESP32_TARGZ_TAR_ERR_HEAP_TOO_LOW == -38
ESP32_TARGZ_TAR_ERR_GZREAD_FAIL == -39
ESP32_TARGZ_UZLIB_MALLOC_FAIL == -106
OtherError == -107     \* of the filesystem, of tar, of Update
Codes == {ESP32_TARGZ_OK, ESP32_TARGZ_STREAM_ERROR, ESP32_TARGZ_TAR_ERR_HEAP_TOO_LOW,
          ESP32_TARGZ_TAR_ERR_GZREAD_FAIL, ESP32_TARGZ_UZLIB_MALLOC_FAIL, OtherError}

VARIABLES
  board,
  gzWriteCallback,
  output,          \* where tarGzIO.output points: the file of this call, that of a call
                   \* which has returned, the global untarredFile, or nowhere
  tarSink,         \* what tarCallbacks write to: files or partitions
  firstblock, lastblock,
  reading,         \* read_tar_callbacks # NULL
  output_buffer_size, min_output_buffer_size, blockmod,     \* in blocks
  _error,
  op,              \* the operation, or "none"
  pc,              \* where it is
  fits,            \* the write callback it found was its own, or none
  left,            \* chunks of its stream
  outlen,          \* > 0: chunks that were written
  sinks,           \* where they went
  silent,          \* the write callback refused and set no error
  res,             \* what gzUncompress returned
  returned         \* by the operation, "no" while it runs; "none": forgotten

writer == <<gzWriteCallback, output>>
tar == <<tarSink, firstblock, lastblock, reading>>
sizes == <<output_buffer_size, min_output_buffer_size, blockmod>>
call == <<board, op, fits>>
progress == <<left, outlen, sinks, silent>>
vars == <<writer, tar, sizes, _error, call, pc, progress, res, returned>>

Running == returned = "no"
May(fault) == fault \in Faults

\* What a call installs, and whether it replaces what is there.
Writer(o) ==
  CASE o \in ToFile \cup ToAny -> "gzStreamWriteCallback"
    [] o \in ToTar             -> "gzProcessTarBuffer"
    [] o \in ToUpdate          -> "gzUpdateWriteCallback"
    [] o \in ToClass           -> "GzUpdateClass"
Replaces(o) == o \in {"tarGzStreamExpander"} \cup ToUpdate
\* Updates are inflated on an ESP32 only: others leave it to the boot loader.
Available == IF board = "ESP32" THEN Operations ELSE Operations \ (ToUpdate \cup ToClass)
\* Whether a call writes through its own callback.
Fits(o) ==
  \/ o \in ToAny /\ gzWriteCallback = "user"
  \/ o \notin ToAny /\ (Replaces(o) \/ gzWriteCallback \in {"nullptr", Writer(o)})

Init ==
  /\ board \in Boards
  /\ gzWriteCallback = "nullptr" /\ output = "nullptr" /\ tarSink = "files"
  /\ firstblock = TRUE /\ lastblock = FALSE /\ reading = FALSE
  /\ output_buffer_size = 0 /\ min_output_buffer_size = 1 /\ blockmod = BuffBlocks
  /\ _error = ESP32_TARGZ_OK /\ op = "none" /\ pc = "idle" /\ fits = TRUE
  /\ left = 0 /\ outlen = 0 /\ sinks = {} /\ silent = FALSE /\ res = ESP32_TARGZ_OK
  /\ returned = "none"

-----------------------------------------------------------------------------
(***************************************************************************)
(* Between calls.                                                          *)
(***************************************************************************)
Idle == returned = "none"
Forgets ==
  /\ returned' = "none" /\ op' = "none" /\ fits' = TRUE /\ board' = board /\ pc' = pc
  /\ left' = 0 /\ outlen' = 0 /\ sinks' = {} /\ silent' = FALSE /\ res' = ESP32_TARGZ_OK

\* The caller has seen what was returned.
Forget ==
  /\ returned \in {"true", "false"} /\ Forgets
  /\ UNCHANGED <<writer, tar, sizes, _error>>
Reboot ==
  /\ returned = "crash" /\ Forgets
  /\ gzWriteCallback' = "nullptr" /\ output' = "nullptr" /\ tarSink' = "files"
  /\ firstblock' = TRUE /\ lastblock' = FALSE /\ reading' = FALSE
  /\ output_buffer_size' = 0 /\ min_output_buffer_size' = 1 /\ blockmod' = BuffBlocks
  /\ _error' = ESP32_TARGZ_OK

\* The constructor of BaseUnpacker.
NewUnpacker ==
  /\ Idle /\ _error' = ESP32_TARGZ_OK /\ blockmod' = BuffBlocks
  /\ UNCHANGED <<writer, tar, output_buffer_size, min_output_buffer_size, call, pc, progress,
                 res, returned>>

\* setStreamWriter, with a callback of the user or with nullptr.
SetStreamWriter(cb) ==
  /\ Idle /\ gzWriteCallback' = cb
  /\ UNCHANGED <<output, tar, sizes, _error, call, pc, progress, res, returned>>

ClearError == ESP32_TARGZ_OK
ErrorAtStart(o) ==
  IF o \in ToFile \cup {"tarGzExpanderNoTempFile", "gzUpdater"} THEN ClearError ELSE _error
Refusal(o) == IF o \in ToClass THEN _error ELSE OtherError

\* (A bug: an archive that was expanded stays expanded.)
KeepsLastblock(o) == lastblock
LastblockAtStart(o) == IF o \in ToTar THEN FALSE ELSE lastblock
\* (A bug: the callbacks of another kind of archive are kept.)
KeepsSink(o) == tarSink
SinkAtStart(o) ==
  IF o = "tarGzStreamUpdater" THEN "partitions" ELSE IF o \in ToTar THEN "files" ELSE tarSink

\* The buffer of an ESP8266 has the size that the last call found memory for, one block
\* at first. tarGzStreamExpander sets it, and the number of blocks to feed from it.
Capped(free) == IF free > BuffBlocks THEN BuffBlocks ELSE free
MinimumOf(free) == IF free > 0 THEN Capped(free) ELSE min_output_buffer_size
\* (A bug: the size of the call before is kept.)
KeepsMinimum(o, free) == MinimumOf(free)
MinimumAtStart(o, free) ==
  IF o = "tarGzStreamExpander" /\ board # "ESP32" THEN 2 ELSE MinimumOf(free)
BlockmodAtStart(o) == IF o = "tarGzStreamExpander" /\ board # "ESP32" THEN 2 ELSE blockmod

\* A call begins. Of the blocks of memory that are free, 0 says that there is enough; when
\* it is low, gzExpander makes do with a smaller buffer.
Begins(o, free) ==
  /\ Idle /\ (free > 0 => o \in ToFile /\ May("heap"))
  /\ op' = o /\ board' = board /\ fits' = Fits(o)
  /\ outlen' = 0 /\ sinks' = {} /\ UNCHANGED <<reading, output_buffer_size>>
Installs(o, free) ==
  /\ min_output_buffer_size' = MinimumAtStart(o, free)
  /\ gzWriteCallback' = IF Replaces(o) \/ gzWriteCallback = "nullptr" THEN Writer(o)
                        ELSE gzWriteCallback
  /\ tarSink' = SinkAtStart(o)
  /\ firstblock' = (o \in ToTar \/ firstblock) /\ lastblock' = LastblockAtStart(o)

\* The call, up to gzUncompress.
Start(o, chunks, free) ==
  /\ Begins(o, free) /\ Installs(o, free) /\ pc' = "gzUncompress" /\ returned' = "no"
  /\ output' = IF o \in ToFile THEN "this call's" ELSE output
  /\ blockmod' = BlockmodAtStart(o) /\ _error' = ErrorAtStart(o)
  /\ left' = chunks /\ silent' = FALSE /\ res' = ESP32_TARGZ_OK

\* It finds no source, no heap or no destination, before it has installed anything. (Without
\* a name for its file, gzStreamExpander returns false and says nothing.)
RefusesStart(o, free, code) ==
  /\ May("source") /\ (code = ESP32_TARGZ_OK => o = "gzStreamExpander")
  /\ Begins(o, free) /\ min_output_buffer_size' = MinimumOf(free)
  /\ _error' = (IF code = ESP32_TARGZ_OK THEN code ELSE Refusal(o))
  /\ res' = code /\ silent' = (code = ESP32_TARGZ_OK)
  /\ returned' = "false" /\ pc' = "idle" /\ left' = 0
  /\ UNCHANGED <<writer, tarSink, firstblock, lastblock, blockmod>>
\* Or after: Update.begin, and the heap that an ESP8266 needs for a dictionary.
RefusesInstalled(o) ==
  /\ May("heap") /\ o \in ToUpdate \cup ToClass \cup {"tarGzStreamExpander"}
  /\ (o = "tarGzStreamExpander" => board # "ESP32") /\ Begins(o, 0) /\ Installs(o, 0)
  /\ _error' = Refusal(o) /\ res' = OtherError /\ silent' = FALSE
  /\ returned' = "false" /\ pc' = "idle" /\ left' = 0 /\ UNCHANGED <<output, blockmod>>

-----------------------------------------------------------------------------
(***************************************************************************)
(* gzUncompress.                                                           *)
(***************************************************************************)
Left(handle) == IF handle = "this call's" THEN "a call's" ELSE handle
Returns(result) == returned' = result /\ pc' = "idle" /\ output' = Left(output)
\* Undefined behaviour: nothing more is known of this call.
Crashes == Returns("crash") /\ UNCHANGED <<progress, tar, _error, res>>

\* The source has gone, before anything was done; no dictionary, no buffer, or no .gz header.
SourceGone ==
  /\ pc = "gzUncompress" /\ May("source") /\ pc' = "ended" /\ res' = ESP32_TARGZ_STREAM_ERROR
  /\ UNCHANGED <<writer, tar, sizes, _error, call, progress, returned>>
CannotInflate(code) ==
  /\ pc = "gzUncompress"
  /\ \/ code = ESP32_TARGZ_UZLIB_MALLOC_FAIL /\ May("heap")
     \/ code = OtherError /\ May("source")
  /\ pc' = "ended" /\ res' = code
  /\ UNCHANGED <<writer, tar, sizes, _error, call, progress, returned>>

\* The buffers are allocated; in pull mode the tar machine is set up.
BufferSize == IF board = "ESP32" THEN BuffBlocks ELSE min_output_buffer_size
Pull == op = "tarGzExpanderNoTempFile"
Inflates ==
  /\ pc = "gzUncompress"
  /\ pc' = "inflating" /\ output_buffer_size' = BufferSize
  /\ blockmod' = IF Pull THEN BufferSize ELSE blockmod
  /\ firstblock' = (firstblock /\ ~Pull) /\ reading' = (reading \/ Pull)
  /\ UNCHANGED <<writer, tarSink, lastblock, min_output_buffer_size, _error, call, progress,
                 res, returned>>

\* Without memory for the tar machine pull mode returns at once, its buffers allocated.
PullNoHeap ==
  /\ pc = "gzUncompress" /\ Pull /\ May("heap")
  /\ output_buffer_size' = BufferSize /\ blockmod' = BufferSize
  /\ firstblock' = FALSE
  /\ _error' = ESP32_TARGZ_TAR_ERR_HEAP_TOO_LOW /\ res' = ESP32_TARGZ_TAR_ERR_HEAP_TOO_LOW
  /\ Returns("false")
  /\ UNCHANGED <<gzWriteCallback, tarSink, lastblock, reading, min_output_buffer_size, call,
                 progress>>

Took(sink) ==
  /\ left' = left - 1 /\ outlen' = outlen + 1 /\ sinks' = sinks \cup {sink}
  /\ UNCHANGED <<silent, pc, res, returned>>
\* The callback refuses. gzUncompress returns _error, whether it was set or not.
Ends(code) ==
  /\ res' = code /\ pc' = "ended"
  /\ UNCHANGED <<left, outlen, sinks, returned>>
Refuses(code) == _error' = code /\ UNCHANGED silent /\ Ends(code)
RefusesSilently == silent' = TRUE /\ UNCHANGED _error /\ Ends(_error)

Inflating == pc = "inflating" /\ ~Pull
Writing(cb) ==
  /\ Inflating /\ left > 0 /\ gzWriteCallback = cb
  /\ UNCHANGED <<gzWriteCallback, sizes, call>>

\* gzStreamWriteCallback: what tarGzIO.output points to is there, or not any more.
StreamWrite ==
  /\ Writing("gzStreamWriteCallback") /\ UNCHANGED tar
  /\ \/ output = "this call's" /\ Took("its file") /\ UNCHANGED <<_error, output>>
     \/ output \in {"a call's", "untarredFile"} /\ Took("another file") /\ UNCHANGED <<_error, output>>
     \/ /\ output # "nullptr" /\ (May("refuse") \/ output # "this call's")
        /\ Refuses(ESP32_TARGZ_STREAM_ERROR) /\ UNCHANGED output
StreamWriteNowhere ==
  /\ Writing("gzStreamWriteCallback") /\ output \in {"nullptr", "a call's"} /\ Crashes

\* A callback that sets no error: Update.write of the two updaters, or the user's.
Other(cb) ==
  CASE cb = "gzUpdateWriteCallback" -> "Update" [] cb = "GzUpdateClass" -> "GzUpdateClass"
    [] cb = "user" -> "user"
OtherWrite(cb) ==
  /\ Writing(cb) /\ UNCHANGED <<tar, output>>
  /\ \/ Took(Other(cb)) /\ UNCHANGED _error
     \/ May("refuse") /\ RefusesSilently

\* gzProcessTarBuffer: an archive that has ended takes anything; a machine that was never
\* set up, or has stopped, nothing; else it goes on, to the end of the archive, or fails.
\* Files that it opens are written through tarGzIO.output, too.
TarIgnores ==
  /\ Writing("gzProcessTarBuffer") /\ lastblock
  /\ Took("nowhere") /\ UNCHANGED <<tar, output, _error>>
TarNoHeap ==
  /\ Writing("gzProcessTarBuffer") /\ ~lastblock /\ firstblock /\ May("heap")
  /\ RefusesSilently /\ UNCHANGED <<tar, output>>
TarStopped ==
  /\ Writing("gzProcessTarBuffer") /\ ~lastblock /\ ~firstblock /\ ~reading
  /\ Refuses(ESP32_TARGZ_TAR_ERR_GZREAD_FAIL) /\ UNCHANGED <<tar, output>>
TarFeeds == ~lastblock /\ (firstblock \/ reading)
OutputAfterTar == {output} \cup (IF tarSink = "files" THEN {"untarredFile"} ELSE {})
TarWrite(done) ==
  /\ Writing("gzProcessTarBuffer") /\ TarFeeds
  /\ Took(tarSink) /\ output' \in OutputAfterTar
  /\ firstblock' = FALSE /\ lastblock' = done /\ reading' = ~done
  /\ UNCHANGED <<tarSink, _error>>
TarFails ==
  /\ Writing("gzProcessTarBuffer") /\ TarFeeds /\ May("refuse")
  /\ Refuses(ESP32_TARGZ_TAR_ERR_GZREAD_FAIL) /\ output' \in OutputAfterTar
  /\ firstblock' = FALSE /\ reading' = FALSE /\ UNCHANGED <<tarSink, lastblock>>

\* The stream breaks, or ends: an empty one is an error.
SourceDry ==
  /\ Inflating /\ May("source") /\ Ends(ESP32_TARGZ_STREAM_ERROR)
  /\ UNCHANGED <<writer, tar, sizes, call, silent, _error>>
ResultOf(length) == IF length > 0 THEN ESP32_TARGZ_OK ELSE ESP32_TARGZ_STREAM_ERROR
StreamEnds ==
  /\ Inflating /\ left = 0 /\ Ends(ResultOf(outlen))
  /\ UNCHANGED <<writer, tar, sizes, call, silent, _error>>

\* Pull mode: the tar machine takes blocks of the stream until it stops, for any reason.
PullStep ==
  /\ pc = "inflating" /\ Pull /\ left > 0
  /\ Took("files") /\ output' \in OutputAfterTar
  /\ UNCHANGED <<gzWriteCallback, tar, sizes, call, _error>>
PullEnds ==
  /\ pc = "inflating" /\ Pull /\ (left = 0 \/ outlen > 0 \/ May("refuse") \/ May("source"))
  /\ reading' = FALSE /\ Ends(ResultOf(outlen))
  /\ UNCHANGED <<writer, tarSink, firstblock, lastblock, sizes, call, silent, _error>>

-----------------------------------------------------------------------------
(***************************************************************************)
(* The end of a call.                                                      *)
(***************************************************************************)
EndOfCall == pc = "ended" /\ UNCHANGED <<gzWriteCallback, sizes, call, res>>

ErrorOf(code) == code
GzFailed ==
  /\ EndOfCall /\ res # ESP32_TARGZ_OK
  /\ _error' = IF op \in ToClass THEN _error ELSE ErrorOf(res)
  /\ Returns("false") /\ UNCHANGED <<tar, progress>>

\* Update.end, and whether it is finished.
UpdateFails ==
  /\ EndOfCall /\ res = ESP32_TARGZ_OK /\ op \in ToUpdate \cup ToClass /\ May("end")
  /\ _error' = IF op \in ToClass THEN _error ELSE OtherError
  /\ Returns("false") /\ UNCHANGED <<tar, progress>>

\* Some set _error to 0 at the end, some did at the start, some never do.
ErrorAtEnd == IF op \in ToAny \cup ToUpdate THEN ESP32_TARGZ_OK ELSE _error
GzEnds ==
  /\ EndOfCall /\ res = ESP32_TARGZ_OK /\ op # "tarGzExpander"
  /\ _error' = ErrorAtEnd /\ Returns("true") /\ UNCHANGED <<tar, progress>>

\* tarExpander on the temporary file, with read_tar. It does not look for an end: a file
\* without anything is an archive without anything. A long name is an error and no failure.
TarAfterGz(code) ==
  /\ EndOfCall /\ res = ESP32_TARGZ_OK /\ op = "tarGzExpander"
  /\ code # ESP32_TARGZ_OK => May("refuse") /\ "its file" \in sinks
  /\ _error' = code /\ returned' = (IF code = ESP32_TARGZ_OK THEN "true" ELSE "false")
  /\ pc' = "idle" /\ output' \in {Left(output), "untarredFile"}
  /\ sinks' = IF "its file" \in sinks THEN sinks \cup {"files"} ELSE sinks
  /\ reading' = FALSE /\ tarSink' = "files"
  /\ UNCHANGED <<firstblock, lastblock, left, outlen, silent>>

Uncompress ==
  \/ \E code \in {ESP32_TARGZ_UZLIB_MALLOC_FAIL, OtherError} : CannotInflate(code)
  \/ SourceGone \/ Inflates \/ PullNoHeap
  \/ StreamWrite \/ StreamWriteNowhere
  \/ \E cb \in {"gzUpdateWriteCallback", "GzUpdateClass", "user"} : OtherWrite(cb)
  \/ TarIgnores \/ TarNoHeap \/ TarStopped \/ TarFails
  \/ \E done \in BOOLEAN : TarWrite(done)
  \/ SourceDry \/ StreamEnds \/ PullStep \/ PullEnds
Next ==
  \/ Forget \/ Reboot \/ NewUnpacker \/ \E cb \in {"user", "nullptr"} : SetStreamWriter(cb)
  \/ \E o \in Available, free \in 0..(BuffBlocks + 1) :
       \/ \E chunks \in 0..MaxChunks : Start(o, chunks, free)
       \/ \E code \in {ESP32_TARGZ_OK, OtherError} : RefusesStart(o, free, code)
       \/ free = 0 /\ RefusesInstalled(o)
  \/ Uncompress
  \/ GzFailed \/ UpdateFails \/ GzEnds
  \/ \E code \in {ESP32_TARGZ_OK, OtherError} : TarAfterGz(code)
Spec == Init /\ [][Next]_vars

-----------------------------------------------------------------------------
\* The tar machine is fed from inside the buffer: the number of blocks, which survives from
\* call to call, and the size of the buffer, which does too, agree. (An ESP8266 that updates
\* from an archive sets neither.)
FeedInsideBuffer ==
  /\ Inflating /\ gzWriteCallback = "gzProcessTarBuffer" /\ TarFeeds /\ fits
  /\ op = "tarGzStreamUpdater" => board = "ESP32"
  => blockmod <= output_buffer_size

\* The variables have their types, and what is fed lies in the buffer.
SsTypeOK ==
  /\ board \in Boards /\ op \in Available \cup {"none"} /\ left \in 0..MaxChunks /\ outlen \in 0..MaxChunks
  /\ gzWriteCallback \in {"nullptr", "user"} \cup {Writer(o) : o \in Operations}
  /\ output \in {"nullptr", "this call's", "a call's", "untarredFile"}
  /\ tarSink \in {"files", "partitions"} /\ {firstblock, lastblock, reading} \subseteq BOOLEAN
  /\ output_buffer_size \in 0..BuffBlocks
  /\ min_output_buffer_size \in 1..BuffBlocks /\ blockmod \in 1..BuffBlocks
  /\ {_error, res} \subseteq Codes /\ {fits, silent} \subseteq BOOLEAN
  /\ pc \in {"idle", "gzUncompress", "inflating", "ended"}
  /\ returned \in {"no", "none", "true", "false", "crash"}
  /\ FeedInsideBuffer

\* Where the chunks of a call are to go. After the end of an archive, nowhere.
Main(o) ==
  CASE o \in {"gzExpander", "gzStreamExpander"} -> "its file"
    [] o = "tarGzExpander" \/ o \in ToTar \ {"tarGzStreamUpdater"} -> "files"
    [] o = "tarGzStreamUpdater" -> "partitions"
    [] o \in ToUpdate -> "Update" [] o \in ToClass -> "GzUpdateClass" [] o \in ToAny -> "user"
    [] o = "none" -> "nowhere"
Right(o) ==
  {Main(o)} \cup (IF o \in ToFile THEN {"its file"} ELSE IF o \in ToTar THEN {"nowhere"} ELSE {})

\* Whatever was called before, and however it ended: what a call inflates goes where it was
\* told to write, to nothing else, and through no handle that is gone, as long as the write
\* callback is its own. (If it is not, because another kind of call installed it, anything
\* may happen.)
WritesWhereAsked == fits => sinks \subseteq Right(op) /\ returned # "crash"

\* A call that is a success has written all of its stream, in this call: an archive is not
\* taken for expanded because the one before was. (Unless the write callback refused and
\* left no error: that is a success.) A failure leaves an error to be asked for, on each of
\* its paths but one: a file without a name. (silent and OK at once: nobody has set an error.)
TrueMeansWritten == returned = "true" /\ ~silent => Main(op) \in sinks /\ (left = 0 \/ Pull)
FalseMeansError ==
  /\ returned = "false" /\ op \notin ToClass
  /\ ~(op = "gzStreamExpander" /\ silent /\ res = ESP32_TARGZ_OK)
  => _error # ESP32_TARGZ_OK
ReturnTells == (fits => TrueMeansWritten) /\ FalseMeansError
=============================================================================
