---------------------------- MODULE GzUncompress ----------------------------
(***************************************************************************)
(* Expanding a .tar.gz without an intermediate file                        *)
(* (src/src/libunpacker/LibUnpacker.cpp): GzUnpacker::gzUncompress between *)
(* the decompressor and the tar machine of module Untar, in its two modes. *)
(*   push  tarGzStreamExpander: the decompressor fills a buffer of blockmod *)
(*         blocks, gzProcessTarBuffer then steps the tar machine, whose     *)
(*         read callback gzFeedTarBuffer takes blocks out of the buffer;    *)
(*   pull  tarGzExpanderNoTempFile: the tar machine is stepped, its read    *)
(*         callback tarReadGzStream decompresses 512 bytes.                 *)
(* Byte counts are counts of 512-byte blocks; a stream that breaks in the  *)
(* middle of a block leaves it torn, that is Garbage.                      *)
(***************************************************************************)
EXTENDS Untar, FiniteSets

CONSTANTS
  blockmod,     \* blocks in output_buffer
  Modes,        \* the modes sessions are opened in
  GzFaults      \* what may go wrong in the decompressor, of GzFaultKinds

GzFaultKinds == {"checksum", "data", "source", "memory"}
ASSUME BlockmodAssumption == blockmod \in Nat \ {0}
ASSUME GzAssumption == Modes \subseteq {"push", "pull"} /\ GzFaults \subseteq GzFaultKinds

\* esp32_targz_types.h
ESP32_TARGZ_OK == 0
ESP32_TARGZ_STREAM_ERROR == -6
ESP32_TARGZ_TAR_ERR_GZREAD_FAIL == -39
ESP32_TARGZ_UZLIB_MALLOC_FAIL == -106
NoReturn == 1         \* the call has not returned
TINF_OK == 0
TINF_DONE == 1
TINF_DATA_ERROR == -3
TINF_CHKSUM_ERROR == -4

VARIABLES
  pc,                \* where gzUncompress is
  mode,
  stream,            \* what the gzip stream decompresses to
  produced,          \* blocks of it decompressed so far
  res,               \* the last code of uzlib_uncompress_chksum
  readSourceErrors,  \* whether the source failed to give a byte
  output_buffer, output_position, outlen,
  gzTarBlockPos, firstblock, lastblock,
  untarredBytesCount,
  _error,
  return_value       \* of the call, NoReturn while it runs

gz == <<stream, res, readSourceErrors>>
buffer == <<output_buffer, output_position>>
locals == <<buffer, outlen, produced>>
gzVars == <<pc, mode, gz, locals, gzTarBlockPos, firstblock, lastblock,
            untarredBytesCount, _error, return_value>>
allVars == <<vars, gzVars>>

PowerOn ==
  /\ pc = "idle" /\ mode = "push" /\ stream = <<>> /\ produced = 0 /\ res = TINF_OK
  /\ readSourceErrors = FALSE /\ output_buffer = [i \in 0..blockmod-1 |-> Zeroed]
  /\ output_position = 0 /\ outlen = 0 /\ gzTarBlockPos = 0 /\ firstblock = TRUE
  /\ lastblock = FALSE /\ untarredBytesCount = 0 /\ _error = ESP32_TARGZ_OK
  /\ return_value = NoReturn

GzInit == Init /\ PowerOn
Restart ==
  /\ Reboot
  /\ pc' = "idle" /\ mode' = "push" /\ stream' = <<>> /\ produced' = 0 /\ res' = TINF_OK
  /\ readSourceErrors' = FALSE /\ output_buffer' = [i \in 0..blockmod-1 |-> Zeroed]
  /\ output_position' = 0 /\ outlen' = 0 /\ gzTarBlockPos' = 0 /\ firstblock' = TRUE
  /\ lastblock' = FALSE /\ untarredBytesCount' = 0 /\ _error' = ESP32_TARGZ_OK
  /\ return_value' = NoReturn

-----------------------------------------------------------------------------
SetError(code) == _error' = code
\* The buffer is freed; what else only the call knows is gone with it.
FreeLocals ==
  /\ output_buffer' = [i \in 0..blockmod-1 |-> Zeroed] /\ output_position' = 0
  /\ outlen' = 0 /\ produced' = 0
Return(code) ==
  /\ pc' = "idle" /\ return_value' = code /\ SetError(IF code # 0 THEN code ELSE _error)
  /\ FreeLocals
Goto(label) == pc' = label /\ UNCHANGED return_value

\* The caller's preparation and the head of gzUncompress: stream in place, buffer
\* calloc'ed. The temp-file-less variant clears _error, the streaming one does not.
OpenCommon(m, s) ==
  /\ pc = "idle" /\ (FreshStart => AtRest)
  /\ mode' = m /\ stream' = s /\ produced' = 0 /\ res' = TINF_OK
  /\ readSourceErrors' = FALSE /\ output_buffer' = [i \in 0..blockmod-1 |-> Zeroed]
  /\ output_position' = 0 /\ outlen' = 0 /\ gzTarBlockPos' = 0
  /\ lastblock' = FALSE /\ untarredBytesCount' = 0 /\ return_value' = NoReturn

OpenPush(s) ==
  /\ OpenCommon("push", s)
  /\ pc' = "inflate" /\ firstblock' = TRUE /\ UNCHANGED <<vars, _error>>

\* Pull mode sets the tar machine up itself; without memory it returns at once.
OpenPull(s) ==
  /\ OpenCommon("pull", s) /\ pc' = "tar" /\ firstblock' = FALSE
  /\ SetupOK(s) /\ SetError(ESP32_TARGZ_OK)

Open(s) == \/ "push" \in Modes /\ OpenPush(s)
           \/ "pull" \in Modes /\ OpenPull(s)

\* No dictionary, no output buffer: nothing of the session is started.
OpenFails ==
  /\ pc = "idle" /\ "memory" \in GzFaults
  /\ Return(ESP32_TARGZ_UZLIB_MALLOC_FAIL)
  /\ UNCHANGED <<vars, mode, gz, gzTarBlockPos, firstblock, lastblock, untarredBytesCount>>

PullNoHeap ==
  /\ pc = "idle" /\ "pull" \in Modes /\ SetupNoHeap
  /\ Return(TAR_ERROR_HEAP - 30)
  /\ UNCHANGED <<mode, gz, gzTarBlockPos, firstblock, lastblock, untarredBytesCount>>

-----------------------------------------------------------------------------
(***************************************************************************)
(* Push mode. The byte loop of gzUncompress, a block at a time.            *)
(***************************************************************************)
\* (A bug: off by one.)
BufferOverfull(n) == n > blockmod
\* output_position == output_buffer_size
BufferFull(n) == n = blockmod

InflateBlock ==
  /\ pc = "inflate" /\ produced < Len(stream)
  /\ produced' = produced + 1
  /\ output_buffer' = [output_buffer EXCEPT ![output_position] = produced + 1]
  /\ output_position' = output_position + 1
  /\ Goto(IF BufferFull(output_position + 1) THEN "write" ELSE "inflate")
  /\ UNCHANGED <<vars, mode, stream, res, readSourceErrors, outlen, gzTarBlockPos,
                 firstblock, lastblock, untarredBytesCount, _error>>

\* The code that ends the loop. A source that dries up is an error of its own;
\* of the others only a warning is logged, and what is in the buffer is written.
Ends(torn) ==
  \/ produced = Len(stream) /\ ~torn /\ readSourceErrors' = FALSE
       /\ res' \in {TINF_DONE} \cup (IF "checksum" \in GzFaults THEN {TINF_CHKSUM_ERROR} ELSE {})
  \/ "data" \in GzFaults /\ res' = TINF_DATA_ERROR /\ readSourceErrors' = FALSE
  \/ "source" \in GzFaults /\ res' = TINF_DATA_ERROR /\ readSourceErrors' = TRUE

InflateEnds(torn) ==
  /\ pc = "inflate" /\ Ends(torn)
  /\ IF readSourceErrors' THEN Return(ESP32_TARGZ_STREAM_ERROR)
     ELSE /\ output_buffer' = IF torn THEN [output_buffer EXCEPT ![output_position] = Garbage]
                                     ELSE output_buffer
          /\ output_position' = output_position + (IF torn THEN 1 ELSE 0)
          /\ Goto(IF output_position' > 0 THEN "write" ELSE "finish")
          /\ UNCHANGED <<produced, outlen, _error>>
  /\ UNCHANGED <<vars, mode, stream, gzTarBlockPos, firstblock, lastblock, untarredBytesCount>>

\* gzWriteCallback returned: true, the buffer counts as written and is reused;
\* false, whatever _error holds is returned.
Written ==
  /\ outlen' = outlen + output_position /\ output_position' = 0
  /\ UNCHANGED <<output_buffer, produced>>
  /\ Goto(IF res = TINF_OK THEN "inflate" ELSE "finish")
NotWritten(code) == Return(code)

\* (A bug: the position in the previous buffer is kept.)
KeptSlot == gzTarBlockPos
\* Where gzProcessTarBuffer starts in a buffer.
StartSlot == 0

\* gzProcessTarBuffer: head of the function.
ProcessNothing ==
  /\ pc = "write" /\ lastblock /\ Written
  /\ UNCHANGED <<vars, mode, gz, gzTarBlockPos, firstblock, lastblock,
                 untarredBytesCount, _error>>

ProcessFirst ==
  /\ pc = "write" /\ ~lastblock /\ firstblock
  /\ SetupOK(stream) /\ firstblock' = FALSE /\ gzTarBlockPos' = StartSlot /\ Goto("tar")
  /\ UNCHANGED <<mode, gz, locals, lastblock, untarredBytesCount, _error>>

ProcessNoHeap ==
  /\ pc = "write" /\ ~lastblock /\ firstblock
  /\ SetupNoHeap /\ NotWritten(_error)
  /\ UNCHANGED <<mode, gz, gzTarBlockPos, firstblock, lastblock, untarredBytesCount>>

ProcessNext ==
  /\ pc = "write" /\ ~lastblock /\ ~firstblock
  /\ gzTarBlockPos' = StartSlot /\ Goto("tar")
  /\ UNCHANGED <<vars, mode, gz, locals, firstblock, lastblock, untarredBytesCount, _error>>

\* (A bug: one slot ahead.)
FeedNext == output_buffer[(gzTarBlockPos + 1) % blockmod]
\* gzFeedTarBuffer: the block the tar machine gets, whatever the buffer holds.
Feed == output_buffer[gzTarBlockPos % blockmod]
\* tarStreamWriteCallback counts what it wrote.
CountWritten(ok) == untarredBytesCount' = untarredBytesCount + (IF ok THEN 1 ELSE 0)
WroteBlock == calls' # calls /\ calls' # <<>> /\ calls'[Len(calls')].cb = "write"
                /\ result' = TAR_OK

\* (A bug: one slot too many.)
SlotsLeftOrOne == gzTarBlockPos <= blockmod
\* while( gzTarBlockPos < blockmod )
SlotsLeft == gzTarBlockPos < blockmod

\* (A bug: the failure is not handed on.)
TarFailureDropped == ESP32_TARGZ_OK
\* What a failing read_tar_step makes of the call.
TarFailure == ESP32_TARGZ_TAR_ERR_GZREAD_FAIL

\* gzProcessTarBuffer: one turn of its loop.
ProcessStep ==
  /\ pc = "tar" /\ mode = "push" /\ SlotsLeft
  /\ ReadTarStep(Feed)
  /\ gzTarBlockPos' = gzTarBlockPos + (fed' - fed)
  /\ CountWritten(WroteBlock)
  /\ lastblock' = (result' = TAR_EXPANDING_DONE)
  /\ IF result' = TAR_EXPANDING_DONE THEN Written /\ UNCHANGED _error
     ELSE IF gzTarBlockPos' > blockmod \/ result' < 0 THEN NotWritten(TarFailure)
     ELSE Goto("tar") /\ UNCHANGED <<locals, _error>>
  /\ UNCHANGED <<mode, gz, firstblock>>

ProcessReturns ==
  /\ pc = "tar" /\ mode = "push" /\ ~SlotsLeft
  /\ Written
  /\ UNCHANGED <<vars, mode, gz, gzTarBlockPos, firstblock, lastblock, untarredBytesCount,
                 _error>>

-----------------------------------------------------------------------------
(***************************************************************************)
(* Pull mode. tarReadGzStream gives less than a block when the stream ends *)
(* or breaks; the code it stopped on is dropped.                           *)
(***************************************************************************)
MissedRead == tar_error' = TAR_ERR_READBLOCK_FAIL /\ tar_error = TAR_OK

PullStep ==
  /\ pc = "tar" /\ mode = "pull" /\ Called
  /\ \/ /\ ReadTarStep(produced + 1) /\ fed' <= Len(stream) /\ produced' = fed'
        /\ UNCHANGED <<res, readSourceErrors>>
     \/ ReadTarStep(Short) /\ MissedRead /\ Ends(FALSE) /\ UNCHANGED produced
  /\ CountWritten(WroteBlock) /\ Goto("tar")
  /\ UNCHANGED <<mode, stream, buffer, outlen, gzTarBlockPos, firstblock, lastblock, _error>>

\* while( read_tar_step() == TAR_OK ): why it stopped is not looked at.
PullEnds ==
  /\ pc = "tar" /\ mode = "pull" /\ ~Called
  /\ outlen' = untarredBytesCount /\ Goto("finish")
  /\ UNCHANGED <<vars, mode, gz, buffer, produced, gzTarBlockPos, firstblock, lastblock,
                 untarredBytesCount, _error>>

\* The end of gzUncompress, and what its caller makes of it.
Finish ==
  /\ pc = "finish"
  /\ Return(IF outlen > 0 THEN ESP32_TARGZ_OK ELSE ESP32_TARGZ_STREAM_ERROR)
  /\ UNCHANGED <<vars, mode, gz, gzTarBlockPos, firstblock, lastblock, untarredBytesCount>>

-----------------------------------------------------------------------------
GzStep ==
  \/ InflateBlock \/ \E torn \in BOOLEAN : InflateEnds(torn)
  \/ ProcessNothing \/ ProcessFirst \/ ProcessNoHeap \/ ProcessNext
  \/ ProcessStep \/ ProcessReturns
  \/ PullStep \/ PullEnds \/ Finish
GzNext ==
  \/ Restart \/ OpenFails \/ PullNoHeap \/ \E s \in Archives : Open(s)
  \/ GzStep
GzSpec == GzInit /\ [][GzNext]_allVars
\* The calling thread runs the call to its end.
GzFairSpec == GzSpec /\ WF_allVars(GzStep)

-----------------------------------------------------------------------------
\* gzFeedTarBuffer indexes the buffer modulo blockmod; the modulo never wraps, so
\* the tar machine never gets the same slot twice from one buffer. It holds because
\* a call of read_tar_step fires at most one read ("this may fire more than 1").
RingNeverWraps == gzTarBlockPos <= blockmod

\* The variables have their types, and the ring of blocks is not lapped.
GzTypeOK ==
  /\ RingNeverWraps
  /\ TypeOK
  /\ pc \in {"idle", "inflate", "write", "tar", "finish"} /\ mode \in {"push", "pull"}
  /\ stream \in Seq(Block) /\ produced \in 0..Len(stream)
  /\ res \in {TINF_OK, TINF_DONE, TINF_DATA_ERROR, TINF_CHKSUM_ERROR}
  /\ readSourceErrors \in BOOLEAN
  /\ output_buffer \in [0..blockmod-1 -> Int] /\ output_position \in 0..blockmod
  /\ outlen \in Nat /\ gzTarBlockPos \in Nat
  /\ firstblock \in BOOLEAN /\ lastblock \in BOOLEAN /\ untarredBytesCount \in Nat
  /\ _error \in Int /\ return_value \in Int

\* The blocks of a buffer the tar machine has not taken yet are the ones that
\* follow what it has taken: inflating over them never loses one.
NothingOverwritten ==
  pc = "inflate" /\ ~firstblock /\ ~lastblock => fed + output_position = produced

\* Where tar_step looks for a header: at block s[2], when it met s[1] empty ones; and where
\* it does after that.
Following(a, s) ==
  IF a[s[2]].named THEN <<s[1], s[2] + 1 + a[s[2]].blocks>> ELSE <<s[1] + 1, s[2] + 1>>
\* An archive is complete when this leads to a second empty header and never out of it.
Routes(a) ==
  {r \in SUBSET ({0, 1} \X (1..Len(a))) :
     <<0, 1>> \in r /\ \A s \in r : Following(a, s)[1] < 2 => Following(a, s) \in r}
Complete(a) == Routes(a) # {}
\* The headers of an archive and the number of its entries.
HeadersOf(a) == {s \in {0, 1} \X (1..Len(a)) : \A r \in Routes(a) : s \in r}
Named(a, S) == {s \in S : a[s[2]].named}
EntriesOf == [a \in Archives |-> Cardinality(Named(a, HeadersOf(a)))]

\* Push mode: whatever a callback refused or the source failed to give, a call that
\* returns ESP32_TARGZ_OK has expanded every entry of the stream (unless no memory was
\* left for the tar machine, or the stream is damaged: those do not reach the caller).
SuccessMeansExpanded ==
  pc = "idle" /\ mode = "push" /\ return_value = ESP32_TARGZ_OK =>
    firstblock \/ res = TINF_DATA_ERROR \/ entry_index = EntriesOf[stream]

\* The documented promise, in both modes and for all that may go wrong: 0 means that
\* no problem occurred, so that every entry was expanded.
OkMeansExpanded ==
  pc = "idle" /\ return_value = ESP32_TARGZ_OK => entry_index = EntriesOf[stream]

\* Push mode: while the stream decompresses and no callback refuses, the call has no
\* reason to fail, and does not; archives without data and wrong checksums included.
WholeStreamSucceeds ==
  /\ pc = "idle" /\ mode = "push" /\ ~firstblock /\ res # TINF_DATA_ERROR
  /\ tar_error = TAR_OK /\ result \in {TAR_OK, TAR_EXPANDING_DONE}
  /\ return_value \notin {NoReturn, ESP32_TARGZ_UZLIB_MALLOC_FAIL}
  => return_value = ESP32_TARGZ_OK

\* In both modes the tar machine, fed by the decompressor or feeding on it, remains the
\* reader of module TarReader: each of its steps is one of the reader's. Only a stream
\* that is damaged, which leaves a block torn, is beyond it.
Damaged == res' = TINF_DATA_ERROR /\ ~readSourceErrors'
ImplementsReaderUnlessDamaged == Reader!Init /\ [][~Damaged => Reader!Next]_Reader!readerVars

\* A call returns.
CallReturns == pc # "idle" ~> pc = "idle"
=============================================================================
