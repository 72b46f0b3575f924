------------------------ MODULE UnpackerSessionProofs ------------------------
(***************************************************************************)
(* Theorems about the calls of an unpacker one after another (module       *)
(* UnpackerSession), for every build, size of the buffers, number of       *)
(* chunks and set of operations.                                           *)
(***************************************************************************)
EXTENDS UnpackerSession, TLAPS

\* The conjuncts of SsTypeOK.
WriterTypes ==
  /\ gzWriteCallback \in {"nullptr", "user"} \cup {Writer(o) : o \in Operations}
  /\ output \in {"nullptr", "this call's", "a call's", "untarredFile"}
TarTypes ==
  /\ tarSink \in {"files", "partitions"}
  /\ firstblock \in BOOLEAN /\ lastblock \in BOOLEAN /\ reading \in BOOLEAN
SizeTypes ==
  /\ output_buffer_size \in 0..BuffBlocks
  /\ min_output_buffer_size \in 1..BuffBlocks /\ blockmod \in 1..BuffBlocks
CallTypes == board \in Boards /\ op \in Available \cup {"none"} /\ fits \in BOOLEAN
ResultTypes ==
  /\ _error \in Codes /\ res \in Codes /\ silent \in BOOLEAN
  /\ pc \in {"idle", "gzUncompress", "inflating", "ended"}
  /\ returned \in {"no", "none", "true", "false", "crash"}
Types == WriterTypes /\ TarTypes /\ SizeTypes /\ CallTypes /\ ResultTypes

\* A chunk is left or written.
Counted == left \in Nat /\ outlen \in Nat /\ left + outlen <= MaxChunks
Phases == (returned = "no" <=> pc # "idle") /\ (returned = "no" => op # "none")

\* What a call writes through is its own, and its handle is of this call; what tar writes to,
\* too.
Own(o) == IF o \in ToAny THEN "user" ELSE Writer(o)
Installed ==
  Running /\ fits => gzWriteCallback = Own(op) /\ (op \in ToFile => output = "this call's")
Armed == Running /\ op \in ToTar => tarSink = Main(op)

\* Where the first chunk goes; an archive has not ended before it.
First(o) == IF o \in ToFile THEN "its file" ELSE Main(o)
Wrote ==
  Running /\ fits =>
    /\ sinks \subseteq Right(op)
    /\ outlen > 0 \/ (op \in ToTar /\ lastblock) => First(op) \in sinks
Ended == pc = "ended" /\ res = ESP32_TARGZ_OK /\ ~silent => outlen > 0 /\ (left = 0 \/ Pull)

\* The buffer that tar is fed from, and the number of blocks that it is told.
Buffers ==
  /\ Running /\ op = "tarGzStreamExpander" /\ board # "ESP32" =>
       blockmod = 2 /\ min_output_buffer_size = 2
  /\ pc = "inflating" => output_buffer_size = BufferSize

IInv ==
  /\ Types /\ Counted /\ Phases /\ Installed /\ Armed /\ Wrote /\ Ended /\ Buffers
  /\ WritesWhereAsked /\ ReturnTells

USE DEF Running, Idle

-----------------------------------------------------------------------------
LEMMA Bounds == BuffBlocks \in Nat /\ BuffBlocks >= 2 /\ MaxChunks \in Nat
BY SessionAssumption

LEMMA CodesDiffer ==
  /\ {ESP32_TARGZ_STREAM_ERROR, ESP32_TARGZ_TAR_ERR_HEAP_TOO_LOW, ESP32_TARGZ_TAR_ERR_GZREAD_FAIL,
      ESP32_TARGZ_UZLIB_MALLOC_FAIL, OtherError} \subseteq Codes \ {ESP32_TARGZ_OK}
  /\ ESP32_TARGZ_OK \in Codes
BY DEF Codes, ESP32_TARGZ_OK, ESP32_TARGZ_STREAM_ERROR, ESP32_TARGZ_TAR_ERR_HEAP_TOO_LOW,
       ESP32_TARGZ_TAR_ERR_GZREAD_FAIL, ESP32_TARGZ_UZLIB_MALLOC_FAIL, OtherError

\* Every operation is of one kind.
LEMMA Kind ==
  ASSUME NEW o \in Operations
  PROVE  o \in ToFile \cup ToTar \cup ToUpdate \cup ToAny \cup ToClass
BY OperationsAssumption

LEMMA Writers ==
  ASSUME NEW o \in Operations
  PROVE  /\ Own(o) = "gzStreamWriteCallback" => o \in ToFile
         /\ Own(o) = "gzProcessTarBuffer" => o \in ToTar
         /\ Own(o) \in {"gzUpdateWriteCallback", "GzUpdateClass", "user"} =>
              Other(Own(o)) = Main(o) /\ Main(o) \in Right(o) /\ First(o) = Main(o) /\ o \notin ToTar
         /\ o \in ToFile => First(o) = "its file" /\ First(o) \in Right(o)
         /\ o \in ToTar => First(o) = Main(o) /\ Right(o) = {Main(o), "nowhere"}
BY Kind DEF Own, Writer, Other, Main, First, Right, ToFile, ToTar, ToUpdate, ToAny, ToClass

\* An operation that is available is one of them, and to file, to tar or neither.
LEMMA OpAvailable ==
  ASSUME CallTypes, op # "none"
  PROVE  op \in Operations
BY DEF CallTypes, Available

\* A call that has returned: what it wrote and what it tells is all that counts.
LEMMA IdleIInv ==
  ASSUME Types', Counted', pc' = "idle", returned' # "no", WritesWhereAsked', ReturnTells'
  PROVE  IInv'
BY DEF IInv, Phases, Installed, Armed, Wrote, Ended, Buffers

LEMMA InitIInv == Init => IInv
<1> SUFFICES ASSUME Init PROVE IInv
  OBVIOUS
<1>1. Types
  <2>1. WriterTypes /\ TarTypes
    BY Zenon DEF Init, WriterTypes, TarTypes
  <2>2. SizeTypes
    BY Bounds DEF Init, SizeTypes
  <2>3. CallTypes
    BY Zenon DEF Init, CallTypes
  <2>4. ResultTypes
    BY CodesDiffer, Zenon DEF Init, ResultTypes
  <2>5. QED
    BY <2>1, <2>2, <2>3, <2>4 DEF Types
<1>2. Counted
  BY Bounds DEF Init, Counted
<1>3. Phases /\ Installed /\ Armed /\ Wrote /\ Ended /\ Buffers
  BY DEF Init, Phases, Installed, Armed, Wrote, Ended, Buffers
<1>4. WritesWhereAsked /\ ReturnTells
  BY DEF Init, WritesWhereAsked, ReturnTells, TrueMeansWritten, FalseMeansError
<1>5. QED
  BY <1>1, <1>2, <1>3, <1>4 DEF IInv

-----------------------------------------------------------------------------
(***************************************************************************)
(* Between calls, and the start of one.                                    *)
(***************************************************************************)
\* A caller that has seen the result, and a restart.
LEMMA ForgetsIInv ==
  ASSUME IInv, Forgets, pc = "idle", WriterTypes', TarTypes', SizeTypes', _error' \in Codes
  PROVE  IInv'
<1>1. CallTypes'
  BY Zenon DEF IInv, Types, CallTypes, Forgets, Available
<1>2. ResultTypes'
  BY CodesDiffer, Zenon DEF IInv, Types, ResultTypes, Forgets
<1>3. Types'
  BY <1>1, <1>2 DEF Types
<1>4. Counted'
  BY Bounds DEF Forgets, Counted
<1>5. pc' = "idle" /\ returned' = "none"
  BY DEF Forgets
<1>6. WritesWhereAsked' /\ ReturnTells'
  BY DEF Forgets, WritesWhereAsked, ReturnTells, TrueMeansWritten, FalseMeansError
<1>7. QED
  BY <1>3, <1>4, <1>5, <1>6, IdleIInv

LEMMA BetweenIInv ==
  ASSUME IInv, Forget \/ Reboot \/ NewUnpacker \/ (\E cb \in {"user", "nullptr"} : SetStreamWriter(cb))
  PROVE  IInv'
<1>1. Types /\ Phases
  BY DEF IInv
<1>2. CASE Forget
  <2>1. pc = "idle"
    BY <1>1, <1>2 DEF Forget, Phases
  <2>2. WriterTypes' /\ TarTypes' /\ SizeTypes' /\ _error' \in Codes
    BY <1>1, <1>2, Zenon DEF Forget, writer, tar, sizes, Types, WriterTypes, TarTypes, SizeTypes, ResultTypes
  <2>3. QED
    BY <1>2, <2>1, <2>2, ForgetsIInv DEF Forget
<1>3. CASE Reboot
  <2>1. pc = "idle"
    BY <1>1, <1>3 DEF Reboot, Phases
  <2>2. WriterTypes' /\ TarTypes'
    BY <1>3, Zenon DEF Reboot, WriterTypes, TarTypes
  <2>3. SizeTypes'
    BY <1>3, Bounds DEF Reboot, SizeTypes
  <2>4. _error' \in Codes
    BY <1>3, CodesDiffer, Zenon DEF Reboot
  <2>5. QED
    BY <1>3, <2>1, <2>2, <2>3, <2>4, ForgetsIInv DEF Reboot
\* Nothing else than the globals changes: op stays "none", and nothing is returned.
<1>4. ASSUME Idle, WriterTypes', TarTypes', SizeTypes', _error' \in Codes,
             UNCHANGED <<call, pc, progress, res, returned>>
      PROVE  IInv'
  <2>1. CallTypes'
    BY <1>1, <1>4, Zenon DEF Types, CallTypes, call, Available
  <2>2. ResultTypes'
    BY <1>1, <1>4, Zenon DEF Types, ResultTypes, progress
  <2>3. Types'
    BY <1>4, <2>1, <2>2 DEF Types
  <2>4. Counted'
    BY <1>4 DEF Counted, IInv, progress
  <2>5. pc' = "idle" /\ returned' = "none"
    BY <1>1, <1>4 DEF Phases
  <2>6. sinks' \subseteq Right(op') \/ ~fits'
    BY <1>4, Zenon DEF IInv, WritesWhereAsked, call, progress
  <2>7. WritesWhereAsked' /\ ReturnTells'
    BY <2>5, <2>6 DEF WritesWhereAsked, ReturnTells, TrueMeansWritten, FalseMeansError
  <2>8. QED
    BY <2>3, <2>4, <2>5, <2>7, IdleIInv
<1>5. CASE NewUnpacker
  <2>1. WriterTypes' /\ TarTypes' /\ _error' \in Codes
    BY <1>1, <1>5, CodesDiffer, Zenon DEF NewUnpacker, writer, tar, Types, WriterTypes, TarTypes
  <2>2. SizeTypes'
    BY <1>1, <1>5, Bounds DEF NewUnpacker, Types, SizeTypes
  <2>3. QED
    BY <1>4, <1>5, <2>1, <2>2 DEF NewUnpacker
<1>6. ASSUME NEW cb \in {"user", "nullptr"}, SetStreamWriter(cb)
      PROVE  IInv'
  <2>1. WriterTypes' /\ TarTypes' /\ SizeTypes' /\ _error' \in Codes
    BY <1>1, <1>6, Zenon DEF SetStreamWriter, tar, sizes, Types, WriterTypes, TarTypes, SizeTypes, ResultTypes
  <2>2. QED
    BY <1>4, <1>6, <2>1 DEF SetStreamWriter
<1>7. QED
  BY <1>2, <1>3, <1>5, <1>6

\* What a call that begins finds, and what it installs.
LEMMA Minimum ==
  ASSUME SizeTypes, NEW o, NEW free \in 0..(BuffBlocks + 1)
  PROVE  /\ MinimumOf(free) \in 1..BuffBlocks /\ MinimumAtStart(o, free) \in 1..BuffBlocks
         /\ BlockmodAtStart(o) \in 1..BuffBlocks
BY Bounds DEF SizeTypes, MinimumOf, Capped, MinimumAtStart, BlockmodAtStart

LEMMA BeginsTypes ==
  ASSUME Types, NEW o \in Available, NEW free, Begins(o, free)
  PROVE  /\ CallTypes' /\ reading' \in BOOLEAN /\ output_buffer_size' \in 0..BuffBlocks
         /\ outlen' = 0 /\ sinks' = {} /\ op' = o /\ board' = board /\ fits' = Fits(o)
         /\ o \in Operations /\ o # "none"
<1>1. o \in Operations
  BY DEF Available
<1>2. o # "none"
  BY <1>1, Kind DEF ToFile, ToTar, ToUpdate, ToAny, ToClass
<1>3. Fits(o) \in BOOLEAN
  BY Zenon DEF Fits
<1>4. /\ op' = o /\ board' = board /\ fits' = Fits(o) /\ outlen' = 0 /\ sinks' = {}
      /\ reading' = reading /\ output_buffer_size' = output_buffer_size
  BY DEF Begins
<1>5. CallTypes'
  BY <1>3, <1>4, Zenon DEF Types, CallTypes, Available
<1>6. reading' \in BOOLEAN
  BY <1>4, Zenon DEF Types, TarTypes
<1>7. output_buffer_size' \in 0..BuffBlocks
  BY <1>4 DEF Types, SizeTypes
<1>8. QED
  BY <1>1, <1>2, <1>4, <1>5, <1>6, <1>7

LEMMA InstallsTypes ==
  ASSUME Types, NEW o \in Operations, NEW free \in 0..(BuffBlocks + 1), Installs(o, free)
  PROVE  /\ gzWriteCallback' \in {"nullptr", "user"} \cup {Writer(k) : k \in Operations}
         /\ tarSink' = SinkAtStart(o) /\ tarSink' \in {"files", "partitions"}
         /\ firstblock' \in BOOLEAN /\ lastblock' \in BOOLEAN /\ lastblock' = LastblockAtStart(o)
         /\ min_output_buffer_size' = MinimumAtStart(o, free)
         /\ min_output_buffer_size' \in 1..BuffBlocks
<1>1. gzWriteCallback' \in {"nullptr", "user"} \cup {Writer(k) : k \in Operations}
  <2>1. gzWriteCallback' = Writer(o) \/ gzWriteCallback' = gzWriteCallback
    BY Zenon DEF Installs
  <2>2. QED
    BY <2>1, Zenon DEF Types, WriterTypes
<1>2. tarSink' = SinkAtStart(o) /\ tarSink' \in {"files", "partitions"}
  BY DEF Installs, SinkAtStart, Types, TarTypes
<1>3. firstblock' \in BOOLEAN /\ lastblock' \in BOOLEAN /\ lastblock' = LastblockAtStart(o)
  BY Zenon DEF Installs, LastblockAtStart, Types, TarTypes
<1>4. min_output_buffer_size' = MinimumAtStart(o, free) /\ MinimumAtStart(o, free) \in 1..BuffBlocks
  BY Minimum DEF Installs, Types
<1>5. QED
  BY <1>1, <1>2, <1>3, <1>4

\* The call goes through its own callback, if it fits, to the handle that it has opened.
LEMMA InstallsOwn ==
  ASSUME NEW o \in Operations, NEW free, Installs(o, free), Fits(o)
  PROVE  gzWriteCallback' = Own(o)
<1>1. gzWriteCallback' = IF Replaces(o) \/ gzWriteCallback = "nullptr" THEN Writer(o)
                         ELSE gzWriteCallback
  BY DEF Installs
<1>2. CASE o \in ToAny
  <2>1. gzWriteCallback = "user"
    BY <1>2, Zenon DEF Fits
  <2>2. ~Replaces(o)
    BY <1>2 DEF Replaces, ToAny, ToUpdate
  <2>3. QED
    BY <1>1, <1>2, <2>1, <2>2 DEF Own
<1>3. CASE o \notin ToAny
  BY <1>1, <1>3, Zenon DEF Fits, Own
<1>4. QED
  BY <1>2, <1>3

LEMMA SinkIsMain ==
  ASSUME NEW o \in ToTar
  PROVE  SinkAtStart(o) = Main(o)
<1>1. CASE o = "tarGzStreamUpdater"
  <2>1. o \notin {"gzExpander", "gzStreamExpander"} /\ o # "tarGzExpander"
        /\ o \notin ToTar \ {"tarGzStreamUpdater"}
        /\ o \notin ToUpdate /\ o \notin ToClass /\ o \notin ToAny /\ o # "none"
    BY <1>1 DEF ToUpdate, ToClass, ToAny
  <2>2. Main(o) = "partitions"
    BY <1>1, <2>1, Zenon DEF Main
  <2>3. QED
    BY <1>1, <2>2 DEF SinkAtStart
<1>2. CASE o # "tarGzStreamUpdater"
  <2>1. o \notin {"gzExpander", "gzStreamExpander"} /\ o \in ToTar \ {"tarGzStreamUpdater"}
        /\ o \notin ToUpdate /\ o \notin ToClass /\ o \notin ToAny /\ o # "none"
    BY <1>2 DEF ToTar, ToUpdate, ToClass, ToAny
  <2>2. Main(o) = "files"
    BY <2>1, Zenon DEF Main
  <2>3. QED
    BY <1>2, <2>2 DEF SinkAtStart
<1>3. QED
  BY <1>1, <1>2

LEMMA StartIInv ==
  ASSUME IInv, NEW o \in Available, NEW free \in 0..(BuffBlocks + 1), NEW chunks \in 0..MaxChunks,
         Start(o, chunks, free)
  PROVE  IInv'
<1>1. /\ Begins(o, free) /\ Installs(o, free) /\ pc' = "gzUncompress" /\ returned' = "no"
      /\ output' = IF o \in ToFile THEN "this call's" ELSE output
      /\ blockmod' = BlockmodAtStart(o) /\ _error' = ErrorAtStart(o)
      /\ left' = chunks /\ silent' = FALSE /\ res' = ESP32_TARGZ_OK
  BY Zenon DEF Start
<1>2. Types
  BY DEF IInv
<1>3. /\ CallTypes' /\ reading' \in BOOLEAN /\ output_buffer_size' \in 0..BuffBlocks
      /\ outlen' = 0 /\ sinks' = {} /\ op' = o /\ board' = board /\ fits' = Fits(o)
      /\ o \in Operations /\ o # "none"
  BY <1>1, <1>2, BeginsTypes
<1>4. /\ gzWriteCallback' \in {"nullptr", "user"} \cup {Writer(k) : k \in Operations}
      /\ tarSink' = SinkAtStart(o) /\ tarSink' \in {"files", "partitions"}
      /\ firstblock' \in BOOLEAN /\ lastblock' \in BOOLEAN /\ lastblock' = LastblockAtStart(o)
      /\ min_output_buffer_size' = MinimumAtStart(o, free)
      /\ min_output_buffer_size' \in 1..BuffBlocks
  BY <1>1, <1>2, <1>3, InstallsTypes
<1>5. WriterTypes'
  BY <1>1, <1>2, <1>4, Zenon DEF Types, WriterTypes
<1>6. TarTypes'
  BY <1>3, <1>4, Zenon DEF TarTypes
<1>7. SizeTypes'
  BY <1>1, <1>2, <1>3, <1>4, Minimum DEF SizeTypes, Types
<1>8. ResultTypes'
  <2>1. _error' \in Codes /\ res' \in Codes
    BY <1>1, <1>2, CodesDiffer, Zenon DEF ErrorAtStart, ClearError, Types, ResultTypes
  <2>2. QED
    BY <1>1, <2>1, Zenon DEF ResultTypes
<1>9. Types'
  BY <1>3, <1>5, <1>6, <1>7, <1>8 DEF Types
<1>10. Counted'
  <2>1. left' = chunks /\ outlen' = 0
    BY <1>1, <1>3, Zenon
  <2>2. QED
    BY <2>1, Bounds DEF Counted
<1>11. Phases'
  BY <1>1, <1>3, Zenon DEF Phases
<1>12. Installed'
  <2>1. fits' => gzWriteCallback' = Own(o)
    BY <1>1, <1>3, InstallsOwn
  <2>2. QED
    BY <1>1, <1>3, <2>1, Zenon DEF Installed, Own
<1>13. Armed'
  BY <1>3, <1>4, SinkIsMain, Zenon DEF Armed
<1>14. Wrote'
  <2>1. ~(outlen' > 0)
    BY <1>3
  <2>2. ~(op' \in ToTar /\ lastblock')
    BY <1>3, <1>4, Zenon DEF LastblockAtStart
  <2>3. QED
    BY <1>3, <2>1, <2>2 DEF Wrote
<1>15. Ended'
  BY <1>1 DEF Ended
<1>16. Buffers'
  BY <1>1, <1>3, <1>4 DEF Buffers, BlockmodAtStart, MinimumAtStart
<1>17. WritesWhereAsked' /\ ReturnTells'
  BY <1>1, <1>3 DEF WritesWhereAsked, ReturnTells, TrueMeansWritten, FalseMeansError
<1>18. QED
  BY <1>9, <1>10, <1>11, <1>12, <1>13, <1>14, <1>15, <1>16, <1>17, Zenon DEF IInv

\* A call that is refused.
LEMMA RefusedIInv ==
  ASSUME IInv, NEW o \in Available, NEW free \in 0..(BuffBlocks + 1), Begins(o, free),
         WriterTypes', TarTypes', SizeTypes', _error' \in Codes, res' \in Codes,
         silent' \in BOOLEAN, returned' = "false", pc' = "idle", left' = 0,
         o \in ToClass \/ _error' # ESP32_TARGZ_OK
           \/ (o = "gzStreamExpander" /\ silent' /\ res' = ESP32_TARGZ_OK)
  PROVE  IInv'
<1>1. /\ CallTypes' /\ outlen' = 0 /\ sinks' = {} /\ op' = o
  BY BeginsTypes DEF IInv
<1>2. ResultTypes'
  BY Zenon DEF ResultTypes
<1>3. Types'
  BY <1>1, <1>2 DEF Types
<1>4. Counted'
  BY <1>1, Bounds DEF Counted
<1>5. WritesWhereAsked'
  BY <1>1 DEF WritesWhereAsked
<1>6. FalseMeansError'
  BY <1>1, Zenon DEF FalseMeansError
<1>7. ReturnTells'
  BY <1>6 DEF ReturnTells, TrueMeansWritten
<1>8. QED
  BY <1>3, <1>4, <1>5, <1>7, IdleIInv

LEMMA RefusesStartIInv ==
  ASSUME IInv, NEW o \in Available, NEW free \in 0..(BuffBlocks + 1),
         NEW code \in {ESP32_TARGZ_OK, OtherError}, RefusesStart(o, free, code)
  PROVE  IInv'
<1>1. /\ code = ESP32_TARGZ_OK => o = "gzStreamExpander"
      /\ Begins(o, free) /\ min_output_buffer_size' = MinimumOf(free)
      /\ _error' = (IF code = ESP32_TARGZ_OK THEN code ELSE Refusal(o))
      /\ res' = code /\ silent' = (code = ESP32_TARGZ_OK)
      /\ returned' = "false" /\ pc' = "idle" /\ left' = 0
      /\ UNCHANGED <<writer, tarSink, firstblock, lastblock, blockmod>>
  BY Zenon DEF RefusesStart
<1>2. reading' = reading /\ output_buffer_size' = output_buffer_size
  BY <1>1 DEF Begins
<1>3. WriterTypes' /\ TarTypes'
  BY <1>1, <1>2, Zenon DEF IInv, Types, WriterTypes, TarTypes, writer
<1>4. SizeTypes'
  BY <1>1, <1>2, Minimum DEF IInv, Types, SizeTypes
<1>5. _error' \in Codes /\ res' \in Codes /\ silent' \in BOOLEAN
  BY <1>1, CodesDiffer, Zenon DEF IInv, Types, ResultTypes, Refusal
<1>6. \/ o \in ToClass \/ _error' # ESP32_TARGZ_OK
      \/ (o = "gzStreamExpander" /\ silent' /\ res' = ESP32_TARGZ_OK)
  BY <1>1, CodesDiffer, Zenon DEF Refusal
<1>7. QED
  BY <1>1, <1>3, <1>4, <1>5, <1>6, RefusedIInv

LEMMA RefusesInstalledIInv ==
  ASSUME IInv, NEW o \in Available, RefusesInstalled(o)
  PROVE  IInv'
<1>1. /\ Begins(o, 0) /\ Installs(o, 0) /\ _error' = Refusal(o) /\ res' = OtherError /\ silent' = FALSE
      /\ returned' = "false" /\ pc' = "idle" /\ left' = 0 /\ UNCHANGED <<output, blockmod>>
  BY Zenon DEF RefusesInstalled
<1>2. Types /\ o \in Operations /\ 0 \in 0..(BuffBlocks + 1)
  BY Bounds DEF IInv, Available
<1>3. /\ gzWriteCallback' \in {"nullptr", "user"} \cup {Writer(k) : k \in Operations}
      /\ tarSink' \in {"files", "partitions"} /\ firstblock' \in BOOLEAN /\ lastblock' \in BOOLEAN
      /\ min_output_buffer_size' \in 1..BuffBlocks
  BY <1>1, <1>2, InstallsTypes
<1>4. reading' = reading /\ output_buffer_size' = output_buffer_size
  BY <1>1 DEF Begins
<1>5. WriterTypes' /\ TarTypes'
  BY <1>1, <1>2, <1>3, <1>4, Zenon DEF Types, WriterTypes, TarTypes
<1>6. SizeTypes'
  BY <1>1, <1>2, <1>3, <1>4 DEF Types, SizeTypes
<1>7. _error' \in Codes /\ res' \in Codes /\ silent' \in BOOLEAN
  BY <1>1, <1>2, CodesDiffer, Zenon DEF Types, ResultTypes, Refusal
<1>8. o \in ToClass \/ _error' # ESP32_TARGZ_OK
  BY <1>1, CodesDiffer, Zenon DEF Refusal
<1>9. QED
  BY <1>1, <1>2, <1>5, <1>6, <1>7, <1>8, RefusedIInv

-----------------------------------------------------------------------------
(***************************************************************************)
(* gzUncompress.                                                           *)
(***************************************************************************)
\* A step of a call that goes on.
LEMMA StepIInv ==
  ASSUME IInv, Running, returned' = "no", pc' # "idle", Types', Counted', Wrote', Ended',
         UNCHANGED <<gzWriteCallback, call, tarSink, min_output_buffer_size>>,
         fits /\ op \in ToFile => output' = output,
         Pull \/ blockmod' = blockmod,
         pc' = "inflating" => output_buffer_size' = BufferSize'
  PROVE  IInv'
<1>1. op' = op /\ board' = board /\ fits' = fits
  BY DEF call
<1>2. Phases'
  BY <1>1 DEF IInv, Phases
<1>3. Installed' /\ Armed'
  BY <1>1, Zenon DEF IInv, Installed, Armed, Own
<1>4. Buffers'
  BY <1>1 DEF IInv, Buffers, Pull
<1>5. WritesWhereAsked'
  BY Zenon DEF Wrote, WritesWhereAsked
<1>6. ReturnTells'
  BY DEF ReturnTells, TrueMeansWritten, FalseMeansError
<1>7. QED
  BY <1>2, <1>3, <1>4, <1>5, <1>6, Zenon DEF IInv

LEMMA OneTaken ==
  ASSUME Counted, left > 0, left' = left - 1, outlen' = outlen + 1
  PROVE  Counted'
BY Bounds DEF Counted

\* A chunk is taken, and goes where it should.
LEMMA TookIInv ==
  ASSUME IInv, pc = "inflating", left > 0, NEW sink, Took(sink),
         UNCHANGED <<gzWriteCallback, sizes, call, tarSink, _error>>,
         output' \in {"nullptr", "this call's", "a call's", "untarredFile"}, TarTypes',
         fits /\ op \in ToFile => output' = output,
         fits => sink \in Right(op) /\ First(op) \in sinks \cup {sink}
  PROVE  IInv'
<1>1. /\ left' = left - 1 /\ outlen' = outlen + 1 /\ sinks' = sinks \cup {sink}
      /\ silent' = silent /\ pc' = pc /\ res' = res /\ returned' = returned
  BY DEF Took
<1>2. Types /\ Running
  BY DEF IInv, Phases
<1>3. op' = op /\ board' = board /\ fits' = fits
  BY DEF call
<1>4. Types'
  <2>1. WriterTypes' /\ SizeTypes' /\ CallTypes'
    BY <1>2, <1>3, Zenon DEF Types, WriterTypes, SizeTypes, CallTypes, Available, sizes
  <2>2. ResultTypes'
    BY <1>1, <1>2, Zenon DEF Types, ResultTypes
  <2>3. QED
    BY <2>1, <2>2 DEF Types
<1>5. Counted'
  <2>1. left' = left - 1 /\ outlen' = outlen + 1
    BY <1>1, Zenon
  <2>2. QED
    BY <2>1, OneTaken, Zenon DEF IInv
<1>6. Wrote'
  BY <1>1, <1>2, <1>3, Zenon DEF IInv, Wrote
<1>7. Ended'
  BY <1>1 DEF Ended
<1>8. output_buffer_size' = BufferSize' /\ blockmod' = blockmod /\ min_output_buffer_size' = min_output_buffer_size
  BY <1>3, Zenon DEF IInv, Buffers, BufferSize, sizes
<1>9. returned' = "no" /\ pc' # "idle"
  BY <1>1, <1>2
<1>10. QED
  BY <1>2, <1>4, <1>5, <1>6, <1>7, <1>8, <1>9, StepIInv

\* gzUncompress ends, whatever for.
LEMMA EndsIInv ==
  ASSUME IInv, pc = "inflating", NEW code \in Codes, Ends(code),
         UNCHANGED <<gzWriteCallback, sizes, call, tarSink, lastblock>>,
         output' \in {"nullptr", "this call's", "a call's", "untarredFile"}, TarTypes',
         _error' \in Codes, silent' \in BOOLEAN,
         fits /\ op \in ToFile => output' = output,
         code = ESP32_TARGZ_OK /\ ~silent' => outlen > 0 /\ (left = 0 \/ Pull)
  PROVE  IInv'
<1>1. /\ res' = code /\ pc' = "ended" /\ left' = left /\ outlen' = outlen /\ sinks' = sinks
      /\ returned' = returned
  BY DEF Ends
<1>2. Types /\ Running
  BY DEF IInv, Phases
<1>3. op' = op /\ board' = board /\ fits' = fits
  BY DEF call
<1>4. Types'
  <2>1. WriterTypes' /\ SizeTypes' /\ CallTypes'
    BY <1>2, <1>3, Zenon DEF Types, WriterTypes, SizeTypes, CallTypes, Available, sizes
  <2>2. ResultTypes'
    BY <1>1, <1>2, Zenon DEF Types, ResultTypes
  <2>3. QED
    BY <2>1, <2>2 DEF Types
<1>5. Counted'
  BY <1>1 DEF IInv, Counted
<1>6. Wrote'
  BY <1>1, <1>2, <1>3, Zenon DEF IInv, Wrote
<1>7. Ended'
  BY <1>1, <1>3, Zenon DEF Ended, Pull
<1>8. blockmod' = blockmod /\ min_output_buffer_size' = min_output_buffer_size
  BY Zenon DEF sizes
<1>9. returned' = "no" /\ pc' # "idle" /\ pc' # "inflating"
  BY <1>1, <1>2
<1>10. QED
  BY <1>2, <1>4, <1>5, <1>6, <1>7, <1>8, <1>9, StepIInv

\* The call returns before it has inflated anything, or goes on to.
LEMMA HeadIInv ==
  ASSUME IInv,
         \/ SourceGone \/ Inflates
         \/ \E code \in {ESP32_TARGZ_UZLIB_MALLOC_FAIL, OtherError} : CannotInflate(code)
  PROVE  IInv'
<1>1. Types /\ Counted /\ (pc = "gzUncompress" => Running)
  BY DEF IInv, Phases
<1>2. ASSUME pc = "gzUncompress", UNCHANGED <<writer, tar, sizes, _error, call, progress, returned>>,
             pc' = "ended", NEW code \in Codes, code # ESP32_TARGZ_OK, res' = code
      PROVE  IInv'
  <2>1. op' = op /\ board' = board /\ fits' = fits
    BY <1>2 DEF call
  <2>2. WriterTypes' /\ TarTypes' /\ SizeTypes' /\ CallTypes'
    BY <1>1, <1>2, <2>1, Zenon
       DEF Types, WriterTypes, TarTypes, SizeTypes, CallTypes, Available, writer, tar, sizes
  <2>3. ResultTypes'
    BY <1>1, <1>2, Zenon DEF Types, ResultTypes, progress
  <2>4. Types'
    BY <2>2, <2>3 DEF Types
  <2>5. Counted'
    BY <1>1, <1>2, Zenon DEF Counted, progress
  <2>6. Wrote'
    BY <1>1, <1>2, <2>1, Zenon DEF IInv, Wrote, progress, tar
  <2>7. Ended'
    BY <1>2, Zenon DEF Ended
  <2>8. returned' = "no" /\ pc' # "idle" /\ pc' # "inflating"
    BY <1>1, <1>2
  <2>9. UNCHANGED <<gzWriteCallback, call, tarSink, min_output_buffer_size>> /\ output' = output
        /\ blockmod' = blockmod
    BY <1>2, Zenon DEF writer, tar, sizes
  <2>10. QED
    BY <1>1, <1>2, <2>4, <2>5, <2>6, <2>7, <2>8, <2>9, StepIInv
<1>3. CASE SourceGone
  BY <1>2, <1>3, CodesDiffer DEF SourceGone
<1>4. ASSUME NEW code \in {ESP32_TARGZ_UZLIB_MALLOC_FAIL, OtherError}, CannotInflate(code)
      PROVE  IInv'
  <2>1. code \in Codes /\ code # ESP32_TARGZ_OK
    BY CodesDiffer
  <2>2. QED
    BY <1>2, <1>4, <2>1, Zenon DEF CannotInflate
<1>5. CASE Inflates
  <2>1. /\ pc = "gzUncompress" /\ pc' = "inflating" /\ output_buffer_size' = BufferSize
        /\ blockmod' = IF Pull THEN BufferSize ELSE blockmod
        /\ firstblock' = (firstblock /\ ~Pull) /\ reading' = (reading \/ Pull)
        /\ UNCHANGED <<writer, tarSink, lastblock, min_output_buffer_size, _error, call, progress,
                       res, returned>>
    BY <1>5, Zenon DEF Inflates
  <2>2. op' = op /\ board' = board /\ fits' = fits
    BY <2>1 DEF call
  <2>3. WriterTypes' /\ TarTypes' /\ CallTypes'
    BY <1>1, <2>1, <2>2, Zenon DEF Types, WriterTypes, TarTypes, CallTypes, Available, writer
  <2>4. SizeTypes' /\ BufferSize' = BufferSize
    BY <1>1, <2>1, <2>2, Bounds DEF Types, SizeTypes, BufferSize
  <2>5. ResultTypes'
    BY <1>1, <2>1, Zenon DEF Types, ResultTypes, progress
  <2>6. Types'
    BY <2>3, <2>4, <2>5 DEF Types
  <2>7. Counted'
    BY <1>1, <2>1, Zenon DEF Counted, progress
  <2>8. Wrote'
    BY <1>1, <2>1, <2>2, Zenon DEF IInv, Wrote, progress
  <2>9. Ended'
    BY <2>1 DEF Ended
  <2>10. /\ returned' = "no" /\ pc' # "idle" /\ output' = output
         /\ UNCHANGED <<gzWriteCallback, call, tarSink, min_output_buffer_size>>
         /\ Pull \/ blockmod' = blockmod
    BY <1>1, <2>1 DEF writer
  <2>11. QED
    BY <1>1, <2>1, <2>4, <2>6, <2>7, <2>8, <2>9, <2>10, StepIInv
<1>6. QED
  BY <1>3, <1>4, <1>5

\* A call returns: what it has written is where it should be; it has an error, or its stream
\* is written.
LEMMA ReturnsIInv ==
  ASSUME IInv, Running, NEW result \in {"true", "false", "crash"}, returned' = result, pc' = "idle",
         WriterTypes', TarTypes', SizeTypes', _error' \in Codes, res' \in Codes,
         UNCHANGED <<call, left, outlen, silent>>,
         fits => sinks' \subseteq Right(op) /\ result # "crash",
         fits /\ result = "true" /\ ~silent => Main(op) \in sinks' /\ (left = 0 \/ Pull),
         result = "false" => _error' # ESP32_TARGZ_OK \/ op \in ToClass
  PROVE  IInv'
<1>1. op' = op /\ board' = board /\ fits' = fits
  BY DEF call
<1>2. Types'
  <2>1. CallTypes'
    BY <1>1, Zenon DEF IInv, Types, CallTypes, Available
  <2>2. ResultTypes'
    BY Zenon DEF IInv, Types, ResultTypes
  <2>3. QED
    BY <2>1, <2>2 DEF Types
<1>3. Counted'
  BY Zenon DEF IInv, Counted
<1>4. WritesWhereAsked'
  BY <1>1, Zenon DEF WritesWhereAsked
<1>5. fits' => TrueMeansWritten'
  BY <1>1, Zenon DEF TrueMeansWritten, Pull
<1>6. FalseMeansError'
  BY <1>1, Zenon DEF FalseMeansError
<1>7. ReturnTells'
  BY <1>5, <1>6, Zenon DEF ReturnTells
<1>8. returned' # "no"
  OBVIOUS
<1>9. QED
  BY <1>2, <1>3, <1>4, <1>7, <1>8, IdleIInv

LEMMA LeftTypes ==
  ASSUME WriterTypes
  PROVE  Left(output) \in {"nullptr", "a call's", "untarredFile"}
BY DEF Left, WriterTypes

LEMMA PullNoHeapIInv ==
  ASSUME IInv, PullNoHeap
  PROVE  IInv'
<1>1. /\ pc = "gzUncompress" /\ Pull /\ output_buffer_size' = BufferSize /\ blockmod' = BufferSize
      /\ firstblock' = FALSE /\ _error' = ESP32_TARGZ_TAR_ERR_HEAP_TOO_LOW
      /\ res' = ESP32_TARGZ_TAR_ERR_HEAP_TOO_LOW
      /\ returned' = "false" /\ pc' = "idle" /\ output' = Left(output)
      /\ UNCHANGED <<gzWriteCallback, tarSink, lastblock, reading, min_output_buffer_size, call, progress>>
  BY Zenon DEF PullNoHeap, Returns
<1>2. Types /\ Running
  BY <1>1 DEF IInv, Phases
<1>3. WriterTypes'
  BY <1>1, <1>2, LeftTypes, Zenon DEF Types, WriterTypes
<1>4. TarTypes'
  BY <1>1, <1>2, Zenon DEF Types, TarTypes
<1>5. SizeTypes'
  BY <1>1, <1>2, Bounds DEF Types, SizeTypes, BufferSize
<1>6. _error' \in Codes /\ res' \in Codes /\ _error' # ESP32_TARGZ_OK
  BY <1>1, CodesDiffer
<1>7. fits => sinks' \subseteq Right(op)
  BY <1>1, <1>2, Zenon DEF IInv, Wrote, progress
<1>8. UNCHANGED <<call, left, outlen, silent>>
  BY <1>1 DEF progress
<1>9. QED
  BY <1>1, <1>2, <1>3, <1>4, <1>5, <1>6, <1>7, <1>8, ReturnsIInv

\* What a call may write to, by the callback that is called.
LEMMA Callback ==
  ASSUME IInv, pc = "inflating"
  PROVE  /\ Running /\ Types /\ op \in Operations
         /\ fits => gzWriteCallback = Own(op)
         /\ fits /\ gzWriteCallback = "gzStreamWriteCallback" => op \in ToFile /\ output = "this call's"
         /\ fits /\ gzWriteCallback = "gzProcessTarBuffer" => op \in ToTar
<1>1. Running /\ Types /\ op # "none"
  BY DEF IInv, Phases
<1>2. op \in Operations
  BY <1>1, OpAvailable DEF Types
<1>3. fits => gzWriteCallback = Own(op) /\ (op \in ToFile => output = "this call's")
  BY <1>1, Zenon DEF IInv, Installed
<1>4. QED
  BY <1>1, <1>2, <1>3, Writers, Zenon

LEMMA StreamWriteIInv ==
  ASSUME IInv, StreamWrite \/ StreamWriteNowhere
  PROVE  IInv'
<1>1. CASE StreamWrite
  <2>1. /\ pc = "inflating" /\ left > 0 /\ gzWriteCallback = "gzStreamWriteCallback"
        /\ UNCHANGED <<gzWriteCallback, sizes, call>> /\ UNCHANGED tar /\ output' = output
    BY <1>1 DEF StreamWrite, Writing, Inflating
  <2>2. /\ Running /\ Types /\ op \in Operations
        /\ fits => op \in ToFile /\ output = "this call's"
    BY <2>1, Callback
  <2>3. TarTypes' /\ tarSink' = tarSink /\ lastblock' = lastblock
    BY <2>1, <2>2, Zenon DEF Types, TarTypes, tar
  <2>4. output' \in {"nullptr", "this call's", "a call's", "untarredFile"}
    BY <2>1, <2>2, Zenon DEF Types, WriterTypes
  <2>5. UNCHANGED <<gzWriteCallback, sizes, call, tarSink>>
    BY <2>1, <2>3
  <2>6. CASE output = "this call's" /\ Took("its file") /\ UNCHANGED _error
    <3>1. fits => "its file" \in Right(op) /\ First(op) \in sinks \cup {"its file"}
      BY <2>2, Writers
    <3>2. QED
      BY <2>1, <2>3, <2>4, <2>6, <3>1, TookIInv
  <2>7. CASE output \in {"a call's", "untarredFile"} /\ Took("another file") /\ UNCHANGED _error
    BY <2>1, <2>2, <2>3, <2>4, <2>7, TookIInv
  <2>8. CASE Refuses(ESP32_TARGZ_STREAM_ERROR)
    <3>1. /\ Ends(ESP32_TARGZ_STREAM_ERROR) /\ _error' = ESP32_TARGZ_STREAM_ERROR /\ silent' = silent
      BY <2>8 DEF Refuses
    <3>2. ESP32_TARGZ_STREAM_ERROR \in Codes /\ ESP32_TARGZ_STREAM_ERROR # ESP32_TARGZ_OK
      BY CodesDiffer
    <3>3. silent' \in BOOLEAN
      BY <2>2, <3>1, Zenon DEF Types, ResultTypes
    <3>4. QED
      BY <2>1, <2>3, <2>4, <3>1, <3>2, <3>3, EndsIInv
  <2>9. QED
    BY <1>1, <2>6, <2>7, <2>8 DEF StreamWrite
<1>2. CASE StreamWriteNowhere
  <2>1. /\ pc = "inflating" /\ gzWriteCallback = "gzStreamWriteCallback" /\ output \in {"nullptr", "a call's"}
        /\ UNCHANGED <<gzWriteCallback, sizes, call, progress, tar, _error, res>>
        /\ returned' = "crash" /\ pc' = "idle" /\ output' = Left(output)
    BY <1>2 DEF StreamWriteNowhere, Writing, Inflating, Crashes, Returns
  <2>2. Running /\ Types /\ ~fits
    BY <2>1, Callback
  <2>3. WriterTypes' /\ TarTypes' /\ SizeTypes'
    BY <2>1, <2>2, LeftTypes, Zenon DEF Types, WriterTypes, TarTypes, SizeTypes, tar, sizes
  <2>4. _error' \in Codes /\ res' \in Codes
    BY <2>1, <2>2, Zenon DEF Types, ResultTypes
  <2>5. UNCHANGED <<call, left, outlen, silent>>
    BY <2>1 DEF progress
  <2>6. QED
    BY <2>1, <2>2, <2>3, <2>4, <2>5, ReturnsIInv
<1>3. QED
  BY <1>1, <1>2

LEMMA OtherWriteIInv ==
  ASSUME IInv, NEW cb \in {"gzUpdateWriteCallback", "GzUpdateClass", "user"}, OtherWrite(cb)
  PROVE  IInv'
<1>1. /\ pc = "inflating" /\ left > 0 /\ gzWriteCallback = cb
      /\ UNCHANGED <<gzWriteCallback, sizes, call>> /\ UNCHANGED tar /\ output' = output
  BY DEF OtherWrite, Writing, Inflating
<1>2. Running /\ Types /\ op \in Operations /\ (fits => cb = Own(op))
  BY <1>1, Callback
<1>3. fits => /\ Other(cb) = Main(op) /\ Main(op) \in Right(op) /\ First(op) = Main(op)
  BY <1>2, Writers, Zenon
<1>4. TarTypes' /\ tarSink' = tarSink /\ lastblock' = lastblock
  BY <1>1, <1>2, Zenon DEF Types, TarTypes, tar
<1>5. output' \in {"nullptr", "this call's", "a call's", "untarredFile"}
  BY <1>1, <1>2, Zenon DEF Types, WriterTypes
<1>6. CASE Took(Other(cb)) /\ UNCHANGED _error
  <2>1. UNCHANGED <<gzWriteCallback, sizes, call, tarSink, _error>>
    BY <1>1, <1>4, <1>6
  <2>2. fits => Other(cb) \in Right(op) /\ First(op) \in sinks \cup {Other(cb)}
    BY <1>3
  <2>3. QED
    BY <1>1, <1>4, <1>5, <1>6, <2>1, <2>2, TookIInv
<1>7. CASE RefusesSilently
  <2>1. silent' = TRUE /\ _error' = _error /\ Ends(_error)
    BY <1>7 DEF RefusesSilently
  <2>2. _error \in Codes /\ silent' \in BOOLEAN
    BY <1>2, <2>1, Zenon DEF Types, ResultTypes
  <2>3. QED
    BY <1>1, <1>4, <1>5, <2>1, <2>2, EndsIInv
<1>8. QED
  BY <1>6, <1>7 DEF OtherWrite

\* The handle that tar leaves behind is none of this call's.
LEMMA AfterTar ==
  ASSUME WriterTypes, output' \in OutputAfterTar
  PROVE  output' \in {"nullptr", "this call's", "a call's", "untarredFile"}
BY DEF WriterTypes, OutputAfterTar

LEMMA TarWriteIInv ==
  ASSUME IInv,
         TarIgnores \/ TarNoHeap \/ TarStopped \/ TarFails \/ (\E done \in BOOLEAN : TarWrite(done))
  PROVE  IInv'
<1>1. /\ pc = "inflating" /\ left > 0 /\ gzWriteCallback = "gzProcessTarBuffer"
      /\ UNCHANGED <<gzWriteCallback, sizes, call>>
  BY DEF TarIgnores, TarNoHeap, TarStopped, TarFails, TarWrite, Writing, Inflating
<1>2. Running /\ Types /\ op \in Operations /\ (fits => op \in ToTar)
  BY <1>1, Callback
<1>3. fits => First(op) = Main(op) /\ Right(op) = {Main(op), "nowhere"} /\ tarSink = Main(op)
  BY <1>2, Writers, Zenon DEF IInv, Armed
<1>4. ~(fits /\ op \in ToFile)
  BY <1>2 DEF ToTar, ToFile
<1>5. \A code \in {ESP32_TARGZ_TAR_ERR_GZREAD_FAIL} : code \in Codes /\ code # ESP32_TARGZ_OK
  BY CodesDiffer
<1>6. CASE TarIgnores
  <2>1. Took("nowhere") /\ lastblock /\ UNCHANGED tar /\ output' = output /\ _error' = _error
    BY <1>6 DEF TarIgnores
  <2>2. TarTypes' /\ tarSink' = tarSink
    BY <1>2, <2>1, Zenon DEF Types, TarTypes, tar
  <2>3. output' \in {"nullptr", "this call's", "a call's", "untarredFile"}
    BY <1>2, <2>1, Zenon DEF Types, WriterTypes
  <2>4. fits => First(op) \in sinks
    BY <1>2, <2>1, Zenon DEF IInv, Wrote
  <2>5. fits => "nowhere" \in Right(op) /\ First(op) \in sinks \cup {"nowhere"}
    BY <1>3, <2>4
  <2>6. UNCHANGED <<gzWriteCallback, sizes, call, tarSink, _error>>
    BY <1>1, <2>1, <2>2
  <2>7. QED
    BY <1>1, <1>4, <2>1, <2>2, <2>3, <2>5, <2>6, TookIInv
<1>7. CASE TarNoHeap
  <2>1. /\ silent' = TRUE /\ _error' = _error /\ Ends(_error) /\ UNCHANGED tar /\ output' = output
    BY <1>7 DEF TarNoHeap, RefusesSilently
  <2>2. TarTypes' /\ tarSink' = tarSink /\ lastblock' = lastblock
    BY <1>2, <2>1, Zenon DEF Types, TarTypes, tar
  <2>3. output' \in {"nullptr", "this call's", "a call's", "untarredFile"}
    BY <1>2, <2>1, Zenon DEF Types, WriterTypes
  <2>4. _error \in Codes /\ silent' \in BOOLEAN
    BY <1>2, <2>1, Zenon DEF Types, ResultTypes
  <2>5. QED
    BY <1>1, <2>1, <2>2, <2>3, <2>4, EndsIInv
<1>8. ASSUME Refuses(ESP32_TARGZ_TAR_ERR_GZREAD_FAIL), TarTypes', tarSink' = tarSink,
             lastblock' = lastblock, output' \in OutputAfterTar
      PROVE  IInv'
  <2>1. /\ Ends(ESP32_TARGZ_TAR_ERR_GZREAD_FAIL) /\ _error' = ESP32_TARGZ_TAR_ERR_GZREAD_FAIL
        /\ silent' = silent
    BY <1>8 DEF Refuses
  <2>2. silent' \in BOOLEAN
    BY <1>2, <2>1, Zenon DEF Types, ResultTypes
  <2>3. output' \in {"nullptr", "this call's", "a call's", "untarredFile"}
    BY <1>2, <1>8, AfterTar DEF Types
  <2>4. QED
    BY <1>1, <1>4, <1>5, <1>8, <2>1, <2>2, <2>3, EndsIInv
<1>9. CASE TarStopped
  <2>1. Refuses(ESP32_TARGZ_TAR_ERR_GZREAD_FAIL) /\ UNCHANGED tar /\ output' = output
    BY <1>9 DEF TarStopped
  <2>2. TarTypes' /\ tarSink' = tarSink /\ lastblock' = lastblock
    BY <1>2, <2>1, Zenon DEF Types, TarTypes, tar
  <2>3. output' \in OutputAfterTar
    BY <2>1 DEF OutputAfterTar
  <2>4. QED
    BY <1>8, <2>1, <2>2, <2>3
<1>10. CASE TarFails
  <2>1. /\ Refuses(ESP32_TARGZ_TAR_ERR_GZREAD_FAIL) /\ output' \in OutputAfterTar
        /\ firstblock' = FALSE /\ reading' = FALSE /\ tarSink' = tarSink /\ lastblock' = lastblock
    BY <1>10 DEF TarFails
  <2>2. TarTypes'
    BY <1>2, <2>1, Zenon DEF Types, TarTypes
  <2>3. QED
    BY <1>8, <2>1, <2>2
<1>11. ASSUME NEW done \in BOOLEAN, TarWrite(done)
       PROVE  IInv'
  <2>1. /\ Took(tarSink) /\ output' \in OutputAfterTar /\ firstblock' = FALSE /\ lastblock' = done
        /\ reading' = ~done /\ tarSink' = tarSink /\ _error' = _error
    BY <1>11, Zenon DEF TarWrite
  <2>2. TarTypes'
    BY <1>2, <2>1, Zenon DEF Types, TarTypes
  <2>3. output' \in {"nullptr", "this call's", "a call's", "untarredFile"}
    BY <1>2, <2>1, AfterTar DEF Types
  <2>4. fits => tarSink \in Right(op) /\ First(op) \in sinks \cup {tarSink}
    BY <1>3
  <2>5. UNCHANGED <<gzWriteCallback, sizes, call, tarSink, _error>>
    BY <1>1, <2>1
  <2>6. QED
    BY <1>1, <1>4, <2>1, <2>2, <2>3, <2>4, <2>5, TookIInv
<1>12. QED
  BY <1>6, <1>7, <1>9, <1>10, <1>11

\* The stream breaks or ends.
LEMMA ResultIs ==
  /\ ResultOf(outlen) \in Codes /\ (ResultOf(outlen) = ESP32_TARGZ_OK => outlen > 0)
BY CodesDiffer DEF ResultOf

LEMMA StreamEndsIInv ==
  ASSUME IInv, SourceDry \/ StreamEnds
  PROVE  IInv'
<1>1. /\ pc = "inflating" /\ UNCHANGED <<writer, tar, sizes, call, silent, _error>>
      /\ Ends(ESP32_TARGZ_STREAM_ERROR) \/ (left = 0 /\ Ends(ResultOf(outlen)))
  BY DEF SourceDry, StreamEnds, Inflating
<1>2. Types
  BY DEF IInv
<1>3. TarTypes' /\ output' = output /\ UNCHANGED <<gzWriteCallback, sizes, call, tarSink, lastblock>>
  BY <1>1, <1>2, Zenon DEF Types, TarTypes, tar, writer
<1>4. output' \in {"nullptr", "this call's", "a call's", "untarredFile"}
  BY <1>2, <1>3, Zenon DEF Types, WriterTypes
<1>5. _error' \in Codes /\ silent' \in BOOLEAN
  BY <1>1, <1>2, Zenon DEF Types, ResultTypes
<1>6. PICK code \in Codes : Ends(code) /\ (code = ESP32_TARGZ_OK => left = 0 /\ outlen > 0)
  BY <1>1, ResultIs, CodesDiffer
<1>7. QED
  BY <1>1, <1>3, <1>4, <1>5, <1>6, EndsIInv

\* Pull mode.
LEMMA PullIInv ==
  ASSUME IInv, PullStep \/ PullEnds
  PROVE  IInv'
<1>1. pc = "inflating" /\ Pull
  BY DEF PullStep, PullEnds
<1>2. Types /\ Running /\ op \in Operations /\ op \in ToTar /\ op \notin ToFile
  BY <1>1, Callback DEF Pull, ToTar, ToFile
<1>3. /\ First(op) = Main(op) /\ Right(op) = {Main(op), "nowhere"} /\ Main(op) = "files"
  <2>1. SinkAtStart(op) = Main(op) /\ SinkAtStart(op) = "files"
    BY <1>1, <1>2, SinkIsMain DEF SinkAtStart, Pull
  <2>2. QED
    BY <1>2, <2>1, Writers, Zenon
<1>4. CASE PullStep
  <2>1. /\ left > 0 /\ Took("files") /\ output' \in OutputAfterTar
        /\ UNCHANGED <<gzWriteCallback, tar, sizes, call, _error>>
    BY <1>4 DEF PullStep
  <2>2. TarTypes' /\ UNCHANGED <<gzWriteCallback, sizes, call, tarSink, _error>>
    BY <1>2, <2>1, Zenon DEF Types, TarTypes, tar
  <2>3. output' \in {"nullptr", "this call's", "a call's", "untarredFile"}
    BY <1>2, <2>1, AfterTar DEF Types
  <2>4. "files" \in Right(op) /\ First(op) \in sinks \cup {"files"}
    BY <1>3
  <2>5. QED
    BY <1>1, <1>2, <2>1, <2>2, <2>3, <2>4, TookIInv
<1>5. CASE PullEnds
  <2>1. /\ reading' = FALSE /\ Ends(ResultOf(outlen))
        /\ UNCHANGED <<writer, tarSink, firstblock, lastblock, sizes, call, silent, _error>>
    BY <1>5 DEF PullEnds
  <2>2. TarTypes' /\ output' = output /\ UNCHANGED <<gzWriteCallback, sizes, call, tarSink, lastblock>>
    BY <1>2, <2>1, Zenon DEF Types, TarTypes, writer
  <2>3. output' \in {"nullptr", "this call's", "a call's", "untarredFile"}
    BY <1>2, <2>2, Zenon DEF Types, WriterTypes
  <2>4. _error' \in Codes /\ silent' \in BOOLEAN
    BY <1>2, <2>1, Zenon DEF Types, ResultTypes
  <2>5. QED
    BY <1>1, <1>2, <2>1, <2>2, <2>3, <2>4, ResultIs, EndsIInv
<1>6. QED
  BY <1>4, <1>5

-----------------------------------------------------------------------------
(***************************************************************************)
(* The end of a call.                                                      *)
(***************************************************************************)
LEMMA FailsIInv ==
  ASSUME IInv, GzFailed \/ UpdateFails
  PROVE  IInv'
<1>1. /\ pc = "ended" /\ returned' = "false" /\ pc' = "idle" /\ output' = Left(output) /\ res' = res
      /\ UNCHANGED <<gzWriteCallback, sizes, call, tar, progress>>
      /\ \/ op \in ToClass /\ _error' = _error
         \/ _error' = res /\ res # ESP32_TARGZ_OK
         \/ _error' = OtherError
  BY DEF GzFailed, UpdateFails, EndOfCall, Returns, ErrorOf
<1>2. Types /\ Running
  BY <1>1 DEF IInv, Phases
<1>3. WriterTypes' /\ TarTypes' /\ SizeTypes'
  BY <1>1, <1>2, LeftTypes, Zenon DEF Types, WriterTypes, TarTypes, SizeTypes, tar, sizes
<1>4. _error' \in Codes /\ res' \in Codes
  BY <1>1, <1>2, CodesDiffer, Zenon DEF Types, ResultTypes
<1>5. _error' # ESP32_TARGZ_OK \/ op \in ToClass
  BY <1>1, CodesDiffer
<1>6. fits => sinks' \subseteq Right(op)
  BY <1>1, <1>2, Zenon DEF IInv, Wrote, progress
<1>7. UNCHANGED <<call, left, outlen, silent>>
  BY <1>1 DEF progress
<1>8. QED
  BY <1>1, <1>2, <1>3, <1>4, <1>5, <1>6, <1>7, ReturnsIInv

\* What an expander that does not run tar afterwards was to write, it has.
LEMMA FirstIsMain ==
  ASSUME NEW o \in Operations, o # "tarGzExpander"
  PROVE  First(o) = Main(o)
<1>1. CASE o \in ToFile
  <2>1. /\ o \in {"gzExpander", "gzStreamExpander"} /\ o \notin ToTar \ {"tarGzStreamUpdater"}
        /\ o # "tarGzStreamUpdater" /\ o \notin ToUpdate /\ o \notin ToClass /\ o \notin ToAny /\ o # "none"
    BY <1>1 DEF ToFile, ToTar, ToUpdate, ToClass, ToAny
  <2>2. Main(o) = "its file"
    BY <2>1, Zenon DEF Main
  <2>3. QED
    BY <1>1, <2>2 DEF First
<1>2. CASE o \notin ToFile
  BY <1>2 DEF First
<1>3. QED
  BY <1>1, <1>2

LEMMA GzEndsIInv ==
  ASSUME IInv, GzEnds
  PROVE  IInv'
<1>1. /\ pc = "ended" /\ returned' = "true" /\ pc' = "idle" /\ output' = Left(output) /\ res' = res
      /\ UNCHANGED <<gzWriteCallback, sizes, call, tar, progress>>
      /\ res = ESP32_TARGZ_OK /\ op # "tarGzExpander" /\ _error' = ErrorAtEnd
  BY DEF GzEnds, EndOfCall, Returns
<1>2. Types /\ Running /\ op # "none"
  BY <1>1 DEF IInv, Phases
<1>3. WriterTypes' /\ TarTypes' /\ SizeTypes'
  BY <1>1, <1>2, LeftTypes, Zenon DEF Types, WriterTypes, TarTypes, SizeTypes, tar, sizes
<1>4. _error' \in Codes /\ res' \in Codes
  BY <1>1, <1>2, CodesDiffer, Zenon DEF Types, ResultTypes, ErrorAtEnd
<1>5. op \in Operations
  BY <1>2, OpAvailable DEF Types
<1>6. fits => sinks' \subseteq Right(op)
  BY <1>1, <1>2, Zenon DEF IInv, Wrote, progress
<1>7. ~silent => outlen > 0 /\ (left = 0 \/ Pull)
  BY <1>1, Zenon DEF IInv, Ended
<1>8. fits /\ outlen > 0 => First(op) \in sinks'
  BY <1>1, <1>2, Zenon DEF IInv, Wrote, progress
<1>9. First(op) = Main(op)
  BY <1>1, <1>5, FirstIsMain
<1>10. UNCHANGED <<call, left, outlen, silent>>
  BY <1>1 DEF progress
<1>11. QED
  BY <1>1, <1>2, <1>3, <1>4, <1>6, <1>7, <1>8, <1>9, <1>10, ReturnsIInv

LEMMA TarAfterGzIInv ==
  ASSUME IInv, NEW code \in {ESP32_TARGZ_OK, OtherError}, TarAfterGz(code)
  PROVE  IInv'
<1>1. /\ pc = "ended" /\ pc' = "idle" /\ res' = res /\ UNCHANGED <<gzWriteCallback, sizes, call>>
      /\ res = ESP32_TARGZ_OK /\ op = "tarGzExpander" /\ _error' = code
      /\ returned' = (IF code = ESP32_TARGZ_OK THEN "true" ELSE "false")
      /\ output' \in {Left(output), "untarredFile"}
      /\ sinks' = IF "its file" \in sinks THEN sinks \cup {"files"} ELSE sinks
      /\ reading' = FALSE /\ tarSink' = "files"
      /\ UNCHANGED <<firstblock, lastblock, left, outlen, silent>>
  BY Zenon DEF TarAfterGz, EndOfCall
<1>2. Types /\ Running
  BY <1>1 DEF IInv, Phases
<1>3. WriterTypes'
  <2>1. output' \in {"nullptr", "this call's", "a call's", "untarredFile"}
    BY <1>1, <1>2, LeftTypes DEF Types
  <2>2. QED
    BY <1>1, <1>2, <2>1, Zenon DEF Types, WriterTypes
<1>4. TarTypes' /\ SizeTypes'
  BY <1>1, <1>2, Zenon DEF Types, TarTypes, SizeTypes, sizes
<1>5. _error' \in Codes /\ res' \in Codes
  BY <1>1, <1>2, CodesDiffer, Zenon DEF Types, ResultTypes
<1>6. /\ First(op) = "its file" /\ Main(op) = "files" /\ Right(op) = {"files", "its file"}
  <2>1. /\ op \in ToFile /\ op \notin {"gzExpander", "gzStreamExpander"}
        /\ op # "tarGzStreamUpdater" /\ op \notin ToUpdate /\ op \notin ToClass /\ op \notin ToAny
        /\ op # "none"
    BY <1>1 DEF ToFile, ToUpdate, ToClass, ToAny
  <2>2. Main(op) = "files"
    BY <1>1, <2>1, Zenon DEF Main
  <2>3. First(op) = "its file"
    BY <2>1, Zenon DEF First
  <2>4. QED
    BY <2>1, <2>2, <2>3 DEF Right
<1>7. fits => sinks \subseteq Right(op) /\ (outlen > 0 => First(op) \in sinks)
  BY <1>2, Zenon DEF IInv, Wrote
<1>8. ~silent => outlen > 0 /\ (left = 0 \/ Pull)
  BY <1>1, Zenon DEF IInv, Ended
<1>9. fits => sinks' \subseteq Right(op) /\ (~silent => Main(op) \in sinks')
  BY <1>1, <1>6, <1>7, <1>8
<1>10. returned' \in {"true", "false"} /\ (returned' = "false" => _error' # ESP32_TARGZ_OK)
  BY <1>1
<1>11. UNCHANGED <<call, left, outlen, silent>>
  BY <1>1
<1>12. QED
  BY <1>1, <1>2, <1>3, <1>4, <1>5, <1>8, <1>9, <1>10, <1>11, ReturnsIInv

LEMMA StutterIInv == IInv /\ UNCHANGED vars => IInv'
<1> SUFFICES ASSUME IInv, UNCHANGED vars PROVE IInv'
  OBVIOUS
<1> USE DEF vars, writer, tar, sizes, call, progress
<1>1. Types'
  <2>1. WriterTypes' /\ TarTypes'
    BY Zenon DEF IInv, Types, WriterTypes, TarTypes
  <2>2. SizeTypes' /\ CallTypes'
    BY Zenon DEF IInv, Types, SizeTypes, CallTypes, Available
  <2>3. ResultTypes'
    BY Zenon DEF IInv, Types, ResultTypes
  <2>4. QED
    BY <2>1, <2>2, <2>3 DEF Types
<1>2. Counted' /\ Phases' /\ Installed' /\ Armed' /\ Wrote'
  BY Zenon DEF IInv, Counted, Phases, Installed, Armed, Wrote
<1>3. Ended' /\ Buffers'
  BY Zenon DEF IInv, Ended, Buffers, Pull, BufferSize
<1>4. WritesWhereAsked' /\ ReturnTells'
  BY Zenon DEF IInv, WritesWhereAsked, ReturnTells, TrueMeansWritten, FalseMeansError, Pull
<1>5. QED
  BY <1>1, <1>2, <1>3, <1>4 DEF IInv

LEMMA NextIInv == IInv /\ [Next]_vars => IInv'
<1> SUFFICES ASSUME IInv, [Next]_vars PROVE IInv'
  OBVIOUS
<1>1. CASE Forget \/ Reboot \/ NewUnpacker \/ \E cb \in {"user", "nullptr"} : SetStreamWriter(cb)
  BY <1>1, BetweenIInv
<1>2. ASSUME NEW o \in Available, NEW free \in 0..(BuffBlocks + 1),
             \/ \E chunks \in 0..MaxChunks : Start(o, chunks, free)
             \/ \E code \in {ESP32_TARGZ_OK, OtherError} : RefusesStart(o, free, code)
             \/ free = 0 /\ RefusesInstalled(o)
      PROVE  IInv'
  BY <1>2, StartIInv, RefusesStartIInv, RefusesInstalledIInv
<1>3. CASE Uncompress
  <2>1. CASE \/ SourceGone \/ Inflates
             \/ \E code \in {ESP32_TARGZ_UZLIB_MALLOC_FAIL, OtherError} : CannotInflate(code)
    BY <2>1, HeadIInv
  <2>2. CASE PullNoHeap
    BY <2>2, PullNoHeapIInv
  <2>3. CASE StreamWrite \/ StreamWriteNowhere
    BY <2>3, StreamWriteIInv
  <2>4. ASSUME NEW cb \in {"gzUpdateWriteCallback", "GzUpdateClass", "user"}, OtherWrite(cb)
        PROVE  IInv'
    BY <2>4, OtherWriteIInv
  <2>5. CASE TarIgnores \/ TarNoHeap \/ TarStopped \/ TarFails \/ \E done \in BOOLEAN : TarWrite(done)
    BY <2>5, TarWriteIInv
  <2>6. CASE SourceDry \/ StreamEnds
    BY <2>6, StreamEndsIInv
  <2>7. CASE PullStep \/ PullEnds
    BY <2>7, PullIInv
  <2>8. QED
    BY <1>3, <2>1, <2>2, <2>3, <2>4, <2>5, <2>6, <2>7, Zenon DEF Uncompress
<1>4. CASE GzFailed \/ UpdateFails
  BY <1>4, FailsIInv
<1>5. CASE GzEnds
  BY <1>5, GzEndsIInv
<1>6. ASSUME NEW code \in {ESP32_TARGZ_OK, OtherError}, TarAfterGz(code)
      PROVE  IInv'
  BY <1>6, TarAfterGzIInv
<1>7. CASE UNCHANGED vars
  BY <1>7, StutterIInv
<1>8. QED
  BY <1>1, <1>2, <1>3, <1>4, <1>5, <1>6, <1>7, Zenon DEF Next

LEMMA Inductive == Spec => []IInv
<1>1. QED
  BY InitIInv, NextIInv, PTL DEF Spec

-----------------------------------------------------------------------------
(***************************************************************************)
(* The theorems.                                                           *)
(***************************************************************************)
\* Every variable keeps to its values from call to call; and gzProcessTarBuffer feeds the tar
\* machine from inside the buffer, whatever sizes earlier calls have left behind.
THEOREM TypeCorrect == Spec => []SsTypeOK
<1>1. IInv => SsTypeOK
  <2> SUFFICES ASSUME IInv PROVE SsTypeOK
    OBVIOUS
  <2>1. Types /\ left \in 0..MaxChunks /\ outlen \in 0..MaxChunks
    BY Bounds DEF IInv, Counted
  <2>2. FeedInsideBuffer
    <3> SUFFICES ASSUME Inflating, gzWriteCallback = "gzProcessTarBuffer", fits,
                        op = "tarGzStreamUpdater" => board = "ESP32"
                 PROVE  blockmod <= output_buffer_size
      BY Zenon DEF FeedInsideBuffer
    <3>1. pc = "inflating" /\ ~Pull
      BY DEF Inflating
    <3>2. Running /\ op \in ToTar
      BY <3>1, Callback
    <3>3. op = "tarGzStreamExpander" \/ board = "ESP32"
      BY <3>1, <3>2 DEF ToTar, Pull
    <3>4. output_buffer_size = BufferSize
      BY <3>1, Zenon DEF IInv, Buffers
    <3>5. blockmod \in 1..BuffBlocks
      BY DEF IInv, Types, SizeTypes
    <3>6. CASE board = "ESP32"
      BY <3>4, <3>5, <3>6, Bounds DEF BufferSize
    <3>7. CASE board # "ESP32"
      <4>1. blockmod = 2 /\ min_output_buffer_size = 2
        BY <3>2, <3>3, <3>7, Zenon DEF IInv, Buffers
      <4>2. QED
        BY <3>4, <3>7, <4>1 DEF BufferSize
    <3>8. QED
      BY <3>6, <3>7
  <2>3. {firstblock, lastblock, reading} \subseteq BOOLEAN /\ {fits, silent} \subseteq BOOLEAN
    BY <2>1, Zenon DEF Types, TarTypes, CallTypes, ResultTypes
  <2>4. {_error, res} \subseteq Codes
    BY <2>1, Zenon DEF Types, ResultTypes
  <2>5. QED
    BY <2>1, <2>2, <2>3, <2>4, Zenon
       DEF Types, WriterTypes, TarTypes, SizeTypes, CallTypes, ResultTypes, SsTypeOK
<1>2. QED
  BY <1>1, Inductive, PTL

\* A call whose write callback is its own writes its stream where it was asked to, through no
\* handle that an earlier call has left: whatever calls were before it, and whatever failed.
THEOREM RightPlace == Spec => []WritesWhereAsked
<1>1. IInv => WritesWhereAsked
  BY DEF IInv
<1>2. QED
  BY <1>1, Inductive, PTL

\* Success has written the whole stream in this call; failure leaves an error.
THEOREM ResultTells == Spec => []ReturnTells
<1>1. IInv => ReturnTells
  BY DEF IInv
<1>2. QED
  BY <1>1, Inductive, PTL
=============================================================================
