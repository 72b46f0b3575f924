------------------------------- MODULE Untar -------------------------------
(***************************************************************************)
(* TinyUntar as a step machine (src/src/TinyUntar/untar.c): the state of   *)
(* tar_setup, tar_step, tar_datablock_step, tar_abort and read_tar_step,   *)
(* with one action per path through a call of read_tar_step.               *)
(*                                                                         *)
(* A 512-byte block is named by its position in the archive. What a header *)
(* parser sees in a block is a record of Block: whether its file name is   *)
(* not empty, and how many data blocks the file size it holds stands for   *)
(* (GET_NUM_BLOCKS). Bytes nobody wrote (malloc, a torn copy) are Garbage, *)
(* in which a parser may see anything; Zeroed is a calloc'ed block.        *)
(***************************************************************************)
EXTENDS Integers, Sequences

CONSTANTS
  MaxBlocks,   \* largest number of data blocks a header announces (bound)
  Archives,    \* the archives a session may be opened on
  Faults,      \* what may go wrong around the machine, a subset of FaultKinds
  FreshStart   \* TRUE: a device that was left with a block half handled is
               \* rebooted before it opens another session

Block == [named : BOOLEAN, blocks : 0..MaxBlocks]
FaultKinds == {"heap", "short", "header", "write", "end"}

ASSUME ArchivesAssumption == MaxBlocks \in Nat /\ Archives \subseteq Seq(Block)
ASSUME FaultsAssumption == Faults \subseteq FaultKinds /\ FreshStart \in BOOLEAN

\* untar.h: the codes of the machine.
TAR_EXPANDING_DONE == 2
TAR_OK == 0
TAR_ERROR == -1
TAR_ERR_DATACB_FAIL == -2
TAR_ERR_HEADERCB_FAIL == -3
TAR_ERR_FOOTERCB_FAIL == -4
TAR_ERR_READBLOCK_FAIL == -5
TAR_ERROR_HEAP == -8
NotCalled == 1           \* no call of the session returned yet
TarErrors == {TAR_OK, TAR_ERR_FOOTERCB_FAIL, TAR_ERR_HEADERCB_FAIL,
              TAR_ERR_READBLOCK_FAIL}
Results == TarErrors \cup {TAR_EXPANDING_DONE, TAR_ERROR, TAR_ERR_DATACB_FAIL,
                           TAR_ERROR_HEAP, NotCalled}

Zeroed == 0              \* a block of zeroes that is not of the archive
Garbage == -1            \* bytes nobody wrote
NULL == -2               \* read_buffer when it is freed
Short == -3              \* read_cb returned less than a block
Blocks == Int \ {NULL, Short}

VARIABLES
  archive,             \* what the session was opened on
  fed,                 \* blocks read_cb has returned in the session
  read_buffer,         \* the block it holds, or NULL
  callbacks,           \* read_tar_callbacks # NULL
  tar_error, entry_index, empty_count, indatablock,
  num_blocks, num_blocks_iterator,
  entry,               \* header_translated: the header block it came from
  block_read,          \* the function static of tar_datablock_step
  readstep,            \* the function static of tar_step
  result,              \* what the last call returned
  calls                \* the callbacks the last visible step fired, in order

position == <<archive, fed>>
static == <<block_read, readstep>>
data == <<indatablock, num_blocks, num_blocks_iterator, entry>>
vars == <<position, read_buffer, callbacks, tar_error, entry_index, empty_count,
          data, static, result, calls>>

-----------------------------------------------------------------------------
\* What parse_header and translate_header may see in block b.
Views(b) ==
  IF b \in 1..Len(archive) THEN {archive[b]}
  ELSE IF b = Zeroed THEN {[named |-> FALSE, blocks |-> 0]}
  ELSE Block

\* The outcomes of a callback: it may refuse only if it is told to.
Answers(kind) == IF kind \in Faults THEN BOOLEAN ELSE {TRUE}

HeaderCall(h) == [cb |-> "header", block |-> h, last |-> FALSE]
WriteCall(b, isLast) == [cb |-> "write", block |-> b, last |-> isLast]
EndCall(h) == [cb |-> "end", block |-> h, last |-> FALSE]

\* Power-on: globals and statics hold their initial values.
Init ==
  /\ archive = <<>> /\ fed = 0 /\ read_buffer = NULL /\ callbacks = FALSE
  /\ tar_error = TAR_OK /\ entry_index = 0 /\ empty_count = 0
  /\ indatablock = 0 /\ num_blocks = 0 /\ num_blocks_iterator = 0
  /\ entry = 0 /\ block_read = 0 /\ readstep = 0
  /\ result = NotCalled /\ calls = <<>>

Reboot ==
  /\ archive' = <<>> /\ fed' = 0 /\ read_buffer' = NULL /\ callbacks' = FALSE
  /\ tar_error' = TAR_OK /\ entry_index' = 0 /\ empty_count' = 0
  /\ indatablock' = 0 /\ num_blocks' = 0 /\ num_blocks_iterator' = 0
  /\ entry' = 0 /\ block_read' = 0 /\ readstep' = 0
  /\ result' = NotCalled /\ calls' = <<>>

AtRest == block_read = 0 /\ readstep = 0

\* tar_setup: the globals are reset, the two statics are out of its reach.
SetupOK(a) ==
  /\ FreshStart => AtRest
  /\ archive' = a /\ fed' = 0
  /\ tar_error' = TAR_OK /\ callbacks' = TRUE /\ read_buffer' = Garbage
  /\ entry_index' = 0 /\ empty_count' = 0 /\ indatablock' = -1
  /\ result' = TAR_OK /\ calls' = <<>>
  /\ UNCHANGED <<num_blocks, num_blocks_iterator, entry, static>>

SetupNoHeap ==
  /\ "heap" \in Faults
  /\ archive' = <<>> /\ fed' = 0
  /\ tar_error' = TAR_OK /\ callbacks' = TRUE /\ read_buffer' = NULL
  /\ result' = TAR_ERROR_HEAP /\ calls' = <<>>
  /\ UNCHANGED <<entry_index, empty_count, data, static>>

-----------------------------------------------------------------------------
\* (A bug: the buffer is not freed.)
AbortKeepsBuffer == callbacks' = FALSE /\ UNCHANGED read_buffer
\* tar_abort, and what read_tar_step makes of the code tar_step returned.
Abort == read_buffer' = NULL /\ callbacks' = FALSE
ReadTarStepReturns(res) ==
  result' = IF res = TAR_ERROR THEN TAR_OK ELSE res

\* read_block: a full block lands in read_buffer.
Take(b) == b # Short /\ read_buffer' = b /\ fed' = fed + 1
\* read_block fails, the caller aborts.
Miss(b) == b = Short /\ Abort /\ tar_error' = TAR_ERR_READBLOCK_FAIL /\ fed' = fed

\* The caller keeps calling as long as it is told TAR_OK.
Called == result = TAR_OK
Live == Called /\ callbacks /\ tar_error = TAR_OK
InData == Live /\ indatablock = 0
InHeaders == Live /\ indatablock = -1

\* (A bug: it looks like one more step was made.)
RefusedReturns == TAR_OK
\* What read_tar_step returns when it has no callbacks.
NoCallbacks == TAR_ERROR

\* read_tar_step without callbacks, or tar_step once tar_error is set.
Refused ==
  /\ Called /\ ~(callbacks /\ tar_error = TAR_OK)
  /\ result' = IF callbacks THEN tar_error ELSE NoCallbacks
  /\ Abort
  /\ UNCHANGED <<position, tar_error, entry_index, empty_count, data, static, calls>>

\* (A bug: one block too many.)
DataLeftOrOne == num_blocks_iterator <= num_blocks
\* Whether the entry has data blocks left.
DataLeft == num_blocks_iterator < num_blocks

\* tar_datablock_step, its three branches.
ReadData(b) ==
  /\ InData /\ DataLeft /\ block_read = 0
  /\ \/ Take(b) /\ block_read' = 1 /\ result' = TAR_OK
        /\ UNCHANGED <<callbacks, tar_error, calls>>
     \/ Miss(b) /\ block_read' = 0 /\ result' = TAR_ERR_READBLOCK_FAIL /\ calls' = <<>>
  /\ UNCHANGED <<archive, entry_index, empty_count, data, readstep>>

\* expand_tar_data_block: the last block has the size of the remainder. A
\* refusal leaves block_read set and tar_error clear.
ExpandData(ok) ==
  /\ InData /\ DataLeft /\ block_read = 1
  /\ calls' = <<WriteCall(read_buffer, num_blocks_iterator >= num_blocks - 1)>>
  /\ IF ok
     THEN /\ num_blocks_iterator' = num_blocks_iterator + 1
          /\ block_read' = 0 /\ result' = TAR_OK
          /\ UNCHANGED <<read_buffer, callbacks>>
     ELSE /\ Abort /\ result' = TAR_ERR_DATACB_FAIL
          /\ UNCHANGED <<num_blocks_iterator, block_read>>
  /\ UNCHANGED <<position, tar_error, entry_index, empty_count, indatablock,
                 num_blocks, entry, readstep>>

EndData(ok) ==
  /\ InData /\ ~DataLeft
  /\ indatablock' = -1 /\ calls' = <<EndCall(entry)>>
  /\ IF ok
     THEN /\ entry_index' = entry_index + 1 /\ ReadTarStepReturns(TAR_ERROR)
          /\ UNCHANGED <<read_buffer, callbacks, tar_error>>
     ELSE /\ Abort /\ tar_error' = TAR_ERR_FOOTERCB_FAIL
          /\ result' = TAR_ERR_FOOTERCB_FAIL /\ UNCHANGED entry_index
  /\ UNCHANGED <<position, empty_count, num_blocks, num_blocks_iterator, entry, static>>

-----------------------------------------------------------------------------
\* (A bug: a third empty header is waited for.)
ThirdEmpty == empty_count <= 2
\* Two empty headers end the archive.
HeadersLeft == empty_count < 2

\* tar_step outside of data: the end, the next header block, or its parsing.
Done ==
  /\ InHeaders /\ ~HeadersLeft
  /\ Abort /\ result' = TAR_EXPANDING_DONE /\ calls' = <<>>
  /\ UNCHANGED <<position, tar_error, entry_index, empty_count, data, static>>

\* A missing header block is TAR_ERROR to tar_step, TAR_OK to its caller.
ReadHeader(b) ==
  /\ InHeaders /\ HeadersLeft /\ readstep = 0
  /\ \/ Take(b) /\ readstep' = 1 /\ result' = TAR_OK
        /\ UNCHANGED <<callbacks, tar_error, calls>>
     \/ Miss(b) /\ ReadTarStepReturns(TAR_ERROR) /\ calls' = <<>> /\ UNCHANGED readstep
  /\ UNCHANGED <<archive, entry_index, empty_count, data, block_read>>

\* (A bug: the header block stays the one to parse.)
ParsingAgain == InHeaders /\ HeadersLeft /\ readstep = 1 /\ readstep' = readstep
Parsing == InHeaders /\ HeadersLeft /\ readstep = 1 /\ readstep' = 0

EmptyHeader ==
  /\ Parsing /\ \E h \in Views(read_buffer) : ~h.named
  /\ empty_count' = empty_count + 1 /\ result' = TAR_OK /\ calls' = <<>>
  /\ UNCHANGED <<position, read_buffer, callbacks, tar_error, entry_index, data,
                 block_read>>

HeaderRefused ==
  /\ Parsing /\ \E h \in Views(read_buffer) : h.named
  /\ "header" \in Faults
  /\ Abort /\ tar_error' = TAR_ERR_HEADERCB_FAIL /\ result' = TAR_ERR_HEADERCB_FAIL
  /\ calls' = <<HeaderCall(read_buffer)>> /\ entry' = read_buffer
  /\ UNCHANGED <<position, entry_index, empty_count, indatablock, num_blocks,
                 num_blocks_iterator, block_read>>

\* (A bug: the count of the previous entry is kept.)
KeptIterator == num_blocks_iterator
\* The number of its blocks an entry starts with.
StartIterator == 0

\* The entry is opened; tar_datablock_step is called in the same step.
Opened(n) ==
  /\ Parsing /\ [named |-> TRUE, blocks |-> n] \in Views(read_buffer)
  /\ entry' = read_buffer /\ num_blocks' = n
  /\ UNCHANGED <<archive, empty_count>>

\* No data: the entry ends at once, and a refusal is not reported by this call.
OpenBare(ok) ==
  /\ Opened(0) /\ num_blocks_iterator' = 0 /\ indatablock' = -1
  /\ calls' = <<HeaderCall(read_buffer), EndCall(read_buffer)>>
  /\ result' = TAR_OK
  /\ IF ok THEN entry_index' = entry_index + 1 /\ UNCHANGED <<read_buffer, callbacks, tar_error>>
           ELSE Abort /\ tar_error' = TAR_ERR_FOOTERCB_FAIL /\ UNCHANGED entry_index
  /\ UNCHANGED <<fed, block_read>>

\* Data: its first block is read, unless block_read says there is one.
OpenAndRead(n, b) ==
  /\ n > 0 /\ block_read = 0
  /\ Opened(n) /\ num_blocks_iterator' = StartIterator /\ indatablock' = 0
  /\ calls' = <<HeaderCall(read_buffer)>>
  /\ \/ Take(b) /\ block_read' = 1 /\ result' = TAR_OK /\ UNCHANGED <<callbacks, tar_error>>
     \/ Miss(b) /\ result' = TAR_ERR_READBLOCK_FAIL /\ UNCHANGED block_read
  /\ UNCHANGED entry_index

\* block_read was left set: the header block is expanded as the first data block.
OpenAndExpand(n, ok) ==
  /\ n > 0 /\ block_read = 1
  /\ Opened(n) /\ indatablock' = 0
  /\ calls' = <<HeaderCall(read_buffer), WriteCall(read_buffer, n = 1)>>
  /\ IF ok THEN num_blocks_iterator' = 1 /\ block_read' = 0 /\ result' = TAR_OK
                /\ UNCHANGED <<read_buffer, callbacks>>
           ELSE num_blocks_iterator' = 0 /\ Abort /\ result' = TAR_ERR_DATACB_FAIL
                /\ UNCHANGED block_read
  /\ UNCHANGED <<fed, tar_error, entry_index>>

\* One call of read_tar_step, b being what read_cb returns if it is called.
ReadTarStep(b) ==
  \/ Refused \/ Done \/ EmptyHeader \/ HeaderRefused
  \/ ReadData(b) \/ ReadHeader(b)
  \/ \E ok \in Answers("write") : ExpandData(ok)
  \/ \E ok \in Answers("end") : EndData(ok) \/ OpenBare(ok)
  \/ \E n \in 1..MaxBlocks : OpenAndRead(n, b)
  \/ \E n \in 1..MaxBlocks, ok \in Answers("write") : OpenAndExpand(n, ok)

-----------------------------------------------------------------------------
(***************************************************************************)
(* The machine fed straight from a tar stream, as a caller that loops      *)
(* until it is told something else than TAR_OK does.                       *)
(***************************************************************************)
Offered ==
  (IF fed < Len(archive) THEN {fed + 1} ELSE {Short})
    \cup (IF "short" \in Faults THEN {Short} ELSE {})

Setup == ~Called /\ (SetupNoHeap \/ \E a \in Archives : SetupOK(a))
Step == \E b \in Offered : ReadTarStep(b)
Next == Reboot \/ Setup \/ Step
Spec == Init /\ [][Next]_vars
FairSpec == Spec /\ WF_vars(Step)

-----------------------------------------------------------------------------
Call == [cb : {"header", "write", "end"}, block : Int, last : BOOLEAN]

CountersOK ==
  /\ fed \in Nat /\ entry_index \in Nat /\ empty_count \in 0..2
  /\ indatablock \in {-1, 0} /\ num_blocks \in 0..MaxBlocks
  /\ num_blocks_iterator \in 0..MaxBlocks /\ entry \in Int
  /\ block_read \in {0, 1} /\ readstep \in {0, 1}
CodesOK ==
  read_buffer \in Int /\ tar_error \in TarErrors /\ result \in Results

TypeOK ==
  /\ archive \in Seq(Block) /\ calls \in Seq(Call) /\ callbacks \in BOOLEAN
  /\ CountersOK /\ CodesOK

\* The block in read_buffer, the entry it belongs to and the number of blocks
\* taken from the stream agree: nothing is skipped, repeated or handed over
\* under the wrong entry (readstep, block_read and num_blocks_iterator are three
\* counters kept by two functions).
BetweenEntries ==
  /\ indatablock = -1 /\ block_read = 0
  /\ readstep = 1 => fed > 0 /\ read_buffer = fed /\ empty_count < 2
InsideEntry ==
  /\ indatablock = 0 /\ readstep = 0
  /\ entry \in 1..fed /\ archive[entry] = [named |-> TRUE, blocks |-> num_blocks]
  /\ num_blocks_iterator + block_read <= num_blocks
  /\ entry + num_blocks_iterator + block_read = fed
  /\ block_read = 1 => read_buffer = fed
Aligned == Live => fed <= Len(archive) /\ (BetweenEntries \/ InsideEntry)

\* A buffer is held exactly while callbacks are: tar_abort is never half done,
\* on no error path (a use after free, or a leak, otherwise); and a session with
\* an error pending has been aborted.
BufferHeld ==
  /\ result # TAR_ERROR_HEAP => (callbacks <=> read_buffer # NULL)
  /\ Called /\ callbacks => tar_error = TAR_OK

\* Only a refused write leaves a static set for the next session.
RestAfterSession ==
  ~(Called /\ callbacks) /\ result \notin {TAR_ERR_DATACB_FAIL, TAR_ERROR_HEAP} => AtRest

\* The inductive invariant.
IInv == TypeOK /\ Aligned /\ BufferHeld /\ RestAfterSession

\* Every session that is driven ends: each call consumes a block or moves on.
SessionEnds == Called ~> ~Called

(***************************************************************************)
(* The reader this machine implements.                                     *)
(***************************************************************************)
SessionOpen == result \notin {NotCalled, TAR_ERROR_HEAP}
Expanding == SessionOpen /\ callbacks /\ indatablock = 0
Position ==
  IF ~SessionOpen THEN 0
  ELSE IF indatablock = 0 THEN entry + num_blocks_iterator
  ELSE fed - readstep
Status ==
  IF ~SessionOpen THEN "closed"
  ELSE IF callbacks THEN "running"
  ELSE IF result = TAR_EXPANDING_DONE THEN "done" ELSE "failed"
Current == IF Expanding THEN entry ELSE 0
Got == IF Expanding THEN num_blocks_iterator ELSE 0
Empties == IF SessionOpen THEN empty_count ELSE 0
Entries == IF SessionOpen THEN entry_index ELSE 0
Reader == INSTANCE TarReader WITH
  pos <- Position, cur <- Current, got <- Got,
  empties <- Empties, entries <- Entries, status <- Status
\* Every step is a step of the abstract reader, or none.
ImplementsReader == Reader!Spec
=============================================================================
