------------------------- MODULE GzUncompressProofs -------------------------
(***************************************************************************)
(* Theorems about the step machine of TinyUntar (module Untar), for every  *)
(* set of archives and every bound on the size of an entry; and, on top of *)
(* them, about a .tar.gz that is expanded without an intermediate file     *)
(* (module GzUncompress), for every size of the buffer, whatever a         *)
(* callback refuses and whatever becomes of the stream. Of the latter, the *)
(* first part holds for every archive, well-formed or not; the second,     *)
(* what tar makes of the blocks, for complete ones.                        *)
(***************************************************************************)
EXTENDS GzUncompress, FiniteSetTheorems, TLAPS

\* A number is so many times n, and the rest.
LEMMA DivMod ==
  ASSUME NEW a \in Nat, NEW n \in Nat \ {0}
  PROVE  a = (a \div n) * n + (a % n) /\ a % n \in 0..n-1 /\ a \div n \in Nat
OBVIOUS

-----------------------------------------------------------------------------
(***************************************************************************)
(* The step machine, called one step at a time.                            *)
(***************************************************************************)
\* The records a step puts in "calls" are calls.
LEMMA CallTypes ==
  ASSUME NEW b \in Int, NEW l \in BOOLEAN
  PROVE  HeaderCall(b) \in Call /\ WriteCall(b, l) \in Call /\ EndCall(b) \in Call
BY DEF HeaderCall, WriteCall, EndCall, Call

\* One or two of them, or none, make a sequence of calls.
LEMMA CallSeqs ==
  ASSUME NEW x \in Call, NEW y \in Call
  PROVE  <<>> \in Seq(Call) /\ <<x>> \in Seq(Call) /\ <<x, y>> \in Seq(Call)
OBVIOUS

\* What a parser may see is a Block.
LEMMA ViewTypes ==
  ASSUME TypeOK, NEW b \in Int
  PROVE  Views(b) \subseteq Block
<1>1. CASE b \in 1..Len(archive)
  <2>1. archive[b] \in Block
    BY <1>1 DEF TypeOK
  <2>2. QED
    BY <1>1, <2>1 DEF Views
<1>2. CASE b \notin 1..Len(archive)
  <2>1. [named |-> FALSE, blocks |-> 0] \in Block
    BY ArchivesAssumption DEF Block
  <2>2. QED
    BY <1>2, <2>1 DEF Views
<1>3. QED
  BY <1>1, <1>2

USE DEF TAR_EXPANDING_DONE, TAR_OK, TAR_ERROR, TAR_ERR_DATACB_FAIL, TAR_ERR_HEADERCB_FAIL,
        TAR_ERR_FOOTERCB_FAIL, TAR_ERR_READBLOCK_FAIL, TAR_ERROR_HEAP, NotCalled,
        NULL, Short, Zeroed, Garbage

\* The ways a call of read_tar_step can go, with the outcomes callbacks may have.
StepCase(b) ==
  \/ Refused \/ Done \/ EmptyHeader \/ HeaderRefused
  \/ ReadData(b) \/ ReadHeader(b)
  \/ \E ok \in BOOLEAN : ExpandData(ok) \/ EndData(ok) \/ OpenBare(ok)
  \/ \E n \in 1..MaxBlocks : OpenAndRead(n, b)
  \/ \E n \in 1..MaxBlocks, ok \in BOOLEAN : OpenAndExpand(n, ok)

LEMMA StepCases == ASSUME NEW b, ReadTarStep(b) PROVE StepCase(b)
BY DEF ReadTarStep, StepCase, Answers

\* The callbacks a step fires are calls.
LEMMA StepCalls ==
  ASSUME TypeOK, NEW b \in Int, ReadTarStep(b)
  PROVE  calls' \in Seq(Call)
<1>1. calls \in Seq(Call) /\ <<>> \in Seq(Call) /\ read_buffer \in Int /\ entry \in Int
  BY DEF TypeOK, CodesOK, CountersOK
<1>2. /\ HeaderCall(read_buffer) \in Call /\ EndCall(read_buffer) \in Call
      /\ EndCall(entry) \in Call
      /\ \A l \in BOOLEAN : WriteCall(read_buffer, l) \in Call
  BY <1>1, CallTypes
<1>3. CASE Refused
  BY <1>3, <1>1 DEF Refused
<1>4. CASE Done \/ EmptyHeader
  BY <1>4, <1>1 DEF Done, EmptyHeader
<1>5. CASE HeaderRefused
  BY <1>5, <1>2, CallSeqs DEF HeaderRefused
<1>6. CASE ReadData(b) \/ ReadHeader(b)
  BY <1>6, <1>1 DEF ReadData, ReadHeader
<1>7. ASSUME NEW ok \in BOOLEAN, ExpandData(ok) \/ EndData(ok) \/ OpenBare(ok)
      PROVE  calls' \in Seq(Call)
  <2>1. (num_blocks_iterator >= num_blocks - 1) \in BOOLEAN
    OBVIOUS
  <2>2. CASE ExpandData(ok)
    BY <2>1, <2>2, <1>2, CallSeqs DEF ExpandData
  <2>3. CASE EndData(ok)
    BY <2>3, <1>2, CallSeqs DEF EndData
  <2>4. CASE OpenBare(ok)
    BY <2>4, <1>2, CallSeqs DEF OpenBare
  <2>5. QED
    BY <1>7, <2>2, <2>3, <2>4
<1>8. ASSUME NEW n \in 1..MaxBlocks, OpenAndRead(n, b)
      PROVE  calls' \in Seq(Call)
  BY <1>8, <1>2, CallSeqs DEF OpenAndRead
<1>9. ASSUME NEW n \in 1..MaxBlocks, NEW ok \in BOOLEAN, OpenAndExpand(n, ok)
      PROVE  calls' \in Seq(Call)
  <2>1. (n = 1) \in BOOLEAN
    OBVIOUS
  <2>2. QED
    BY <1>9, <2>1, <1>2, CallSeqs DEF OpenAndExpand
<1>10. QED
  BY StepCases, <1>3, <1>4, <1>5, <1>6, <1>7, <1>8, <1>9 DEF StepCase

\* A step keeps the counters in their ranges.
LEMMA StepCounters ==
  ASSUME TypeOK, NEW b \in Int, ReadTarStep(b)
  PROVE  CountersOK' /\ CodesOK'
<1> USE DEF CountersOK, CodesOK, TarErrors, Results, position, static, data, Abort
<1>1. CountersOK /\ CodesOK /\ MaxBlocks \in Nat
  BY ArchivesAssumption DEF TypeOK
<1>2. CASE Refused
  BY <1>1, <1>2 DEF Refused, NoCallbacks
<1>3. CASE Done
  BY <1>1, <1>3 DEF Done
<1>4. CASE EmptyHeader
  BY <1>1, <1>4 DEF EmptyHeader, Parsing, HeadersLeft
<1>8. CASE HeaderRefused
  BY <1>1, <1>8 DEF HeaderRefused, Parsing, HeadersLeft
<1>9. CASE ReadData(b)
  BY <1>1, <1>9 DEF ReadData, Take, Miss
<1>10. CASE ReadHeader(b)
  BY <1>1, <1>10 DEF ReadHeader, Take, Miss, ReadTarStepReturns
<1>5. ASSUME NEW ok \in BOOLEAN, ExpandData(ok) \/ EndData(ok) \/ OpenBare(ok)
      PROVE  CountersOK' /\ CodesOK'
  <2>1. CASE ExpandData(ok)
    BY <1>1, <2>1 DEF ExpandData, DataLeft
  <2>2. CASE EndData(ok)
    BY <1>1, <2>2 DEF EndData, ReadTarStepReturns
  <2>3. CASE OpenBare(ok)
    BY <1>1, <2>3 DEF OpenBare, Opened, Parsing, StartIterator
  <2>4. QED
    BY <1>5, <2>1, <2>2, <2>3
<1>6. ASSUME NEW n \in 1..MaxBlocks, OpenAndRead(n, b)
      PROVE  CountersOK' /\ CodesOK'
  BY <1>1, <1>6 DEF OpenAndRead, Opened, Parsing, StartIterator, Take, Miss
<1>7. ASSUME NEW n \in 1..MaxBlocks, NEW ok \in BOOLEAN, OpenAndExpand(n, ok)
      PROVE  CountersOK' /\ CodesOK'
  BY <1>1, <1>7 DEF OpenAndExpand, Opened, Parsing
<1>11. QED
  BY StepCases, <1>2, <1>3, <1>4, <1>5, <1>6, <1>7, <1>8, <1>9, <1>10 DEF StepCase

\* One call of read_tar_step keeps the types, whatever block it is offered.
LEMMA StepTypeOK ==
  ASSUME TypeOK, NEW b \in Int, ReadTarStep(b)
  PROVE  TypeOK'
<1>1. archive' = archive
  BY StepCases DEF StepCase, Refused, Done, EmptyHeader, HeaderRefused, ReadData, ReadHeader,
     ExpandData, EndData, OpenBare, OpenAndRead, OpenAndExpand, Opened, position
<1>2. callbacks' \in BOOLEAN
  BY StepCases, Zenon DEF StepCase, Refused, Done, EmptyHeader, HeaderRefused, ReadData,
     ReadHeader, ExpandData, EndData, OpenBare, OpenAndRead, OpenAndExpand, Opened, Take,
     Miss, Abort, TypeOK
<1>3. QED
  BY <1>1, <1>2, StepCalls, StepCounters DEF TypeOK

\* Init, a reboot and tar_setup establish or keep the types.
LEMMA InitTypeOK == Init => TypeOK
<1> SUFFICES ASSUME Init PROVE TypeOK
  OBVIOUS
<1>1. CountersOK /\ CodesOK
  BY ArchivesAssumption DEF Init, CountersOK, CodesOK, TarErrors, Results
<1>2. archive \in Seq(Block) /\ calls \in Seq(Call)
  BY DEF Init
<1>3. callbacks \in BOOLEAN
  BY DEF Init
<1>4. QED
  BY <1>1, <1>2, <1>3 DEF TypeOK

LEMMA RebootTypeOK == Reboot => TypeOK'
<1> SUFFICES ASSUME Reboot PROVE TypeOK'
  OBVIOUS
<1>1. CountersOK' /\ CodesOK'
  BY ArchivesAssumption DEF Reboot, CountersOK, CodesOK, TarErrors, Results
<1>2. archive' \in Seq(Block) /\ calls' \in Seq(Call)
  BY DEF Reboot
<1>3. callbacks' \in BOOLEAN
  BY DEF Reboot
<1>4. QED
  BY <1>1, <1>2, <1>3 DEF TypeOK

LEMMA SetupTypeOK ==
  ASSUME TypeOK, SetupNoHeap \/ \E a \in Archives : SetupOK(a)
  PROVE  TypeOK'
<1>1. ASSUME NEW a \in Archives, SetupOK(a)
      PROVE  TypeOK'
  <2>1. CountersOK' /\ CodesOK'
    BY <1>1 DEF SetupOK, TypeOK, CountersOK, CodesOK, TarErrors, Results, static
  <2>2. archive' \in Seq(Block) /\ calls' \in Seq(Call) /\ callbacks' \in BOOLEAN
    BY <1>1, ArchivesAssumption DEF SetupOK
  <2>3. QED
    BY <2>1, <2>2 DEF TypeOK
<1>2. CASE SetupNoHeap
  <2>1. CountersOK' /\ CodesOK'
    BY <1>2 DEF SetupNoHeap, TypeOK, CountersOK, CodesOK, TarErrors, Results, static, data
  <2>2. archive' \in Seq(Block) /\ calls' \in Seq(Call) /\ callbacks' \in BOOLEAN
    BY <1>2 DEF SetupNoHeap
  <2>3. QED
    BY <2>1, <2>2 DEF TypeOK
<1>3. QED
  BY <1>1, <1>2

\* The machine stays within its types, whatever fails and whenever the device
\* is rebooted, for all archives.
THEOREM TypeCorrect == Spec => []TypeOK
<1>1. TypeOK /\ [Next]_vars => TypeOK'
  <2> SUFFICES ASSUME TypeOK, [Next]_vars PROVE TypeOK'
    OBVIOUS
  <2>1. CASE Reboot
    BY <2>1, RebootTypeOK
  <2>2. CASE Setup
    BY <2>2, SetupTypeOK DEF Setup
  <2>3. CASE Step
    <3>1. Offered \subseteq Int
      BY DEF Offered, TypeOK, CountersOK
    <3>2. QED
      BY <2>3, <3>1, StepTypeOK DEF Step
  <2>4. CASE UNCHANGED vars
    BY <2>4 DEF vars, TypeOK, CountersOK, CodesOK, position, static, data
  <2>5. QED
    BY <2>1, <2>2, <2>3, <2>4 DEF Next
<1>2. QED
  BY <1>1, InitTypeOK, PTL DEF Spec

-----------------------------------------------------------------------------
\* What the sources of module Untar may offer: the next block, or too little.
Next1(b) == b \in {fed + 1, Short} /\ (b = fed + 1 => b <= Len(archive))

\* A step keeps the counters, the buffer and the stream in agreement.
LEMMA StepAligned ==
  ASSUME IInv, NEW b \in Int, Next1(b), ReadTarStep(b)
  PROVE  Aligned'
<1> USE DEF Next1, BetweenEntries, InsideEntry, Aligned, Called, Live, position, static, data, Abort
<1>1. CountersOK /\ CodesOK /\ MaxBlocks \in Nat /\ Aligned /\ Len(archive) \in Nat
  BY ArchivesAssumption DEF IInv, TypeOK
<1>2. CASE Refused
  BY <1>1, <1>2 DEF Refused
<1>3. CASE Done
  BY <1>1, <1>3 DEF Done
<1>4. CASE EmptyHeader
  BY <1>1, <1>4 DEF EmptyHeader, Parsing, InHeaders, CountersOK
<1>5. CASE HeaderRefused
  BY <1>1, <1>5 DEF HeaderRefused
<1>6. CASE ReadData(b)
  BY <1>1, <1>6 DEF ReadData, Take, Miss, InData, DataLeft, CountersOK
<1>7. CASE ReadHeader(b)
  BY <1>1, <1>7 DEF ReadHeader, Take, Miss, InHeaders, HeadersLeft, CountersOK
<1>8. ASSUME NEW ok \in BOOLEAN, ExpandData(ok) \/ EndData(ok) \/ OpenBare(ok)
      PROVE  Aligned'
  <2>1. CASE ExpandData(ok)
    <3>1. CASE ok
      <4>1. /\ num_blocks_iterator < num_blocks /\ block_read = 1 /\ InsideEntry
            /\ fed <= Len(archive)
        BY <2>1, <1>1 DEF ExpandData, DataLeft, InData
      <4>2. /\ num_blocks_iterator' = num_blocks_iterator + 1 /\ block_read' = 0
            /\ indatablock' = indatablock /\ readstep' = readstep /\ num_blocks' = num_blocks
            /\ entry' = entry /\ fed' = fed /\ archive' = archive
        BY <2>1, <3>1 DEF ExpandData
      <4>3. InsideEntry'
        BY <4>1, <4>2, <1>1 DEF CountersOK
      <4> QED
        BY <4>1, <4>2, <4>3
    <3>2. CASE ~ok
      BY <2>1, <3>2 DEF ExpandData
    <3> QED
      BY <3>1, <3>2
  <2>2. CASE EndData(ok)
    BY <1>1, <2>2 DEF EndData, InData, DataLeft, CountersOK
  <2>3. CASE OpenBare(ok)
    BY <1>1, <2>3 DEF OpenBare, Opened, Parsing, InHeaders, CountersOK
  <2>4. QED
    BY <1>8, <2>1, <2>2, <2>3
<1>9. ASSUME NEW n \in 1..MaxBlocks, OpenAndRead(n, b)
      PROVE  Aligned'
  <2>1. fed \in 1..Len(archive) /\ read_buffer = fed /\ archive' = archive
    BY <1>1, <1>9 DEF OpenAndRead, Opened, Parsing, InHeaders, CountersOK
  <2>4. fed' <= Len(archive)
    <3>1. CASE Take(b)
      BY <1>1, <3>1 DEF Take, CountersOK
    <3>2. CASE Miss(b)
      BY <2>1, <3>2 DEF Miss
    <3>3. QED
      BY <1>9, <3>1, <3>2 DEF OpenAndRead
  <2>2. archive[fed] = [named |-> TRUE, blocks |-> n]
    BY <2>1, <1>9 DEF OpenAndRead, Opened, Views
  <2>3. QED
    BY <1>1, <1>9, <2>1, <2>2, <2>4
       DEF OpenAndRead, Opened, Parsing, InHeaders, StartIterator, Take, Miss, CountersOK
<1>10. ASSUME NEW n \in 1..MaxBlocks, NEW ok \in BOOLEAN, OpenAndExpand(n, ok)
       PROVE  Aligned'
  BY <1>1, <1>10 DEF OpenAndExpand, Opened, Parsing, InHeaders
<1>11. QED
  BY StepCases, <1>2, <1>3, <1>4, <1>5, <1>6, <1>7, <1>8, <1>9, <1>10 DEF StepCase

\* A step frees the buffer exactly when it drops the callbacks.
LEMMA StepBuffer ==
  ASSUME IInv, NEW b \in Int, Next1(b), ReadTarStep(b)
  PROVE  BufferHeld'
<1> USE DEF BufferHeld, Called, Live, Abort
<1>1. BufferHeld /\ b # NULL
  BY DEF IInv, Next1, TypeOK, CountersOK
<1>2. CASE Refused
  BY <1>1, <1>2 DEF Refused, NoCallbacks
<1>3. CASE Done
  BY <1>1, <1>3 DEF Done, InHeaders
<1>4. CASE EmptyHeader
  BY <1>1, <1>4 DEF EmptyHeader, Parsing, InHeaders
<1>5. CASE HeaderRefused
  BY <1>1, <1>5 DEF HeaderRefused
<1>6. CASE ReadData(b)
  BY <1>1, <1>6 DEF ReadData, Take, Miss, InData
<1>7. CASE ReadHeader(b)
  BY <1>1, <1>7 DEF ReadHeader, Take, Miss, InHeaders
<1>8. ASSUME NEW ok \in BOOLEAN, ExpandData(ok) \/ EndData(ok) \/ OpenBare(ok)
      PROVE  BufferHeld'
  <2>1. CASE ExpandData(ok)
    BY <1>1, <2>1 DEF ExpandData, InData
  <2>2. CASE EndData(ok)
    BY <1>1, <2>2 DEF EndData, InData, ReadTarStepReturns
  <2>3. CASE OpenBare(ok)
    BY <1>1, <2>3 DEF OpenBare, Opened, Parsing, InHeaders
  <2>4. QED
    BY <1>8, <2>1, <2>2, <2>3
<1>9. ASSUME NEW n \in 1..MaxBlocks, OpenAndRead(n, b)
      PROVE  BufferHeld'
  BY <1>1, <1>9 DEF OpenAndRead, Opened, Parsing, InHeaders, Take, Miss
<1>10. ASSUME NEW n \in 1..MaxBlocks, NEW ok \in BOOLEAN, OpenAndExpand(n, ok)
       PROVE  BufferHeld'
  BY <1>1, <1>10 DEF OpenAndExpand, Opened, Parsing, InHeaders
<1>11. QED
  BY StepCases, <1>2, <1>3, <1>4, <1>5, <1>6, <1>7, <1>8, <1>9, <1>10 DEF StepCase

\* A step that ends the session otherwise than by a refused write leaves both
\* statics clear.
LEMMA StepRest ==
  ASSUME IInv, NEW b \in Int, Next1(b), ReadTarStep(b)
  PROVE  RestAfterSession'
<1> USE DEF RestAfterSession, AtRest, Called, Live, Abort, position, static, data,
            BetweenEntries, InsideEntry, Aligned
<1>1. CountersOK /\ CodesOK /\ Aligned /\ RestAfterSession /\ BufferHeld
  BY DEF IInv, TypeOK
<1>2. CASE Refused
  BY <1>1, <1>2 DEF Refused, BufferHeld
<1>3. CASE Done
  <2>1. block_read = 0 /\ readstep = 0
    BY <1>1, <1>3 DEF Done, InHeaders, HeadersLeft, CountersOK
  <2>2. block_read' = 0 /\ readstep' = 0
    BY <1>3, <2>1 DEF Done
  <2>3. QED
    BY <2>2
<1>4. CASE EmptyHeader
  BY <1>1, <1>4 DEF EmptyHeader, Parsing, InHeaders
<1>5. CASE HeaderRefused
  BY <1>1, <1>5 DEF HeaderRefused, Parsing, InHeaders
<1>6. CASE ReadData(b)
  <2>1. CASE Take(b)
    <3>1. result' = TAR_OK /\ callbacks' = callbacks /\ callbacks
      BY <1>6, <2>1 DEF ReadData, Take, Miss, InData
    <3>2. QED
      BY <3>1
  <2>2. CASE Miss(b)
    <3>1. block_read' = 0 /\ readstep' = 0
      BY <1>1, <1>6, <2>2 DEF ReadData, Take, Miss, InData
    <3>2. QED
      BY <3>1
  <2>3. QED
    BY <1>6, <2>1, <2>2 DEF ReadData
<1>7. CASE ReadHeader(b)
  <2>1. CASE Take(b)
    <3>1. result' = TAR_OK /\ callbacks' = callbacks /\ callbacks
      BY <1>7, <2>1 DEF ReadHeader, Take, Miss, InHeaders
    <3>2. QED
      BY <3>1
  <2>2. CASE Miss(b)
    <3>1. block_read' = 0 /\ readstep' = 0
      BY <1>1, <1>7, <2>2 DEF ReadHeader, Take, Miss, InHeaders
    <3>2. QED
      BY <3>1
  <2>3. QED
    BY <1>7, <2>1, <2>2 DEF ReadHeader
<1>8. ASSUME NEW ok \in BOOLEAN, ExpandData(ok) \/ EndData(ok) \/ OpenBare(ok)
      PROVE  RestAfterSession'
  <2>1. CASE ExpandData(ok)
    BY <1>1, <2>1 DEF ExpandData, InData
  <2>2. CASE EndData(ok)
    BY <1>1, <2>2 DEF EndData, InData, ReadTarStepReturns, DataLeft, CountersOK
  <2>3. CASE OpenBare(ok)
    <3>1. block_read = 0
      BY <1>1, <2>3 DEF OpenBare, Opened, Parsing, InHeaders
    <3>2. block_read' = 0 /\ readstep' = 0
      BY <2>3, <3>1 DEF OpenBare, Opened, Parsing
    <3>3. QED
      BY <3>2
  <2>4. QED
    BY <1>8, <2>1, <2>2, <2>3
<1>9. ASSUME NEW n \in 1..MaxBlocks, OpenAndRead(n, b)
      PROVE  RestAfterSession'
  <2>1. CASE Take(b)
    <3>1. result' = TAR_OK /\ callbacks' = callbacks
      BY <1>9, <2>1 DEF OpenAndRead, Take, Miss
    <3>2. callbacks
      BY <1>9 DEF OpenAndRead, Opened, Parsing, InHeaders
    <3>3. QED
      BY <3>1, <3>2
  <2>2. CASE Miss(b)
    <3>1. block_read' = 0 /\ readstep' = 0
      BY <1>9, <2>2 DEF OpenAndRead, Opened, Parsing, Take, Miss
    <3>2. QED
      BY <3>1
  <2>3. QED
    BY <1>9, <2>1, <2>2 DEF OpenAndRead
<1>10. ASSUME NEW n \in 1..MaxBlocks, NEW ok \in BOOLEAN, OpenAndExpand(n, ok)
       PROVE  RestAfterSession'
  <2>1. block_read = 0
    BY <1>1, <1>10 DEF OpenAndExpand, Opened, Parsing, InHeaders
  <2>2. QED
    BY <1>10, <2>1 DEF OpenAndExpand
<1>11. QED
  BY StepCases, <1>2, <1>3, <1>4, <1>5, <1>6, <1>7, <1>8, <1>9, <1>10 DEF StepCase

\* The invariant holds when a session is opened, and each of its steps keeps it.
LEMMA SetupIInv ==
  ASSUME FreshStart, TypeOK, NEW a \in Archives, SetupOK(a)
  PROVE  IInv'
<1>1. a \in Seq(Block)
  BY ArchivesAssumption
<1>2. Aligned'
  BY <1>1 DEF SetupOK, Aligned, Live, Called, BetweenEntries, AtRest, static
<1>3. BufferHeld' /\ RestAfterSession'
  BY DEF SetupOK, BufferHeld, RestAfterSession, Called
<1>4. QED
  BY <1>2, <1>3, SetupTypeOK DEF IInv

LEMMA StepIInv ==
  ASSUME IInv, NEW b \in Int, Next1(b), ReadTarStep(b)
  PROVE  IInv'
BY StepTypeOK, StepAligned, StepBuffer, StepRest DEF IInv

LEMMA SameIInv == IInv /\ UNCHANGED vars => IInv'
BY DEF vars, position, static, data, IInv, TypeOK, CountersOK, CodesOK, Aligned, Live,
   Called, BetweenEntries, InsideEntry, BufferHeld, RestAfterSession, AtRest

\* The inductive invariant, when a device left with a static set is rebooted
\* before its next session. It is needed as a whole: Aligned holds after tar_setup
\* only if the statics are at rest, which RestAfterSession brings about.
LEMMA Invariance == ASSUME FreshStart PROVE Spec => []IInv
<1>1. Init => IInv
  <2> SUFFICES ASSUME Init PROVE IInv
    OBVIOUS
  <2>1. Aligned /\ RestAfterSession
    BY DEF Init, Aligned, Live, Called, RestAfterSession, AtRest
  <2>2. BufferHeld
    BY DEF Init, BufferHeld, Called
  <2>3. QED
    BY <2>1, <2>2, InitTypeOK DEF IInv
<1>2. IInv /\ [Next]_vars => IInv'
  <2> SUFFICES ASSUME IInv, [Next]_vars PROVE IInv'
    OBVIOUS
  <2>1. CASE Reboot
    <3>1. Aligned' /\ RestAfterSession'
      BY <2>1 DEF Reboot, Aligned, Live, Called, RestAfterSession, AtRest
    <3>2. BufferHeld'
      BY <2>1 DEF Reboot, BufferHeld, Called
    <3>3. QED
      BY <2>1, <3>1, <3>2, RebootTypeOK DEF IInv
  <2>2. CASE Setup
    <3>1. ASSUME SetupNoHeap
          PROVE  Aligned' /\ BufferHeld' /\ RestAfterSession'
      BY <3>1 DEF SetupNoHeap, Aligned, Live, Called, BufferHeld, RestAfterSession
    <3>2. QED
      BY <2>2, <3>1, SetupTypeOK, SetupIInv DEF Setup, IInv
  <2>3. CASE Step
    <3>1. PICK b \in Offered : ReadTarStep(b)
      BY <2>3 DEF Step
    <3>2. b \in Int /\ Next1(b)
      BY DEF Offered, Next1, IInv, TypeOK, CountersOK
    <3>3. QED
      BY <3>1, <3>2, StepIInv
  <2>4. QED
    BY <2>1, <2>2, <2>3, SameIInv DEF Next
<1>3. QED
  BY <1>1, <1>2, PTL DEF Spec

\* Nothing of an archive is skipped, repeated or given to another entry than its
\* own, by the bookkeeping of tar_step and tar_datablock_step.
THEOREM AlignedAlways == ASSUME FreshStart PROVE Spec => []Aligned
<1>1. IInv => Aligned
  BY DEF IInv
<1>2. QED
  BY <1>1, Invariance, PTL

\* read_buffer is freed exactly when the callbacks are dropped, on every path.
THEOREM BufferHeldAlways == ASSUME FreshStart PROVE Spec => []BufferHeld
<1>1. IInv => BufferHeld
  BY DEF IInv
<1>2. QED
  BY <1>1, Invariance, PTL

\* The function statics, which tar_setup cannot reset, are back at zero after
\* every session that was not ended by a refused write.
THEOREM RestAfterSessionAlways == ASSUME FreshStart PROVE Spec => []RestAfterSession
<1>1. IInv => RestAfterSession
  BY DEF IInv
<1>2. QED
  BY <1>1, Invariance, PTL

-----------------------------------------------------------------------------
(***************************************************************************)
(* The refinement: what one call of read_tar_step does is one step of the  *)
(* abstract reader, or none that its callbacks can tell.                   *)
(***************************************************************************)

\* What the abstract reader sees of a session that goes on inside an entry.
LEMMA InsideView ==
  ASSUME IInv, InData
  PROVE  /\ Position = entry + num_blocks_iterator /\ Current = entry
         /\ Got = num_blocks_iterator /\ Empties = empty_count
         /\ Entries = entry_index /\ Status = "running" /\ InsideEntry
         /\ fed <= Len(archive)
<1>1. CountersOK /\ Aligned
  BY DEF IInv, TypeOK
<1>2. InsideEntry /\ fed <= Len(archive)
  BY <1>1 DEF Aligned, InData, BetweenEntries
<1>3. SessionOpen /\ callbacks /\ indatablock = 0
  BY DEF InData, Live, Called, SessionOpen
<1>4. QED
  BY <1>2, <1>3 DEF Position, Current, Got, Empties, Entries, Status, Expanding

\* And of one that goes on between two entries.
LEMMA BetweenView ==
  ASSUME IInv, InHeaders
  PROVE  /\ Position = fed - readstep /\ Current = 0 /\ Got = 0
         /\ Empties = empty_count /\ Entries = entry_index
         /\ Status = "running" /\ BetweenEntries /\ fed <= Len(archive)
<1>1. CountersOK /\ Aligned
  BY DEF IInv, TypeOK
<1>2. BetweenEntries /\ fed <= Len(archive)
  BY <1>1 DEF Aligned, InHeaders, InsideEntry
<1>3. SessionOpen /\ callbacks /\ indatablock = -1
  BY DEF InHeaders, Live, Called, SessionOpen
<1>4. QED
  BY <1>2, <1>3 DEF Position, Current, Got, Empties, Entries, Status, Expanding

\* The step that finds the session over changes nothing.
LEMMA RefinedRefused ==
  ASSUME IInv, Refused
  PROVE  UNCHANGED Reader!readerVars
<1>1. ~callbacks /\ result = TAR_OK /\ result' = TAR_ERROR /\ ~callbacks'
  BY DEF IInv, BufferHeld, Refused, Called, NoCallbacks, Abort
<1>2. SessionOpen /\ SessionOpen' /\ ~Expanding /\ ~Expanding'
  BY <1>1 DEF SessionOpen, Expanding
<1>3. Status' = Status
  BY <1>1, <1>2 DEF Status
<1>4. Position' = Position
  BY <1>2 DEF Position, Refused, position, data, static
<1>5. Current' = Current /\ Got' = Got /\ Empties' = Empties /\ Entries' = Entries
  BY <1>2 DEF Current, Got, Empties, Entries, Refused
<1>6. archive' = archive /\ calls' = calls
  BY DEF Refused, position
<1>7. QED
  BY <1>3, <1>4, <1>5, <1>6 DEF Reader!readerVars

\* Reading a data block cannot be told from outside; missing one fails the session.
LEMMA RefinedReadData ==
  ASSUME IInv, NEW b \in Int, ReadData(b)
  PROVE  Reader!Next \/ UNCHANGED Reader!readerVars
<1>1. /\ InData /\ archive' = archive /\ entry' = entry /\ indatablock' = indatablock
      /\ num_blocks_iterator' = num_blocks_iterator
      /\ empty_count' = empty_count /\ entry_index' = entry_index /\ indatablock = 0
  BY DEF ReadData, data, InData
<1>2. /\ Position = entry + num_blocks_iterator /\ Current = entry
      /\ Got = num_blocks_iterator /\ Empties = empty_count
      /\ Entries = entry_index /\ Status = "running" /\ entry # 0
  <2>1. entry # 0
    BY <1>1, InsideView DEF InsideEntry, IInv, TypeOK, CountersOK
  <2>2. QED
    BY <1>1, <2>1, InsideView
<1>3. CASE Take(b)
  <2>1. result' = TAR_OK /\ callbacks' /\ calls' = calls
    BY <1>1, <1>3 DEF ReadData, Miss, Take, InData, Live
  <2>2. SessionOpen' /\ Expanding'
    BY <1>1, <2>1 DEF SessionOpen, Expanding
  <2>3. /\ Position' = Position /\ Current' = Current /\ Got' = Got
        /\ Empties' = Empties /\ Entries' = Entries /\ Status' = Status
    BY <1>1, <1>2, <2>1, <2>2 DEF Position, Current, Got, Empties, Entries, Status
  <2>4. QED
    BY <1>1, <2>1, <2>3 DEF Reader!readerVars
<1>4. CASE Miss(b)
  <2>1. result' = TAR_ERR_READBLOCK_FAIL /\ ~callbacks' /\ calls' = <<>>
    BY <1>4 DEF ReadData, Miss, Take, Abort
  <2>2. SessionOpen' /\ ~Expanding'
    BY <2>1 DEF SessionOpen, Expanding
  <2>3. /\ Position' = Position /\ Current' = 0 /\ Got' = 0
        /\ Empties' = Empties /\ Entries' = Entries /\ Status' = "failed"
    BY <1>1, <1>2, <2>1, <2>2 DEF Position, Current, Got, Empties, Entries, Status
  <2>4. Reader!Truncated
    BY <1>1, <1>2, <2>1, <2>3 DEF Reader!Truncated, Reader!Running
  <2>5. QED
    BY <2>4 DEF Reader!Next
<1>5. QED
  BY <1>3, <1>4 DEF ReadData

\* The block handed to write_cb is the one the reader expects next.
LEMMA RefinedExpandData ==
  ASSUME IInv, NEW ok \in BOOLEAN, ExpandData(ok)
  PROVE  Reader!Next
<1>1. /\ InData /\ DataLeft /\ block_read = 1
      /\ archive' = archive /\ entry' = entry /\ indatablock' = indatablock
      /\ empty_count' = empty_count /\ entry_index' = entry_index /\ indatablock = 0
  BY DEF ExpandData, position, InData
<1>2. CountersOK
  BY DEF IInv, TypeOK
<1>3. /\ Position = entry + num_blocks_iterator /\ Current = entry
      /\ Got = num_blocks_iterator /\ Empties = empty_count
      /\ Entries = entry_index /\ Status = "running" /\ InsideEntry /\ fed <= Len(archive)
  BY <1>1, InsideView
<1>4. entry # 0 /\ num_blocks_iterator < num_blocks /\ archive[entry].blocks = num_blocks
  BY <1>1, <1>2, <1>3 DEF InsideEntry, DataLeft, CountersOK
<1>5. Position + 1 = fed /\ read_buffer = fed /\ Position < Len(archive)
  <2>1. entry + num_blocks_iterator + 1 = fed /\ read_buffer = fed
    BY <1>1, <1>3 DEF InsideEntry
  <2>2. QED
    BY <1>2, <1>3, <2>1 DEF CountersOK
<1>6. (num_blocks_iterator >= num_blocks - 1) = (Got + 1 = archive[Current].blocks)
  BY <1>2, <1>3, <1>4 DEF CountersOK
<1>7. calls' = <<Reader!WriteCall(Position + 1, Got + 1 = archive[Current].blocks)>>
  BY <1>5, <1>6 DEF ExpandData, WriteCall, Reader!WriteCall
<1>8. CASE ok
  <2>1. result' = TAR_OK /\ callbacks' /\ num_blocks_iterator' = num_blocks_iterator + 1
    BY <1>1, <1>8 DEF ExpandData, InData, Live
  <2>2. SessionOpen' /\ Expanding'
    BY <1>1, <2>1 DEF SessionOpen, Expanding
  <2>3. /\ Position' = Position + 1 /\ Current' = Current /\ Got' = Got + 1
        /\ Empties' = Empties /\ Entries' = Entries /\ Status' = "running"
    BY <1>1, <1>2, <1>3, <2>1, <2>2
       DEF Position, Current, Got, Empties, Entries, Status, CountersOK
  <2>4. Reader!Write(TRUE)
    BY <1>1, <1>3, <1>4, <1>5, <1>7, <2>3 DEF Reader!Write, Reader!Running, Reader!StatusIf
  <2>5. QED
    BY <2>4 DEF Reader!Next
<1>9. CASE ~ok
  <2>1. /\ result' = TAR_ERR_DATACB_FAIL /\ ~callbacks'
        /\ num_blocks_iterator' = num_blocks_iterator
    BY <1>9 DEF ExpandData, Abort
  <2>2. SessionOpen' /\ ~Expanding'
    BY <2>1 DEF SessionOpen, Expanding
  <2>3. /\ Position' = Position /\ Current' = 0 /\ Got' = 0
        /\ Empties' = Empties /\ Entries' = Entries /\ Status' = "failed"
    BY <1>1, <1>3, <2>1, <2>2 DEF Position, Current, Got, Empties, Entries, Status
  <2>4. Reader!Write(FALSE)
    BY <1>1, <1>3, <1>4, <1>5, <1>7, <2>3 DEF Reader!Write, Reader!Running, Reader!StatusIf
  <2>5. QED
    BY <2>4 DEF Reader!Next
<1>10. QED
  BY <1>8, <1>9

\* An entry is ended when it has all its data, under its own header.
LEMMA RefinedEndData ==
  ASSUME IInv, NEW ok \in BOOLEAN, EndData(ok)
  PROVE  Reader!Next
<1>1. /\ InData /\ ~DataLeft /\ archive' = archive /\ fed' = fed
      /\ indatablock' = -1 /\ readstep' = readstep /\ empty_count' = empty_count
      /\ calls' = <<Reader!EndCall(entry)>>
  BY DEF EndData, position, static, EndCall, Reader!EndCall
<1>2. CountersOK
  BY DEF IInv, TypeOK
<1>3. /\ Position = entry + num_blocks_iterator /\ Current = entry
      /\ Got = num_blocks_iterator /\ Empties = empty_count
      /\ Entries = entry_index /\ Status = "running" /\ InsideEntry
  BY <1>1, InsideView
<1>4. /\ entry # 0 /\ num_blocks_iterator = num_blocks /\ archive[entry].blocks = num_blocks
      /\ Position = fed /\ readstep = 0
  <2>1. entry # 0 /\ archive[entry].blocks = num_blocks /\ readstep = 0
    BY <1>2, <1>3 DEF InsideEntry, CountersOK
  <2>2. num_blocks_iterator = num_blocks /\ block_read = 0
    BY <1>1, <1>2, <1>3 DEF InsideEntry, CountersOK, DataLeft
  <2>3. entry + num_blocks_iterator = fed
    BY <1>2, <1>3, <2>2 DEF InsideEntry, CountersOK
  <2>4. QED
    BY <1>3, <2>1, <2>2, <2>3
<1>5. SessionOpen' /\ ~Expanding' /\ Position' = fed
  BY <1>1, <1>2, <1>4 DEF EndData, SessionOpen, Expanding, Position, CountersOK, ReadTarStepReturns
<1>6. Current' = 0 /\ Got' = 0 /\ Empties' = Empties
  BY <1>1, <1>3, <1>5 DEF Current, Got, Empties
<1>7. CASE ok
  <2>1. callbacks' /\ entry_index' = entry_index + 1
    BY <1>1, <1>7 DEF EndData, InData, Live
  <2>2. Entries' = Entries + 1 /\ Status' = "running"
    BY <1>3, <1>5, <2>1 DEF Entries, Status
  <2>3. Reader!End(TRUE)
    BY <1>1, <1>3, <1>4, <1>5, <1>6, <2>2 DEF Reader!End, Reader!Running, Reader!StatusIf
  <2>4. QED
    BY <2>3 DEF Reader!Next
<1>8. CASE ~ok
  <2>1. ~callbacks' /\ entry_index' = entry_index /\ result' = TAR_ERR_FOOTERCB_FAIL
    BY <1>8 DEF EndData, Abort
  <2>2. Entries' = Entries /\ Status' = "failed"
    BY <1>3, <1>5, <2>1 DEF Entries, Status
  <2>3. Reader!End(FALSE)
    BY <1>1, <1>3, <1>4, <1>5, <1>6, <2>2 DEF Reader!End, Reader!Running, Reader!StatusIf
  <2>4. QED
    BY <2>3 DEF Reader!Next
<1>9. QED
  BY <1>7, <1>8

\* Two empty headers are the end.
LEMMA RefinedDone ==
  ASSUME IInv, Done
  PROVE  Reader!Next
<1>1. /\ InHeaders /\ archive' = archive /\ fed' = fed /\ readstep' = readstep
      /\ indatablock' = indatablock /\ indatablock = -1 /\ empty_count' = empty_count
      /\ entry_index' = entry_index /\ calls' = <<>> /\ ~callbacks'
      /\ result' = TAR_EXPANDING_DONE /\ empty_count = 2
  BY DEF Done, position, static, data, InHeaders, Abort, HeadersLeft, IInv, TypeOK, CountersOK
<1>2. /\ Position = fed - readstep /\ Current = 0 /\ Got = 0 /\ Empties = empty_count
      /\ Entries = entry_index /\ Status = "running"
  BY <1>1, BetweenView
<1>3. SessionOpen' /\ ~Expanding'
  BY <1>1 DEF SessionOpen, Expanding
<1>4. /\ Position' = Position /\ Current' = 0 /\ Got' = 0
      /\ Empties' = Empties /\ Entries' = Entries /\ Status' = "done"
  BY <1>1, <1>2, <1>3 DEF Position, Current, Got, Empties, Entries, Status
<1>5. Reader!Finish
  BY <1>1, <1>2, <1>4 DEF Reader!Finish, Reader!Running
<1>6. QED
  BY <1>5 DEF Reader!Next

\* Reading a header block cannot be told from outside; missing one fails the
\* session.
LEMMA RefinedReadHeader ==
  ASSUME IInv, NEW b \in Int, ReadHeader(b)
  PROVE  Reader!Next \/ UNCHANGED Reader!readerVars
<1>1. /\ InHeaders /\ archive' = archive /\ readstep = 0 /\ indatablock' = indatablock
      /\ indatablock = -1 /\ empty_count' = empty_count /\ entry_index' = entry_index
      /\ empty_count < 2 /\ fed \in Nat
  BY DEF ReadHeader, data, InHeaders, HeadersLeft, IInv, TypeOK, CountersOK
<1>2. /\ Position = fed /\ Current = 0 /\ Got = 0 /\ Empties = empty_count
      /\ Entries = entry_index /\ Status = "running"
  BY <1>1, BetweenView
<1>3. CASE Take(b)
  <2>1. /\ result' = TAR_OK /\ callbacks' /\ calls' = calls
        /\ fed' = fed + 1 /\ readstep' = 1
    BY <1>1, <1>3 DEF ReadHeader, Miss, Take, InHeaders, Live
  <2>2. SessionOpen' /\ ~Expanding'
    BY <1>1, <2>1 DEF SessionOpen, Expanding
  <2>3. Position' = Position
    BY <1>1, <1>2, <2>1, <2>2 DEF Position
  <2>4. /\ Current' = Current /\ Got' = Got
        /\ Empties' = Empties /\ Entries' = Entries /\ Status' = Status
    BY <1>1, <1>2, <2>1, <2>2 DEF Current, Got, Empties, Entries, Status
  <2>5. QED
    BY <1>1, <2>1, <2>3, <2>4 DEF Reader!readerVars
<1>4. CASE Miss(b)
  <2>1. /\ result' = TAR_OK /\ ~callbacks' /\ calls' = <<>>
        /\ fed' = fed /\ readstep' = 0
    BY <1>1, <1>4 DEF ReadHeader, Miss, Take, Abort, ReadTarStepReturns
  <2>2. SessionOpen' /\ ~Expanding'
    BY <2>1 DEF SessionOpen, Expanding
  <2>3. Position' = Position
    BY <1>1, <1>2, <2>1, <2>2 DEF Position
  <2>4. /\ Current' = 0 /\ Got' = 0
        /\ Empties' = Empties /\ Entries' = Entries /\ Status' = "failed"
    BY <1>1, <1>2, <2>1, <2>2 DEF Current, Got, Empties, Entries, Status
  <2>5. Reader!Truncated
    BY <1>1, <1>2, <2>1, <2>3, <2>4 DEF Reader!Truncated, Reader!Running
  <2>6. QED
    BY <2>5 DEF Reader!Next
<1>5. QED
  BY <1>3, <1>4 DEF ReadHeader

\* What the reader sees when a header block is about to be parsed: it is the next
\* block of the archive, and no other.
LEMMA ParsingView ==
  ASSUME IInv, Parsing
  PROVE  /\ Reader!AtHeader /\ Position + 1 = fed /\ read_buffer = fed /\ fed \in Nat
         /\ Views(read_buffer) = {archive[Position + 1]}
         /\ archive[Position + 1] \in Block
         /\ Current = 0 /\ Got = 0 /\ Empties = empty_count
         /\ Entries = entry_index /\ Status = "running" /\ block_read = 0
<1>1. InHeaders /\ HeadersLeft /\ readstep = 1 /\ CountersOK /\ archive \in Seq(Block)
  BY DEF Parsing, IInv, TypeOK
<1>2. /\ Position = fed - 1 /\ Current = 0 /\ Got = 0 /\ Empties = empty_count
      /\ Entries = entry_index /\ Status = "running" /\ BetweenEntries /\ fed <= Len(archive)
  BY <1>1, BetweenView
<1>3. fed \in 1..Len(archive) /\ read_buffer = fed /\ Position + 1 = fed /\ block_read = 0
  BY <1>1, <1>2 DEF BetweenEntries, CountersOK
<1>4. Reader!AtHeader
  BY <1>1, <1>2, <1>3 DEF Reader!AtHeader, Reader!Running, HeadersLeft, CountersOK
<1>5. Views(read_buffer) = {archive[Position + 1]} /\ archive[Position + 1] \in Block
  BY <1>1, <1>3 DEF Views
<1>6. QED
  BY <1>1, <1>2, <1>3, <1>4, <1>5 DEF CountersOK

\* An empty header is counted and nothing is called.
LEMMA RefinedEmptyHeader ==
  ASSUME IInv, EmptyHeader
  PROVE  Reader!Next
<1>1. /\ Parsing /\ archive' = archive /\ fed' = fed /\ readstep' = 0
      /\ indatablock' = indatablock /\ indatablock = -1 /\ empty_count' = empty_count + 1
      /\ entry_index' = entry_index /\ calls' = <<>> /\ callbacks' /\ result' = TAR_OK
  BY DEF EmptyHeader, Parsing, position, data, InHeaders, Live
<1>2. SessionOpen' /\ ~Expanding'
  BY <1>1 DEF SessionOpen, Expanding
<1>3. Position' = Position + 1
  BY <1>1, <1>2, ParsingView DEF Position
<1>4. /\ Current' = Current /\ Got' = Got /\ Empties' = Empties + 1
      /\ Entries' = Entries /\ Status' = Status
  BY <1>1, <1>2, ParsingView DEF Current, Got, Empties, Entries, Status
<1>5. ~archive[Position + 1].named
  BY <1>1, ParsingView DEF EmptyHeader
<1>6. Reader!EmptyHeader
  BY <1>1, <1>3, <1>4, <1>5, ParsingView DEF Reader!EmptyHeader
<1>7. QED
  BY <1>6 DEF Reader!Next

\* A refused header fails the session, whether or not the entry has data.
LEMMA RefinedHeaderRefused ==
  ASSUME IInv, HeaderRefused
  PROVE  Reader!Next
<1>1. /\ Parsing /\ archive' = archive /\ fed' = fed /\ readstep' = 0
      /\ indatablock' = indatablock /\ indatablock = -1 /\ empty_count' = empty_count
      /\ entry_index' = entry_index /\ ~callbacks' /\ result' = TAR_ERR_HEADERCB_FAIL
      /\ calls' = <<Reader!HeaderCall(Position + 1)>>
  BY ParsingView DEF HeaderRefused, Parsing, position, InHeaders, Abort, HeaderCall, Reader!HeaderCall
<1>2. SessionOpen' /\ ~Expanding'
  BY <1>1 DEF SessionOpen, Expanding
<1>3. Position' = Position + 1
  BY <1>1, <1>2, ParsingView DEF Position
<1>4. /\ Current' = 0 /\ Got' = 0 /\ Empties' = Empties
      /\ Entries' = Entries /\ Status' = "failed"
  BY <1>1, <1>2, ParsingView DEF Current, Got, Empties, Entries, Status
<1>5. archive[Position + 1].named /\ archive[Position + 1].blocks \in Nat
  BY <1>1, ParsingView, ArchivesAssumption DEF HeaderRefused, Block
<1>6. CASE archive[Position + 1].blocks > 0
  <2>1. Reader!Header(FALSE)
    BY <1>1, <1>3, <1>4, <1>5, <1>6, ParsingView DEF Reader!Header, Reader!StatusIf
  <2>2. QED
    BY <2>1 DEF Reader!Next
<1>7. CASE archive[Position + 1].blocks = 0
  <2>1. Reader!Bare(FALSE, FALSE)
    BY <1>1, <1>3, <1>4, <1>5, <1>7, ParsingView DEF Reader!Bare, Reader!StatusIf
  <2>2. QED
    BY <2>1 DEF Reader!Next
<1>8. QED
  BY <1>5, <1>6, <1>7

\* An entry without data is announced and ended in one step.
LEMMA RefinedOpenBare ==
  ASSUME IInv, NEW ok \in BOOLEAN, OpenBare(ok)
  PROVE  Reader!Next
<1>1. /\ Parsing /\ archive' = archive /\ fed' = fed /\ readstep' = 0
      /\ indatablock' = -1 /\ empty_count' = empty_count /\ result' = TAR_OK
      /\ calls' = <<Reader!HeaderCall(Position + 1), Reader!EndCall(Position + 1)>>
  BY ParsingView DEF OpenBare, Opened, Parsing, HeaderCall, EndCall, Reader!HeaderCall, Reader!EndCall
<1>2. SessionOpen' /\ ~Expanding'
  BY <1>1 DEF SessionOpen, Expanding
<1>3. Position' = Position + 1
  BY <1>1, <1>2, ParsingView DEF Position
<1>4. Current' = Current /\ Got' = Got /\ Empties' = Empties
  BY <1>1, <1>2, ParsingView DEF Current, Got, Empties
<1>5. archive[Position + 1].named /\ archive[Position + 1].blocks = 0
  BY <1>1, ParsingView DEF OpenBare, Opened
<1>6. CASE ok
  <2>1. callbacks' /\ entry_index' = entry_index + 1
    BY <1>1, <1>6 DEF OpenBare, Parsing, InHeaders, Live
  <2>2. Entries' = Entries + 1 /\ Status' = "running"
    BY <1>1, <1>2, <2>1, ParsingView DEF Entries, Status
  <2>3. Reader!Bare(TRUE, TRUE)
    BY <1>1, <1>3, <1>4, <1>5, <2>2, ParsingView DEF Reader!Bare, Reader!StatusIf
  <2>4. QED
    BY <2>3 DEF Reader!Next
<1>7. CASE ~ok
  <2>1. ~callbacks' /\ entry_index' = entry_index
    BY <1>7 DEF OpenBare, Abort
  <2>2. Entries' = Entries /\ Status' = "failed"
    BY <1>1, <1>2, <2>1, ParsingView DEF Entries, Status
  <2>3. Reader!Bare(TRUE, FALSE)
    BY <1>1, <1>3, <1>4, <1>5, <2>2, ParsingView DEF Reader!Bare, Reader!StatusIf
  <2>4. QED
    BY <2>3 DEF Reader!Next
<1>8. QED
  BY <1>6, <1>7

\* An entry with data is announced; when its first block is missing, it fails.
LEMMA RefinedOpenAndRead ==
  ASSUME IInv, NEW n \in 1..MaxBlocks, NEW b \in Int, OpenAndRead(n, b)
  PROVE  Reader!Next
<1>1. /\ Parsing /\ archive' = archive /\ entry' = read_buffer
      /\ num_blocks_iterator' = 0 /\ indatablock' = 0
      /\ empty_count' = empty_count /\ entry_index' = entry_index
      /\ calls' = <<Reader!HeaderCall(Position + 1)>>
  BY ParsingView DEF OpenAndRead, Opened, Parsing, StartIterator, HeaderCall, Reader!HeaderCall
<1>2. archive[Position + 1].named /\ archive[Position + 1].blocks > 0
  BY <1>1, ParsingView DEF OpenAndRead, Opened
<1>3. result' \in {TAR_OK, TAR_ERR_READBLOCK_FAIL}
  BY DEF OpenAndRead
<1>4. SessionOpen'
  BY <1>3 DEF SessionOpen
<1>5. Position' = Position + 1 /\ Empties' = Empties /\ Entries' = Entries
  BY <1>1, <1>4, ParsingView DEF Position, Empties, Entries
<1>6. CASE Take(b)
  <2>1. callbacks'
    BY <1>1, <1>6 DEF OpenAndRead, Take, Miss, Parsing, InHeaders, Live
  <2>2. Current' = Position + 1 /\ Got' = Got /\ Status' = "running"
    BY <1>1, <1>4, <2>1, ParsingView DEF Current, Got, Status, Expanding
  <2>3. Reader!Header(TRUE)
    BY <1>1, <1>2, <1>5, <2>2, ParsingView DEF Reader!Header, Reader!StatusIf
  <2>4. QED
    BY <2>3 DEF Reader!Next
<1>7. CASE Miss(b)
  <2>1. ~callbacks' /\ result' = TAR_ERR_READBLOCK_FAIL
    BY <1>7 DEF OpenAndRead, Take, Miss, Abort
  <2>2. Current' = 0 /\ Got' = Got /\ Status' = "failed"
    BY <1>1, <1>4, <2>1, ParsingView DEF Current, Got, Status, Expanding
  <2>3. Reader!Header(FALSE)
    BY <1>1, <1>2, <1>5, <2>2, ParsingView DEF Reader!Header, Reader!StatusIf
  <2>4. QED
    BY <2>3 DEF Reader!Next
<1>8. QED
  BY <1>6, <1>7 DEF OpenAndRead

\* The header block is never expanded as data: block_read is clear between entries.
LEMMA NoHeaderExpanded ==
  ASSUME IInv, NEW n \in 1..MaxBlocks, NEW ok \in BOOLEAN, OpenAndExpand(n, ok)
  PROVE  FALSE
BY ParsingView DEF OpenAndExpand, Opened

\* What a step of the machine, an open and a close are to the reader.
LEMMA StepRefined ==
  ASSUME IInv, NEW b \in Int, ReadTarStep(b)
  PROVE  Reader!Next \/ UNCHANGED Reader!readerVars
<1>1. Answers("write") \subseteq BOOLEAN /\ Answers("end") \subseteq BOOLEAN
  BY DEF Answers
<1>2. QED
  BY <1>1, RefinedRefused, RefinedDone, RefinedEmptyHeader, RefinedHeaderRefused,
     RefinedReadData, RefinedReadHeader, RefinedExpandData, RefinedEndData,
     RefinedOpenBare, RefinedOpenAndRead, NoHeaderExpanded DEF ReadTarStep

LEMMA OpenRefined ==
  ASSUME FreshStart, NEW a \in Archives, SetupOK(a)
  PROVE  Reader!Open
<1>1. /\ SessionOpen' /\ ~Expanding' /\ callbacks' /\ fed' = 0 /\ readstep' = 0
      /\ indatablock' = -1
  BY DEF SetupOK, SessionOpen, Expanding, AtRest, static
<1>2. Position' = 0 /\ Status' = "running"
  BY <1>1 DEF Position, Status
<1>3. Current' = 0 /\ Got' = 0 /\ Empties' = 0 /\ Entries' = 0
  BY <1>1 DEF SetupOK, Current, Got, Empties, Entries
<1>4. QED
  BY <1>2, <1>3 DEF SetupOK, Reader!Open

LEMMA CloseRefined == ASSUME Reboot \/ SetupNoHeap PROVE Reader!Close
<1>1. ~SessionOpen' /\ ~Expanding' /\ archive' = <<>> /\ calls' = <<>>
  BY DEF Reboot, SetupNoHeap, SessionOpen, Expanding
<1>2. QED
  BY <1>1 DEF Reader!Close, Position, Current, Got, Empties, Entries, Status

LEMMA InitRefined == Init => Reader!Init
BY DEF Init, Reader!Init, Position, Current, Got, Empties, Entries, Status, SessionOpen, Expanding

LEMMA SameRefined == UNCHANGED vars => UNCHANGED Reader!readerVars
BY DEF vars, position, data, static, Reader!readerVars, Position, Current, Got,
   Empties, Entries, Status, SessionOpen, Expanding

\* TinyUntar, called step by step, is the reader of module TarReader: whatever the
\* callbacks answer and wherever the input stops, no block is delivered twice, out
\* of order or to another entry, and nothing is called after a refusal.
THEOREM Implementation == ASSUME FreshStart PROVE Spec => ImplementsReader
<1>1. IInv /\ [Next]_vars => [Reader!Next]_(Reader!readerVars)
  <2> SUFFICES ASSUME IInv, [Next]_vars
               PROVE  Reader!Next \/ UNCHANGED Reader!readerVars
    OBVIOUS
  <2>1. ASSUME NEW b \in Offered, ReadTarStep(b)
        PROVE  Reader!Next \/ UNCHANGED Reader!readerVars
    <3>1. b \in Int
      BY DEF Offered, IInv, TypeOK, CountersOK
    <3>2. QED
      BY <2>1, <3>1, StepRefined
  <2>2. QED
    BY <2>1, OpenRefined, CloseRefined, SameRefined DEF Next, Setup, Step, Reader!Next
<1>2. QED
  BY <1>1, InitRefined, Invariance, PTL DEF Spec, ImplementsReader, Reader!Spec

-----------------------------------------------------------------------------
(***************************************************************************)
(* The machine fed by the decompressor.                                    *)
(***************************************************************************)
\* The conjuncts of GzTypeOK.
StreamTypes ==
  /\ stream \in Seq(Block) /\ produced \in 0..Len(stream)
  /\ res \in {TINF_OK, TINF_DONE, TINF_DATA_ERROR, TINF_CHKSUM_ERROR}
BufferTypes == output_buffer \in [0..blockmod-1 -> Int] /\ output_position \in 0..blockmod
CountTypes ==
  outlen \in Nat /\ gzTarBlockPos \in 0..blockmod /\ untarredBytesCount \in Nat
CodeTypes == _error \in Int /\ return_value \in Int
LabelTypes ==
  /\ pc \in {"idle", "inflate", "write", "tar", "finish"} /\ mode \in {"push", "pull"}
  /\ readSourceErrors \in BOOLEAN /\ firstblock \in BOOLEAN /\ lastblock \in BOOLEAN
GzTypes == TypeOK /\ StreamTypes /\ BufferTypes /\ CountTypes /\ CodeTypes /\ LabelTypes

\* Something was written as soon as tar is set up and the decompressor goes on.
Stages ==
  /\ pc \in {"inflate", "write"} => mode = "push"
  /\ pc = "inflate" => output_position < blockmod /\ res = TINF_OK /\ (firstblock \/ outlen > 0)
  /\ pc = "write" => output_position > 0
  /\ pc = "tar" /\ mode = "push" => ~firstblock /\ ~lastblock /\ output_position > 0
  /\ pc = "finish" /\ mode = "push" => firstblock \/ outlen > 0
  /\ pc # "idle" /\ lastblock => ~firstblock

\* Before the end of the stream a buffer is full when it is handed over, and all that was
\* decompressed is in it, or tar has it.
Taken ==
  /\ pc \in {"inflate", "write"} /\ res = TINF_OK =>
       /\ firstblock => produced = output_position
       /\ ~firstblock /\ ~lastblock => fed + output_position = produced
  /\ pc \in {"write", "tar"} /\ mode = "push" /\ res = TINF_OK => output_position = blockmod
  /\ pc = "tar" /\ mode = "push" /\ res = TINF_OK => fed + (blockmod - gzTarBlockPos) = produced

GzIInv == GzTypes /\ Stages /\ Taken /\ WholeStreamSucceeds

USE DEF ESP32_TARGZ_OK, ESP32_TARGZ_STREAM_ERROR, ESP32_TARGZ_TAR_ERR_GZREAD_FAIL,
        ESP32_TARGZ_UZLIB_MALLOC_FAIL, NoReturn, TINF_OK, TINF_DONE, TINF_DATA_ERROR,
        TINF_CHKSUM_ERROR, TAR_EXPANDING_DONE, TAR_OK, TAR_ERROR, TAR_ERR_DATACB_FAIL,
        TAR_ERR_HEADERCB_FAIL, TAR_ERR_FOOTERCB_FAIL, TAR_ERR_READBLOCK_FAIL,
        TAR_ERROR_HEAP, NotCalled, NULL, Short, Zeroed, Garbage

-----------------------------------------------------------------------------
(***************************************************************************)
(* The tar machine: what of it gzUncompress relies on.                     *)
(***************************************************************************)
LEMMA Blocks1 == blockmod \in Nat /\ blockmod >= 1
BY BlockmodAssumption

\* "this may fire more than 1": a call of read_tar_step takes one block at the most.
LEMMA OneBlock ==
  ASSUME TypeOK, NEW b \in Int, ReadTarStep(b)
  PROVE  fed' \in {fed, fed + 1}
<1> USE DEF position
<1>1. StepCase(b)
  BY StepCases
<1>2. ASSUME NEW ok \in BOOLEAN, ExpandData(ok) \/ EndData(ok) \/ OpenBare(ok)
      PROVE  fed' = fed
  BY <1>2 DEF ExpandData, EndData, OpenBare
<1>3. ASSUME NEW n \in 1..MaxBlocks, OpenAndRead(n, b)
      PROVE  fed' \in {fed, fed + 1}
  BY <1>3 DEF OpenAndRead, Take, Miss
<1>4. ASSUME NEW n \in 1..MaxBlocks, NEW ok \in BOOLEAN, OpenAndExpand(n, ok)
      PROVE  fed' = fed
  BY <1>4 DEF OpenAndExpand
<1>5. CASE Refused \/ Done \/ EmptyHeader \/ HeaderRefused
  BY <1>5 DEF Refused, Done, EmptyHeader, HeaderRefused
<1>6. CASE ReadData(b) \/ ReadHeader(b)
  BY <1>6 DEF ReadData, ReadHeader, Take, Miss
<1>7. QED
  BY <1>1, <1>2, <1>3, <1>4, <1>5, <1>6 DEF StepCase

LEMMA SetupStream ==
  ASSUME TypeOK, NEW a \in Seq(Block), SetupOK(a)
  PROVE  TypeOK' /\ fed' = 0 /\ result' = TAR_OK
<1>1. CountersOK' /\ CodesOK'
  BY DEF SetupOK, TypeOK, CountersOK, CodesOK, TarErrors, Results, static
<1>2. archive' \in Seq(Block) /\ calls' \in Seq(Call) /\ callbacks' \in BOOLEAN
  BY DEF SetupOK
<1>3. QED
  BY <1>1, <1>2 DEF TypeOK, SetupOK

LEMMA SameTar ==
  ASSUME TypeOK, UNCHANGED vars
  PROVE  TypeOK' /\ fed' = fed /\ result' = result /\ tar_error' = tar_error
BY DEF vars, TypeOK, CountersOK, CodesOK, position, static, data

-----------------------------------------------------------------------------
(***************************************************************************)
(* A call that returns, or starts.                                         *)
(***************************************************************************)
LEMMA ClearBuffer ==
  ASSUME output_buffer' = [i \in 0..blockmod-1 |-> Zeroed], output_position' = 0
  PROVE  BufferTypes'
<1>1. [i \in 0..blockmod-1 |-> Zeroed] \in [0..blockmod-1 -> Int]
  OBVIOUS
<1>2. 0 \in 0..blockmod
  BY Blocks1
<1>3. QED
  BY <1>1, <1>2, Zenon DEF BufferTypes

\* What a return leaves: the locals are gone, the code is kept.
LEMMA ReturnTypes ==
  ASSUME GzTypes, NEW code \in Int, Return(code)
  PROVE  /\ BufferTypes' /\ CodeTypes' /\ pc' = "idle" /\ return_value' = code
         /\ outlen' = 0 /\ produced' = 0
<1>1. BufferTypes'
  BY ClearBuffer DEF Return, FreeLocals
<1>2. CodeTypes'
  BY DEF GzTypes, CodeTypes, Return, SetError
<1>3. QED
  BY <1>1, <1>2 DEF Return, FreeLocals

\* A call that has returned: what is left to show is that it had a reason to fail.
LEMMA ReturnedIInv ==
  ASSUME GzIInv, NEW code \in Int, Return(code), TypeOK',
         UNCHANGED <<mode, stream, firstblock>>, res' \in {res, TINF_DATA_ERROR, TINF_OK},
         readSourceErrors' \in BOOLEAN, lastblock' \in BOOLEAN,
         gzTarBlockPos' \in 0..blockmod, untarredBytesCount' \in Nat,
         \/ code \in {ESP32_TARGZ_OK, ESP32_TARGZ_UZLIB_MALLOC_FAIL} \/ firstblock
         \/ mode # "push" \/ res' = TINF_DATA_ERROR \/ result' \notin {TAR_OK, TAR_EXPANDING_DONE}
  PROVE  GzIInv'
<1>1. /\ BufferTypes' /\ CodeTypes' /\ pc' = "idle" /\ return_value' = code
      /\ outlen' = 0 /\ produced' = 0
  BY ReturnTypes DEF GzIInv
<1>2. StreamTypes'
  BY <1>1 DEF GzIInv, GzTypes, StreamTypes
<1>3. CountTypes'
  BY <1>1 DEF CountTypes
<1>4. LabelTypes'
  BY <1>1, Zenon DEF GzIInv, GzTypes, LabelTypes
<1>5. GzTypes'
  BY <1>1, <1>2, <1>3, <1>4, Zenon DEF GzTypes
<1>6. Stages' /\ Taken'
  BY <1>1 DEF Stages, Taken
<1>7. WholeStreamSucceeds'
  BY <1>1 DEF WholeStreamSucceeds
<1>8. QED
  BY <1>5, <1>6, <1>7, Zenon DEF GzIInv

LEMMA PoweredOn ==
  ASSUME PowerOn, TypeOK
  PROVE  GzIInv
<1>1. StreamTypes
  BY DEF PowerOn, StreamTypes
<1>2. BufferTypes
  <2>1. [i \in 0..blockmod-1 |-> Zeroed] \in [0..blockmod-1 -> Int]
    OBVIOUS
  <2>2. 0 \in 0..blockmod
    BY Blocks1
  <2>3. QED
    BY <2>1, <2>2, Zenon DEF PowerOn, BufferTypes
<1>3. CountTypes /\ CodeTypes
  BY Blocks1 DEF PowerOn, CountTypes, CodeTypes
<1>4. LabelTypes
  BY Zenon DEF PowerOn, LabelTypes
<1>5. Stages /\ Taken /\ WholeStreamSucceeds
  BY DEF PowerOn, Stages, Taken, WholeStreamSucceeds
<1>6. QED
  BY <1>1, <1>2, <1>3, <1>4, <1>5, Zenon DEF GzIInv, GzTypes

LEMMA RestartIInv == ASSUME Restart PROVE GzIInv'
<1>1. TypeOK'
  BY RebootTypeOK DEF Restart
<1>2. PowerOn'
  BY Zenon DEF Restart, PowerOn
<1>3. (PowerOn /\ TypeOK => GzIInv)'
  BY PoweredOn, PTL
<1>4. QED
  BY <1>1, <1>2, <1>3

LEMMA OpenIInv ==
  ASSUME GzIInv, NEW s \in Archives, Open(s)
  PROVE  GzIInv'
<1>1. s \in Seq(Block) /\ Len(s) \in Nat
  <2>1. s \in Seq(Block)
    BY ArchivesAssumption
  <2>2. QED
    BY <2>1
<1>2. ASSUME NEW m \in {"push", "pull"}, OpenCommon(m, s)
      PROVE  /\ mode' = m /\ res' = TINF_OK /\ output_position' = 0 /\ produced' = 0
             /\ return_value' = NoReturn /\ lastblock' = FALSE /\ readSourceErrors' = FALSE
             /\ StreamTypes' /\ BufferTypes' /\ CountTypes'
  <2>1. StreamTypes'
    BY <1>1, <1>2 DEF OpenCommon, StreamTypes
  <2>2. BufferTypes'
    BY <1>2, ClearBuffer DEF OpenCommon
  <2>3. CountTypes'
    BY <1>2, Blocks1 DEF OpenCommon, CountTypes
  <2>4. QED
    BY <1>2, <2>1, <2>2, <2>3, Zenon DEF OpenCommon
<1>3. CASE OpenPush(s)
  <2>1. OpenCommon("push", s) /\ pc' = "inflate" /\ firstblock' = TRUE /\ UNCHANGED vars
        /\ _error' = _error
    BY <1>3 DEF OpenPush, vars
  <2>2. /\ mode' = "push" /\ res' = TINF_OK /\ output_position' = 0 /\ produced' = 0
        /\ return_value' = NoReturn /\ lastblock' = FALSE /\ readSourceErrors' = FALSE
        /\ StreamTypes' /\ BufferTypes' /\ CountTypes'
    BY <1>2, <2>1
  <2>3. TypeOK'
    BY <2>1, SameTar DEF GzIInv, GzTypes
  <2>4. CodeTypes'
    BY <2>1, <2>2 DEF GzIInv, GzTypes, CodeTypes
  <2>5. LabelTypes'
    BY <2>1, <2>2, Zenon DEF LabelTypes
  <2>6. Stages' /\ Taken' /\ WholeStreamSucceeds'
    BY <2>1, <2>2, Blocks1 DEF Stages, Taken, WholeStreamSucceeds
  <2>7. QED
    BY <2>2, <2>3, <2>4, <2>5, <2>6, Zenon DEF GzIInv, GzTypes
<1>4. CASE OpenPull(s)
  <2>1. OpenCommon("pull", s) /\ pc' = "tar" /\ firstblock' = FALSE /\ SetupOK(s)
        /\ _error' = ESP32_TARGZ_OK
    BY <1>4 DEF OpenPull, SetError
  <2>2. /\ mode' = "pull" /\ res' = TINF_OK /\ output_position' = 0 /\ produced' = 0
        /\ return_value' = NoReturn /\ lastblock' = FALSE /\ readSourceErrors' = FALSE
        /\ StreamTypes' /\ BufferTypes' /\ CountTypes'
    BY <1>2, <2>1
  <2>3. TypeOK'
    BY <1>1, <2>1, SetupStream DEF GzIInv, GzTypes
  <2>4. CodeTypes'
    BY <2>1, <2>2 DEF CodeTypes
  <2>5. LabelTypes'
    BY <2>1, <2>2, Zenon DEF LabelTypes
  <2>6. Stages' /\ Taken' /\ WholeStreamSucceeds'
    BY <2>1, <2>2 DEF Stages, Taken, WholeStreamSucceeds
  <2>7. QED
    BY <2>2, <2>3, <2>4, <2>5, <2>6, Zenon DEF GzIInv, GzTypes
<1>5. QED
  BY <1>3, <1>4 DEF Open

LEMMA OpenFailsIInv == ASSUME GzIInv, OpenFails PROVE GzIInv'
<1>1. /\ Return(ESP32_TARGZ_UZLIB_MALLOC_FAIL) /\ UNCHANGED vars
      /\ UNCHANGED <<mode, stream, firstblock>> /\ res' = res
      /\ readSourceErrors' = readSourceErrors /\ lastblock' = lastblock
      /\ gzTarBlockPos' = gzTarBlockPos /\ untarredBytesCount' = untarredBytesCount
  BY DEF OpenFails, gz, vars
<1>2. TypeOK'
  BY <1>1, SameTar DEF GzIInv, GzTypes
<1>3. readSourceErrors' \in BOOLEAN /\ lastblock' \in BOOLEAN
      /\ gzTarBlockPos' \in 0..blockmod /\ untarredBytesCount' \in Nat
  BY <1>1, Zenon DEF GzIInv, GzTypes, LabelTypes, CountTypes
<1>4. ESP32_TARGZ_UZLIB_MALLOC_FAIL \in Int
  OBVIOUS
<1>5. QED
  BY <1>1, <1>2, <1>3, <1>4, ReturnedIInv, Zenon

LEMMA PullNoHeapIInv == ASSUME GzIInv, PullNoHeap PROVE GzIInv'
<1>1. /\ SetupNoHeap /\ Return(TAR_ERROR_HEAP - 30)
      /\ UNCHANGED <<mode, stream, firstblock>> /\ res' = res
      /\ readSourceErrors' = readSourceErrors /\ lastblock' = lastblock
      /\ gzTarBlockPos' = gzTarBlockPos /\ untarredBytesCount' = untarredBytesCount
  BY DEF PullNoHeap, gz
<1>2. TypeOK' /\ result' \notin {TAR_OK, TAR_EXPANDING_DONE}
  BY <1>1, SetupTypeOK DEF GzIInv, GzTypes, SetupNoHeap
<1>3. readSourceErrors' \in BOOLEAN /\ lastblock' \in BOOLEAN
      /\ gzTarBlockPos' \in 0..blockmod /\ untarredBytesCount' \in Nat
  BY <1>1, Zenon DEF GzIInv, GzTypes, LabelTypes, CountTypes
<1>4. TAR_ERROR_HEAP - 30 \in Int
  OBVIOUS
<1>5. QED
  BY <1>1, <1>2, <1>3, <1>4, ReturnedIInv, Zenon

-----------------------------------------------------------------------------
(***************************************************************************)
(* A call that goes on: it is at another label, with the same code.        *)
(***************************************************************************)
LEMMA MovedIInv ==
  ASSUME GzIInv, NEW label \in {"inflate", "write", "tar", "finish"}, Goto(label),
         _error' = _error, UNCHANGED mode, TypeOK', StreamTypes', BufferTypes', CountTypes',
         readSourceErrors' \in BOOLEAN, firstblock' \in BOOLEAN, lastblock' \in BOOLEAN,
         Stages', Taken'
  PROVE  GzIInv'
<1>1. CodeTypes'
  BY DEF GzIInv, GzTypes, CodeTypes, Goto
<1>2. LabelTypes'
  <2>1. pc' \in {"idle", "inflate", "write", "tar", "finish"} /\ mode' \in {"push", "pull"}
    BY DEF GzIInv, GzTypes, LabelTypes, Goto
  <2>2. QED
    BY <2>1, Zenon DEF LabelTypes
<1>3. WholeStreamSucceeds'
  BY DEF Goto, WholeStreamSucceeds
<1>4. QED
  BY <1>1, <1>2, <1>3, Zenon DEF GzIInv, GzTypes

LEMMA SlotWritten ==
  ASSUME GzIInv, NEW i \in Int, NEW b \in Int
  PROVE  [output_buffer EXCEPT ![i] = b] \in [0..blockmod-1 -> Int]
<1>1. output_buffer \in [0..blockmod-1 -> Int]
  BY Zenon DEF GzIInv, GzTypes, BufferTypes
<1>2. QED
  BY <1>1

LEMMA InflateBlockIInv == ASSUME GzIInv, InflateBlock PROVE GzIInv'
<1> DEFINE label == IF BufferFull(output_position + 1) THEN "write" ELSE "inflate"
<1>1. /\ pc = "inflate" /\ produced < Len(stream) /\ produced' = produced + 1
      /\ output_buffer' = [output_buffer EXCEPT ![output_position] = produced + 1]
      /\ output_position' = output_position + 1 /\ Goto(label) /\ pc' = label
      /\ UNCHANGED vars /\ mode' = mode /\ stream' = stream /\ res' = res
      /\ readSourceErrors' = readSourceErrors /\ outlen' = outlen
      /\ gzTarBlockPos' = gzTarBlockPos /\ firstblock' = firstblock
      /\ lastblock' = lastblock /\ untarredBytesCount' = untarredBytesCount
      /\ _error' = _error
  BY DEF InflateBlock, Goto, vars
<1>2. /\ res = TINF_OK /\ output_position \in Nat /\ output_position < blockmod
      /\ mode = "push" /\ (firstblock \/ outlen > 0) /\ (lastblock => ~firstblock)
      /\ (firstblock => produced = output_position)
      /\ (~firstblock /\ ~lastblock => fed + output_position = produced)
  BY <1>1 DEF GzIInv, GzTypes, BufferTypes, Stages, Taken
<1>3. /\ stream \in Seq(Block) /\ produced \in Nat /\ Len(stream) \in Nat
      /\ outlen \in Nat /\ untarredBytesCount \in Nat /\ gzTarBlockPos \in 0..blockmod
  BY DEF GzIInv, GzTypes, StreamTypes, CountTypes
<1>4. TypeOK' /\ fed' = fed /\ fed \in Nat
  BY <1>1, SameTar DEF GzIInv, GzTypes, TypeOK, CountersOK
<1>5. StreamTypes'
  BY <1>1, <1>2, <1>3 DEF StreamTypes
<1>6. BufferTypes'
  <2>1. output_buffer' \in [0..blockmod-1 -> Int]
    <3>1. output_position \in Int /\ produced + 1 \in Int
      BY <1>2, <1>3
    <3>2. QED
      BY <1>1, <3>1, SlotWritten, Zenon
  <2>2. output_position' \in 0..blockmod
    BY <1>1, <1>2, Blocks1
  <2>3. QED
    BY <2>1, <2>2, Zenon DEF BufferTypes
<1>7. CountTypes'
  BY <1>1, <1>3 DEF CountTypes
<1>8. label \in {"inflate", "write", "tar", "finish"}
  OBVIOUS
<1>9. Stages' /\ Taken'
  BY <1>1, <1>2, <1>3, <1>4, Blocks1 DEF Stages, Taken, BufferFull
<1>10. readSourceErrors' \in BOOLEAN /\ firstblock' \in BOOLEAN /\ lastblock' \in BOOLEAN
  BY <1>1, Zenon DEF GzIInv, GzTypes, LabelTypes
<1> HIDE DEF label
<1>11. QED
  BY <1>1, <1>4, <1>5, <1>6, <1>7, <1>8, <1>9, <1>10, MovedIInv, Zenon

LEMMA EndsTypes ==
  ASSUME NEW torn \in BOOLEAN, Ends(torn)
  PROVE  /\ res' \in {TINF_DONE, TINF_DATA_ERROR, TINF_CHKSUM_ERROR}
         /\ readSourceErrors' \in BOOLEAN /\ (readSourceErrors' => res' = TINF_DATA_ERROR)
<1>1. readSourceErrors' \in BOOLEAN /\ (readSourceErrors' => res' = TINF_DATA_ERROR)
  BY Zenon DEF Ends
<1>2. res' \in {TINF_DONE, TINF_DATA_ERROR, TINF_CHKSUM_ERROR}
  BY DEF Ends
<1>3. QED
  BY <1>1, <1>2

LEMMA InflateEndsIInv == ASSUME GzIInv, NEW torn \in BOOLEAN, InflateEnds(torn) PROVE GzIInv'
<1>1. /\ pc = "inflate" /\ Ends(torn) /\ UNCHANGED vars /\ UNCHANGED <<mode, stream, firstblock>>
      /\ gzTarBlockPos' = gzTarBlockPos /\ lastblock' = lastblock
      /\ untarredBytesCount' = untarredBytesCount
  BY DEF InflateEnds, vars
<1>2. /\ res' \in {TINF_DONE, TINF_DATA_ERROR, TINF_CHKSUM_ERROR}
      /\ readSourceErrors' \in BOOLEAN /\ (readSourceErrors' => res' = TINF_DATA_ERROR)
  BY <1>1, EndsTypes
<1>3. TypeOK'
  BY <1>1, SameTar DEF GzIInv, GzTypes
<1>4. firstblock' \in BOOLEAN /\ lastblock' \in BOOLEAN
  BY <1>1, Zenon DEF GzIInv, GzTypes, LabelTypes
<1>5. gzTarBlockPos' \in 0..blockmod /\ untarredBytesCount' \in Nat /\ outlen \in Nat
  BY <1>1 DEF GzIInv, GzTypes, CountTypes
<1>6. CASE readSourceErrors'
  <2>1. Return(ESP32_TARGZ_STREAM_ERROR)
    BY <1>6 DEF InflateEnds
  <2>2. ESP32_TARGZ_STREAM_ERROR \in Int /\ res' = TINF_DATA_ERROR
    BY <1>2, <1>6
  <2>3. QED
    BY <1>1, <1>2, <1>3, <1>4, <1>5, <2>1, <2>2, ReturnedIInv
<1>7. CASE ~readSourceErrors'
  <2> DEFINE label == IF output_position' > 0 THEN "write" ELSE "finish"
  <2>1. /\ output_buffer' = IF torn THEN [output_buffer EXCEPT ![output_position] = Garbage]
                                   ELSE output_buffer
        /\ output_position' = output_position + (IF torn THEN 1 ELSE 0)
        /\ Goto(label) /\ pc' = label
        /\ produced' = produced /\ outlen' = outlen /\ _error' = _error
    BY <1>7 DEF InflateEnds, Goto
  <2>2. /\ output_position \in Nat /\ output_position < blockmod /\ mode = "push"
        /\ (firstblock \/ outlen > 0) /\ (lastblock => ~firstblock)
    BY <1>1 DEF GzIInv, GzTypes, BufferTypes, Stages
  <2>3. StreamTypes'
    BY <1>1, <1>2, <2>1 DEF GzIInv, GzTypes, StreamTypes
  <2>4. BufferTypes'
    <3>1. output_buffer' \in [0..blockmod-1 -> Int]
      <4>1. CASE torn
        <5>1. output_position \in Int /\ Garbage \in Int
          BY <2>2
        <5>2. output_buffer' = [output_buffer EXCEPT ![output_position] = Garbage]
          BY <2>1, <4>1
        <5>3. QED
          BY <5>1, <5>2, SlotWritten, Zenon
      <4>2. CASE ~torn
        BY <2>1, <4>2 DEF GzIInv, GzTypes, BufferTypes
      <4>3. QED
        BY <4>1, <4>2
    <3>2. output_position' \in 0..blockmod
      BY <2>1, <2>2, Blocks1
    <3>3. QED
      BY <3>1, <3>2, Zenon DEF BufferTypes
  <2>5. CountTypes'
    BY <1>5, <2>1 DEF CountTypes
  <2>6. label \in {"inflate", "write", "tar", "finish"}
    OBVIOUS
  <2>7. Stages' /\ Taken'
    BY <1>1, <1>2, <2>1, <2>2 DEF Stages, Taken
  <2> HIDE DEF label
  <2>8. QED
    BY <1>1, <1>2, <1>3, <1>4, <2>1, <2>3, <2>4, <2>5, <2>6, <2>7, MovedIInv, Zenon
<1>8. QED
  BY <1>6, <1>7

\* gzWriteCallback returned true: nothing of what was decompressed is lost.
LEMMA WrittenIInv ==
  ASSUME GzIInv, pc \in {"write", "tar"}, mode = "push", Written, TypeOK',
         UNCHANGED <<mode, gz, firstblock, _error>>, gzTarBlockPos' \in 0..blockmod,
         untarredBytesCount' \in Nat, lastblock' \in BOOLEAN,
         ~firstblock, lastblock' \/ (res = TINF_OK => fed' = produced)
  PROVE  GzIInv'
<1> DEFINE label == IF res = TINF_OK THEN "inflate" ELSE "finish"
<1>1. /\ outlen' = outlen + output_position /\ output_position' = 0
      /\ output_buffer' = output_buffer /\ produced' = produced /\ Goto(label) /\ pc' = label
      /\ stream' = stream /\ res' = res /\ readSourceErrors' = readSourceErrors
      /\ mode' = mode /\ firstblock' = firstblock /\ _error' = _error
  BY DEF Written, Goto, gz
<1>2. output_position \in Nat /\ output_position > 0 /\ outlen \in Nat
  BY DEF GzIInv, GzTypes, BufferTypes, CountTypes, Stages
<1>3. StreamTypes'
  BY <1>1 DEF GzIInv, GzTypes, StreamTypes
<1>4. BufferTypes'
  BY <1>1, Blocks1 DEF GzIInv, GzTypes, BufferTypes
<1>5. CountTypes'
  BY <1>1, <1>2 DEF CountTypes
<1>6. readSourceErrors' \in BOOLEAN /\ firstblock' \in BOOLEAN
  BY <1>1, Zenon DEF GzIInv, GzTypes, LabelTypes
<1>7. label \in {"inflate", "write", "tar", "finish"}
  OBVIOUS
<1>8. Stages'
  BY <1>1, <1>2, Blocks1 DEF Stages
<1>9. Taken'
  <2>1. fed' \in Nat
    BY DEF TypeOK, CountersOK
  <2>2. QED
    BY <1>1, <2>1 DEF Taken
<1> HIDE DEF label
<1>10. QED
  BY <1>1, <1>3, <1>4, <1>5, <1>6, <1>7, <1>8, <1>9, MovedIInv, Zenon

-----------------------------------------------------------------------------
(***************************************************************************)
(* gzProcessTarBuffer.                                                     *)
(***************************************************************************)
LEMMA ProcessNothingIInv == ASSUME GzIInv, ProcessNothing PROVE GzIInv'
<1>1. /\ pc = "write" /\ lastblock /\ Written /\ UNCHANGED vars
      /\ UNCHANGED <<mode, gz, firstblock, _error>> /\ gzTarBlockPos' = gzTarBlockPos
      /\ lastblock' = lastblock /\ untarredBytesCount' = untarredBytesCount
  BY DEF ProcessNothing, vars, gz
<1>2. TypeOK'
  BY <1>1, SameTar DEF GzIInv, GzTypes
<1>3. mode = "push" /\ ~firstblock
  BY <1>1 DEF GzIInv, Stages
<1>4. gzTarBlockPos' \in 0..blockmod /\ untarredBytesCount' \in Nat
  BY <1>1 DEF GzIInv, GzTypes, CountTypes
<1>5. lastblock' \in BOOLEAN
  BY <1>1, Zenon DEF GzIInv, GzTypes, LabelTypes
<1>6. QED
  BY <1>1, <1>2, <1>3, <1>4, <1>5, WrittenIInv, Zenon

LEMMA ProcessNoHeapIInv == ASSUME GzIInv, ProcessNoHeap PROVE GzIInv'
<1>1. /\ firstblock /\ SetupNoHeap /\ Return(_error)
      /\ UNCHANGED <<mode, stream, firstblock>> /\ res' = res
      /\ readSourceErrors' = readSourceErrors /\ lastblock' = lastblock
      /\ gzTarBlockPos' = gzTarBlockPos /\ untarredBytesCount' = untarredBytesCount
  BY DEF ProcessNoHeap, NotWritten, gz
<1>2. TypeOK'
  BY <1>1, SetupTypeOK DEF GzIInv, GzTypes
<1>3. readSourceErrors' \in BOOLEAN /\ lastblock' \in BOOLEAN
  BY <1>1, Zenon DEF GzIInv, GzTypes, LabelTypes
<1>4. gzTarBlockPos' \in 0..blockmod /\ untarredBytesCount' \in Nat /\ _error \in Int
  BY <1>1 DEF GzIInv, GzTypes, CountTypes, CodeTypes
<1>5. QED
  BY <1>1, <1>2, <1>3, <1>4, ReturnedIInv, Zenon

LEMMA ProcessFirstIInv == ASSUME GzIInv, ProcessFirst PROVE GzIInv'
<1>1. /\ pc = "write" /\ ~lastblock /\ firstblock /\ SetupOK(stream) /\ firstblock' = FALSE
      /\ gzTarBlockPos' = 0 /\ Goto("tar") /\ pc' = "tar" /\ mode' = mode /\ stream' = stream
      /\ res' = res /\ readSourceErrors' = readSourceErrors /\ output_buffer' = output_buffer
      /\ output_position' = output_position /\ outlen' = outlen /\ produced' = produced
      /\ lastblock' = lastblock /\ untarredBytesCount' = untarredBytesCount /\ _error' = _error
  BY DEF ProcessFirst, gz, locals, buffer, Goto, StartSlot
<1>2. TypeOK' /\ fed' = 0
  <2>1. TypeOK /\ stream \in Seq(Block)
    BY DEF GzIInv, GzTypes, StreamTypes
  <2>2. QED
    BY <1>1, <2>1, SetupStream, Zenon
<1>3. /\ StreamTypes' /\ BufferTypes'
  BY <1>1 DEF GzIInv, GzTypes, StreamTypes, BufferTypes
<1>4. CountTypes'
  BY <1>1, Blocks1 DEF GzIInv, GzTypes, CountTypes
<1>5. readSourceErrors' \in BOOLEAN /\ firstblock' \in BOOLEAN /\ lastblock' \in BOOLEAN
  BY <1>1, Zenon DEF GzIInv, GzTypes, LabelTypes
<1>6. Stages' /\ Taken'
  <2>1. output_position > 0 /\ mode = "push"
        /\ (res = TINF_OK => produced = output_position /\ output_position = blockmod)
    BY <1>1 DEF GzIInv, Stages, Taken
  <2>2. QED
    BY <1>1, <1>2, <2>1, Blocks1 DEF Stages, Taken
<1>7. QED
  BY <1>1, <1>2, <1>3, <1>4, <1>5, <1>6, MovedIInv, Zenon

LEMMA ProcessNextIInv == ASSUME GzIInv, ProcessNext PROVE GzIInv'
<1>1. /\ pc = "write" /\ ~lastblock /\ ~firstblock /\ UNCHANGED vars /\ firstblock' = firstblock
      /\ gzTarBlockPos' = 0 /\ Goto("tar") /\ pc' = "tar" /\ mode' = mode /\ stream' = stream
      /\ res' = res /\ readSourceErrors' = readSourceErrors /\ output_buffer' = output_buffer
      /\ output_position' = output_position /\ outlen' = outlen /\ produced' = produced
      /\ lastblock' = lastblock /\ untarredBytesCount' = untarredBytesCount /\ _error' = _error
  BY DEF ProcessNext, gz, locals, buffer, Goto, StartSlot, vars
<1>2. TypeOK' /\ fed' = fed
  BY <1>1, SameTar DEF GzIInv, GzTypes
<1>3. /\ StreamTypes' /\ BufferTypes'
  BY <1>1 DEF GzIInv, GzTypes, StreamTypes, BufferTypes
<1>4. CountTypes'
  BY <1>1, Blocks1 DEF GzIInv, GzTypes, CountTypes
<1>5. readSourceErrors' \in BOOLEAN /\ firstblock' \in BOOLEAN /\ lastblock' \in BOOLEAN
  BY <1>1, Zenon DEF GzIInv, GzTypes, LabelTypes
<1>6. Stages' /\ Taken'
  <2>1. output_position > 0 /\ mode = "push"
        /\ (res = TINF_OK => fed + output_position = produced /\ output_position = blockmod)
    BY <1>1 DEF GzIInv, Stages, Taken
  <2>2. QED
    BY <1>1, <1>2, <2>1, Blocks1 DEF Stages, Taken
<1>7. QED
  BY <1>1, <1>2, <1>3, <1>4, <1>5, <1>6, MovedIInv, Zenon

\* What gzFeedTarBuffer gives is a block of the buffer.
LEMMA FeedType == ASSUME GzIInv PROVE Feed \in Int
<1>1. gzTarBlockPos \in Nat /\ blockmod \in Nat \ {0}
  BY BlockmodAssumption DEF GzIInv, GzTypes, CountTypes
<1>2. gzTarBlockPos % blockmod \in 0..blockmod-1
  BY <1>1, DivMod, Zenon
<1>3. output_buffer \in [0..blockmod-1 -> Int]
  BY Zenon DEF GzIInv, GzTypes, BufferTypes
<1>4. QED
  BY <1>2, <1>3 DEF Feed

LEMMA WrittenCount ==
  ASSUME GzIInv, CountWritten(WroteBlock)
  PROVE  untarredBytesCount' \in Nat
BY DEF GzIInv, GzTypes, CountTypes, CountWritten

LEMMA ProcessStepIInv == ASSUME GzIInv, ProcessStep PROVE GzIInv'
<1>1. /\ pc = "tar" /\ mode = "push" /\ gzTarBlockPos < blockmod /\ ReadTarStep(Feed)
      /\ gzTarBlockPos' = gzTarBlockPos + (fed' - fed) /\ CountWritten(WroteBlock)
      /\ mode' = mode /\ stream' = stream /\ res' = res
      /\ readSourceErrors' = readSourceErrors /\ firstblock' = firstblock
      /\ UNCHANGED <<mode, stream, firstblock>> /\ UNCHANGED gz
  BY DEF ProcessStep, SlotsLeft, gz
<1>2. lastblock' = (result' = TAR_EXPANDING_DONE) /\ lastblock' \in BOOLEAN
  BY Zenon DEF ProcessStep
<1>3. TypeOK /\ Feed \in Int
  BY FeedType DEF GzIInv, GzTypes
<1>4. TypeOK' /\ fed' \in {fed, fed + 1} /\ fed \in Nat
  <2>1. TypeOK' /\ fed' \in {fed, fed + 1}
    BY <1>1, <1>3, StepTypeOK, OneBlock, Zenon
  <2>2. QED
    BY <1>3, <2>1 DEF TypeOK, CountersOK
<1>5. gzTarBlockPos \in Nat /\ gzTarBlockPos' \in 0..blockmod /\ untarredBytesCount' \in Nat
  <2>1. gzTarBlockPos \in Nat /\ untarredBytesCount' \in Nat
    BY <1>1, WrittenCount DEF GzIInv, GzTypes, CountTypes
  <2>2. gzTarBlockPos' \in {gzTarBlockPos, gzTarBlockPos + 1}
    <3>1. gzTarBlockPos' = gzTarBlockPos + (fed' - fed)
      BY <1>1
    <3>2. fed' - fed = 0 \/ fed' - fed = 1
      <4>1. fed \in Int /\ (fed' = fed \/ fed' = fed + 1)
        BY <1>4
      <4>2. QED
        BY <4>1
    <3>3. QED
      BY <2>1, <3>1, <3>2
  <2>3. gzTarBlockPos < blockmod
    BY <1>1
  <2>4. QED
    BY <2>1, <2>2, <2>3, Blocks1
<1>6. readSourceErrors' \in BOOLEAN /\ firstblock' \in BOOLEAN
  BY <1>1, Zenon DEF GzIInv, GzTypes, LabelTypes
<1>7. ~firstblock /\ ~lastblock /\ output_position > 0
  BY <1>1 DEF GzIInv, Stages
<1>8. CASE result' = TAR_EXPANDING_DONE
  <2>1. Written /\ UNCHANGED _error
    BY <1>8 DEF ProcessStep
  <2>2. lastblock'
    BY <1>2, <1>8, Zenon
  <2>3. UNCHANGED <<mode, gz, firstblock, _error>>
    BY <1>1, <2>1
  <2>4. QED
    BY <1>1, <1>2, <1>4, <1>5, <1>7, <2>1, <2>2, <2>3, WrittenIInv, Zenon
<1>9. CASE result' # TAR_EXPANDING_DONE /\ result' < 0
  <2>1. Return(TarFailure) /\ TarFailure \in Int
    BY <1>9 DEF ProcessStep, NotWritten, TarFailure
  <2>2. result' \notin {TAR_OK, TAR_EXPANDING_DONE}
    BY <1>9
  <2>3. res' \in {res, TINF_DATA_ERROR, TINF_OK}
    BY <1>1
  <2>4. QED
    BY <1>1, <1>2, <1>4, <1>5, <1>6, <2>1, <2>2, <2>3, ReturnedIInv, Zenon
<1>10. CASE result' # TAR_EXPANDING_DONE /\ ~(result' < 0)
  <2>1. ~(gzTarBlockPos' > blockmod)
    BY <1>5, Blocks1
  <2>2. Goto("tar") /\ UNCHANGED <<locals, _error>>
    BY <1>10, <2>1 DEF ProcessStep
  <2>3. /\ Goto("tar") /\ pc' = "tar" /\ output_buffer' = output_buffer
        /\ output_position' = output_position /\ outlen' = outlen /\ produced' = produced
        /\ _error' = _error
    BY <2>2 DEF Goto, locals, buffer
  <2>4. StreamTypes' /\ BufferTypes'
    BY <1>1, <2>3 DEF GzIInv, GzTypes, StreamTypes, BufferTypes
  <2>5. CountTypes'
    BY <1>5, <2>3 DEF GzIInv, GzTypes, CountTypes
  <2>6. ~lastblock'
    BY <1>2, <1>10, Zenon
  <2>7. Stages'
    BY <1>1, <1>7, <2>3, <2>6 DEF Stages
  <2>8. Taken'
    <3>1. res = TINF_OK => output_position = blockmod
                           /\ fed + (blockmod - gzTarBlockPos) = produced
      BY <1>1 DEF GzIInv, Taken
    <3>2. QED
      BY <1>1, <1>4, <1>5, <2>3, <3>1, Blocks1 DEF Taken
  <2>9. QED
    BY <1>1, <1>2, <1>4, <1>6, <2>3, <2>4, <2>5, <2>7, <2>8, MovedIInv, Zenon
<1>11. QED
  BY <1>8, <1>9, <1>10

LEMMA ProcessReturnsIInv == ASSUME GzIInv, ProcessReturns PROVE GzIInv'
<1>1. /\ pc = "tar" /\ mode = "push" /\ ~(gzTarBlockPos < blockmod) /\ Written
      /\ UNCHANGED vars /\ UNCHANGED <<mode, gz, firstblock, _error>>
      /\ gzTarBlockPos' = gzTarBlockPos /\ lastblock' = lastblock
      /\ untarredBytesCount' = untarredBytesCount
  BY DEF ProcessReturns, SlotsLeft, vars, gz
<1>2. TypeOK' /\ fed' = fed /\ fed \in Nat
  BY <1>1, SameTar DEF GzIInv, GzTypes, TypeOK, CountersOK
<1>3. gzTarBlockPos' \in 0..blockmod /\ gzTarBlockPos = blockmod /\ untarredBytesCount' \in Nat
  BY <1>1, Blocks1 DEF GzIInv, GzTypes, CountTypes
<1>4. lastblock' \in BOOLEAN
  BY <1>1, Zenon DEF GzIInv, GzTypes, LabelTypes
<1>5. ~firstblock /\ (res = TINF_OK => fed + (blockmod - gzTarBlockPos) = produced)
  BY <1>1 DEF GzIInv, Stages, Taken
<1>6. res = TINF_OK => fed' = produced
  BY <1>2, <1>3, <1>5, Blocks1
<1>7. QED
  BY <1>1, <1>2, <1>3, <1>4, <1>5, <1>6, WrittenIInv, Zenon

-----------------------------------------------------------------------------
(***************************************************************************)
(* Pull mode, and the end of the call.                                     *)
(***************************************************************************)
LEMMA PullStepIInv == ASSUME GzIInv, PullStep PROVE GzIInv'
<1>1. /\ pc = "tar" /\ mode = "pull" /\ CountWritten(WroteBlock) /\ Goto("tar") /\ pc' = "tar"
      /\ mode' = mode /\ stream' = stream /\ output_buffer' = output_buffer
      /\ output_position' = output_position /\ outlen' = outlen
      /\ gzTarBlockPos' = gzTarBlockPos /\ firstblock' = firstblock
      /\ lastblock' = lastblock /\ _error' = _error
  BY DEF PullStep, buffer, Goto
<1>2. TypeOK /\ stream \in Seq(Block) /\ produced \in Nat /\ Len(stream) \in Nat
      /\ produced <= Len(stream)
  BY DEF GzIInv, GzTypes, StreamTypes
<1>3. TypeOK' /\ StreamTypes' /\ readSourceErrors' \in BOOLEAN
  <2>1. CASE /\ ReadTarStep(produced + 1) /\ fed' <= Len(stream) /\ produced' = fed'
             /\ UNCHANGED <<res, readSourceErrors>>
    <3>1. produced + 1 \in Int
      BY <1>2
    <3>2. TypeOK'
      BY <1>2, <2>1, <3>1, StepTypeOK, Zenon
    <3>3. fed' \in Nat
      BY <3>2 DEF TypeOK, CountersOK
    <3>4. StreamTypes'
      BY <1>1, <1>2, <2>1, <3>3 DEF GzIInv, GzTypes, StreamTypes
    <3>5. readSourceErrors' \in BOOLEAN
      BY <2>1, Zenon DEF GzIInv, GzTypes, LabelTypes
    <3>6. QED
      BY <3>2, <3>4, <3>5
  <2>2. CASE ReadTarStep(Short) /\ Ends(FALSE) /\ produced' = produced
    <3>1. Short \in Int /\ FALSE \in BOOLEAN
      OBVIOUS
    <3>2. TypeOK'
      BY <1>2, <2>2, <3>1, StepTypeOK, Zenon
    <3>3. /\ res' \in {TINF_DONE, TINF_DATA_ERROR, TINF_CHKSUM_ERROR}
          /\ readSourceErrors' \in BOOLEAN
      BY <2>2, <3>1, EndsTypes, Zenon
    <3>4. StreamTypes'
      BY <1>1, <1>2, <2>2, <3>3 DEF StreamTypes
    <3>5. QED
      BY <3>2, <3>3, <3>4
  <2>3. QED
    BY <2>1, <2>2 DEF PullStep
<1>4. BufferTypes'
  BY <1>1 DEF GzIInv, GzTypes, BufferTypes
<1>5. CountTypes'
  BY <1>1, WrittenCount DEF GzIInv, GzTypes, CountTypes
<1>6. firstblock' \in BOOLEAN /\ lastblock' \in BOOLEAN
  BY <1>1, Zenon DEF GzIInv, GzTypes, LabelTypes
<1>7. Stages' /\ Taken'
  BY <1>1 DEF GzIInv, Stages, Taken
<1>8. QED
  BY <1>1, <1>3, <1>4, <1>5, <1>6, <1>7, MovedIInv, Zenon

LEMMA PullEndsIInv == ASSUME GzIInv, PullEnds PROVE GzIInv'
<1>1. /\ pc = "tar" /\ mode = "pull" /\ UNCHANGED vars /\ Goto("finish") /\ pc' = "finish"
      /\ outlen' = untarredBytesCount /\ untarredBytesCount' = untarredBytesCount
      /\ mode' = mode /\ stream' = stream /\ res' = res /\ output_buffer' = output_buffer
      /\ readSourceErrors' = readSourceErrors /\ produced' = produced
      /\ output_position' = output_position
      /\ gzTarBlockPos' = gzTarBlockPos /\ firstblock' = firstblock
      /\ lastblock' = lastblock /\ _error' = _error
  BY DEF PullEnds, buffer, gz, Goto, vars
<1>2. TypeOK'
  BY <1>1, SameTar DEF GzIInv, GzTypes
<1>3. StreamTypes' /\ BufferTypes' /\ CountTypes'
  BY <1>1 DEF GzIInv, GzTypes, StreamTypes, BufferTypes, CountTypes
<1>4. readSourceErrors' \in BOOLEAN /\ firstblock' \in BOOLEAN /\ lastblock' \in BOOLEAN
  BY <1>1, Zenon DEF GzIInv, GzTypes, LabelTypes
<1>5. Stages' /\ Taken'
  BY <1>1 DEF GzIInv, Stages, Taken
<1>6. QED
  BY <1>1, <1>2, <1>3, <1>4, <1>5, MovedIInv, Zenon

LEMMA FinishIInv == ASSUME GzIInv, Finish PROVE GzIInv'
<1> DEFINE code == IF outlen > 0 THEN ESP32_TARGZ_OK ELSE ESP32_TARGZ_STREAM_ERROR
<1>1. /\ pc = "finish" /\ Return(code) /\ UNCHANGED vars
      /\ UNCHANGED <<mode, stream, firstblock>> /\ res' = res
      /\ readSourceErrors' = readSourceErrors /\ lastblock' = lastblock
      /\ gzTarBlockPos' = gzTarBlockPos /\ untarredBytesCount' = untarredBytesCount
  BY DEF Finish, gz, vars
<1>2. TypeOK'
  BY <1>1, SameTar DEF GzIInv, GzTypes
<1>3. readSourceErrors' \in BOOLEAN /\ lastblock' \in BOOLEAN
  BY <1>1, Zenon DEF GzIInv, GzTypes, LabelTypes
<1>4. gzTarBlockPos' \in 0..blockmod /\ untarredBytesCount' \in Nat /\ code \in Int
  BY <1>1 DEF GzIInv, GzTypes, CountTypes
<1>5. code = ESP32_TARGZ_OK \/ firstblock \/ mode # "push"
  BY <1>1 DEF GzIInv, Stages
<1> HIDE DEF code
<1>6. QED
  BY <1>1, <1>2, <1>3, <1>4, <1>5, ReturnedIInv, Zenon

LEMMA StutterIInv == ASSUME GzIInv, UNCHANGED allVars PROVE GzIInv'
<1>1. /\ UNCHANGED vars /\ pc' = pc /\ mode' = mode /\ stream' = stream /\ res' = res
      /\ readSourceErrors' = readSourceErrors /\ output_buffer' = output_buffer
      /\ output_position' = output_position /\ outlen' = outlen /\ produced' = produced
      /\ gzTarBlockPos' = gzTarBlockPos /\ firstblock' = firstblock
      /\ lastblock' = lastblock /\ untarredBytesCount' = untarredBytesCount
      /\ _error' = _error /\ return_value' = return_value
  BY DEF allVars, gzVars, gz, locals, buffer, vars
<1>2. TypeOK' /\ fed' = fed /\ result' = result /\ tar_error' = tar_error
  BY <1>1, SameTar DEF GzIInv, GzTypes
<1>3. StreamTypes' /\ BufferTypes' /\ CountTypes' /\ CodeTypes'
  BY <1>1 DEF GzIInv, GzTypes, StreamTypes, BufferTypes, CountTypes, CodeTypes
<1>4. LabelTypes'
  BY <1>1, Zenon DEF GzIInv, GzTypes, LabelTypes
<1>5. Stages' /\ Taken' /\ WholeStreamSucceeds'
  BY <1>1, <1>2 DEF GzIInv, Stages, Taken, WholeStreamSucceeds
<1>6. QED
  BY <1>2, <1>3, <1>4, <1>5, Zenon DEF GzIInv, GzTypes

-----------------------------------------------------------------------------
LEMMA GzNextIInv == ASSUME GzIInv, [GzNext]_allVars PROVE GzIInv'
<1>1. CASE Restart
  BY <1>1, RestartIInv
<1>2. CASE OpenFails \/ PullNoHeap \/ \E s \in Archives : Open(s)
  BY <1>2, OpenFailsIInv, PullNoHeapIInv, OpenIInv
<1>3. CASE GzStep
  BY <1>3, InflateBlockIInv, InflateEndsIInv, ProcessNothingIInv, ProcessFirstIInv,
     ProcessNoHeapIInv, ProcessNextIInv, ProcessStepIInv, ProcessReturnsIInv,
     PullStepIInv, PullEndsIInv, FinishIInv, Zenon DEF GzStep
<1>4. CASE UNCHANGED allVars
  BY <1>4, StutterIInv
<1>5. QED
  BY <1>1, <1>2, <1>3, <1>4 DEF GzNext

LEMMA GzInvariance == GzSpec => []GzIInv
<1>1. GzInit => GzIInv
  <2> SUFFICES ASSUME GzInit PROVE GzIInv
    OBVIOUS
  <2>1. TypeOK
    BY InitTypeOK DEF GzInit
  <2>2. QED
    BY <2>1, PoweredOn DEF GzInit
<1>2. GzIInv /\ [GzNext]_allVars => GzIInv'
  BY GzNextIInv
<1>3. QED
  BY <1>1, <1>2, PTL DEF GzSpec

\* The variables have their types, and a buffer is never lapped: gzFeedTarBuffer takes
\* blocks out of the buffer modulo blockmod, the modulo never wraps.
THEOREM GzTypeCorrect == GzSpec => []GzTypeOK
<1>1. GzIInv => GzTypeOK
  <2> SUFFICES ASSUME GzIInv PROVE GzTypeOK
    OBVIOUS
  <2>1. RingNeverWraps /\ outlen \in Nat /\ gzTarBlockPos \in Nat /\ untarredBytesCount \in Nat
    BY Blocks1 DEF GzIInv, GzTypes, CountTypes, RingNeverWraps
  <2>2. QED
    BY <2>1, Zenon DEF GzIInv, GzTypes, StreamTypes, BufferTypes, CodeTypes, LabelTypes,
                       GzTypeOK
<1>2. QED
  BY <1>1, GzInvariance, PTL

\* When the decompressor goes on filling the buffer of gzProcessTarBuffer, the tar machine
\* has taken every block that was there.
THEOREM BufferKept == GzSpec => []NothingOverwritten
<1>1. GzIInv => NothingOverwritten
  BY DEF GzIInv, Stages, Taken, NothingOverwritten
<1>2. QED
  BY <1>1, GzInvariance, PTL

\* Push mode: a call of gzUncompress that read its stream to the end, with no callback
\* refusing, returns ESP32_TARGZ_OK.
THEOREM WholeSucceeds == GzSpec => []WholeStreamSucceeds
<1>1. GzIInv => WholeStreamSucceeds
  BY DEF GzIInv
<1>2. QED
  BY <1>1, GzInvariance, PTL

-----------------------------------------------------------------------------
(***************************************************************************)
(* The headers of a complete archive, and how many of them are behind one. *)
(* HeadersOf is the least of the archive's routes; what is behind a header *)
(* leads to it, and nothing is between it and the next.                    *)
(***************************************************************************)
Behind(a, p) == {s \in HeadersOf(a) : s[2] < p}
Passed(a, c) ==
  /\ c \in HeadersOf(a) /\ (c[2] = 1 => c[1] = 0)
  /\ \A s \in Behind(a, c[2]) : Following(a, s) = c \/ Following(a, s)[2] < c[2]

LEMMA HeaderTypes ==
  ASSUME NEW a \in Seq(Block), NEW s \in HeadersOf(a)
  PROVE  /\ s[1] \in {0, 1} /\ s[2] \in 1..Len(a) /\ s = <<s[1], s[2]>>
         /\ a[s[2]] \in Block /\ a[s[2]].blocks \in Nat
         /\ Following(a, s)[2] > s[2] /\ Following(a, s)[2] \in Nat
         /\ (a[s[2]].named => Following(a, s) = <<s[1], s[2] + 1 + a[s[2]].blocks>>)
         /\ (~a[s[2]].named => Following(a, s) = <<s[1] + 1, s[2] + 1>>)
<1>1. s \in {0, 1} \X (1..Len(a)) /\ Len(a) \in Nat
  BY DEF HeadersOf
<1>2. s[1] \in {0, 1} /\ s[2] \in 1..Len(a) /\ s = <<s[1], s[2]>>
  BY <1>1
<1>3. a[s[2]] \in Block
  BY <1>2
<1>4. a[s[2]].blocks \in Nat
  BY <1>3, ArchivesAssumption DEF Block
<1>5. (a[s[2]].named => Following(a, s) = <<s[1], s[2] + 1 + a[s[2]].blocks>>)
      /\ (~a[s[2]].named => Following(a, s) = <<s[1] + 1, s[2] + 1>>)
  BY DEF Following
<1>6. Following(a, s)[2] = s[2] + 1 + a[s[2]].blocks \/ Following(a, s)[2] = s[2] + 1
  BY <1>5
<1>7. Following(a, s)[2] > s[2] /\ Following(a, s)[2] \in Nat
  BY <1>1, <1>2, <1>4, <1>6
<1>8. QED
  BY <1>2, <1>3, <1>4, <1>5, <1>7

LEMMA HeadersRoute ==
  ASSUME NEW a \in Seq(Block), Complete(a)
  PROVE  /\ HeadersOf(a) \in Routes(a)
         /\ \A r \in Routes(a) : HeadersOf(a) \subseteq r
<1>1. PICK r0 \in Routes(a) : TRUE
  BY DEF Complete
<1>2. \A r \in Routes(a) : HeadersOf(a) \subseteq r
  BY DEF HeadersOf
<1>3. <<0, 1>> \in HeadersOf(a)
  BY <1>1 DEF HeadersOf, Routes
<1>4. ASSUME NEW s \in HeadersOf(a), Following(a, s)[1] < 2
      PROVE  Following(a, s) \in HeadersOf(a)
  <2>1. \A r \in Routes(a) : Following(a, s) \in r
    BY <1>2, <1>4 DEF Routes
  <2>2. Following(a, s) \in {0, 1} \X (1..Len(a))
    BY <1>1, <2>1 DEF Routes
  <2>3. QED
    BY <2>1, <2>2 DEF HeadersOf
<1>5. HeadersOf(a) \in SUBSET ({0, 1} \X (1..Len(a)))
  BY DEF HeadersOf
<1>6. QED
  BY <1>2, <1>3, <1>4, <1>5 DEF Routes

\* From one header to the next.
LEMMA Advance ==
  ASSUME NEW a \in Seq(Block), Complete(a), NEW c, Passed(a, c), NEW q,
         Following(a, c) = q, q[1] < 2
  PROVE  Passed(a, q) /\ Behind(a, q[2]) = Behind(a, c[2]) \cup {c}
<1> DEFINE Between == {s \in HeadersOf(a) : c[2] <= s[2] /\ s[2] < q[2] /\ s # c}
           r == HeadersOf(a) \ Between
<1>1. c \in HeadersOf(a) /\ HeadersOf(a) \in Routes(a)
  BY HeadersRoute DEF Passed
<1>2. /\ c[1] \in {0, 1} /\ c[2] \in Nat /\ c[2] >= 1 /\ q[2] \in Nat /\ q[2] > c[2]
      /\ c = <<c[1], c[2]>>
  BY <1>1, HeaderTypes
<1>3. q \in HeadersOf(a)
  BY <1>1 DEF Routes
<1>4. ASSUME NEW s \in HeadersOf(a)
      PROVE  /\ s[2] \in Nat /\ s[2] >= 1 /\ Following(a, s)[2] \in Nat
             /\ Following(a, s)[2] > s[2]
  BY HeaderTypes
<1>5. <<0, 1>> \in r
  <2>1. <<0, 1>> \in HeadersOf(a)
    BY <1>1 DEF Routes
  <2>2. c[2] <= 1 => c = <<0, 1>>
    <3>1. c[2] <= 1 => c[2] = 1 /\ c[1] = 0
      BY <1>2 DEF Passed
    <3>2. QED
      BY <1>2, <3>1
  <2>3. <<0, 1>>[2] = 1
    OBVIOUS
  <2>4. QED
    BY <2>1, <2>2, <2>3
<1>6. ASSUME NEW s \in r, Following(a, s)[1] < 2
      PROVE  Following(a, s) \in r
  <2>1. s \in HeadersOf(a) /\ Following(a, s) \in HeadersOf(a)
    BY <1>1, <1>6 DEF Routes
  <2>2. CASE s[2] < c[2]
    <3>1. Following(a, s) = c \/ Following(a, s)[2] < c[2]
      BY <2>1, <2>2 DEF Passed, Behind
    <3>2. Following(a, s) \notin Between
      BY <1>2, <1>4, <2>1, <3>1
    <3>3. QED
      BY <2>1, <3>2
  <2>3. CASE s = c
    BY <1>2, <2>1, <2>3
  <2>4. CASE s[2] >= q[2]
    <3>1. Following(a, s) \notin Between
      BY <1>2, <1>4, <2>1, <2>4
    <3>2. QED
      BY <2>1, <3>1
  <2>5. s[2] < c[2] \/ s = c \/ s[2] >= q[2]
    <3>1. s \notin Between
      BY <1>6
    <3>2. QED
      BY <1>2, <1>4, <2>1, <3>1
  <2>6. QED
    BY <2>2, <2>3, <2>4, <2>5
<1>7. r \in Routes(a)
  <2>1. r \in SUBSET ({0, 1} \X (1..Len(a)))
    BY <1>1 DEF Routes
  <2>2. QED
    BY <1>5, <1>6, <2>1, Zenon DEF Routes
<1>8. Between = {}
  <2>1. HeadersOf(a) \subseteq r
    BY <1>7, HeadersRoute, Zenon
  <2>2. QED
    BY <2>1
<1>9. Behind(a, q[2]) = Behind(a, c[2]) \cup {c}
  <2>1. ASSUME NEW s \in HeadersOf(a)
        PROVE  s[2] < q[2] <=> (s[2] < c[2] \/ s = c)
    <3>1. s \notin Between
      BY <1>8
    <3>2. s = c => s[2] < q[2]
      BY <1>2
    <3>3. QED
      BY <1>2, <1>4, <3>1, <3>2
  <2> HIDE DEF Between, r
  <2>2. QED
    BY <1>1, <2>1, Zenon DEF Behind
<1>10. Passed(a, q)
  <2>1. ASSUME NEW s \in Behind(a, q[2])
        PROVE  Following(a, s) = q \/ Following(a, s)[2] < q[2]
    <3>1. CASE s = c
      BY <3>1
    <3>2. CASE s \in Behind(a, c[2])
      <4>1. s \in HeadersOf(a)
        BY <3>2 DEF Behind
      <4>2. Following(a, s) = c \/ Following(a, s)[2] < c[2]
        BY <3>2 DEF Passed
      <4>3. QED
        BY <1>2, <1>4, <4>1, <4>2
    <3>3. QED
      BY <1>9, <2>1, <3>1, <3>2
  <2>2. q[2] # 1
    BY <1>2
  <2>3. QED
    BY <1>3, <2>1, <2>2, Zenon DEF Passed
<1>11. QED
  BY <1>9, <1>10

\* After the second empty header there is none.
LEMMA LastOne ==
  ASSUME NEW a \in Seq(Block), Complete(a), NEW c, Passed(a, c), ~(Following(a, c)[1] < 2)
  PROVE  HeadersOf(a) = Behind(a, c[2]) \cup {c}
<1> DEFINE r == Behind(a, c[2]) \cup {c}
<1>1. c \in HeadersOf(a) /\ HeadersOf(a) \in Routes(a)
  BY HeadersRoute DEF Passed
<1>2. c[1] \in {0, 1} /\ c[2] \in Nat /\ c[2] >= 1 /\ c = <<c[1], c[2]>>
  BY <1>1, HeaderTypes
<1>3. r \subseteq HeadersOf(a)
  BY <1>1 DEF Behind
<1>4. <<0, 1>> \in r
  <2>1. <<0, 1>> \in HeadersOf(a)
    BY <1>1 DEF Routes
  <2>2. c[2] <= 1 => c = <<0, 1>>
    <3>1. c[2] <= 1 => c[2] = 1 /\ c[1] = 0
      BY <1>2 DEF Passed
    <3>2. QED
      BY <1>2, <3>1
  <2>3. c[2] > 1 => <<0, 1>> \in Behind(a, c[2])
    BY <2>1 DEF Behind
  <2>4. QED
    BY <1>2, <2>2, <2>3
<1>5. ASSUME NEW s \in r, Following(a, s)[1] < 2
      PROVE  Following(a, s) \in r
  <2>1. s \in Behind(a, c[2])
    BY <1>5
  <2>2. s \in HeadersOf(a) /\ Following(a, s) \in HeadersOf(a)
    BY <1>1, <1>3, <1>5 DEF Routes
  <2>3. Following(a, s) = c \/ Following(a, s)[2] < c[2]
    BY <2>1 DEF Passed
  <2>4. QED
    BY <2>2, <2>3 DEF Behind
<1>6. r \in Routes(a)
  <2>1. r \in SUBSET ({0, 1} \X (1..Len(a)))
    BY <1>1, <1>3 DEF Routes
  <2>2. QED
    BY <1>4, <1>5, <2>1, Zenon DEF Routes
<1>7. QED
  BY <1>3, <1>6, HeadersRoute, Zenon

\* One header more is one entry more, if it names something.
LEMMA OneMore ==
  ASSUME NEW a \in Seq(Block), NEW c \in HeadersOf(a)
  PROVE  LET n == Cardinality(Named(a, Behind(a, c[2])))
             m == Cardinality(Named(a, Behind(a, c[2]) \cup {c}))
         IN  n \in Nat /\ m = (IF a[c[2]].named THEN n + 1 ELSE n)
<1> DEFINE S == Named(a, Behind(a, c[2]))
<1>1. IsFiniteSet({0, 1} \X (1..Len(a)))
  <2>1. IsFiniteSet(0..1) /\ IsFiniteSet(1..Len(a))
    <3>1. 0 \in Int /\ 1 \in Int /\ Len(a) \in Int
      OBVIOUS
    <3>2. QED
      BY <3>1, FS_Interval, Zenon
  <2>2. 0..1 = {0, 1}
    OBVIOUS
  <2>3. QED
    BY <2>1, <2>2, FS_Product
<1>2. S \in SUBSET ({0, 1} \X (1..Len(a)))
  BY DEF Named, Behind, HeadersOf
<1>3. IsFiniteSet(S)
  BY <1>1, <1>2, FS_Subset
<1>4. Cardinality(S) \in Nat
  BY <1>3, FS_CardinalityType
<1>5. c \notin S
  BY HeaderTypes DEF Named, Behind
<1>6. Cardinality(S \cup {c}) = Cardinality(S) + 1
  BY <1>3, <1>5, FS_AddElement
<1>7. a[c[2]].named => Named(a, Behind(a, c[2]) \cup {c}) = S \cup {c}
  BY DEF Named
<1>8. ~a[c[2]].named => Named(a, Behind(a, c[2]) \cup {c}) = S
  BY DEF Named
<1>9. QED
  BY <1>4, <1>6, <1>7, <1>8

\* What a reader knows that has handled the headers before c and ended n entries.
Tally(a, c, n) ==
  IF c[1] < 2 THEN Passed(a, c) /\ n = Cardinality(Named(a, Behind(a, c[2])))
  ELSE n = Cardinality(Named(a, HeadersOf(a)))

LEMMA TallyKept ==
  ASSUME NEW a \in Seq(Block), Complete(a), NEW c, c[1] < 2, NEW n, Tally(a, c, n),
         NEW m, m = IF a[c[2]].named THEN n + 1 ELSE n
  PROVE  Tally(a, Following(a, c), m)
<1>1. Passed(a, c) /\ n = Cardinality(Named(a, Behind(a, c[2]))) /\ c \in HeadersOf(a)
  BY DEF Tally, Passed
<1>2. m = Cardinality(Named(a, Behind(a, c[2]) \cup {c}))
  BY <1>1, OneMore
<1>3. CASE Following(a, c)[1] < 2
  <2>1. Passed(a, Following(a, c)) /\ Behind(a, Following(a, c)[2]) = Behind(a, c[2]) \cup {c}
    BY <1>1, <1>3, Advance
  <2>2. QED
    BY <1>2, <1>3, <2>1 DEF Tally
<1>4. CASE ~(Following(a, c)[1] < 2)
  <2>1. HeadersOf(a) = Behind(a, c[2]) \cup {c}
    BY <1>1, <1>4, LastOne
  <2>2. QED
    BY <1>2, <1>4, <2>1 DEF Tally
<1>5. QED
  BY <1>3, <1>4

LEMMA FirstTally ==
  ASSUME NEW a \in Seq(Block), Complete(a)
  PROVE  Tally(a, <<0, 1>>, 0)
<1>1. <<0, 1>> \in HeadersOf(a)
  BY HeadersRoute DEF Routes
<1>2. Behind(a, 1) = {}
  <2>1. \A s \in HeadersOf(a) : ~(s[2] < 1)
    BY HeaderTypes
  <2>2. QED
    BY <2>1 DEF Behind
<1>3. Cardinality(Named(a, Behind(a, 1))) = 0
  BY <1>2, FS_EmptySet DEF Named
<1>4. <<0, 1>>[1] = 0 /\ <<0, 1>>[2] = 1
  OBVIOUS
<1>5. Passed(a, <<0, 1>>)
  BY <1>1, <1>2, <1>4 DEF Passed
<1>6. QED
  BY <1>3, <1>4, <1>5 DEF Tally

-----------------------------------------------------------------------------
(***************************************************************************)
(* The refinement. What tar is fed is the archive, block by block, as long *)
(* as the stream is not damaged: the buffer holds the blocks that follow   *)
(* those tar has, and tar asks for no block behind the end of the archive. *)
(***************************************************************************)

\* The header tar is at, or looks for, is one of the archive, and it has ended the entries
\* of those before.
Spot == <<empty_count, IF indatablock = 0 THEN entry ELSE fed - readstep + 1>>
OnRoute ==
  Live => Tally(archive, Spot, entry_index) /\ (indatablock = 0 => empty_count < 2)

\* The stream was not damaged, as far as it was read.
Intact == res # TINF_DATA_ERROR \/ readSourceErrors

\* Push mode: how many blocks of the stream are in the buffer, and which.
Counted ==
  /\ res # TINF_OK => produced = Len(stream)
  /\ pc # "tar" /\ firstblock => produced = output_position
  /\ pc # "tar" /\ ~firstblock /\ ~lastblock => fed + output_position = produced
  /\ pc = "tar" => /\ gzTarBlockPos <= output_position
                   /\ fed + (output_position - gzTarBlockPos) = produced
Contents ==
  \A k \in 0..output_position-1 : output_buffer[k] = produced - output_position + k + 1

\* Tar reads, or will read, the archive of the stream; when a buffer is done with, it may go on.
Reads == pc = "tar" \/ (pc \in {"inflate", "write"} /\ ~firstblock /\ ~lastblock)
GoesOn == Reads /\ (pc = "tar" => gzTarBlockPos = blockmod) => Live
Pushed ==
  mode = "push" /\ pc \in {"inflate", "write", "tar"} =>
    ~readSourceErrors /\ (res # TINF_DATA_ERROR => Counted /\ Contents) /\ GoesOn

\* Pull mode: tar has what was decompressed, and gave up if there was no more.
Pulled ==
  mode = "pull" /\ pc = "tar" =>
    (res # TINF_OK => tar_error # TAR_OK) /\ (Intact => fed = produced)

Upright == IInv /\ OnRoute /\ archive = stream
Given ==
  /\ pc # "idle" => stream \in Archives
  /\ Reads /\ Intact => Upright

\* Push mode: what the decompressor has to itself when tar is done, or the stream at its end.
Expanded ==
  mode = "push" /\ res # TINF_DATA_ERROR /\ pc # "idle"
    /\ (lastblock \/ (pc = "finish" /\ ~firstblock)) => entry_index = EntriesOf[stream]

GzSound == GzIInv /\ Pushed /\ Pulled /\ Given /\ Expanded /\ SuccessMeansExpanded

\* Of the steps of the tar machine.
ReaderStep == Reader!Next \/ UNCHANGED Reader!readerVars

-----------------------------------------------------------------------------
LEMMA EntryFollows ==
  ASSUME IInv, OnRoute, InData, Complete(archive)
  PROVE  /\ Spot = <<empty_count, entry>> /\ Spot[1] < 2 /\ Spot \in HeadersOf(archive)
         /\ Tally(archive, Spot, entry_index)
         /\ archive[entry].named /\ archive[entry].blocks = num_blocks
         /\ Following(archive, Spot) = <<empty_count, entry + 1 + num_blocks>>
         /\ entry + 1 + num_blocks <= Len(archive)
<1>1. archive \in Seq(Block) /\ CountersOK /\ InsideEntry
  BY InsideView DEF IInv, TypeOK
<1>2. Live /\ indatablock = 0
  BY DEF InData
<1>3. Spot = <<empty_count, entry>> /\ empty_count < 2 /\ Tally(archive, Spot, entry_index)
  BY <1>2 DEF OnRoute, Spot
<1>4. Spot[1] = empty_count /\ Spot[2] = entry
  BY <1>3
<1>5. Spot \in HeadersOf(archive)
  BY <1>3, <1>4 DEF Tally, Passed
<1>6. archive[entry].named /\ archive[entry].blocks = num_blocks
  BY <1>1 DEF InsideEntry
<1>7. Following(archive, Spot) = <<empty_count, entry + 1 + num_blocks>>
  BY <1>4, <1>6 DEF Following
<1>8. Following(archive, Spot) \in HeadersOf(archive)
  BY <1>1, <1>3, <1>5, <1>7, HeadersRoute DEF Routes
<1>9. entry + 1 + num_blocks <= Len(archive)
  BY <1>1, <1>7, <1>8, HeaderTypes
<1>10. QED
  BY <1>3, <1>4, <1>5, <1>6, <1>7, <1>9

LEMMA HeaderFollows ==
  ASSUME IInv, OnRoute, InHeaders, HeadersLeft, Complete(archive)
  PROVE  /\ Spot = <<empty_count, fed - readstep + 1>> /\ Spot[1] < 2
         /\ Spot[2] = fed - readstep + 1 /\ Spot \in HeadersOf(archive)
         /\ Tally(archive, Spot, entry_index) /\ fed - readstep + 1 \in 1..Len(archive)
<1>1. archive \in Seq(Block) /\ Live /\ indatablock = -1 /\ empty_count < 2
  BY DEF IInv, TypeOK, InHeaders, HeadersLeft
<1>2. Spot = <<empty_count, fed - readstep + 1>> /\ Tally(archive, Spot, entry_index)
  BY <1>1 DEF OnRoute, Spot
<1>3. Spot[1] = empty_count /\ Spot[2] = fed - readstep + 1
  BY <1>2
<1>4. Spot \in HeadersOf(archive)
  BY <1>1, <1>2, <1>3 DEF Tally, Passed
<1>5. QED
  BY <1>1, <1>2, <1>3, <1>4, HeaderTypes

\* The header that is parsed.
LEMMA ParsedFollows ==
  ASSUME IInv, OnRoute, Parsing, Complete(archive)
  PROVE  /\ Spot = <<empty_count, fed>> /\ Spot[1] < 2 /\ Spot[2] = fed /\ fed \in Nat
         /\ Spot \in HeadersOf(archive) /\ Tally(archive, Spot, entry_index)
         /\ read_buffer = fed /\ Views(read_buffer) = {archive[fed]} /\ archive \in Seq(Block)
<1>1. InHeaders /\ HeadersLeft /\ readstep = 1 /\ fed \in Nat
  BY DEF Parsing, IInv, TypeOK, CountersOK
<1>2. fed - readstep + 1 = fed
  BY <1>1
<1>3. read_buffer = fed /\ Views(read_buffer) = {archive[fed]}
  <2>1. Position + 1 = fed /\ read_buffer = fed /\ Views(read_buffer) = {archive[Position + 1]}
    BY ParsingView
  <2>2. QED
    BY <2>1
<1>4. QED
  BY <1>1, <1>2, <1>3, HeaderFollows DEF IInv, TypeOK

\* A step that takes a block finds one in a complete archive, and is followed by another.
LEMMA NeedsBlock ==
  ASSUME IInv, OnRoute, Complete(archive), NEW b \in Int, ReadTarStep(b), fed' # fed
  PROVE  fed + 1 <= Len(archive)
<1>1. CountersOK /\ archive \in Seq(Block) /\ Len(archive) \in Nat /\ MaxBlocks \in Nat
  BY ArchivesAssumption DEF IInv, TypeOK
<1> USE DEF position
<1>2. CASE ReadData(b)
  <2>1. InData /\ DataLeft /\ block_read = 0
    BY <1>2 DEF ReadData
  <2>2. InsideEntry
    BY <2>1, InsideView
  <2>3. entry + 1 + num_blocks <= Len(archive)
    BY <2>1, EntryFollows
  <2>4. fed = entry + num_blocks_iterator /\ num_blocks_iterator < num_blocks
        /\ entry \in Int /\ num_blocks \in Int /\ num_blocks_iterator \in Int
    BY <1>1, <2>1, <2>2 DEF InsideEntry, DataLeft, CountersOK
  <2>5. QED
    BY <1>1, <2>3, <2>4
<1>3. CASE ReadHeader(b)
  <2>1. InHeaders /\ HeadersLeft /\ readstep = 0
    BY <1>3 DEF ReadHeader
  <2>2. fed - readstep + 1 \in 1..Len(archive) /\ fed \in Nat
    BY <1>1, <2>1, HeaderFollows DEF CountersOK
  <2>3. QED
    BY <1>1, <2>1, <2>2
<1>4. ASSUME NEW n \in 1..MaxBlocks, OpenAndRead(n, b)
      PROVE  fed + 1 <= Len(archive)
  <2>1. Parsing /\ [named |-> TRUE, blocks |-> n] \in Views(read_buffer)
    BY <1>4 DEF OpenAndRead, Opened
  <2>2. /\ Spot = <<empty_count, fed>> /\ Spot[1] < 2 /\ Spot[2] = fed /\ fed \in Nat
        /\ Spot \in HeadersOf(archive) /\ Views(read_buffer) = {archive[fed]}
    BY <2>1, ParsedFollows
  <2>3. archive[fed].named /\ archive[fed].blocks = n
    BY <2>1, <2>2
  <2>4. Following(archive, Spot) = <<Spot[1], fed + 1 + n>>
    BY <2>2, <2>3 DEF Following
  <2>5. Following(archive, Spot) \in HeadersOf(archive)
    BY <1>1, <2>2, <2>4, HeadersRoute DEF Routes
  <2>6. fed + 1 + n <= Len(archive)
    BY <1>1, <2>4, <2>5, HeaderTypes
  <2>7. QED
    BY <1>1, <2>2, <2>6
<1>5. ASSUME NEW ok \in BOOLEAN, ExpandData(ok) \/ EndData(ok) \/ OpenBare(ok)
      PROVE  fed' = fed
  BY <1>5 DEF ExpandData, EndData, OpenBare
<1>6. ASSUME NEW n \in 1..MaxBlocks, NEW ok \in BOOLEAN, OpenAndExpand(n, ok)
      PROVE  fed' = fed
  BY <1>6 DEF OpenAndExpand
<1>7. CASE Refused \/ Done \/ EmptyHeader \/ HeaderRefused
  BY <1>7 DEF Refused, Done, EmptyHeader, HeaderRefused
<1>8. StepCase(b)
  BY StepCases
<1>9. QED
  BY <1>2, <1>3, <1>4, <1>5, <1>6, <1>7, <1>8 DEF StepCase

\* A step that took a block leaves a machine that can take the next step.
LEMMA TakenLive ==
  ASSUME TypeOK, NEW b \in Int, ReadTarStep(b), fed' # fed
  PROVE  Live'
<1> USE DEF position, Live, Called
<1>1. CASE ReadData(b)
  BY <1>1 DEF ReadData, InData, Take, Miss
<1>2. CASE ReadHeader(b)
  BY <1>2 DEF ReadHeader, InHeaders, Take, Miss
<1>3. ASSUME NEW n \in 1..MaxBlocks, OpenAndRead(n, b)
      PROVE  Live'
  BY <1>3 DEF OpenAndRead, Opened, Parsing, InHeaders, Take, Miss
<1>4. ASSUME NEW ok \in BOOLEAN, ExpandData(ok) \/ EndData(ok) \/ OpenBare(ok)
      PROVE  fed' = fed
  BY <1>4 DEF ExpandData, EndData, OpenBare
<1>5. ASSUME NEW n \in 1..MaxBlocks, NEW ok \in BOOLEAN, OpenAndExpand(n, ok)
      PROVE  fed' = fed
  BY <1>5 DEF OpenAndExpand
<1>6. CASE Refused \/ Done \/ EmptyHeader \/ HeaderRefused
  BY <1>6 DEF Refused, Done, EmptyHeader, HeaderRefused
<1>7. StepCase(b)
  BY StepCases
<1>8. QED
  BY <1>1, <1>2, <1>3, <1>4, <1>5, <1>6, <1>7 DEF StepCase

\* A step stays where the archive has its headers.
LEMMA RouteKept ==
  ASSUME IInv, OnRoute, Complete(archive), NEW b \in Int, ReadTarStep(b)
  PROVE  OnRoute'
<1>1. CountersOK /\ archive \in Seq(Block) /\ Len(archive) \in Nat /\ MaxBlocks \in Nat
  BY ArchivesAssumption DEF IInv, TypeOK
<1> USE DEF Live, Called, Abort
<1>2. CASE Refused \/ Done \/ HeaderRefused
  <2>1. ~callbacks'
    BY <1>2 DEF Refused, Done, HeaderRefused
  <2>2. QED
    BY <2>1 DEF OnRoute
<1>3. CASE EmptyHeader
  <2>1. /\ Parsing /\ archive' = archive /\ fed' = fed /\ indatablock' = -1
        /\ empty_count' = empty_count + 1 /\ readstep' = 0 /\ entry_index' = entry_index
        /\ \E h \in Views(read_buffer) : ~h.named
    BY <1>3 DEF EmptyHeader, Parsing, position, data, InHeaders
  <2>2. /\ Spot = <<empty_count, fed>> /\ Spot[1] < 2 /\ Spot[2] = fed /\ fed \in Nat
        /\ Tally(archive, Spot, entry_index) /\ Views(read_buffer) = {archive[fed]}
    BY <2>1, ParsedFollows
  <2>3. ~archive[fed].named
    BY <2>1, <2>2
  <2>4. Following(archive, Spot) = <<empty_count + 1, fed + 1>>
    BY <2>2, <2>3 DEF Following
  <2>5. Spot' = <<empty_count + 1, fed + 1>>
    <3>1. fed - 0 + 1 = fed + 1
      BY <2>2
    <3>2. QED
      BY <2>1, <3>1 DEF Spot
  <2>6. Tally(archive, Following(archive, Spot), entry_index)
    BY <1>1, <2>2, <2>3, TallyKept
  <2>7. Tally(archive', Spot', entry_index')
    BY <2>1, <2>4, <2>5, <2>6
  <2>8. QED
    BY <2>1, <2>7 DEF OnRoute
<1>4. ASSUME InData, archive' = archive, indatablock' = indatablock, entry' = entry,
             entry_index' = entry_index, empty_count' = empty_count
      PROVE  OnRoute'
  <2>1. Spot' = Spot
    BY <1>4 DEF Spot, InData
  <2>2. QED
    BY <1>4, <2>1 DEF OnRoute, InData
<1>5. CASE ReadData(b)
  <2>1. /\ InData /\ archive' = archive /\ indatablock' = indatablock /\ entry' = entry
        /\ entry_index' = entry_index /\ empty_count' = empty_count
    BY <1>5 DEF ReadData, data
  <2>2. QED
    BY <1>4, <2>1
<1>6. ASSUME NEW ok \in BOOLEAN, ExpandData(ok)
      PROVE  OnRoute'
  <2>1. /\ InData /\ archive' = archive /\ indatablock' = indatablock /\ entry' = entry
        /\ entry_index' = entry_index /\ empty_count' = empty_count
    BY <1>6 DEF ExpandData, position
  <2>2. QED
    BY <1>4, <2>1
<1>7. CASE ReadHeader(b)
  <2>1. /\ InHeaders /\ archive' = archive /\ indatablock' = -1 /\ indatablock = -1
        /\ entry_index' = entry_index /\ empty_count' = empty_count /\ readstep = 0
    BY <1>7 DEF ReadHeader, InHeaders, data
  <2>2. (Take(b) /\ readstep' = 1) \/ ~callbacks'
    BY <1>7 DEF ReadHeader, Miss
  <2>3. Take(b) /\ readstep' = 1 => Spot' = Spot
    <3>1. Take(b) /\ readstep' = 1 => fed' - readstep' + 1 = fed - readstep + 1
      BY <1>1, <2>1 DEF Take, CountersOK
    <3>2. QED
      BY <2>1, <3>1 DEF Spot
  <2>4. QED
    BY <2>1, <2>2, <2>3 DEF OnRoute, InHeaders
<1>8. ASSUME NEW ok \in BOOLEAN, EndData(ok)
      PROVE  OnRoute'
  <2>1. /\ InData /\ ~DataLeft /\ archive' = archive /\ fed' = fed /\ indatablock' = -1
        /\ empty_count' = empty_count /\ readstep' = readstep
        /\ (ok \/ ~callbacks') /\ (ok => entry_index' = entry_index + 1)
    BY <1>8 DEF EndData, position, static
  <2>2. InsideEntry
    BY <2>1, InsideView
  <2>3. readstep = 0 /\ entry + num_blocks = fed /\ fed \in Nat /\ entry \in Int /\ num_blocks \in Int
    BY <1>1, <2>1, <2>2 DEF InsideEntry, DataLeft, CountersOK
  <2>4. /\ Spot = <<empty_count, entry>> /\ Spot[1] < 2 /\ Tally(archive, Spot, entry_index)
        /\ archive[entry].named
        /\ Following(archive, Spot) = <<empty_count, entry + 1 + num_blocks>>
    BY <2>1, EntryFollows
  <2>5. Tally(archive, Following(archive, Spot), entry_index + 1)
    BY <1>1, <2>4, TallyKept
  <2>6. Spot' = <<empty_count, entry + 1 + num_blocks>>
    <3>1. fed' - readstep' + 1 = entry + 1 + num_blocks
      BY <2>1, <2>3
    <3>2. QED
      BY <2>1, <3>1 DEF Spot
  <2>7. ok => Tally(archive', Spot', entry_index')
    BY <2>1, <2>4, <2>5, <2>6
  <2>8. QED
    BY <2>1, <2>7 DEF OnRoute
<1>9. ASSUME NEW ok \in BOOLEAN, OpenBare(ok)
      PROVE  OnRoute'
  <2>1. /\ Parsing /\ archive' = archive /\ fed' = fed /\ indatablock' = -1
        /\ empty_count' = empty_count /\ readstep' = 0
        /\ [named |-> TRUE, blocks |-> 0] \in Views(read_buffer)
        /\ (ok \/ ~callbacks') /\ (ok => entry_index' = entry_index + 1)
    BY <1>9 DEF OpenBare, Opened, Parsing
  <2>2. /\ Spot = <<empty_count, fed>> /\ Spot[1] < 2 /\ Spot[2] = fed /\ fed \in Nat
        /\ Tally(archive, Spot, entry_index) /\ Views(read_buffer) = {archive[fed]}
    BY <2>1, ParsedFollows
  <2>3. archive[fed].named /\ archive[fed].blocks = 0
    BY <2>1, <2>2
  <2>4. Following(archive, Spot) = <<empty_count, fed + 1>>
    <3>1. fed + 1 + 0 = fed + 1
      BY <2>2
    <3>2. QED
      BY <2>2, <2>3, <3>1 DEF Following
  <2>5. Tally(archive, Following(archive, Spot), entry_index + 1)
    BY <1>1, <2>2, <2>3, TallyKept
  <2>6. Spot' = <<empty_count, fed + 1>>
    <3>1. fed - 0 + 1 = fed + 1
      BY <2>2
    <3>2. QED
      BY <2>1, <3>1 DEF Spot
  <2>7. ok => Tally(archive', Spot', entry_index')
    BY <2>1, <2>4, <2>5, <2>6
  <2>8. QED
    BY <2>1, <2>7 DEF OnRoute
<1>10. ASSUME NEW n \in 1..MaxBlocks, OpenAndRead(n, b)
       PROVE  OnRoute'
  <2>1. /\ Parsing /\ archive' = archive /\ indatablock' = 0 /\ entry' = read_buffer
        /\ empty_count' = empty_count /\ entry_index' = entry_index
    BY <1>10 DEF OpenAndRead, Opened
  <2>2. /\ Spot = <<empty_count, fed>> /\ Spot[1] < 2 /\ read_buffer = fed
        /\ Tally(archive, Spot, entry_index)
    BY <2>1, ParsedFollows
  <2>3. Spot' = Spot
    BY <2>1, <2>2 DEF Spot
  <2>4. empty_count' < 2
    BY <2>1, <2>2
  <2>5. QED
    BY <2>1, <2>2, <2>3, <2>4 DEF OnRoute
<1>11. ASSUME NEW n \in 1..MaxBlocks, NEW ok \in BOOLEAN, OpenAndExpand(n, ok)
       PROVE  OnRoute'
  BY <1>11, NoHeaderExpanded
<1>12. StepCase(b)
  BY StepCases
<1>13. QED
  BY <1>2, <1>3, <1>5, <1>6, <1>7, <1>8, <1>9, <1>10, <1>11, <1>12 DEF StepCase

\* A tar machine that has all blocks of a complete archive has ended all its entries,
\* and so has one that met the second empty header.
LEMMA AllEnded ==
  ASSUME IInv, OnRoute, Complete(archive), Live, fed = Len(archive) \/ (InHeaders /\ ~HeadersLeft)
  PROVE  entry_index = Cardinality(Named(archive, HeadersOf(archive)))
<1>1. CountersOK /\ archive \in Seq(Block) /\ Len(archive) \in Nat
  BY DEF IInv, TypeOK
<1>2. CASE InHeaders /\ ~HeadersLeft
  <2>1. Spot = <<empty_count, fed - readstep + 1>> /\ ~(empty_count < 2)
        /\ Tally(archive, Spot, entry_index)
    BY <1>2 DEF InHeaders, HeadersLeft, OnRoute, Spot
  <2>2. ~(Spot[1] < 2)
    BY <2>1
  <2>3. QED
    BY <2>1, <2>2 DEF Tally
<1>3. CASE InData /\ fed = Len(archive)
  <2>1. entry + 1 + num_blocks <= Len(archive) /\ InsideEntry
    BY <1>3, EntryFollows, InsideView
  <2>2. entry + num_blocks_iterator + block_read = fed
        /\ num_blocks_iterator + block_read <= num_blocks
        /\ entry \in Int /\ num_blocks \in Int /\ num_blocks_iterator \in Int /\ block_read \in Int
    BY <1>1, <2>1 DEF InsideEntry, CountersOK
  <2>3. FALSE
    BY <1>1, <1>3, <2>1, <2>2
  <2>4. QED
    BY <2>3
<1>4. CASE InHeaders /\ HeadersLeft /\ fed = Len(archive)
  <2>1. /\ Spot[1] < 2 /\ Spot[2] = fed - readstep + 1 /\ Spot \in HeadersOf(archive)
        /\ Tally(archive, Spot, entry_index) /\ fed - readstep + 1 \in 1..Len(archive)
    BY <1>4, HeaderFollows
  <2>2. readstep = 1 /\ Spot[2] = Len(archive)
    BY <1>1, <1>4, <2>1 DEF CountersOK
  <2>3. ~(Following(archive, Spot)[1] < 2)
    <3>1. SUFFICES ASSUME Following(archive, Spot)[1] < 2 PROVE FALSE
      OBVIOUS
    <3>2. Following(archive, Spot) \in HeadersOf(archive)
      BY <1>1, <2>1, <3>1, HeadersRoute DEF Routes
    <3>3. Following(archive, Spot)[2] \in 1..Len(archive)
      BY <1>1, <3>2, HeaderTypes
    <3>4. Following(archive, Spot)[2] > Spot[2]
      BY <1>1, <2>1, HeaderTypes
    <3>5. QED
      BY <1>1, <2>2, <3>3, <3>4
  <2>4. ~archive[Spot[2]].named
    <3>1. archive[Spot[2]].named => Following(archive, Spot) = <<Spot[1], Spot[2] + 1 + archive[Spot[2]].blocks>>
      BY <1>1, <2>1, HeaderTypes
    <3>2. archive[Spot[2]].named => Following(archive, Spot)[1] = Spot[1]
      BY <3>1
    <3>3. QED
      BY <2>1, <2>3, <3>2
  <2>5. Tally(archive, Following(archive, Spot), entry_index)
    BY <1>1, <2>1, <2>4, TallyKept
  <2>6. QED
    BY <2>3, <2>5 DEF Tally
<1>5. InData \/ InHeaders
  BY <1>1 DEF InData, InHeaders, CountersOK
<1>6. QED
  BY <1>2, <1>3, <1>4, <1>5

\* A step that takes no block does what it does when there is none.
LEMMA Untaken ==
  ASSUME TypeOK, NEW b \in Int, b # Short, ReadTarStep(b), fed' = fed
  PROVE  ReadTarStep(Short)
<1>1. ~Take(b) /\ ~Miss(b)
  BY DEF Take, Miss, TypeOK, CountersOK
<1>2. ~ReadData(b) /\ ~ReadHeader(b) /\ \A n \in 1..MaxBlocks : ~OpenAndRead(n, b)
  BY <1>1, Zenon DEF ReadData, ReadHeader, OpenAndRead
<1>3. QED
  BY <1>2, Zenon DEF ReadTarStep

\* The tar machine reads on, given the next block or, when there is none, too little.
LEMMA TarStep ==
  ASSUME IInv, OnRoute, Complete(archive), NEW b \in Int, ReadTarStep(b),
         fed' # fed => b = fed + 1
  PROVE  IInv' /\ OnRoute' /\ archive' = archive /\ ReaderStep
<1>1. OnRoute' /\ ReaderStep
  BY RouteKept, StepRefined DEF ReaderStep
<1>2. archive' = archive
  BY StepCases DEF StepCase, Refused, Done, EmptyHeader, HeaderRefused, ReadData, ReadHeader,
     ExpandData, EndData, OpenBare, OpenAndRead, OpenAndExpand, Opened, position
<1>3. CASE fed' # fed
  <2>1. fed + 1 <= Len(archive)
    BY <1>3, NeedsBlock
  <2>2. Next1(b)
    BY <1>3, <2>1 DEF Next1
  <2>3. QED
    BY <1>1, <1>2, <2>2, StepIInv
<1>4. CASE fed' = fed
  <2>1. Short \in Int /\ TypeOK
    BY DEF IInv
  <2>2. ReadTarStep(Short)
    BY <1>4, <2>1, Untaken, Zenon
  <2>3. Next1(Short)
    BY <2>1 DEF Next1, TypeOK, CountersOK
  <2>4. QED
    BY <1>1, <1>2, <2>1, <2>2, <2>3, StepIInv
<1>5. QED
  BY <1>3, <1>4

\* Once a step failed, no later one clears the error; one that is given too little takes
\* nothing; and only the second empty header ends a session well.
LEMMA StuckError ==
  ASSUME NEW b \in Int, ReadTarStep(b), tar_error # TAR_OK
  PROVE  tar_error' = tar_error
<1>1. ~Live /\ ~InData /\ ~InHeaders /\ ~Parsing
  BY DEF Live, InData, InHeaders, Parsing
<1>2. Refused
  BY <1>1, Zenon DEF ReadTarStep, Done, EmptyHeader, HeaderRefused, ReadData, ReadHeader,
     ExpandData, EndData, OpenBare, OpenAndRead, OpenAndExpand, Opened
<1>3. QED
  BY <1>2 DEF Refused

LEMMA ShortTakesNothing ==
  ASSUME ReadTarStep(Short)
  PROVE  fed' = fed
<1>1. ~Take(Short)
  BY DEF Take
<1>2. QED
  BY <1>1, StepCases DEF StepCase, Refused, Done, EmptyHeader, HeaderRefused, ReadData, ReadHeader,
     ExpandData, EndData, OpenBare, OpenAndRead, OpenAndExpand, Opened, position, Miss

LEMMA DoneExpanding ==
  ASSUME TypeOK, NEW b \in Int, ReadTarStep(b), result' = TAR_EXPANDING_DONE
  PROVE  Live /\ InHeaders /\ ~HeadersLeft /\ entry_index' = entry_index
<1>1. Done
  <2>1. ~Refused
    BY DEF Refused, NoCallbacks, TypeOK, CodesOK, TarErrors
  <2>2. ~EmptyHeader /\ ~HeaderRefused /\ ~ReadData(b) /\ ~ReadHeader(b)
    BY DEF EmptyHeader, HeaderRefused, ReadData, ReadHeader, ReadTarStepReturns
  <2>3. \A ok \in BOOLEAN : ~ExpandData(ok) /\ ~EndData(ok) /\ ~OpenBare(ok)
    BY DEF ExpandData, EndData, OpenBare, ReadTarStepReturns
  <2>4. \A n \in 1..MaxBlocks : ~OpenAndRead(n, b) /\ \A ok \in BOOLEAN : ~OpenAndExpand(n, ok)
    BY DEF OpenAndRead, OpenAndExpand
  <2>5. QED
    BY <2>1, <2>2, <2>3, <2>4, StepCases DEF StepCase
<1>2. QED
  BY <1>1 DEF Done, InHeaders

LEMMA SetupUpright ==
  ASSUME FreshStart, TypeOK, NEW a \in Archives, Complete(a), SetupOK(a)
  PROVE  IInv' /\ OnRoute' /\ archive' = a /\ fed' = 0 /\ Reader!Open
<1>1. IInv' /\ Reader!Open
  BY SetupIInv, OpenRefined
<1>2. /\ archive' = a /\ fed' = 0 /\ readstep' = 0 /\ empty_count' = 0 /\ indatablock' = -1
      /\ entry_index' = 0
  BY DEF SetupOK, AtRest, static
<1>3. Spot' = <<0, 1>>
  BY <1>2 DEF Spot
<1>4. Tally(a, <<0, 1>>, 0)
  BY FirstTally, ArchivesAssumption
<1>5. OnRoute'
  BY <1>2, <1>3, <1>4 DEF OnRoute
<1>6. QED
  BY <1>1, <1>2, <1>5

\* A step that leaves the tar machine alone.
LEMMA SameUpright ==
  ASSUME UNCHANGED vars
  PROVE  /\ UNCHANGED Reader!readerVars /\ ReaderStep /\ fed' = fed /\ tar_error' = tar_error
         /\ entry_index' = entry_index /\ (Live' <=> Live)
         /\ (Upright /\ stream' = stream => Upright')
<1>1. UNCHANGED Reader!readerVars
  BY SameRefined
<1>2. /\ archive' = archive /\ fed' = fed /\ readstep' = readstep /\ indatablock' = indatablock
      /\ empty_count' = empty_count /\ entry' = entry /\ tar_error' = tar_error
      /\ entry_index' = entry_index /\ (Live' <=> Live)
  BY DEF vars, position, static, data, Live, Called
<1>3. IInv => IInv'
  BY SameIInv
<1>4. OnRoute => OnRoute'
  <2>1. Spot' = Spot
    BY <1>2 DEF Spot
  <2>2. QED
    BY <1>2, <2>1 DEF OnRoute
<1>5. QED
  BY <1>1, <1>2, <1>3, <1>4, Zenon DEF Upright, ReaderStep

\* All entries are ended when a machine that reads the stream has all of it, or is done.
LEMMA AllExpanded ==
  ASSUME \A a \in Archives : Complete(a), GzSound, Reads, Intact, Live,
         fed = Len(stream) \/ (InHeaders /\ ~HeadersLeft)
  PROVE  entry_index = EntriesOf[stream]
<1>1. stream \in Archives /\ Upright
  BY DEF GzSound, Given, Reads
<1>2. entry_index = Cardinality(Named(archive, HeadersOf(archive)))
  BY <1>1, AllEnded DEF Upright
<1>3. QED
  BY <1>1, <1>2 DEF Upright, EntriesOf

-----------------------------------------------------------------------------
(***************************************************************************)
(* The call, step by step. A step keeps what was pushed, pulled and given, *)
(* and is one of the reader's unless the stream is damaged.                *)
(***************************************************************************)
Kept ==
  /\ Pushed' /\ Pulled' /\ Given' /\ Expanded' /\ SuccessMeansExpanded'
  /\ Damaged \/ ReaderStep

\* After a return, or where the decompressor has ended, nothing is left to be read.
LEMMA Returned ==
  ASSUME GzSound, pc' = "idle", SuccessMeansExpanded', Damaged \/ ReaderStep
  PROVE  Kept
BY DEF Pushed, Pulled, Given, Expanded, Reads, GzSound, Kept

LEMMA Left ==
  ASSUME GzSound, pc' = "finish", pc # "idle", stream' = stream, Expanded', Damaged \/ ReaderStep
  PROVE  Kept
BY DEF Pushed, Pulled, Given, Reads, GzSound, Kept, SuccessMeansExpanded

\* The decompressor begins, goes on, or hands its buffer over.
LEMMA KeptInPush ==
  ASSUME GzSound, UNCHANGED vars, mode = "push", mode' = "push", stream' = stream, pc # "idle",
         pc' \in {"inflate", "write", "tar"}, Pushed', lastblock' = lastblock,
         res = TINF_DATA_ERROR => res' = TINF_DATA_ERROR, Reads' => Reads /\ (Intact' => Intact)
  PROVE  Kept
<1>1. ReaderStep /\ (Upright => Upright') /\ entry_index' = entry_index
  BY SameUpright
<1>2. Pulled'
  BY DEF Pulled
<1>3. Given'
  BY <1>1 DEF Given, GzSound
<1>4. Expanded' /\ SuccessMeansExpanded'
  BY <1>1 DEF Expanded, SuccessMeansExpanded, GzSound
<1>5. QED
  BY <1>1, <1>2, <1>3, <1>4 DEF Kept

LEMMA OpenKept ==
  ASSUME FreshStart, \A a \in Archives : Complete(a), GzSound, GzIInv',
         NEW s \in Archives, Open(s)
  PROVE  Kept
<1>1. CASE OpenPush(s)
  <2>1. /\ UNCHANGED vars /\ mode' = "push" /\ stream' = s /\ pc' = "inflate" /\ firstblock' = TRUE
        /\ produced' = 0 /\ output_position' = 0 /\ res' = TINF_OK /\ readSourceErrors' = FALSE
        /\ lastblock' = FALSE
    BY <1>1 DEF OpenPush, OpenCommon, vars
  <2>2. ReaderStep
    BY <2>1, SameUpright
  <2>3. Pushed'
    BY <2>1 DEF Pushed, Counted, Contents, GoesOn, Reads
  <2>4. Pulled' /\ Given' /\ Expanded' /\ SuccessMeansExpanded'
    BY <2>1 DEF Pulled, Given, Reads, Expanded, SuccessMeansExpanded
  <2>5. QED
    BY <2>2, <2>3, <2>4 DEF Kept
<1>2. CASE OpenPull(s)
  <2>1. /\ SetupOK(s) /\ mode' = "pull" /\ stream' = s /\ pc' = "tar" /\ produced' = 0
        /\ res' = TINF_OK
    BY <1>2 DEF OpenPull, OpenCommon
  <2>2. IInv' /\ OnRoute' /\ archive' = s /\ fed' = 0 /\ Reader!Open
    BY <2>1, SetupUpright DEF GzSound, GzIInv, GzTypes
  <2>3. Pushed' /\ Pulled' /\ Given' /\ Expanded' /\ SuccessMeansExpanded'
    BY <2>1, <2>2 DEF Pushed, Pulled, Given, Upright, Expanded, SuccessMeansExpanded
  <2>4. QED
    BY <2>2, <2>3 DEF Kept, ReaderStep, Reader!Next
<1>3. QED
  BY <1>1, <1>2 DEF Open

LEMMA InflateBlockKept == ASSUME GzSound, GzIInv', InflateBlock PROVE Kept
<1>1. /\ pc = "inflate" /\ produced' = produced + 1
      /\ output_buffer' = [output_buffer EXCEPT ![output_position] = produced + 1]
      /\ output_position' = output_position + 1 /\ pc' \in {"inflate", "write"}
      /\ UNCHANGED vars /\ mode' = mode /\ stream' = stream /\ res' = res /\ fed' = fed
      /\ readSourceErrors' = readSourceErrors
      /\ firstblock' = firstblock /\ lastblock' = lastblock
  BY DEF InflateBlock, Goto, vars, position
<1>2. /\ mode = "push" /\ res = TINF_OK /\ output_position \in 0..blockmod-1 /\ produced \in Nat
      /\ fed \in Nat /\ output_buffer \in [0..blockmod-1 -> Int]
  BY <1>1, Blocks1 DEF GzSound, GzIInv, GzTypes, BufferTypes, StreamTypes, Stages, TypeOK, CountersOK
<1>3. ~readSourceErrors /\ Counted /\ Contents /\ GoesOn
  BY <1>1, <1>2 DEF GzSound, Pushed
<1>4. Counted'
  BY <1>1, <1>2, <1>3 DEF Counted
<1>5. Contents'
  <2> SUFFICES ASSUME NEW k \in 0..output_position'-1
               PROVE  output_buffer'[k] = produced' - output_position' + k + 1
    BY DEF Contents
  <2>1. k \in 0..blockmod-1 /\ produced' - output_position' = produced - output_position
    BY <1>1, <1>2, Blocks1
  <2>2. CASE k = output_position
    BY <1>1, <1>2, <2>1, <2>2
  <2>3. CASE k # output_position
    <3>1. k \in 0..output_position-1
      BY <1>1, <1>2, <2>3
    <3>2. output_buffer[k] = produced - output_position + k + 1
      BY <1>3, <3>1 DEF Contents
    <3>3. output_buffer'[k] = output_buffer[k]
      BY <1>1, <1>2, <2>1, <2>3
    <3>4. QED
      BY <2>1, <3>2, <3>3
  <2>4. QED
    BY <2>2, <2>3
<1>6. Reads' => Reads
  BY <1>1 DEF Reads
<1>7. GoesOn'
  BY <1>1, <1>3, <1>6, SameUpright DEF GoesOn
<1>8. Pushed'
  BY <1>1, <1>3, <1>4, <1>5, <1>7 DEF Pushed
<1>9. Intact' => Intact
  BY <1>1 DEF Intact
<1>10. QED
  BY <1>1, <1>2, <1>8, <1>6, <1>9, KeptInPush

LEMMA InflateEndsKept ==
  ASSUME \A a \in Archives : Complete(a), GzSound, GzIInv', NEW torn \in BOOLEAN, InflateEnds(torn)
  PROVE  Kept
<1>1. /\ pc = "inflate" /\ Ends(torn) /\ UNCHANGED vars /\ mode' = mode /\ stream' = stream
      /\ firstblock' = firstblock /\ lastblock' = lastblock /\ fed' = fed
  BY DEF InflateEnds, vars, position
<1>2. ReaderStep
  BY <1>1, SameUpright
<1>3. /\ mode = "push" /\ res = TINF_OK /\ output_position \in Nat /\ produced \in Nat
      /\ fed \in Nat
  BY <1>1 DEF GzSound, GzIInv, GzTypes, BufferTypes, StreamTypes, Stages, TypeOK, CountersOK
<1>4. ~readSourceErrors /\ Counted /\ Contents /\ GoesOn
  BY <1>1, <1>3 DEF GzSound, Pushed
<1>5. CASE readSourceErrors'
  <2>1. pc' = "idle" /\ return_value' = ESP32_TARGZ_STREAM_ERROR
    BY <1>5 DEF InflateEnds, Return
  <2>2. SuccessMeansExpanded'
    BY <2>1 DEF SuccessMeansExpanded
  <2>3. QED
    BY <1>2, <2>1, <2>2, Returned
<1>6. CASE ~readSourceErrors'
  <2>1. /\ output_buffer' = IF torn THEN [output_buffer EXCEPT ![output_position] = Garbage]
                                   ELSE output_buffer
        /\ output_position' = output_position + (IF torn THEN 1 ELSE 0)
        /\ pc' = (IF output_position' > 0 THEN "write" ELSE "finish") /\ produced' = produced
    BY <1>6 DEF InflateEnds, Goto
  <2>2. CASE pc' = "finish"
    <3>1. SUFFICES ASSUME res' # TINF_DATA_ERROR, ~firstblock
                   PROVE  entry_index = EntriesOf[stream]
      <4>1. lastblock => ~firstblock
        BY <1>1 DEF GzSound, GzIInv, Stages
      <4>2. entry_index' = entry_index
        BY <1>1, SameUpright
      <4>3. Expanded'
        BY <1>1, <3>1, <4>1, <4>2 DEF Expanded
      <4>4. QED
        BY <1>1, <1>2, <2>2, <4>3, Left
    <3>2. CASE lastblock
      BY <1>1, <1>3, <3>2 DEF GzSound, Expanded
    <3>3. CASE ~lastblock
      <4>1. ~torn /\ produced = Len(stream)
        BY <1>1, <3>1 DEF Ends
      <4>2. output_position = 0
        BY <1>3, <2>1, <2>2, <4>1
      <4>3. fed = Len(stream)
        BY <1>1, <1>3, <1>4, <3>1, <3>3, <4>1, <4>2 DEF Counted
      <4>4. Reads /\ Intact /\ Live
        BY <1>1, <1>3, <1>4, <3>1, <3>3 DEF Reads, Intact, GoesOn
      <4>5. QED
        BY <4>3, <4>4, AllExpanded
    <3>4. QED
      BY <3>2, <3>3
  <2>3. CASE pc' = "write"
    <3>1. Reads' => Reads
      BY <1>1, <2>3 DEF Reads
    <3>2. GoesOn'
      BY <1>1, <1>4, <2>3, <3>1, SameUpright DEF GoesOn
    <3>3. res' # TINF_DATA_ERROR => Counted' /\ Contents'
      <4>1. SUFFICES ASSUME res' # TINF_DATA_ERROR PROVE Counted' /\ Contents'
        OBVIOUS
      <4>2. ~torn /\ produced = Len(stream)
        BY <1>1, <4>1 DEF Ends
      <4>3. output_buffer' = output_buffer /\ output_position' = output_position
        BY <1>3, <2>1, <4>2
      <4>4. Counted'
        BY <1>1, <1>3, <1>4, <2>1, <2>3, <4>2, <4>3 DEF Counted
      <4>5. Contents'
        BY <1>4, <2>1, <4>3 DEF Contents
      <4>6. QED
        BY <4>4, <4>5
    <3>4. Pushed'
      BY <1>6, <3>2, <3>3, Zenon DEF Pushed
    <3>5. Intact
      BY <1>3 DEF Intact
    <3>6. QED
      BY <1>1, <1>3, <2>3, <3>1, <3>4, <3>5, KeptInPush
  <2>4. QED
    BY <2>1, <2>2, <2>3
<1>7. QED
  BY <1>5, <1>6

\* gzWriteCallback returned true.
LEMMA WrittenKept ==
  ASSUME GzSound, GzIInv', pc \in {"write", "tar"}, mode = "push", Written,
         UNCHANGED <<mode, gz, firstblock>>, ~firstblock, ReaderStep,
         \/ lastblock'
         \/ Reads /\ UNCHANGED vars /\ Live /\ (res = TINF_OK => fed = produced),
         res # TINF_DATA_ERROR /\ (lastblock' \/ res # TINF_OK) => entry_index' = EntriesOf[stream]
  PROVE  Kept
<1>1. /\ output_position' = 0 /\ produced' = produced
      /\ pc' = (IF res = TINF_OK THEN "inflate" ELSE "finish")
      /\ stream' = stream /\ res' = res /\ readSourceErrors' = readSourceErrors
      /\ mode' = mode /\ firstblock' = firstblock
  BY DEF Written, Goto, gz
<1>2. CASE res # TINF_OK
  <2>1. pc' = "finish"
    BY <1>1, <1>2
  <2>2. Expanded'
    BY <1>1, <1>2 DEF Expanded
  <2>3. QED
    BY <1>1, <2>1, <2>2, Left
<1>3. CASE res = TINF_OK
  <2>1. pc' = "inflate"
    BY <1>1, <1>3
  <2>2. ~readSourceErrors
    BY DEF GzSound, Pushed
  <2>3. Contents'
    BY <1>1 DEF Contents
  <2>4. fed' \in Nat /\ produced \in Nat
    BY DEF GzSound, GzIInv, GzTypes, StreamTypes, TypeOK, CountersOK
  <2>5. ~lastblock' => UNCHANGED vars /\ fed' = fed /\ Live'
    BY SameUpright
  <2>6. Counted'
    <3>1. res' = TINF_OK /\ pc' # "tar" /\ ~firstblock' /\ output_position' = 0
      BY <1>1, <1>3, <2>1
    <3>2. ~lastblock' => fed' + output_position' = produced'
      BY <1>1, <1>3, <2>4, <2>5
    <3>3. QED
      BY <3>1, <3>2 DEF Counted
  <2>7. Pushed' /\ Pulled'
    BY <1>1, <2>1, <2>2, <2>3, <2>5, <2>6 DEF Pushed, Pulled, GoesOn, Reads
  <2>8. Given'
    <3>1. CASE lastblock'
      BY <1>1, <2>1, <3>1 DEF Given, Reads, GzSound
    <3>2. CASE ~lastblock'
      <4>1. Intact /\ Reads
        BY <1>3, <3>2 DEF Intact
      <4>2. Upright'
        BY <1>1, <3>2, <4>1, SameUpright DEF GzSound, Given
      <4>3. QED
        BY <1>1, <4>2 DEF Given, GzSound
    <3>3. QED
      BY <3>1, <3>2
  <2>9. Expanded' /\ SuccessMeansExpanded'
    BY <1>1, <1>3, <2>1 DEF Expanded, SuccessMeansExpanded
  <2>10. QED
    BY <2>7, <2>8, <2>9 DEF Kept
<1>4. QED
  BY <1>2, <1>3

LEMMA ProcessNothingKept == ASSUME GzSound, GzIInv', ProcessNothing PROVE Kept
<1>1. /\ pc = "write" /\ lastblock /\ Written /\ UNCHANGED vars
      /\ UNCHANGED <<mode, gz, firstblock>> /\ lastblock' = lastblock
  BY DEF ProcessNothing, vars, gz
<1>2. mode = "push" /\ ~firstblock
  BY <1>1 DEF GzSound, GzIInv, Stages
<1>3. ReaderStep /\ entry_index' = entry_index
  BY <1>1, SameUpright
<1>4. res # TINF_DATA_ERROR => entry_index' = EntriesOf[stream]
  BY <1>1, <1>2, <1>3 DEF GzSound, Expanded
<1>5. QED
  BY <1>1, <1>2, <1>3, <1>4, WrittenKept, Zenon

LEMMA ProcessReturnsKept ==
  ASSUME \A a \in Archives : Complete(a), GzSound, GzIInv', ProcessReturns
  PROVE  Kept
<1>1. /\ pc = "tar" /\ mode = "push" /\ ~(gzTarBlockPos < blockmod) /\ Written
      /\ UNCHANGED vars /\ UNCHANGED <<mode, gz, firstblock>>
  BY DEF ProcessReturns, SlotsLeft, vars, gz
<1>2. ~firstblock /\ Reads /\ ~lastblock /\ lastblock' = lastblock
  BY <1>1 DEF GzSound, GzIInv, Stages, Reads, ProcessReturns
<1>3. ReaderStep /\ entry_index' = entry_index
  BY <1>1, SameUpright
<1>4. gzTarBlockPos = blockmod /\ Live
  <2>1. gzTarBlockPos = blockmod
    BY <1>1, Blocks1 DEF GzSound, GzIInv, GzTypes, CountTypes
  <2>2. QED
    BY <1>1, <1>2, <2>1 DEF GzSound, Pushed, GoesOn
<1>5. res # TINF_OK /\ res # TINF_DATA_ERROR => entry_index = EntriesOf[stream]
  <2>1. SUFFICES ASSUME res # TINF_OK, res # TINF_DATA_ERROR
                 PROVE  fed = Len(stream)
    BY <1>2, <1>4, AllExpanded DEF Intact
  <2>2. /\ produced = Len(stream) /\ gzTarBlockPos <= output_position
        /\ fed + (output_position - gzTarBlockPos) = produced
    BY <1>1, <2>1 DEF GzSound, Pushed, Counted
  <2>3. output_position \in 0..blockmod /\ fed \in Nat /\ produced \in Nat
    BY DEF GzSound, GzIInv, GzTypes, BufferTypes, StreamTypes, TypeOK, CountersOK
  <2>4. QED
    BY <1>4, <2>2, <2>3, Blocks1
<1>6. res = TINF_OK => fed = produced
  <2>1. /\ gzTarBlockPos \in 0..blockmod /\ fed \in Nat
        /\ (res = TINF_OK => fed + (blockmod - gzTarBlockPos) = produced)
    BY <1>1 DEF GzSound, GzIInv, GzTypes, CountTypes, Taken, TypeOK, CountersOK
  <2>2. QED
    BY <1>1, <2>1, Blocks1
<1>7. QED
  BY <1>1, <1>2, <1>3, <1>6, <1>4, <1>5, WrittenKept, Zenon

LEMMA ProcessFirstKept ==
  ASSUME FreshStart, \A a \in Archives : Complete(a), GzSound, GzIInv', ProcessFirst
  PROVE  Kept
<1>1. /\ pc = "write" /\ firstblock /\ SetupOK(stream) /\ firstblock' = FALSE
      /\ gzTarBlockPos' = 0 /\ pc' = "tar" /\ mode' = mode /\ stream' = stream
      /\ res' = res /\ readSourceErrors' = readSourceErrors /\ output_buffer' = output_buffer
      /\ output_position' = output_position /\ produced' = produced /\ lastblock' = FALSE
  BY DEF ProcessFirst, gz, locals, buffer, Goto, StartSlot
<1>2. mode = "push" /\ TypeOK /\ output_position \in Nat /\ produced \in Nat
  BY <1>1 DEF GzSound, GzIInv, GzTypes, BufferTypes, StreamTypes, Stages
<1>3. stream \in Archives /\ Complete(stream)
  BY <1>1 DEF GzSound, Given
<1>4. IInv' /\ OnRoute' /\ archive' = stream /\ fed' = 0 /\ Reader!Open
  BY <1>1, <1>2, <1>3, SetupUpright
<1>5. Pushed'
  <2>1. ~readSourceErrors /\ (res # TINF_DATA_ERROR => Counted /\ Contents)
    BY <1>1, <1>2 DEF GzSound, Pushed
  <2>2. SUFFICES ASSUME res # TINF_DATA_ERROR PROVE Counted' /\ Contents'
    BY <1>1, <2>1, Blocks1 DEF Pushed, GoesOn
  <2>3. Contents'
    BY <1>1, <2>1, <2>2 DEF Contents
  <2>4. Counted'
    BY <1>1, <1>2, <1>4, <2>1, <2>2 DEF Counted
  <2>5. QED
    BY <2>3, <2>4
<1>6. Pulled' /\ Given' /\ Expanded' /\ SuccessMeansExpanded'
  BY <1>1, <1>2, <1>3, <1>4 DEF Pulled, Given, Upright, Expanded, SuccessMeansExpanded
<1>7. QED
  BY <1>4, <1>5, <1>6 DEF Kept, ReaderStep, Reader!Next

LEMMA ProcessNextKept == ASSUME GzSound, GzIInv', ProcessNext PROVE Kept
<1>1. /\ pc = "write" /\ ~lastblock /\ ~firstblock /\ UNCHANGED vars
      /\ gzTarBlockPos' = 0 /\ pc' = "tar" /\ mode' = mode /\ stream' = stream /\ fed' = fed
      /\ res' = res /\ readSourceErrors' = readSourceErrors /\ output_buffer' = output_buffer
      /\ output_position' = output_position /\ produced' = produced /\ lastblock' = lastblock
  BY DEF ProcessNext, gz, locals, buffer, Goto, StartSlot, vars, position
<1>2. mode = "push" /\ output_position \in Nat /\ produced \in Nat /\ fed \in Nat
  BY <1>1 DEF GzSound, GzIInv, GzTypes, BufferTypes, StreamTypes, Stages, TypeOK, CountersOK
<1>3. Pushed'
  <2>1. ~readSourceErrors /\ (res # TINF_DATA_ERROR => Counted /\ Contents)
    BY <1>1, <1>2 DEF GzSound, Pushed
  <2>2. SUFFICES ASSUME res # TINF_DATA_ERROR PROVE Counted' /\ Contents'
    BY <1>1, <2>1, Blocks1 DEF Pushed, GoesOn
  <2>3. Contents'
    BY <1>1, <2>1, <2>2 DEF Contents
  <2>4. Counted'
    BY <1>1, <1>2, <2>1, <2>2 DEF Counted
  <2>5. QED
    BY <2>3, <2>4
<1>4. Reads /\ (Intact' => Intact)
  BY <1>1 DEF Reads, Intact
<1>5. QED
  BY <1>1, <1>2, <1>3, <1>4, KeptInPush

\* The turn of the loop: the slot tar is given, if it takes one, holds the block it is to take.
LEMMA ProcessStepKept ==
  ASSUME \A a \in Archives : Complete(a), GzSound, GzIInv', ProcessStep
  PROVE  Kept
<1>1. /\ pc = "tar" /\ mode = "push" /\ gzTarBlockPos < blockmod /\ ReadTarStep(Feed)
      /\ gzTarBlockPos' = gzTarBlockPos + (fed' - fed)
      /\ mode' = mode /\ stream' = stream /\ res' = res
      /\ readSourceErrors' = readSourceErrors /\ firstblock' = firstblock
      /\ UNCHANGED <<mode, gz, firstblock>>
  BY DEF ProcessStep, SlotsLeft, gz
<1>2. ~firstblock /\ ~readSourceErrors /\ (res # TINF_DATA_ERROR => Counted /\ Contents)
  BY <1>1 DEF GzSound, GzIInv, Stages, Pushed
<1>3. TypeOK /\ Feed \in Int /\ fed' \in {fed, fed + 1} /\ fed \in Nat
  <2>1. TypeOK /\ Feed \in Int
    BY FeedType DEF GzSound, GzIInv, GzTypes
  <2>2. QED
    BY <1>1, <2>1, OneBlock DEF TypeOK, CountersOK
<1>4. /\ gzTarBlockPos \in Nat /\ output_position \in 0..blockmod /\ produced \in Nat
      /\ Len(stream) \in Nat /\ produced <= Len(stream)
  BY DEF GzSound, GzIInv, GzTypes, CountTypes, BufferTypes, StreamTypes
<1>5. pc' = "tar" => GoesOn'
  <2>1. gzTarBlockPos' = blockmod => fed' # fed
    <3>1. SUFFICES ASSUME fed' = fed PROVE gzTarBlockPos' < blockmod
      BY Blocks1
    <3>2. gzTarBlockPos' = gzTarBlockPos
      BY <1>1, <1>3, <1>4, <3>1
    <3>3. QED
      BY <1>1, <3>2
  <2>2. QED
    BY <1>1, <1>3, <2>1, TakenLive DEF GoesOn
<1>6. pc' = "idle" => return_value' # ESP32_TARGZ_OK
  BY DEF ProcessStep, Written, NotWritten, Goto, Return, TarFailure
<1>7. CASE res = TINF_DATA_ERROR
  <2>1. Damaged
    BY <1>1, <1>2, <1>7 DEF Damaged
  <2>2. ~Intact'
    BY <1>1, <1>2, <1>7 DEF Intact
  <2>3. Given'
    BY <1>1, <2>2 DEF GzSound, Given
  <2>4. Pushed' /\ Pulled'
    <3>1. pc' \in {"tar", "idle", "finish"}
      BY <1>7 DEF ProcessStep, Written, NotWritten, Goto, Return
    <3>2. QED
      BY <1>1, <1>2, <1>7, <1>5, <3>1 DEF Pushed, Pulled
  <2>5. Expanded' /\ SuccessMeansExpanded'
    BY <1>1, <1>7 DEF Expanded, SuccessMeansExpanded
  <2>6. QED
    BY <2>1, <2>3, <2>4, <2>5 DEF Kept
<1>8. CASE res # TINF_DATA_ERROR
  <2>1. Upright /\ Reads /\ Intact /\ Complete(archive)
    BY <1>1, <1>8 DEF GzSound, Given, Reads, Intact, Upright
  <2>2. /\ gzTarBlockPos <= output_position /\ fed + (output_position - gzTarBlockPos) = produced
        /\ (res # TINF_OK => produced = Len(stream)) /\ Contents
    BY <1>1, <1>2, <1>8 DEF Counted
  <2>3. res = TINF_OK => output_position = blockmod
    BY <1>1 DEF GzSound, GzIInv, Taken
  <2>4. fed' # fed => gzTarBlockPos < output_position /\ Feed = fed + 1
    <3>1. SUFFICES ASSUME fed' # fed PROVE gzTarBlockPos < output_position /\ Feed = fed + 1
      OBVIOUS
    <3>2. fed + 1 <= Len(stream)
      BY <1>1, <1>3, <2>1, <3>1, NeedsBlock DEF Upright
    <3>3. gzTarBlockPos < output_position
      <4>1. CASE res = TINF_OK
        BY <1>1, <2>3, <4>1
      <4>2. CASE res # TINF_OK
        BY <1>3, <1>4, <2>2, <3>2, <4>2
      <4>3. QED
        BY <4>1, <4>2
    <3>4. gzTarBlockPos % blockmod = gzTarBlockPos
      BY <1>1, <1>4, Blocks1
    <3>5. output_buffer[gzTarBlockPos] = produced - output_position + gzTarBlockPos + 1
      <4>1. gzTarBlockPos \in 0..output_position-1
        BY <1>4, <3>3
      <4>2. QED
        BY <2>2, <4>1 DEF Contents
    <3>6. produced - output_position + gzTarBlockPos + 1 = fed + 1
      BY <1>3, <1>4, <2>2
    <3>7. QED
      BY <3>3, <3>4, <3>5, <3>6 DEF Feed
  <2>5. IInv' /\ OnRoute' /\ archive' = archive /\ ReaderStep
    BY <1>1, <1>3, <2>1, <2>4, TarStep DEF Upright
  <2>6. Upright'
    BY <1>1, <2>1, <2>5 DEF Upright
  <2>7. CASE result' = TAR_EXPANDING_DONE
    <3>1. Written
      BY <2>7 DEF ProcessStep
    <3>2. lastblock'
      BY <2>7, Zenon DEF ProcessStep
    <3>3. Live /\ InHeaders /\ ~HeadersLeft /\ entry_index' = entry_index
      BY <1>1, <1>3, <2>7, DoneExpanding
    <3>4. entry_index' = EntriesOf[stream]
      BY <2>1, <3>3, AllExpanded
    <3>5. QED
      BY <1>1, <1>2, <2>5, <3>1, <3>2, <3>4, WrittenKept, Zenon
  <2>8. CASE result' # TAR_EXPANDING_DONE /\ (gzTarBlockPos' > blockmod \/ result' < 0)
    <3>1. pc' = "idle"
      BY <2>8 DEF ProcessStep, NotWritten, Return
    <3>2. SuccessMeansExpanded'
      BY <1>6, <3>1 DEF SuccessMeansExpanded
    <3>3. QED
      BY <2>5, <3>1, <3>2, Returned
  <2>9. CASE result' # TAR_EXPANDING_DONE /\ ~(gzTarBlockPos' > blockmod \/ result' < 0)
    <3>1. /\ pc' = "tar" /\ output_buffer' = output_buffer
          /\ output_position' = output_position /\ produced' = produced
      BY <2>9 DEF ProcessStep, Goto, locals, buffer
    <3>2. Contents'
      BY <2>2, <3>1 DEF Contents
    <3>3. gzTarBlockPos' <= output_position /\ fed' + (output_position - gzTarBlockPos') = produced
      <4>1. CASE fed' = fed
        BY <1>1, <1>3, <1>4, <2>2, <4>1
      <4>2. CASE fed' = fed + 1
        <5>1. gzTarBlockPos' = gzTarBlockPos + 1 /\ gzTarBlockPos < output_position
          BY <1>1, <1>3, <1>4, <2>4, <4>2
        <5>2. QED
          BY <1>3, <1>4, <2>2, <4>2, <5>1
      <4>3. QED
        BY <1>3, <4>1, <4>2
    <3>4. Counted'
      BY <1>1, <2>2, <3>1, <3>3 DEF Counted
    <3>5. Pushed' /\ Pulled'
      BY <1>1, <1>2, <1>5, <3>1, <3>2, <3>4 DEF Pushed, Pulled
    <3>6. Given'
      BY <1>1, <2>6 DEF GzSound, Given
    <3>7. Expanded' /\ SuccessMeansExpanded'
      <4>1. ~lastblock'
        BY <2>9 DEF ProcessStep
      <4>2. QED
        BY <3>1, <4>1 DEF Expanded, SuccessMeansExpanded
    <3>8. QED
      BY <2>5, <3>5, <3>6, <3>7 DEF Kept
  <2>10. QED
    BY <2>7, <2>8, <2>9
<1>9. QED
  BY <1>7, <1>8

\* Pull mode: what the read callback gives is the next block, or too little.
LEMMA PullStepKept ==
  ASSUME \A a \in Archives : Complete(a), GzSound, GzIInv', PullStep
  PROVE  Kept
<1>1. pc = "tar" /\ mode = "pull" /\ pc' = "tar" /\ mode' = mode /\ stream' = stream
  BY DEF PullStep, Goto
<1>2. /\ TypeOK /\ fed \in Nat /\ produced \in Nat /\ stream \in Archives
      /\ (res # TINF_OK => tar_error # TAR_OK) /\ (Intact => fed = produced /\ Upright)
  BY <1>1 DEF GzSound, GzIInv, GzTypes, StreamTypes, TypeOK, CountersOK, Pulled, Given, Reads
<1>3. Pushed' /\ Expanded' /\ SuccessMeansExpanded'
  BY <1>1 DEF Pushed, Expanded, SuccessMeansExpanded
<1>4. Intact => Complete(archive)
  BY <1>2 DEF Upright
<1>5. CASE /\ ReadTarStep(produced + 1) /\ produced' = fed' /\ res' = res
           /\ readSourceErrors' = readSourceErrors
  <2>1. produced + 1 \in Int
    BY <1>2
  <2>2. res # TINF_OK => tar_error' # TAR_OK
    BY <1>2, <1>5, <2>1, StuckError
  <2>3. Pulled'
    BY <1>1, <1>5, <2>2 DEF Pulled
  <2>4. CASE Intact
    <3>1. IInv' /\ OnRoute' /\ archive' = archive /\ ReaderStep
      BY <1>2, <1>5, <1>4, <2>1, <2>4, TarStep DEF Upright
    <3>2. Upright'
      BY <1>1, <1>2, <2>4, <3>1 DEF Upright
    <3>3. QED
      BY <1>1, <1>2, <1>3, <2>3, <3>1, <3>2 DEF Given, Kept
  <2>5. CASE ~Intact
    <3>1. Damaged /\ ~Intact'
      BY <1>5, <2>5 DEF Damaged, Intact
    <3>2. QED
      BY <1>1, <1>2, <1>3, <2>3, <3>1 DEF Given, Kept
  <2>6. QED
    BY <2>4, <2>5
<1>6. CASE ReadTarStep(Short) /\ MissedRead /\ Ends(FALSE) /\ produced' = produced
  <2>1. Short \in Int /\ fed' = fed /\ res = TINF_OK /\ tar_error' # TAR_OK
    BY <1>2, <1>6, ShortTakesNothing DEF MissedRead
  <2>2. Intact
    BY <2>1 DEF Intact
  <2>3. IInv' /\ OnRoute' /\ archive' = archive /\ ReaderStep
    BY <1>2, <1>6, <1>4, <2>1, <2>2, TarStep DEF Upright
  <2>4. Pulled'
    BY <1>2, <1>6, <2>1, <2>2 DEF Pulled
  <2>5. Given'
    BY <1>1, <1>2, <2>2, <2>3 DEF Given, Upright
  <2>6. QED
    BY <1>3, <2>3, <2>4, <2>5 DEF Kept
<1>7. QED
  BY <1>5, <1>6 DEF PullStep

LEMMA GzNextKept ==
  ASSUME FreshStart, \A a \in Archives : Complete(a), GzSound, GzIInv', [GzNext]_allVars
  PROVE  Kept
<1>1. ASSUME pc' = "idle", SuccessMeansExpanded', ReaderStep
      PROVE  Kept
  BY <1>1, Returned
<1>2. CASE Restart \/ PullNoHeap
  <2>1. pc' = "idle" /\ (Reboot \/ SetupNoHeap) /\ return_value' # ESP32_TARGZ_OK
    BY <1>2 DEF Restart, PullNoHeap, Return
  <2>2. ReaderStep
    BY <2>1, CloseRefined DEF ReaderStep, Reader!Next
  <2>3. QED
    BY <1>1, <2>1, <2>2 DEF SuccessMeansExpanded
<1>3. CASE OpenFails \/ Finish
  <2>1. pc' = "idle" /\ UNCHANGED vars
    BY <1>3 DEF OpenFails, Finish, Return, vars
  <2>2. ReaderStep /\ entry_index' = entry_index
    BY <2>1, SameUpright
  <2>3. SuccessMeansExpanded'
    <3>1. CASE OpenFails
      BY <3>1 DEF OpenFails, Return, SuccessMeansExpanded
    <3>2. CASE Finish
      BY <2>2, <3>2 DEF Finish, gz, GzSound, Expanded, SuccessMeansExpanded
    <3>3. QED
      BY <1>3, <3>1, <3>2
  <2>4. QED
    BY <1>1, <2>1, <2>2, <2>3
<1>4. CASE ProcessNoHeap
  <2>1. pc' = "idle" /\ SetupNoHeap /\ firstblock' = TRUE
    BY <1>4 DEF ProcessNoHeap, NotWritten, Return, GzSound, GzIInv, GzTypes, LabelTypes
  <2>2. ReaderStep
    BY <2>1, CloseRefined DEF ReaderStep, Reader!Next
  <2>3. QED
    BY <1>1, <2>1, <2>2 DEF SuccessMeansExpanded
<1>5. CASE PullEnds
  <2>1. pc' = "finish" /\ pc = "tar" /\ stream' = stream /\ mode' # "push" /\ UNCHANGED vars
    BY <1>5 DEF PullEnds, Goto, gz, vars
  <2>2. ReaderStep
    BY <2>1, SameUpright
  <2>3. QED
    BY <2>1, <2>2, Left DEF Expanded
<1>6. CASE \E s \in Archives : Open(s)
  BY <1>6, OpenKept
<1>7. CASE UNCHANGED allVars
  <2>1. /\ UNCHANGED vars /\ pc' = pc /\ mode' = mode /\ stream' = stream /\ res' = res
        /\ readSourceErrors' = readSourceErrors /\ output_buffer' = output_buffer
        /\ output_position' = output_position /\ produced' = produced
        /\ gzTarBlockPos' = gzTarBlockPos /\ firstblock' = firstblock /\ lastblock' = lastblock
    BY <1>7 DEF allVars, gzVars, gz, locals, buffer, vars
  <2>2. /\ ReaderStep /\ fed' = fed /\ tar_error' = tar_error /\ entry_index' = entry_index
        /\ (Live' <=> Live) /\ (Upright => Upright')
    BY <2>1, SameUpright
  <2>3. Pushed'
    BY <2>1, <2>2 DEF GzSound, Pushed, Counted, Contents, GoesOn, Reads
  <2>4. Pulled' /\ Given'
    BY <2>1, <2>2 DEF GzSound, Pulled, Given, Reads, Intact
  <2>5. Expanded' /\ SuccessMeansExpanded'
    BY <1>7, <2>1, <2>2 DEF GzSound, Expanded, SuccessMeansExpanded, allVars, gzVars
  <2>6. QED
    BY <2>2, <2>3, <2>4, <2>5 DEF Kept
<1>8. CASE InflateBlock \/ \E torn \in BOOLEAN : InflateEnds(torn)
  BY <1>8, InflateBlockKept, InflateEndsKept
<1>9. CASE ProcessNothing \/ ProcessFirst \/ ProcessNext \/ ProcessStep \/ ProcessReturns \/ PullStep
  BY <1>9, ProcessNothingKept, ProcessFirstKept, ProcessNextKept, ProcessStepKept,
     ProcessReturnsKept, PullStepKept
<1>10. QED
  BY <1>2, <1>3, <1>4, <1>5, <1>6, <1>7, <1>8, <1>9 DEF GzNext, GzStep

LEMMA GzSoundness ==
  ASSUME FreshStart, \A a \in Archives : Complete(a)
  PROVE  GzSpec => []GzSound
<1>1. GzInit /\ GzIInv => GzSound
  BY DEF GzInit, PowerOn, GzSound, Pushed, Pulled, Given, Reads, Expanded, SuccessMeansExpanded
<1>2. GzSound /\ GzIInv' /\ [GzNext]_allVars => GzSound'
  BY GzNextKept DEF Kept, GzSound
<1>3. QED
  BY <1>1, <1>2, GzInvariance, PTL DEF GzSpec

\* In both modes, whatever a callback refuses and whatever becomes of the stream, short of its
\* being damaged, each step of gzUncompress is for the callbacks of tar a step of the reader:
\* no block is lost, doubled or given to another entry between the decompressor, its
\* buffer and the tar machine.
THEOREM GzImplementation ==
  ASSUME FreshStart, \A a \in Archives : Complete(a)
  PROVE  GzSpec => ImplementsReaderUnlessDamaged
<1>1. GzInit => Reader!Init
  BY InitRefined DEF GzInit
<1>2. GzSound /\ GzIInv' /\ [GzNext]_allVars
        => [~Damaged => Reader!Next]_(Reader!readerVars)
  BY GzNextKept DEF Kept, ReaderStep
<1>3. QED
  BY <1>1, <1>2, GzSoundness, GzInvariance, PTL DEF GzSpec, ImplementsReaderUnlessDamaged

\* Push mode: a call that returns ESP32_TARGZ_OK has expanded every entry of its stream,
\* whatever a callback refused or the source failed to give, for every complete archive, size
\* of the buffer and place where tar met the last header.
THEOREM EverythingExpanded ==
  ASSUME FreshStart, \A a \in Archives : Complete(a)
  PROVE  GzSpec => []SuccessMeansExpanded
<1>1. GzSound => SuccessMeansExpanded
  BY DEF GzSound
<1>2. QED
  BY <1>1, GzSoundness, PTL
=============================================================================
