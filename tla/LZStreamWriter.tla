--------------------------- MODULE LZStreamWriter ---------------------------
(***************************************************************************)
(* Compressing to a .gz stream, buffer or file: the overloads of           *)
(* LZPacker::compress and the loop of the first of them, the               *)
(* LZStreamWriter it writes to (src/src/libpacker/LibPacker.cpp), and      *)
(* uzlib_deflate_stream under it (src/src/uzlib/genlz77.c).                *)
(*                                                                         *)
(* A source byte is known by its position in the source; the compressor is *)
(* known by how many bytes it makes of a buffer. Its Huffman codes are     *)
(* fixed: input that does not compress grows, by an eighth at most.        *)
(***************************************************************************)
EXTENDS Integers, Sequences

CONSTANTS
  bufSize,       \* of inputBuffer and outputBuffer
  InputSizes,    \* what inputBufferSize may be
  Lengths,       \* the lengths of sources, and the values of srcLen
  Growth,        \* how many bytes a buffer may grow by when it is compressed (bound)
  Faults         \* what the destination may do, of FaultKinds

FaultKinds == {"header", "refuse", "short", "memory"}
\* "lowest possible value = 256 or 512 if streaming from tar", 4096 by default.
ASSUME SizesAssumption ==
  /\ bufSize \in Nat \ {0} /\ Lengths \subseteq Nat \ {0} /\ Growth \in Nat
  /\ \A n \in InputSizes : n \in 1..bufSize /\ bufSize % n = 0
ASSUME LzFaultsAssumption == Faults \subseteq FaultKinds

\* uzlib.h; and what the caller gets: NotCalled before the call, NoReturn while it runs,
\* Crashed when the destructor frees what it should not.
Z_OK == 0
Z_STREAM_END == 1
Z_BUF_ERROR == -5
Z_FINISH == 4
Z_BLOCK == 5
Failed == -1
NoReturn == -2
Crashed == -3
NotCalled == -4

VARIABLES
  target,             \* a stream, an LZBufferWriter or a file
  inputBufferSize, srcLen,
  held,               \* bytes in the source
  total_source_bytes, \* read by the loop of compress
  outputBufIdx, inputBuffer, total_bytes, defl_mode, prev_state, in_loop, dstLen,
  avail,              \* uzstream.out.avail
  outlen,             \* of the pending output, 0: ctx->outbuf is NULL
  compressed,         \* the source bytes the compressor was given, in order
  produced,           \* bytes the compressor made of them
  largest,            \* the most it made of one buffer
  dst,                \* bytes of what it made the destination holds
  footer,             \* the length the footer states, 0: there is none
  faulty,             \* the destination did not take what it was given
  returned            \* by compress

source == <<target, inputBufferSize, srcLen, held>>
writer == <<outputBufIdx, inputBuffer, total_bytes, defl_mode>>
stream == <<prev_state, in_loop, dstLen, avail, outlen, compressed, produced, largest,
            dst, footer, faulty>>
vars == <<source, total_source_bytes, writer, stream, returned>>

May(fault) == fault \in Faults
Least(a, b) == IF a < b THEN a ELSE b
Most(a, b) == IF a > b THEN a ELSE b
Running == returned = NoReturn
Ready == returned = NotCalled

Idle ==
  /\ target = "stream" /\ inputBufferSize = bufSize /\ srcLen = 0 /\ held = 0 /\ total_source_bytes = 0
  /\ outputBufIdx = 0 /\ inputBuffer = [s \in 0..bufSize-1 |-> 0] /\ total_bytes = 0
  /\ defl_mode = Z_BLOCK /\ prev_state = Z_OK /\ in_loop = FALSE /\ dstLen = 0
  /\ avail = bufSize /\ outlen = 0 /\ compressed = <<>> /\ produced = 0 /\ largest = 0
  /\ dst = 0 /\ footer = 0 /\ faulty = FALSE
Init == Idle /\ returned = NotCalled
Rests == UNCHANGED <<total_source_bytes, writer, stream>>

\* The writer, and what became of the source, before a call.
NoWriter ==
  /\ outputBufIdx' = 0 /\ inputBuffer' = [s \in 0..bufSize-1 |-> 0] /\ total_bytes' = 0
  /\ defl_mode' = Z_BLOCK /\ prev_state' = Z_OK /\ avail' = bufSize /\ outlen' = 0 /\ largest' = 0
NothingMade ==
  /\ total_source_bytes' = 0 /\ compressed' = <<>> /\ produced' = 0
  /\ dst' = 0 /\ footer' = 0 /\ faulty' = FALSE
Call(to, size, len, has) ==
  Ready /\ target' = to /\ inputBufferSize' = size /\ srcLen' = len /\ held' = has

\* What a call returns. A buffer is handed out if it has the size that is returned.
getSize == 1 + dst' + (IF footer' > 0 THEN 1 ELSE 0)
Answer(to, code) == IF to = "buffer" /\ code # getSize THEN 0 ELSE code

\* compress, up to its loop: LZStreamWriter::setup writes the header.
Start(to, size, len, has) ==
  /\ len > 0 /\ Call(to, size, len, has) /\ NoWriter /\ NothingMade
  /\ in_loop' = TRUE /\ dstLen' = 1 /\ returned' = NoReturn

\* The call has returned. The next one makes its own of everything.
Forget ==
  /\ ~Running /\ ~Ready /\ returned' = NotCalled
  /\ target' = "stream" /\ inputBufferSize' = bufSize /\ srcLen' = 0 /\ held' = 0
  /\ NoWriter /\ NothingMade /\ in_loop' = FALSE /\ dstLen' = 0

\* A source of no bytes.
StartEmpty(to) ==
  /\ Call(to, inputBufferSize, 0, 0) /\ NoWriter /\ NothingMade
  /\ in_loop' = FALSE /\ dstLen' = 0 /\ returned' = Answer(to, Failed)

\* The header is refused, or there is no memory for the compressor: setup returns, the
\* loop runs idle, and the destructor frees compressor->hash_table of a null compressor.
StartFails ==
  /\ Ready /\ (May("header") \/ May("memory"))
  /\ returned' = Crashed /\ UNCHANGED source /\ Rests

\* A file is only opened for a source of no bytes: "srcLen>0" is among what is refused.
ToFile(len) ==
  /\ Call("file", inputBufferSize, len, len) /\ NoWriter /\ NothingMade
  /\ in_loop' = FALSE /\ dstLen' = 0
  /\ returned' \in IF len > 0 THEN {0} ELSE {0, Failed}

\* dstStream->write: it takes all of a block, or less.
Written(to, size) ==
  {size} \cup (IF May("refuse") /\ to # "buffer" THEN {0} ELSE {})
         \cup (IF May("short") /\ to # "buffer" THEN 1..size ELSE {})

\* A buffer is compressed to k bytes, each of which is written on its own; what the writes
\* answer is not looked at.
CompressBytes(to, len, k) ==
  /\ Call(to, inputBufferSize, len, len) /\ NoWriter /\ total_source_bytes' = len
  /\ compressed' = [s \in 1..len |-> s] /\ produced' = k
  /\ \E header, f \in Written(to, 1), missed \in 0..k :
       /\ missed > 0 => 0 \in Written(to, 1)
       /\ dst' = k - missed /\ footer' = IF f = 1 THEN len ELSE 0
       /\ faulty' = (missed > 0 \/ f = 0 \/ header = 0)
  /\ in_loop' = FALSE /\ dstLen' = 1 + k + 1 /\ returned' = Answer(to, dstLen')

\* A source or a destination is missing, or lzInit has no memory to compress a buffer.
Refused ==
  /\ Ready /\ returned' = 0 /\ UNCHANGED source /\ Rests

-----------------------------------------------------------------------------
(***************************************************************************)
(* One turn of the loop: srcStream->readBytes, then LZStreamWriter::write. *)
(***************************************************************************)
Count == Least(inputBufferSize, held - total_source_bytes)
\* The call ends, the writer is destroyed. Of an output that is still pending the
\* pointer has been moved: to free it is undefined.
Return(code) == returned' \in {Answer(target, code)} \cup (IF outlen' > 0 THEN {Crashed} ELSE {})
\* written_bytes is compared with 0 only: -1 goes unnoticed. success is never reset.
Proceed(n) ==
  /\ total_source_bytes' = total_source_bytes + n
  /\ IF total_source_bytes' < srcLen THEN UNCHANGED returned ELSE Return(dstLen')

\* (A bug: the read is tried again.)
ReadAgain == Running /\ Count = 0 /\ UNCHANGED vars
\* The source has less than srcLen bytes, or stops giving them.
ReadFails ==
  /\ Running /\ Count = 0
  /\ UNCHANGED <<source, total_source_bytes, writer, stream>> /\ Return(Failed)

\* (A bug: the offset is not wrapped.)
UnwrappedIndex == outputBufIdx
\* Where in inputBuffer the next bytes go.
buf_idx == outputBufIdx % bufSize

Broken == ~in_loop \/ prev_state # Z_OK
\* "Returning from previous error".
WriteIgnored ==
  /\ Running /\ Count > 0 /\ Broken
  /\ UNCHANGED <<source, writer, stream>> /\ Proceed(Count)

\* The bytes are appended to inputBuffer.
AppendChunk ==
  /\ Running /\ Count > 0 /\ ~Broken
  /\ inputBuffer' = [s \in 0..bufSize-1 |->
       IF s \in buf_idx..buf_idx+Count-1 THEN total_source_bytes + 1 + s - buf_idx
                                         ELSE inputBuffer[s]]
  /\ outputBufIdx' = outputBufIdx + Count
LastChunk == outputBufIdx + Count >= srcLen

Cache ==
  /\ AppendChunk /\ ~LastChunk /\ buf_idx + Count < bufSize
  /\ UNCHANGED <<source, total_bytes, defl_mode, stream>> /\ Proceed(Count)

BufferReady == LastChunk \/ buf_idx + Count >= bufSize
\* How much of inputBuffer is to be compressed.
input_bytes == IF LastChunk THEN buf_idx + Count ELSE bufSize

\* A state is the end of the stream. (A bug: it is not looked at.)
NeverEnds(state) == state # state
StreamEnds(state) == state = Z_STREAM_END

\* What write makes of a block of output: nothing written, or more read than there
\* should be, stops the writer; the end of the stream brings the footer. Of end(),
\* which is called in no other state, the tests of the length never fail.
WriteOut(size) ==
  \E w \in Written(target, size), f \in Written(target, 1) :
    LET ended == w > 0 /\ total_bytes' <= srcLen /\ StreamEnds(prev_state')
    IN /\ dst' = dst + w
       /\ dstLen' = dstLen + w + (IF ended THEN f ELSE 0)
       /\ footer' = IF ended /\ f = 1 THEN srcLen ELSE footer
       /\ in_loop' = (w > 0 /\ total_bytes' <= srcLen /\ ~ended)
       /\ faulty' = (faulty \/ w < size \/ (ended /\ f = 0))

\* uzlib_deflate_stream moves as much as fits to outputBuffer and keeps the rest.
\* (A bug: the rest is not moved along.)
KeptRest(size) == size
Rest(size) == size - Least(size, bufSize)
MoveOut(size) ==
  /\ outlen' = Rest(size) /\ avail' = bufSize - Least(size, bufSize)
  /\ WriteOut(Least(size, bufSize))

\* (A bug: off by one.)
AlmostAll(n) == n + 1 >= srcLen
AllRead(n) == n = srcLen

\* A buffer is compressed into k bytes. The last one has to fit.
Deflate(k) ==
  /\ AppendChunk /\ BufferReady /\ avail > 0
  /\ total_bytes' = total_bytes + input_bytes
  /\ defl_mode' = IF AllRead(total_bytes') THEN Z_FINISH ELSE Z_BLOCK
  /\ compressed' = compressed \o [s \in 1..input_bytes |-> inputBuffer'[s - 1]]
  /\ produced' = produced + k /\ largest' = Most(k, largest)
  /\ IF defl_mode' = Z_FINISH /\ k > bufSize
     THEN prev_state' = Z_BUF_ERROR /\ outlen' = 0 /\ avail' = bufSize /\ WriteOut(0)
     ELSE /\ prev_state' = IF defl_mode' = Z_FINISH THEN Z_STREAM_END ELSE Z_OK
          /\ MoveOut(k)
  /\ Proceed(Count) /\ UNCHANGED source

\* The previous output filled its buffer: what is pending goes out, and the buffer of
\* this call is not compressed, now or ever.
Flush ==
  /\ AppendChunk /\ BufferReady /\ avail = 0
  /\ UNCHANGED <<source, total_bytes, defl_mode, compressed, produced, largest>>
  /\ prev_state' = Z_OK /\ MoveOut(outlen)
  /\ Proceed(Count)

Step == ReadFails \/ WriteIgnored \/ Cache \/ Flush \/ \E k \in 1..input_bytes + Growth : Deflate(k)
Next == StartFails \/ Step
        \/ \E to \in {"stream", "buffer"} :
             \/ \E size \in InputSizes, len, has \in Lengths : Start(to, size, len, has)
             \/ \E len \in Lengths : \E k \in 1..len + Growth : CompressBytes(to, len, k)
             \/ StartEmpty(to)
        \/ Refused \/ Forget \/ \E len \in Lengths \cup {0} : ToFile(len)
Spec == Init /\ [][Next]_vars
FairSpec == Spec /\ WF_vars(Step)

-----------------------------------------------------------------------------
\* memcpy stays inside inputBuffer: only the size of one write is compared with bufSize,
\* so it rests on every read but the last filling the loop's buffer.
InsideBuffer == Running /\ Count > 0 /\ ~Broken => buf_idx + Count <= bufSize

\* The variables have their types, and the index of inputBuffer its range.
LzTypeOK ==
  /\ target \in {"stream", "buffer", "file"} /\ inputBufferSize \in 1..bufSize /\ srcLen \in Nat /\ held \in Nat
  /\ total_source_bytes \in 0..held /\ outputBufIdx \in 0..total_source_bytes
  /\ inputBuffer \in [0..bufSize-1 -> 0..held] /\ total_bytes \in 0..outputBufIdx
  /\ defl_mode \in {Z_BLOCK, Z_FINISH} /\ prev_state \in {Z_OK, Z_STREAM_END, Z_BUF_ERROR}
  /\ in_loop \in BOOLEAN /\ dstLen \in Nat /\ avail \in 0..bufSize /\ outlen \in Nat
  /\ compressed \in Seq(1..held) /\ produced \in Nat /\ largest \in Nat /\ dst \in Nat
  /\ footer \in 0..srcLen /\ faulty \in BOOLEAN
  /\ returned \in Nat \cup {Failed, NoReturn, Crashed, NotCalled}
  /\ InsideBuffer

\* Of what the compressor made nothing is lost or written twice: what the destination
\* does not hold is pending (unless the last block did not fit).
NothingPendingLost ==
  ~faulty /\ prev_state # Z_BUF_ERROR => dst + outlen = produced

\* The compressor gets the source in order, no byte twice, and none out of place; and what
\* it makes of it is written once.
CompressedInOrder ==
  /\ \A s \in 1..Len(compressed) - 1 : compressed[s] < compressed[s + 1]
  /\ NothingPendingLost

\* A size is returned: when each block left room in its buffer, and the destination took
\* what it was given, the file is whole, its footer states its length, and the size is
\* the size of the file.
Sized == returned > 0
Whole == /\ compressed = [s \in 1..srcLen |-> s] /\ footer = srcLen
         /\ dst = produced /\ dstLen = 1 + dst + 1
SizedMeansWhole == Sized /\ ~faulty /\ largest < bufSize /\ held <= srcLen => Whole

\* The same whatever a buffer compresses to: for a source of the length it is said to
\* have, a size means a whole file.
SizeMeansWhole == Sized /\ held = srcLen => Whole

\* compress returns.
CompressReturns == Running ~> ~Running
=============================================================================
