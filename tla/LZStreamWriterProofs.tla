------------------------ MODULE LZStreamWriterProofs ------------------------
(***************************************************************************)
(* Theorems about the compressor's writer (module LZStreamWriter), for     *)
(* every size of its buffers and of the reads that is a divisor of it,     *)
(* every source, and every growth of a buffer that is compressed.          *)
(***************************************************************************)
EXTENDS LZStreamWriter, SequenceTheorems, TLAPS

-----------------------------------------------------------------------------
(***************************************************************************)
(* The rests of an index that wraps around.                                *)
(***************************************************************************)
\* A number is so many times n, and the rest.
LEMMA DivMod ==
  ASSUME NEW a \in Nat, NEW n \in Nat \ {0}
  PROVE  a = (a \div n) * n + (a % n) /\ a % n \in 0..n-1 /\ a \div n \in Nat
OBVIOUS

\* There is one such rest.
LEMMA ModUnique ==
  ASSUME NEW q \in Nat, NEW n \in Nat \ {0}, NEW r \in 0..n-1
  PROVE  (q * n + r) % n = r
OBVIOUS

\* An index that stays below the end does not wrap.
LEMMA ModStays ==
  ASSUME NEW a \in Nat, NEW n \in Nat \ {0}, NEW c \in Nat, (a % n) + c < n
  PROVE  (a + c) % n = (a % n) + c
<1> DEFINE q == a \div n
           r == (a % n) + c
<1>1. a = q * n + (a % n) /\ q \in Nat
  BY DivMod
<1>2. r \in 0..n-1
  BY DivMod
<1>3. a + c = q * n + r
  BY <1>1, DivMod
<1>4. (q * n + r) % n = r
  <2> HIDE DEF q, r
  <2> QED
    BY <1>1, <1>2, ModUnique
<1>5. QED
  BY <1>3, <1>4

\* One that reaches the end is 0.
LEMMA ModWraps ==
  ASSUME NEW a \in Nat, NEW n \in Nat \ {0}, NEW c \in Nat, (a % n) + c = n
  PROVE  (a + c) % n = 0
<1> DEFINE q == a \div n
<1>1. a = q * n + (a % n) /\ q \in Nat
  BY DivMod
<1> HIDE DEF q
<1>2. a + c = (q + 1) * n + 0
  BY <1>1
<1>3. ((q + 1) * n + 0) % n = 0
  BY <1>1, ModUnique
<1>4. QED
  BY <1>2, <1>3

\* Of a buffer that holds a whole number of chunks, a whole number of chunks leaves
\* room for one more.
LEMMA RoomForOneMore ==
  ASSUME NEW a \in Nat, NEW n \in Nat \ {0}, NEW m \in Nat \ {0}, a % m = 0, n % m = 0
  PROVE  (a % n) + m <= n
<1> DEFINE q == a \div n
           j == a \div m
           k == n \div m
<1>1. a = q * n + (a % n) /\ a % n \in 0..n-1 /\ q \in Nat
  BY DivMod
<1>2. a = j * m /\ j \in Nat
  BY DivMod
<1>3. n = k * m /\ k \in Nat
  BY DivMod
<1> HIDE DEF q, j, k
<1> DEFINE p == q * k
<1>4. p \in Nat /\ q * n = p * m
  BY <1>1, <1>3
<1> HIDE DEF p
<1> DEFINE d == j - p
<1>5. d \in Int
  BY <1>2, <1>4
<1>6. a % n = d * m
  <2>1. (j - p) * m = j * m - p * m
    BY <1>2, <1>4
  <2>2. QED
    BY <1>1, <1>2, <1>4, <2>1
<1> HIDE DEF d
<1>7. d < k
  BY <1>1, <1>3, <1>5, <1>6
<1>8. (d + 1) * m <= k * m
  BY <1>3, <1>5, <1>7
<1>9. (d + 1) * m = d * m + m
  BY <1>5
<1>10. QED
  BY <1>3, <1>6, <1>8, <1>9

-----------------------------------------------------------------------------

\* How much of the source is behind inputBuffer.
Behind == outputBufIdx - buf_idx
Writing == Running /\ ~Broken

\* The loop runs until it has read srcLen bytes.
CallOK ==
  Running => /\ target \in {"stream", "buffer"} /\ inputBufferSize \in InputSizes
             /\ srcLen \in Nat \ {0} /\ total_source_bytes < srcLen

\* The writer has what was read, and only the last read may be short.
InPlace ==
  Writing => /\ outputBufIdx = total_source_bytes
             /\ total_source_bytes < held => outputBufIdx % inputBufferSize = 0

\* inputBuffer holds the last bytes of it, in place.
BufferFilled ==
  Writing => \A s \in 0..buf_idx-1 : inputBuffer[s] = Behind + 1 + s

\* What the compressor was given is behind the buffer.
Increasing == \A s \in 1..Len(compressed) - 1 : compressed[s] < compressed[s + 1]
Compressed ==
  /\ Increasing
  /\ Writing => /\ total_bytes <= Behind
                /\ \A s \in 1..Len(compressed) : compressed[s] <= Behind

\* What is pending fills outputBuffer; the end of the stream was not written.
Pending ==
  /\ NothingPendingLost
  /\ Writing => (outlen > 0 => avail = 0) /\ footer = 0 /\ dstLen = 1 + dst

\* When each block leaves room, all that is behind the buffer has been compressed.
Roomy == largest < bufSize /\ ~faulty /\ held <= srcLen
WholeSoFar ==
  Running /\ Roomy =>
    /\ ~Broken /\ avail > 0 /\ outlen = 0
    /\ total_bytes = Behind /\ compressed = [s \in 1..Behind |-> s]

\* The conjuncts of LzTypeOK, but for the range of the index, which rests on the others.
SourceTypes ==
  /\ target \in {"stream", "buffer", "file"} /\ inputBufferSize \in 1..bufSize
  /\ srcLen \in Nat /\ held \in Nat
BufferTypes ==
  /\ total_source_bytes \in 0..held /\ outputBufIdx \in 0..total_source_bytes
  /\ inputBuffer \in [0..bufSize-1 -> 0..held] /\ total_bytes \in 0..outputBufIdx
StreamTypes ==
  /\ defl_mode \in {Z_BLOCK, Z_FINISH} /\ prev_state \in {Z_OK, Z_STREAM_END, Z_BUF_ERROR}
  /\ dstLen \in Nat /\ avail \in 0..bufSize /\ outlen \in Nat
  /\ produced \in Nat /\ largest \in Nat /\ dst \in Nat /\ footer \in 0..srcLen
  /\ returned \in Nat \cup {Failed, NoReturn, Crashed, NotCalled}
FlagTypes == in_loop \in BOOLEAN /\ faulty \in BOOLEAN
Types == SourceTypes /\ BufferTypes /\ StreamTypes /\ FlagTypes /\ compressed \in Seq(1..held)

IInv ==
  /\ Types /\ CallOK /\ InPlace /\ BufferFilled /\ Compressed /\ Pending
  /\ WholeSoFar /\ SizedMeansWhole

USE DEF Z_OK, Z_STREAM_END, Z_BUF_ERROR, Z_FINISH, Z_BLOCK, Failed, NoReturn, Crashed, NotCalled,
        Running, Ready, Least, Most

-----------------------------------------------------------------------------
(***************************************************************************)
(* The buffer.                                                             *)
(***************************************************************************)
LEMMA IndexRange ==
  ASSUME outputBufIdx \in Nat
  PROVE  buf_idx \in 0..bufSize-1 /\ Behind \in Nat /\ buf_idx <= outputBufIdx
<1>1. bufSize \in Nat \ {0}
  BY SizesAssumption
<1> DEFINE q == outputBufIdx \div bufSize
<1>2. outputBufIdx = q * bufSize + buf_idx /\ buf_idx \in 0..bufSize-1 /\ q \in Nat
  BY <1>1, DivMod DEF buf_idx
<1> HIDE DEF q
<1>3. q * bufSize \in Nat
  BY <1>1, <1>2
<1>4. QED
  BY <1>1, <1>2, <1>3 DEF Behind

\* A read that finds bytes while the writer works finds room for them.
LEMMA Room ==
  ASSUME IInv, Running, Count > 0, ~Broken
  PROVE  /\ outputBufIdx = total_source_bytes /\ Count \in 1..inputBufferSize
         /\ total_source_bytes + Count <= held
         /\ total_source_bytes + Count < held => Count = inputBufferSize
         /\ outputBufIdx % inputBufferSize = 0
         /\ buf_idx + Count <= bufSize
<1>1. /\ outputBufIdx = total_source_bytes /\ Count \in 1..inputBufferSize
      /\ total_source_bytes + Count <= held /\ total_source_bytes \in Nat
      /\ total_source_bytes + Count < held => Count = inputBufferSize
      /\ total_source_bytes < held
  BY SizesAssumption DEF IInv, Types, SourceTypes, BufferTypes, StreamTypes, InPlace, Writing, Count
<1>2. outputBufIdx % inputBufferSize = 0
  BY <1>1 DEF IInv, InPlace, Writing
<1>3. inputBufferSize \in Nat \ {0} /\ bufSize \in Nat \ {0} /\ bufSize % inputBufferSize = 0
  BY SizesAssumption DEF IInv, CallOK
<1>4. buf_idx + inputBufferSize <= bufSize
  BY <1>1, <1>2, <1>3, RoomForOneMore DEF buf_idx
<1>5. QED
  <2>1. buf_idx \in 0..bufSize-1
    BY <1>1, IndexRange
  <2>2. QED
    BY <1>1, <1>2, <1>3, <1>4, <2>1

\* What write does to the buffer, and where its index goes.
Appended ==
  /\ inputBuffer' \in [0..bufSize-1 -> 0..held]
  /\ \A s \in 0..buf_idx+Count-1 : inputBuffer'[s] = Behind + 1 + s
  /\ outputBufIdx' \in 1..held /\ outputBufIdx' = total_source_bytes + Count
  /\ outputBufIdx' < held => outputBufIdx' % inputBufferSize = 0
  /\ outputBufIdx' = Behind + buf_idx + Count
  /\ buf_idx \in Nat /\ Behind \in Nat /\ Count \in 1..bufSize /\ buf_idx + Count <= bufSize

LEMMA Appends ==
  ASSUME IInv, AppendChunk
  PROVE  Appended
<1> USE SizesAssumption
<1>1. /\ outputBufIdx = total_source_bytes /\ Count \in 1..inputBufferSize
      /\ total_source_bytes + Count <= held
      /\ total_source_bytes + Count < held => Count = inputBufferSize
      /\ outputBufIdx % inputBufferSize = 0
      /\ buf_idx + Count <= bufSize
  BY Room DEF AppendChunk
<1>2. /\ total_source_bytes \in Nat /\ inputBufferSize \in 1..bufSize /\ held \in Nat
      /\ inputBuffer \in [0..bufSize-1 -> 0..held] /\ bufSize \in Nat \ {0}
  BY DEF IInv, Types, SourceTypes, BufferTypes, StreamTypes
<1>3. buf_idx \in 0..bufSize-1 /\ Behind \in Nat /\ Behind + buf_idx = outputBufIdx
  BY <1>1, <1>2, IndexRange DEF Behind
<1>4. /\ inputBuffer' = [s \in 0..bufSize-1 |->
           IF s \in buf_idx..buf_idx+Count-1 THEN total_source_bytes + 1 + s - buf_idx
                                             ELSE inputBuffer[s]]
      /\ outputBufIdx' = outputBufIdx + Count
  BY DEF AppendChunk
<1> HIDE DEF Behind
<1>5. \A s \in 0..buf_idx+Count-1 : inputBuffer'[s] = Behind + 1 + s
  <2>1. \A s \in 0..buf_idx-1 : inputBuffer[s] = Behind + 1 + s
    BY DEF IInv, BufferFilled, AppendChunk, Writing
  <2>2. ASSUME NEW s \in 0..buf_idx+Count-1
        PROVE  inputBuffer'[s] = Behind + 1 + s
    <3>1. s \in 0..bufSize-1
      BY <1>1, <1>2, <1>3
    <3>2. CASE s \in buf_idx..buf_idx+Count-1
      <4>1. inputBuffer'[s] = total_source_bytes + 1 + s - buf_idx
        BY <1>4, <3>1, <3>2
      <4>2. QED
        BY <4>1, <1>1, <1>2, <1>3
    <3>3. CASE s \notin buf_idx..buf_idx+Count-1
      <4>1. s \in 0..buf_idx-1
        BY <1>1, <1>2, <1>3, <3>3
      <4>2. QED
        BY <1>4, <2>1, <3>1, <3>3, <4>1
    <3>4. QED
      BY <3>2, <3>3
  <2>3. QED
    BY <2>2
<1>6. inputBuffer' \in [0..bufSize-1 -> 0..held]
  BY <1>1, <1>2, <1>3, <1>4
<1>7. outputBufIdx' < held => outputBufIdx' % inputBufferSize = 0
  <2> SUFFICES ASSUME outputBufIdx' < held PROVE outputBufIdx' % inputBufferSize = 0
    OBVIOUS
  <2>1. outputBufIdx' = outputBufIdx + inputBufferSize
    BY <1>1, <1>2, <1>4
  <2>2. outputBufIdx \in Nat /\ inputBufferSize \in Nat \ {0}
    BY <1>1, <1>2
  <2>3. (outputBufIdx % inputBufferSize) + inputBufferSize = inputBufferSize
    BY <1>1, <1>2
  <2>4. QED
    BY <2>1, <2>2, <2>3, ModWraps
<1>8. /\ outputBufIdx' \in 1..held /\ outputBufIdx' = total_source_bytes + Count
      /\ outputBufIdx' = Behind + buf_idx + Count
      /\ buf_idx \in Nat /\ Count \in 1..bufSize
  BY <1>1, <1>2, <1>3, <1>4
<1>9. QED
  BY <1>1, <1>3, <1>5, <1>6, <1>7, <1>8 DEF Appended

\* The buffer is not full: the index moves on. It is: the index is back at its start, and
\* all of it is behind the buffer.
LEMMA IndexMoves ==
  ASSUME IInv, AppendChunk
  PROVE  /\ buf_idx + Count < bufSize => buf_idx' = buf_idx + Count /\ Behind' = Behind
         /\ buf_idx + Count = bufSize => buf_idx' = 0 /\ Behind' = outputBufIdx'
<1>1. Appended
  BY Appends
<1>2. outputBufIdx' = outputBufIdx + Count /\ outputBufIdx \in Nat /\ bufSize \in Nat \ {0}
  BY SizesAssumption DEF AppendChunk, IInv, Types, BufferTypes
<1>3. buf_idx \in Nat /\ Count \in Nat
  BY <1>1 DEF Appended
<1>4. ASSUME buf_idx + Count < bufSize
      PROVE  buf_idx' = buf_idx + Count
  <2>1. (outputBufIdx % bufSize) + Count < bufSize
    BY <1>4 DEF buf_idx
  <2>2. (outputBufIdx + Count) % bufSize = (outputBufIdx % bufSize) + Count
    BY <1>2, <1>3, <2>1, ModStays
  <2>3. QED
    BY <1>2, <2>2 DEF buf_idx
<1>5. ASSUME buf_idx + Count = bufSize
      PROVE  buf_idx' = 0
  <2>1. (outputBufIdx % bufSize) + Count = bufSize
    BY <1>5 DEF buf_idx
  <2>2. (outputBufIdx + Count) % bufSize = 0
    BY <1>2, <1>3, <2>1, ModWraps
  <2>3. QED
    BY <1>2, <2>2 DEF buf_idx
<1>6. QED
  BY <1>2, <1>3, <1>4, <1>5 DEF Behind

-----------------------------------------------------------------------------
(***************************************************************************)
(* The calls that do not enter the loop, and the end of a call.            *)
(***************************************************************************)
LEMMA EmptyWriter ==
  ASSUME NoWriter, 0 <= held', held' \in Nat
  PROVE  /\ outputBufIdx' = 0 /\ inputBuffer' \in [0..bufSize-1 -> 0..held']
         /\ total_bytes' = 0 /\ defl_mode' = Z_BLOCK /\ prev_state' = Z_OK
         /\ avail' = bufSize /\ avail' \in 0..bufSize /\ avail' > 0 /\ outlen' = 0 /\ largest' = 0
         /\ buf_idx' = 0 /\ Behind' = 0
<1>1. bufSize \in Nat \ {0}
  BY SizesAssumption
<1>2. 0 % bufSize = 0
  BY <1>1, 0 = 0 * bufSize + 0, ModUnique
<1>3. buf_idx' = 0 /\ Behind' = 0
  BY <1>2 DEF NoWriter, buf_idx, Behind
<1>4. QED
  BY <1>1, <1>3 DEF NoWriter

LEMMA InitIInv == Init => IInv
<1> SUFFICES ASSUME Init PROVE IInv
  OBVIOUS
<1>1. bufSize \in Nat \ {0}
  BY SizesAssumption
<1>2. SourceTypes /\ BufferTypes
  BY <1>1 DEF Init, Idle, SourceTypes, BufferTypes
<1>3. StreamTypes /\ FlagTypes /\ compressed \in Seq(1..held)
  <2>1. StreamTypes
    BY <1>1 DEF Init, Idle, StreamTypes
  <2>2. FlagTypes
    BY Zenon DEF Init, Idle, FlagTypes
  <2>3. compressed \in Seq(1..held)
    BY DEF Init, Idle
  <2>4. QED
    BY <2>1, <2>2, <2>3
<1>4. CallOK /\ InPlace /\ BufferFilled /\ Compressed /\ Pending /\ WholeSoFar
  BY DEF Init, Idle, CallOK, InPlace, BufferFilled, Compressed, Increasing, Pending, WholeSoFar,
         Writing, NothingPendingLost
<1>5. SizedMeansWhole
  BY DEF Init, Idle, SizedMeansWhole, Sized
<1>6. QED
  BY <1>2, <1>3, <1>4, <1>5 DEF IInv, Types

\* A call that returns at once, with no size, whatever it was given.
LEMMA NoLoopIInv ==
  ASSUME target' \in {"stream", "buffer", "file"}, inputBufferSize' \in 1..bufSize,
         srcLen' \in Nat, held' \in Nat, NoWriter, NothingMade,
         in_loop' = FALSE, dstLen' = 0, returned' \in {0, Failed, NotCalled}
  PROVE  IInv'
<1>1. bufSize \in Nat \ {0}
  BY SizesAssumption
<1>2. Types'
  <2>1. SourceTypes' /\ BufferTypes'
    BY <1>1, EmptyWriter DEF SourceTypes, BufferTypes, NothingMade
  <2>2. StreamTypes'
    BY <1>1, EmptyWriter DEF StreamTypes, NothingMade
  <2>3. FlagTypes'
    BY Zenon DEF FlagTypes, NothingMade
  <2>4. compressed' \in Seq(1..held')
    BY DEF NothingMade
  <2>5. QED
    BY <2>1, <2>2, <2>3, <2>4 DEF Types
<1>3. CallOK' /\ InPlace' /\ BufferFilled' /\ WholeSoFar'
  BY DEF CallOK, InPlace, BufferFilled, WholeSoFar, Writing
<1>4. Compressed' /\ Pending'
  BY EmptyWriter DEF Compressed, Increasing, Pending, Writing, NothingPendingLost, NothingMade
<1>5. SizedMeansWhole'
  BY DEF SizedMeansWhole, Sized
<1>6. QED
  BY <1>2, <1>3, <1>4, <1>5 DEF IInv

\* Nothing changes but what is returned, which is no size.
LEMMA ReturnIInv ==
  ASSUME IInv, UNCHANGED <<source, total_source_bytes, writer, stream>>,
         returned' \in {0, Failed, Crashed}
  PROVE  IInv'
<1> USE DEF source, writer, stream
<1>1. Types'
  <2>1. returned' \in Nat \cup {Failed, NoReturn, Crashed, NotCalled}
    OBVIOUS
  <2>2. QED
    BY <2>1, Zenon DEF IInv, Types, SourceTypes, BufferTypes, StreamTypes, FlagTypes
<1>2. CallOK' /\ InPlace' /\ BufferFilled' /\ WholeSoFar'
  BY DEF CallOK, InPlace, BufferFilled, WholeSoFar, Writing
<1>3. Compressed' /\ Pending'
  BY DEF IInv, Compressed, Increasing, Pending, Writing, NothingPendingLost
<1>4. SizedMeansWhole'
  BY DEF SizedMeansWhole, Sized
<1>5. QED
  BY <1>1, <1>2, <1>3, <1>4 DEF IInv

\* What a call answers is no size unless it is the code it was given.
LEMMA Answers ==
  ASSUME NEW to, NEW code
  PROVE  Answer(to, code) \in {0, code}
BY DEF Answer

LEMMA StartIInv ==
  ASSUME NEW to \in {"stream", "buffer"}, NEW size \in InputSizes, NEW len \in Lengths,
         NEW has \in Lengths, Start(to, size, len, has)
  PROVE  IInv'
<1>1. /\ bufSize \in Nat \ {0} /\ size \in 1..bufSize /\ len \in Nat \ {0} /\ has \in Nat
  BY SizesAssumption
<1>2. /\ target' = to /\ inputBufferSize' = size /\ srcLen' = len /\ held' = has
      /\ NoWriter /\ NothingMade /\ in_loop' = TRUE /\ dstLen' = 1 /\ returned' = NoReturn
  BY DEF Start, Call
<1>3. Types'
  <2>1. SourceTypes' /\ BufferTypes'
    BY <1>1, <1>2, EmptyWriter DEF SourceTypes, BufferTypes, NothingMade
  <2>2. StreamTypes'
    BY <1>1, <1>2, EmptyWriter DEF StreamTypes, NothingMade
  <2>3. FlagTypes'
    BY <1>2, Zenon DEF FlagTypes, NothingMade
  <2>4. compressed' \in Seq(1..held')
    BY <1>2 DEF NothingMade
  <2>5. QED
    BY <2>1, <2>2, <2>3, <2>4 DEF Types
<1>4. CallOK'
  BY <1>1, <1>2 DEF CallOK, NothingMade
<1>5. InPlace'
  <2>1. 0 % size = 0
    BY <1>1, 0 = 0 * size + 0, ModUnique
  <2>2. QED
    BY <1>1, <1>2, <2>1, EmptyWriter DEF InPlace, NothingMade
<1>6. BufferFilled' /\ Compressed' /\ Pending'
  BY <1>1, <1>2, EmptyWriter DEF BufferFilled, Compressed, Increasing, Pending, Writing,
     NothingPendingLost, NothingMade
<1>7. WholeSoFar'
  <2>1. <<>> = [s \in 1..0 |-> s]
    OBVIOUS
  <2>2. QED
    BY <1>1, <1>2, <2>1, EmptyWriter DEF WholeSoFar, NothingMade, Broken
<1>8. SizedMeansWhole'
  BY <1>2 DEF SizedMeansWhole, Sized
<1>9. QED
  BY <1>3, <1>4, <1>5, <1>6, <1>7, <1>8 DEF IInv

\* A buffer that was compressed in one go: what is written is whole unless a write failed.
LEMMA CompressBytesIInv ==
  ASSUME IInv, NEW to \in {"stream", "buffer"}, NEW len \in Lengths, NEW k \in 1..len + Growth,
         CompressBytes(to, len, k)
  PROVE  IInv'
<1>1. bufSize \in Nat \ {0} /\ len \in Nat \ {0} /\ k \in Nat \ {0}
  BY SizesAssumption
<1>2. PICK header \in Written(to, 1), f \in Written(to, 1), missed \in 0..k :
        /\ dst' = k - missed /\ footer' = IF f = 1 THEN len ELSE 0
        /\ faulty' = (missed > 0 \/ f = 0 \/ header = 0)
  BY DEF CompressBytes
<1>3. f \in 0..1 /\ (~faulty' => missed = 0 /\ f = 1)
  <2>1. f \in 0..1
    BY DEF Written
  <2>2. ~faulty' => ~(missed > 0) /\ f # 0
    BY <1>2, Zenon
  <2>3. QED
    BY <1>1, <2>1, <2>2
<1>4. /\ target' = to /\ inputBufferSize' = inputBufferSize /\ srcLen' = len /\ held' = len
      /\ NoWriter /\ total_source_bytes' = len /\ compressed' = [s \in 1..len |-> s]
      /\ produced' = k /\ in_loop' = FALSE /\ dstLen' = 1 + k + 1
      /\ returned' = Answer(to, dstLen')
  BY DEF CompressBytes, Call
<1>5. returned' \in {0, dstLen'}
  BY <1>4, Answers
<1>6. inputBufferSize \in 1..bufSize
  BY DEF IInv, Types, SourceTypes, BufferTypes, StreamTypes
<1>7. Types'
  <2>1. compressed' \in Seq(1..held')
    BY <1>1, <1>4
  <2>2. SourceTypes' /\ BufferTypes'
    BY <1>1, <1>4, <1>6, EmptyWriter DEF SourceTypes, BufferTypes
  <2>3. StreamTypes'
    BY <1>1, <1>2, <1>3, <1>4, <1>5, EmptyWriter DEF StreamTypes
  <2>4. FlagTypes'
    BY <1>2, <1>4, Zenon DEF FlagTypes
  <2>5. QED
    BY <2>1, <2>2, <2>3, <2>4 DEF Types
<1>8. CallOK' /\ InPlace' /\ BufferFilled' /\ WholeSoFar'
  BY <1>1, <1>4, <1>5 DEF CallOK, InPlace, BufferFilled, WholeSoFar, Writing
<1>9. Compressed' /\ Pending'
  <2>1. Len(compressed') = len
    BY <1>1, <1>4
  <2>2. Increasing'
    BY <1>1, <1>4, <2>1 DEF Increasing
  <2>3. NothingPendingLost'
    <3>1. dst' = k - missed
      BY <1>2
    <3>2. QED
      BY <1>1, <1>3, <1>4, <3>1, EmptyWriter DEF NothingPendingLost
  <2>4. QED
    BY <1>4, <2>2, <2>3 DEF Compressed, Pending, Writing, Broken
<1>10. SizedMeansWhole'
  BY <1>1, <1>2, <1>3, <1>4 DEF SizedMeansWhole, Whole
<1>11. QED
  BY <1>7, <1>8, <1>9, <1>10 DEF IInv

-----------------------------------------------------------------------------
(***************************************************************************)
(* A turn of the loop.                                                     *)
(***************************************************************************)
\* The call goes on when there is more to read; otherwise it answers with the size.
LEMMA Proceeds ==
  ASSUME IInv, Running, Count > 0, Proceed(Count), dstLen' \in Nat
  PROVE  /\ total_source_bytes' = total_source_bytes + Count /\ total_source_bytes' \in 1..held
         /\ total_source_bytes' < srcLen => returned' = NoReturn
         /\ returned' = NoReturn => total_source_bytes' < srcLen
         /\ returned' \in Nat \cup {NoReturn, Crashed}
         /\ returned' > 0 => returned' = dstLen'
<1>1. /\ total_source_bytes \in Nat /\ held \in Nat /\ srcLen \in Nat
      /\ inputBufferSize \in Nat \ {0} /\ total_source_bytes <= held
  BY SizesAssumption DEF IInv, Types, SourceTypes, BufferTypes
<1>2. Count \in Nat \ {0} /\ total_source_bytes + Count <= held
  BY <1>1 DEF Count
<1>3. /\ total_source_bytes' = total_source_bytes + Count
      /\ total_source_bytes' < srcLen => returned' = NoReturn
      /\ ~(total_source_bytes' < srcLen) => returned' \in {0, dstLen', Crashed}
  BY Answers DEF Proceed, Return
<1>4. QED
  BY <1>1, <1>2, <1>3

LEMMA ReadFailsIInv ==
  ASSUME IInv, ReadFails
  PROVE  IInv'
<1>1. returned' \in {0, Failed, Crashed}
  BY Answers DEF ReadFails, Return
<1>2. QED
  BY <1>1, ReturnIInv DEF ReadFails

LEMMA WriteIgnoredIInv ==
  ASSUME IInv, WriteIgnored
  PROVE  IInv'
<1> USE DEF source, writer, stream
<1>1. /\ UNCHANGED <<source, writer, stream>> /\ Proceed(Count) /\ Running /\ Count > 0
      /\ Broken
  BY DEF WriteIgnored
<1>2. dstLen' \in Nat
  BY <1>1 DEF IInv, Types, StreamTypes
<1>3. /\ total_source_bytes' = total_source_bytes + Count /\ total_source_bytes' \in 1..held
      /\ returned' = NoReturn => total_source_bytes' < srcLen
      /\ returned' \in Nat \cup {NoReturn, Crashed}
  BY <1>1, <1>2, Proceeds
<1>4. Broken'
  BY <1>1, Zenon DEF Broken
<1>5. Types'
  <2>1. SourceTypes' /\ FlagTypes' /\ compressed' \in Seq(1..held')
    BY <1>1, Zenon DEF IInv, Types, SourceTypes, FlagTypes
  <2>2. BufferTypes'
    <3>1. BufferTypes /\ held' = held /\ outputBufIdx' = outputBufIdx
          /\ inputBuffer' = inputBuffer /\ total_bytes' = total_bytes
          /\ held \in Nat /\ inputBufferSize \in 1..bufSize /\ Count > 0
      BY <1>1, Zenon DEF IInv, Types, SourceTypes
    <3>2. total_source_bytes < total_source_bytes'
      BY <1>3, <3>1, SizesAssumption DEF BufferTypes, Count
    <3>3. QED
      BY <1>3, <3>1, <3>2 DEF BufferTypes
  <2>3. StreamTypes'
    <3>1. returned' \in Nat \cup {Failed, NoReturn, Crashed, NotCalled}
      BY <1>3
    <3>2. QED
      BY <1>1, <3>1, Zenon DEF IInv, Types, StreamTypes
  <2>4. QED
    BY <2>1, <2>2, <2>3 DEF Types
<1>6. CallOK'
  BY <1>1, <1>3 DEF IInv, CallOK
<1>7. InPlace' /\ BufferFilled'
  BY <1>4, Zenon DEF InPlace, BufferFilled, Writing
<1>8. Compressed' /\ Pending'
  BY <1>1, <1>4, Zenon DEF IInv, Compressed, Increasing, Pending, Writing, NothingPendingLost
<1>9. ~Roomy'
  <2>1. ~Roomy
    BY <1>1, Zenon DEF IInv, WholeSoFar
  <2>2. QED
    BY <1>1, <2>1, Zenon DEF Roomy
<1>10. WholeSoFar' /\ SizedMeansWhole'
  BY <1>9, Zenon DEF WholeSoFar, SizedMeansWhole, Roomy
<1>11. QED
  BY <1>5, <1>6, <1>7, <1>8, <1>10 DEF IInv

\* The bytes stay in the buffer.
LEMMA CacheIInv ==
  ASSUME IInv, Cache
  PROVE  IInv'
<1> USE DEF source, stream
<1>1. /\ UNCHANGED <<source, total_bytes, defl_mode, stream>> /\ Proceed(Count) /\ Running
      /\ Count > 0 /\ ~Broken /\ AppendChunk /\ buf_idx + Count < bufSize
      /\ outputBufIdx' = outputBufIdx + Count /\ ~LastChunk
  BY DEF Cache, AppendChunk
<1>2. dstLen' \in Nat
  BY <1>1 DEF IInv, Types, StreamTypes
<1>3. Appended /\ outputBufIdx = total_source_bytes
  BY <1>1, Appends, Room
<1>4. /\ total_source_bytes' = total_source_bytes + Count /\ total_source_bytes' \in 1..held
      /\ total_source_bytes' = outputBufIdx' /\ total_source_bytes' < srcLen
      /\ returned' = NoReturn
  <2>1. /\ total_source_bytes' = total_source_bytes + Count /\ total_source_bytes' \in 1..held
        /\ total_source_bytes' < srcLen => returned' = NoReturn
    BY <1>1, <1>2, Proceeds
  <2>2. srcLen \in Nat
    BY DEF IInv, Types, SourceTypes
  <2>3. QED
    BY <1>1, <1>3, <2>1, <2>2 DEF LastChunk
<1>5. Writing /\ Writing' /\ buf_idx' = buf_idx + Count /\ Behind' = Behind
  <2>1. Writing /\ Writing'
    BY <1>1, <1>4, Zenon DEF Writing, Broken
  <2>2. QED
    BY <1>1, <2>1, IndexMoves
<1>6. Types'
  <2>1. SourceTypes' /\ FlagTypes' /\ compressed' \in Seq(1..held')
    BY <1>1, Zenon DEF IInv, Types, SourceTypes, FlagTypes
  <2>2. BufferTypes'
    <3>1. total_bytes' \in 0..outputBufIdx'
      BY <1>1, <1>3 DEF IInv, Types, BufferTypes, Appended
    <3>2. held' = held /\ inputBuffer' \in [0..bufSize-1 -> 0..held']
      BY <1>1, <1>3 DEF Appended
    <3>3. QED
      BY <1>4, <3>1, <3>2 DEF BufferTypes
  <2>3. StreamTypes'
    <3>1. returned' \in Nat \cup {Failed, NoReturn, Crashed, NotCalled}
      BY <1>4
    <3>2. QED
      BY <1>1, <3>1, Zenon DEF IInv, Types, StreamTypes
  <2>4. QED
    BY <2>1, <2>2, <2>3 DEF Types
<1>7. CallOK'
  BY <1>1, <1>4 DEF IInv, CallOK
<1>8. InPlace' /\ BufferFilled'
  BY <1>1, <1>3, <1>4, <1>5 DEF InPlace, BufferFilled, Appended
<1>9. Compressed' /\ Pending'
  BY <1>1, <1>5, Zenon DEF IInv, Compressed, Increasing, Pending, NothingPendingLost
<1>10. WholeSoFar'
  BY <1>1, <1>5, Zenon DEF IInv, WholeSoFar, Roomy, Broken
<1>11. SizedMeansWhole'
  BY <1>4 DEF SizedMeansWhole, Sized
<1>12. QED
  BY <1>6, <1>7, <1>8, <1>9, <1>10, <1>11 DEF IInv

\* What the destination makes of a block of output: it takes w bytes of it, and, at the
\* end of the stream, the footer if f is 1.
Out(size, w, f, ended) ==
  /\ ended => w > 0 /\ total_bytes' <= srcLen /\ prev_state' = Z_STREAM_END
  /\ w > 0 /\ total_bytes' <= srcLen /\ prev_state' = Z_STREAM_END => ended
  /\ dst' = dst + w
  /\ ended => dstLen' = dstLen + w + f /\ footer' = IF f = 1 THEN srcLen ELSE footer
  /\ ~ended => dstLen' = dstLen + w /\ footer' = footer
  /\ in_loop' => w > 0 /\ ~ended
  /\ w > 0 /\ total_bytes' <= srcLen /\ ~ended => in_loop'
  /\ ~faulty' => ~faulty /\ w = size /\ (ended => f = 1)

LEMMA WriteOuts ==
  ASSUME IInv, NEW size \in Nat, WriteOut(size)
  PROVE  /\ FlagTypes'
         /\ \E w \in 0..size, f \in 0..1, ended \in BOOLEAN : Out(size, w, f, ended)
<1> DEFINE Ended(w) == w > 0 /\ total_bytes' <= srcLen /\ prev_state' = Z_STREAM_END
<1>1. PICK w \in Written(target, size), f \in Written(target, 1) :
        /\ dst' = dst + w
        /\ dstLen' = dstLen + w + (IF Ended(w) THEN f ELSE 0)
        /\ footer' = IF Ended(w) /\ f = 1 THEN srcLen ELSE footer
        /\ in_loop' = (w > 0 /\ total_bytes' <= srcLen /\ ~Ended(w))
        /\ faulty' = (faulty \/ w < size \/ (Ended(w) /\ f = 0))
  BY DEF WriteOut, StreamEnds
<1>2. w \in 0..size /\ f \in 0..1
  BY DEF Written
<1>3. FlagTypes'
  BY <1>1, Zenon DEF FlagTypes
<1>4. PICK ended \in BOOLEAN : ended <=> Ended(w)
  <2>1. Ended(w) \in BOOLEAN
    BY Zenon
  <2>2. QED
    BY <2>1, Zenon
<1>5. ~faulty' => ~faulty /\ w = size /\ (ended => f = 1)
  <2>1. ~faulty' => ~faulty /\ ~(w < size) /\ (ended => f # 0)
    BY <1>1, <1>4, Zenon
  <2>2. QED
    BY <1>2, <2>1
<1>6. /\ in_loop' => w > 0 /\ ~ended
      /\ w > 0 /\ total_bytes' <= srcLen /\ ~ended => in_loop'
  BY <1>1, <1>4, Zenon
<1>7. dst' = dst + w
  BY <1>1
<1>8. ASSUME ended
      PROVE  dstLen' = dstLen + w + f /\ footer' = IF f = 1 THEN srcLen ELSE footer
  BY <1>1, <1>4, <1>8, Zenon
<1>9. ASSUME ~ended
      PROVE  dstLen' = dstLen + w /\ footer' = footer
  <2>1. dstLen' = dstLen + w + 0 /\ footer' = footer
    BY <1>1, <1>4, <1>9, Zenon
  <2>2. dstLen \in Nat
    BY DEF IInv, Types, StreamTypes
  <2>3. QED
    BY <1>2, <2>1, <2>2
<1>10. Out(size, w, f, ended)
  BY <1>4, <1>5, <1>6, <1>7, <1>8, <1>9, Zenon DEF Out
<1>11. QED
  BY <1>2, <1>3, <1>10

\* The buffer is ready: it is full, or the source is at its end, and then the call returns.
LEMMA Readies ==
  ASSUME IInv, AppendChunk, BufferReady, Proceed(Count), dstLen' \in Nat
  PROVE  /\ Appended /\ input_bytes = buf_idx + Count
         /\ total_source_bytes' \in 1..held /\ total_source_bytes' = outputBufIdx'
         /\ outputBufIdx' = outputBufIdx + Count
         /\ returned' \in Nat \cup {NoReturn, Crashed}
         /\ returned' > 0 => returned' = dstLen'
         /\ returned' = NoReturn =>
              total_source_bytes' < srcLen /\ buf_idx' = 0 /\ Behind' = outputBufIdx'
         /\ returned' # NoReturn => srcLen <= outputBufIdx'
<1>1. /\ total_source_bytes' = total_source_bytes + Count /\ total_source_bytes' \in 1..held
      /\ total_source_bytes' < srcLen => returned' = NoReturn
      /\ returned' = NoReturn => total_source_bytes' < srcLen
      /\ returned' \in Nat \cup {NoReturn, Crashed}
      /\ returned' > 0 => returned' = dstLen'
  BY Proceeds DEF AppendChunk
<1>2. Appended /\ outputBufIdx = total_source_bytes
  BY Appends, Room DEF AppendChunk
<1>3. srcLen \in Nat /\ held \in Nat
  BY DEF IInv, Types, SourceTypes
<1>4. outputBufIdx' = outputBufIdx + Count
  BY DEF AppendChunk
<1>5. buf_idx \in Nat /\ Count \in Nat /\ buf_idx + Count <= bufSize /\ bufSize \in Nat
  BY <1>2, SizesAssumption DEF Appended
<1>6. input_bytes = buf_idx + Count
  BY <1>5 DEF input_bytes, BufferReady
<1>7. returned' = NoReturn => buf_idx' = 0 /\ Behind' = outputBufIdx'
  <2>1. ASSUME returned' = NoReturn
        PROVE  buf_idx + Count = bufSize
    BY <1>1, <1>2, <1>3, <1>4, <1>5, <2>1 DEF BufferReady, LastChunk
  <2>2. QED
    BY <2>1, IndexMoves
<1>8. QED
  BY <1>1, <1>2, <1>3, <1>4, <1>6, <1>7

\* What a turn that writes out a block keeps, whatever was made of it.
LEMMA TurnIInv ==
  ASSUME IInv, AppendChunk, BufferReady, Proceed(Count), UNCHANGED source,
         NEW size \in Nat, WriteOut(size), outlen' \in Nat, avail' \in 0..bufSize,
         prev_state' \in {Z_OK, Z_STREAM_END, Z_BUF_ERROR}, defl_mode' \in {Z_BLOCK, Z_FINISH},
         produced' \in Nat, largest' \in Nat, total_bytes' \in 0..outputBufIdx',
         compressed' \in Seq(1..held)
  PROVE  /\ Types' /\ CallOK' /\ InPlace' /\ BufferFilled'
         /\ Writing' => Behind' = outputBufIdx' /\ footer' = 0 /\ dstLen' = 1 + dst'
<1>1. PICK w \in 0..size, f \in 0..1, ended \in BOOLEAN : Out(size, w, f, ended)
  BY WriteOuts
<1>2. FlagTypes'
  BY WriteOuts
<1>3. /\ dst \in Nat /\ dstLen \in Nat /\ footer \in 0..srcLen /\ srcLen \in Nat
      /\ Writing /\ footer = 0 /\ dstLen = 1 + dst
  <2>1. Writing
    BY Zenon DEF AppendChunk, Writing
  <2>2. QED
    BY <2>1 DEF IInv, Types, StreamTypes, SourceTypes, Pending
<1>4. /\ target' = target /\ inputBufferSize' = inputBufferSize /\ srcLen' = srcLen
      /\ held' = held
  BY DEF source
<1>5. dst' \in Nat /\ dstLen' \in Nat /\ footer' \in 0..srcLen
  <2>1. CASE ended
    BY <1>1, <1>3, <2>1 DEF Out
  <2>2. CASE ~ended
    BY <1>1, <1>3, <2>2 DEF Out
  <2>3. QED
    BY <2>1, <2>2
<1>6. /\ Appended
      /\ total_source_bytes' \in 1..held /\ total_source_bytes' = outputBufIdx'
      /\ returned' \in Nat \cup {NoReturn, Crashed}
      /\ returned' = NoReturn =>
           total_source_bytes' < srcLen /\ buf_idx' = 0 /\ Behind' = outputBufIdx'
  BY <1>5, Readies
<1>7. Types'
  <2>1. SourceTypes'
    BY <1>4, Zenon DEF IInv, Types, SourceTypes
  <2>2. BufferTypes'
    <3>1. held' = held /\ inputBuffer' \in [0..bufSize-1 -> 0..held']
      BY <1>4, <1>6 DEF Appended
    <3>2. QED
      BY <1>6, <3>1 DEF BufferTypes
  <2>3. StreamTypes'
    <3>1. returned' \in Nat \cup {Failed, NoReturn, Crashed, NotCalled}
      BY <1>6
    <3>2. QED
      BY <1>4, <1>5, <3>1, Zenon DEF StreamTypes
  <2>4. QED
    BY <1>2, <1>4, <2>1, <2>2, <2>3 DEF Types
<1>8. CallOK'
  <2>1. CallOK /\ Running
    BY Zenon DEF IInv, AppendChunk
  <2>2. QED
    BY <1>4, <1>6, <2>1 DEF CallOK
<1>9. InPlace' /\ BufferFilled'
  <2>1. ASSUME Writing' PROVE InPlace'
    <3>1. outputBufIdx' < held => outputBufIdx' % inputBufferSize = 0
      BY <1>6 DEF Appended
    <3>2. QED
      BY <1>4, <1>6, <3>1 DEF InPlace
  <2>2. ASSUME Writing' PROVE BufferFilled'
    <3>1. buf_idx' = 0
      BY <1>6, <2>2 DEF Writing
    <3>2. QED
      BY <3>1 DEF BufferFilled
  <2>3. QED
    BY <2>1, <2>2 DEF InPlace, BufferFilled
<1>10. ASSUME Writing'
       PROVE  Behind' = outputBufIdx' /\ footer' = 0 /\ dstLen' = 1 + dst'
  <2>1. ~ended
    BY <1>1, <1>10, Zenon DEF Out, Writing, Broken
  <2>2. QED
    BY <1>1, <1>3, <1>6, <1>10, <2>1 DEF Out, Writing
<1>11. QED
  BY <1>7, <1>8, <1>9, <1>10

LEMMA FlushIInv ==
  ASSUME IInv, Flush
  PROVE  IInv'
<1> DEFINE size == Least(outlen, bufSize)
<1>1. /\ AppendChunk /\ BufferReady /\ Proceed(Count) /\ UNCHANGED source /\ avail = 0
      /\ total_bytes' = total_bytes /\ defl_mode' = defl_mode /\ compressed' = compressed
      /\ produced' = produced /\ largest' = largest /\ prev_state' = Z_OK
      /\ WriteOut(size) /\ outlen' = outlen - size /\ avail' = bufSize - size
  BY DEF Flush, MoveOut, Rest
<1>2. /\ outlen \in Nat /\ bufSize \in Nat \ {0} /\ size \in Nat /\ outlen' \in Nat
      /\ avail' \in 0..bufSize
      /\ outlen' > 0 => avail' = 0
  BY <1>1, SizesAssumption DEF IInv, Types, StreamTypes
<1> HIDE DEF size
<1>3. Writing /\ Appended
  BY <1>1, Appends, Zenon DEF AppendChunk, Writing
<1>4. /\ outputBufIdx' = outputBufIdx + Count /\ outputBufIdx \in Nat /\ Count \in Nat
      /\ total_bytes \in 0..outputBufIdx
  BY <1>1, <1>3 DEF AppendChunk, Appended, IInv, Types, BufferTypes
<1>5. total_bytes' \in 0..outputBufIdx'
  BY <1>1, <1>4
<1>6. /\ Types' /\ CallOK' /\ InPlace' /\ BufferFilled'
      /\ Writing' => Behind' = outputBufIdx' /\ footer' = 0 /\ dstLen' = 1 + dst'
  <2>1. /\ defl_mode' \in {Z_BLOCK, Z_FINISH} /\ produced' \in Nat /\ largest' \in Nat
        /\ compressed' \in Seq(1..held)
    BY <1>1, Zenon DEF IInv, Types, StreamTypes
  <2>2. prev_state' \in {Z_OK, Z_STREAM_END, Z_BUF_ERROR}
    BY <1>1
  <2>3. QED
    BY <1>1, <1>2, <1>5, <2>1, <2>2, TurnIInv, Zenon
<1>7. PICK w \in 0..size, f \in 0..1, ended \in BOOLEAN : Out(size, w, f, ended)
  BY <1>1, <1>2, WriteOuts
<1>8. Pending'
  <2>1. ASSUME ~faulty' PROVE dst' + outlen' = produced'
    <3>1. ~faulty /\ w = size /\ dst' = dst + w
      BY <1>7, <2>1, Zenon DEF Out
    <3>2. prev_state # Z_BUF_ERROR
      BY <1>3 DEF Writing, Broken
    <3>3. dst + outlen = produced
      BY <3>1, <3>2, Zenon DEF IInv, Pending, NothingPendingLost
    <3>4. dst \in Nat
      BY DEF IInv, Types, StreamTypes
    <3>5. QED
      BY <1>1, <1>2, <3>1, <3>3, <3>4
  <2>2. QED
    BY <1>2, <1>6, <2>1, Zenon DEF Pending, NothingPendingLost
<1>9. Compressed'
  <2>1. /\ Increasing /\ total_bytes <= Behind
        /\ \A s \in 1..Len(compressed) : compressed[s] <= Behind
    BY <1>3, Zenon DEF IInv, Compressed
  <2>2. Increasing'
    BY <1>1, <2>1, Zenon DEF Increasing
  <2>3. Behind \in Nat /\ Behind <= outputBufIdx'
    BY <1>3 DEF Appended
  <2>4. \A s \in 1..Len(compressed) : compressed[s] \in 1..held
    BY ElementOfSeq DEF IInv, Types
  <2>5. total_bytes <= outputBufIdx' /\ \A s \in 1..Len(compressed) : compressed[s] <= outputBufIdx'
    <3>1. held \in Nat /\ outputBufIdx' \in Nat /\ total_bytes \in Nat
      BY <1>4 DEF IInv, Types, SourceTypes
    <3>2. QED
      BY <2>1, <2>3, <2>4, <3>1
  <2>6. QED
    BY <1>1, <1>6, <2>2, <2>5, Zenon DEF Compressed
<1>10. ~Roomy'
  <2>1. ~Roomy
    <3>1. ~(avail > 0)
      BY <1>1
    <3>2. QED
      BY <1>3, <3>1, Zenon DEF IInv, WholeSoFar, Writing
  <2>2. largest' = largest /\ held' = held /\ srcLen' = srcLen
    BY <1>1 DEF source
  <2>3. ~faulty' => ~faulty
    BY <1>7, Zenon DEF Out
  <2>4. QED
    BY <2>1, <2>2, <2>3, Zenon DEF Roomy
<1>11. WholeSoFar' /\ SizedMeansWhole'
  BY <1>10, Zenon DEF WholeSoFar, SizedMeansWhole, Roomy
<1>12. QED
  BY <1>6, <1>8, <1>9, <1>11 DEF IInv

-----------------------------------------------------------------------------
(***************************************************************************)
(* What the compressor is given.                                           *)
(***************************************************************************)
\* The n numbers after B are appended to a sequence: what stood in it stays.
LEMMA AppendNumbers ==
  ASSUME NEW B \in Nat, NEW n \in Nat, NEW N \in Nat, B + n <= N, NEW f \in Seq(1..N)
  PROVE  LET g == f \o [s \in 1..n |-> B + s]
         IN /\ g \in Seq(1..N) /\ Len(g) = Len(f) + n
            /\ \A s \in 1..Len(f) : g[s] = f[s]
            /\ \A s \in 1..n : g[Len(f) + s] = B + s
<1> DEFINE new == [s \in 1..n |-> B + s]
<1>1. new \in Seq(1..N) /\ Len(new) = n
  OBVIOUS
<1>2. \A s \in 1..n : new[s] = B + s
  OBVIOUS
<1> HIDE DEF new
<1>3. /\ f \o new \in Seq(1..N) /\ Len(f \o new) = Len(f) + n /\ Len(f) \in Nat
      /\ \A s \in 1..Len(f)+n : (f \o new)[s] = IF s <= Len(f) THEN f[s] ELSE new[s - Len(f)]
  BY <1>1, ConcatProperties, LenProperties
<1>4. \A s \in 1..Len(f) : (f \o new)[s] = f[s]
  BY <1>3
<1>5. \A s \in 1..n : (f \o new)[Len(f) + s] = new[s]
  <2> TAKE s \in 1..n
  <2>1. Len(f) + s \in 1..Len(f)+n /\ ~(Len(f) + s <= Len(f)) /\ (Len(f) + s) - Len(f) = s
    BY <1>3
  <2>2. QED
    BY <1>3, <2>1
<1>6. QED
  BY <1>2, <1>3, <1>4, <1>5 DEF new

\* It is increasing when it was, and B bounds what stood in it.
LEMMA AppendIncreasing ==
  ASSUME NEW B \in Nat, NEW n \in Nat, NEW l \in Nat, NEW f, NEW g,
         \A s \in 1..l : f[s] \in Nat /\ f[s] <= B,
         \A s \in 1..l-1 : f[s] < f[s + 1],
         \A s \in 1..l : g[s] = f[s],
         \A s \in 1..n : g[l + s] = B + s
  PROVE  /\ \A s \in 1..l+n-1 : g[s] < g[s + 1]
         /\ \A s \in 1..l+n : g[s] <= B + n
<1>1. \A s \in l+1..l+n : g[s] = B + (s - l)
  <2> TAKE s \in l+1..l+n
  <2>1. s - l \in 1..n /\ l + (s - l) = s
    OBVIOUS
  <2>2. QED
    BY <2>1
<1>2. ASSUME NEW s \in 1..l+n-1
      PROVE  g[s] < g[s + 1]
  <2>1. CASE s < l
    <3>1. s \in 1..l-1 /\ s \in 1..l /\ s + 1 \in 1..l
      BY <2>1
    <3>2. QED
      BY <3>1
  <2>2. CASE s >= l
    <3>1. g[s + 1] = B + (s + 1 - l)
      BY <1>1, <2>2
    <3>2. CASE s = l
      <4>1. g[s] = f[s] /\ f[s] \in Nat /\ f[s] <= B
        BY <3>2
      <4>2. QED
        BY <3>1, <3>2, <4>1
    <3>3. CASE s > l
      <4>1. g[s] = B + (s - l)
        BY <1>1, <3>3
      <4>2. QED
        BY <3>1, <3>3, <4>1
    <3>4. QED
      BY <2>2, <3>2, <3>3
  <2>3. QED
    BY <2>1, <2>2
<1>3. ASSUME NEW s \in 1..l+n
      PROVE  g[s] <= B + n
  <2>1. CASE s <= l
    <3>1. g[s] = f[s] /\ f[s] \in Nat /\ f[s] <= B
      BY <2>1
    <3>2. QED
      BY <3>1
  <2>2. CASE s > l
    <3>1. g[s] = B + (s - l)
      BY <1>1, <2>2
    <3>2. QED
      BY <2>2, <3>1
  <2>3. QED
    BY <2>1, <2>2
<1>4. QED
  BY <1>2, <1>3

\* When it held the numbers to B it holds those to B + n.
LEMMA AppendAll ==
  ASSUME NEW B \in Nat, NEW n \in Nat, NEW S, NEW g \in Seq(S), Len(g) = B + n,
         \A s \in 1..B : g[s] = s,
         \A s \in 1..n : g[B + s] = B + s
  PROVE  g = [s \in 1..B + n |-> s]
<1>1. \A s \in 1..B + n : g[s] = s
  <2> TAKE s \in 1..B + n
  <2>1. CASE s > B
    <3>1. s - B \in 1..n /\ B + (s - B) = s
      BY <2>1
    <3>2. QED
      BY <3>1
  <2>2. QED
    BY <2>1
<1> DEFINE h == [s \in 1..B + n |-> s]
<1>2. h \in Seq(1..B + n) /\ Len(h) = B + n 
  OBVIOUS
<1>3. \A s \in 1..B + n : h[s] = s
  OBVIOUS
<1> HIDE DEF h
<1>4. g \in Seq(S \cup (1..B+n)) /\ h \in Seq(S \cup (1..B+n))
  BY <1>2
<1>5. g = h
  BY <1>1, <1>2, <1>3, <1>4, SeqEqual
<1>6. QED
  BY <1>5 DEF h

\* It gets what the buffer holds: the next bytes of the source.
LEMMA Compresses ==
  ASSUME IInv, Appended, Writing, input_bytes = buf_idx + Count,
         compressed' = compressed \o [s \in 1..input_bytes |-> inputBuffer'[s - 1]]
  PROVE  /\ compressed' \in Seq(1..held) /\ Increasing'
         /\ \A s \in 1..Len(compressed') : compressed'[s] <= outputBufIdx'
         /\ compressed = [s \in 1..Behind |-> s] => compressed' = [s \in 1..outputBufIdx' |-> s]
<1> DEFINE n == input_bytes
           B == Behind
           f == compressed
           g == f \o [s \in 1..n |-> B + s]
<1>1. /\ n \in Nat /\ B \in Nat /\ outputBufIdx' = B + n /\ B + n <= held
      /\ held \in Nat /\ \A s \in 0..n-1 : inputBuffer'[s] = B + 1 + s
  BY DEF Appended, IInv, Types, SourceTypes
<1>2. /\ f \in Seq(1..held) /\ Increasing /\ \A s \in 1..Len(f) : f[s] <= B
  BY Zenon DEF IInv, Types, Compressed
<1> HIDE DEF n, B
<1>3. [s \in 1..n |-> inputBuffer'[s - 1]] = [s \in 1..n |-> B + s]
  BY <1>1
<1>4. compressed' = g
  BY <1>3, Zenon DEF n
<1>5. /\ g \in Seq(1..held) /\ Len(g) = Len(f) + n
      /\ \A s \in 1..Len(f) : g[s] = f[s]
      /\ \A s \in 1..n : g[Len(f) + s] = B + s
  BY <1>1, <1>2, AppendNumbers
<1>6. Len(f) \in Nat /\ \A s \in 1..Len(f) : f[s] \in Nat
  <2> HIDE DEF f, g
  <2>1. Len(f) \in Nat
    BY <1>2, LenProperties
  <2>2. ASSUME NEW s \in 1..Len(f) PROVE f[s] \in Nat
    <3>1. f[s] \in 1..held
      BY <1>2, ElementOfSeq
    <3>2. QED
      BY <1>1, <3>1
  <2>3. QED
    BY <2>1, <2>2
<1>7. \A s \in 1..Len(f)-1 : f[s] < f[s + 1]
  BY <1>2 DEF Increasing
<1> DEFINE l == Len(f)
<1>8. /\ \A s \in 1..l+n-1 : g[s] < g[s + 1]
      /\ \A s \in 1..l+n : g[s] <= B + n
  <2> HIDE DEF f, g, l
  <2>1. /\ l \in Nat /\ \A s \in 1..l : f[s] \in Nat /\ f[s] <= B
        /\ \A s \in 1..l-1 : f[s] < f[s + 1]
        /\ \A s \in 1..l : g[s] = f[s]
        /\ \A s \in 1..n : g[l + s] = B + s
    BY <1>2, <1>5, <1>6, <1>7 DEF l
  <2>2. QED
    BY <1>1, <2>1, AppendIncreasing
<1>9. ASSUME f = [s \in 1..B |-> s]
      PROVE  g = [s \in 1..B + n |-> s]
  <2> HIDE DEF f, g
  <2>1. Len(f) = B /\ \A s \in 1..B : f[s] = s
    BY <1>1, <1>9
  <2>2. /\ g \in Seq(1..held) /\ Len(g) = B + n /\ \A s \in 1..B : g[s] = s
        /\ \A s \in 1..n : g[B + s] = B + s
    BY <1>5, <2>1
  <2>3. QED
    BY <1>1, <2>2, AppendAll
<1>10. Increasing' /\ compressed' \in Seq(1..held)
  <2>1. \A s \in 1..Len(g)-1 : g[s] < g[s + 1]
    <3>1. Len(g) = l + n /\ l \in Nat /\ n \in Nat
      BY <1>1, <1>5, <1>6, Zenon
    <3> HIDE DEF f, g, l
    <3>2. QED
      BY <1>8, <3>1
  <2>2. Increasing'
    <3> HIDE DEF g
    <3>1. QED
      BY <1>4, <2>1, Zenon DEF Increasing
  <2>3. QED
    BY <1>4, <1>5, <2>2, Zenon
<1>11. \A s \in 1..Len(compressed') : compressed'[s] <= outputBufIdx'
  BY <1>1, <1>4, <1>5, <1>8, Zenon
<1>12. compressed = [s \in 1..Behind |-> s] => compressed' = [s \in 1..outputBufIdx' |-> s]
  BY <1>1, <1>4, <1>9, Zenon DEF B
<1>13. QED
  BY <1>10, <1>11, <1>12

\* The compressor's output fits the buffer that is left, or it is the last one that does not.
LEMMA DeflateOut ==
  ASSUME IInv, NEW k \in Nat \ {0}, Deflate(k)
  PROVE  \E size \in Nat :
           /\ WriteOut(size) /\ outlen' \in Nat /\ avail' \in 0..bufSize
           /\ prev_state' \in {Z_OK, Z_STREAM_END, Z_BUF_ERROR} /\ defl_mode' \in {Z_BLOCK, Z_FINISH}
           /\ prev_state' # Z_BUF_ERROR => k = size + outlen'
           /\ outlen' > 0 => avail' = 0
           /\ k < bufSize =>
                /\ size = k /\ outlen' = 0 /\ avail' > 0
                /\ prev_state' = IF total_bytes' = srcLen THEN Z_STREAM_END ELSE Z_OK
<1>1. bufSize \in Nat \ {0}
  BY SizesAssumption
<1>2. defl_mode' = IF total_bytes' = srcLen THEN Z_FINISH ELSE Z_BLOCK
  BY DEF Deflate, AllRead
<1>3. CASE defl_mode' = Z_FINISH /\ k > bufSize
  <2>1. prev_state' = Z_BUF_ERROR /\ outlen' = 0 /\ avail' = bufSize /\ WriteOut(0)
    BY <1>3 DEF Deflate
  <2>2. WITNESS 0 \in Nat
  <2>3. QED
    BY <1>1, <1>2, <1>3, <2>1
<1>4. CASE ~(defl_mode' = Z_FINISH /\ k > bufSize)
  <2>1. /\ prev_state' = IF defl_mode' = Z_FINISH THEN Z_STREAM_END ELSE Z_OK
        /\ WriteOut(Least(k, bufSize)) /\ outlen' = k - Least(k, bufSize)
        /\ avail' = bufSize - Least(k, bufSize)
    BY <1>4, Zenon DEF Deflate, MoveOut, Rest
  <2>2. Least(k, bufSize) \in Nat
    BY <1>1
  <2>3. WITNESS Least(k, bufSize) \in Nat
  <2>4. QED
    BY <1>1, <1>2, <2>1
<1>5. QED
  BY <1>3, <1>4

LEMMA DeflateIInv ==
  ASSUME IInv, NEW k \in 1..input_bytes + Growth, Deflate(k), input_bytes \in Nat
  PROVE  IInv'
<1>1. /\ AppendChunk /\ BufferReady /\ Proceed(Count) /\ UNCHANGED source /\ avail > 0
      /\ total_bytes' = total_bytes + input_bytes
      /\ compressed' = compressed \o [s \in 1..input_bytes |-> inputBuffer'[s - 1]]
      /\ produced' = produced + k /\ largest' = Most(k, largest)
  BY DEF Deflate
<1>2. k \in Nat \ {0}
  BY SizesAssumption
<1>3. PICK size \in Nat :
        /\ WriteOut(size) /\ outlen' \in Nat /\ avail' \in 0..bufSize
        /\ prev_state' \in {Z_OK, Z_STREAM_END, Z_BUF_ERROR} /\ defl_mode' \in {Z_BLOCK, Z_FINISH}
        /\ prev_state' # Z_BUF_ERROR => k = size + outlen'
        /\ outlen' > 0 => avail' = 0
        /\ k < bufSize =>
             /\ size = k /\ outlen' = 0 /\ avail' > 0
             /\ prev_state' = IF total_bytes' = srcLen THEN Z_STREAM_END ELSE Z_OK
  BY <1>2, DeflateOut
<1>4. PICK w \in 0..size, f \in 0..1, ended \in BOOLEAN : Out(size, w, f, ended)
  BY <1>3, WriteOuts
<1>5. /\ dst \in Nat /\ dstLen \in Nat /\ footer \in 0..srcLen /\ srcLen \in Nat
      /\ produced \in Nat /\ largest \in Nat /\ outlen \in Nat /\ total_bytes \in Nat
      /\ held \in Nat /\ bufSize \in Nat \ {0}
  BY SizesAssumption DEF IInv, Types, StreamTypes, SourceTypes, BufferTypes
<1>6. dstLen' \in Nat
  <2>1. CASE ended
    BY <1>4, <1>5, <2>1 DEF Out
  <2>2. CASE ~ended
    BY <1>4, <1>5, <2>2 DEF Out
  <2>3. QED
    BY <2>1, <2>2
<1>7. /\ Appended /\ input_bytes = buf_idx + Count
      /\ total_source_bytes' \in 1..held /\ total_source_bytes' = outputBufIdx'
      /\ returned' \in Nat \cup {NoReturn, Crashed}
      /\ returned' > 0 => returned' = dstLen'
      /\ returned' = NoReturn =>
           total_source_bytes' < srcLen /\ buf_idx' = 0 /\ Behind' = outputBufIdx'
      /\ returned' # NoReturn => srcLen <= outputBufIdx'
  BY <1>1, <1>6, Readies
<1>8. /\ Writing /\ ~Broken /\ prev_state = Z_OK /\ outlen = 0 /\ total_bytes <= Behind
      /\ footer = 0 /\ dstLen = 1 + dst
  <2>1. Writing /\ ~Broken /\ prev_state = Z_OK
    BY <1>1, Zenon DEF AppendChunk, Writing, Broken
  <2>2. (outlen > 0 => avail = 0) /\ total_bytes <= Behind /\ footer = 0 /\ dstLen = 1 + dst
    BY <2>1, Zenon DEF IInv, Pending, Compressed
  <2>3. QED
    BY <1>1, <1>5, <2>1, <2>2
<1>9. total_bytes' \in 0..outputBufIdx' /\ outputBufIdx' = Behind + input_bytes
  <2>1. total_bytes' = total_bytes + input_bytes
    BY <1>1
  <2>2. /\ outputBufIdx' = Behind + buf_idx + Count /\ buf_idx \in Nat /\ Behind \in Nat
        /\ Count \in Nat /\ input_bytes = buf_idx + Count
    BY <1>7 DEF Appended
  <2>3. QED
    BY <1>5, <1>8, <2>1, <2>2
<1>10. /\ compressed' \in Seq(1..held) /\ Increasing'
       /\ \A s \in 1..Len(compressed') : compressed'[s] <= outputBufIdx'
       /\ compressed = [s \in 1..Behind |-> s] => compressed' = [s \in 1..outputBufIdx' |-> s]
  BY <1>1, <1>7, <1>8, Compresses, Zenon
<1>11. /\ Types' /\ CallOK' /\ InPlace' /\ BufferFilled'
       /\ Writing' => Behind' = outputBufIdx' /\ footer' = 0 /\ dstLen' = 1 + dst'
  <2>1. produced' \in Nat /\ largest' \in Nat
    BY <1>1, <1>2, <1>5
  <2>2. QED
    BY <1>1, <1>3, <1>9, <1>10, <2>1, TurnIInv, Zenon
<1>12. ~faulty' => ~faulty /\ w = size /\ (ended => f = 1)
  BY <1>4, Zenon DEF Out
<1>13. dst' = dst + w
  BY <1>4 DEF Out
<1>14. Pending'
  <2>1. ASSUME ~faulty', prev_state' # Z_BUF_ERROR PROVE dst' + outlen' = produced'
    <3>1. dst + outlen = produced
      <4>1. ~faulty /\ prev_state # Z_BUF_ERROR
        BY <1>8, <1>12, <2>1
      <4>2. QED
        BY <4>1, Zenon DEF IInv, Pending, NothingPendingLost
    <3>2. k = size + outlen' /\ w = size
      BY <1>3, <1>12, <2>1
    <3>3. outlen' \in Nat /\ size \in Nat
      BY <1>3
    <3>4. produced' = produced + k
      BY <1>1
    <3>5. k \in Nat /\ dst \in Nat /\ produced \in Nat /\ outlen = 0
      BY <1>2, <1>5, <1>8
    <3>6. dst' \in Nat /\ produced' \in Nat /\ w \in Nat
      BY <1>13, <3>4, <3>5
    <3>7. QED
      BY <1>13, <3>1, <3>2, <3>3, <3>4, <3>5, <3>6
  <2>2. QED
    BY <1>3, <1>11, <2>1, Zenon DEF Pending, NothingPendingLost
<1>15. Compressed'
  <2>1. Writing' => total_bytes' <= Behind'
    BY <1>9, <1>11
  <2>2. QED
    BY <1>10, <1>11, <2>1, Zenon DEF Compressed
\* From here on, no block filled its buffer, and nothing was refused.
<1>16. ASSUME Roomy'
       PROVE  /\ ~faulty' /\ k < bufSize /\ w = k /\ (ended => f = 1) /\ held <= srcLen
              /\ total_bytes = Behind /\ compressed' = [s \in 1..outputBufIdx' |-> s]
              /\ total_bytes' = outputBufIdx' /\ outputBufIdx' <= srcLen
              /\ dst' = produced'
  <2>1. /\ srcLen' = srcLen /\ held' = held
    BY <1>1 DEF source
  <2>2. ~faulty' /\ held <= srcLen /\ largest' < bufSize
    BY <1>16, <2>1, Zenon DEF Roomy
  <2>3. k < bufSize /\ largest < bufSize
    BY <1>1, <1>2, <1>5, <2>2
  <2>4. Roomy
    BY <1>12, <2>2, <2>3, Zenon DEF Roomy
  <2>5. total_bytes = Behind /\ compressed = [s \in 1..Behind |-> s]
    BY <1>8, <2>4, Zenon DEF IInv, WholeSoFar, Writing
  <2>6. w = k /\ (ended => f = 1)
    BY <1>3, <1>12, <2>2, <2>3
  <2>7. total_bytes' = outputBufIdx' /\ outputBufIdx' <= srcLen
    BY <1>1, <1>5, <1>7, <1>9, <2>2, <2>5
  <2>8. dst' = produced'
    <3>1. outlen' = 0 /\ prev_state' # Z_BUF_ERROR
      BY <1>3, <2>3
    <3>2. dst' + outlen' = produced'
      BY <1>14, <2>2, <3>1, Zenon DEF Pending, NothingPendingLost
    <3>3. dst' \in Nat
      BY <1>5, <1>13
    <3>4. QED
      BY <3>1, <3>2, <3>3
  <2>9. QED
    BY <1>10, <2>2, <2>3, <2>5, <2>6, <2>7, <2>8
<1>17. WholeSoFar'
  <2> SUFFICES ASSUME Running', Roomy'
               PROVE  /\ ~Broken' /\ avail' > 0 /\ outlen' = 0 /\ total_bytes' = Behind'
                      /\ compressed' = [s \in 1..Behind' |-> s]
    BY Zenon DEF WholeSoFar
  <2>1. total_bytes' < srcLen /\ Behind' = outputBufIdx' /\ total_bytes' \in Nat
    BY <1>7, <1>9, <1>16
  <2>2. prev_state' = Z_OK /\ avail' > 0 /\ outlen' = 0
    BY <1>3, <1>5, <1>16, <2>1
  <2>3. ~ended
    BY <1>4, <2>2 DEF Out
  <2>4. w > 0 /\ total_bytes' <= srcLen
    BY <1>2, <1>5, <1>16, <2>1
  <2>5. in_loop'
    BY <1>4, <2>3, <2>4, Zenon DEF Out
  <2>6. ~Broken'
    BY <2>2, <2>5, Zenon DEF Broken
  <2>7. QED
    BY <1>16, <2>1, <2>2, <2>6
<1>18. SizedMeansWhole'
  <2> SUFFICES ASSUME Sized', Roomy'
               PROVE  Whole'
    BY Zenon DEF SizedMeansWhole, Roomy
  <2>1. returned' = dstLen' /\ returned' # NoReturn
    BY <1>6, <1>7 DEF Sized
  <2>2. outputBufIdx' = srcLen /\ srcLen' = srcLen
    BY <1>1, <1>5, <1>7, <1>16, <2>1 DEF source
  <2>3. prev_state' = Z_STREAM_END
    BY <1>3, <1>16, <2>2
  <2>4. ended
    <3>1. w > 0 /\ total_bytes' <= srcLen
      BY <1>2, <1>5, <1>16, <2>2
    <3>2. QED
      BY <1>4, <2>3, <3>1, Zenon DEF Out
  <2>5. footer' = srcLen /\ dstLen' = dstLen + w + 1
    BY <1>4, <1>16, <2>4 DEF Out
  <2>6. dstLen' = 1 + dst' + 1
    BY <1>2, <1>5, <1>8, <1>13, <1>16, <2>5
  <2>7. QED
    BY <1>16, <2>2, <2>5, <2>6 DEF Whole
<1>19. QED
  BY <1>11, <1>14, <1>15, <1>17, <1>18 DEF IInv

-----------------------------------------------------------------------------
\* The invariant is inductive.
LEMMA NextIInv ==
  ASSUME IInv, [Next]_vars
  PROVE  IInv'
<1>1. inputBufferSize \in 1..bufSize
  BY DEF IInv, Types, SourceTypes
<1>2. CASE StartFails
  BY <1>2, ReturnIInv DEF StartFails, Rests
<1>3. CASE ReadFails
  BY <1>3, ReadFailsIInv
<1>4. CASE WriteIgnored
  BY <1>4, WriteIgnoredIInv
<1>5. CASE Cache
  BY <1>5, CacheIInv
<1>6. CASE Flush
  BY <1>6, FlushIInv
<1>7. ASSUME NEW k \in 1..input_bytes + Growth, Deflate(k)
      PROVE  IInv'
  <2>1. input_bytes \in Nat
    <3>1. AppendChunk
      BY <1>7 DEF Deflate
    <3>2. buf_idx \in Nat /\ Count \in 1..bufSize /\ bufSize \in Nat
      BY <3>1, Appends, SizesAssumption DEF Appended
    <3>3. QED
      BY <3>2 DEF input_bytes
  <2>2. QED
    BY <1>7, <2>1, DeflateIInv
<1>8. ASSUME NEW to \in {"stream", "buffer"}, NEW size \in InputSizes, NEW len \in Lengths,
             NEW has \in Lengths, Start(to, size, len, has)
      PROVE  IInv'
  BY <1>8, StartIInv
<1>9. ASSUME NEW to \in {"stream", "buffer"}, NEW len \in Lengths, NEW k \in 1..len + Growth,
             CompressBytes(to, len, k)
      PROVE  IInv'
  BY <1>9, CompressBytesIInv
<1>10. ASSUME NEW to \in {"stream", "buffer"}, StartEmpty(to)
       PROVE  IInv'
  <2>1. returned' \in {0, Failed}
    BY <1>10, Answers DEF StartEmpty
  <2>2. QED
    BY <1>1, <1>10, <2>1, NoLoopIInv DEF StartEmpty, Call
<1>11. CASE Refused
  BY <1>11, ReturnIInv DEF Refused, Rests
<1>12. CASE Forget
  <2>1. bufSize \in 1..bufSize
    BY SizesAssumption
  <2>2. QED
    BY <1>12, <2>1, NoLoopIInv DEF Forget
<1>13. ASSUME NEW len \in Lengths \cup {0}, ToFile(len)
       PROVE  IInv'
  <2>1. len \in Nat
    BY SizesAssumption
  <2>2. QED
    BY <1>1, <1>13, <2>1, NoLoopIInv DEF ToFile, Call
<1>14. CASE UNCHANGED vars
  <2> USE <1>14 DEF vars, source, writer, stream
  <2>1. Types' /\ CallOK'
    BY Zenon DEF IInv, Types, SourceTypes, BufferTypes, StreamTypes, FlagTypes, CallOK
  <2>2. buf_idx' = buf_idx /\ Behind' = Behind
    BY DEF buf_idx, Behind
  <2>3. InPlace' /\ BufferFilled' /\ Compressed'
    BY <2>2, Zenon DEF IInv, InPlace, BufferFilled, Compressed, Increasing, Writing, Broken
  <2>4. Pending' /\ WholeSoFar'
    BY <2>2, Zenon DEF IInv, Pending, NothingPendingLost, WholeSoFar, Roomy, Writing, Broken
  <2>5. SizedMeansWhole'
    BY Zenon DEF IInv, SizedMeansWhole, Sized, Whole
  <2>6. QED
    BY <2>1, <2>3, <2>4, <2>5 DEF IInv
<1>15. QED
  BY <1>2, <1>3, <1>4, <1>5, <1>6, <1>7, <1>8, <1>9, <1>10, <1>11, <1>12, <1>13, <1>14 DEF Next, Step

-----------------------------------------------------------------------------
\* The invariant is one of the specification.
LEMMA Inductive == Spec => []IInv
<1>1. Init => IInv
  BY InitIInv
<1>2. IInv /\ [Next]_vars => IInv'
  BY NextIInv
<1>3. QED
  BY <1>1, <1>2, PTL DEF Spec

\* The variables keep their types, and memcpy stays inside inputBuffer, whatever divisor
\* of the buffer's size the loop reads at a time, and whatever a read finds.
THEOREM TypeCorrect == Spec => []LzTypeOK
<1>1. IInv => LzTypeOK
  <2> SUFFICES ASSUME IInv PROVE LzTypeOK
    OBVIOUS
  <2>1. InsideBuffer
    BY Room DEF InsideBuffer
  <2>2. QED
    BY <2>1, Zenon DEF IInv, Types, SourceTypes, BufferTypes, StreamTypes, FlagTypes, LzTypeOK
<1>2. QED
  BY <1>1, Inductive, PTL

\* The compressor is given no byte of the source twice or out of its order, even by a writer
\* that has left buffers out; and of what it makes nothing is lost or written twice between
\* outputBuffer and a destination that takes all it is given.
THEOREM InOrder == Spec => []CompressedInOrder
<1>1. IInv => CompressedInOrder
  BY Zenon DEF IInv, Compressed, Increasing, Pending, CompressedInOrder
<1>2. QED
  BY <1>1, Inductive, PTL

\* When each block of the compressor's output left room in outputBuffer, a size that compress
\* returns is that of a whole file, footer and all, for every source and read size.
THEOREM SizedWhole == Spec => []SizedMeansWhole
<1>1. IInv => SizedMeansWhole
  BY DEF IInv
<1>2. QED
  BY <1>1, Inductive, PTL
=============================================================================
