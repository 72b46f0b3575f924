---------------------------- MODULE InflateProofs ----------------------------
(***************************************************************************)
(* Theorems about the loop that expands a .gz stream (module Inflate), for *)
(* every size of the ring and of the output buffer, with the ring and      *)
(* without it, and every set of matches.                                   *)
(***************************************************************************)
EXTENDS Inflate, SequenceTheorems, TLAPS

-----------------------------------------------------------------------------
(***************************************************************************)
(* The rests of an index that wraps around.                                *)
(***************************************************************************)
\* A number is so many times n, and the rest.
LEMMA DivMod ==
  ASSUME NEW a \in Nat, NEW n \in Nat \ {0}
  PROVE  a = (a \div n) * n + (a % n) /\ a % n \in 0..n-1 /\ a \div n \in Nat
OBVIOUS

\* There is one such rest.
LEMMA ModUnique ==
  ASSUME NEW q \in Nat, NEW n \in Nat \ {0}, NEW r \in 0..n-1
  PROVE  (q * n + r) % n = r
OBVIOUS

\* An index that stays below the end does not wrap.
LEMMA ModStays ==
  ASSUME NEW a \in Nat, NEW n \in Nat \ {0}, NEW c \in Nat, (a % n) + c < n
  PROVE  (a + c) % n = (a % n) + c
<1> DEFINE q == a \div n
           r == (a % n) + c
<1>1. a = q * n + (a % n) /\ q \in Nat
  BY DivMod
<1>2. r \in 0..n-1
  BY DivMod
<1>3. a + c = q * n + r
  BY <1>1, DivMod
<1>4. (q * n + r) % n = r
  <2> HIDE DEF q, r
  <2> QED
    BY <1>1, <1>2, ModUnique
<1>5. QED
  BY <1>3, <1>4

\* One that reaches the end is 0.
LEMMA ModWraps ==
  ASSUME NEW a \in Nat, NEW n \in Nat \ {0}, NEW c \in Nat, (a % n) + c = n
  PROVE  (a + c) % n = 0
<1> DEFINE q == a \div n
<1>1. a = q * n + (a % n) /\ q \in Nat
  BY DivMod
<1> HIDE DEF q
<1>2. a + c = (q + 1) * n + 0
  BY <1>1
<1>3. ((q + 1) * n + 0) % n = 0
  BY <1>1, ModUnique
<1>4. QED
  BY <1>2, <1>3

\* Two numbers less than n apart have different rests.
LEMMA ModDistinct ==
  ASSUME NEW a \in Nat, NEW b \in Nat, NEW n \in Nat \ {0}, a < b, b < a + n
  PROVE  a % n # b % n
<1> SUFFICES ASSUME a % n = b % n PROVE FALSE
  OBVIOUS
<1> DEFINE p == a \div n
           q == b \div n
           r == a % n
<1>1. a = p * n + r /\ p \in Nat /\ r \in 0..n-1
  BY DivMod
<1>2. b = q * n + r /\ q \in Nat
  BY DivMod
<1> HIDE DEF p, q, r
<1>3. p * n < q * n
  BY <1>1, <1>2
<1>4. p < q
  BY <1>1, <1>2, <1>3
<1>5. (p + 1) * n <= q * n
  BY <1>1, <1>2, <1>4
<1>6. (p + 1) * n = p * n + n
  BY <1>1
<1>7. QED
  BY <1>1, <1>2, <1>5, <1>6

\* Adding n changes nothing.
LEMMA ModPeriod ==
  ASSUME NEW a \in Nat, NEW n \in Nat \ {0}
  PROVE  (a + n) % n = a % n
<1> DEFINE q == a \div n
           r == a % n
<1>1. a = q * n + r /\ q \in Nat /\ r \in 0..n-1
  BY DivMod
<1> HIDE DEF q, r
<1>2. a + n = (q + 1) * n + r
  BY <1>1
<1>3. ((q + 1) * n + r) % n = r
  BY <1>1, ModUnique
<1>4. QED
  BY <1>2, <1>3 DEF r

\* The index of a place d back wraps around once.
LEMMA ModBack ==
  ASSUME NEW a \in Nat, NEW n \in Nat \ {0}, NEW d \in 1..n, d <= a
  PROVE  (a - d) % n = IF (a % n) - d < 0 THEN (a % n) - d + n ELSE (a % n) - d
<1> DEFINE q == a \div n
           r == a % n
<1>1. a = q * n + r /\ q \in Nat /\ r \in 0..n-1
  BY DivMod
<1> HIDE DEF q, r
<1>2. CASE r - d < 0
  <2>1. q \in Nat \ {0}
    BY <1>1, <1>2
  <2>2. a - d = (q - 1) * n + (r - d + n)
    BY <1>1, <2>1
  <2>3. q - 1 \in Nat /\ r - d + n \in 0..n-1
    BY <1>1, <1>2, <2>1
  <2>4. ((q - 1) * n + (r - d + n)) % n = r - d + n
    BY <2>3, ModUnique
  <2>5. QED
    BY <1>2, <2>2, <2>4 DEF r
<1>3. CASE ~(r - d < 0)
  <2>1. a - d = q * n + (r - d) /\ r - d \in 0..n-1
    BY <1>1, <1>3
  <2>2. (q * n + (r - d)) % n = r - d
    BY <1>1, <2>1, ModUnique
  <2>3. QED
    BY <1>3, <2>1, <2>2 DEF r
<1>4. QED
  BY <1>2, <1>3

-----------------------------------------------------------------------------

Bytes == 0..MaxLength

\* The conjuncts of InTypeOK.
WindowTypes == dict_ring \in [0..dict_size-1 -> Bytes] /\ dict_idx \in 0..dict_size-1
BlockTypes ==
  btype \in {-1, 0, 1} /\ curlen \in Nat /\ lzOff \in Int /\ readSourceErrors \in 0..1
BufferTypes ==
  /\ output_buffer \in [0..output_buffer_size-1 -> Bytes]
  /\ output_position \in 0..output_buffer_size
  /\ Running => output_position < output_buffer_size
  /\ outlen \in Nat /\ file \in Seq(Bytes)
  /\ returned \in {NoReturn, ESP32_TARGZ_OK, ESP32_TARGZ_STREAM_ERROR}
FlagTypes == use_dict \in BOOLEAN /\ bfinal \in BOOLEAN /\ intact \in BOOLEAN /\ shortened \in BOOLEAN
Types == WindowTypes /\ BlockTypes /\ BufferTypes /\ FlagTypes /\ expanded \in Seq(Bytes)

\* A match is being copied, and lzOff says from where.
Copying == btype = 1 /\ curlen > 0
Pointing ==
  /\ btype = -1 => curlen = 0
  /\ Copying => IF use_dict THEN lzOff \in 0..dict_size-1 ELSE lzOff < 0
SourceOK == intact /\ Running => readSourceErrors = 0

\* What the symbols stand for has been put, but for the rest of the match.
Pending == IF btype = 1 THEN curlen ELSE 0
Lengthy == intact /\ Running => Len(expanded) = Produced + Pending

\* OutputExact, byte for byte.
Exact ==
  intact /\ ~shortened =>
    /\ Len(file) = outlen /\ Produced <= Len(expanded)
    /\ \A q \in 1..outlen : file[q] = expanded[q]
    /\ \A s \in 0..output_position-1 : output_buffer[s] = expanded[outlen + 1 + s]

\* The ring holds the last dict_size bytes, each where its number says.
Window ==
  intact /\ Running /\ use_dict =>
    /\ dict_idx = Produced % dict_size
    /\ \A q \in 1..Produced :
         q + dict_size > Produced => dict_ring[(q - 1) % dict_size] = expanded[q]

\* Of the match that is being copied, each byte is the one d before it.
Matching ==
  intact /\ Running /\ Copying =>
    \E d \in 1..dict_size :
      /\ d <= Produced
      /\ \A q \in Produced+1..Len(expanded) : expanded[q] = expanded[q - d]
      /\ lzOff = IF use_dict THEN (Produced - d) % dict_size ELSE -d

IInv ==
  /\ Types /\ Pointing /\ SourceOK /\ Lengthy /\ Exact /\ Window /\ Matching
  /\ OkMeansWhole

USE DEF ESP32_TARGZ_OK, ESP32_TARGZ_STREAM_ERROR, NoReturn, TINF_DONE, TINF_DATA_ERROR,
        TINF_CHKSUM_ERROR, Running

-----------------------------------------------------------------------------
(***************************************************************************)
(* Reading, and writing to the file.                                       *)
(***************************************************************************)
\* A function of 1..n after a sequence.
LEMMA Concat ==
  ASSUME NEW S, NEW f \in Seq(S), NEW n \in Nat, NEW e \in [1..n -> S]
  PROVE  /\ f \o e \in Seq(S) /\ Len(f \o e) = Len(f) + n /\ Len(f) \in Nat
         /\ \A q \in 1..Len(f) : (f \o e)[q] = f[q]
         /\ \A p \in 1..n : (f \o e)[Len(f) + p] = e[p]
<1>1. e \in Seq(S) /\ Len(e) = n
  OBVIOUS
<1>2. /\ f \o e \in Seq(S) /\ Len(f \o e) = Len(f) + n /\ Len(f) \in Nat
      /\ \A q \in 1..Len(f)+n : (f \o e)[q] = IF q <= Len(f) THEN f[q] ELSE e[q - Len(f)]
  BY <1>1, ConcatProperties, LenProperties
<1>3. \A p \in 1..n : (f \o e)[Len(f) + p] = e[p]
  <2> TAKE p \in 1..n
  <2>1. Len(f) + p \in 1..Len(f)+n /\ ~(Len(f) + p <= Len(f)) /\ (Len(f) + p) - Len(f) = p
    BY <1>2
  <2>2. QED
    BY <1>2, <2>1
<1>4. QED
  BY <1>2, <1>3

LEMMA Sizes ==
  /\ dict_size \in Nat \ {0} /\ output_buffer_size \in Nat \ {0} /\ MaxLength \in Nat
BY WindowAssumption, SymbolsAssumption

LEMMA ReadsGives ==
  ASSUME Types, NEW symbol \in Seq(Bytes), Reads(symbol)
  PROVE  /\ readSourceErrors' \in 0..1 /\ intact' \in BOOLEAN
         /\ intact' => intact /\ readSourceErrors' = 0 /\ expanded' = expanded \o symbol
         /\ expanded' \in Seq(Bytes)
<1>1. readSourceErrors' \in 0..1
  BY DEF Types, BlockTypes, Reads, SourceErrors
<1>2. /\ intact' \in BOOLEAN
      /\ intact' => intact /\ readSourceErrors' = 0
      /\ intact' => expanded' = expanded \o symbol
      /\ ~intact' => expanded' = <<>>
  BY Zenon DEF Reads
<1>3. expanded \o symbol \in Seq(Bytes) /\ <<>> \in Seq(Bytes)
  <2>1. expanded \in Seq(Bytes)
    BY DEF Types
  <2>2. QED
    BY <2>1, ConcatProperties
<1>4. expanded' \in Seq(Bytes)
  BY <1>2, <1>3
<1>5. QED
  BY <1>1, <1>2, <1>4, Zenon

LEMMA NonsenseGives ==
  ASSUME Types, ReadsNonsense
  PROVE  readSourceErrors' \in 0..1 /\ intact' = FALSE /\ expanded' \in Seq(Bytes)
<1>1. readSourceErrors' \in 0..1
  BY DEF Types, BlockTypes, ReadsNonsense, SourceErrors
<1>2. intact' = FALSE /\ expanded' = <<>>
  BY Zenon DEF ReadsNonsense
<1>3. QED
  BY <1>1, <1>2

\* Two attempts to write leave at most the whole in the file; when nothing is shortened, it.
LEMMA Writes ==
  ASSUME Types, NEW size \in 1..output_buffer_size, NEW taken \in Attempts(size),
         WriteCallback(size, taken), output_buffer' \in [0..output_buffer_size-1 -> Bytes]
  PROVE  /\ taken \in 0..size /\ file' \in Seq(Bytes) /\ outlen' \in Nat /\ shortened' \in BOOLEAN
         /\ ~shortened' =>
              /\ ~shortened /\ taken = size /\ outlen' = outlen + size
              /\ Len(file') = Len(file) + size /\ Len(file) \in Nat
              /\ \A q \in 1..Len(file) : file'[q] = file[q]
              /\ \A p \in 1..size : file'[Len(file) + p] = output_buffer'[p - 1]
<1> USE Sizes
<1>1. taken \in 0..size
  BY DEF Attempts, Taken
<1>2. /\ file' = file \o [p \in 1..taken |-> output_buffer'[p - 1]]
      /\ outlen' = IF taken > 0 THEN outlen + size ELSE outlen
      /\ shortened' = (shortened \/ taken < size)
  BY DEF WriteCallback
<1> DEFINE e == [p \in 1..taken |-> output_buffer'[p - 1]]
<1>3. e \in [1..taken -> Bytes] /\ \A p \in 1..taken : e[p] = output_buffer'[p - 1]
  BY <1>1
<1>4. outlen \in Nat /\ file \in Seq(Bytes)
  BY DEF Types, BufferTypes
<1> HIDE DEF e
<1>5. file' = file \o e
  BY <1>2 DEF e
<1>6. /\ file' \in Seq(Bytes) /\ Len(file') = Len(file) + taken /\ Len(file) \in Nat
      /\ \A q \in 1..Len(file) : file'[q] = file[q]
      /\ \A p \in 1..taken : file'[Len(file) + p] = e[p]
  BY <1>1, <1>3, <1>4, <1>5, Concat
<1>7. shortened' \in BOOLEAN /\ (~shortened' => ~shortened /\ ~(taken < size))
  BY <1>2, Zenon
<1>8. outlen' \in Nat /\ (taken = size => outlen' = outlen + size)
  BY <1>1, <1>2, <1>4
<1>9. ~shortened' => ~shortened /\ taken = size
  BY <1>1, <1>7
<1>10. QED
  BY <1>1, <1>3, <1>6, <1>7, <1>8, <1>9

\* What the symbols stand for grows: of a stream that is still intact, what was there stays.
Extended ==
  /\ expanded' \in Seq(Bytes)
  /\ intact' => /\ intact /\ Len(expanded) <= Len(expanded')
                /\ \A q \in 1..Len(expanded) : expanded'[q] = expanded[q]

\* The bytes of the buffer that are written are the next ones.
Ahead(size) ==
  intact' /\ ~shortened =>
    /\ Len(file) = outlen /\ outlen + size <= Len(expanded')
    /\ \A q \in 1..outlen : file[q] = expanded'[q]
    /\ \A s \in 0..size-1 : output_buffer'[s] = expanded'[outlen + 1 + s]

LEMMA AheadNow ==
  ASSUME Types, Exact, Extended,
         \A s \in 0..output_position-1 : output_buffer'[s] = output_buffer[s]
  PROVE  Ahead(output_position)
<1> SUFFICES ASSUME intact', ~shortened
             PROVE  /\ Len(file) = outlen /\ outlen + output_position <= Len(expanded')
                    /\ \A q \in 1..outlen : file[q] = expanded'[q]
                    /\ \A s \in 0..output_position-1 : output_buffer'[s] = expanded'[outlen + 1 + s]
  BY Zenon DEF Ahead
<1>1. /\ Len(expanded) <= Len(expanded')
      /\ \A q \in 1..Len(expanded) : expanded'[q] = expanded[q]
      /\ Len(file) = outlen /\ Produced <= Len(expanded)
      /\ \A q \in 1..outlen : file[q] = expanded[q]
      /\ \A s \in 0..output_position-1 : output_buffer[s] = expanded[outlen + 1 + s]
  BY Zenon DEF Extended, Exact
<1>2. /\ outlen \in Nat /\ output_position \in Nat
      /\ expanded \in Seq(Bytes) /\ Len(expanded) \in Nat
  BY LenProperties, Sizes DEF Types, BufferTypes
<1>3. Len(expanded') \in Nat
  BY LenProperties DEF Extended
<1>4. QED
  BY <1>1, <1>2, <1>3 DEF Produced

\* The whole buffer goes to the file: it holds what the symbols stand for.
LEMMA WrittenExact ==
  ASSUME Types, NEW size \in 1..output_buffer_size, NEW taken \in Attempts(size),
         WriteCallback(size, taken), output_buffer' \in [0..output_buffer_size-1 -> Bytes],
         Ahead(size), expanded' \in Seq(Bytes), taken > 0 => output_position' = 0
  PROVE  /\ Exact'
         /\ intact' /\ ~shortened' => outlen' = outlen + size /\ taken = size
<1> SUFFICES ASSUME intact', ~shortened'
             PROVE  /\ Len(file') = outlen' /\ Produced' <= Len(expanded')
                    /\ \A q \in 1..outlen' : file'[q] = expanded'[q]
                    /\ \A s \in 0..output_position'-1 : output_buffer'[s] = expanded'[outlen' + 1 + s]
                    /\ outlen' = outlen + size /\ taken = size
  BY Zenon DEF Exact
<1>1. /\ ~shortened /\ taken = size /\ outlen' = outlen + size
      /\ Len(file') = Len(file) + size /\ Len(file) \in Nat
      /\ \A q \in 1..Len(file) : file'[q] = file[q]
      /\ \A p \in 1..size : file'[Len(file) + p] = output_buffer'[p - 1]
  BY Writes
<1>2. /\ Len(file) = outlen /\ outlen + size <= Len(expanded')
      /\ \A q \in 1..outlen : file[q] = expanded'[q]
      /\ \A s \in 0..size-1 : output_buffer'[s] = expanded'[outlen + 1 + s]
  BY <1>1, Zenon DEF Ahead
<1>3. size \in Nat \ {0} /\ outlen \in Nat /\ Len(expanded') \in Nat
  BY Sizes, LenProperties DEF Types, BufferTypes
<1>4. output_position' = 0
  BY <1>1, <1>3
<1>5. ASSUME NEW q \in 1..outlen'
      PROVE  file'[q] = expanded'[q]
  <2>1. CASE q <= outlen
    BY <1>1, <1>2, <1>3, <2>1
  <2>2. CASE q > outlen
    <3>1. q - outlen \in 1..size /\ outlen + (q - outlen) = q /\ outlen + 1 + (q - outlen - 1) = q
          /\ q - outlen - 1 \in 0..size-1
      BY <1>1, <1>3, <2>2
    <3>2. file'[q] = output_buffer'[q - outlen - 1]
      BY <1>1, <1>2, <3>1
    <3>3. QED
      BY <1>2, <3>1, <3>2
  <2>3. QED
    BY <1>1, <1>3, <2>1, <2>2
<1>6. QED
  BY <1>1, <1>2, <1>3, <1>4, <1>5 DEF Produced

\* Nothing was put, or the byte that was is still in the buffer: the same.
LEMMA StaysExact ==
  ASSUME Types, Ahead(output_position'), UNCHANGED output, expanded' \in Seq(Bytes),
         output_position' \in Nat
  PROVE  Exact'
<1> SUFFICES ASSUME intact', ~shortened'
             PROVE  /\ Len(file') = outlen' /\ Produced' <= Len(expanded')
                    /\ \A q \in 1..outlen' : file'[q] = expanded'[q]
                    /\ \A s \in 0..output_position'-1 : output_buffer'[s] = expanded'[outlen' + 1 + s]
  BY Zenon DEF Exact
<1>1. outlen' = outlen /\ file' = file /\ ~shortened
  BY DEF output
<1>2. /\ Len(file) = outlen /\ outlen + output_position' <= Len(expanded')
      /\ \A q \in 1..outlen : file[q] = expanded'[q]
      /\ \A s \in 0..output_position'-1 : output_buffer'[s] = expanded'[outlen + 1 + s]
  BY <1>1, Zenon DEF Ahead
<1>3. QED
  BY <1>1, <1>2 DEF Produced

\* The end of the loop: nothing, or what is left over, goes to the file.
LEMMA Finishes ==
  ASSUME Types, Exact, Running, Extended, NEW res, Finish(res)
  PROVE  /\ BufferTypes' /\ shortened' \in BOOLEAN /\ Exact'
         /\ returned' \in {ESP32_TARGZ_OK, ESP32_TARGZ_STREAM_ERROR}
         /\ returned' = ESP32_TARGZ_OK =>
              /\ ~Dry(res) /\ output_position' = 0
              /\ intact' /\ ~shortened' => outlen' = Produced
<1>1. /\ output_buffer \in [0..output_buffer_size-1 -> Bytes] /\ output_position \in Nat
      /\ output_position < output_buffer_size /\ outlen \in Nat /\ file \in Seq(Bytes)
      /\ output_buffer_size \in Nat
  BY Sizes DEF Types, BufferTypes
<1>2. expanded' \in Seq(Bytes)
  BY DEF Extended
<1>3. output_buffer' = output_buffer
  BY DEF Finish, buffer
<1>4. Ahead(output_position)
  BY <1>3, AheadNow
<1>5. ASSUME UNCHANGED <<buffer, output>>
      PROVE  /\ output_position' = output_position /\ outlen' = outlen /\ file' = file
             /\ shortened' \in BOOLEAN /\ Exact'
  <2>1. /\ output_position' = output_position /\ outlen' = outlen /\ file' = file
        /\ shortened' = shortened /\ UNCHANGED output
    BY <1>5 DEF buffer, output
  <2>2. Exact'
    BY <1>1, <1>2, <1>4, <2>1, StaysExact
  <2>3. shortened' \in BOOLEAN
    BY <2>1, Zenon DEF Types, FlagTypes
  <2>4. QED
    BY <2>1, <2>2, <2>3
<1>6. CASE Dry(res) /\ returned' = ESP32_TARGZ_STREAM_ERROR /\ UNCHANGED <<buffer, output>>
  <2>1. BufferTypes'
    BY <1>1, <1>3, <1>5, <1>6 DEF BufferTypes
  <2>2. QED
    BY <1>5, <1>6, <2>1
<1>7. CASE /\ ~Dry(res) /\ Leftover = 0 /\ UNCHANGED <<buffer, output>>
           /\ returned' = IF outlen > 0 THEN ESP32_TARGZ_OK ELSE ESP32_TARGZ_STREAM_ERROR
  <2>1. outlen' = Produced /\ output_position' = 0
    BY <1>1, <1>5, <1>7 DEF Leftover, Produced
  <2>2. returned' \in {ESP32_TARGZ_OK, ESP32_TARGZ_STREAM_ERROR}
    BY <1>7
  <2>3. BufferTypes'
    BY <1>1, <1>3, <1>5, <1>7, <2>2 DEF BufferTypes
  <2>4. QED
    BY <1>5, <1>7, <2>1, <2>2, <2>3, Zenon
<1>8. ASSUME NEW taken \in Attempts(Leftover), ~Dry(res), Leftover > 0,
             WriteCallback(Leftover, taken),
             output_position' = IF taken > 0 THEN 0 ELSE output_position,
             returned' = IF taken > 0 THEN ESP32_TARGZ_OK ELSE ESP32_TARGZ_STREAM_ERROR
      PROVE  /\ BufferTypes' /\ shortened' \in BOOLEAN /\ Exact'
             /\ returned' \in {ESP32_TARGZ_OK, ESP32_TARGZ_STREAM_ERROR}
             /\ returned' = ESP32_TARGZ_OK =>
                  /\ ~Dry(res) /\ output_position' = 0
                  /\ intact' /\ ~shortened' => outlen' = Produced
  <2>1. /\ Leftover \in 1..output_buffer_size /\ Ahead(Leftover)
        /\ output_buffer' \in [0..output_buffer_size-1 -> Bytes]
    BY <1>1, <1>3, <1>4, <1>8 DEF Leftover
  <2>2. taken \in 0..Leftover /\ file' \in Seq(Bytes) /\ outlen' \in Nat /\ shortened' \in BOOLEAN
    BY <1>8, <2>1, Writes
  <2>3. Exact' /\ (intact' /\ ~shortened' => outlen' = outlen + Leftover)
    BY <1>2, <1>8, <2>1, WrittenExact
  <2>4. returned' \in {ESP32_TARGZ_OK, ESP32_TARGZ_STREAM_ERROR} /\ (returned' = ESP32_TARGZ_OK => taken > 0)
    BY <1>8
  <2>5. BufferTypes'
    BY <1>1, <1>8, <2>1, <2>2, <2>4 DEF BufferTypes
  <2>6. QED
    BY <1>8, <2>2, <2>3, <2>4, <2>5, Zenon DEF Leftover, Produced
<1>9. QED
  BY <1>6, <1>7, <1>8 DEF Finish

\* A byte is put: it is the next one, and when the loop goes on there is one more.
LEMMA Puts ==
  ASSUME Types, Exact, Running, Extended, NEW value \in Bytes, Put(value),
         intact' /\ ~shortened => /\ Produced + 1 <= Len(expanded')
                                  /\ value = expanded'[Produced + 1]
  PROVE  /\ BufferTypes' /\ WindowTypes' /\ shortened' \in BOOLEAN /\ Exact'
         /\ returned' \in {NoReturn, ESP32_TARGZ_STREAM_ERROR}
         /\ Running' => Produced' = Produced + 1
<1>1. /\ output_buffer \in [0..output_buffer_size-1 -> Bytes] /\ output_position \in Nat
      /\ output_position < output_buffer_size /\ outlen \in Nat /\ file \in Seq(Bytes)
      /\ output_buffer_size \in Nat
  BY Sizes DEF Types, BufferTypes
<1>2. expanded' \in Seq(Bytes) /\ Len(expanded') \in Nat
  BY LenProperties DEF Extended
<1>3. /\ output_buffer' = [output_buffer EXCEPT ![output_position] = value]
      /\ IF use_dict
         THEN dict_ring' = [dict_ring EXCEPT ![dict_idx] = value] /\ dict_idx' = NextIndex(dict_idx)
         ELSE UNCHANGED window
      /\ Advance
  BY Zenon DEF Put
<1>4. /\ output_buffer' \in [0..output_buffer_size-1 -> Bytes]
      /\ output_buffer'[output_position] = value
      /\ \A s \in 0..output_position-1 : output_buffer'[s] = output_buffer[s]
  BY <1>1, <1>3
<1>5. WindowTypes'
  <2>1. CASE use_dict
    BY <1>3, <2>1, Sizes DEF Types, WindowTypes, NextIndex
  <2>2. CASE ~use_dict
    BY <1>3, <2>2 DEF Types, WindowTypes, window
  <2>3. QED
    BY <2>1, <2>2
<1>6. Ahead(output_position)
  BY <1>4, AheadNow
<1>7. Ahead(output_position + 1)
  <2> SUFFICES ASSUME intact', ~shortened
               PROVE  /\ Len(file) = outlen /\ outlen + (output_position + 1) <= Len(expanded')
                      /\ \A q \in 1..outlen : file[q] = expanded'[q]
                      /\ \A s \in 0..(output_position + 1)-1 : output_buffer'[s] = expanded'[outlen + 1 + s]
    BY Zenon DEF Ahead
  <2>1. /\ Len(file) = outlen /\ \A q \in 1..outlen : file[q] = expanded'[q]
        /\ \A s \in 0..output_position-1 : output_buffer'[s] = expanded'[outlen + 1 + s]
    BY <1>6, Zenon DEF Ahead
  <2>2. outlen + (output_position + 1) <= Len(expanded') /\ value = expanded'[outlen + 1 + output_position]
    BY <1>1 DEF Produced
  <2>3. \A s \in 0..(output_position + 1)-1 : output_buffer'[s] = expanded'[outlen + 1 + s]
    BY <1>1, <1>4, <2>1, <2>2
  <2>4. QED
    BY <2>1, <2>2, <2>3
<1>8. CASE /\ UNCHANGED <<output_position, output>> /\ returned' = ESP32_TARGZ_STREAM_ERROR
  <2>1. /\ output_position' = output_position /\ outlen' = outlen /\ file' = file
        /\ shortened' = shortened
    BY <1>8 DEF output
  <2>2. Exact'
    BY <1>1, <1>2, <1>6, <1>8, <2>1, StaysExact
  <2>3. BufferTypes'
    BY <1>1, <1>4, <1>8, <2>1 DEF BufferTypes
  <2>4. shortened' \in BOOLEAN
    BY <2>1, Zenon DEF Types, FlagTypes
  <2>5. QED
    BY <1>5, <1>8, <2>2, <2>3, <2>4
<1>9. CASE /\ output_position + 1 < output_buffer_size
           /\ output_position' = output_position + 1 /\ UNCHANGED <<output, returned>>
  <2>1. /\ outlen' = outlen /\ file' = file /\ shortened' = shortened /\ returned' = NoReturn
    BY <1>9 DEF output
  <2>2. Exact'
    BY <1>1, <1>2, <1>7, <1>9, StaysExact
  <2>3. BufferTypes' /\ Produced' = Produced + 1
    BY <1>1, <1>4, <1>9, <2>1 DEF BufferTypes, Produced
  <2>4. shortened' \in BOOLEAN
    BY <2>1, Zenon DEF Types, FlagTypes
  <2>5. QED
    BY <1>5, <2>1, <2>2, <2>3, <2>4
<1>10. ASSUME output_position + 1 = output_buffer_size,
              NEW taken \in Attempts(output_buffer_size), WriteCallback(output_buffer_size, taken),
              output_position' = IF taken > 0 THEN PositionAfterWrite ELSE output_position + 1,
              IF taken > 0 THEN UNCHANGED returned ELSE returned' = ESP32_TARGZ_STREAM_ERROR
       PROVE  /\ BufferTypes' /\ WindowTypes' /\ shortened' \in BOOLEAN /\ Exact'
              /\ returned' \in {NoReturn, ESP32_TARGZ_STREAM_ERROR}
              /\ Running' => Produced' = Produced + 1
  <2>1. output_buffer_size \in 1..output_buffer_size /\ Ahead(output_buffer_size)
    BY <1>1, <1>7, <1>10
  <2>2. /\ taken \in 0..output_buffer_size /\ file' \in Seq(Bytes) /\ outlen' \in Nat
        /\ shortened' \in BOOLEAN
    BY <1>4, <1>10, <2>1, Writes
  <2>3. taken > 0 => output_position' = 0
    BY <1>10 DEF PositionAfterWrite
  <2>4. Exact'
    BY <1>2, <1>4, <1>10, <2>1, <2>3, WrittenExact
  <2>5. returned' \in {NoReturn, ESP32_TARGZ_STREAM_ERROR} /\ (returned' = NoReturn => taken > 0)
    BY <1>10
  <2>6. outlen' = IF taken > 0 THEN outlen + output_buffer_size ELSE outlen
    BY <1>10 DEF WriteCallback
  <2>7. Running' => Produced' = Produced + 1
    BY <1>1, <1>10, <2>2, <2>3, <2>5, <2>6 DEF Produced
  <2>8. BufferTypes'
    BY <1>1, <1>4, <1>10, <2>2, <2>3, <2>5 DEF BufferTypes
  <2>9. QED
    BY <1>5, <2>2, <2>4, <2>5, <2>7, <2>8
<1>11. QED
  BY <1>3, <1>8, <1>9, <1>10 DEF Advance

-----------------------------------------------------------------------------
(***************************************************************************)
(* The ring, and matches.                                                  *)
(***************************************************************************)
\* The index of the ring moves on like the number of the byte.
LEMMA NextPlace ==
  ASSUME NEW a \in Nat
  PROVE  NextIndex(a % dict_size) = (a + 1) % dict_size
<1> USE Sizes
<1>1. a % dict_size \in 0..dict_size-1
  BY DivMod
<1>2. CASE (a % dict_size) + 1 < dict_size
  <2>1. (a + 1) % dict_size = (a % dict_size) + 1
    BY <1>2, ModStays
  <2>2. QED
    BY <1>1, <1>2, <2>1 DEF NextIndex
<1>3. CASE (a % dict_size) + 1 = dict_size
  <2>1. (a + 1) % dict_size = 0
    BY <1>3, ModWraps
  <2>2. QED
    BY <1>3, <2>1 DEF NextIndex
<1>4. QED
  BY <1>1, <1>2, <1>3

\* A byte that is put in the ring replaces the one dict_size before it.
LEMMA PutWindow ==
  ASSUME Types, Window, Lengthy, Running, Extended, NEW value \in Bytes, Put(value),
         use_dict' = use_dict, Running' => Produced' = Produced + 1,
         use_dict /\ intact' => value = expanded'[Produced + 1]
  PROVE  Window'
<1> USE Sizes
<1> SUFFICES ASSUME intact', Running', use_dict'
             PROVE  /\ dict_idx' = Produced' % dict_size
                    /\ \A q \in 1..Produced' :
                         q + dict_size > Produced' => dict_ring'[(q - 1) % dict_size] = expanded'[q]
  BY Zenon DEF Window
<1> DEFINE P == Produced
<1>1. P \in Nat
  BY DEF Types, BufferTypes, Produced
<1>2. /\ intact /\ \A q \in 1..Len(expanded) : expanded'[q] = expanded[q]
  BY Zenon DEF Extended
<1>3. /\ dict_idx = P % dict_size
      /\ \A q \in 1..P : q + dict_size > P => dict_ring[(q - 1) % dict_size] = expanded[q]
  BY <1>2, Zenon DEF Window
<1>4. /\ dict_ring' = [dict_ring EXCEPT ![dict_idx] = value] /\ dict_idx' = NextIndex(dict_idx)
      /\ dict_ring \in [0..dict_size-1 -> Bytes] /\ dict_idx \in 0..dict_size-1
  BY Zenon DEF Put, Types, WindowTypes
<1>5. P <= Len(expanded) /\ Len(expanded) \in Nat
  BY <1>1, <1>2, LenProperties DEF Lengthy, Types, Pending, BlockTypes
<1>6. Produced' = P + 1
  OBVIOUS
<1>7. value = expanded'[P + 1]
  OBVIOUS
<1> HIDE DEF P
<1>8. dict_idx' = Produced' % dict_size
  BY <1>1, <1>3, <1>4, <1>6, NextPlace
<1>9. ASSUME NEW q \in 1..P + 1, q + dict_size > P + 1
      PROVE  dict_ring'[(q - 1) % dict_size] = expanded'[q]
  <2>1. CASE q = P + 1
    <3>1. (q - 1) % dict_size = dict_idx
      BY <1>1, <1>3, <2>1
    <3>2. QED
      BY <1>4, <1>7, <2>1, <3>1
  <2>2. CASE q \in 1..P
    <3>1. (q - 1) % dict_size # P % dict_size
      <4>1. q - 1 \in Nat /\ q - 1 < P /\ P < (q - 1) + dict_size
        BY <1>1, <1>9, <2>2
      <4>2. QED
        BY <1>1, <4>1, ModDistinct
    <3>2. (q - 1) % dict_size \in 0..dict_size-1
      BY <2>2, DivMod
    <3>3. dict_ring[(q - 1) % dict_size] = expanded[q]
      BY <1>1, <1>3, <1>9, <2>2
    <3>4. expanded'[q] = expanded[q]
      BY <1>1, <1>2, <1>5, <2>2
    <3>5. QED
      BY <1>3, <1>4, <3>1, <3>2, <3>3, <3>4
  <2>3. QED
    BY <1>1, <2>1, <2>2
<1>10. QED
  BY <1>6, <1>8, <1>9

\* What a symbol stands for comes after the rest.
LEMMA ReadsExtended ==
  ASSUME Types, NEW n \in Nat, NEW symbol \in [1..n -> Bytes], Reads(symbol)
  PROVE  /\ Extended /\ readSourceErrors' \in 0..1 /\ intact' \in BOOLEAN
         /\ intact' => /\ intact /\ readSourceErrors' = 0 /\ Len(expanded') = Len(expanded) + n
                       /\ \A p \in 1..n : expanded'[Len(expanded) + p] = symbol[p]
<1>1. symbol \in Seq(Bytes)
  OBVIOUS
<1>2. /\ readSourceErrors' \in 0..1 /\ intact' \in BOOLEAN
      /\ intact' => intact /\ readSourceErrors' = 0 /\ expanded' = expanded \o symbol
      /\ expanded' \in Seq(Bytes)
  BY <1>1, ReadsGives
<1>3. expanded \in Seq(Bytes)
  BY DEF Types
<1>4. /\ Len(expanded \o symbol) = Len(expanded) + n /\ Len(expanded) \in Nat
      /\ \A q \in 1..Len(expanded) : (expanded \o symbol)[q] = expanded[q]
      /\ \A p \in 1..n : (expanded \o symbol)[Len(expanded) + p] = symbol[p]
  BY <1>3, Concat
<1>5. ASSUME intact'
      PROVE  /\ intact /\ readSourceErrors' = 0 /\ Len(expanded') = Len(expanded) + n
             /\ \A q \in 1..Len(expanded) : expanded'[q] = expanded[q]
             /\ \A p \in 1..n : expanded'[Len(expanded) + p] = symbol[p]
  BY <1>2, <1>4, <1>5, Zenon
<1>6. intact' => Len(expanded) <= Len(expanded')
  BY <1>4, <1>5
<1>7. QED
  BY <1>2, <1>5, <1>6, Zenon DEF Extended

\* A match stands for bytes of the stream, and each is the one distance before it.
LEMMA CopiedBytes ==
  ASSUME Types, NEW length \in Nat, NEW distance \in Nat \ {0}, distance <= Len(expanded)
  PROVE  Copied(length, distance) \in [1..length -> Bytes]
<1> SUFFICES ASSUME NEW p \in 1..length
             PROVE  expanded[Len(expanded) - distance + 1 + ((p - 1) % distance)] \in Bytes
  BY DEF Copied
<1>1. expanded \in Seq(Bytes) /\ Len(expanded) \in Nat
  BY LenProperties DEF Types
<1>2. (p - 1) % distance \in 0..distance-1
  <2>1. p - 1 \in Nat
    OBVIOUS
  <2>2. QED
    BY <2>1, DivMod
<1>3. Len(expanded) - distance + 1 + ((p - 1) % distance) \in 1..Len(expanded)
  BY <1>1, <1>2
<1>4. QED
  BY <1>1, <1>3, ElementOfSeq

LEMMA CopiedRepeats ==
  ASSUME Types, NEW length \in Nat, NEW distance \in Nat \ {0}, distance <= Len(expanded),
         NEW x, \A q \in 1..Len(expanded) : x[q] = expanded[q],
         \A p \in 1..length : x[Len(expanded) + p] = Copied(length, distance)[p]
  PROVE  \A q \in Len(expanded)+1..Len(expanded)+length : x[q] = x[q - distance]
<1> DEFINE l == Len(expanded)
           from(p) == l - distance + 1 + ((p - 1) % distance)
<1>1. l \in Nat
  BY LenProperties DEF Types
<1>2. \A p \in 1..length : x[l + p] = expanded[from(p)]
  BY DEF Copied
<1> SUFFICES ASSUME NEW q \in l+1..l+length
             PROVE  x[q] = x[q - distance]
  OBVIOUS
<1> DEFINE p == q - l
<1>3. p \in 1..length /\ l + p = q
  BY <1>1
<1>4. \A s \in 1..l : x[s] = expanded[s]
  OBVIOUS
<1> HIDE DEF l, p
<1>5. x[q] = expanded[from(p)]
  BY <1>2, <1>3
<1>6. CASE p <= distance
  <2>1. (p - 1) % distance = p - 1
    <3>1. p - 1 \in 0..distance-1 /\ 0 * distance + (p - 1) = p - 1
      BY <1>3, <1>6
    <3>2. (0 * distance + (p - 1)) % distance = p - 1
      BY <3>1, ModUnique
    <3>3. QED
      BY <3>1, <3>2
  <2>2. from(p) = l - distance + 1 + (p - 1)
    BY <2>1
  <2>3. distance <= l
    BY DEF l
  <2>4. from(p) = q - distance /\ q - distance \in 1..l
    <3>1. l - distance + 1 + (p - 1) = q - distance /\ q - distance \in 1..l
      BY <1>1, <1>3, <1>6, <2>3
    <3>2. QED
      BY <2>2, <3>1, Zenon
  <2>5. QED
    BY <1>4, <1>5, <2>4
<1>7. CASE p > distance
  <2>1. p - distance \in 1..length /\ q - distance = l + (p - distance)
    BY <1>1, <1>3, <1>7
  <2>2. x[q - distance] = expanded[from(p - distance)]
    BY <1>2, <2>1
  <2>3. ((p - distance - 1) + distance) % distance = (p - distance - 1) % distance
    BY <2>1, ModPeriod
  <2>4. (p - distance - 1) + distance = p - 1
    BY <1>3
  <2>5. from(p - distance) = from(p)
    BY <2>3, <2>4
  <2>6. QED
    BY <1>5, <2>2, <2>5
<1>8. QED
  BY <1>3, <1>6, <1>7

-----------------------------------------------------------------------------
(***************************************************************************)
(* The steps.                                                              *)
(***************************************************************************)
LEMMA InitIInv == Init => IInv
<1> SUFFICES ASSUME Init PROVE IInv
  OBVIOUS
<1> USE Sizes
<1>1. WindowTypes /\ BlockTypes
  BY DEF Init, WindowTypes, BlockTypes
<1>2. BufferTypes /\ expanded \in Seq(Bytes)
  <2>1. file \in Seq(Bytes) /\ expanded \in Seq(Bytes)
    BY DEF Init
  <2>2. output_buffer \in [0..output_buffer_size-1 -> Bytes]
    BY DEF Init
  <2>3. QED
    BY <2>1, <2>2 DEF Init, BufferTypes
<1>3. FlagTypes
  BY Zenon DEF Init, FlagTypes
<1>4. Pointing /\ SourceOK /\ Lengthy /\ Exact /\ Matching /\ OkMeansWhole
  BY DEF Init, Pointing, Copying, SourceOK, Lengthy, Pending, Produced, Exact, Matching, OkMeansWhole
<1>5. Window
  <2>1. (0 * dict_size + 0) % dict_size = 0
    BY ModUnique
  <2>2. QED
    BY <2>1 DEF Init, Window, Produced
<1>6. QED
  BY <1>1, <1>2, <1>3, <1>4, <1>5 DEF IInv, Types

\* After the loop has returned nothing is expected of the ring or of a match.
LEMMA Returned ==
  ASSUME returned' # NoReturn, Types', Pointing', SourceOK', Exact', OkMeansWhole'
  PROVE  IInv'
BY DEF IInv, Lengthy, Window, Matching

\* Of nonsense nothing is expected.
LEMMA NonsenseIInv ==
  ASSUME intact' = FALSE, Types', Pointing', returned' = ESP32_TARGZ_OK => readSourceErrors' = 0
  PROVE  IInv'
BY DEF IInv, SourceOK, Lengthy, Exact, Window, Matching, OkMeansWhole

\* A symbol that makes no sense ends the loop.
LEMMA NonsenseFinish ==
  ASSUME IInv, Running, ReadsNonsense, Finish(TINF_DATA_ERROR), UNCHANGED <<use_dict, window, block>>
  PROVE  IInv'
<1>1. readSourceErrors' \in 0..1 /\ intact' = FALSE /\ expanded' \in Seq(Bytes)
  BY NonsenseGives DEF IInv
<1>2. Extended
  BY <1>1 DEF Extended
<1>3. /\ BufferTypes' /\ shortened' \in BOOLEAN
      /\ returned' = ESP32_TARGZ_OK => ~Dry(TINF_DATA_ERROR)
  BY <1>2, Finishes DEF IInv
<1>4. returned' = ESP32_TARGZ_OK => readSourceErrors' = 0
  BY <1>1, <1>3 DEF Dry
<1>5. Pointing'
  BY Zenon DEF IInv, Pointing, Copying, block
<1>6. WindowTypes'
  BY Zenon DEF IInv, Types, WindowTypes, window
<1>7. BlockTypes'
  BY <1>1, Zenon DEF IInv, Types, BlockTypes, block
<1>8. FlagTypes'
  BY <1>1, <1>3, Zenon DEF IInv, Types, FlagTypes, block
<1>9. Types'
  BY <1>1, <1>3, <1>6, <1>7, <1>8 DEF Types
<1>10. QED
  BY <1>1, <1>4, <1>5, <1>9, NonsenseIInv

\* Nothing is put: a header, or the length of a stored block.
LEMMA ReadOnlyIInv ==
  ASSUME IInv, Running, Reads(Nothing), UNCHANGED <<use_dict, window, lzOff, buffer, output, returned>>,
         btype' \in {-1, 0, 1}, curlen' \in Nat, bfinal' \in BOOLEAN,
         curlen = 0 \/ btype # 1,
         btype' # 0 => curlen' = 0
  PROVE  IInv'
<1> USE Sizes
<1>1. Nothing \in [1..0 -> Bytes]
  BY DEF Nothing
<1>2. /\ Extended /\ readSourceErrors' \in 0..1 /\ intact' \in BOOLEAN
      /\ intact' => /\ intact /\ readSourceErrors' = 0 /\ Len(expanded') = Len(expanded) + 0
  BY <1>1, ReadsExtended DEF IInv
<1>3. Types'
  <2>1. WindowTypes' /\ BufferTypes'
    BY Zenon DEF IInv, Types, WindowTypes, BufferTypes, window, buffer, output
  <2>2. BlockTypes'
    BY <1>2 DEF IInv, Types, BlockTypes
  <2>3. FlagTypes'
    BY <1>2, Zenon DEF IInv, Types, FlagTypes, output
  <2>4. QED
    BY <1>2, <2>1, <2>2, <2>3 DEF Types, Extended
<1>4. Pointing' /\ ~Copying'
  BY DEF Pointing, Copying
<1>5. Exact'
  <2>1. Ahead(output_position)
    BY <1>2, AheadNow, Zenon DEF IInv, buffer
  <2>2. output_position' = output_position /\ UNCHANGED output /\ output_position \in Nat
    BY DEF buffer, IInv, Types, BufferTypes
  <2>3. QED
    BY <1>2, <2>1, <2>2, StaysExact DEF IInv, Extended
<1>6. SourceOK'
  BY <1>2 DEF SourceOK
<1>7. Produced' = Produced
  BY DEF Produced, buffer, output
<1>8. Lengthy'
  <2> SUFFICES ASSUME intact', Running' PROVE Len(expanded') = Produced' + Pending'
    BY DEF Lengthy
  <2>1. Len(expanded') = Len(expanded) + 0 /\ Len(expanded) = Produced + Pending
    BY <1>2, Zenon DEF IInv, Lengthy
  <2>2. Pending = 0 /\ Pending' = 0
    BY DEF Pending
  <2>3. Produced \in Nat
    BY DEF IInv, Types, BufferTypes, Produced
  <2>4. QED
    BY <1>7, <2>1, <2>2, <2>3
<1>9. Window'
  <2> SUFFICES ASSUME intact', Running', use_dict'
               PROVE  /\ dict_idx' = Produced' % dict_size
                      /\ \A q \in 1..Produced' :
                           q + dict_size > Produced' => dict_ring'[(q - 1) % dict_size] = expanded'[q]
    BY Zenon DEF Window
  <2>1. /\ dict_idx = Produced % dict_size
        /\ \A q \in 1..Produced :
             q + dict_size > Produced => dict_ring[(q - 1) % dict_size] = expanded[q]
    BY <1>2, Zenon DEF IInv, Window
  <2>2. \A q \in 1..Len(expanded) : expanded'[q] = expanded[q]
    BY <1>2, Zenon DEF Extended
  <2>3. Len(expanded) = Produced + Pending /\ Pending = 0 /\ Produced \in Nat
    BY <1>2 DEF IInv, Lengthy, Pending, Types, BufferTypes, Produced
  <2>4. dict_ring' = dict_ring /\ dict_idx' = dict_idx
    BY DEF window
  <2>5. QED
    BY <1>7, <2>1, <2>2, <2>3, <2>4
<1>10. Matching'
  BY <1>4 DEF Matching
<1>11. OkMeansWhole'
  BY DEF OkMeansWhole
<1>12. QED
  BY <1>3, <1>4, <1>5, <1>6, <1>8, <1>9, <1>10, <1>11 DEF IInv

\* What keeps the invariant when a byte has been put.
LEMMA PutIInv ==
  ASSUME IInv, Running, Extended, NEW value \in Bytes, Put(value), use_dict' = use_dict,
         readSourceErrors' \in 0..1, intact' \in BOOLEAN, intact' => readSourceErrors' = 0,
         bfinal' = bfinal, BlockTypes', Pointing',
         intact' /\ (use_dict \/ ~shortened) =>
           Produced + 1 <= Len(expanded') /\ value = expanded'[Produced + 1],
         intact' => Len(expanded') = Produced + 1 + Pending',
         Running' /\ Produced' = Produced + 1 => Matching'
  PROVE  IInv'
<1>1. /\ BufferTypes' /\ WindowTypes' /\ shortened' \in BOOLEAN /\ Exact'
      /\ returned' \in {NoReturn, ESP32_TARGZ_STREAM_ERROR}
      /\ Running' => Produced' = Produced + 1
  BY Puts DEF IInv
<1>2. Types'
  <2>1. FlagTypes'
    BY <1>1, Zenon DEF IInv, Types, FlagTypes
  <2>2. QED
    BY <1>1, <2>1 DEF Types, Extended
<1>3. Window'
  BY <1>1, PutWindow DEF IInv
<1>4. Lengthy'
  BY <1>1 DEF Lengthy
<1>5. Matching'
  BY <1>1, Zenon DEF Matching
<1>6. SourceOK'
  BY DEF SourceOK
<1>7. OkMeansWhole'
  BY <1>1 DEF OkMeansWhole
<1>8. QED
  BY <1>1, <1>2, <1>3, <1>4, <1>5, <1>6, <1>7 DEF IInv

\* A literal, or a byte of a stored block.
LEMMA LiteralIInv ==
  ASSUME IInv, Running, Fits(1), Reads(Literal), Put(Literal[1]), use_dict' = use_dict,
         bfinal' = bfinal, btype' = btype, lzOff' = lzOff, curlen' \in Nat,
         btype = 0 \/ (btype = 1 /\ curlen = 0 /\ curlen' = 0)
  PROVE  IInv'
<1> USE Sizes
<1>1. Produced \in Nat /\ Produced + 1 <= MaxLength
  BY DEF IInv, Types, BufferTypes, Produced, Fits
<1>2. /\ Literal \in [1..1 -> Bytes] /\ Literal[1] \in Bytes
      /\ intact => Literal[1] = Produced + 1
  <2>1. ASSUME NEW byte \in Bytes
        PROVE  <<byte>> \in [1..1 -> Bytes] /\ <<byte>>[1] = byte
    OBVIOUS
  <2>2. CASE intact
    <3>1. Literal = <<Produced + 1>>
      BY <2>2, Zenon DEF Literal
    <3>2. Produced + 1 \in Bytes
      BY <1>1 DEF Bytes
    <3>3. QED
      BY <2>1, <3>1, <3>2, Zenon
  <2>3. CASE ~intact
    <3>1. Literal = <<0>>
      BY <2>3, Zenon DEF Literal
    <3>2. 0 \in Bytes
      BY DEF Bytes
    <3>3. QED
      BY <2>1, <2>3, <3>1, <3>2, Zenon
  <2>4. QED
    BY <2>2, <2>3, Zenon
<1>3. /\ Extended /\ readSourceErrors' \in 0..1 /\ intact' \in BOOLEAN
      /\ intact' => /\ intact /\ readSourceErrors' = 0 /\ Len(expanded') = Len(expanded) + 1
                    /\ \A p \in 1..1 : expanded'[Len(expanded) + p] = Literal[p]
  BY <1>2, ReadsExtended DEF IInv
<1>4. Pending = 0 /\ Pending' = 0
  BY DEF Pending
<1>5. ASSUME intact'
      PROVE  /\ Len(expanded') = Produced + 1 + Pending' /\ Produced + 1 <= Len(expanded')
             /\ Literal[1] = expanded'[Produced + 1]
  <2>1. Len(expanded) = Produced + Pending
    BY <1>3, <1>5 DEF IInv, Lengthy
  <2>2. Len(expanded) = Produced
    BY <1>1, <1>4, <2>1
  <2>3. QED
    BY <1>1, <1>3, <1>4, <1>5, <2>2
<1>6. BlockTypes' /\ Pointing' /\ ~Copying'
  BY <1>3 DEF BlockTypes, Pointing, Copying, IInv, Types
<1>7. Matching'
  BY <1>6 DEF Matching
<1>8. QED
  BY <1>2, <1>3, <1>5, <1>6, <1>7, PutIInv

\* A byte of a match: it is the one d before it, in the ring, in the buffer or in the file.
LEMMA CopyByteIInv ==
  ASSUME IInv, CopyByte
  PROVE  IInv'
<1> USE Sizes
<1> DEFINE value == IF use_dict THEN dict_ring[lzOff] ELSE gzReadDestByteFS
           P == Produced
<1>1. /\ Running /\ btype = 1 /\ curlen > 0 /\ btype' = btype /\ bfinal' = bfinal
      /\ use_dict' = use_dict /\ readSourceErrors' = readSourceErrors /\ intact' = intact
      /\ expanded' = expanded /\ curlen' = curlen - 1 /\ Put(value)
      /\ lzOff' = IF use_dict THEN NextIndex(lzOff) ELSE lzOff
  BY DEF CopyByte, stream
<1>2. /\ curlen \in Nat \ {0} /\ outlen \in Nat /\ output_position \in 0..output_buffer_size-1
      /\ lzOff \in Int /\ expanded \in Seq(Bytes) /\ file \in Seq(Bytes) /\ Len(file) \in Nat
      /\ output_buffer \in [0..output_buffer_size-1 -> Bytes] /\ Len(expanded) \in Nat
      /\ dict_ring \in [0..dict_size-1 -> Bytes]
  BY <1>1, LenProperties DEF IInv, Types, BlockTypes, BufferTypes, WindowTypes
<1>3. use_dict => lzOff \in 0..dict_size-1
  BY <1>1 DEF IInv, Pointing, Copying
<1>4. ~use_dict => lzOff < 0
  BY <1>1 DEF IInv, Pointing, Copying
<1>5. gzReadDestByteFS = IF output_position + lzOff >= 0 THEN output_buffer[output_position + lzOff]
                         ELSE IF -(output_position + lzOff) - 1 < Len(file)
                         THEN file[Len(file) - (-(output_position + lzOff) - 1)] ELSE 0
  BY DEF gzReadDestByteFS, FromFile
<1>6. value \in Bytes
  <2>1. CASE use_dict
    BY <1>2, <1>3, <2>1
  <2>2. CASE ~use_dict /\ output_position + lzOff >= 0
    <3>1. output_position + lzOff \in 0..output_buffer_size-1
      BY <1>2, <1>4, <2>2
    <3>2. QED
      BY <1>2, <1>5, <2>2, <3>1
  <2>3. CASE ~use_dict /\ ~(output_position + lzOff >= 0)
    <3> DEFINE b == -(output_position + lzOff) - 1
    <3>1. b \in Nat
      BY <1>2, <2>3
    <3>2. value = IF b < Len(file) THEN file[Len(file) - b] ELSE 0
      <4>1. value = gzReadDestByteFS
        BY <2>3, Zenon
      <4>2. gzReadDestByteFS = IF b < Len(file) THEN file[Len(file) - b] ELSE 0
        BY <1>5, <2>3, Zenon
      <4>3. QED
        BY <4>1, <4>2, Zenon
    <3> HIDE DEF b, value
    <3>3. CASE b < Len(file)
      <4>1. Len(file) - b \in 1..Len(file)
        BY <1>2, <3>1, <3>3
      <4>2. file[Len(file) - b] \in Bytes
        BY <1>2, <4>1, ElementOfSeq
      <4>3. QED
        BY <3>2, <3>3, <4>2
    <3>4. CASE ~(b < Len(file))
      <4>1. value = 0
        BY <3>2, <3>4, Zenon
      <4>2. QED
        BY <4>1 DEF Bytes
    <3>5. QED
      BY <3>3, <3>4, Zenon
  <2>4. QED
    BY <2>1, <2>2, <2>3
<1> HIDE DEF value, P
<1>7. P \in Nat /\ P = outlen + output_position
  BY <1>2 DEF P, Produced
\* Where the byte comes from, when the stream is intact.
<1>8. ASSUME intact'
      PROVE  \E d \in 1..dict_size :
               /\ d <= P /\ P + 1 <= Len(expanded) /\ Len(expanded) = P + curlen
               /\ \A q \in P+1..Len(expanded) : expanded[q] = expanded[q - d]
               /\ lzOff = IF use_dict THEN (P - d) % dict_size ELSE -d
  <2>1. intact
    BY <1>1, <1>8
  <2>2. PICK d \in 1..dict_size :
          /\ d <= P
          /\ \A q \in P+1..Len(expanded) : expanded[q] = expanded[q - d]
          /\ lzOff = IF use_dict THEN (P - d) % dict_size ELSE -d
    BY <1>1, <2>1, Zenon DEF IInv, Matching, Copying, P
  <2>3. Len(expanded) = P + curlen
    BY <1>1, <2>1 DEF IInv, Lengthy, Pending, P
  <2>4. P + 1 <= Len(expanded)
    BY <1>2, <1>7, <2>3
  <2>5. QED
    BY <2>2, <2>3, <2>4
<1>9. ASSUME intact', use_dict \/ ~shortened
      PROVE  P + 1 <= Len(expanded') /\ value = expanded'[P + 1]
  <2>1. PICK d \in 1..dict_size :
          /\ d <= P /\ P + 1 <= Len(expanded) /\ Len(expanded) = P + curlen
          /\ \A q \in P+1..Len(expanded) : expanded[q] = expanded[q - d]
          /\ lzOff = IF use_dict THEN (P - d) % dict_size ELSE -d
    BY <1>8, <1>9
  <2>2. expanded[P + 1] = expanded[P - d + 1] /\ P - d + 1 \in 1..P
    <3>1. P + 1 \in P+1..Len(expanded) /\ (P + 1) - d = P - d + 1 /\ P - d + 1 \in 1..P
      BY <1>2, <1>7, <2>1
    <3>2. QED
      BY <2>1, <3>1
  <2>3. CASE use_dict
    <3>1. \A q \in 1..P : q + dict_size > P => dict_ring[(q - 1) % dict_size] = expanded[q]
      BY <1>1, <1>9, <2>3, Zenon DEF IInv, Window, P
    <3>2. (P - d + 1) + dict_size > P /\ (P - d + 1) - 1 = P - d
      BY <1>7
    <3>3. dict_ring[(P - d) % dict_size] = expanded[P - d + 1]
      BY <2>2, <3>1, <3>2
    <3>4. value = dict_ring[(P - d) % dict_size]
      BY <2>1, <2>3 DEF value
    <3>5. QED
      BY <1>1, <2>1, <2>2, <3>3, <3>4
  <2>4. CASE ~use_dict
    <3>1. lzOff = -d /\ value = gzReadDestByteFS
      BY <2>1, <2>4 DEF value
    <3>2. /\ Len(file) = outlen /\ \A q \in 1..outlen : file[q] = expanded[q]
          /\ \A s \in 0..output_position-1 : output_buffer[s] = expanded[outlen + 1 + s]
      BY <1>1, <1>9, <2>4, Zenon DEF IInv, Exact
    <3>3. CASE output_position - d >= 0
      <4>1. output_position - d \in 0..output_position-1 /\ outlen + 1 + (output_position - d) = P - d + 1
        BY <1>2, <1>7, <3>3
      <4>2. value = output_buffer[output_position - d]
        BY <1>2, <1>5, <3>1, <3>3
      <4>3. QED
        BY <1>1, <2>1, <2>2, <3>2, <4>1, <4>2
    <3>4. CASE output_position - d < 0
      <4>1. /\ -(output_position - d) - 1 < outlen /\ ~(output_position - d >= 0)
            /\ outlen - (-(output_position - d) - 1) = P - d + 1
            /\ P - d + 1 \in 1..outlen
        BY <1>2, <1>7, <2>1, <3>4
      <4>2. output_position + lzOff = output_position - d
        BY <1>2, <3>1
      <4>3. value = file[P - d + 1]
        BY <1>5, <3>1, <3>2, <4>1, <4>2
      <4>4. QED
        BY <1>1, <2>1, <2>2, <3>2, <4>1, <4>3
    <3>5. QED
      BY <1>2, <3>3, <3>4
  <2>5. QED
    BY <2>3, <2>4
<1>10. ASSUME Running', Produced' = P + 1
       PROVE  Matching'
  <2> SUFFICES ASSUME intact', Copying'
               PROVE  \E d \in 1..dict_size :
                        /\ d <= Produced'
                        /\ \A q \in Produced'+1..Len(expanded') : expanded'[q] = expanded'[q - d]
                        /\ lzOff' = IF use_dict' THEN (Produced' - d) % dict_size ELSE -d
    BY Zenon DEF Matching
  <2>1. PICK d \in 1..dict_size :
          /\ d <= P /\ P + 1 <= Len(expanded) /\ Len(expanded) = P + curlen
          /\ \A q \in P+1..Len(expanded) : expanded[q] = expanded[q - d]
          /\ lzOff = IF use_dict THEN (P - d) % dict_size ELSE -d
    BY <1>8
  <2>2. P - d \in Nat /\ d <= P + 1 /\ (P - d) + 1 = P + 1 - d
    BY <1>7, <2>1
  <2>3. NextIndex((P - d) % dict_size) = (Produced' - d) % dict_size
    <3>1. NextIndex((P - d) % dict_size) = ((P - d) + 1) % dict_size
      BY <2>2, NextPlace
    <3>2. Produced' - d = (P - d) + 1
      BY <1>7, <1>10
    <3>3. QED
      BY <3>1, <3>2, Zenon
  <2>4. lzOff' = IF use_dict' THEN (Produced' - d) % dict_size ELSE -d
    BY <1>1, <2>1, <2>3
  <2>5. \A q \in Produced'+1..Len(expanded') : expanded'[q] = expanded'[q - d]
    BY <1>1, <1>2, <1>7, <1>10, <2>1
  <2>6. d <= Produced'
    BY <1>7, <1>10, <2>2
  <2>7. QED
    BY <2>4, <2>5, <2>6
<1>11. BlockTypes' /\ Pointing'
  <2>1. lzOff' \in Int /\ (use_dict => lzOff' \in 0..dict_size-1) /\ (~use_dict => lzOff' < 0)
    BY <1>1, <1>2, <1>3, <1>4 DEF NextIndex
  <2>2. BlockTypes'
    BY <1>1, <1>2, <2>1 DEF BlockTypes, IInv, Types
  <2>3. Pointing'
    BY <1>1, <2>1 DEF Pointing
  <2>4. QED
    BY <2>2, <2>3
<1>12. ASSUME intact' PROVE Len(expanded') = P + 1 + Pending'
  <2>1. Len(expanded) = P + curlen
    BY <1>8, <1>12
  <2>2. Pending' = curlen - 1
    BY <1>1 DEF Pending
  <2>3. QED
    BY <1>1, <1>2, <1>7, <2>1, <2>2
<1>13. Extended /\ readSourceErrors' \in 0..1 /\ intact' \in BOOLEAN /\ (intact' => readSourceErrors' = 0)
  <2>1. Extended
    BY <1>1, <1>2 DEF Extended
  <2>2. intact' \in BOOLEAN /\ readSourceErrors' \in 0..1
    BY <1>1, Zenon DEF IInv, Types, FlagTypes, BlockTypes
  <2>3. QED
    BY <1>1, <2>1, <2>2, Zenon DEF IInv, SourceOK
<1>14. QED
  BY <1>1, <1>6, <1>9, <1>10, <1>11, <1>12, <1>13, PutIInv DEF P

\* A match: what it stands for is known, and lzOff points at its first byte.
LEMMA MatchIInv ==
  ASSUME IInv, NEW length \in CopyLengths, NEW distance \in Distances,
         MatchFound(length, distance)
  PROVE  IInv'
<1> USE Sizes
<1>1. /\ Running /\ btype = 1 /\ curlen = 0 /\ use_dict' = use_dict /\ UNCHANGED window
      /\ btype' = btype /\ bfinal' = bfinal
  BY DEF MatchFound
<1>2. length \in Nat \ {0} /\ distance \in Nat \ {0}
  BY SymbolsAssumption
<1>3. /\ outlen \in Nat /\ output_position \in Nat /\ dict_idx \in 0..dict_size-1
      /\ expanded \in Seq(Bytes) /\ Len(expanded) \in Nat
      /\ Produced \in Nat /\ lzOff \in Int
  BY LenProperties DEF IInv, Types, WindowTypes, BlockTypes, BufferTypes, Produced
<1>4. WindowTypes'
  BY <1>1, Zenon DEF IInv, Types, WindowTypes, window
<1>5. CASE /\ use_dict /\ distance > dict_size
           /\ UNCHANGED <<curlen, lzOff>> /\ Finish(TINF_DATA_ERROR) /\ ReadsNonsense
  <2>1. UNCHANGED <<use_dict, window, block>>
    BY <1>1, <1>5 DEF block
  <2>2. QED
    BY <1>1, <1>5, <2>1, NonsenseFinish
<1>6. ASSUME ~(use_dict /\ distance > dict_size), curlen' = length,
             lzOff' = IF use_dict THEN Wrapped(dict_idx - distance) ELSE -distance,
             UNCHANGED <<buffer, output, returned>>
      PROVE  IInv'
  <2>1. /\ lzOff' \in Int
        /\ use_dict => lzOff' = IF dict_idx - distance < 0 THEN dict_idx - distance + dict_size
                                ELSE dict_idx - distance
        /\ use_dict => lzOff' \in 0..dict_size-1
        /\ ~use_dict => lzOff' = -distance /\ lzOff' < 0
    BY <1>2, <1>3, <1>6 DEF Wrapped
  <2>2. Pointing'
    BY <1>1, <2>1 DEF Pointing
  <2>3. BufferTypes'
    BY <1>6, Zenon DEF IInv, Types, BufferTypes, buffer, output
  <2>4. ASSUME readSourceErrors' \in 0..1, intact' \in BOOLEAN, expanded' \in Seq(Bytes)
        PROVE  Types'
    <3>1. BlockTypes'
      BY <1>1, <1>2, <1>6, <2>1, <2>4 DEF BlockTypes
    <3>2. FlagTypes'
      BY <1>1, <1>6, <2>4, Zenon DEF IInv, Types, FlagTypes, output
    <3>3. QED
      BY <1>4, <2>3, <2>4, <3>1, <3>2 DEF Types
  <2>5. returned' = NoReturn
    BY <1>1, <1>6
  <2>6. CASE ReadsNonsense
    <3>1. readSourceErrors' \in 0..1 /\ intact' = FALSE /\ expanded' \in Seq(Bytes)
      BY <2>6, NonsenseGives DEF IInv
    <3>2. Types'
      BY <2>4, <3>1, Zenon
    <3>3. returned' # ESP32_TARGZ_OK
      BY <2>5
    <3>4. QED
      BY <2>2, <3>1, <3>2, <3>3, NonsenseIInv, Zenon
  <2>7. CASE /\ intact /\ distance <= Produced /\ distance <= dict_size
             /\ Reads(Copied(length, distance))
    <3>1. Len(expanded) = Produced
      BY <1>1, <1>3, <2>7 DEF IInv, Lengthy, Pending
    <3>2. Copied(length, distance) \in [1..length -> Bytes]
      BY <1>2, <2>7, <3>1, CopiedBytes DEF IInv
    <3>3. /\ Extended /\ readSourceErrors' \in 0..1 /\ intact' \in BOOLEAN
          /\ intact' => /\ readSourceErrors' = 0 /\ Len(expanded') = Len(expanded) + length
                        /\ \A p \in 1..length :
                             expanded'[Len(expanded) + p] = Copied(length, distance)[p]
      <4>1. length \in Nat
        BY <1>2
      <4>2. QED
        BY <2>7, <3>2, <4>1, ReadsExtended, Zenon DEF IInv
    <3>4. Types'
      BY <2>4, <3>3, Zenon DEF Extended
    <3>5. Exact'
      <4>1. output_position' = output_position /\ UNCHANGED output /\ output_buffer' = output_buffer
        BY <1>6 DEF buffer
      <4>2. Ahead(output_position)
        BY <3>3, <4>1, AheadNow, Zenon DEF IInv
      <4>3. QED
        BY <1>3, <3>3, <4>1, <4>2, StaysExact DEF IInv, Extended
    <3>6. Produced' = Produced
      BY <1>6 DEF Produced, buffer, output
    <3>7. Lengthy'
      <4>1. Pending' = length
        BY <1>1, <1>6 DEF Pending
      <4>2. QED
        BY <3>1, <3>3, <3>6, <4>1 DEF Lengthy
    <3>8. ASSUME intact', use_dict
          PROVE  /\ dict_idx = Produced % dict_size
                 /\ \A q \in 1..Produced :
                      q + dict_size > Produced => dict_ring[(q - 1) % dict_size] = expanded[q]
      BY <1>1, <2>7, <3>8, Zenon DEF IInv, Window
    <3>9. Window'
      <4> SUFFICES ASSUME intact', Running', use_dict'
                   PROVE  /\ dict_idx' = Produced' % dict_size
                          /\ \A q \in 1..Produced' :
                               q + dict_size > Produced' => dict_ring'[(q - 1) % dict_size] = expanded'[q]
        BY Zenon DEF Window
      <4>1. dict_ring' = dict_ring /\ dict_idx' = dict_idx
        BY <1>1 DEF window
      <4>2. \A q \in 1..Len(expanded) : expanded'[q] = expanded[q]
        BY <3>3, Zenon DEF Extended
      <4>3. QED
        BY <1>1, <1>3, <3>1, <3>6, <3>8, <4>1, <4>2
    <3>10. Matching'
      <4> SUFFICES ASSUME intact'
                   PROVE  \E d \in 1..dict_size :
                            /\ d <= Produced'
                            /\ \A q \in Produced'+1..Len(expanded') : expanded'[q] = expanded'[q - d]
                            /\ lzOff' = IF use_dict' THEN (Produced' - d) % dict_size ELSE -d
        BY Zenon DEF Matching
      <4>1. \A q \in 1..Len(expanded) : expanded'[q] = expanded[q]
        BY <3>3, Zenon DEF Extended
      <4>2. \A q \in Len(expanded)+1..Len(expanded)+length : expanded'[q] = expanded'[q - distance]
        <5>1. \A p \in 1..length : expanded'[Len(expanded) + p] = Copied(length, distance)[p]
          BY <3>3, Zenon
        <5>2. length \in Nat /\ distance <= Len(expanded)
          BY <1>2, <2>7, <3>1
        <5>3. QED
          BY <1>2, <4>1, <5>1, <5>2, CopiedRepeats DEF IInv
      <4>3. \A q \in Produced'+1..Len(expanded') : expanded'[q] = expanded'[q - distance]
        BY <1>3, <3>1, <3>3, <3>6, <4>2
      <4>4. distance \in 1..dict_size /\ distance <= Produced'
        BY <1>2, <2>7, <3>6
      <4>5. lzOff' = IF use_dict' THEN (Produced' - distance) % dict_size ELSE -distance
        <5>1. CASE use_dict
          <6>1. (Produced - distance) % dict_size =
                  IF (Produced % dict_size) - distance < 0
                  THEN (Produced % dict_size) - distance + dict_size
                  ELSE (Produced % dict_size) - distance
            BY <1>3, <2>7, <4>4, <3>6, ModBack
          <6>2. QED
            BY <1>1, <2>1, <3>6, <3>8, <5>1, <6>1
        <5>2. CASE ~use_dict
          BY <1>1, <2>1, <5>2
        <5>3. QED
          BY <5>1, <5>2
      <4>6. QED
        BY <4>3, <4>4, <4>5
    <3>11. SourceOK' /\ OkMeansWhole'
      BY <2>5, <3>3 DEF SourceOK, OkMeansWhole
    <3>12. QED
      BY <2>2, <3>4, <3>5, <3>7, <3>9, <3>10, <3>11 DEF IInv
  <2>8. QED
    BY <2>6, <2>7, Zenon DEF MatchFound
<1>7. QED
  <2>1. CASE use_dict /\ distance > dict_size
    <3>1. ReadsNonsense
      BY <2>1, <1>2 DEF MatchFound
    <3>2. QED
      BY <1>5, <2>1, <3>1, Zenon DEF MatchFound
  <2>2. CASE ~(use_dict /\ distance > dict_size)
    BY <1>6, <2>2, Zenon DEF MatchFound
  <2>3. QED
    BY <2>1, <2>2

\* A block ends; of the last one, what is left over is written and its checksum compared.
LEMMA BlockEndsIInv ==
  ASSUME IInv, BlockEnds
  PROVE  IInv'
<1> USE Sizes
<1>1. /\ Running /\ btype \in {0, 1} /\ curlen = 1 - btype /\ curlen' = 0
      /\ UNCHANGED <<use_dict, window, bfinal, lzOff>>
  BY Zenon DEF BlockEnds
<1>2. curlen = 0 \/ btype # 1
  BY <1>1
<1>3. CASE ~bfinal /\ Reads(Nothing) /\ btype' = -1 /\ UNCHANGED <<buffer, output, returned>>
  <2>1. UNCHANGED <<use_dict, window, lzOff, buffer, output, returned>> /\ bfinal' \in BOOLEAN
    BY <1>1, <1>3, Zenon DEF IInv, Types, FlagTypes
  <2>2. btype' \in {-1, 0, 1} /\ curlen' \in Nat /\ curlen' = 0
    BY <1>1, <1>3
  <2>3. QED
    BY <1>1, <1>2, <1>3, <2>1, <2>2, ReadOnlyIInv
<1>4. ASSUME bfinal, btype' = btype, NEW res, Finish(res),
             Extended, readSourceErrors' \in 0..1, intact' \in BOOLEAN,
             intact' => Len(expanded') = Len(expanded),
             ~Dry(res) /\ readSourceErrors' > 0 => intact'
      PROVE  IInv'
  <2>1. /\ BufferTypes' /\ shortened' \in BOOLEAN /\ Exact'
        /\ returned' \in {ESP32_TARGZ_OK, ESP32_TARGZ_STREAM_ERROR}
        /\ returned' = ESP32_TARGZ_OK =>
             /\ ~Dry(res) /\ output_position' = 0
             /\ intact' /\ ~shortened' => outlen' = Produced
    BY <1>1, <1>4, Finishes DEF IInv
  <2>2. WindowTypes' /\ bfinal' = bfinal
    BY <1>1, Zenon DEF IInv, Types, WindowTypes, window
  <2>3. BlockTypes' /\ Pointing'
    BY <1>1, <1>4 DEF IInv, Types, BlockTypes, Pointing, Copying
  <2>4. FlagTypes'
    BY <1>1, <1>4, <2>1, Zenon DEF IInv, Types, FlagTypes
  <2>5. Types'
    BY <1>4, <2>1, <2>2, <2>3, <2>4 DEF Types, Extended
  <2>6. returned' # NoReturn
    BY <2>1
  <2>7. SourceOK'
    BY <2>6 DEF SourceOK
  <2>8. ASSUME returned' = ESP32_TARGZ_OK, readSourceErrors' > 0
        PROVE  intact'
    BY <1>4, <2>1, <2>8, Zenon
  <2>9. ASSUME returned' = ESP32_TARGZ_OK, intact', ~shortened'
        PROVE  file' = expanded'
    <3>1. Len(file') = outlen' /\ \A q \in 1..outlen' : file'[q] = expanded'[q]
      BY <2>1, <2>9, Zenon DEF Exact
    <3>2. Len(expanded) = Produced + Pending
      BY <1>1, <1>4, <2>9, Zenon DEF IInv, Lengthy, Extended
    <3>3. Pending = 0 /\ Produced \in Nat
      BY <1>1 DEF Pending, IInv, Types, BufferTypes, Produced
    <3>4. Len(expanded') = Produced
      BY <1>4, <2>9, <3>2, <3>3
    <3>5. outlen' = Produced
      BY <2>1, <2>9, Zenon
    <3>6. file' \in Seq(Bytes) /\ expanded' \in Seq(Bytes)
      BY <1>4, <2>1, Zenon DEF BufferTypes, Extended
    <3>7. QED
      BY <3>1, <3>4, <3>5, <3>6, SeqEqual
  <2>10. OkMeansWhole'
    BY <1>4, <2>2, <2>8, <2>9, Zenon DEF OkMeansWhole
  <2>11. QED
    BY <2>1, <2>3, <2>5, <2>6, <2>7, <2>10, Returned
<1>5. CASE bfinal /\ btype' = btype /\ Checksum
  <2>1. PICK res : res = (IF intact' THEN TINF_DONE ELSE TINF_CHKSUM_ERROR) /\ Finish(res)
    BY <1>5, Zenon DEF Checksum
  <2>2. /\ Extended /\ readSourceErrors' \in 0..1 /\ intact' \in BOOLEAN
        /\ intact' => Len(expanded') = Len(expanded)
    <3>1. CASE Reads(Nothing)
      <4>1. Nothing \in [1..0 -> Bytes]
        BY DEF Nothing
      <4>2. /\ Extended /\ readSourceErrors' \in 0..1 /\ intact' \in BOOLEAN
            /\ intact' => Len(expanded') = Len(expanded) + 0
        BY <3>1, <4>1, ReadsExtended DEF IInv
      <4>3. Len(expanded) \in Nat
        BY DEF IInv, Types
      <4>4. QED
        BY <4>2, <4>3
    <3>2. CASE ReadsNonsense
      <4>1. readSourceErrors' \in 0..1 /\ intact' = FALSE /\ expanded' \in Seq(Bytes)
        BY <3>2, NonsenseGives DEF IInv
      <4>2. QED
        BY <4>1, Zenon DEF Extended
    <3>3. QED
      BY <1>5, <3>1, <3>2, Zenon DEF Checksum
  <2>3. ~Dry(res) /\ readSourceErrors' > 0 => intact'
    <3>1. ~intact' => res # TINF_DONE
      BY <2>1
    <3>2. QED
      BY <3>1, Zenon DEF Dry
  <2>4. QED
    BY <1>4, <1>5, <2>1, <2>2, <2>3, Zenon
<1>6. CASE bfinal /\ btype' = btype /\ SizeUnread /\ Finish(TINF_DONE)
  <2>1. intact /\ readSourceErrors' = 1 /\ intact' = intact /\ expanded' = expanded
    BY <1>6, Zenon DEF SizeUnread
  <2>2. Extended /\ readSourceErrors' \in 0..1 /\ intact' \in BOOLEAN
        /\ Len(expanded') = Len(expanded) /\ intact'
    <3>1. expanded \in Seq(Bytes) /\ Len(expanded) \in Nat /\ intact \in BOOLEAN
      BY DEF IInv, Types, FlagTypes
    <3>2. QED
      BY <2>1, <3>1 DEF Extended
  <2>3. QED
    BY <1>4, <1>6, <2>2, Zenon
<1>7. QED
  BY <1>3, <1>5, <1>6, Zenon DEF BlockEnds

LEMMA StutterIInv == IInv /\ UNCHANGED vars => IInv'
<1> SUFFICES ASSUME IInv, UNCHANGED vars PROVE IInv'
  OBVIOUS
<1> USE DEF vars, window, block, buffer, output, stream
<1>1. Types'
  BY Zenon DEF IInv, Types, WindowTypes, BlockTypes, BufferTypes, FlagTypes
<1>2. Pointing' /\ SourceOK'
  BY Zenon DEF IInv, Pointing, Copying, SourceOK
<1>3. Produced' = Produced /\ Pending' = Pending
  BY Zenon DEF Produced, Pending
<1>4. Lengthy' /\ Exact'
  BY <1>3, Zenon DEF IInv, Lengthy, Exact
<1>5. Window' /\ Matching'
  BY <1>3, Zenon DEF IInv, Window, Matching, Copying
<1>6. OkMeansWhole'
  BY Zenon DEF IInv, OkMeansWhole
<1>7. QED
  BY <1>1, <1>2, <1>4, <1>5, <1>6 DEF IInv

LEMMA NextIInv == IInv /\ [Next]_vars => IInv'
<1> SUFFICES ASSUME IInv, [Next]_vars PROVE IInv'
  OBVIOUS
<1> USE Sizes
<1>1. CASE BadBlock
  BY <1>1, NonsenseFinish DEF BadBlock
<1>2. CASE BadSymbol
  BY <1>2, NonsenseFinish DEF BadSymbol
<1>3. CASE StoredByte
  <2>1. /\ Running /\ Fits(1) /\ Reads(Literal) /\ Put(Literal[1]) /\ use_dict' = use_dict
        /\ bfinal' = bfinal /\ btype' = btype /\ lzOff' = lzOff /\ btype = 0 /\ curlen' \in Nat
    BY <1>3 DEF StoredByte, IInv, Types, BlockTypes
  <2>2. QED
    BY <2>1, LiteralIInv
<1>4. CASE PutLiteral
  <2>1. /\ Running /\ Fits(1) /\ Reads(Literal) /\ Put(Literal[1]) /\ use_dict' = use_dict
        /\ bfinal' = bfinal /\ btype' = btype /\ lzOff' = lzOff /\ btype = 1 /\ curlen = 0
        /\ curlen' = 0 /\ curlen' \in Nat
    BY <1>4 DEF PutLiteral, block
  <2>2. QED
    BY <2>1, LiteralIInv
<1>5. CASE CopyByte
  BY <1>5, CopyByteIInv
<1>6. CASE BlockEnds
  BY <1>6, BlockEndsIInv
<1>7. ASSUME NEW type \in {0, 1}, NEW final \in BOOLEAN, BlockHeader(type, final)
      PROVE  IInv'
  <2>1. /\ Running /\ btype = -1 /\ Reads(Nothing) /\ btype' = type /\ bfinal' = final
        /\ curlen' = curlen /\ UNCHANGED <<use_dict, window, lzOff, buffer, output, returned>>
    BY <1>7, Zenon DEF BlockHeader
  <2>2. curlen = 0
    BY <2>1, Zenon DEF IInv, Pointing
  <2>3. curlen' \in Nat /\ btype' \in {-1, 0, 1}
    BY <2>1, <2>2
  <2>4. bfinal' \in BOOLEAN
    BY <2>1, Zenon
  <2>5. QED
    BY <2>1, <2>2, <2>3, <2>4, ReadOnlyIInv
<1>8. ASSUME NEW length \in 0..MaxLength, StoredLength(length)
      PROVE  IInv'
  <2>1. /\ Running /\ btype = 0 /\ Reads(Nothing) /\ btype' = btype /\ bfinal' = bfinal
        /\ curlen' = length + 1 /\ UNCHANGED <<use_dict, window, lzOff, buffer, output, returned>>
    BY <1>8, Zenon DEF StoredLength
  <2>2. curlen' \in Nat /\ btype' \in {-1, 0, 1} /\ btype # 1 /\ btype' = 0
    BY <2>1
  <2>3. bfinal' \in BOOLEAN
    BY <2>1, Zenon DEF IInv, Types, FlagTypes
  <2>4. QED
    BY <2>1, <2>2, <2>3, ReadOnlyIInv
<1>9. ASSUME NEW length \in CopyLengths, NEW distance \in Distances, MatchFound(length, distance)
      PROVE  IInv'
  BY <1>9, MatchIInv
<1>10. CASE UNCHANGED vars
  BY <1>10, StutterIInv
<1>11. QED
  BY <1>1, <1>2, <1>3, <1>4, <1>5, <1>6, <1>7, <1>8, <1>9, <1>10 DEF Next

LEMMA Inductive == Spec => []IInv
<1>1. QED
  BY InitIInv, NextIInv, PTL DEF Spec

-----------------------------------------------------------------------------
(***************************************************************************)
(* The theorems.                                                           *)
(***************************************************************************)
\* Every variable keeps to its values; no byte is put beyond the output buffer or the ring.
THEOREM TypeCorrect == Spec => []InTypeOK
<1>1. IInv => InTypeOK
  <2> SUFFICES ASSUME IInv PROVE InTypeOK
    OBVIOUS
  <2>1. Types
    BY DEF IInv
  <2>2. QED
    BY <2>1, Zenon DEF Types, WindowTypes, BlockTypes, BufferTypes, FlagTypes, Bytes, InTypeOK
<1>2. QED
  BY <1>1, Inductive, PTL

\* What has been expanded is, byte for byte, what the symbols stand for: gzReadDestByteFS finds
\* the byte of a match in the buffer or in the file, and the ring keeps it, for every size of
\* buffer and ring and every match.
THEOREM OutputCorrect == Spec => []OutputExact
<1>1. IInv => OutputExact
  <2> SUFFICES ASSUME IInv, intact, ~shortened
               PROVE  /\ Len(Output) <= Len(expanded)
                      /\ Output = SubSeq(expanded, 1, Len(Output))
                      /\ Running /\ btype = 1 => Len(expanded) = Len(Output) + curlen
    BY Zenon DEF OutputExact
  <2> USE Sizes
  <2> DEFINE e == [p \in 1..output_position |-> output_buffer[p - 1]]
  <2>1. /\ output_position \in 0..output_buffer_size /\ outlen \in Nat /\ file \in Seq(Bytes)
        /\ expanded \in Seq(Bytes) /\ output_buffer \in [0..output_buffer_size-1 -> Bytes]
        /\ output_position \in Nat /\ Len(expanded) \in Nat
    BY LenProperties DEF IInv, Types, BufferTypes
  <2>2. e \in [1..output_position -> Bytes] /\ \A p \in 1..output_position : e[p] = output_buffer[p - 1]
    BY <2>1
  <2>3. Output = file \o e
    BY DEF Output
  <2> HIDE DEF e
  <2>4. /\ Output \in Seq(Bytes) /\ Len(Output) = Len(file) + output_position
        /\ \A q \in 1..Len(file) : Output[q] = file[q]
        /\ \A p \in 1..output_position : Output[Len(file) + p] = e[p]
    <3>1. output_position \in Nat /\ file \in Seq(Bytes) /\ e \in [1..output_position -> Bytes]
      BY <2>1, <2>2, Zenon
    <3>2. /\ file \o e \in Seq(Bytes) /\ Len(file \o e) = Len(file) + output_position
          /\ \A q \in 1..Len(file) : (file \o e)[q] = file[q]
          /\ \A p \in 1..output_position : (file \o e)[Len(file) + p] = e[p]
      BY <3>1, Concat
    <3>3. QED
      BY <2>3, <3>2, Zenon
  <2>5. /\ Len(file) = outlen /\ Produced <= Len(expanded)
        /\ \A q \in 1..outlen : file[q] = expanded[q]
        /\ \A s \in 0..output_position-1 : output_buffer[s] = expanded[outlen + 1 + s]
    BY Zenon DEF IInv, Exact
  <2>6. Len(Output) = Produced /\ Len(Output) \in Nat
    BY <2>1, <2>4, <2>5 DEF Produced
  <2>7. ASSUME NEW q \in 1..Len(Output)
        PROVE  Output[q] = expanded[q]
    <3>1. CASE q <= outlen
      BY <2>1, <2>4, <2>5, <3>1
    <3>2. CASE q > outlen
      <4>1. /\ q - outlen \in 1..output_position /\ outlen + (q - outlen) = q
            /\ q - outlen - 1 \in 0..output_position-1 /\ outlen + 1 + (q - outlen - 1) = q
        BY <2>1, <2>4, <2>5, <3>2
      <4>2. Output[q] = e[q - outlen]
        BY <2>4, <2>5, <4>1
      <4>3. QED
        BY <2>2, <2>5, <4>1, <4>2
    <3>3. QED
      BY <2>1, <2>6, <3>1, <3>2
  <2>8. Output = SubSeq(expanded, 1, Len(Output))
    <3> DEFINE n == Len(Output)
    <3>1. n \in Nat /\ n <= Len(expanded)
      BY <2>5, <2>6
    <3>2. /\ SubSeq(expanded, 1, n) \in Seq(Bytes) /\ Len(SubSeq(expanded, 1, n)) = n
          /\ \A q \in 1..n : SubSeq(expanded, 1, n)[q] = expanded[q]
      BY <2>1, <3>1, SubSeqProperties
    <3>3. QED
      BY <2>4, <2>7, <3>2, SeqEqual
  <2>9. Running /\ btype = 1 => Len(expanded) = Len(Output) + curlen
    BY <2>6 DEF IInv, Lengthy, Pending
  <2>10. QED
    BY <2>5, <2>6, <2>8, <2>9
<1>2. QED
  BY <1>1, Inductive, PTL

\* ESP32_TARGZ_OK means that the source gave every byte, or all but the size that ends a valid
\* stream; and of a valid stream, that the last block has ended and its last byte is in the file.
THEOREM OkWhole == Spec => []OkMeansWhole
<1>1. IInv => OkMeansWhole
  BY DEF IInv
<1>2. QED
  BY <1>1, Inductive, PTL
=============================================================================
