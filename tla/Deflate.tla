------------------------------- MODULE Deflate -------------------------------
(***************************************************************************)
(* Compression: uzlib_compress (src/src/uzlib/genlz77.c) over the bit      *)
(* writer and the fixed Huffman codes of src/src/uzlib/defl_static.c,      *)
(* between the header and the footer of LZPacker                           *)
(* (src/src/libpacker/LibPacker.cpp). The input arrives in chunks, each a  *)
(* block of the .gz member, and each in the same input buffer, over what   *)
(* is left of the one before: a hash bucket may hold a position of a       *)
(* buffer that is gone. One chunk is also what LZPacker::compress makes of *)
(* a buffer.                                                               *)
(*                                                                         *)
(* The growth of outbuf, 64 bytes at a time, is left out.                  *)
(***************************************************************************)
EXTENDS BitSequences

CONSTANTS
  hash_bits,  \* of the hash table, which has one bucket per hash
  dict_size,  \* the farthest match, and the size of the reader's ring
  Inputs      \* what may be compressed: sequences of chunks (bound)

Byte == 0..255
ASSUME HashAssumption == hash_bits \in 1..24
ASSUME DictAssumption == dict_size \in 1..32768
Concat(seqs) ==
  LET upTo[i \in 0..Len(seqs)] == IF i = 0 THEN <<>> ELSE upTo[i - 1] \o seqs[i]
  IN  upTo[Len(seqs)]

\* A size is 32 bits wide.
ASSUME InputsAssumption ==
  \A input \in Inputs : /\ input \in Seq(Seq(Byte) \ {<<>>}) /\ input # <<>>
                        /\ Len(Concat(input)) \div 65536 < 65536

-----------------------------------------------------------------------------
(***************************************************************************)
(* uzlib_crc32 (src/src/uzlib/crc32.c), of a byte: one half after the other. *)
(***************************************************************************)
\* A word, of its two halves.
Crc32(high, low) == Bits(low, 16) \o Bits(high, 16)
tinf_crc32tab == <<
  Crc32(0, 0), Crc32(\h1db7, \h1064), Crc32(\h3b6e, \h20c8), Crc32(\h26d9, \h30ac),
  Crc32(\h76dc, \h4190), Crc32(\h6b6b, \h51f4), Crc32(\h4db2, \h6158), Crc32(\h5005, \h713c),
  Crc32(\hedb8, \h8320), Crc32(\hf00f, \h9344), Crc32(\hd6d6, \ha3e8), Crc32(\hcb61, \hb38c),
  Crc32(\h9b64, \hc2b0), Crc32(\h86d3, \hd2d4), Crc32(\ha00a, \he278), Crc32(\hbdbd, \hf21c) >>
\* tinf_crc32tab[crc & 0x0f] ^ (crc >> 4)
CrcNibble(crc) ==
  LET word == tinf_crc32tab[1 + crc[1] + 2 * crc[2] + 4 * crc[3] + 8 * crc[4]]
  IN  [i \in 1..32 |-> IF i > 28 THEN word[i] ELSE (word[i] + crc[i + 4]) % 2]
CrcByte(crc, byte) ==
  CrcNibble(CrcNibble([i \in 1..32 |-> IF i > 8 THEN crc[i] ELSE (crc[i] + Bits(byte, 8)[i]) % 2]))
NotBits(bits) == [i \in DOMAIN bits |-> 1 - bits[i]]
CrcStart == [i \in 1..32 |-> 1]

-----------------------------------------------------------------------------
\* lencodes, distcodes: the extra bits, the least and the greatest value of each code.
lencodes == <<
  <<0, 3, 3>>, <<0, 4, 4>>, <<0, 5, 5>>, <<0, 6, 6>>, <<0, 7, 7>>, <<0, 8, 8>>, <<0, 9, 9>>,
  <<0, 10, 10>>, <<1, 11, 12>>, <<1, 13, 14>>, <<1, 15, 16>>, <<1, 17, 18>>, <<2, 19, 22>>,
  <<2, 23, 26>>, <<2, 27, 30>>, <<2, 31, 34>>, <<3, 35, 42>>, <<3, 43, 50>>, <<3, 51, 58>>,
  <<3, 59, 66>>, <<4, 67, 82>>, <<4, 83, 98>>, <<4, 99, 114>>, <<4, 115, 130>>, <<5, 131, 162>>,
  <<5, 163, 194>>, <<5, 195, 226>>, <<5, 227, 257>>, <<0, 258, 258>> >>
distcodes == <<
  <<0, 1, 1>>, <<0, 2, 2>>, <<0, 3, 3>>, <<0, 4, 4>>, <<1, 5, 6>>, <<1, 7, 8>>, <<2, 9, 12>>,
  <<2, 13, 16>>, <<3, 17, 24>>, <<3, 25, 32>>, <<4, 33, 48>>, <<4, 49, 64>>, <<5, 65, 96>>,
  <<5, 97, 128>>, <<6, 129, 192>>, <<6, 193, 256>>, <<7, 257, 384>>, <<7, 385, 512>>,
  <<8, 513, 768>>, <<8, 769, 1024>>, <<9, 1025, 1536>>, <<9, 1537, 2048>>, <<10, 2049, 3072>>,
  <<10, 3073, 4096>>, <<11, 4097, 6144>>, <<11, 6145, 8192>>, <<12, 8193, 12288>>,
  <<12, 12289, 16384>>, <<13, 16385, 24576>>, <<13, 24577, 32768>> >>
CodeOf(codes, value) == CHOOSE k \in DOMAIN codes : codes[k][2] <= value /\ value <= codes[k][3]
ExtraBits(codes, value) ==
  LET code == codes[CodeOf(codes, value)] IN Bits(value - code[2], code[1])

zlib_literal(c) == IF c <= 143 THEN Code(48 + c, 8) ELSE Code(400 + c - 144, 9)
LengthCode(len) ==
  LET lcode == 256 + CodeOf(lencodes, len)
  IN  IF lcode <= 279 THEN Code(lcode - 256, 7) ELSE Code(192 + lcode - 280, 8)
\* A match of at most 258 bytes, which goes out in one piece.
zlib_match(distance, len) ==
  LengthCode(len) \o ExtraBits(lencodes, len)
    \o Code(CodeOf(distcodes, distance) - 1, 5) \o ExtraBits(distcodes, distance)

zlib_start_block(final) == Bits(IF final THEN 1 ELSE 0, 1) \o Bits(1, 2)
\* After the last block, and after any other: its end, the header of an empty stored
\* block, and zeros up to a byte.
zlib_finish_block == Bits(0, 7) \o Bits(0, 7)
zlib_empty_block == Bits(0, 7) \o Bits(0, 3) \o Bits(0, 7)
EmptyBlockLength == <<0, 0, 255, 255>>

\* lzHeader, lzFooter
lzHeader == <<31, 139, 8, 0, 0, 0, 0, 0, 4, 3>>
Word(bits) == [i \in 1..4 |-> Value(SubSeq(bits, 8 * i - 7, 8 * i))]
lzFooter(outlen, crc) == Word(crc) \o Word(Bits(outlen, 32))

-----------------------------------------------------------------------------
VARIABLES
  input,        \* the chunks
  chunk,        \* the one being compressed, 0: none yet
  inputBuffer,  \* it, and what is left of those before
  src,          \* bytes of it compressed
  hash_table,   \* position in inputBuffer of the last three bytes with a hash
  outbits,      \* bits that are not a byte yet
  member,       \* the .gz member written so far
  checksum,
  summed,       \* bytes of the chunk that are in it
  written       \* the member is whole

writerVars ==
  <<input, chunk, inputBuffer, src, hash_table, outbits, member, checksum, summed, written>>

Expected == Concat(input)
slen == IF chunk = 0 THEN -1 ELSE Len(input[chunk])
IsLast == chunk = Len(input)
BlockOpen == ~written /\ src <= slen /\ summed = slen

WriterInit ==
  /\ input \in Inputs /\ chunk = 0 /\ inputBuffer = <<>> /\ src = 0 /\ hash_table = <<>>
  /\ outbits = <<>> /\ member = lzHeader /\ checksum = CrcStart /\ summed = 0 /\ written = FALSE

\* outbits: what is a whole byte leaves, the rest waits. Bytes written past outbits
\* overtake it.
OutBits(pending, bits, bytes) ==
  LET all == pending \o bits
      n == Len(all) \div 8
  IN  /\ member' = member \o [i \in 1..n |-> Value(SubSeq(all, 8 * i - 7, 8 * i))] \o bytes
      /\ outbits' = SubSeq(all, 8 * n + 1, Len(all))

\* (A bug: the bits that padded the block before are kept.)
KeptBits == outbits
\* ctx->outbits = 0, ctx->noutbits = 0
NoBits == <<>>

\* uzlib_deflate_stream, up to uzlib_compress. src is past the chunk between two blocks.
NextBlock ==
  /\ ~written /\ chunk < Len(input) /\ src > slen
  /\ LET in == input[chunk + 1]
     IN  inputBuffer' = in \o SubSeq(inputBuffer, Len(in) + 1, Len(inputBuffer))
  /\ chunk' = chunk + 1 /\ src' = 0 /\ summed' = 0
  /\ OutBits(NoBits, zlib_start_block(chunk + 1 = Len(input)), <<>>)
  /\ UNCHANGED <<input, hash_table, checksum, written>>

\* uzlib_crc32, of the whole chunk before any of it is compressed.
SumByte ==
  /\ ~written /\ summed < slen
  /\ checksum' = CrcByte(checksum, input[chunk][summed + 1]) /\ summed' = summed + 1
  /\ UNCHANGED <<input, chunk, inputBuffer, src, hash_table, outbits, member, written>>

-----------------------------------------------------------------------------
(***************************************************************************)
(* uzlib_compress, a literal or a match at a time.                         *)
(***************************************************************************)
MIN_MATCH == 3
MAX_MATCH == 258
top == slen - MIN_MATCH
At(p) == inputBuffer[p + 1]
HASH(p) ==
  LET v == At(p) * 65536 + At(p + 1) * 256 + At(p + 2)
  IN  ((v \div 2^(24 - hash_bits)) - v) % 2^hash_bits
\* The bucket of its hash has src.
RememberSrc ==
  hash_table' = [hash \in DOMAIN hash_table \cup {HASH(src)} |->
                   IF hash = HASH(src) THEN src ELSE hash_table[hash]]
Bucket == IF HASH(src) \in DOMAIN hash_table THEN {hash_table[HASH(src)]} ELSE {}

SameTriple(subs) == \A k \in 0..MIN_MATCH - 1 : At(src + k) = At(subs + k)
\* subs && src > subs && (src - subs) <= MAX_OFFSET && !memcmp(src, subs, MIN_MATCH)
IsMatch(subs) == src > subs /\ src - subs <= dict_size /\ SameTriple(subs)

\* *src == *m && len < MAX_MATCH && src < top
Extends(subs, len) ==
  len < MAX_MATCH /\ src + len < top /\ At(src + len) = At(subs + len)
IsMatchLength(subs, len) ==
  ~Extends(subs, len) /\ \A shorter \in MIN_MATCH..len - 1 : Extends(subs, shorter)

Match ==
  /\ BlockOpen /\ src < top
  /\ \E subs \in Bucket, len \in MIN_MATCH..MAX_MATCH :
       /\ IsMatch(subs) /\ IsMatchLength(subs, len)
       /\ OutBits(outbits, zlib_match(src - subs, len), <<>>)
       /\ src' = src + len
  /\ RememberSrc
  /\ UNCHANGED <<input, chunk, inputBuffer, checksum, summed, written>>

\* What matches nothing; and the last bytes, in which no match is looked for.
Literal ==
  /\ BlockOpen /\ src < slen
  /\ IF src < top
     THEN ~(\E subs \in Bucket : IsMatch(subs)) /\ RememberSrc
     ELSE UNCHANGED hash_table
  /\ OutBits(outbits, zlib_literal(At(src)), <<>>) /\ src' = src + 1
  /\ UNCHANGED <<input, chunk, inputBuffer, checksum, summed, written>>

\* The zeros that pad the empty block to a byte are left behind.
EndBlock ==
  /\ BlockOpen /\ src = slen /\ ~IsLast
  /\ OutBits(outbits, zlib_empty_block, EmptyBlockLength) /\ src' = slen + 1
  /\ UNCHANGED <<input, chunk, inputBuffer, hash_table, checksum, summed, written>>

EndMember ==
  /\ BlockOpen /\ src = slen /\ IsLast
  /\ OutBits(outbits, zlib_finish_block, lzFooter(Len(Expected), NotBits(checksum)))
  /\ written' = TRUE
  /\ UNCHANGED <<input, chunk, inputBuffer, src, hash_table, checksum, summed>>

WriterStep == NextBlock \/ SumByte \/ Match \/ Literal \/ EndBlock \/ EndMember
=============================================================================
