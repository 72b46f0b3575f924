------------------------------- MODULE GzMember -------------------------------
(***************************************************************************)
(* A .gz member from its writer to its reader: what uzlib_compress writes  *)
(* (module Deflate), or any other program, travels over a stream (module   *)
(* GzSource) to GzUnpacker::gzUncompress, which parses its header          *)
(* (src/src/uzlib/tinfgzip.c) and expands it                               *)
(* (src/src/uzlib/tinflate.c, with the trees of module Huffman).           *)
(*                                                                         *)
(* The reader takes a byte when the bits it holds do not do for its next   *)
(* step, and then only. Output is the sequence of bytes put: the ring and  *)
(* the buffers they pass through are those of module Inflate. Left out: a  *)
(* code of a distance tree that stands for nothing.                        *)
(***************************************************************************)
EXTENDS Deflate, Huffman, GzSource

CONSTANTS
  Foreign,      \* members of other programs: [bytes, header (its size, 0: refused), data]
  ShortMember,  \* the longest member that is disturbed on its way (bound)
  MaxSilences   \* (bound)

ASSUME ForeignAssumption ==
  \A f \in Foreign : f.bytes \in Seq(Byte) /\ f.header \in Nat /\ f.data \in Seq(Byte)
ASSUME DisturbanceAssumption == ShortMember \in Nat /\ MaxSilences \in Nat

VARIABLES
  header,   \* the size of the member's header
  intact,   \* no bit of it was turned over on its way
  stage,    \* what the reader is about to read
  todo,     \* in the header: the fields left, that one included
  count,    \* bytes, symbols or code lengths left
  bits,     \* taken from the stream, not yet consumed
  bfinal,
  trees,    \* ltree and dtree, of the block
  lengths,  \* the code lengths read so far, and how many each tree has
  sym,      \* the last symbol, whose extra bits are read next
  curlen, offs, fill,  \* of a match; and what the ring holds where nothing was put yet
  out,
  data_checksum,
  res       \* of uzlib_uncompress_chksum, or of uzlib_gzip_parse_header

match == <<curlen, offs, fill>>
blockVars == <<bfinal, trees, lengths, sym, match>>
outVars == <<out, data_checksum>>
readerVars == <<header, intact, stage, todo, count, bits, blockVars, outVars, res>>
vars == <<writerVars, sourceVars, readerVars>>

NoTrees == [ltree |-> fixed_ltree, dtree |-> fixed_dtree]
NoLengths == [hlit |-> 0, hdist |-> 0, read |-> <<>>]

ReaderInit ==
  /\ intact = TRUE /\ stage = "idle" /\ todo = <<>> /\ count = 0 /\ bits = <<>>
  /\ bfinal = 0 /\ trees = NoTrees /\ lengths = NoLengths /\ sym = 0 /\ curlen = 0 /\ offs = 0 /\ fill = 0
  /\ out = <<>> /\ data_checksum = CrcStart /\ res = TINF_OK

ForeignInit(f) ==
  /\ input = <<f.data>> /\ chunk = 1 /\ inputBuffer = <<>> /\ src = Len(f.data) /\ hash_table = <<>>
  /\ outbits = <<>> /\ member = f.bytes /\ checksum = CrcStart
  /\ summed = Len(f.data) /\ written = TRUE
  /\ header = f.header

Init ==
  /\ SourceInit /\ ReaderInit
  /\ (WriterInit /\ header = Len(lzHeader)) \/ \E f \in Foreign : ForeignInit(f)

-----------------------------------------------------------------------------
(***************************************************************************)
(* The stream: all of the member, in time; or, of a short one, what comes  *)
(* before it breaks off, or all of it but slowly, or with a bit turned     *)
(* over.                                                                   *)
(***************************************************************************)
FlipBit(bytes, k) ==
  [bytes EXCEPT ![(k \div 8) + 1] = Value([Bits(@, 8) EXCEPT ![(k % 8) + 1] = 1 - @])]

\* All bits of a member but the one that announces an extra field: its length would be
\* thousands of bytes, each waited for (bound).
Flips == (0..8 * Len(member) - 1) \ {26}

Undisturbed == Connect(Len(member), 0, 0) /\ UNCHANGED <<member, intact>>
Disturbed ==
  /\ Len(member) <= ShortMember
  /\ \/ \E cut \in 1..Len(member) - 1, time \in 0..LastTick :
          Connect(cut, 0, time) /\ UNCHANGED <<member, intact>>
     \/ \E most \in 1..MaxSilences, time \in 0..LastTick :
          Connect(Len(member), most, time) /\ UNCHANGED <<member, intact>>
     \/ \E k \in Flips :
          Connect(Len(member), 0, 0) /\ member' = FlipBit(member, k) /\ intact' = FALSE

\* gzUncompress, up to uzlib_gzip_parse_header. The call returns at once when nothing is
\* available.
BeginRead ==
  /\ written /\ stage = "idle"
  /\ Undisturbed \/ Disturbed
  /\ stage' = "header" /\ todo' = <<"id1", "id2", "method", "flags">>
  /\ UNCHANGED <<input, chunk, inputBuffer, src, hash_table, outbits, checksum, summed,
                 written,
                 header, count, bits, blockVars, outVars, res>>

Running == stage \notin {"idle", "done"}

\* The bits of one step, where they are not those of a symbol.
BitsOf ==
  CASE stage = "header" ->
         IF todo = <<>> THEN 0 ELSE IF Head(todo) \in {"xlen", "hcrc"} THEN 16 ELSE 8
    [] stage = "block" -> 3
    [] stage = "stored length" -> 32
    [] stage = "stored" -> 8
    [] stage = "tree sizes" -> 14
    [] stage = "tree codes" -> 3 * count
    [] stage = "repeat" -> <<2, 3, 7>>[sym - 15]
    [] stage = "length" -> length_bits[sym - 256]
    [] stage = "offset" -> dist_bits[sym + 1]
    [] stage \in {"trees", "copy"} -> 0
    [] stage \in {"crc", "isize"} -> 32
\* The tree of a symbol.
TreeOf == IF stage = "distance" THEN trees.dtree ELSE trees.ltree
InSymbol == stage \in {"code length", "symbol", "distance"}

\* After an error of the source a symbol is given up at its first bit.
Starved ==
  IF InSymbol THEN IF readSourceErrors > 0 THEN bits = <<>> ELSE CodeLength(bits, TreeOf) > Len(bits)
  ELSE Len(bits) < BitsOf

\* uzlib_get_byte
Fetch ==
  /\ Running /\ Starved
  /\ \/ Give /\ bits' = bits \o Bits(member[sent + 1], 8)
     \/ StartWaiting /\ UNCHANGED bits
     \/ StopWaiting /\ UNCHANGED bits
     \/ Delay /\ UNCHANGED bits
     \/ GiveUp /\ \E byte \in StackBytes : bits' = bits \o Bits(byte, 8)
  /\ UNCHANGED <<writerVars, header, intact, stage, todo, count, blockVars, outVars, res>>

\* A stream may pause, or go on, while a byte is asked for.
Sender ==
  /\ Running /\ Starved /\ (Pause \/ Resume)
  /\ UNCHANGED <<writerVars, readerVars>>

-----------------------------------------------------------------------------
(***************************************************************************)
(* uzlib_gzip_parse_header                                                 *)
(***************************************************************************)
Ready == Running /\ ~waiting /\ ~Starved
Taken == ReadBits(bits, BitsOf)
Consume == bits' = Drop(bits, BitsOf)
Finish(code) == stage' = "done" /\ res' = code

Field(names) == Ready /\ stage = "header" /\ todo # <<>> /\ Head(todo) \in names
KeepInHeader ==
  UNCHANGED <<writerVars, sourceVars, header, intact, blockVars, outVars>>

Expects == [id1 |-> 31, id2 |-> 139, method |-> 8]
CheckField ==
  /\ Field({"id1", "id2", "method"}) /\ Consume
  /\ IF Taken = Expects[Head(todo)]
     THEN todo' = Tail(todo) /\ UNCHANGED <<stage, res>>
     ELSE Finish(TINF_DATA_ERROR) /\ UNCHANGED todo
  /\ UNCHANGED count /\ KeepInHeader

\* The rest of a header of ten bytes.
BaseHeader == 6
FlagSet(flg, bit) == (flg \div bit) % 2 = 1
OptionalFields(flg) ==
  (IF FlagSet(flg, 4) THEN <<"xlen", "extra">> ELSE <<>>)
    \o (IF FlagSet(flg, 8) THEN <<"name">> ELSE <<>>)
    \o (IF FlagSet(flg, 16) THEN <<"comment">> ELSE <<>>)
    \o (IF FlagSet(flg, 2) THEN <<"hcrc">> ELSE <<>>)
ReadFlags ==
  /\ Field({"flags"}) /\ Consume
  /\ IF Taken < 32
     THEN todo' = <<"skip">> \o OptionalFields(Taken) /\ count' = BaseHeader /\ UNCHANGED <<stage, res>>
     ELSE Finish(TINF_DATA_ERROR) /\ UNCHANGED <<todo, count>>
  /\ KeepInHeader

SkipBytes ==
  /\ Field({"skip", "extra"}) /\ Consume
  /\ count' = count - 1 /\ todo' = IF count = 1 THEN Tail(todo) ELSE todo
  /\ UNCHANGED <<stage, res>> /\ KeepInHeader

ReadExtraLength ==
  /\ Field({"xlen"}) /\ Consume
  /\ count' = Taken /\ todo' = IF Taken = 0 THEN Tail(Tail(todo)) ELSE Tail(todo)
  /\ UNCHANGED <<stage, res>> /\ KeepInHeader

\* while (uzlib_get_byte(d)); whatever the stream does.
SkipString ==
  /\ Field({"name", "comment"}) /\ Consume
  /\ todo' = IF Taken = 0 THEN Tail(todo) ELSE todo
  /\ UNCHANGED <<stage, count, res>> /\ KeepInHeader

SkipHeaderCrc ==
  /\ Field({"hcrc"}) /\ Consume
  /\ todo' = Tail(todo)
  /\ UNCHANGED <<stage, count, res>> /\ KeepInHeader

\* uzlib_uncompress_init, which forgets the errors of the source.
HeaderDone ==
  /\ Ready /\ stage = "header" /\ todo = <<>>
  /\ stage' = "block" /\ bits' = <<>> /\ readSourceErrors' = 0
  /\ UNCHANGED <<writerVars, sent, held, silent, silences, clockVars, gaveUp, header, intact,
                 todo, count, blockVars, outVars, res>>

ParseHeader ==
  \/ CheckField \/ ReadFlags \/ SkipBytes \/ ReadExtraLength \/ SkipString \/ SkipHeaderCrc
  \/ HeaderDone

-----------------------------------------------------------------------------
(***************************************************************************)
(* uzlib_uncompress: the blocks.                                           *)
(***************************************************************************)
KeepInBlocks == UNCHANGED <<writerVars, sourceVars, header, intact, todo>>
\* (A bug: a stored block begins where the bits of its header end.)
KeepTag == Consume
\* The rest of the byte is dropped: the next is taken whole.
DropTag == bits' = <<>>
\* next_blk; or the trailer, past the last block.
EndOfBlock(rest) ==
  IF bfinal = 1 THEN stage' = "crc" /\ bits' = <<>> ELSE stage' = "block" /\ bits' = rest
\* TINF_PUT, and the check that follows it.
Put(byte, next) ==
  /\ out' = Append(out, byte) /\ data_checksum' = CrcByte(data_checksum, byte)
  /\ IF readSourceErrors > 0 THEN Finish(TINF_DATA_ERROR) ELSE stage' = next /\ UNCHANGED res

BlockHeader ==
  /\ Ready /\ stage = "block"
  /\ bfinal' = Taken % 2
  /\ \/ Taken \div 2 = 0 /\ stage' = "stored length" /\ DropTag /\ UNCHANGED <<trees, res>>
     \/ Taken \div 2 = 1 /\ stage' = "symbol" /\ trees' = NoTrees /\ Consume /\ UNCHANGED res
     \/ Taken \div 2 = 2 /\ stage' = "tree sizes" /\ Consume /\ UNCHANGED <<trees, res>>
     \/ Taken \div 2 = 3 /\ Finish(TINF_DATA_ERROR) /\ Consume /\ UNCHANGED trees
  /\ UNCHANGED <<count, lengths, sym, match, outVars>> /\ KeepInBlocks

\* tinf_inflate_uncompressed_block
Inverted(word) == 65535 - word
StoredLength ==
  /\ Ready /\ stage = "stored length"
  /\ LET length == ReadBits(bits, 16)
         invlength == ReadBits(Drop(bits, 16), 16)
     IN  /\ count' = length
         /\ IF length # Inverted(invlength)
            THEN Finish(TINF_DATA_ERROR) /\ Consume
            ELSE /\ IF length = 0 THEN EndOfBlock(Drop(bits, 32)) ELSE stage' = "stored" /\ Consume
                 /\ UNCHANGED res
  /\ UNCHANGED <<blockVars, outVars>> /\ KeepInBlocks

\* The last byte ends the block too: that takes nothing more from the stream.
StoredByte ==
  /\ Ready /\ stage = "stored" /\ Consume
  /\ Put(Taken, IF count > 1 THEN "stored" ELSE IF bfinal = 1 THEN "crc" ELSE "block")
  /\ count' = count - 1
  /\ UNCHANGED blockVars /\ KeepInBlocks

-----------------------------------------------------------------------------
(***************************************************************************)
(* tinf_decode_trees                                                       *)
(***************************************************************************)
TreeSizes ==
  /\ Ready /\ stage = "tree sizes" /\ Consume
  /\ lengths' = [hlit |-> 257 + ReadBits(bits, 5), hdist |-> 1 + ReadBits(Drop(bits, 5), 5),
                 read |-> <<>>]
  /\ count' = 4 + ReadBits(Drop(bits, 10), 4) /\ stage' = "tree codes"
  /\ UNCHANGED <<bfinal, trees, sym, match, outVars, res>> /\ KeepInBlocks

\* The tree of the code lengths takes the place of ltree for a while.
TreeCodes ==
  /\ Ready /\ stage = "tree codes" /\ Consume
  /\ LET place == [c \in 0..18 |-> (CHOOSE i \in 1..19 : clcidx[i] = c) - 1]
         clen == [c \in 0..18 |-> IF place[c] < count THEN ReadBits(Drop(bits, 3 * place[c]), 3) ELSE 0]
     IN  trees' = [trees EXCEPT !.ltree = tinf_build_tree(clen)]
  /\ stage' = "code length"
  /\ UNCHANGED <<count, bfinal, lengths, sym, match, outVars, res>> /\ KeepInBlocks

hlimit == lengths.hlit + lengths.hdist
SymbolRead == Drop(bits, IF readSourceErrors > 0 THEN 1 ELSE CodeLength(bits, TreeOf))
Symbol == IF readSourceErrors > 0 THEN TINF_DATA_ERROR ELSE Decoded(bits, TreeOf)

MoreLengths(more) ==
  /\ lengths' = [lengths EXCEPT !.read = @ \o more]
  /\ stage' = IF Len(lengths.read) + Len(more) < hlimit THEN "code length" ELSE "trees"
  /\ UNCHANGED res
BadTrees == Finish(TINF_DATA_ERROR) /\ UNCHANGED lengths

CodeLengthSymbol ==
  /\ Ready /\ stage = "code length" /\ bits' = SymbolRead
  /\ sym' = Symbol
  /\ IF sym' < 0 \/ (sym' = 16 /\ lengths.read = <<>>) THEN BadTrees
     ELSE IF sym' < 16 THEN MoreLengths(<<sym'>>)
     ELSE stage' = "repeat" /\ UNCHANGED <<lengths, res>>
  /\ UNCHANGED <<count, bfinal, trees, match, outVars>> /\ KeepInBlocks

RepeatLength ==
  /\ Ready /\ stage = "repeat" /\ Consume
  /\ LET length == Taken + (IF sym = 18 THEN 11 ELSE 3)
         fill_value == IF sym = 16 THEN lengths.read[Len(lengths.read)] ELSE 0
     IN  IF Len(lengths.read) + length > hlimit THEN BadTrees
         ELSE MoreLengths([i \in 1..length |-> fill_value])
  /\ UNCHANGED <<count, bfinal, trees, sym, match, outVars>> /\ KeepInBlocks

BuildTrees ==
  /\ Ready /\ stage = "trees" /\ stage' = "symbol"
  /\ trees' = [ltree |-> tinf_build_tree([s \in 0..lengths.hlit - 1 |-> lengths.read[s + 1]]),
               dtree |-> tinf_build_tree([s \in 0..lengths.hdist - 1 |->
                                            lengths.read[lengths.hlit + s + 1]])]
  /\ UNCHANGED <<count, bits, bfinal, lengths, sym, match, outVars, res>> /\ KeepInBlocks

-----------------------------------------------------------------------------
(***************************************************************************)
(* tinf_inflate_block_data                                                 *)
(***************************************************************************)
\* What is not a symbol is put all the same, as a byte.
LiteralOrMatch ==
  /\ Ready /\ stage = "symbol"
  /\ sym' = Symbol
  /\ IF sym' < 256 THEN Put(sym' % 256, "symbol") /\ bits' = SymbolRead
     ELSE /\ IF sym' = 256 THEN EndOfBlock(SymbolRead) /\ UNCHANGED res
             ELSE /\ bits' = SymbolRead
                  /\ IF sym' - 257 < 29 THEN stage' = "length" /\ UNCHANGED res
                     ELSE Finish(TINF_DATA_ERROR)
          /\ UNCHANGED outVars
  /\ UNCHANGED <<count, bfinal, trees, lengths, match>> /\ KeepInBlocks

LengthBits ==
  /\ Ready /\ stage = "length" /\ Consume
  /\ curlen' = length_base[sym - 256] + Taken /\ stage' = "distance"
  /\ UNCHANGED <<count, bfinal, trees, lengths, sym, offs, fill, outVars, res>> /\ KeepInBlocks

\* After an error of the source dist is negative, and dist_bits and dist_base are read
\* before their start: what comes of it is an error, one or the other.
DistanceSymbol ==
  /\ Ready /\ stage = "distance" /\ bits' = SymbolRead
  /\ sym' = Symbol
  /\ IF readSourceErrors > 0 THEN \E code \in {TINF_DATA_ERROR, TINF_DICT_ERROR} : Finish(code)
     ELSE IF sym' >= 30 THEN Finish(TINF_DATA_ERROR)
     ELSE stage' = "offset" /\ UNCHANGED res
  /\ UNCHANGED <<count, bfinal, trees, lengths, match, outVars>> /\ KeepInBlocks

DistanceBits ==
  /\ Ready /\ stage = "offset" /\ Consume
  /\ offs' = dist_base[sym + 1] + Taken
  /\ IF offs' > dict_size THEN Finish(TINF_DICT_ERROR) ELSE stage' = "copy" /\ UNCHANGED res
  /\ fill' \in IF offs' > Len(out) THEN StackBytes ELSE {0}
  /\ UNCHANGED <<count, bfinal, trees, lengths, sym, curlen, outVars>> /\ KeepInBlocks

CopyByte ==
  /\ Ready /\ stage = "copy"
  /\ Put(IF offs > Len(out) THEN fill ELSE out[Len(out) + 1 - offs],
         IF curlen > 1 THEN "copy" ELSE "symbol")
  /\ curlen' = curlen - 1
  /\ UNCHANGED <<count, bits, bfinal, trees, lengths, sym, offs, fill>> /\ KeepInBlocks

-----------------------------------------------------------------------------
(***************************************************************************)
(* uzlib_uncompress_chksum, at the end of the last block.                  *)
(***************************************************************************)
\* (A bug: the checksum is read and not compared.)
AnyChecksum == TRUE
ChecksumHolds == bits = NotBits(data_checksum)
CheckCrc ==
  /\ Ready /\ stage = "crc" /\ Consume
  /\ IF ChecksumHolds THEN stage' = "isize" /\ UNCHANGED res ELSE Finish(TINF_CHKSUM_ERROR)
  /\ UNCHANGED <<count, blockVars, outVars>> /\ KeepInBlocks

\* The size of the data is not looked at.
SkipSize ==
  /\ Ready /\ stage = "isize" /\ Consume /\ Finish(TINF_DONE)
  /\ UNCHANGED <<count, blockVars, outVars>> /\ KeepInBlocks

Inflate ==
  \/ BlockHeader \/ StoredLength \/ StoredByte
  \/ TreeSizes \/ TreeCodes \/ CodeLengthSymbol \/ RepeatLength \/ BuildTrees
  \/ LiteralOrMatch \/ LengthBits \/ DistanceSymbol \/ DistanceBits \/ CopyByte
  \/ CheckCrc \/ SkipSize

Write == WriterStep /\ UNCHANGED <<sourceVars, readerVars>>
Read == BeginRead \/ Fetch \/ ParseHeader \/ Inflate
Next == Write \/ Read \/ Sender

\* The writer and the reader go on as long as they can; the sender may be silent for good.
Spec == Init /\ [][Next]_vars /\ WF_vars(Write) /\ WF_vars(Read)

-----------------------------------------------------------------------------
(***************************************************************************)
(* Properties                                                              *)
(***************************************************************************)
\* The variables have their types; what the writer holds back is less than a byte, and the
\* reader never holds a whole byte more than its step needs, nor a part of one where it reads
\* bytes and not bits.
GmTypeOK ==
  /\ stage \in {"idle", "header", "block", "stored length", "stored", "tree sizes", "tree codes",
                "code length", "repeat", "trees", "symbol", "length", "distance", "offset", "copy", "crc",
                "isize", "done"}
  /\ todo \in Seq({"id1", "id2", "method", "flags", "skip", "xlen", "extra", "name", "comment",
                   "hcrc"})
  /\ outbits \in Seq({0, 1}) /\ Len(outbits) < 8
  /\ bits \in Seq({0, 1}) /\ (Running => Len(bits) < 8 + IF InSymbol THEN 16 ELSE BitsOf)
  /\ stage \in {"header", "stored length", "stored", "crc", "isize"} => Len(bits) % 8 = 0
  /\ count \in 0..65535 /\ bfinal \in 0..1 /\ sym \in -3..287 /\ curlen \in 0..258
  /\ out \in Seq(Byte) /\ intact \in BOOLEAN
  /\ sent \in 0..held /\ held <= Len(member) /\ now \in 0..LastTick /\ timeout \in 0..LastTick
  /\ res \in {TINF_OK, TINF_DONE, TINF_DATA_ERROR, TINF_CHKSUM_ERROR, TINF_DICT_ERROR}

\* gzReadHeader: the size that the end of a .gz file states.
output_size == Value(Concat([i \in 1..4 |-> Bits(member[Len(member) - 4 + i], 8)]))

\* What arrives whole expands, at every moment, to a part of what was compressed, and in
\* the end to all of it, with nothing left over in the stream, and is as long as the member
\* says. Whoever wrote the member, however it was cut into chunks and blocks, whatever the
\* hash table still held from the chunk before, and however slowly it came.
RoundTrip ==
  intact /\ ~gaveUp /\ header > 0 =>
    /\ Len(out) <= Len(Expected) /\ out = SubSeq(Expected, 1, Len(out))
    /\ stage = "done" =>
         res = TINF_DONE /\ out = Expected /\ sent = Len(member) /\ output_size = Len(out)

\* The reader does not say that it is done when what came out is not what was compressed:
\* not when a bit was turned over on the way, not when the stream broke off, and not when a
\* byte lost in the header was forgotten and all that follows is read out of its place.
DoneMeansWhole == res = TINF_DONE => out = Expected

\* gzUncompress returns, whatever the sender does, but for two cases: the deadline of a
\* wait is the last value of the clock, which no clock passes, and the sender stays silent;
\* or the stream ends in the name or the comment of the header, whose end is then looked
\* for in what the stack holds.
MemberReturns ==
  \/ <>(stage = "done")
  \/ <>[](waiting /\ timeout = LastTick)
  \/ <>[](stage = "header" /\ todo # <<>> /\ Head(todo) \in {"name", "comment"})
=============================================================================
