------------------------------- MODULE Inflate -------------------------------
(***************************************************************************)
(* Expanding a .gz stream to a file: the loop of gzUncompress, one byte at *)
(* a time, with its output buffer, gzReadDestByteFS and                    *)
(* gzStreamWriteCallback (src/src/libunpacker/LibUnpacker.cpp), and        *)
(* uzlib_uncompress_chksum under it (src/src/uzlib/tinflate.c).            *)
(*                                                                         *)
(* The compressed stream is what its symbols say, chosen one at a time. An *)
(* output byte is known by where it came into being as a literal, so that  *)
(* no two literals are the same; 0 is a byte nobody wrote.                 *)
(***************************************************************************)
EXTENDS Integers, Sequences

CONSTANTS
  dict_size,           \* GZIP_DICT_SIZE
  output_buffer_size,
  MaxLength,           \* of the expanded stream (bound)
  CopyLengths,         \* of matches (bound)
  Distances,           \* of matches (bound)
  Faults               \* what may go wrong, of FaultKinds

FaultKinds == {"source", "corrupt", "refuse", "short"}
ASSUME WindowAssumption == dict_size \in Nat \ {0} /\ output_buffer_size \in Nat \ {0}
ASSUME SymbolsAssumption ==
  MaxLength \in Nat /\ CopyLengths \subseteq Nat \ {0} /\ Distances \subseteq Nat \ {0}
ASSUME InflateFaultsAssumption == Faults \subseteq FaultKinds

ESP32_TARGZ_OK == 0
ESP32_TARGZ_STREAM_ERROR == -6
NoReturn == 1
\* TINF_DATA_ERROR and TINF_DICT_ERROR end the loop alike.
TINF_DONE == 1
TINF_DATA_ERROR == -3
TINF_CHKSUM_ERROR == -4

VARIABLES
  use_dict, dict_ring, dict_idx,
  btype,               \* of the block, -1: its header is read next
  bfinal, curlen, lzOff,
  readSourceErrors,    \* 1: there were some
  output_buffer, output_position, outlen,
  file,                \* what tarGzIO.output holds
  intact,              \* the symbols came from a valid stream
  expanded,            \* and this is what they stand for
  shortened,           \* the file took less than it was given
  returned

window == <<dict_ring, dict_idx>>
block == <<btype, bfinal, curlen, lzOff>>
buffer == <<output_buffer, output_position>>
output == <<outlen, file, shortened>>
stream == <<readSourceErrors, expanded, intact>>
vars == <<use_dict, window, block, buffer, output, stream, returned>>

May(fault) == fault \in Faults
Running == returned = NoReturn
Output == file \o [p \in 1..output_position |-> output_buffer[p - 1]]

\* Where the loop starts; a call that fails before has written nothing.
Init ==
  /\ use_dict \in BOOLEAN /\ dict_ring = [s \in 0..dict_size-1 |-> 0] /\ dict_idx = 0
  /\ btype = -1 /\ bfinal = FALSE /\ curlen = 0 /\ lzOff = 0 /\ readSourceErrors = 0
  /\ output_buffer = [s \in 0..output_buffer_size-1 |-> 0] /\ output_position = 0
  /\ outlen = 0 /\ file = <<>> /\ expanded = <<>> /\ intact = TRUE /\ shortened = FALSE
  /\ returned = NoReturn

-----------------------------------------------------------------------------
(***************************************************************************)
(* gzWriteCallback, here gzStreamWriteCallback: a write of 0 bytes is      *)
(* tried a second time, and any other is taken for a full one.             *)
(***************************************************************************)
Taken(size) ==
  {size} \cup (IF May("refuse") THEN {0} ELSE {}) \cup (IF May("short") THEN 1..size-1 ELSE {})
\* What the two attempts leave in the file.
Attempts(size) == {taken \in Taken(size) : taken > 0} \cup (IF May("refuse") THEN {0} ELSE {})
WriteCallback(size, taken) ==
  /\ file' = file \o [p \in 1..taken |-> output_buffer'[p - 1]]
  /\ outlen' = IF taken > 0 THEN outlen + size ELSE outlen
  /\ shortened' = (shortened \/ taken < size)

-----------------------------------------------------------------------------
(***************************************************************************)
(* The end of the loop.                                                    *)
(***************************************************************************)
Dry(res) == res # TINF_DONE /\ readSourceErrors' > 0
\* (A bug: the leftover bytes are not written.)
NoLeftover == 0
Leftover == output_position

\* Any result but TINF_OK. Of a stream that is no more intact the checksum differs.
Finish(res) ==
  \/ /\ Dry(res) /\ returned' = ESP32_TARGZ_STREAM_ERROR /\ UNCHANGED <<buffer, output>>
  \/ /\ ~Dry(res) /\ Leftover = 0
     /\ returned' = IF outlen > 0 THEN ESP32_TARGZ_OK ELSE ESP32_TARGZ_STREAM_ERROR
     /\ UNCHANGED <<buffer, output>>
  \/ /\ ~Dry(res) /\ Leftover > 0 /\ UNCHANGED output_buffer
     /\ \E taken \in Attempts(Leftover) :
          /\ WriteCallback(Leftover, taken)
          /\ output_position' = IF taken > 0 THEN 0 ELSE output_position
          /\ returned' = IF taken > 0 THEN ESP32_TARGZ_OK ELSE ESP32_TARGZ_STREAM_ERROR

\* (A bug: the position is not reset.)
KeptPosition == output_position + 1
PositionAfterWrite == 0
\* A byte has been put: gzUncompress goes on, unless there was an error on the way.
Advance ==
  \/ /\ readSourceErrors' > 0 /\ UNCHANGED <<output_position, output>>
     /\ returned' = ESP32_TARGZ_STREAM_ERROR
  \/ /\ readSourceErrors' = 0 /\ output_position + 1 < output_buffer_size
     /\ output_position' = output_position + 1 /\ UNCHANGED <<output, returned>>
  \/ /\ readSourceErrors' = 0 /\ output_position + 1 = output_buffer_size
     /\ \E taken \in Attempts(output_buffer_size) :
          /\ WriteCallback(output_buffer_size, taken)
          /\ output_position' = IF taken > 0 THEN PositionAfterWrite ELSE output_position + 1
          /\ IF taken > 0 THEN UNCHANGED returned ELSE returned' = ESP32_TARGZ_STREAM_ERROR

NextIndex(index) == IF index + 1 = dict_size THEN 0 ELSE index + 1
\* TINF_PUT
Put(value) ==
  /\ output_buffer' = [output_buffer EXCEPT ![output_position] = value]
  /\ IF use_dict
     THEN dict_ring' = [dict_ring EXCEPT ![dict_idx] = value] /\ dict_idx' = NextIndex(dict_idx)
     ELSE UNCHANGED window
  /\ Advance

-----------------------------------------------------------------------------
(***************************************************************************)
(* Symbols. When a byte cannot be read, what is decoded is anything.       *)
(***************************************************************************)
SourceErrors == {readSourceErrors} \cup (IF May("source") THEN {1} ELSE {})
Reads(symbol) ==
  /\ readSourceErrors' \in SourceErrors
  /\ intact' = (intact /\ readSourceErrors' = 0)
  /\ expanded' = IF intact' THEN expanded \o symbol ELSE <<>>
ReadsNonsense ==
  /\ readSourceErrors' \in SourceErrors
  /\ May("corrupt") \/ readSourceErrors' > 0
  /\ intact' = FALSE /\ expanded' = <<>>
Nothing == <<>>
Produced == outlen + output_position
Fits(length) == Produced + length <= MaxLength
Literal == IF intact THEN <<Produced + 1>> ELSE <<0>>
\* What a match stands for: the bytes distance before it, over and over.
Copied(length, distance) ==
  [p \in 1..length |-> expanded[Len(expanded) - distance + 1 + ((p - 1) % distance)]]

\* A block of type 3, or trees that make no sense.
BadBlock ==
  /\ Running /\ btype = -1 /\ ReadsNonsense
  /\ Finish(TINF_DATA_ERROR) /\ UNCHANGED <<use_dict, window, block>>

BlockHeader(type, final) ==
  /\ Running /\ btype = -1
  /\ Reads(Nothing) /\ btype' = type /\ bfinal' = final
  /\ UNCHANGED <<use_dict, window, curlen, lzOff, buffer, output, returned>>

\* tinf_inflate_uncompressed_block: its length, one more for the end of the block.
StoredLength(length) ==
  /\ Running /\ btype = 0 /\ curlen = 0 /\ Fits(length)
  /\ Reads(Nothing) /\ curlen' = length + 1
  /\ UNCHANGED <<use_dict, window, btype, bfinal, lzOff, buffer, output, returned>>
StoredByte ==
  /\ Running /\ btype = 0 /\ curlen > 1 /\ Fits(1)
  /\ Reads(Literal) /\ curlen' = curlen - 1 /\ Put(Literal[1])
  /\ UNCHANGED <<use_dict, btype, bfinal, lzOff>>

\* tinf_inflate_block_data
PutLiteral ==
  /\ Running /\ btype = 1 /\ curlen = 0 /\ Fits(1)
  /\ Reads(Literal) /\ Put(Literal[1]) /\ UNCHANGED <<use_dict, block>>

\* (A bug: an index below zero is not moved to the end of the ring.)
Clamped(index) == IF index < 0 THEN 0 ELSE index
Wrapped(index) == IF index < 0 THEN index + dict_size ELSE index
MatchFound(length, distance) ==
  /\ Running /\ btype = 1 /\ curlen = 0 /\ Fits(length)
  /\ IF intact /\ distance <= Produced /\ distance <= dict_size
     THEN Reads(Copied(length, distance)) ELSE ReadsNonsense
  /\ IF use_dict /\ distance > dict_size
     THEN UNCHANGED <<curlen, lzOff>> /\ Finish(TINF_DATA_ERROR)
     ELSE /\ curlen' = length
          /\ lzOff' = IF use_dict THEN Wrapped(dict_idx - distance) ELSE -distance
          /\ UNCHANGED <<buffer, output, returned>>
  /\ UNCHANGED <<use_dict, window, btype, bfinal>>

\* gzReadDestByteFS: from the output buffer, or from before its start: from the file,
\* whose position is put back. Before the start of the file there is nothing.
FromFile(back) == IF back < Len(file) THEN file[Len(file) - back] ELSE 0
gzReadDestByteFS ==
  LET delta == output_position + lzOff
  IN  IF delta >= 0 THEN output_buffer[delta] ELSE FromFile(-delta - 1)

CopyByte ==
  /\ Running /\ btype = 1 /\ curlen > 0
  /\ UNCHANGED <<use_dict, btype, bfinal, stream>>
  /\ Put(IF use_dict THEN dict_ring[lzOff] ELSE gzReadDestByteFS)
  /\ curlen' = curlen - 1 /\ lzOff' = IF use_dict THEN NextIndex(lzOff) ELSE lzOff

BadSymbol ==
  /\ Running /\ btype \in {0, 1} /\ curlen = 0 /\ ReadsNonsense
  /\ Finish(TINF_DATA_ERROR) /\ UNCHANGED <<use_dict, window, block>>

\* After the last block: the checksum is compared, then the size is read and not looked at, so
\* that a source that ends in it is no error.
Checksum ==
  (Reads(Nothing) \/ ReadsNonsense) /\ Finish(IF intact' THEN TINF_DONE ELSE TINF_CHKSUM_ERROR)
SizeUnread ==
  intact /\ May("source") /\ readSourceErrors' = 1 /\ UNCHANGED <<intact, expanded>>
BlockEnds ==
  /\ Running /\ btype \in {0, 1} /\ curlen = 1 - btype
  /\ curlen' = 0 /\ UNCHANGED <<use_dict, window, bfinal, lzOff>>
  /\ \/ ~bfinal /\ Reads(Nothing) /\ btype' = -1 /\ UNCHANGED <<buffer, output, returned>>
     \/ bfinal /\ UNCHANGED btype /\ Checksum
     \/ bfinal /\ UNCHANGED btype /\ SizeUnread /\ Finish(TINF_DONE)

Next ==
  \/ BadBlock \/ StoredByte \/ PutLiteral \/ CopyByte \/ BadSymbol \/ BlockEnds
  \/ \E type \in {0, 1}, final \in BOOLEAN : BlockHeader(type, final)
  \/ \E length \in 0..MaxLength : StoredLength(length)
  \/ \E length \in CopyLengths, distance \in Distances : MatchFound(length, distance)
Spec == Init /\ [][Next]_vars

-----------------------------------------------------------------------------
InTypeOK ==
  /\ use_dict \in BOOLEAN /\ dict_ring \in [0..dict_size-1 -> 0..MaxLength]
  /\ dict_idx \in 0..dict_size-1 /\ btype \in {-1, 0, 1} /\ bfinal \in BOOLEAN
  /\ curlen \in Nat /\ lzOff \in Int /\ readSourceErrors \in 0..1
  /\ output_buffer \in [0..output_buffer_size-1 -> 0..MaxLength]
  /\ output_position \in 0..output_buffer_size
  /\ Running => output_position < output_buffer_size
  /\ outlen \in Nat
  /\ file \in Seq(0..MaxLength) /\ expanded \in Seq(0..MaxLength) /\ intact \in BOOLEAN
  /\ shortened \in BOOLEAN
  /\ returned \in {NoReturn, ESP32_TARGZ_OK, ESP32_TARGZ_STREAM_ERROR}

\* Byte for byte, the file and the buffer are what the symbols stand for, in the middle of
\* a match, across two writes, with the ring as well as with a file read back: as long as
\* the stream is valid and the file takes what it is given.
OutputExact ==
  intact /\ ~shortened => /\ Len(Output) <= Len(expanded)
                          /\ Output = SubSeq(expanded, 1, Len(Output))
                          /\ Running /\ btype = 1 => Len(expanded) = Len(Output) + curlen

\* What is reported as expanded had a source that never stopped giving bytes, wherever in
\* the stream and whatever was decoded since, unless only the size at the very end was missing;
\* and a valid stream is in the file to its last byte.
OkMeansWhole ==
  returned = ESP32_TARGZ_OK =>
    /\ readSourceErrors > 0 => intact /\ bfinal
    /\ intact /\ ~shortened => file = expanded /\ bfinal
=============================================================================
