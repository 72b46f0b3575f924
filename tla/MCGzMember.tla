------------------------------ MODULE MCGzMember ------------------------------
(***************************************************************************)
(* The members of module GzMember, for TLC: what the writer compresses,    *)
(* and members it does not write, put together from RFC 1951 and RFC 1952. *)
(***************************************************************************)
EXTENDS GzMember

Repeat(byte, n) == [i \in 1..n |-> byte]

\* Three literals, a match over its own end, and the last bytes, which are not matched.
Short == <<<<65, 66, 67, 65, 66, 67, 65, 66, 67, 65, 200>>>>
\* The second chunk meets the hash table of the first, and is shorter than it.
TwoChunks == <<<<66, 65, 65, 65, 65, 65, 65, 65, 200>>, <<65, 65, 65, 65, 65, 65, 66>>>>

\* A run for every code of lengths; each byte once; few values in no order, so that the
\* hashes of different triples meet; and repetitions from near to too far.
Runs == Concat([k \in DOMAIN lencodes |-> Repeat(k, lencodes[k][3] + 1)])
EachByte == [i \in 1..256 |-> i - 1]
Mixed == [i \in 1..150 |-> ((i * i + (i \div 3) * (i % 5)) % 7) * 40]
Again(distance) == <<1, 2, 3, 4>> \o Repeat(9, distance - 4) \o <<1, 2, 3, 4, 5, 6, 7>>
Long ==
  <<Runs, EachByte, Mixed>> \o [i \in 1..6 |-> Again(<<30, 100, 257, dict_size - 1, dict_size, dict_size + 1>>[i])]

Inputs1 == {Short, TwoChunks, Long}

-----------------------------------------------------------------------------
Header(flags) == <<31, 139, 8, flags, 0, 0, 0, 0, 0, 255>>
Stored(final, data) == <<final, Len(data), 0, 255 - Len(data), 255>> \o data
Bytes(b) ==
  [i \in 1..(Len(b) + 7) \div 8 |-> Value(SubSeq(b, 8 * i - 7, IF 8 * i < Len(b) THEN 8 * i ELSE Len(b)))]

\* Literals 65 and 66, the end of the block and lengths of 8 have codes of two bits, the first
\* eight distances codes of three.
DynamicBlock ==
  LET sizes == Bits(0, 1) \o Bits(2, 2) \o Bits(6, 5) \o Bits(7, 5) \o Bits(12, 4)
      codes == Concat([i \in 1..16 |-> Bits(<<3, 3, 2, 0, 0, 0, 0, 0, 0, 0, 0, 0, 0, 2, 0, 2>>[i], 3)])
      two == Code(0, 2)
      three == Code(1, 2)
      zeros(n) == Code(2, 2) \o Bits(n - 11, 7)
      again(n) == Code(6, 3) \o Bits(n - 3, 2)
      fewZeros(n) == Code(7, 3) \o Bits(n - 3, 3)
      lens == Concat(<<zeros(65), two, two, zeros(138), zeros(51), two, fewZeros(5), two,
                       three, again(6), three>>)
      text == Concat(<<Code(0, 2), Code(1, 2), Code(0, 2), Code(0, 2), Code(1, 2),
                       Code(3, 2), Code(4, 3), Bits(0, 1), Code(2, 2)>>)
  IN  sizes \o codes \o lens \o text
DynamicData == <<65, 66, 65, 65, 66, 65, 66, 65, 65, 66, 65, 66, 65, 67, 68>>

\* The header with all it may hold; a block with trees of its own; a stored block after it, at
\* the next whole byte.
Whole ==
  [bytes |-> Header(31) \o <<2, 0, 7, 8>> \o <<110, 97, 0>> \o <<99, 0>> \o <<9, 9>>
               \o Bytes(DynamicBlock \o Bits(1, 3)) \o Tail(Stored(1, <<67, 68>>))
               \o <<128, 76, 9, 10>> \o <<15, 0, 0, 0>>,
   header |-> 21, data |-> DynamicData]
\* A name, and a stored block.
Named ==
  [bytes |-> Header(8) \o <<110, 0>> \o Stored(1, <<67, 68>>) \o <<176, 139, 60, 235>> \o <<2, 0, 0, 0>>,
   header |-> 12, data |-> <<67, 68>>]
Refused == {<<30, 139, 8, 0>>, <<31, 138, 8, 0>>, <<31, 139, 7, 0>>, <<31, 139, 8, 32>>}
Foreign1 == {Whole, Named} \cup {[bytes |-> b, header |-> 0, data |-> <<0>>] : b \in Refused}
=============================================================================
