----------------------------- MODULE BitSequences -----------------------------
(***************************************************************************)
(* Numbers as sequences of bits, the lowest first, and what is read and    *)
(* written of them: outbits and mirrorbytes of                             *)
(* src/src/uzlib/defl_static.c, tinf_read_bits of                          *)
(* src/src/uzlib/tinflate.c.                                               *)
(***************************************************************************)
EXTENDS Integers, Sequences

Bits(value, n) ==
  LET half[i \in 0..n] == IF i = 0 THEN value ELSE half[i - 1] \div 2
  IN  [i \in 1..n |-> half[i - 1] % 2]
\* mirrorbytes: Huffman codes go out with their highest bit first.
Code(value, n) == LET bits == Bits(value, n) IN [i \in 1..n |-> bits[n + 1 - i]]
Value(bits) ==
  LET high[i \in 0..Len(bits)] == IF i = 0 THEN 0 ELSE 2 * high[i - 1] + bits[Len(bits) - i + 1]
  IN  high[Len(bits)]

\* tinf_read_bits, of n bits
ReadBits(bits, n) == Value(SubSeq(bits, 1, n))
Drop(bits, n) == SubSeq(bits, n + 1, Len(bits))
=============================================================================
