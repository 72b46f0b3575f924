------------------------------- MODULE Huffman -------------------------------
(***************************************************************************)
(* The code tables and trees of src/src/uzlib/tinflate.c, and what it      *)
(* reads with them off the front of a sequence of bits. A tree is the      *)
(* number of codes of each length, and the symbols in the order of their   *)
(* codes.                                                                  *)
(***************************************************************************)
EXTENDS BitSequences, FiniteSets

TINF_OK == 0
TINF_DONE == 1
TINF_DATA_ERROR == -3
TINF_CHKSUM_ERROR == -4
TINF_DICT_ERROR == -5

\* By symbol from 0: of lengths (less 257), of distances, and of code lengths.
length_bits == <<
  0, 0, 0, 0, 0, 0, 0, 0, 1, 1, 1, 1, 2, 2, 2, 2, 3, 3, 3, 3, 4, 4, 4, 4, 5, 5, 5, 5, 0, 0>>
length_base == <<
  3, 4, 5, 6, 7, 8, 9, 10, 11, 13, 15, 17, 19, 23, 27, 31, 35, 43, 51, 59, 67, 83, 99, 115,
  131, 163, 195, 227, 258, 0>>
dist_bits == <<
  0, 0, 0, 0, 1, 1, 2, 2, 3, 3, 4, 4, 5, 5, 6, 6, 7, 7, 8, 8, 9, 9, 10, 10, 11, 11, 12, 12,
  13, 13>>
dist_base == <<
  1, 2, 3, 4, 5, 7, 9, 13, 17, 25, 33, 49, 65, 97, 129, 193, 257, 385, 513, 769, 1025, 1537,
  2049, 3073, 4097, 6145, 8193, 12289, 16385, 24577>>
clcidx == <<16, 17, 18, 0, 8, 7, 9, 6, 10, 5, 11, 4, 12, 3, 13, 2, 14, 1, 15>>

-----------------------------------------------------------------------------
\* tinf_build_tree: lengths is a function from symbols, 0 is an unused one.
Used(lengths) == {s \in DOMAIN lengths : lengths[s] > 0}
\* The place of a symbol: after the shorter codes, and the smaller symbols of its length.
Place(lengths, s) ==
  Cardinality({t \in Used(lengths) : \/ lengths[t] < lengths[s]
                                     \/ lengths[t] = lengths[s] /\ t < s})
tinf_build_tree(lengths) ==
  [table |-> [n \in 1..15 |-> Cardinality({s \in DOMAIN lengths : lengths[s] = n})],
   trans |-> [k \in 0..Cardinality(Used(lengths)) - 1 |->
                CHOOSE s \in Used(lengths) : Place(lengths, s) = k]]

\* tinf_build_fixed_trees
fixed_ltree ==
  [table |-> [n \in 1..15 |-> IF n = 7 THEN 24 ELSE IF n = 8 THEN 152 ELSE IF n = 9 THEN 112 ELSE 0],
   trans |-> [k \in 0..287 |-> IF k < 24 THEN 256 + k
                               ELSE IF k < 168 THEN k - 24
                               ELSE IF k < 176 THEN k - 168 + 280 ELSE k - 176 + 144]]
fixed_dtree ==
  [table |-> [n \in 1..15 |-> IF n = 5 THEN 32 ELSE 0], trans |-> [k \in 0..31 |-> k]]

-----------------------------------------------------------------------------
(***************************************************************************)
(* tinf_decode_symbol. After n bits cur is the code less the first one of  *)
(* more bits: negative from the end of the code on.                        *)
(***************************************************************************)
Cur(bits, tree, n) ==
  LET cur[k \in 0..n] == IF k = 0 THEN 0 ELSE 2 * cur[k - 1] + bits[k] - tree.table[k]
  IN  cur[n]
\* The symbols with a code of n bits or less.
Sum(tree, n) ==
  LET sum[k \in 0..n] == IF k = 0 THEN 0 ELSE sum[k - 1] + tree.table[k] IN sum[n]
\* The length of the code at the front: more than there are bits when they do not tell,
\* 16 when it is none.
CodeLength(bits, tree) ==
  Cardinality({n \in 0..15 : n <= Len(bits) /\ Cur(bits, tree, n) >= 0})
Decoded(bits, tree) ==
  LET n == CodeLength(bits, tree)
  IN  IF n = 16 THEN TINF_DATA_ERROR ELSE tree.trans[Sum(tree, n) + Cur(bits, tree, n)]
=============================================================================
