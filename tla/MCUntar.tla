------------------------------ MODULE MCUntar ------------------------------
(***************************************************************************)
(* Untar on small archives: up to MaxPieces entries or empty headers, then *)
(* up to two more empty headers, and everything such an archive leaves     *)
(* when it is cut at a block boundary.                                     *)
(***************************************************************************)
EXTENDS Untar, SequencesExt

CONSTANT MaxPieces     \* entries and empty headers before the end (bound)

Empty == [named |-> FALSE, blocks |-> 0]
Header(n) == [named |-> TRUE, blocks |-> n]
\* A data block may look like the header of an entry of one block.
Entry(n) == <<Header(n)>> \o [i \in 1..n |-> Header(1)]
Whole == {FlattenSeq(s) \o t : s \in SeqOf({Entry(n) : n \in 0..MaxBlocks} \cup {<<Empty>>}, MaxPieces),
                               t \in SeqOf({Empty}, 2)}
MCArchives == UNION {{SubSeq(a, 1, i) : i \in 0..Len(a)} : a \in Whole}
=============================================================================
