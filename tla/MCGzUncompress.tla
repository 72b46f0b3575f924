--------------------------- MODULE MCGzUncompress ---------------------------
(***************************************************************************)
(* GzUncompress on the well-formed archives of up to MaxPieces entries and *)
(* MaxArchive blocks: two empty headers end them, MaxPadding more blocks   *)
(* may follow, in an archive that is shorter by as many.                   *)
(***************************************************************************)
EXTENDS GzUncompress, SequencesExt

CONSTANTS MaxPieces, MaxPadding, MaxArchive     \* (bounds)

Empty == [named |-> FALSE, blocks |-> 0]
Header(n) == [named |-> TRUE, blocks |-> n]
Entry(n) == <<Header(n)>> \o [i \in 1..n |-> Header(1)]
Padding(k) == [i \in 1..k |-> Empty]
TarEntries == {FlattenSeq(s) : s \in SeqOf({Entry(n) : n \in 0..MaxBlocks}, MaxPieces)}
WholeStreams ==
  UNION {{e \o Padding(2 + k) : e \in {e \in TarEntries : Len(e) + 2 + 2 * k <= MaxArchive}} :
         k \in 0..MaxPadding}
ASSUME WholeStreamsAreComplete == \A a \in WholeStreams : Complete(a)
=============================================================================
