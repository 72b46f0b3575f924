----------------------------- MODULE MCTarFiles -----------------------------
(***************************************************************************)
(* TarFiles on small archives: up to two entries, of files of up to        *)
(* two blocks under two paths, directories (with data, which TarPacker     *)
(* never writes, and without) and ignored entries; ended by two empty      *)
(* headers, then cut by a number of blocks out of Cuts.                    *)
(***************************************************************************)
EXTENDS TarFiles

CONSTANT Cuts       \* (a bound)

Header(type, path, n) == [named |-> TRUE, blocks |-> n, type |-> type, path |-> path]
Empty == [named |-> FALSE, blocks |-> 0, type |-> "file", path |-> "a"]
Data(n) == [k \in 1..n |-> Empty]
FileEntries == {<<Header("file", p, n)>> \o Data(n) : p \in Paths, n \in {0, 2}}
DirEntries == {<<Header("dir", "a", n)>> \o Data(n) : n \in {0, 1}}
IgnoredEntry == <<Header("ignored", "b", 1)>> \o Data(1)
Pieces == FileEntries \cup DirEntries \cup {IgnoredEntry}
Entries == {<<>>} \cup Pieces \cup {p \o q : p \in Pieces, q \in Pieces}
Whole == {e \o Data(2) : e \in Entries}
MCArchives == UNION {{SubSeq(a, 1, Len(a) - c) : c \in {d \in Cuts : d <= Len(a)}} : a \in Whole}
=============================================================================
