----------------------------- MODULE MCTarPacker -----------------------------
(***************************************************************************)
(* TarPacker on small trees: up to MaxFiles files of all sizes side by     *)
(* side, and up to two empty files whose names are at the limits of a      *)
(* header (T_NAMELEN is 6), with or without an empty folder beside them.   *)
(***************************************************************************)
EXTENDS TarPacker, FiniteSets, SequencesExt

CONSTANT MaxFiles       \* (bound)

Root == FOLDER_SEPARATOR
\* The tree of these files and empty folders.
Above(path) == {Upto(path, k - 1) : k \in {k \in 2..Len(path) : path[k] = "/"}}
Tree(sizes, empty) ==
  LET dirs == {Root} \cup empty \cup UNION {Above(path) : path \in DOMAIN sizes \cup empty}
      Kids(dir) == {path \in (dirs \cup DOMAIN sizes) \ {Root} : dirname(path) = dir}
  IN  [kids |-> [dir \in dirs |-> SetToSeq(Kids(dir))], sizes |-> sizes]

a == "a"
b == "b"
s == "/"
Side == {<<s, a>>, <<s, b>>}
SizedTrees ==
  {Tree(sizes, {}) : sizes \in UNION {[paths -> Sizes] :
                       paths \in {paths \in SUBSET Side : Cardinality(paths) <= MaxFiles}}}
\* Short names, in folders of folders; the lengths 4 to 7; blanks, unprintable characters.
Names ==
  {<<s, a>>, <<s, a, s, b>>, <<s, b, s, a, s, b>>, <<s, b, b, b>>, <<s, b, b, b, a>>,
   <<s, b, b, b, b, b>>, <<s, a, a, s, b, b>>, <<s, b, b, b, b, b, b>>, <<s, b, " ">>,
   <<s, b, s, a, " ">>, <<s, a, s, "~">>, <<s, a, s, b, "~">>, <<s, "~", s, a>>,
   <<s, " ", b>>, <<s, " ", s, a>>, <<s, " ", b, b, b, b>>, <<s, " ", s, b, b, b>>,
   <<s, b, s, " ", b, b>>}
\* A path is a file or a folder, not both.
Fits(paths) == \A p, q \in paths : p \notin Above(q)
NamedTrees ==
  {Tree([path \in paths |-> 0], empty) :
     paths \in {paths \in SUBSET Names : Cardinality(paths) \in 1..2 /\ Fits(paths)},
     empty \in {{}, {<<s, b, a>>}}}
TarPrefixes == {NULL, <<<<b>>>>, <<<<s, b>>>>, <<<<".">>>>}
Call(t, dir, prefix) == [tree |-> t, folder |-> dir, tar_prefix |-> prefix]
MCCalls == {Call(t, Root, NULL) : t \in SizedTrees}
           \cup UNION {{Call(t, dir, prefix) : dir \in Dirs(t), prefix \in TarPrefixes} : t \in NamedTrees}
MCDestinations == {Root, <<s, b>>, <<s, a, s, b>>}
=============================================================================
