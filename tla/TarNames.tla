------------------------------ MODULE TarNames ------------------------------
(***************************************************************************)
(* The names of files, on their way from a folder through an archive to    *)
(* another folder: collectDirEntities finds them (src/src/libpacker/       *)
(* LibPacker.hpp), pack_tar_init prefixes them, th_set_path fits them into *)
(* a header (src/src/tar/libtar.c), trim takes them out (src/src/TinyUntar *)
(* /untar.c), tarHeaderCallBack makes a path of them, and mkdirp and mkpath *)
(* (src/src/helpers/path_tools.h) the folders of that path.                *)
(*                                                                         *)
(* A path is a sequence of characters; what is told apart is "/", ".", " " *)
(* and the characters that isPrintable refuses. A C string ends where the  *)
(* sequence ends.                                                          *)
(***************************************************************************)
EXTENDS Integers, SequencesExt

CONSTANTS
  T_NAMELEN,     \* the size of a header's name: 100
  Unprintable,   \* characters
  Letters        \* the characters that are none of them, nor "/", "." or " "

ASSUME NamesAssumption == T_NAMELEN \in Nat \ 0..2 /\ Unprintable \cap {"/", ".", " "} = {}

Characters == {"/", ".", " "} \cup Unprintable \cup Letters
Paths == Seq(Characters)
\* The longest path collectDirEntities takes: 100 as well.
max_path_len == T_NAMELEN
FOLDER_SEPARATOR == <<"/">>
StartsWith(path, prefix) == IsPrefix(prefix, path)
IsSlash(char) == char = "/"
Upto(path, n) == SubSeq(path, 1, n)
From(path, n) == SubSeq(path, n, Len(path))

-----------------------------------------------------------------------------
(***************************************************************************)
(* path_tools.h.                                                           *)
(***************************************************************************)
\* Where the run of slashes that ends at a place of a path begins.
RunStart(path, last) == CHOOSE s \in 1..last : /\ \A k \in s..last : IsSlash(path[k])
                                               /\ s = 1 \/ ~IsSlash(path[s - 1])

LastSlash(path) == SelectLastInSeq(path, IsSlash)
\* Slashes at the end of a path do not separate, but those it begins with.
Stripped(path, slash) ==
  IF slash > 1 /\ slash = Len(path) /\ RunStart(path, slash) # 1
  THEN Upto(path, RunStart(path, slash) - 1) ELSE path
Before(path, last) ==
  CASE last = 0 -> <<".">>
    [] last # 0 /\ RunStart(path, last) = 1 -> Upto(path, IF last = 2 THEN 2 ELSE 1)
    [] OTHER -> Upto(path, RunStart(path, last) - 1)
dirname(path) == Before(path, LastSlash(Stripped(path, LastSlash(path))))

\* A filesystem: its folders, its files with the entry each was written by, and whether
\* everything that was asked of it returned without an error.
Mkdir(fs, dir) ==
  IF dirname(dir) \in fs.dirs /\ dir \notin DOMAIN fs.files
  THEN [fs EXCEPT !.dirs = @ \cup {dir}] ELSE fs
Exists(fs, path) == path \in fs.dirs \/ path \in DOMAIN fs.files

\* mkpath asks for a folder after it asked for the one that holds it, and stops at "/". The
\* folder of "." is ".", that of "//" is "//": from there it never returns.
Parents(dir) ==
  LET up[n \in 0..Len(dir)] == IF n = 0 THEN dir ELSE dirname(up[n - 1]) IN up
MkdirFromTop(fs, up) ==
  LET Tops == {n \in DOMAIN up : up[n] = FOLDER_SEPARATOR}
  IN  IF Tops = {} THEN [fs EXCEPT !.ok = FALSE]
      ELSE LET top == CHOOSE n \in Tops : \A k \in Tops : n <= k
           IN  FoldLeft(Mkdir, fs, [k \in 1..top |-> up[top - k]])
mkpath(fs, dir) == MkdirFromTop(fs, Parents(dir))

\* A character that cannot be printed ends the path mkdirp makes folders for.
Printed(path) ==
  LET bad == SelectInSeq(path, LAMBDA char : char \in Unprintable)
  IN  IF bad = 0 THEN path ELSE Upto(path, bad - 1)
mkdirp(fs, path) ==
  LET dir_name == dirname(Printed(path))
  IN  IF Exists(fs, path) \/ Exists(fs, dir_name) THEN fs ELSE mkpath(fs, dir_name)

-----------------------------------------------------------------------------
(***************************************************************************)
(* Packing.                                                                *)
(***************************************************************************)
\* A folder's tree: what each of its folders lists, in order, and the sizes of its files.
Dirs(tree) == DOMAIN tree.kids
Entity(path, is_dir, size) == [path |-> path, is_dir |-> is_dir, size |-> size]
collectDirEntities(tree, folder) ==
  LET collected[dir \in Dirs(tree)] ==
        LET Of(path) ==
              IF Len(path) > max_path_len THEN <<>>
              ELSE IF path \in Dirs(tree) THEN collected[path]
              ELSE <<Entity(path, FALSE, tree.sizes[path])>>
            Add(list, path) == list \o Of(path)
        IN  FoldLeft(Add, IF dir = FOLDER_SEPARATOR THEN <<>> ELSE <<Entity(dir, TRUE, 0)>>,
                     tree.kids[dir])
  IN  IF folder \in Dirs(tree) THEN collected[folder] ELSE <<>>

\* tar_prefix is a path in a sequence of its own, or a null pointer.
NULL == <<>>
\* (A bug: the path as it is.)
Undotted(path, tar_prefix) == IF tar_prefix = NULL THEN path ELSE tar_prefix[1] \o path
savepath(path, tar_prefix) ==
  CASE tar_prefix # NULL -> tar_prefix[1] \o path
    [] tar_prefix = NULL /\ StartsWith(path, FOLDER_SEPARATOR) -> <<".">> \o path
    [] OTHER -> path

\* snprintf into the name of a header, which keeps a byte for the end.
Fitted(name) == Upto(name, IF Len(name) < T_NAMELEN THEN Len(name) ELSE T_NAMELEN - 1)
\* The name of a header. The start of a path that is too long goes to another field, which
\* the reader does not read; if nothing can be split off, no name is set.
th_set_path(pathname, is_dir) ==
  LET suffix == IF is_dir /\ pathname[Len(pathname)] # "/" THEN <<"/">> ELSE <<>>
      tmp == SelectInSubSeq(pathname, Len(pathname) - T_NAMELEN, Len(pathname), IsSlash)
  IN  CASE Len(pathname) <= T_NAMELEN -> Fitted(pathname \o suffix)
        [] Len(pathname) > T_NAMELEN /\ tmp = 0 -> <<>>
        [] OTHER -> Fitted(From(pathname, tmp + 1) \o suffix)

-----------------------------------------------------------------------------
(***************************************************************************)
(* Expanding.                                                              *)
(***************************************************************************)
trim(raw) ==
  LET Kept == {k \in 1..Len(raw) : raw[k] # " "}
  IN  IF Kept = {} THEN <<>>
      ELSE SubSeq(raw, CHOOSE k \in Kept : \A l \in Kept : k <= l,
                       CHOOSE k \in Kept : \A l \in Kept : k >= l)

tar_file_path(tarDestFolder, filename) ==
  LET name == IF StartsWith(filename, <<".", "/">>) THEN From(filename, 3) ELSE filename
      slash == IF tarDestFolder[Len(tarDestFolder)] = "/" THEN <<>> ELSE FOLDER_SEPARATOR
  IN  (IF tarDestFolder = FOLDER_SEPARATOR THEN FOLDER_SEPARATOR ELSE tarDestFolder \o slash) \o name

\* tarHeaderCallBack creates the file of an entry; a folder is only counted. A header
\* without a name is not an entry.
CreateFile(made, path, entry) ==
  IF made.ok /\ path \notin made.dirs /\ dirname(path) \in made.dirs
  THEN [made EXCEPT !.files = [p \in DOMAIN @ \cup {path} |-> IF p = path THEN entry ELSE @[p]]]
  ELSE [made EXCEPT !.ok = FALSE]
CreateWithFolders(fs, path, entry) == CreateFile(mkdirp(fs, path), path, entry)
tarHeaderCallBack(fs, tarDestFolder, header, entry) ==
  IF header.is_dir \/ trim(header.name) = <<>> \/ ~fs.ok THEN fs
  ELSE CreateWithFolders(fs, tar_file_path(tarDestFolder, trim(header.name)), entry)

\* An empty filesystem, and the folder an expansion makes in it before the first entry.
EmptyFS == [dirs |-> {FOLDER_SEPARATOR}, files |-> <<>>, ok |-> TRUE]
Destination(tarDestFolder) == Mkdir(EmptyFS, tarDestFolder)
\* What an archive of these headers makes of it.
Expanded(tarDestFolder, headers) ==
  LET Put(fs, e) == tarHeaderCallBack(fs, tarDestFolder, headers[e], e)
  IN  FoldLeft(Put, Destination(tarDestFolder), [e \in 1..Len(headers) |-> e])
=============================================================================
