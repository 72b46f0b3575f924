------------------------------ MODULE TarPacker ------------------------------
(***************************************************************************)
(* Packing a folder to a .tar stream, or through LZStreamWriter to a       *)
(* .tar.gz stream: collectDirEntities, TarPacker::pack_files and           *)
(* TarGzPacker::compress (src/src/libpacker/LibPacker.hpp and .cpp) on top *)
(* of src/src/tar/libtar.c.                                                *)
(*                                                                         *)
(* The list of entities, with their sizes, is collected before the call.   *)
(* The header of an entity states the size its file has when the header is *)
(* written; how many blocks follow is computed from the collected size;    *)
(* what they hold is read from the file as it then is. Meanwhile another   *)
(* task may change it, and so does the packer when the archive is written  *)
(* over a file of the list. A directory is an entity of size 0.            *)
(***************************************************************************)
EXTENDS TarNames

CONSTANTS
  T_BLOCKSIZE,
  FloatBits,     \* of the significand of a float: 24
  Calls,         \* trees, the folder of each that is packed, tar_prefix (bound)
  Destinations,  \* the folders the archive may be expanded to (bound)
  Sizes,         \* the lengths of files (bound)
  ShortReads,    \* how much of a block a file may give, though it has more (bound)
  ShortWrites,   \* how much of a block a destination may take (bound)
  Faults         \* what else may go wrong, of FaultKinds

FaultKinds == {"change", "read", "refuse", "memory"}
\* A block is more than the two errors that are added up at the end.
ASSUME BlockAssumption == T_BLOCKSIZE \in Nat \ 0..2 /\ FloatBits \in Nat \ {0}
ASSUME EntitiesAssumption ==
  Sizes \subseteq Nat /\ ShortReads \subseteq 1..T_BLOCKSIZE-1
  /\ ShortWrites \subseteq 1..T_BLOCKSIZE-1
ASSUME PackerFaultsAssumption == Faults \subseteq FaultKinds

Failed == -1
NoReturn == -2
\* There is no file of that name any more.
Gone == -1

VARIABLES
  gz,                     \* dst_file is an LZStreamWriter
  tree, folder,           \* what is packed
  tar_prefix,             \* what its names are given, or NULL
  dirEntities,            \* what was collected of it
  _tarEntities,           \* and what pack_tar_impl works on
  files,                  \* the sizes its entities have now
  changed,                \* since they were collected, or not read as they are
  _tar_estimated_filesize,
  entity,                 \* the entity pack_tar_impl is at
  at,                     \* what it is about to do with it
  c,                      \* its body chunks, at the end the zero blocks, that are written
  position,               \* in src_file
  total_bytes,
  archive,                \* the blocks the destination took
  refused,                \* it did not take one whole
  packed,                 \* what pack_tar_impl returned
  returned                \* what the caller got

call == <<gz, tree, folder, tar_prefix, dirEntities>>
list == <<call, _tarEntities, _tar_estimated_filesize>>
result == <<packed, returned>>
vars == <<list, files, changed, entity, at, c, position, total_bytes, archive, refused, result>>

May(fault) == fault \in Faults
Least(a, b) == IF a < b THEN a ELSE b
Running == returned = NoReturn
Entities == 1..Len(dirEntities)

-----------------------------------------------------------------------------
(***************************************************************************)
(* Sizes in blocks.                                                        *)
(***************************************************************************)
Blocks(length) == (length + T_BLOCKSIZE - 1) \div T_BLOCKSIZE
\* What pack_tar_init expects of an entity: a header, and a body rounded up to blocks.
tar_entity_size(size) == T_BLOCKSIZE * (1 + Blocks(size))

\* A size as a float: the nearest number of FloatBits significant bits, to even.
Two[n \in Nat] == IF n = 0 THEN 1 ELSE 2 * Two[n - 1]
Holds(size, e) == size < Two[e] * Two[FloatBits]
Unit(size) == Two[CHOOSE e \in 0..size : Holds(size, e) /\ \A d \in 0..e-1 : ~Holds(size, d)]
Float(size) ==
  LET unit == Unit(size)
      down == size \div unit
      rest == 2 * (size % unit)
      up   == rest > unit \/ (rest = unit /\ down % 2 = 1)
  IN  unit * (IF up THEN down + 1 ELSE down)
\* ceil(float(current_entity.size)/T_BLOCKSIZE)
\* (A bug: rounded down.)
chunksDown == Float(_tarEntities[entity].size) \div T_BLOCKSIZE
chunks == Blocks(Float(_tarEntities[entity].size))

\* A block is a power of two; and no file is as long as the 2^33 bytes up to which the size
\* of a whole number of blocks is a float.
DirEntity == [path : Paths, is_dir : BOOLEAN, size : Nat]
ASSUME PowerAssumption == \E n \in 0..T_BLOCKSIZE : T_BLOCKSIZE = Two[n]
ASSUME CallsAssumption ==
  \A of \in Calls :
    LET entities == collectDirEntities(of.tree, of.folder)
    IN  /\ entities \in Seq(DirEntity)
        /\ \A e \in 1..Len(entities) : entities[e].size < T_BLOCKSIZE * Two[FloatBits]
        /\ of.tar_prefix # NULL => of.tar_prefix \in Seq(Paths) /\ Len(of.tar_prefix) = 1

-----------------------------------------------------------------------------
Estimate(entities) ==
  LET sum[i \in 0..Len(entities)] ==
        IF i = 0 THEN 2 * T_BLOCKSIZE ELSE sum[i - 1] + tar_entity_size(entities[i].size)
  IN  sum[Len(entities)]

\* A call, on a folder of a tree. Nothing of an earlier one is left that it would read.
Init ==
  /\ gz \in BOOLEAN
  /\ \E of \in Calls : tree = of.tree /\ folder = of.folder /\ tar_prefix = of.tar_prefix
  /\ dirEntities = collectDirEntities(tree, folder) /\ _tarEntities = <<>>
  /\ files = [e \in Entities |-> dirEntities[e].size] /\ changed = FALSE
  /\ _tar_estimated_filesize = 0 /\ entity = 1 /\ at = "init" /\ c = 0 /\ position = 0
  /\ total_bytes = 0 /\ archive = <<>> /\ refused = FALSE
  /\ packed = NoReturn /\ returned = NoReturn

\* pack_tar_init. No entity is left out: the path by which the archive is to know itself
\* is a null pointer.
PackTarInit ==
  /\ Running /\ at = "init"
  /\ _tarEntities' = [e \in Entities |->
       [realpath |-> dirEntities[e].path, savepath |-> savepath(dirEntities[e].path, tar_prefix),
        is_dir |-> dirEntities[e].is_dir, size |-> dirEntities[e].size]]
  /\ _tar_estimated_filesize' = Estimate(dirEntities) /\ at' = "header"
  /\ UNCHANGED <<call, files, changed, entity, c, position, total_bytes, archive, refused, result>>

\* tar_init has no memory for tar_block.
InitFails ==
  /\ Running /\ at = "init" /\ May("memory")
  /\ packed' = Failed /\ returned' = Failed
  /\ UNCHANGED <<list, files, changed, entity, at, c, position, total_bytes, archive, refused>>

\* A file that is not packed yet grows, shrinks or goes away, in another task or under
\* the packer.
Change(f, size) ==
  /\ Running /\ May("change") /\ f >= entity /\ size # files[f]
  /\ dirEntities[f].is_dir => size = Gone
  /\ files' = [files EXCEPT ![f] = size] /\ changed' = TRUE
  /\ UNCHANGED <<list, entity, at, c, position, total_bytes, archive, refused, result>>

-----------------------------------------------------------------------------
(***************************************************************************)
(* writefunc: a stream takes the block, a part of it or nothing, and says  *)
(* so. LZStreamWriter takes it, or answers -1 from then on; it ends its    *)
(* output with the block that completes the length it was created with.    *)
(***************************************************************************)
th_name(e) == th_set_path(_tarEntities[e].savepath, _tarEntities[e].is_dir)
Torn == [kind |-> "torn"]
Zero == [kind |-> "zero"]
Header(e, size) == [kind |-> "header", entry |-> e, size |-> size,
                    name |-> th_name(e), is_dir |-> _tarEntities[e].is_dir]
Data(e, from, count) == [kind |-> "data", entry |-> e, from |-> from, count |-> count]

WriteResults ==
  IF gz
  THEN (IF refused THEN {} ELSE {T_BLOCKSIZE}) \cup (IF refused \/ May("refuse") THEN {-1} ELSE {})
  ELSE {T_BLOCKSIZE} \cup (IF May("refuse") THEN {0} ELSE {})
       \cup ShortWrites
Took(block, written) ==
  /\ archive' = IF written = T_BLOCKSIZE THEN Append(archive, block)
                ELSE IF written > 0 THEN Append(archive, Torn) ELSE archive
  /\ refused' = (refused \/ written < T_BLOCKSIZE)

\* What a write adds to total_bytes. (A bug: a block, whatever was written.)
CountedWhole(written) == T_BLOCKSIZE
Counted(written) == written

\* pack_tar_impl returns. What pack_files returns is that; what TarGzPacker::compress
\* returns is "ret ? lzStream.size() : -1", where -1 is as true as a size.
lzSize(blocks) == 1 + Len(blocks)
Return(code) ==
  /\ packed' = code
  /\ returned' = IF ~gz THEN code ELSE IF code # 0 THEN lzSize(archive') ELSE Failed

-----------------------------------------------------------------------------
(***************************************************************************)
(* pack_tar_impl.                                                          *)
(***************************************************************************)
NextEntity == entity' = entity + 1 /\ at' = "header" /\ c' = 0 /\ position' = 0

\* add_header does not find the file.
StatFails ==
  /\ Running /\ at = "header" /\ entity \in Entities /\ files[entity] = Gone
  /\ UNCHANGED <<list, files, changed, entity, at, c, position, total_bytes, archive, refused>>
  /\ Return(Failed)

\* fs.stat's st_size
st_size == files[entity]

\* add_header: stat, then th_write, which insists on a whole block.
AddHeader ==
  /\ Running /\ at = "header" /\ entity \in Entities /\ files[entity] # Gone
  /\ \E written \in WriteResults :
       /\ Took(Header(entity, st_size), written)
       /\ IF written # T_BLOCKSIZE
          THEN UNCHANGED <<entity, at, c, position, total_bytes>> /\ Return(Failed)
          ELSE /\ total_bytes' = total_bytes + T_BLOCKSIZE /\ UNCHANGED result
               /\ IF _tarEntities[entity].size > 0
                  THEN at' = "open" /\ UNCHANGED <<entity, c, position>>
                  ELSE NextEntity
  /\ UNCHANGED <<list, files, changed>>

OpenSource ==
  /\ Running /\ at = "open"
  /\ UNCHANGED <<list, files, changed, entity, c, position, total_bytes, archive, refused>>
  /\ IF files[entity] = Gone THEN Return(Failed) /\ UNCHANGED at
                             ELSE at' = "body" /\ UNCHANGED result

\* What the file gives.
Left == IF files[entity] > position THEN Least(T_BLOCKSIZE, files[entity] - position) ELSE 0
\* add_body_chunk goes on with anything but nothing. (A bug: with anything.)
AnyRead(count) == count >= 0
CouldRead(count) == count > 0
Reads == {Left} \cup {count \in ShortReads : count < Left}

ReadFails ==
  /\ Running /\ at = "body" /\ (~CouldRead(Left) \/ May("read"))
  /\ UNCHANGED <<list, files, changed, entity, at, c, position, total_bytes, archive, refused>>
  /\ Return(Failed)

\* A whole block is written, zero padded, in the middle of a file too if less was read;
\* -1 is the only answer that is an error.
AddBodyChunk ==
  /\ Running /\ at = "body" /\ CouldRead(Left)
  /\ \E count \in Reads, written \in WriteResults :
       /\ changed' = (changed \/ count < Left)
       /\ Took(Data(entity, position, count), written)
       /\ IF written = -1
          THEN UNCHANGED <<entity, at, c, position, total_bytes>> /\ Return(Failed)
          ELSE /\ total_bytes' = total_bytes + Counted(written) /\ UNCHANGED result
               /\ IF c + 1 < chunks
                  THEN c' = c + 1 /\ position' = position + count /\ UNCHANGED <<entity, at>>
                  ELSE NextEntity
  /\ UNCHANGED <<list, files>>

\* add_eof_chunk, twice: whatever the writes answer is added up and returned.
AddEof ==
  /\ Running /\ at = "header" /\ entity > Len(_tarEntities)
  /\ \E written \in WriteResults :
       /\ Took(Zero, written)
       /\ total_bytes' = total_bytes + Counted(written)
       /\ IF c = 0 THEN c' = 1 /\ UNCHANGED result ELSE UNCHANGED c /\ Return(total_bytes')
  /\ UNCHANGED <<list, files, changed, entity, at, position>>

Step == PackTarInit \/ InitFails \/ StatFails \/ AddHeader \/ OpenSource \/ ReadFails
        \/ AddBodyChunk \/ AddEof
Next == Step \/ \E f \in Entities, size \in Sizes \cup {Gone} : Change(f, size)
Spec == Init /\ [][Next]_vars

-----------------------------------------------------------------------------
CollectedSizes == [e \in Entities |-> dirEntities[e].size]
ArchiveBlocks ==
  [kind : {"torn", "zero"}]
  \cup [kind : {"header"}, entry : Nat, size : Nat, name : Paths, is_dir : BOOLEAN]
  \cup [kind : {"data"}, entry : Nat, from : Nat, count : 1..T_BLOCKSIZE]
TarEntity == [realpath : Paths, savepath : Paths, is_dir : BOOLEAN, size : Nat]
PkTypeOK ==
  /\ gz \in BOOLEAN /\ changed \in BOOLEAN /\ refused \in BOOLEAN
  /\ dirEntities \in Seq(DirEntity)
  /\ _tarEntities \in Seq(TarEntity)
  /\ files \in [Entities -> Nat \cup {Gone}] /\ _tar_estimated_filesize \in Nat
  /\ entity \in 1..Len(dirEntities)+1 /\ at \in {"init", "header", "open", "body"}
  /\ c \in Nat /\ position \in Nat /\ total_bytes \in Int
  /\ archive \in Seq(ArchiveBlocks) /\ packed \in Int /\ returned \in Int
  /\ \A b \in 1..Len(archive) : archive[b].kind = "header" => Len(archive[b].name) < T_NAMELEN

\* What a tar reader makes of the archive from a block on: an entry is a header and the
\* blocks its size asks for. It gives up, with a 0, where it finds no header.
GivesUp == <<[entry |-> 0]>>
ReadFrom ==
  LET last == Len(archive)
      read[p \in 1..last+1] ==
        IF p = last - 1 /\ archive[p] = Zero /\ archive[last] = Zero THEN <<>>
        ELSE IF p > last THEN GivesUp
        ELSE IF archive[p].kind # "header" THEN GivesUp
        ELSE LET end == p + Blocks(archive[p].size)
             IN  IF end > last THEN GivesUp
                 ELSE <<[entry |-> archive[p].entry, size |-> archive[p].size,
                         data |-> SubSeq(archive, p + 1, end)]>> \o read[end + 1]
  IN  read[1]
\* What it is to make of it: the collected entities, with all of their bytes.
Body(e, size) ==
  [b \in 1..Blocks(size) |->
     Data(e, T_BLOCKSIZE * (b - 1), Least(T_BLOCKSIZE, size - T_BLOCKSIZE * (b - 1)))]
Collected ==
  [e \in Entities |->
     [entry |-> e, size |-> CollectedSizes[e], data |-> Body(e, CollectedSizes[e])]]

\* No file changed its number of blocks between the collection and its header.
BlocksKept ==
  \A b \in 1..Len(archive) :
    archive[b].kind = "header" => Blocks(archive[b].size) = Blocks(CollectedSizes[archive[b].entry])
Entries(read) == [e \in 1..Len(read) |-> read[e].entry]
Found == Entries(ReadFrom) = [e \in Entities |-> e]

\* The size pack_files returns can be trusted: if it is the one that was estimated ("Success:
\* estimated size matches output size") and no file has changed, the destination holds all
\* of the archive, however it treats writes and however sizes are rounded. And if files
\* have changed but kept their number of blocks, every entry is still found, in the order
\* of the list.
FullSize == ~Running /\ packed = _tar_estimated_filesize
FullSizeMeansArchive ==
  FullSize => (~changed => ReadFrom = Collected) /\ (BlocksKept => Found)

\* Sizes a float can hold.
Exact == \A e \in Entities : Float(CollectedSizes[e]) = CollectedSizes[e]
Place(e) == (Estimate(SubSeq(dirEntities, 1, e - 1)) - 2 * T_BLOCKSIZE) \div T_BLOCKSIZE + 1
\* The layout is the estimated one, whatever happens to the files: the header of each
\* entity is where the collected sizes place it, and a call that does not fail writes
\* what was estimated.
LayoutKept ==
  Exact /\ ~refused =>
    /\ \A e \in 1..entity-1 : Place(e) <= Len(archive) /\ archive[Place(e)].kind = "header"
                            /\ archive[Place(e)].entry = e
    /\ ~Running /\ packed # Failed => packed = _tar_estimated_filesize

-----------------------------------------------------------------------------
(***************************************************************************)
(* Packing and expanding.                                                  *)
(***************************************************************************)
\* The files under the folder that is packed whose paths are not too long.
Sources ==
  {path \in DOMAIN tree.sizes : /\ Len(path) <= max_path_len
                                /\ folder = FOLDER_SEPARATOR \/ StartsWith(path, folder \o <<"/">>)}
\* What a file is called below the folder its archive is expanded to. (A "./" says nothing.)
Wanted(path) == (IF tar_prefix = NULL THEN <<".">> ELSE tar_prefix[1]) \o path
Called(path) ==
  IF StartsWith(Wanted(path), <<".", "/">>) THEN From(Wanted(path), 3) ELSE Wanted(path)
Restored(dest, path) ==
  (IF dest = FOLDER_SEPARATOR THEN <<>> ELSE dest) \o <<"/">> \o Called(path)
\* The names that survive. A header holds all of a name but for one length, and of a longer
\* one what follows its first slash; blanks at the ends of what it holds are padding to the
\* reader; a folder, or the first character of a file, that cannot be printed keeps mkdirp
\* from making the folder; a name from the root is one mkpath may not return from.
Stored(name) == IF Len(name) < T_NAMELEN THEN name ELSE From(name, 3)
Survives(path) ==
  LET name == Wanted(path)
      Slashes == {k \in 1..Len(name) : name[k] = "/"}
  IN  /\ Len(name) < T_NAMELEN \/ (tar_prefix = NULL /\ Len(name) = T_NAMELEN + 1)
      /\ Stored(name)[1] # " " /\ name[Len(name)] # " " /\ Called(path)[1] # "/"
      /\ \A k \in 1..Len(name) : name[k] \in Unprintable => \A s \in Slashes : s < k - 1

Headers == SelectSeq(archive, LAMBDA block : block.kind = "header")
\* What is packed comes back: expanding a whole archive to any folder of an empty filesystem
\* returns without an error, with every file of the packed folder in its place, under the
\* name and with the contents it had, and with no other file, as long as all of the names
\* survive the header, trim and mkdirp. (Folders that hold no file do not come back.)
TreeComesBack ==
  FullSize /\ ~changed /\ (\A path \in Sources : Survives(path)) =>
    \A dest \in Destinations :
      LET fs == Expanded(dest, Headers)
      IN  /\ fs.ok /\ DOMAIN fs.files = {Restored(dest, path) : path \in Sources}
          /\ \A path \in Sources : dirEntities[fs.files[Restored(dest, path)]].path = path
=============================================================================
