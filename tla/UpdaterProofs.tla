---------------------------- MODULE UpdaterProofs ----------------------------
(***************************************************************************)
(* Theorems about the updates over the air (module Updater), for every     *)
(* size of a sector, of an image and of an archive.                        *)
(***************************************************************************)
EXTENDS Updater, SequenceTheorems, TLAPS

\* A number that is so many times n, and r less than n, has the rest r.
LEMMA ModUnique ==
  ASSUME NEW q \in Nat, NEW n \in Nat \ {0}, NEW r \in 0..n-1
  PROVE  (q * n + r) % n = r
OBVIOUS

Unit == (0..MaxEntries) \X (0..MaxSize)
Partition == {"U_FLASH", "U_PART"}
Commit == [to : Partition, content : Seq(Unit)]

\* The conjuncts of UpTypeOK; what was committed is a sequence of contents.
UpdateTypes ==
  /\ partition \in {"none"} \cup Partition /\ room \in 0..Unlimited
  /\ flashed \in Seq(Unit) /\ committed \in Seq(Commit)
FlagTypes ==
  /\ updateError \in BOOLEAN /\ callbacks \in BOOLEAN /\ tarBlockIsUpdateData \in BOOLEAN
  /\ fresh \in BOOLEAN /\ sound \in BOOLEAN /\ damaged \in BOOLEAN /\ stale \in BOOLEAN
  /\ fits \in BOOLEAN
EntryTypes == mode \in {"image", "archive"} /\ entries \in Seq(Entries)
PlaceTypes == entry \in 1..(MaxEntries + 1) /\ block \in 0..MaxSize /\ outlen \in Nat
ResultTypes ==
  /\ _error \in {ESP32_TARGZ_OK, AnError}
  /\ pc \in {"idle", "inflating", "ending", "setup", "raw", "header", "data", "end"}
  /\ returned \in {"none", "no", "true", "false", "crash"}
Types == UpdateTypes /\ FlagTypes /\ EntryTypes /\ PlaceTypes /\ ResultTypes

\* Where a call is in its stream.
Phases == returned = "no" <=> pc # "idle"
OfImage == pc \in {"inflating", "ending"}
OfArchive == pc \in {"header", "data", "end"}
BeforeTar == pc \in {"setup", "raw"}
Stages ==
  /\ OfImage =>
       mode = "image" /\ Len(entries) = 1 /\ entry = 1 /\ IsImage(1) /\ committed = <<>>
  /\ OfArchive => mode = "archive" /\ Len(entries) <= MaxEntries
  /\ BeforeTar =>
       /\ mode = "archive" /\ Len(entries) <= MaxEntries
       /\ committed = <<>> /\ entry = 1 /\ block = 0
  /\ pc = "header" => block = 0 /\ entry \in 1..(Len(entries) + 1)
  /\ pc \in {"data", "end"} => entry \in 1..Len(entries)
  /\ pc = "data" => block < Size
  /\ pc = "end" => block = Size

\* What Update holds of an image: what was inflated, then all of it and its zeros.
Inflated ==
  /\ pc = "inflating" =>
       /\ block <= Size /\ outlen = block
       /\ partition = PartitionOf(entries[1].kind) /\ ~updateError /\ flashed = Units(0, block)
  /\ pc = "ending" /\ partition # "none" /\ ~updateError =>
       partition = PartitionOf(entries[1].kind) /\ flashed = ImageOf(1)

\* And of an entry of an archive: nothing, unless it is an image. The images before it are
\* committed.
OfEntry ==
  /\ tarBlockIsUpdateData <=> IsImage(entry)
  /\ IsImage(entry) =>
       /\ partition = PartitionOf(entries[entry].kind) /\ ~updateError
       /\ flashed = Units(0, block) /\ room = Size - block
  /\ ~IsImage(entry) => partition = "none"
Unpacked ==
  fresh =>
    /\ pc \in {"setup", "header"} => partition = "none" /\ ~tarBlockIsUpdateData
    /\ pc \in {"data", "end"} => OfEntry
    /\ OfArchive => FlashedBefore(entry)

\* The conditions of SoundUpdateSucceeds, under which there is room for all that is to come,
\* zeros included, and nothing is refused.
Sane ==
  /\ sound /\ fresh /\ fits /\ ~damaged
  /\ mode = "archive" =>
       /\ callbacks /\ gzWriteCallback = "gzProcessTarBuffer"
       /\ \A e \in DOMAIN entries : IsImage(e)
  /\ mode = "image" => ~(stale /\ entries # <<>> /\ entries[1].size % SPI_FLASH_SEC_SIZE = 0)
  /\ \A e \in DOMAIN entries : entries[e].size > 0
Roomy ==
  Sane =>
    /\ pc = "inflating" =>
         /\ WholeSectors(Size) <= room + block
         /\ _error # ESP32_TARGZ_OK => Size % SPI_FLASH_SEC_SIZE # 0
    /\ pc = "ending" => partition # "none" /\ ~updateError

\* What a call has committed when it returns, whatever it returns.
SomeFlashed == \E last \in 1..(Len(entries) + 1) : FlashedBefore(last)
Results ==
  /\ returned \in {"true", "false", "crash"} /\ fresh => SomeFlashed
  /\ returned = "none" => committed = <<>>

\* The write callback that is installed, and the tar machine: it runs under its own callback
\* only, and what a fresh call finds of it is at rest.
Writer ==
  /\ gzWriteCallback \in {"none", "gzUpdateWriteCallback", "gzProcessTarBuffer"}
  /\ firstblock \in BOOLEAN /\ atRest \in BOOLEAN
  /\ BeforeTar => firstblock
  /\ pc = "raw" => gzWriteCallback # "gzProcessTarBuffer"
  /\ OfArchive => ~firstblock
  /\ OfArchive \/ pc = "setup" => (fresh => atRest)

IInv ==
  /\ Types /\ Phases /\ Stages /\ Inflated /\ Unpacked /\ Roomy /\ Results
  /\ SuccessMeansFlashed /\ SoundUpdateSucceeds

-----------------------------------------------------------------------------
(***************************************************************************)
(* Numbers and sequences.                                                  *)
(***************************************************************************)
LEMMA Bounds ==
  /\ SPI_FLASH_SEC_SIZE \in Nat \ {0} /\ MaxSize \in Nat /\ MaxEntries \in Nat \ {0}
  /\ Unlimited \in Nat /\ MaxSize <= Unlimited
BY UpdaterAssumption DEF Unlimited

\* What is missing to a whole number of sectors is the remainder of the opposite.
LEMMA OppositeRest ==
  ASSUME NEW q \in Nat, NEW s \in Nat \ {0}, NEW r \in 0..s-1
  PROVE  (r - q * s) % s = r
OBVIOUS

LEMMA Sectors ==
  ASSUME NEW n \in Nat
  PROVE  /\ WholeSectors(n) \in Nat /\ n <= WholeSectors(n)
         /\ WholeSectors(n) <= n + SPI_FLASH_SEC_SIZE - 1
         /\ WholeSectors(n) - n = (-n) % SPI_FLASH_SEC_SIZE
         /\ WholeSectors(n) = n => n % SPI_FLASH_SEC_SIZE = 0
<1> DEFINE s == SPI_FLASH_SEC_SIZE
           a == n + s - 1
           q == a \div s
<1>1. s \in Nat \ {0} /\ a \in Nat
  BY Bounds
<1>2. a = q * s + (a % s) /\ a % s \in 0..s-1 /\ q \in Nat
  <2> HIDE DEF a, s
  <2> QED
    BY <1>1
<1>3. WholeSectors(n) = q * s
  BY DEF WholeSectors
<1> DEFINE r == (s - 1) - (a % s)
<1>4. r \in 0..s-1 /\ q * s - n = r
  <2>1. n = a - (s - 1)
    BY <1>1
  <2> HIDE DEF a, s, q
  <2>2. q * s \in Nat
    BY <1>1, <1>2
  <2> DEFINE w == q * s
  <2> HIDE DEF w
  <2>3. w \in Nat /\ a = w + (a % s)
    BY <1>2, <2>2 DEF w
  <2>4. r \in 0..s-1 /\ w - n = r
    BY <1>1, <1>2, <2>1, <2>3
  <2>5. QED
    BY <2>4 DEF w
<1>5. q * s \in Nat
  <2> HIDE DEF a, s, q
  <2> QED
    BY <1>1, <1>2
<1> HIDE DEF a, q, r
<1>6. (-n) % s = r
  <2>1. -n = r - q * s
    BY <1>4, <1>5
  <2>2. (r - q * s) % s = r
    BY <1>1, <1>2, <1>4, OppositeRest
  <2>3. QED
    BY <2>1, <2>2
<1>7. q * s = n => n % s = 0
  <2>1. (q * s + 0) % s = 0
    <3>1. 0 \in 0..s-1
      BY <1>1
    <3> HIDE DEF s
    <3>2. QED
      BY <1>1, <1>2, <3>1, ModUnique
  <2>2. QED
    BY <1>5, <2>1
<1>8. QED
  BY <1>1, <1>3, <1>4, <1>5, <1>6, <1>7

LEMMA SectorsGrow ==
  ASSUME NEW a \in Nat, NEW b \in Nat, a <= b
  PROVE  WholeSectors(a) <= WholeSectors(b)
<1> DEFINE s == SPI_FLASH_SEC_SIZE
           p == (a + s - 1) \div s
           q == (b + s - 1) \div s
<1>1. s \in Nat \ {0}
  BY Bounds
<1>2. p \in Nat /\ q \in Nat /\ p <= q
  BY <1>1
<1>3. p * s <= q * s
  <2> HIDE DEF p, q, s
  <2> QED
    BY <1>1, <1>2
<1>4. QED
  BY <1>3 DEF WholeSectors

\* What an update of a size is given: the size, or more than any image.
LEMMA Room ==
  ASSUME NEW size \in 0..MaxSize, NEW update_size \in 0..MaxSize,
         update_size = UPDATE_SIZE_UNKNOWN \/ size <= update_size
  PROVE  WholeSectors(size) <= RoomFor(update_size)
<1>1. size \in Nat /\ update_size \in Nat
  BY Bounds
<1>2. CASE update_size = UPDATE_SIZE_UNKNOWN
  BY <1>1, <1>2, Sectors, Bounds DEF RoomFor, Unlimited
<1>3. CASE update_size # UPDATE_SIZE_UNKNOWN
  BY <1>1, <1>3, SectorsGrow DEF RoomFor
<1>4. QED
  BY <1>2, <1>3

LEMMA RoomType ==
  ASSUME NEW update_size \in 0..MaxSize
  PROVE  RoomFor(update_size) \in 0..Unlimited
<1>1. update_size \in Nat /\ Unlimited \in Nat
  BY Bounds
<1>2. WholeSectors(update_size) \in 0..Unlimited
  BY <1>1, Sectors, Bounds DEF Unlimited
<1>3. QED
  BY <1>1, <1>2 DEF RoomFor

LEMMA Concat ==
  ASSUME NEW S, NEW f \in Seq(S), NEW n \in Nat, NEW e \in [1..n -> S]
  PROVE  /\ f \o e \in Seq(S) /\ Len(f \o e) = Len(f) + n /\ Len(f) \in Nat
         /\ \A i \in 1..Len(f) : (f \o e)[i] = f[i]
         /\ \A i \in 1..n : (f \o e)[Len(f) + i] = e[i]
<1>1. e \in Seq(S) /\ Len(e) = n
  OBVIOUS
<1>2. /\ f \o e \in Seq(S) /\ Len(f \o e) = Len(f) + n /\ Len(f) \in Nat
      /\ \A i \in 1..Len(f)+n : (f \o e)[i] = IF i <= Len(f) THEN f[i] ELSE e[i - Len(f)]
  BY <1>1, ConcatProperties, LenProperties
<1>3. \A i \in 1..n : (f \o e)[Len(f) + i] = e[i]
  <2> TAKE i \in 1..n
  <2>1. Len(f) + i \in 1..Len(f)+n /\ ~(Len(f) + i <= Len(f)) /\ (Len(f) + i) - Len(f) = i
    BY <1>2
  <2>2. QED
    BY <1>2, <2>1
<1>4. QED
  BY <1>2, <1>3

\* Units of an entry, and those that follow them.
LEMMA UnitsAre ==
  ASSUME entry \in 1..MaxEntries, NEW from \in Nat, NEW to \in Nat, from <= to, to <= MaxSize
  PROVE  /\ Units(from, to) \in [1..(to - from) -> Unit] /\ to - from \in Nat
         /\ Units(from, to) \in Seq(Unit) /\ Len(Units(from, to)) = to - from
         /\ \A i \in 1..(to - from) : Units(from, to)[i] = <<entry, from + i>>
<1>1. to - from \in Nat
  OBVIOUS
<1>2. \A i \in 1..(to - from) : <<entry, from + i>> \in Unit
  <2> TAKE i \in 1..(to - from)
  <2>1. entry \in 0..MaxEntries /\ from + i \in 0..MaxSize
    BY Bounds
  <2>2. QED
    BY <2>1, Zenon DEF Unit
<1>3. Units(from, to) \in [1..(to - from) -> Unit]
  BY <1>2, Zenon DEF Units
<1>4. \A i \in 1..(to - from) : Units(from, to)[i] = <<entry, from + i>>
  BY Zenon DEF Units
<1> DEFINE n == to - from
           u == Units(from, to)
<1>5. n \in Nat /\ u \in [1..n -> Unit]
  BY <1>1, <1>3, Zenon
<1> HIDE DEF n, u
<1>6. u \in Seq(Unit) /\ Len(u) = n
  BY <1>5
<1>7. QED
  BY <1>1, <1>3, <1>4, <1>6, Zenon DEF n, u

LEMMA FirstUnits ==
  ASSUME entry \in 1..MaxEntries, NEW to \in Nat, to <= MaxSize
  PROVE  /\ Units(0, to) \in Seq(Unit) /\ Len(Units(0, to)) = to
         /\ \A i \in 1..to : Units(0, to)[i] = <<entry, i>>
<1> DEFINE u == Units(0, to)
<1>1. /\ u \in Seq(Unit) /\ Len(u) = to - 0
      /\ \A i \in 1..(to - 0) : u[i] = <<entry, 0 + i>>
  <2>1. 0 \in Nat /\ 0 <= to
    OBVIOUS
  <2>2. QED
    BY <2>1, UnitsAre, Zenon
<1> HIDE DEF u
<1>2. u \in Seq(Unit) /\ Len(u) = to /\ \A i \in 1..to : u[i] = <<entry, i>>
  BY <1>1
<1>3. QED
  BY <1>2 DEF u

LEMMA UnitsJoin ==
  ASSUME entry \in 1..MaxEntries, NEW from \in Nat, NEW to \in Nat, from <= to, to <= MaxSize
  PROVE  Units(0, from) \o Units(from, to) = Units(0, to)
<1> DEFINE f == Units(0, from)
           e == Units(from, to)
           n == to - from
           u == Units(0, to)
<1>1. /\ f \in Seq(Unit) /\ Len(f) = from
      /\ \A i \in 1..from : f[i] = <<entry, i>>
  BY FirstUnits, Bounds
<1>2. n \in Nat /\ e \in [1..n -> Unit] /\ \A i \in 1..n : e[i] = <<entry, from + i>>
  BY UnitsAre, Bounds, Zenon
<1>3. u \in Seq(Unit) /\ Len(u) = to /\ \A i \in 1..to : u[i] = <<entry, i>>
  BY FirstUnits, Bounds
<1>4. from + n = to
  OBVIOUS
<1> HIDE DEF f, e, n, u
<1>5. /\ f \o e \in Seq(Unit) /\ Len(f \o e) = from + n
      /\ \A i \in 1..from : (f \o e)[i] = f[i]
      /\ \A i \in 1..n : (f \o e)[from + i] = e[i]
  <2>1. /\ f \o e \in Seq(Unit) /\ Len(f \o e) = Len(f) + n
        /\ \A i \in 1..Len(f) : (f \o e)[i] = f[i]
        /\ \A i \in 1..n : (f \o e)[Len(f) + i] = e[i]
    <3>1. ASSUME NEW g \in Seq(Unit), NEW m \in Nat, NEW d \in [1..m -> Unit]
          PROVE  /\ g \o d \in Seq(Unit) /\ Len(g \o d) = Len(g) + m
                 /\ \A i \in 1..Len(g) : (g \o d)[i] = g[i]
                 /\ \A i \in 1..m : (g \o d)[Len(g) + i] = d[i]
      BY Concat
    <3>2. f \in Seq(Unit) /\ n \in Nat /\ e \in [1..n -> Unit]
      BY <1>1, <1>2
    <3>3. QED
      BY <3>1, <3>2, Zenon
  <2>2. QED
    BY <1>1, <2>1, Zenon
<1>6. \A i \in 1..to : (f \o e)[i] = u[i]
  <2> TAKE i \in 1..to
  <2>1. CASE i \in 1..from
    BY <1>1, <1>3, <1>5, <2>1
  <2>2. CASE i \notin 1..from
    <3> DEFINE j == i - from
    <3>1. j \in 1..n /\ i = from + j
      BY <1>2, <1>4, <2>2
    <3> HIDE DEF j
    <3>2. QED
      BY <1>2, <1>3, <1>5, <3>1
  <2>3. QED
    BY <2>1, <2>2
<1>7. f \o e = u
  BY <1>3, <1>4, <1>5, <1>6, SeqEqual
<1>8. QED
  BY <1>7 DEF f, e, u

LEMMA ZerosAre ==
  ASSUME NEW n \in Nat
  PROVE  Zeros(n) \in [1..n -> Unit] /\ Zeros(n) \in Seq(Unit) /\ Len(Zeros(n)) = n
<1>1. <<0, 0>> \in Unit
  BY Bounds DEF Unit
<1>2. Zeros(n) \in [1..n -> Unit]
  BY <1>1, Zenon DEF Zeros
<1> HIDE DEF Zeros
<1>3. QED
  BY <1>2

-----------------------------------------------------------------------------
(***************************************************************************)
(* Images and what is committed of them.                                   *)
(***************************************************************************)
LEMMA Kind ==
  ASSUME EntryTypes, NEW e \in 1..Len(entries)
  PROVE  /\ entries[e] \in Entries /\ entries[e].size \in 0..MaxSize /\ entries[e].kind \in Kinds
         /\ IsImage(e) <=> PartitionOf(entries[e].kind) # "none"
         /\ IsImage(e) => PartitionOf(entries[e].kind) = Wanted(e).to
         /\ IsImage(e) => PartitionOf(entries[e].kind) \in Partition
<1>1. entries[e] \in Entries
  BY ElementOfSeq DEF EntryTypes
<1>2. entries[e].size \in 0..MaxSize /\ entries[e].kind \in Kinds
  BY <1>1 DEF Entries
<1>3. Wanted(e).to = IF entries[e].kind = "ino.bin" THEN "U_FLASH" ELSE "U_PART"
  BY DEF Wanted
<1>4. QED
  BY <1>1, <1>2, <1>3 DEF Kinds, IsImage, PartitionOf, Partition

LEMMA SameFlashed ==
  ASSUME committed' = committed, entries' = entries, mode' = mode, NEW last
  PROVE  FlashedBefore(last)' <=> FlashedBefore(last)
<1>1. Images(last)' = Images(last)
  BY DEF Images, IsImage
<1>2. \A e : Wanted(e)' = Wanted(e)
  BY Zenon DEF Wanted, ImageOf, ContentOf, Zeros
<1>3. ASSUME NEW at PROVE (\A i \in DOMAIN committed : committed[i] = Wanted(at[i]))' <=>
       (\A i \in DOMAIN committed : committed[i] = Wanted(at[i]))
  BY <1>2
<1>4. QED
  BY <1>1, <1>2 DEF FlashedBefore

LEMMA FlashedHere ==
  ASSUME NEW here, entry' = here, FlashedBefore(here)'
  PROVE  FlashedBefore(entry)'
BY DEF FlashedBefore, Images

LEMMA SameSome ==
  ASSUME committed' = committed, entries' = entries, mode' = mode, SomeFlashed
  PROVE  SomeFlashed'
BY SameFlashed, Zenon DEF SomeFlashed

\* Nothing is what comes before the first entry.
LEMMA NothingFlashed ==
  ASSUME committed = <<>>, EntryTypes
  PROVE  FlashedBefore(1) /\ SomeFlashed
<1>1. DOMAIN committed = {}
  OBVIOUS
<1>2. DOMAIN entries = 1..Len(entries) /\ Len(entries) \in Nat
  BY DEF EntryTypes
<1>3. Images(1) = {}
  BY <1>2 DEF Images
<1> DEFINE at == [i \in {} |-> 0]
<1>4. at \in [DOMAIN committed -> Images(1)]
  BY <1>1, <1>3, Zenon
<1>5. FlashedBefore(1)
  BY <1>1, <1>3, <1>4, Zenon DEF FlashedBefore
<1>6. 1 \in 1..(Len(entries) + 1)
  BY <1>2
<1>7. QED
  BY <1>5, <1>6, Zenon DEF SomeFlashed

\* An entry that is not an image is passed.
LEMMA EntrySkipped ==
  ASSUME EntryTypes, NEW e \in Nat, FlashedBefore(e), ~IsImage(e)
  PROVE  FlashedBefore(e + 1)
<1>1. DOMAIN entries = 1..Len(entries) /\ Len(entries) \in Nat
  BY DEF EntryTypes
<1>2. \A d \in 1..Len(entries) : d # e => (d < e + 1 <=> d < e)
  BY <1>1
<1>3. \A d : d \in Images(e + 1) <=> d \in Images(e)
  BY <1>1, <1>2, Zenon DEF Images
<1>4. Images(e + 1) = Images(e)
  BY <1>3, Zenon
<1>5. QED
  BY <1>4, Zenon DEF FlashedBefore

\* One that is an image is committed.
LEMMA EntryCommitted ==
  ASSUME EntryTypes, committed \in Seq(Commit), NEW e \in 1..Len(entries), FlashedBefore(e),
         IsImage(e), Wanted(e) \in Commit, committed' = Append(committed, Wanted(e)),
         entries' = entries, mode' = mode
  PROVE  FlashedBefore(e + 1)'
<1>1. DOMAIN entries = 1..Len(entries) /\ Len(entries) \in Nat
  BY DEF EntryTypes
<1>2. PICK n \in Nat : n = Len(committed) /\ DOMAIN committed = 1..n
  <2>1. Len(committed) \in Nat /\ DOMAIN committed = 1..Len(committed)
    OBVIOUS
  <2>2. QED
    BY <2>1, Zenon
<1>3. /\ DOMAIN committed' = 1..(n + 1) /\ committed'[n + 1] = Wanted(e)
      /\ \A i \in 1..n : committed'[i] = committed[i]
  <2>1. /\ committed' \in Seq(Commit) /\ Len(committed') = n + 1
        /\ committed'[n + 1] = Wanted(e)
        /\ \A i \in 1..n : committed'[i] = committed[i]
    BY <1>2, AppendProperties
  <2>2. QED
    BY <2>1
<1>4. \A d \in 1..Len(entries) : (d < e + 1 <=> d < e \/ d = e) /\ d \in Nat
  BY <1>1
<1>5. Images(e + 1)' = Images(e) \cup {e}
  <2>1. \A d : d \in Images(e + 1)' <=> d \in Images(e) \cup {e}
    BY <1>1, <1>4, Zenon DEF Images, IsImage
  <2>2. QED
    BY <2>1, Zenon
<1>6. \A d : Wanted(d)' = Wanted(d)
  BY Zenon DEF Wanted, ImageOf, ContentOf, Zeros
<1>7. PICK at \in [DOMAIN committed -> Images(e)] :
        /\ \A i \in DOMAIN committed : committed[i] = Wanted(at[i])
        /\ \A i, j \in DOMAIN committed : i < j => at[i] < at[j]
        /\ \A d \in Images(e) : \E i \in DOMAIN committed : at[i] = d
  BY Zenon DEF FlashedBefore
<1> DEFINE bt == [i \in 1..(n + 1) |-> IF i = n + 1 THEN e ELSE at[i]]
<1>8. bt[n + 1] = e /\ \A i \in 1..n : bt[i] = at[i] /\ at[i] \in Images(e)
  BY <1>2, <1>7
<1>9. \A i \in 1..(n + 1) : i = n + 1 \/ i \in 1..n
  BY <1>2
<1>10. n + 1 \in 1..(n + 1) /\ \A i \in 1..n : i \in 1..(n + 1)
  BY <1>2
<1>11. bt \in [DOMAIN committed' -> Images(e + 1)']
  <2>1. \A i \in 1..(n + 1) : (IF i = n + 1 THEN e ELSE at[i]) \in Images(e) \cup {e}
    BY <1>8, <1>9, Zenon
  <2>2. QED
    BY <1>3, <1>5, <2>1, Zenon
<1>12. \A i, j \in 1..(n + 1) : i < j => bt[i] < bt[j]
  <2> TAKE i, j \in 1..(n + 1)
  <2> HAVE i < j
  <2>1. i \in 1..n
    BY <1>2
  <2>2. CASE j = n + 1
    <3>1. at[i] < e
      BY <1>8, <2>1, Zenon DEF Images
    <3>2. QED
      BY <1>8, <2>1, <2>2, <3>1, Zenon
  <2>3. CASE j \in 1..n
    BY <1>2, <1>7, <1>8, <2>1, <2>3, Zenon
  <2>4. QED
    BY <1>9, <2>2, <2>3, Zenon
<1> HIDE DEF bt
<1>13. \A i \in 1..(n + 1) : committed'[i] = Wanted(bt[i])'
  <2> TAKE i \in 1..(n + 1)
  <2>1. CASE i = n + 1
    BY <1>3, <1>6, <1>8, <2>1, Zenon
  <2>2. CASE i \in 1..n
    BY <1>2, <1>3, <1>6, <1>7, <1>8, <2>2, Zenon
  <2>3. QED
    BY <1>9, <2>1, <2>2, Zenon
<1>14. \A d \in Images(e) \cup {e} : \E i \in 1..(n + 1) : bt[i] = d
  BY <1>2, <1>7, <1>8, <1>10, Zenon
<1>15. \A i \in DOMAIN committed' : committed'[i] = Wanted(bt[i])
  BY <1>3, <1>6, <1>13
<1>16. \E ct \in [DOMAIN committed' -> Images(e + 1)'] :
         /\ \A i \in DOMAIN committed' : committed'[i] = Wanted(ct[i])
         /\ \A i, j \in DOMAIN committed' : i < j => ct[i] < ct[j]
         /\ \A d \in Images(e + 1)' : \E i \in DOMAIN committed' : ct[i] = d
  <2>1. \A i, j \in DOMAIN committed' : i < j => bt[i] < bt[j]
    BY <1>3, <1>12
  <2>2. \A d \in Images(e + 1)' : \E i \in DOMAIN committed' : bt[i] = d
    BY <1>3, <1>5, <1>14
  <2>3. QED
    BY <1>11, <1>15, <2>1, <2>2, Zenon
<1>17. QED
  BY <1>6, <1>16 DEF FlashedBefore

-----------------------------------------------------------------------------
(***************************************************************************)
(* The object Update: what each of its operations makes of its state.      *)
(***************************************************************************)
LEMMA FlashGives ==
  ASSUME UpdateTypes, NEW units \in Seq(Unit), Flash(units), committed' = committed
  PROVE  UpdateTypes' /\ ~updateError'
<1>1. Len(units) \in Nat /\ Len(units) <= room
  BY DEF Flash, Accepts
<1>2. room' \in 0..Unlimited
  BY <1>1, Bounds DEF Flash, UpdateTypes
<1>3. flashed \o units \in Seq(Unit)
  BY ConcatProperties DEF UpdateTypes
<1>4. QED
  BY <1>2, <1>3, Zenon DEF Flash, Accepts, UpdateTypes

LEMMA FaultyGives ==
  ASSUME NEW fault, Faulty(fault)
  PROVE  sound' \in BOOLEAN /\ ~sound'
BY DEF Faulty

LEMMA SameSound ==
  ASSUME sound \in BOOLEAN, sound' = sound
  PROVE  sound' \in BOOLEAN /\ (sound' => sound)
OBVIOUS

LEMMA RefusesGives ==
  ASSUME UpdateTypes, sound \in BOOLEAN, NEW units, Refuses(units), committed' = committed
  PROVE  /\ UpdateTypes' /\ (updateError' \/ partition' = "none")
         /\ (updateError \in BOOLEAN => updateError' \in BOOLEAN)
         /\ sound' \in BOOLEAN /\ (sound' => sound) /\ (sound' => ~Accepts(units))
<1>1. /\ UpdateTypes' /\ (updateError' \/ partition' = "none")
      /\ (updateError \in BOOLEAN => updateError' \in BOOLEAN)
  <2>1. CASE /\ partition # "none" /\ updateError' = TRUE /\ partition' \in {partition, "none"}
             /\ UNCHANGED <<room, flashed>>
    BY <2>1, Zenon DEF UpdateTypes
  <2>2. CASE partition = "none" /\ UNCHANGED update
    BY <2>2, Zenon DEF update, UpdateTypes
  <2>3. QED
    BY <2>1, <2>2, Zenon DEF Refuses
<1>2. Faulty("write") => sound' \in BOOLEAN /\ ~sound'
  BY FaultyGives
<1>3. (~Accepts(units) /\ sound' = sound) \/ Faulty("write")
  BY Zenon DEF Refuses
<1>4. QED
  BY <1>1, <1>2, <1>3, SameSound, Zenon

LEMMA BeginGives ==
  ASSUME UpdateTypes, NEW to \in Partition, NEW size \in 0..Unlimited, Begin(to, size),
         committed' \in {committed, <<>>}
  PROVE  UpdateTypes' /\ ~updateError'
<1>1. <<>> \in Seq(Unit) /\ <<>> \in Seq(Commit)
  OBVIOUS
<1>2. QED
  BY <1>1, Zenon DEF Begin, UpdateTypes

LEMMA BeginFailsGives ==
  ASSUME BeginFails, sound \in BOOLEAN
  PROVE  sound' \in BOOLEAN /\ (sound' => sound /\ partition # "none") /\ UNCHANGED update
<1>1. Faulty("begin") => sound' \in BOOLEAN /\ ~sound'
  BY FaultyGives
<1>2. ((partition # "none" /\ sound' = sound) \/ Faulty("begin")) /\ UNCHANGED update
  BY Zenon DEF BeginFails
<1>3. QED
  BY <1>1, <1>2, SameSound, Zenon

LEMMA EndGives ==
  ASSUME UpdateTypes, End
  PROVE  /\ UpdateTypes' /\ partition \in Partition /\ updateError' = updateError
         /\ partition' = "none" /\ ~updateError
         /\ [to |-> partition, content |-> flashed] \in Commit
         /\ committed' = Append(committed, [to |-> partition, content |-> flashed])
<1>1. partition \in Partition
  BY DEF UpdateTypes, End
<1> DEFINE c == [to |-> partition, content |-> flashed]
<1>2. c \in Commit
  BY <1>1, Zenon DEF UpdateTypes, Commit
<1>3. committed' = Append(committed, c)
  BY DEF End
<1> HIDE DEF c
<1>4. committed' \in Seq(Commit)
  BY <1>2, <1>3, AppendProperties DEF UpdateTypes
<1>5. <<>> \in Seq(Unit) /\ 0 \in 0..Unlimited
  BY Bounds
<1>6. UpdateTypes'
  BY <1>4, <1>5, Zenon DEF End, UpdateTypes
<1>7. QED
  BY <1>1, <1>2, <1>3, <1>6, Zenon DEF End, c

LEMMA EndFailsGives ==
  ASSUME UpdateTypes, EndFails, sound \in BOOLEAN
  PROVE  /\ UpdateTypes' /\ updateError' = updateError /\ committed' = committed
         /\ sound' \in BOOLEAN /\ (sound' => sound /\ (partition = "none" \/ updateError))
<1>1. UpdateTypes' /\ updateError' = updateError /\ committed' = committed
  BY Zenon DEF EndFails, UpdateTypes
<1>2. Faulty("end") => sound' \in BOOLEAN /\ ~sound'
  BY FaultyGives
<1>3. ((partition = "none" \/ updateError) /\ sound' = sound) \/ Faulty("end")
  BY Zenon DEF EndFails
<1>4. QED
  BY <1>1, <1>2, <1>3, SameSound, Zenon

LEMMA KeptUpdate ==
  ASSUME UpdateTypes, UNCHANGED update, committed' = committed
  PROVE  UpdateTypes' /\ updateError' = updateError
BY Zenon DEF UpdateTypes, update

-----------------------------------------------------------------------------
(***************************************************************************)
(* A call that returns.                                                    *)
(***************************************************************************)
LEMMA InitIInv == Init => IInv
<1> SUFFICES ASSUME Init PROVE IInv
  OBVIOUS
<1>1. UpdateTypes
  <2>1. <<>> \in Seq(Unit) /\ <<>> \in Seq(Commit) /\ 0 \in 0..Unlimited
    BY Bounds
  <2>2. QED
    BY <2>1, Zenon DEF Init, UpdateTypes
<1>2. FlagTypes
  BY Zenon DEF Init, FlagTypes
<1>3. EntryTypes
  <2>1. <<>> \in Seq(Entries)
    OBVIOUS
  <2>2. QED
    BY <2>1, Zenon DEF Init, EntryTypes
<1>4. PlaceTypes
  BY Bounds DEF Init, PlaceTypes
<1>5. ResultTypes
  BY Zenon DEF Init, ResultTypes
<1>6. Phases /\ Stages /\ Inflated /\ Unpacked /\ Results
  BY Zenon DEF Init, Phases, Stages, Inflated, Unpacked, Results, OfImage, OfArchive, BeforeTar
<1>7. Roomy /\ SuccessMeansFlashed /\ SoundUpdateSucceeds
  BY Zenon DEF Init, Roomy, SuccessMeansFlashed, SoundUpdateSucceeds
<1>8. QED
  BY <1>1, <1>2, <1>3, <1>4, <1>5, <1>6, <1>7 DEF IInv, Types

LEMMA IdleIInv ==
  ASSUME Types', pc' = "idle", returned' # "no", returned' = "none" => committed' = <<>>,
         returned' # "none" /\ fresh' => SomeFlashed', SuccessMeansFlashed',
         Sane' => returned' \notin {"false", "crash"}
  PROVE  IInv'
<1>1. Phases' /\ Stages' /\ Inflated' /\ Unpacked'
  BY Zenon DEF Phases, Stages, Inflated, Unpacked, OfImage, OfArchive, BeforeTar
<1>2. Roomy' /\ Results'
  BY Zenon DEF Roomy, Results
<1>3. SoundUpdateSucceeds'
  BY Zenon DEF SoundUpdateSucceeds, Sane
<1>4. QED
  BY <1>1, <1>2, <1>3, Zenon DEF IInv

\* What is committed so far is some images, in every stage of a call.
LEMMA SoFar ==
  ASSUME IInv, pc # "idle", fresh
  PROVE  SomeFlashed
<1>1. pc \in {"inflating", "ending", "setup", "raw", "header", "data", "end"}
  BY DEF IInv, Types, ResultTypes
<1>2. CASE OfImage
  <2>1. committed = <<>> /\ EntryTypes
    BY <1>2, Zenon DEF IInv, Stages, Types
  <2>2. QED
    BY <2>1, NothingFlashed
<1>3. CASE OfArchive
  <2>1. FlashedBefore(entry)
    BY <1>3, Zenon DEF IInv, Unpacked
  <2>2. entry \in 1..(Len(entries) + 1)
    <3>1. Len(entries) \in Nat /\ entry \in Nat
      BY DEF IInv, Types, EntryTypes, PlaceTypes
    <3>2. QED
      BY <1>3, <3>1 DEF IInv, Stages, OfArchive
  <2>3. QED
    BY <2>1, <2>2, Zenon DEF SomeFlashed
<1>4. CASE BeforeTar
  <2>1. committed = <<>> /\ EntryTypes
    BY <1>4, Zenon DEF IInv, Stages, Types
  <2>2. QED
    BY <2>1, NothingFlashed
<1>5. QED
  BY <1>1, <1>2, <1>3, <1>4 DEF OfImage, OfArchive, BeforeTar

\* A call that fails before it has committed more, with a fault or without the conditions.
LEMMA FailIInv ==
  ASSUME IInv, pc # "idle", Types', committed' = committed, entries' = entries, mode' = mode,
         fresh' = fresh, pc' = "idle", returned' \in {"false", "crash"}, ~Sane'
  PROVE  IInv'
<1>1. fresh' => SomeFlashed'
  BY SoFar, SameSome, Zenon
<1>2. SuccessMeansFlashed'
  BY DEF SuccessMeansFlashed
<1>3. returned' # "no" /\ returned' # "none"
  OBVIOUS
<1>4. QED
  BY <1>1, <1>2, <1>3, IdleIInv, Zenon

LEMMA SameSane ==
  ASSUME UNCHANGED call, installed' = installed, damaged' = damaged, sound' => sound, Sane'
  PROVE  Sane
BY DEF Sane, call, installed, IsImage

LEMMA Unsound == ASSUME ~sound' PROVE ~Sane'
BY DEF Sane

LEMMA NoCallbacks ==
  ASSUME installed' = installed, mode' = mode, mode = "archive", ~callbacks
  PROVE  ~Sane'
<1>1. callbacks' = callbacks
  BY DEF installed
<1>2. QED
  BY <1>1, Zenon DEF Sane

LEMMA KeptFlags ==
  ASSUME FlagTypes, UNCHANGED call, installed' = installed, damaged' = damaged,
         tarBlockIsUpdateData' \in BOOLEAN, sound' \in BOOLEAN, updateError' \in BOOLEAN
  PROVE  FlagTypes'
BY Zenon DEF FlagTypes, call, installed

LEMMA KeptEntries ==
  ASSUME EntryTypes, UNCHANGED call
  PROVE  EntryTypes' /\ entries' = entries /\ mode' = mode /\ fresh' = fresh
BY Zenon DEF EntryTypes, call

LEMMA KeptPlace ==
  ASSUME PlaceTypes, UNCHANGED position
  PROVE  PlaceTypes' /\ entry' = entry /\ block' = block /\ outlen' = outlen
BY Zenon DEF PlaceTypes, position

LEMMA ReturnsTypes ==
  ASSUME ResultTypes, NEW result \in {"true", "false", "crash"},
         NEW code \in {ESP32_TARGZ_OK, AnError, _error},
         Returns(result, code)
  PROVE  ResultTypes' /\ returned' = result /\ pc' = "idle" /\ _error' = code
BY Zenon DEF ResultTypes, Returns

-----------------------------------------------------------------------------
(***************************************************************************)
(* Between calls, and the start of one.                                    *)
(***************************************************************************)
LEMMA ForgetsIInv ==
  ASSUME IInv, Forgets, UpdateTypes', updateError' \in BOOLEAN, callbacks' \in BOOLEAN,
         tarBlockIsUpdateData' \in BOOLEAN,
         _error' \in {ESP32_TARGZ_OK, AnError}
  PROVE  IInv'
<1>1. FlagTypes'
  BY Zenon DEF Forgets, FlagTypes
<1>2. EntryTypes'
  <2>1. <<>> \in Seq(Entries)
    OBVIOUS
  <2>2. QED
    BY <2>1, Zenon DEF Forgets, EntryTypes
<1>3. PlaceTypes'
  BY Bounds DEF Forgets, PlaceTypes
<1>4. ResultTypes' /\ pc' = "idle" /\ returned' = "none" /\ committed' = <<>>
  BY Zenon DEF Forgets, ResultTypes
<1>5. SuccessMeansFlashed'
  BY <1>4 DEF SuccessMeansFlashed
<1>6. Types'
  BY <1>1, <1>2, <1>3, <1>4, Zenon DEF Types
<1>7. returned' # "no" /\ returned' \notin {"false", "crash"}
  BY <1>4
<1>8. QED
  BY <1>4, <1>5, <1>6, <1>7, IdleIInv, Zenon

LEMMA ForgetIInv == ASSUME IInv, Forget PROVE IInv'
<1>1. <<>> \in Seq(Unit) /\ <<>> \in Seq(Commit)
  OBVIOUS
<1>2. UpdateTypes'
  BY <1>1, Zenon DEF IInv, Types, UpdateTypes, Forget, Forgets
<1>3. QED
  BY <1>2, ForgetsIInv, Zenon DEF IInv, Types, FlagTypes, ResultTypes, Forget, installed

LEMMA RebootIInv == ASSUME IInv, Reboot PROVE IInv'
<1>1. <<>> \in Seq(Unit) /\ <<>> \in Seq(Commit) /\ 0 \in 0..Unlimited
  BY Bounds
<1>2. UpdateTypes'
  BY <1>1, Zenon DEF UpdateTypes, Reboot, Forgets
<1>3. QED
  BY <1>2, ForgetsIInv, Zenon DEF Reboot

\* The caller sets callbacks or aborts an update: nothing of a call changes.
LEMMA KeepCallIInv ==
  ASSUME IInv, Idle, KeepCall, UpdateTypes', updateError' \in BOOLEAN, callbacks' \in BOOLEAN,
         tarBlockIsUpdateData' \in BOOLEAN, _error' = _error
  PROVE  IInv'
<1>1. FlagTypes'
  BY Zenon DEF IInv, Types, KeepCall, call, FlagTypes
<1>2. EntryTypes' /\ PlaceTypes'
  BY Zenon DEF IInv, Types, KeepCall, call, position, EntryTypes, PlaceTypes
<1>3. ResultTypes' /\ returned' = "none" /\ committed' = committed /\ pc' = pc
  BY Zenon DEF IInv, Types, KeepCall, ResultTypes, Idle
<1>4. pc = "idle" /\ committed = <<>>
  BY DEF IInv, Phases, Results, Idle
<1>5. SuccessMeansFlashed'
  BY <1>3 DEF SuccessMeansFlashed
<1>6. Types'
  BY <1>1, <1>2, <1>3, Zenon DEF Types
<1>7. returned' # "no" /\ returned' \notin {"false", "crash"}
  BY <1>3
<1>8. QED
  BY <1>3, <1>4, <1>5, <1>6, <1>7, IdleIInv, Zenon

LEMMA AbortIInv == ASSUME IInv, Abort PROVE IInv'
<1>1. <<>> \in Seq(Unit) /\ 0 \in 0..Unlimited
  BY Bounds
<1>2. UpdateTypes'
  BY <1>1, Zenon DEF IInv, Types, UpdateTypes, Abort, KeepCall
<1>3. QED
  BY <1>2, KeepCallIInv, Zenon DEF IInv, Types, FlagTypes, Abort

LEMMA SetCallbacksIInv == ASSUME IInv, SetCallbacks PROVE IInv'
<1>1. UpdateTypes' /\ updateError' = updateError
  BY KeptUpdate, Zenon DEF IInv, Types, SetCallbacks, KeepCall
<1>2. QED
  BY <1>1, KeepCallIInv, Zenon DEF IInv, Types, FlagTypes, SetCallbacks

\* A call finds an update that is open, or none: it starts with nothing done.
LEMMA CalledGives ==
  ASSUME IInv, NEW m \in {"image", "archive"}, NEW es \in Seq(Entries), NEW error,
         Called(m, es, error), fits' \in BOOLEAN
  PROVE  /\ EntryTypes' /\ PlaceTypes' /\ mode' = m /\ entries' = es /\ entry' = 1 /\ block' = 0
         /\ outlen' = 0 /\ committed' = <<>> /\ FlashedBefore(1)' /\ SomeFlashed'
         /\ updateError' \in BOOLEAN => FlagTypes'
         /\ fresh' => partition = "none" /\ ~tarBlockIsUpdateData
         /\ tarBlockIsUpdateData' = tarBlockIsUpdateData
<1>1. EntryTypes' /\ mode' = m /\ entries' = es /\ entry' = 1 /\ block' = 0
      /\ outlen' = 0 /\ committed' = <<>>
  BY Zenon DEF Called, EntryTypes
<1>2. PlaceTypes'
  BY <1>1, Bounds DEF PlaceTypes
<1>3. FlashedBefore(1)' /\ SomeFlashed'
  <2>1. (committed = <<>> /\ EntryTypes => FlashedBefore(1) /\ SomeFlashed)'
    BY NothingFlashed, PTL
  <2>2. QED
    BY <1>1, <2>1
<1>4. /\ fresh' => partition = "none" /\ ~tarBlockIsUpdateData
      /\ tarBlockIsUpdateData' = tarBlockIsUpdateData
  BY DEF Called, Fresh
<1>5. fresh' \in BOOLEAN /\ stale' \in BOOLEAN /\ sound' \in BOOLEAN /\ damaged' \in BOOLEAN
  BY DEF Called, Fresh
<1>6. updateError' \in BOOLEAN => FlagTypes'
  BY <1>5, Zenon DEF IInv, Types, FlagTypes, Called
<1>7. QED
  BY <1>1, <1>2, <1>3, <1>4, <1>6, Zenon

\* What has to be shown of a step of a call that goes on.
LEMMA RunsIInv ==
  ASSUME Types', returned' = "no", pc' # "idle", Stages', Inflated', Unpacked', Roomy'
  PROVE  IInv'
<1>1. Phases' /\ Results'
  BY DEF Phases, Results
<1>2. SuccessMeansFlashed' /\ SoundUpdateSucceeds'
  <2>1. returned' # "true" /\ returned' \notin {"false", "crash"}
    OBVIOUS
  <2>2. QED
    BY <2>1, Zenon DEF SuccessMeansFlashed, SoundUpdateSucceeds
<1>3. QED
  BY <1>1, <1>2, Zenon DEF IInv

LEMMA OneImage ==
  ASSUME NEW image \in Entries
  PROVE  <<image>> \in Seq(Entries) /\ Len(<<image>>) = 1 /\ <<image>>[1] = image
OBVIOUS

LEMMA UpdateImageIInv ==
  ASSUME IInv, NEW image \in Entries, NEW update_size \in 0..MaxSize,
         NEW error \in {ESP32_TARGZ_OK, AnError},
         UpdateImage(image, update_size, error)
  PROVE  IInv'
<1>1. /\ image.kind # "other" /\ Called("image", <<image>>, error)
      /\ fits' = (update_size = UPDATE_SIZE_UNKNOWN \/ image.size <= update_size)
      /\ Begin(PartitionOf(image.kind), RoomFor(update_size))
      /\ pc' = "inflating" /\ returned' = "no" /\ _error' = error
  BY Zenon DEF UpdateImage
<1>2. fits' \in BOOLEAN
  BY <1>1
<1>3. <<image>> \in Seq(Entries) /\ Len(<<image>>) = 1 /\ <<image>>[1] = image
  BY OneImage
<1>4. /\ EntryTypes' /\ PlaceTypes' /\ mode' = "image" /\ entries' = <<image>> /\ entry' = 1
      /\ block' = 0 /\ outlen' = 0 /\ committed' = <<>> /\ (updateError' \in BOOLEAN => FlagTypes')
  BY <1>1, <1>2, <1>3, CalledGives, Zenon
<1>5. entries'[1] = image /\ Len(entries') = 1 /\ Size' = image.size
  BY <1>3, <1>4 DEF Size
<1>6. image.kind \in Kinds /\ image.size \in 0..MaxSize
  BY DEF Entries
<1>7. PartitionOf(image.kind) \in Partition
  BY <1>1, <1>6 DEF Kinds, PartitionOf, Partition
<1>8. UpdateTypes' /\ ~updateError' /\ updateError' = FALSE
  <2>1. UpdateTypes'
    BY <1>1, <1>4, <1>7, RoomType, BeginGives, Zenon DEF IInv, Types
  <2>2. updateError' = FALSE
    BY <1>1 DEF Begin
  <2>3. QED
    BY <2>1, <2>2
<1>9. ResultTypes'
  BY <1>1, Zenon DEF ResultTypes
<1>10. Types'
  BY <1>4, <1>8, <1>9, Zenon DEF Types
<1>11. Stages'
  BY <1>1, <1>4, <1>5 DEF Stages, IsImage, OfImage, OfArchive, BeforeTar
<1>12. partition' = PartitionOf(image.kind) /\ room' = RoomFor(update_size) /\ flashed' = <<>>
  BY <1>1 DEF Begin
<1>13. Inflated'
  <2>1. Units(0, block)' = <<>>
    <3>1. 1..(0 - 0) = {}
      OBVIOUS
    <3>2. QED
      BY <1>4, <3>1 DEF Units
  <2>2. block' <= Size' /\ outlen' = block'
    BY <1>4, <1>5, <1>6, Bounds
  <2>3. QED
    BY <1>1, <1>5, <1>8, <1>12, <2>1, <2>2 DEF Inflated
<1>14. Unpacked'
  BY <1>1 DEF Unpacked, OfArchive
<1>15. Roomy'
  <2> SUFFICES ASSUME Sane'
               PROVE  /\ WholeSectors(Size') <= room' + block'
                      /\ _error' # ESP32_TARGZ_OK => Size' % SPI_FLASH_SEC_SIZE # 0
    BY <1>1 DEF Roomy, WholeSectors
  <2>1. fits' /\ ~(stale' /\ entries' # <<>> /\ entries'[1].size % SPI_FLASH_SEC_SIZE = 0)
    BY <1>4 DEF Sane
  <2>2. update_size = UPDATE_SIZE_UNKNOWN \/ image.size <= update_size
    BY <1>1, <2>1
  <2>3. WholeSectors(image.size) <= RoomFor(update_size)
    BY <1>6, <2>2, Room
  <2>4. RoomFor(update_size) \in Nat
    BY RoomType, Bounds
  <2>5. WholeSectors(Size') <= room' + block'
    BY <1>4, <1>5, <1>12, <2>3, <2>4
  <2>6. stale' = (error # ESP32_TARGZ_OK)
    BY <1>1 DEF Called
  <2>7. entries' # <<>>
    BY <1>4
  <2>8. QED
    BY <1>1, <1>5, <2>1, <2>5, <2>6, <2>7
<1>16. QED
  BY <1>1, <1>10, <1>11, <1>13, <1>14, <1>15, RunsIInv

LEMMA UpdateRefusedIInv ==
  ASSUME IInv, NEW m \in {"image", "archive"}, UpdateRefused(m)
  PROVE  IInv'
<1>1. /\ mode' = m /\ entries' = <<>> /\ entry' = 1 /\ block' = 0 /\ outlen' = 0
      /\ committed' = <<>> /\ damaged' = FALSE /\ stale' = FALSE
      /\ fresh' = Fresh(m) /\ fits' = TRUE
      /\ (NotStarted(m) \/ BeginFails) /\ Returns("false", AnError)
      /\ callbacks' = callbacks /\ tarBlockIsUpdateData' = tarBlockIsUpdateData
  BY Zenon DEF UpdateRefused
<1>2. sound \in BOOLEAN /\ UpdateTypes /\ FlagTypes /\ ResultTypes
  BY Zenon DEF IInv, Types, FlagTypes
<1>3. sound' \in BOOLEAN /\ (sound' => sound /\ partition # "none") /\ UNCHANGED update
  <2>1. CASE BeginFails
    BY <1>2, <2>1, BeginFailsGives
  <2>2. CASE NotStarted(m)
    <3>1. UNCHANGED update /\ (Faulty("source") \/ Faulty("memory"))
      BY <2>2, Zenon DEF NotStarted, update
    <3>2. sound' \in BOOLEAN /\ ~sound'
      BY <3>1, FaultyGives
    <3>3. QED
      BY <3>1, <3>2
  <2>3. QED
    BY <1>1, <2>1, <2>2
<1>4. UpdateTypes' /\ updateError' = updateError
  <2>1. <<>> \in Seq(Commit)
    OBVIOUS
  <2>2. QED
    BY <1>1, <1>2, <1>3, <2>1, Zenon DEF UpdateTypes, update
<1>5. EntryTypes' /\ PlaceTypes'
  <2>1. PlaceTypes'
    BY <1>1, Bounds DEF PlaceTypes
  <2>2. <<>> \in Seq(Entries)
    OBVIOUS
  <2>3. QED
    BY <1>1, <2>1, <2>2, Zenon DEF EntryTypes
<1>6. ResultTypes' /\ returned' = "false" /\ pc' = "idle"
  BY <1>1, <1>2, ReturnsTypes, Zenon
<1>7. FlagTypes'
  <2>1. fresh' \in BOOLEAN
    BY <1>1 DEF Fresh
  <2>2. QED
    BY <1>1, <1>2, <1>3, <1>4, <2>1, Zenon DEF FlagTypes
<1>8. Types'
  BY <1>4, <1>5, <1>6, <1>7, Zenon DEF Types
<1>9. SomeFlashed'
  <2>1. (committed = <<>> /\ EntryTypes => FlashedBefore(1) /\ SomeFlashed)'
    BY NothingFlashed, PTL
  <2>2. QED
    BY <1>1, <1>5, <2>1
<1>10. ~Sane'
  <2>1. sound' => ~fresh'
    BY <1>1, <1>3 DEF Fresh
  <2>2. QED
    BY <2>1 DEF Sane
<1>11. SuccessMeansFlashed'
  BY <1>6 DEF SuccessMeansFlashed
<1>12. returned' # "no" /\ returned' # "none"
  BY <1>6
<1>13. QED
  BY <1>6, <1>8, <1>9, <1>10, <1>11, <1>12, IdleIInv, Zenon

LEMMA UpdateArchiveIInv ==
  ASSUME IInv, NEW n \in 1..MaxEntries, NEW archive \in [1..n -> Entries], UpdateArchive(archive)
  PROVE  IInv'
<1>1. /\ Called("archive", archive, _error) /\ fits' = TRUE /\ UNCHANGED <<update, _error>>
      /\ pc' \in {"setup", "raw"} /\ returned' = "no"
  BY DEF UpdateArchive
<1>2. archive \in Seq(Entries) /\ Len(archive) = n
  BY Bounds
<1>3. fits' \in BOOLEAN
  BY <1>1
<1>4. /\ EntryTypes' /\ PlaceTypes' /\ mode' = "archive" /\ entries' = archive /\ entry' = 1
      /\ block' = 0 /\ committed' = <<>> /\ (updateError' \in BOOLEAN => FlagTypes')
      /\ (fresh' => partition = "none" /\ ~tarBlockIsUpdateData)
      /\ tarBlockIsUpdateData' = tarBlockIsUpdateData
  BY <1>1, <1>2, <1>3, CalledGives, Zenon
<1>5. UpdateTypes' /\ FlagTypes' /\ partition' = partition
  <2>1. <<>> \in Seq(Commit)
    OBVIOUS
  <2>2. UpdateTypes' /\ updateError' = updateError /\ partition' = partition
    BY <1>1, <1>4, <2>1, Zenon DEF IInv, Types, UpdateTypes, update
  <2>3. updateError' \in BOOLEAN
    BY <2>2, Zenon DEF IInv, Types, FlagTypes
  <2>4. QED
    BY <1>4, <2>2, <2>3, Zenon
<1>6. ResultTypes'
  BY <1>1, Zenon DEF IInv, Types, ResultTypes
<1>7. Types'
  BY <1>4, <1>5, <1>6, Zenon DEF Types
<1>8. Stages'
  BY <1>1, <1>2, <1>4 DEF Stages, OfImage, OfArchive, BeforeTar
<1>9. Inflated' /\ Roomy'
  BY <1>1 DEF Inflated, Roomy
<1>10. Unpacked'
  <2>1. ~OfArchive' /\ pc' \notin {"data", "end"}
    BY <1>1 DEF OfArchive
  <2>2. QED
    BY <1>4, <1>5, <2>1, Zenon DEF Unpacked
<1>11. pc' # "idle" /\ returned' = "no"
  BY <1>1
<1>12. QED
  BY <1>7, <1>8, <1>9, <1>10, <1>11, RunsIInv, Zenon

\* A source that ends, or memory that there is not.
LEMMA FaultIInv ==
  ASSUME IInv, pc # "idle", Returns("false", AnError), sound' = FALSE,
         UNCHANGED update, UNCHANGED position, KeepFlags
  PROVE  IInv'
<1>3. UNCHANGED call /\ installed' = installed /\ damaged' = damaged /\ committed' = committed
      /\ tarBlockIsUpdateData' = tarBlockIsUpdateData
  BY Zenon DEF KeepFlags
<1>4. UpdateTypes' /\ updateError' = updateError
  BY <1>3, KeptUpdate, Zenon DEF IInv, Types
<1>5. ResultTypes' /\ returned' = "false" /\ pc' = "idle"
  BY ReturnsTypes, Zenon DEF IInv, Types
<1>6. EntryTypes' /\ PlaceTypes' /\ entries' = entries /\ mode' = mode /\ fresh' = fresh
  BY <1>3, KeptEntries, KeptPlace, Zenon DEF IInv, Types
<1>7. FlagTypes'
  <2>1. sound' \in BOOLEAN
    OBVIOUS
  <2>2. QED
    BY <1>3, <1>4, <2>1, KeptFlags, Zenon DEF IInv, Types, FlagTypes
<1>8. Types'
  BY <1>4, <1>5, <1>6, <1>7, Zenon DEF Types
<1>9. ~Sane'
  BY Unsound
<1>10. returned' \in {"false", "crash"}
  BY <1>5
<1>11. QED
  BY <1>3, <1>5, <1>6, <1>8, <1>9, <1>10, FailIInv, Zenon

LEMMA DryIInv == ASSUME IInv, Dry PROVE IInv'
<1>1. /\ Working /\ Returns("false", AnError) /\ sound' = FALSE
      /\ UNCHANGED update /\ UNCHANGED position /\ KeepFlags
  BY Zenon DEF Dry, update, position
<1>2. pc # "idle"
  BY <1>1 DEF Working
<1>3. QED
  BY <1>1, <1>2, FaultIInv, Zenon

LEMMA NoMemoryIInv == ASSUME IInv, NoMemory PROVE IInv'
<1>1. /\ pc \in {"inflating", "setup", "raw"} /\ Returns("false", AnError) /\ sound' = FALSE
      /\ UNCHANGED update /\ UNCHANGED position /\ KeepFlags
  BY Zenon DEF NoMemory, Faulty, KeepRest, update, position
<1>2. pc # "idle"
  BY <1>1
<1>3. QED
  BY <1>1, <1>2, FaultIInv, Zenon

-----------------------------------------------------------------------------
(***************************************************************************)
(* One image.                                                              *)
(***************************************************************************)
LEMMA InImage ==
  ASSUME IInv, Image
  PROVE  /\ pc = "inflating" /\ returned = "no" /\ mode = "image" /\ committed = <<>>
         /\ Len(entries) = 1 /\ entry = 1 /\ IsImage(1) /\ entry \in 1..MaxEntries
         /\ Size \in 0..MaxSize /\ Size \in Nat /\ Size <= MaxSize /\ block \in Nat
         /\ block <= Size /\ outlen = block /\ room \in Nat
         /\ partition = PartitionOf(entries[1].kind) /\ partition \in Partition /\ ~updateError
         /\ flashed = Units(0, block) /\ flashed \in Seq(Unit)
<1>1. pc = "inflating" /\ pc # "idle"
  BY DEF Image
<1>2. /\ mode = "image" /\ committed = <<>> /\ Len(entries) = 1 /\ entry = 1 /\ IsImage(1)
  BY <1>1, Zenon DEF IInv, Stages, OfImage
<1>3. returned = "no"
  BY <1>1 DEF IInv, Phases
<1>4. entry \in 1..MaxEntries
  BY <1>2, Bounds
<1>5. EntryTypes /\ 1 \in 1..Len(entries)
  BY <1>2 DEF IInv, Types
<1>6. Size \in 0..MaxSize /\ PartitionOf(entries[1].kind) \in Partition
  BY <1>2, <1>5, Kind DEF Size
<1>7. Size \in Nat /\ Size <= MaxSize /\ block \in Nat /\ room \in Nat
  BY <1>6, Bounds DEF IInv, Types, PlaceTypes, UpdateTypes
<1>8. /\ block <= Size /\ outlen = block /\ flashed = Units(0, block)
      /\ partition = PartitionOf(entries[1].kind) /\ ~updateError
  BY <1>1, Zenon DEF IInv, Inflated
<1>9. flashed \in Seq(Unit)
  BY DEF IInv, Types, UpdateTypes
<1>10. QED
  BY <1>1, <1>2, <1>3, <1>4, <1>6, <1>7, <1>8, <1>9, Zenon

LEMMA Kept ==
  ASSUME IInv, KeepRest \/ KeepFlags
  PROVE  /\ EntryTypes' /\ entries' = entries /\ mode' = mode /\ fresh' = fresh
         /\ committed' = committed /\ UNCHANGED call /\ installed' = installed
         /\ damaged' = damaged /\ tarBlockIsUpdateData' = tarBlockIsUpdateData
         /\ sound' \in BOOLEAN /\ updateError' \in BOOLEAN => FlagTypes'
<1>1. /\ UNCHANGED call /\ installed' = installed /\ damaged' = damaged
      /\ committed' = committed /\ tarBlockIsUpdateData' = tarBlockIsUpdateData
  BY Zenon DEF KeepRest, KeepFlags
<1>2. /\ EntryTypes' /\ entries' = entries /\ mode' = mode /\ fresh' = fresh
  BY <1>1, KeptEntries, Zenon DEF IInv, Types
<1>3. sound' \in BOOLEAN /\ updateError' \in BOOLEAN => FlagTypes'
  BY <1>1, KeptFlags, Zenon DEF IInv, Types, FlagTypes
<1>4. QED
  BY <1>1, <1>2, <1>3, Zenon

\* The callback of Update refuses units that it has no reason to refuse, as long as nothing fails.
LEMMA RefusedIInv ==
  ASSUME IInv, Image, KeepRest, NEW units, Refuses(units), Refused, AfterRefusal,
         Sane => Accepts(units)
  PROVE  IInv'
<1>1. /\ pc = "inflating" /\ returned = "no" /\ mode = "image" /\ committed = <<>>
      /\ Len(entries) = 1 /\ entry = 1 /\ IsImage(1)
  BY InImage
<1>2. /\ EntryTypes' /\ entries' = entries /\ mode' = mode /\ fresh' = fresh
      /\ committed' = committed /\ UNCHANGED call /\ installed' = installed
      /\ damaged' = damaged
      /\ (sound' \in BOOLEAN /\ updateError' \in BOOLEAN => FlagTypes')
  BY Kept, Zenon
<1>3. /\ UpdateTypes' /\ (updateError' \/ partition' = "none") /\ updateError' \in BOOLEAN
      /\ sound' \in BOOLEAN /\ (sound' => sound) /\ (sound' => ~Accepts(units))
  BY <1>2, RefusesGives, Zenon DEF IInv, Types, FlagTypes
<1>4. PlaceTypes' /\ entry' = entry /\ _error' = _error
  BY KeptPlace, Zenon DEF IInv, Types, Refused
<1>5. FlagTypes'
  BY <1>2, <1>3
<1>6. ~Sane'
  <2> SUFFICES ASSUME Sane' PROVE FALSE
    OBVIOUS
  <2>1. Sane
    BY <1>2, <1>3, SameSane, Zenon
  <2>2. ~Accepts(units)
    BY <1>3 DEF Sane
  <2>3. QED
    BY <2>1, <2>2
<1>7. CASE _error = ESP32_TARGZ_OK
  <2>1. pc' = "ending" /\ returned' = returned
    BY <1>7 DEF AfterRefusal
  <2>2. ResultTypes'
    BY <1>1, <1>4, <2>1, Zenon DEF IInv, Types, ResultTypes
  <2>3. Stages'
    BY <1>1, <1>2, <1>4, <2>1 DEF Stages, OfImage, OfArchive, BeforeTar, IsImage
  <2>4. Inflated' /\ Unpacked' /\ Roomy'
    BY <1>3, <1>6, <2>1, Zenon DEF Inflated, Unpacked, Roomy, OfArchive
  <2>5. Types'
    BY <1>2, <1>3, <1>4, <1>5, <2>2, Zenon DEF Types
  <2>6. pc' # "idle" /\ returned' = "no"
    BY <1>1, <2>1
  <2>7. QED
    BY <2>3, <2>4, <2>5, <2>6, RunsIInv, Zenon
<1>8. CASE _error # ESP32_TARGZ_OK
  <2>1. pc' = "idle" /\ returned' = "false"
    BY <1>8 DEF AfterRefusal
  <2>2. ResultTypes'
    BY <1>4, <2>1, Zenon DEF IInv, Types, ResultTypes
  <2>3. Types'
    BY <1>2, <1>3, <1>4, <1>5, <2>2, Zenon DEF Types
  <2>4. pc # "idle" /\ returned' \in {"false", "crash"}
    BY <1>1, <2>1
  <2>5. QED
    BY <1>2, <1>6, <2>1, <2>3, <2>4, FailIInv, Zenon
<1>9. QED
  BY <1>7, <1>8

LEMMA WrittenIInv ==
  ASSUME IInv, Image, KeepRest, NEW to \in Nat, block <= to, to <= Size,
         Flash(Units(block, to)), block' = to, outlen' = to,
         UNCHANGED <<entry, pc, returned, _error, sound>>
  PROVE  IInv'
<1>1. /\ pc = "inflating" /\ returned = "no" /\ mode = "image" /\ committed = <<>>
      /\ Len(entries) = 1 /\ entry = 1 /\ IsImage(1) /\ entry \in 1..MaxEntries
      /\ Size \in Nat /\ Size <= MaxSize /\ block \in Nat
      /\ partition = PartitionOf(entries[1].kind)
      /\ flashed = Units(0, block) /\ room \in Nat
  BY InImage
<1>2. /\ EntryTypes' /\ entries' = entries /\ mode' = mode /\ fresh' = fresh
      /\ committed' = committed /\ UNCHANGED call /\ installed' = installed
      /\ damaged' = damaged
      /\ (sound' \in BOOLEAN /\ updateError' \in BOOLEAN => FlagTypes')
  BY Kept, Zenon
<1>3. to <= MaxSize
  BY <1>1, Bounds
<1>4. Units(block, to) \in Seq(Unit) /\ Len(Units(block, to)) = to - block
  BY <1>1, <1>3, UnitsAre
<1>5. UpdateTypes' /\ ~updateError' /\ updateError' = updateError
  <2>1. UpdateTypes' /\ ~updateError'
    BY <1>2, <1>4, FlashGives, Zenon DEF IInv, Types
  <2>2. updateError' = updateError
    BY DEF Flash
  <2>3. QED
    BY <2>1, <2>2
<1>6. FlagTypes'
  BY <1>2, <1>5, Zenon DEF IInv, Types, FlagTypes
<1>7. PlaceTypes'
  BY <1>1, <1>3, Bounds DEF IInv, Types, PlaceTypes
<1>8. ResultTypes' /\ pc' = "inflating" /\ returned' = "no" /\ entry' = entry /\ _error' = _error
  BY <1>1, Zenon DEF IInv, Types, ResultTypes
<1>9. Types'
  BY <1>2, <1>5, <1>6, <1>7, <1>8, Zenon DEF Types
<1>10. Stages'
  BY <1>1, <1>2, <1>8 DEF Stages, OfImage, OfArchive, BeforeTar, IsImage
<1>11. Size' = Size
  BY <1>2, <1>8, Zenon DEF Size
<1>12. flashed' = Units(0, to)
  <2>1. flashed' = Units(0, block) \o Units(block, to)
    BY <1>1 DEF Flash
  <2>2. Units(0, block) \o Units(block, to) = Units(0, to)
    BY <1>1, <1>3, UnitsJoin
  <2>3. QED
    BY <2>1, <2>2, Zenon
<1>13. Inflated'
  <2>1. Units(0, block)' = Units(0, to)
    BY <1>8 DEF Units
  <2>2. partition' = partition
    BY DEF Flash
  <2>3. block' <= Size' /\ outlen' = block'
    BY <1>11
  <2>4. QED
    BY <1>1, <1>2, <1>5, <1>8, <1>12, <2>1, <2>2, <2>3 DEF Inflated
<1>14. Unpacked'
  BY <1>8, Zenon DEF Unpacked, OfArchive
<1>15. Roomy'
  <2> SUFFICES ASSUME Sane'
               PROVE  /\ WholeSectors(Size') <= room' + block'
                      /\ _error' # ESP32_TARGZ_OK => Size' % SPI_FLASH_SEC_SIZE # 0
    BY <1>8 DEF Roomy, WholeSectors
  <2>1. Sane
    BY <1>2, SameSane, Zenon
  <2>2. WholeSectors(Size) <= room + block
        /\ (_error # ESP32_TARGZ_OK => Size % SPI_FLASH_SEC_SIZE # 0)
    BY <1>1, <2>1, Zenon DEF IInv, Roomy
  <2>3. room' = room - (to - block)
    BY <1>4 DEF Flash
  <2>4. room' + block' = room + block
    BY <1>1, <2>3
  <2>5. QED
    BY <1>8, <1>11, <2>2, <2>4, Zenon
<1>16. pc' # "idle"
  BY <1>8
<1>17. QED
  BY <1>8, <1>9, <1>10, <1>13, <1>14, <1>15, <1>16, RunsIInv, Zenon

\* There is room for what is left of an image, as long as nothing fails.
LEMMA RoomLeft ==
  ASSUME IInv, Image, Sane
  PROVE  /\ Size <= room + block
         /\ Size = block => ZeroFill <= room
<1>1. /\ pc = "inflating" /\ Size \in Nat /\ block \in Nat /\ outlen = block /\ room \in Nat
  BY InImage
<1>2. WholeSectors(Size) <= room + block
  BY <1>1, Zenon DEF IInv, Roomy
<1>3. WholeSectors(Size) \in Nat /\ Size <= WholeSectors(Size)
  BY <1>1, Sectors
<1>4. Size = block => ZeroFill = WholeSectors(Size) - block
  BY <1>1 DEF ZeroFill
<1>5. QED
  BY <1>1, <1>2, <1>3, <1>4

LEMMA AcceptsLeft ==
  ASSUME IInv, Image, NEW to \in Nat, block <= to, to <= Size, Sane
  PROVE  Accepts(Units(block, to))
<1>1. /\ entry \in 1..MaxEntries /\ Size \in Nat /\ Size <= MaxSize /\ block \in Nat
      /\ partition \in Partition /\ ~updateError /\ room \in Nat
  BY InImage
<1>2. Len(Units(block, to)) = to - block
  BY <1>1, UnitsAre, Bounds
<1>3. to - block <= room
  BY <1>1, RoomLeft
<1>4. QED
  BY <1>1, <1>2, <1>3 DEF Accepts, Partition

LEMMA WriteBufferIInv == ASSUME IInv, WriteBuffer PROVE IInv'
<1> DEFINE next == block + SPI_FLASH_SEC_SIZE
<1>1. Image /\ ~InRest /\ KeepRest
  BY DEF WriteBuffer
<1>2. Size \in Nat /\ block \in Nat /\ outlen = block
  BY <1>1, InImage
<1>3. next \in Nat /\ block <= next /\ next <= Size
  BY <1>1, <1>2, Bounds DEF InRest
<1>4. CASE /\ Flash(Units(block, next)) /\ block' = next /\ outlen' = outlen + SPI_FLASH_SEC_SIZE
           /\ UNCHANGED <<entry, pc, returned, _error, sound>>
  <2>1. outlen' = next
    BY <1>2, <1>4
  <2> HIDE DEF next
  <2>2. QED
    BY <1>1, <1>3, <1>4, <2>1, WrittenIInv
<1>5. CASE Refuses(Units(block, next)) /\ Refused /\ AfterRefusal
  <2> HIDE DEF next
  <2>1. Sane => Accepts(Units(block, next))
    BY <1>1, <1>3, AcceptsLeft
  <2>2. QED
    BY <1>1, <1>5, <2>1, RefusedIInv
<1>6. QED
  BY <1>4, <1>5 DEF WriteBuffer, GzUpdateWriteCallback, KeepOutcome

LEMMA WriteRestIInv == ASSUME IInv, WriteRest PROVE IInv'
<1>1. Image /\ KeepRest /\ block < Size
  BY DEF WriteRest
<1>2. Size \in Nat /\ block \in Nat /\ outlen = block /\ block <= Size /\ Size <= Size
  BY <1>1, InImage
<1>3. CASE /\ Flash(Units(block, Size)) /\ block' = Size /\ outlen' = outlen + (Size - block)
           /\ UNCHANGED <<entry, pc, returned, _error, sound>>
  <2>1. outlen' = Size
    BY <1>2, <1>3
  <2>2. QED
    BY <1>1, <1>2, <1>3, <2>1, WrittenIInv
<1>4. CASE Refuses(Units(block, Size)) /\ Refused /\ AfterRefusal
  <2>1. Sane => Accepts(Units(block, Size))
    BY <1>1, <1>2, AcceptsLeft
  <2>2. QED
    BY <1>1, <1>4, <2>1, RefusedIInv
<1>5. QED
  BY <1>3, <1>4 DEF WriteRest, GzUpdateWriteCallback, KeepOutcome, Rest

\* The content of the image is its units, and the image is these and the zero fill.
LEMMA WholeImage ==
  ASSUME IInv, Image, block = Size
  PROVE  ImageOf(1) = Units(0, Size) \o Zeros(ZeroFill) /\ ZeroFill \in Nat
<1>1. /\ mode = "image" /\ entry = 1 /\ entry \in 1..MaxEntries /\ Size \in Nat
      /\ Size <= MaxSize /\ outlen = Size
  BY InImage
<1>2. entries[1].size = Size
  BY <1>1 DEF Size
<1>3. ZeroFill = (-Size) % SPI_FLASH_SEC_SIZE /\ ZeroFill \in Nat
  BY <1>1, Sectors DEF ZeroFill
<1>4. ContentOf(1) = Units(0, Size)
  <2>1. 1..(Size - 0) = 1..Size /\ \A i \in 1..Size : 0 + i = i
    BY <1>1
  <2>2. ContentOf(1) = [i \in 1..Size |-> <<1, i>>]
    BY <1>2, Zenon DEF ContentOf
  <2>3. Units(0, Size) = [i \in 1..Size |-> <<1, 0 + i>>]
    BY <1>1, <2>1, Zenon DEF Units
  <2> HIDE DEF Size
  <2>4. [i \in 1..Size |-> <<1, 0 + i>>] = [i \in 1..Size |-> <<1, i>>]
    BY <2>1, Zenon
  <2>5. QED
    BY <2>2, <2>3, <2>4, Zenon
<1>5. ImageOf(1) = ContentOf(1) \o Zeros((-Size) % SPI_FLASH_SEC_SIZE)
  <2>1. mode # "archive"
    BY <1>1
  <2>2. QED
    BY <1>2, <2>1, Zenon DEF ImageOf
<1>6. QED
  BY <1>3, <1>4, <1>5, Zenon

LEMMA EndingIInv ==
  ASSUME IInv, Image, KeepRest, block = Size, pc' = "ending",
         UNCHANGED <<entry, block, returned, _error, sound>>, outlen' \in Nat,
         UpdateTypes', updateError' = FALSE, partition' = partition,
         flashed' = Units(0, Size) \o Zeros(ZeroFill)
  PROVE  IInv'
<1>1. /\ pc = "inflating" /\ returned = "no" /\ mode = "image" /\ committed = <<>>
      /\ Len(entries) = 1 /\ entry = 1 /\ IsImage(1) /\ partition \in Partition
      /\ partition = PartitionOf(entries[1].kind)
  BY InImage
<1>2. /\ EntryTypes' /\ entries' = entries /\ mode' = mode /\ fresh' = fresh
      /\ committed' = committed /\ (sound' \in BOOLEAN /\ updateError' \in BOOLEAN => FlagTypes')
  BY Kept, Zenon
<1>3. FlagTypes'
  BY <1>2, Zenon DEF IInv, Types, FlagTypes
<1>4. PlaceTypes' /\ ResultTypes' /\ returned' = "no"
  BY <1>1, Zenon DEF IInv, Types, PlaceTypes, ResultTypes
<1>5. Types'
  BY <1>2, <1>3, <1>4, Zenon DEF Types
<1>6. Stages'
  BY <1>1, <1>2 DEF Stages, OfImage, OfArchive, BeforeTar, IsImage
<1>7. ImageOf(1)' = ImageOf(1)
  BY <1>2, Zenon DEF ImageOf, ContentOf, Zeros
<1>8. Inflated'
  <2>1. flashed' = ImageOf(1)'
    BY <1>7, WholeImage, Zenon
  <2>2. partition' = PartitionOf(entries'[1].kind)
    BY <1>1, <1>2
  <2>3. pc' # "inflating"
    OBVIOUS
  <2>4. QED
    BY <2>1, <2>2, <2>3, Zenon DEF Inflated
<1>9. Unpacked' /\ Roomy'
  BY <1>1 DEF Unpacked, OfArchive, Roomy, Partition
<1>10. pc' # "idle"
  OBVIOUS
<1>11. QED
  BY <1>4, <1>5, <1>6, <1>8, <1>9, <1>10, RunsIInv, Zenon

\* The zero fill: a callback that is asked to write nothing fails, and that counts only after
\* an old error.
LEMMA FillImageIInv == ASSUME IInv, FillImage PROVE IInv'
<1>1. Image /\ block = Size /\ outlen > 0 /\ KeepRest
  BY DEF FillImage
<1>2. /\ Size \in Nat /\ block \in Nat /\ outlen = Size /\ partition \in Partition /\ ~updateError
      /\ flashed = Units(0, Size) /\ room \in Nat /\ flashed \in Seq(Unit)
      /\ pc = "inflating" /\ returned = "no"
  BY <1>1, InImage
<1>3. ZeroFill \in Nat
  BY <1>1, WholeImage
<1>4. Zeros(ZeroFill) \in Seq(Unit) /\ Len(Zeros(ZeroFill)) = ZeroFill
  BY <1>3, ZerosAre
<1>5. /\ committed' = committed /\ entries' = entries /\ mode' = mode /\ fresh' = fresh
      /\ UNCHANGED call /\ installed' = installed /\ damaged' = damaged /\ EntryTypes'
      /\ (sound' \in BOOLEAN /\ updateError' \in BOOLEAN => FlagTypes')
  BY <1>1, Kept, Zenon
<1>6. CASE /\ Flash(Zeros(ZeroFill)) /\ outlen' = outlen + ZeroFill
           /\ pc' = "ending" /\ UNCHANGED <<entry, block, returned, _error, sound>>
  <2>1. UpdateTypes'
    BY <1>4, <1>5, <1>6, FlashGives, Zenon DEF IInv, Types
  <2>2. updateError' = FALSE /\ partition' = partition
    BY <1>6 DEF Flash, Accepts
  <2>3. flashed' = Units(0, Size) \o Zeros(ZeroFill)
    BY <1>2, <1>6, Zenon DEF Flash
  <2>4. outlen' \in Nat
    BY <1>2, <1>3, <1>6
  <2>5. QED
    BY <1>1, <1>6, <2>1, <2>2, <2>3, <2>4, EndingIInv
<1>7. CASE Refuses(Zeros(ZeroFill)) /\ Refused /\ AfterRefusal
  <2>1. Sane => Accepts(Zeros(ZeroFill))
    <3>1. Sane => ZeroFill <= room
      BY <1>1, RoomLeft
    <3>2. QED
      BY <1>2, <1>4, <3>1 DEF Accepts, Partition
  <2>2. QED
    BY <1>1, <1>7, <2>1, RefusedIInv
<1>8. CASE ZeroFill = 0 /\ UNCHANGED <<update, position, _error, sound>> /\ AfterRefusal
  <2>1. UNCHANGED update /\ UNCHANGED position /\ _error' = _error /\ sound' = sound
    BY <1>8 DEF update, position
  <2>2. UpdateTypes' /\ updateError' = updateError
    BY <1>5, <2>1, KeptUpdate, Zenon DEF IInv, Types
  <2>3. PlaceTypes' /\ entry' = entry /\ block' = block /\ outlen' = outlen
    BY <2>1, KeptPlace, Zenon DEF IInv, Types
  <2>4. CASE _error = ESP32_TARGZ_OK
    <3>1. pc' = "ending" /\ returned' = returned
      BY <1>8, <2>4 DEF AfterRefusal
    <3>2. partition' = partition /\ flashed' = flashed
      BY <2>1 DEF update
    <3>3. Units(0, Size) = Units(0, Size) \o Zeros(ZeroFill)
      <4>1. Zeros(0) = <<>>
        <5>1. 1..0 = {}
          OBVIOUS
        <5>2. QED
          BY <5>1 DEF Zeros
      <4>2. Units(0, Size) \in Seq(Unit)
        BY <1>2, Zenon
      <4>3. Units(0, Size) \o <<>> = Units(0, Size)
        BY <4>2, ConcatEmptySeq
      <4>4. QED
        BY <1>8, <4>1, <4>3, Zenon
    <3>4. flashed' = Units(0, Size) \o Zeros(ZeroFill)
      BY <1>2, <3>2, <3>3, Zenon
    <3>5. updateError' = FALSE
      <4>1. updateError = FALSE
        BY <1>2 DEF IInv, Types, FlagTypes
      <4>2. QED
        BY <2>2, <4>1
    <3>6. outlen' \in Nat
      BY <1>2, <2>3
    <3>7. QED
      BY <1>1, <2>1, <2>2, <2>3, <3>1, <3>2, <3>4, <3>5, <3>6, EndingIInv
  <2>5. CASE _error # ESP32_TARGZ_OK
    <3>1. pc' = "idle" /\ returned' = "false"
      BY <1>8, <2>5 DEF AfterRefusal
    <3>2. FlagTypes'
      BY <1>5, <2>1, <2>2, Zenon DEF IInv, Types, FlagTypes
    <3>3. ResultTypes'
      BY <2>1, <3>1, Zenon DEF IInv, Types, ResultTypes
    <3>4. Types'
      BY <1>5, <2>2, <2>3, <3>2, <3>3, Zenon DEF Types
    <3>5. ~Sane'
      <4> SUFFICES ASSUME Sane' PROVE FALSE
        OBVIOUS
      <4>1. Sane
        <5>1. sound' => sound
          BY <2>1
        <5>2. QED
          BY <1>5, <5>1, SameSane, Zenon
      <4>2. Size % SPI_FLASH_SEC_SIZE # 0
        BY <1>2, <2>5, <4>1, Zenon DEF IInv, Roomy
      <4>3. WholeSectors(Size) = Size
        <5>1. WholeSectors(Size) - Size = 0 /\ WholeSectors(Size) \in Nat
          BY <1>2, <1>8, Sectors DEF ZeroFill
        <5>2. QED
          BY <1>2, <5>1
      <4>4. QED
        BY <1>2, <4>2, <4>3, Sectors
    <3>6. pc # "idle" /\ returned' \in {"false", "crash"}
      BY <1>2, <3>1
    <3>7. QED
      BY <1>5, <3>1, <3>4, <3>5, <3>6, FailIInv, Zenon
  <2>6. QED
    BY <2>4, <2>5
<1>9. QED
  BY <1>6, <1>7, <1>8 DEF FillImage, GzUpdateWriteCallback, KeepOutcome

LEMMA NothingInflatedIInv == ASSUME IInv, NothingInflated PROVE IInv'
<1>1. /\ Image /\ block = Size /\ outlen = 0 /\ Returns("false", AnError)
      /\ UNCHANGED update /\ UNCHANGED position /\ sound' = sound /\ KeepRest
  BY DEF NothingInflated, update, position
<1>2. /\ Size = 0 /\ pc = "inflating" /\ entry = 1 /\ Len(entries) = 1
  BY <1>1, InImage
<1>3. /\ EntryTypes' /\ entries' = entries /\ mode' = mode /\ fresh' = fresh
      /\ committed' = committed
      /\ (sound' \in BOOLEAN /\ updateError' \in BOOLEAN => FlagTypes')
  BY <1>1, Kept, Zenon
<1>4. UpdateTypes' /\ updateError' = updateError
  BY <1>1, <1>3, KeptUpdate, Zenon DEF IInv, Types
<1>5. PlaceTypes'
  BY <1>1, KeptPlace, Zenon DEF IInv, Types
<1>6. ResultTypes' /\ returned' = "false" /\ pc' = "idle"
  BY <1>1, ReturnsTypes, Zenon DEF IInv, Types
<1>7. FlagTypes'
  BY <1>1, <1>3, <1>4, Zenon DEF IInv, Types, FlagTypes
<1>8. Types'
  BY <1>3, <1>4, <1>5, <1>6, <1>7, Zenon DEF Types
<1>9. ~Sane'
  <2>1. 1 \in DOMAIN entries' /\ entries'[1].size = 0
    <3>1. entries \in Seq(Entries)
      BY DEF IInv, Types, EntryTypes
    <3>2. 1 \in DOMAIN entries
      BY <1>2, <3>1
    <3>3. entries[1].size = 0
      BY <1>2 DEF Size
    <3>4. QED
      BY <1>3, <3>2, <3>3
  <2>2. ~(0 > 0)
    OBVIOUS
  <2>3. QED
    BY <2>1, <2>2, Zenon DEF Sane
<1>10. pc # "idle" /\ returned' \in {"false", "crash"}
  BY <1>2, <1>6
<1>11. QED
  BY <1>3, <1>6, <1>8, <1>9, <1>10, FailIInv, Zenon

\* What comes of a stream that breaks is shorter, and damaged.
LEMMA BreaksIInv == ASSUME IInv, Breaks PROVE IInv'
<1>1. /\ Image /\ ~InRest /\ damaged' = TRUE
      /\ UNCHANGED update /\ UNCHANGED position
      /\ UNCHANGED <<committed, callbacks, tarBlockIsUpdateData, _error, mode, fresh, stale, fits,
                     pc, returned, sound>>
  BY DEF Breaks, KeepTar, KeepOutcome, installed, update, position
<1>2. PICK n \in 0..(SPI_FLASH_SEC_SIZE - 1) :
        entries' = <<[entries[1] EXCEPT !.size = block + n]>>
  BY Zenon DEF Breaks
<1>3. /\ pc = "inflating" /\ returned = "no" /\ mode = "image" /\ committed = <<>>
      /\ Len(entries) = 1 /\ entry = 1 /\ IsImage(1) /\ Size \in Nat /\ Size <= MaxSize
      /\ block \in Nat /\ outlen = block /\ partition = PartitionOf(entries[1].kind) /\ ~updateError
      /\ flashed = Units(0, block)
  BY <1>1, InImage
<1>4. block + n \in 0..MaxSize /\ block <= block + n
  BY <1>1, <1>2, <1>3, Bounds DEF InRest
<1> DEFINE image == [entries[1] EXCEPT !.size = block + n]
<1>5. image \in Entries /\ image.kind = entries[1].kind /\ image.size = block + n
  <2>1. entries[1] \in Entries
    BY <1>3, Kind DEF IInv, Types
  <2> DEFINE size == block + n
  <2>2. size \in 0..MaxSize
    BY <1>4
  <2> HIDE DEF size
  <2>3. [entries[1] EXCEPT !.size = size] \in Entries
        /\ [entries[1] EXCEPT !.size = size].kind = entries[1].kind
        /\ [entries[1] EXCEPT !.size = size].size = size
    BY <2>1, <2>2 DEF Entries
  <2>4. QED
    BY <2>3 DEF size
<1>6. entries' = <<image>>
  BY <1>2
<1> HIDE DEF image
<1>7. entries' \in Seq(Entries) /\ Len(entries') = 1 /\ entries'[1] = image
  BY <1>5, <1>6, OneImage
<1>8. UpdateTypes' /\ updateError' = updateError
  BY <1>1, KeptUpdate, Zenon DEF IInv, Types
<1>9. PlaceTypes' /\ entry' = entry /\ block' = block /\ outlen' = outlen
  BY <1>1, KeptPlace, Zenon DEF IInv, Types
<1>10. EntryTypes' /\ ResultTypes'
  BY <1>1, <1>7, Zenon DEF IInv, Types, EntryTypes, ResultTypes
<1>11. FlagTypes'
  BY <1>1, <1>8, Zenon DEF IInv, Types, FlagTypes
<1>12. Types'
  BY <1>8, <1>9, <1>10, <1>11, Zenon DEF Types
<1>13. Stages'
  BY <1>1, <1>3, <1>5, <1>7, <1>9 DEF Stages, OfImage, OfArchive, BeforeTar, IsImage
<1>14. Inflated'
  <2>1. Units(0, block)' = Units(0, block)
    BY <1>9, Zenon DEF Units
  <2>2. partition' = partition /\ flashed' = flashed
    BY <1>1 DEF update
  <2>3. Size' = block + n
    BY <1>3, <1>5, <1>7, <1>9 DEF Size
  <2>4. block' <= Size' /\ outlen' = block'
    BY <1>3, <1>4, <1>9, <2>3
  <2>5. partition' = PartitionOf(entries'[1].kind)
    BY <1>3, <1>5, <1>7, <2>2, Zenon
  <2>6. flashed' = Units(0, block)' /\ ~updateError'
    BY <1>3, <1>8, <2>1, <2>2, Zenon
  <2>7. pc' = "inflating" /\ pc' # "ending"
    BY <1>1, <1>3
  <2>8. QED
    BY <2>4, <2>5, <2>6, <2>7, Zenon DEF Inflated
<1>15. Unpacked' /\ Roomy'
  <2>1. ~OfArchive'
    BY <1>1, <1>3 DEF OfArchive
  <2>2. ~Sane'
    BY <1>1 DEF Sane
  <2>3. QED
    BY <1>1, <1>3, <2>1, <2>2, Zenon DEF Unpacked, OfArchive, Roomy
<1>16. pc' # "idle" /\ returned' = "no"
  BY <1>1, <1>3
<1>17. QED
  BY <1>12, <1>13, <1>14, <1>15, <1>16, RunsIInv, Zenon

\* What Update.end commits of an image is the image, for its partition: a success, or a
\* failure that comes after it.
LEMMA EndImageIInv == ASSUME IInv, EndImage PROVE IInv'
<1>1. /\ pc = "ending" /\ UNCHANGED position /\ UNCHANGED call /\ installed' = installed
      /\ tarBlockIsUpdateData' = tarBlockIsUpdateData /\ damaged' = damaged
  BY DEF EndImage, KeepTar, position, call
<1>2. /\ mode = "image" /\ Len(entries) = 1 /\ entry = 1 /\ IsImage(1) /\ committed = <<>>
  BY <1>1, Zenon DEF IInv, Stages, OfImage
<1>3. /\ EntryTypes' /\ PlaceTypes' /\ entries' = entries /\ mode' = mode /\ fresh' = fresh
  BY <1>1, KeptEntries, KeptPlace, Zenon DEF IInv, Types
<1>4. UpdateTypes /\ EntryTypes /\ sound \in BOOLEAN /\ FlagTypes /\ ResultTypes
  BY Zenon DEF IInv, Types, FlagTypes
<1>5. ASSUME End
      PROVE  /\ UpdateTypes' /\ updateError' = updateError
             /\ FlashedBefore(Len(entries) + 1)' /\ SomeFlashed'
  <2>1. /\ UpdateTypes' /\ partition \in Partition /\ updateError' = updateError
        /\ [to |-> partition, content |-> flashed] \in Commit
        /\ committed' = Append(committed, [to |-> partition, content |-> flashed])
        /\ ~updateError
    BY <1>4, <1>5, EndGives
  <2>2. partition = PartitionOf(entries[1].kind) /\ flashed = ImageOf(1)
    <3>1. partition # "none"
      BY <2>1 DEF Partition
    <3>2. QED
      BY <1>1, <2>1, <3>1, Zenon DEF IInv, Inflated
  <2>3. 1 \in 1..Len(entries)
    BY <1>2
  <2>4. PartitionOf(entries[1].kind) = Wanted(1).to
    BY <1>2, <1>4, <2>3, Kind
  <2>5. Wanted(1) = [to |-> partition, content |-> flashed]
    BY <2>2, <2>4 DEF Wanted
  <2>6. FlashedBefore(1)
    BY <1>2, <1>4, NothingFlashed
  <2>7. committed \in Seq(Commit) /\ Wanted(1) \in Commit
        /\ committed' = Append(committed, Wanted(1))
    BY <1>4, <2>1, <2>5, Zenon DEF UpdateTypes
  <2>8. FlashedBefore(1 + 1)'
    BY <1>2, <1>3, <1>4, <2>3, <2>6, <2>7, EntryCommitted, Zenon
  <2>9. Len(entries') + 1 = 1 + 1 /\ 1 + 1 \in 1..(Len(entries') + 1)
    <3>1. Len(entries') = 1
      BY <1>2, <1>3, Zenon
    <3>2. QED
      BY <3>1
  <2>10. FlashedBefore(Len(entries) + 1)'
    BY <2>8, <2>9 DEF FlashedBefore, Images
  <2>11. SomeFlashed'
    BY <2>8, <2>9 DEF SomeFlashed
  <2>12. QED
    BY <2>1, <2>10, <2>11
<1>6. CASE End /\ Returns("true", ESP32_TARGZ_OK) /\ sound' = sound
  <2>1. /\ UpdateTypes' /\ updateError' = updateError
        /\ FlashedBefore(Len(entries) + 1)' /\ SomeFlashed'
    BY <1>5, <1>6
  <2>2. ResultTypes' /\ returned' = "true" /\ pc' = "idle"
    BY <1>4, <1>6, ReturnsTypes, Zenon
  <2>3. FlagTypes'
    BY <1>1, <1>4, <1>6, <2>1, KeptFlags, Zenon DEF FlagTypes
  <2>4. Types'
    BY <1>3, <2>1, <2>2, <2>3, Zenon DEF Types
  <2>5. SuccessMeansFlashed'
    <3>1. mode' # "archive"
      BY <1>2, <1>3
    <3>2. QED
      BY <2>1, <3>1, Zenon DEF SuccessMeansFlashed
  <2>6. returned' # "no" /\ returned' # "none" /\ returned' \notin {"false", "crash"}
    BY <2>2
  <2>7. QED
    BY <2>1, <2>2, <2>4, <2>5, <2>6, IdleIInv, Zenon
<1>7. CASE End /\ Faulty("end") /\ Returns("false", AnError)
  <2>1. /\ UpdateTypes' /\ updateError' = updateError
        /\ FlashedBefore(Len(entries) + 1)' /\ SomeFlashed'
    BY <1>5, <1>7
  <2>2. ResultTypes' /\ returned' = "false" /\ pc' = "idle"
    BY <1>4, <1>7, ReturnsTypes, Zenon
  <2>3. sound' \in BOOLEAN /\ ~sound'
    BY <1>7, FaultyGives
  <2>4. FlagTypes'
    BY <1>1, <1>4, <2>1, <2>3, KeptFlags, Zenon DEF FlagTypes
  <2>5. Types'
    BY <1>3, <2>1, <2>2, <2>4, Zenon DEF Types
  <2>6. SuccessMeansFlashed'
    BY <2>2 DEF SuccessMeansFlashed
  <2>7. returned' # "no" /\ returned' # "none"
    BY <2>2
  <2>8. ~Sane'
    BY <2>3, Unsound
  <2>9. QED
    BY <2>1, <2>2, <2>5, <2>6, <2>7, <2>8, IdleIInv, Zenon
<1>8. CASE EndFails /\ Returns("false", AnError)
  <2>1. /\ UpdateTypes' /\ updateError' = updateError /\ committed' = committed
        /\ sound' \in BOOLEAN /\ (sound' => sound /\ (partition = "none" \/ updateError))
    BY <1>4, <1>8, EndFailsGives
  <2>2. ResultTypes' /\ returned' = "false" /\ pc' = "idle"
    BY <1>4, <1>8, ReturnsTypes, Zenon
  <2>3. FlagTypes'
    BY <1>1, <1>4, <2>1, KeptFlags, Zenon DEF FlagTypes
  <2>4. Types'
    BY <1>3, <2>1, <2>2, <2>3, Zenon DEF Types
  <2>5. ~Sane'
    <3> SUFFICES ASSUME Sane' PROVE FALSE
      OBVIOUS
    <3>1. Sane
      BY <1>1, <2>1, SameSane, Zenon
    <3>2. partition # "none" /\ ~updateError
      BY <1>1, <3>1, Zenon DEF IInv, Roomy
    <3>3. sound'
      BY Zenon DEF Sane
    <3>4. QED
      BY <2>1, <3>2, <3>3, Zenon
  <2>6. pc # "idle" /\ returned' \in {"false", "crash"}
    BY <1>1, <2>2
  <2>7. QED
    BY <1>3, <2>1, <2>2, <2>4, <2>5, <2>6, FailIInv, Zenon
<1>9. QED
  BY <1>6, <1>7, <1>8 DEF EndImage, EndIncomplete

-----------------------------------------------------------------------------
(***************************************************************************)
(* An archive before tar is set up, or whose tar machine never runs.       *)
(***************************************************************************)
LEMMA InBeforeTar ==
  ASSUME IInv, Writer, BeforeTar
  PROVE  /\ pc # "idle" /\ returned = "no" /\ mode = "archive" /\ committed = <<>> /\ firstblock
         /\ Len(entries) <= MaxEntries /\ entry = 1 /\ block = 0 /\ outlen \in Nat
         /\ sound \in BOOLEAN /\ updateError \in BOOLEAN /\ UpdateTypes
<1>1. pc # "idle"
  BY DEF BeforeTar
<1>2. returned = "no"
  BY <1>1 DEF IInv, Phases
<1>3. /\ mode = "archive" /\ committed = <<>> /\ Len(entries) <= MaxEntries
      /\ entry = 1 /\ block = 0
  BY Zenon DEF IInv, Stages
<1>4. firstblock /\ outlen \in Nat /\ sound \in BOOLEAN /\ updateError \in BOOLEAN /\ UpdateTypes
  BY Zenon DEF Writer, IInv, Types, PlaceTypes, FlagTypes
<1>5. QED
  BY <1>1, <1>2, <1>3, <1>4, Zenon

\* The call returns what _error is, and nothing is committed.
LEMMA AfterRawIInv ==
  ASSUME IInv, Writer, BeforeTar, KeepRest, UpdateTypes', updateError' \in BOOLEAN,
         sound' \in BOOLEAN, entry' = entry, block' = block, outlen' \in Nat,
         NEW result \in {"true", "false"}, Returns(result, _error),
         result = "false" => ~Sane'
  PROVE  IInv'
<1>1. /\ pc # "idle" /\ mode = "archive" /\ committed = <<>> /\ firstblock
  BY InBeforeTar
<1>2. /\ EntryTypes' /\ entries' = entries /\ mode' = mode /\ fresh' = fresh
      /\ committed' = committed
      /\ (sound' \in BOOLEAN /\ updateError' \in BOOLEAN => FlagTypes')
  BY Kept, Zenon
<1>3. firstblock' = firstblock
  BY Zenon DEF KeepRest, KeepFlags
<1>4. ResultTypes' /\ returned' = result /\ pc' = "idle"
  <2>1. result \in {"true", "false", "crash"} /\ _error \in {ESP32_TARGZ_OK, AnError, _error}
    OBVIOUS
  <2>2. QED
    BY <2>1, ReturnsTypes, Zenon DEF IInv, Types
<1>5. PlaceTypes'
  BY Zenon DEF IInv, Types, PlaceTypes
<1>6. Types'
  BY <1>2, <1>4, <1>5, Zenon DEF Types
<1>7. SomeFlashed'
  BY <1>1, <1>2, NothingFlashed, SameSome, Zenon DEF IInv, Types
<1>8. SuccessMeansFlashed'
  BY <1>1, <1>2, <1>3, Zenon DEF SuccessMeansFlashed
<1>9. returned' # "no" /\ returned' # "none" /\ returned' # "crash"
  BY <1>4
<1>10. Sane' => returned' \notin {"false", "crash"}
  BY <1>4, <1>9
<1>11. QED
  BY <1>4, <1>6, <1>7, <1>8, <1>9, <1>10, IdleIInv, Zenon

\* The writer of an image is not that of an archive.
LEMMA RawUnsound ==
  ASSUME IInv, Writer, Raw
  PROVE  ~Sane' /\ BeforeTar /\ KeepRest /\ entry' = entry /\ block' = block
<1>1. pc = "raw" /\ KeepRest /\ entry' = entry /\ block' = block
  BY DEF Raw
<1>2. BeforeTar
  BY <1>1 DEF BeforeTar
<1>3. mode = "archive" /\ gzWriteCallback # "gzProcessTarBuffer"
  BY <1>1, <1>2, InBeforeTar, Zenon DEF Writer
<1>4. mode' = mode /\ gzWriteCallback' = gzWriteCallback
  BY <1>1 DEF KeepRest, KeepFlags, call, installed
<1>5. QED
  BY <1>1, <1>2, <1>3, <1>4, Zenon DEF Sane

LEMMA AfterRawReturns ==
  ASSUME AfterRaw
  PROVE  \E result \in {"true", "false"} : Returns(result, _error) /\ outlen' = outlen
<1>1. (IF _error = ESP32_TARGZ_OK THEN "true" ELSE "false") \in {"true", "false"}
  OBVIOUS
<1>2. QED
  BY <1>1, Zenon DEF AfterRaw

LEMMA RawRefusedIInv ==
  ASSUME IInv, Writer, Raw, NEW units, Refuses(units), AfterRaw
  PROVE  IInv'
<1>1. ~Sane' /\ BeforeTar /\ KeepRest /\ entry' = entry /\ block' = block
  BY RawUnsound
<1>2. UpdateTypes /\ sound \in BOOLEAN /\ updateError \in BOOLEAN /\ outlen \in Nat
  BY <1>1, InBeforeTar
<1>3. committed' = committed
  BY <1>1, Kept, Zenon
<1>4. UpdateTypes' /\ updateError' \in BOOLEAN /\ sound' \in BOOLEAN
  BY <1>2, <1>3, RefusesGives, Zenon
<1>5. PICK result \in {"true", "false"} : Returns(result, _error) /\ outlen' = outlen
  BY AfterRawReturns
<1>6. outlen' \in Nat
  BY <1>2, <1>5
<1>7. QED
  BY <1>1, <1>4, <1>5, <1>6, AfterRawIInv, Zenon

LEMMA RawFlashGives ==
  ASSUME IInv, Writer, Raw, NEW n \in Nat, Flash(Zeros(n))
  PROVE  UpdateTypes' /\ updateError' \in BOOLEAN
<1>1. BeforeTar /\ KeepRest
  BY RawUnsound
<1>2. UpdateTypes /\ updateError \in BOOLEAN /\ committed' = committed
  BY <1>1, InBeforeTar, Kept, Zenon
<1>3. Zeros(n) \in Seq(Unit)
  BY ZerosAre
<1>4. UpdateTypes'
  BY <1>2, <1>3, FlashGives, Zenon
<1>5. updateError' = updateError
  BY Zenon DEF Flash
<1>6. QED
  BY <1>2, <1>4, <1>5

LEMMA RawWriteIInv == ASSUME IInv, Writer, RawWrite PROVE IInv'
<1>1. PICK n \in 1..SPI_FLASH_SEC_SIZE :
        /\ Raw
        /\ \/ Flash(Zeros(n)) /\ outlen' = outlen + n /\ UNCHANGED pc /\ KeepOutcome
           \/ Refuses(Zeros(n)) /\ AfterRaw
  BY Zenon DEF RawWrite
<1>2. n \in Nat
  BY <1>1, Bounds
<1>3. CASE Flash(Zeros(n)) /\ outlen' = outlen + n /\ UNCHANGED pc /\ KeepOutcome
  <2>1. BeforeTar /\ KeepRest /\ entry' = entry /\ block' = block
    BY <1>1, RawUnsound
  <2>2. /\ returned = "no" /\ mode = "archive" /\ committed = <<>> /\ outlen \in Nat
        /\ Len(entries) <= MaxEntries /\ entry = 1 /\ block = 0 /\ sound \in BOOLEAN
    BY <2>1, InBeforeTar
  <2>3. UpdateTypes' /\ updateError' \in BOOLEAN
    BY <1>1, <1>2, <1>3, RawFlashGives
  <2>4. pc' = "raw" /\ _error' = _error /\ returned' = "no" /\ sound' = sound
    BY <1>1, <1>3, <2>2 DEF Raw, KeepOutcome
  <2>5. /\ EntryTypes' /\ entries' = entries /\ mode' = mode /\ committed' = committed
        /\ (sound' \in BOOLEAN /\ updateError' \in BOOLEAN => FlagTypes')
    BY <2>1, Kept, Zenon
  <2>6. outlen' \in Nat
    BY <1>2, <1>3, <2>2
  <2>7. PlaceTypes' /\ ResultTypes'
    BY <2>1, <2>4, <2>6, Zenon DEF IInv, Types, PlaceTypes, ResultTypes
  <2>8. Types'
    BY <2>2, <2>3, <2>4, <2>5, <2>7, Zenon DEF Types
  <2>9. Stages'
    BY <2>1, <2>2, <2>4, <2>5 DEF Stages, OfImage, OfArchive, BeforeTar
  <2>10. Inflated' /\ Unpacked' /\ Roomy'
    BY <2>4 DEF Inflated, Unpacked, Roomy, OfArchive
  <2>11. pc' # "idle"
    BY <2>4
  <2>12. QED
    BY <2>4, <2>8, <2>9, <2>10, <2>11, RunsIInv, Zenon
<1>4. CASE Refuses(Zeros(n)) /\ AfterRaw
  BY <1>1, <1>4, RawRefusedIInv
<1>5. QED
  BY <1>1, <1>3, <1>4

LEMMA RawEndsIInv == ASSUME IInv, Writer, RawEnds PROVE IInv'
<1>1. Raw
  BY DEF RawEnds
<1>2. ~Sane' /\ BeforeTar /\ KeepRest /\ entry' = entry /\ block' = block
  BY <1>1, RawUnsound
<1>3. outlen \in Nat /\ sound \in BOOLEAN /\ updateError \in BOOLEAN /\ UpdateTypes
  BY <1>2, InBeforeTar
<1>4. CASE /\ Flash(Zeros(ZeroFill)) /\ Returns("true", _error)
           /\ outlen' = outlen /\ sound' = sound
  <2>1. ZeroFill \in Nat
    BY <1>3, Sectors DEF ZeroFill
  <2>2. UpdateTypes' /\ updateError' \in BOOLEAN
    BY <1>1, <1>4, <2>1, RawFlashGives
  <2>3. outlen' \in Nat /\ sound' \in BOOLEAN
    BY <1>3, <1>4
  <2>4. "true" \in {"true", "false"} /\ Returns("true", _error)
    BY <1>4
  <2>5. QED
    BY <1>2, <2>2, <2>3, <2>4, AfterRawIInv, Zenon
<1>5. CASE Refuses(Zeros(ZeroFill)) /\ AfterRaw
  BY <1>1, <1>5, RawRefusedIInv
<1>6. CASE UNCHANGED update /\ sound' = sound /\ AfterRaw
  <2>1. committed' = committed
    BY <1>2, Kept, Zenon
  <2>2. UpdateTypes' /\ updateError' = updateError
    BY <1>3, <1>6, <2>1, KeptUpdate
  <2>3. PICK result \in {"true", "false"} : Returns(result, _error) /\ outlen' = outlen
    BY <1>6, AfterRawReturns
  <2>4. outlen' \in Nat /\ sound' \in BOOLEAN /\ updateError' \in BOOLEAN
    BY <1>3, <1>6, <2>2, <2>3
  <2>5. QED
    BY <1>2, <2>2, <2>3, <2>4, AfterRawIInv, Zenon
<1>7. QED
  BY <1>4, <1>5, <1>6, Zenon DEF RawEnds, GzUpdateWriteCallback, update

LEMMA TarSetupIInv == ASSUME IInv, Writer, TarSetup PROVE IInv'
<1>1. /\ pc = "setup" /\ pc' = "header" /\ UNCHANGED update /\ UNCHANGED position /\ UNCHANGED call
      /\ committed' = committed /\ installed' = installed /\ damaged' = damaged
      /\ tarBlockIsUpdateData' = tarBlockIsUpdateData
      /\ _error' = _error /\ returned' = returned /\ sound' = sound
  BY DEF TarSetup, KeepOutcome, update, position, call, installed
<1>2. BeforeTar
  BY <1>1 DEF BeforeTar
<1>3. /\ returned = "no" /\ mode = "archive" /\ committed = <<>> /\ entry = 1 /\ block = 0
      /\ Len(entries) <= MaxEntries
  BY <1>2, InBeforeTar
<1>4. EntryTypes' /\ entries' = entries /\ mode' = mode /\ fresh' = fresh
  BY <1>1, KeptEntries, Zenon DEF IInv, Types
<1>5. UpdateTypes' /\ updateError' = updateError /\ partition' = partition
  BY <1>1, KeptUpdate, Zenon DEF IInv, Types, update
<1>6. FlagTypes'
  BY <1>1, <1>5, KeptFlags, Zenon DEF IInv, Types, FlagTypes
<1>7. PlaceTypes' /\ entry' = entry /\ block' = block
  BY <1>1, KeptPlace, Zenon DEF IInv, Types
<1>8. ResultTypes' /\ returned' = "no" /\ pc' # "idle"
  BY <1>1, <1>3, Zenon DEF IInv, Types, ResultTypes
<1>9. Types'
  BY <1>4, <1>5, <1>6, <1>7, <1>8, Zenon DEF Types
<1>10. Stages'
  <2>1. Len(entries) \in Nat
    BY DEF IInv, Types, EntryTypes
  <2>2. QED
    BY <1>1, <1>3, <1>4, <1>7, <2>1 DEF Stages, OfImage, OfArchive, BeforeTar
<1>11. Unpacked'
  <2>1. FlashedBefore(entry)'
    <3>1. FlashedBefore(1)
      BY <1>3, NothingFlashed DEF IInv, Types
    <3>2. FlashedBefore(1)'
      BY <1>1, <1>4, <3>1, SameFlashed
    <3>3. entry' = 1
      BY <1>3, <1>7
    <3>4. QED
      BY <3>2, <3>3, FlashedHere
  <2>2. fresh => partition = "none" /\ ~tarBlockIsUpdateData
    BY <1>1, Zenon DEF IInv, Unpacked
  <2>3. pc' \notin {"data", "end"}
    BY <1>1
  <2>4. QED
    BY <1>1, <1>4, <1>5, <2>1, <2>2, <2>3, Zenon DEF Unpacked
<1>12. Inflated' /\ Roomy'
  BY <1>1 DEF Inflated, Roomy
<1>13. QED
  BY <1>8, <1>9, <1>10, <1>11, <1>12, RunsIInv, Zenon

\* There is no heap for tar: no call is told.
LEMMA TarSetupFailsIInv == ASSUME IInv, Writer, TarSetupFails PROVE IInv'
<1>1. /\ pc = "setup" /\ Faulty("memory") /\ AfterRaw /\ UNCHANGED update
      /\ entry' = entry /\ block' = block /\ KeepRest
  BY DEF TarSetupFails, update
<1>2. BeforeTar
  BY <1>1 DEF BeforeTar
<1>3. outlen \in Nat /\ updateError \in BOOLEAN /\ UpdateTypes
  BY <1>2, InBeforeTar
<1>4. sound' \in BOOLEAN /\ ~sound'
  BY <1>1, FaultyGives
<1>5. ~Sane'
  BY <1>4, Unsound
<1>6. committed' = committed
  BY <1>1, Kept, Zenon
<1>7. UpdateTypes' /\ updateError' = updateError
  BY <1>1, <1>3, <1>6, KeptUpdate
<1>8. PICK result \in {"true", "false"} : Returns(result, _error) /\ outlen' = outlen
  BY <1>1, AfterRawReturns
<1>9. outlen' \in Nat /\ updateError' \in BOOLEAN
  BY <1>3, <1>7, <1>8
<1>10. QED
  BY <1>1, <1>2, <1>4, <1>5, <1>7, <1>8, <1>9, AfterRawIInv, Zenon

-----------------------------------------------------------------------------
(***************************************************************************)
(* The images of an archive.                                               *)
(***************************************************************************)
LEMMA InArchive ==
  ASSUME IInv, pc \in {"header", "data", "end"}, pc = "header" => entry <= Len(entries)
  PROVE  /\ returned = "no" /\ mode = "archive" /\ entry \in 1..Len(entries) /\ entry \in Nat
         /\ Len(entries) \in Nat /\ entry \in 1..MaxEntries
         /\ Size \in 0..MaxSize /\ Size \in Nat /\ Size <= MaxSize /\ block \in Nat
         /\ entry \in DOMAIN entries /\ room \in Nat
<1>1. mode = "archive" /\ Len(entries) <= MaxEntries
  BY DEF IInv, Stages, OfArchive
<1>2. returned = "no"
  BY DEF IInv, Phases
<1>3. Len(entries) \in Nat /\ entry \in Nat /\ DOMAIN entries = 1..Len(entries)
  BY DEF IInv, Types, EntryTypes, PlaceTypes
<1>4. entry \in 1..Len(entries)
  BY <1>3 DEF IInv, Stages
<1>5. Size \in 0..MaxSize
  BY <1>4, Kind DEF Size, IInv, Types
<1>6. block \in Nat /\ room \in Nat
  BY Bounds DEF IInv, Types, PlaceTypes, UpdateTypes
<1>7. QED
  BY <1>1, <1>2, <1>3, <1>4, <1>5, <1>6, Bounds

\* With the conditions of SoundUpdateSucceeds every entry is an image, and Update has room
\* for it.
LEMMA SaneEntry ==
  ASSUME IInv, pc \in {"data", "end"}, Sane
  PROVE  /\ IsImage(entry) /\ tarBlockIsUpdateData /\ callbacks
         /\ partition \in Partition /\ ~updateError /\ room = Size - block
<1>1. mode = "archive" /\ entry \in DOMAIN entries /\ entry \in 1..Len(entries)
  BY InArchive
<1>2. IsImage(entry) /\ callbacks /\ fresh
  BY <1>1, Zenon DEF Sane
<1>3. OfEntry
  BY <1>2, Zenon DEF IInv, Unpacked
<1>4. PartitionOf(entries[entry].kind) \in Partition
  BY <1>1, <1>2, Kind DEF IInv, Types
<1>5. QED
  BY <1>2, <1>3, <1>4, Zenon DEF OfEntry

LEMMA AfterHeader ==
  ASSUME IInv, pc = "header", Archive, pc' = (IF Size > 0 THEN "data" ELSE "end"),
         UNCHANGED <<mode, entries, committed, fresh>>, entry' = entry, block' = block
  PROVE  Stages' /\ pc' \in {"data", "end"} /\ Size' = Size /\ block = 0
<1>1. /\ mode = "archive" /\ Len(entries) <= MaxEntries /\ entry \in 1..Len(entries)
      /\ Size \in Nat /\ block = 0
  <2>1. block = 0 /\ Len(entries) <= MaxEntries
    BY DEF IInv, Stages, OfArchive
  <2>2. QED
    BY <2>1, InArchive DEF Archive
<1>2. Size' = Size
  BY Zenon DEF Size
<1>3. QED
  BY <1>1, <1>2 DEF Stages, OfImage, OfArchive, BeforeTar

LEMMA HeaderIgnoredIInv == ASSUME IInv, HeaderIgnored PROVE IInv'
<1>1. /\ pc = "header" /\ Archive /\ ~Relevant /\ pc' = (IF Size > 0 THEN "data" ELSE "end")
      /\ UNCHANGED update /\ UNCHANGED position
      /\ _error' = _error /\ returned' = returned /\ sound' = sound /\ KeepRest
  BY DEF HeaderIgnored, KeepOutcome, update, position
<1>2. returned = "no" /\ entry \in 1..Len(entries) /\ entry \in DOMAIN entries
      /\ mode = "archive"
  BY <1>1, InArchive DEF Archive
<1>3. /\ EntryTypes' /\ entries' = entries /\ mode' = mode /\ fresh' = fresh
      /\ committed' = committed /\ tarBlockIsUpdateData' = tarBlockIsUpdateData
      /\ (sound' \in BOOLEAN /\ updateError' \in BOOLEAN => FlagTypes')
      /\ UNCHANGED call /\ installed' = installed /\ damaged' = damaged
  BY <1>1, Kept, Zenon
<1>4. UpdateTypes' /\ updateError' = updateError /\ partition' = partition
  BY <1>1, <1>3, KeptUpdate, Zenon DEF IInv, Types, update
<1>5. PlaceTypes' /\ entry' = entry /\ block' = block /\ outlen' = outlen
  BY <1>1, KeptPlace, Zenon DEF IInv, Types
<1>6. FlagTypes'
  BY <1>1, <1>3, <1>4, Zenon DEF IInv, Types, FlagTypes
<1>7. Stages' /\ pc' \in {"data", "end"}
  BY <1>1, <1>3, <1>5, AfterHeader
<1>8. ResultTypes'
  BY <1>1, <1>7, Zenon DEF IInv, Types, ResultTypes
<1>9. Types'
  BY <1>3, <1>4, <1>5, <1>6, <1>8, Zenon DEF Types
<1>10. ~IsImage(entry)
  BY <1>1, <1>2, Kind DEF IInv, Types, Relevant
<1>11. Unpacked'
  <2> SUFFICES ASSUME fresh' PROVE OfEntry' /\ FlashedBefore(entry)'
    BY <1>7, Zenon DEF Unpacked
  <2>1. partition = "none" /\ ~tarBlockIsUpdateData /\ FlashedBefore(entry)
    BY <1>1, <1>3, Zenon DEF IInv, Unpacked, OfArchive
  <2>2. ~IsImage(entry)'
    BY <1>3, <1>5, <1>10 DEF IsImage
  <2>3. FlashedBefore(entry)'
    <3>1. \A e : FlashedBefore(e)' <=> FlashedBefore(e)
      BY <1>3, SameFlashed
    <3>2. QED
      BY <1>5, <2>1, <3>1, FlashedHere
  <2>4. QED
    BY <1>3, <1>4, <2>1, <2>2, <2>3, Zenon DEF OfEntry
<1>12. Inflated' /\ Roomy'
  BY <1>7 DEF Inflated, Roomy
<1>13. pc' # "idle" /\ returned' = "no"
  BY <1>1, <1>2, <1>7
<1>14. QED
  BY <1>7, <1>9, <1>11, <1>12, <1>13, RunsIInv, Zenon

\* The entry's image is begun; the first one of all is shown to a callback that may not be set.
LEMMA HeaderBeginsIInv == ASSUME IInv, HeaderBegins PROVE IInv'
<1>1. /\ pc = "header" /\ Archive /\ Relevant
      /\ Begin(PartitionOf(entries[entry].kind), Size) /\ tarBlockIsUpdateData' = TRUE
      /\ committed' = committed /\ installed' = installed /\ UNCHANGED call
      /\ damaged' = damaged /\ sound' = sound
  BY DEF HeaderBegins, KeepTar, call
<1>2. /\ returned = "no" /\ entry \in 1..Len(entries) /\ entry \in DOMAIN entries
      /\ mode = "archive" /\ Size \in Nat /\ Size <= MaxSize
  BY <1>1, InArchive DEF Archive
<1>3. EntryTypes' /\ entries' = entries /\ mode' = mode /\ fresh' = fresh
  BY <1>1, KeptEntries, Zenon DEF IInv, Types
<1>4. /\ IsImage(entry) /\ PartitionOf(entries[entry].kind) \in Partition
      /\ partition' = PartitionOf(entries[entry].kind) /\ room' = Size /\ flashed' = <<>>
  BY <1>1, <1>2, Kind DEF IInv, Types, Relevant, Begin
<1>5. UpdateTypes' /\ updateError' = FALSE
  <2>1. Size \in 0..Unlimited
    BY <1>2, Bounds
  <2>2. UpdateTypes'
    BY <1>1, <1>4, <2>1, BeginGives, Zenon DEF IInv, Types
  <2>3. QED
    BY <1>1, <2>2, Zenon DEF Begin
<1>6. FlagTypes'
  <2>1. updateError' \in BOOLEAN /\ tarBlockIsUpdateData' \in BOOLEAN
    BY <1>1, <1>5
  <2>2. QED
    BY <1>1, <2>1, KeptFlags, Zenon DEF IInv, Types, FlagTypes
<1>7. CASE /\ pc' = (IF Size > 0 THEN "data" ELSE "end")
           /\ UNCHANGED position /\ _error' = _error /\ returned' = returned
  <2>1. PlaceTypes' /\ entry' = entry /\ block' = block
    BY <1>7, KeptPlace, Zenon DEF IInv, Types
  <2>2. Stages' /\ pc' \in {"data", "end"} /\ Size' = Size /\ block = 0
    BY <1>1, <1>3, <1>7, <2>1, AfterHeader
  <2>3. ResultTypes'
    BY <1>7, <2>2, Zenon DEF IInv, Types, ResultTypes
  <2>4. Types'
    BY <1>3, <1>5, <1>6, <2>1, <2>3, Zenon DEF Types
  <2>5. Unpacked'
    <3> SUFFICES ASSUME fresh' PROVE OfEntry' /\ FlashedBefore(entry)'
      BY <2>2, Zenon DEF Unpacked
    <3>1. FlashedBefore(entry)
      BY <1>1, <1>3, Zenon DEF IInv, Unpacked, OfArchive
    <3>2. FlashedBefore(entry)'
      <4>1. \A e : FlashedBefore(e)' <=> FlashedBefore(e)
        BY <1>1, <1>3, SameFlashed
      <4>2. QED
        BY <2>1, <3>1, <4>1, FlashedHere
    <3>3. IsImage(entry)'
      BY <1>3, <1>4, <2>1 DEF IsImage
    <3>4. Units(0, block)' = <<>>
      <4>1. 1..(0 - 0) = {}
        OBVIOUS
      <4>2. QED
        BY <2>1, <2>2, <4>1 DEF Units
    <3>5. room' = Size' - block'
      BY <1>2, <1>4, <2>1, <2>2
    <3>6. partition' = PartitionOf(entries'[entry'].kind) /\ flashed' = Units(0, block)'
      BY <1>3, <1>4, <2>1, <3>4, Zenon
    <3>7. ~updateError' /\ tarBlockIsUpdateData'
      BY <1>1, <1>5
    <3>8. OfEntry'
      BY <3>3, <3>5, <3>6, <3>7, Zenon DEF OfEntry
    <3>9. QED
      BY <3>2, <3>8
  <2>6. Inflated' /\ Roomy'
    BY <2>2 DEF Inflated, Roomy
  <2>7. pc' # "idle" /\ returned' = "no"
    BY <1>2, <1>7, <2>2
  <2>8. QED
    BY <2>2, <2>4, <2>5, <2>6, <2>7, RunsIInv, Zenon
<1>8. CASE ~callbacks /\ Crashes
  <2>1. Returns("crash", _error) /\ UNCHANGED position
    BY <1>8, Zenon DEF Crashes
  <2>2. ResultTypes' /\ returned' = "crash" /\ pc' = "idle"
    BY <2>1, ReturnsTypes, Zenon DEF IInv, Types
  <2>3. PlaceTypes'
    BY <2>1, KeptPlace, Zenon DEF IInv, Types
  <2>4. Types'
    BY <1>3, <1>5, <1>6, <2>2, <2>3, Zenon DEF Types
  <2>5. ~Sane'
    BY <1>1, <1>2, <1>3, <1>8, NoCallbacks
  <2>6. pc # "idle" /\ returned' \in {"false", "crash"}
    BY <1>1, <2>2
  <2>7. QED
    BY <1>1, <1>3, <2>2, <2>4, <2>5, <2>6, FailIInv, Zenon
<1>9. QED
  BY <1>7, <1>8 DEF HeaderBegins, position

LEMMA HeaderFailsIInv == ASSUME IInv, HeaderFails PROVE IInv'
<1>1. /\ pc = "header" /\ BeginFails /\ TarFails /\ KeepRest
  BY DEF HeaderFails
<1>2. Returns("false", AnError) /\ UNCHANGED position
  BY <1>1, Zenon DEF TarFails
<1>3. sound' \in BOOLEAN /\ (sound' => sound /\ partition # "none") /\ UNCHANGED update
  BY <1>1, BeginFailsGives, Zenon DEF IInv, Types, FlagTypes
<1>4. /\ EntryTypes' /\ entries' = entries /\ mode' = mode /\ fresh' = fresh
      /\ committed' = committed
      /\ (sound' \in BOOLEAN /\ updateError' \in BOOLEAN => FlagTypes')
      /\ UNCHANGED call /\ installed' = installed /\ damaged' = damaged
  BY <1>1, Kept, Zenon
<1>5. UpdateTypes' /\ updateError' = updateError
  BY <1>3, <1>4, KeptUpdate, Zenon DEF IInv, Types
<1>6. FlagTypes'
  BY <1>3, <1>4, <1>5, Zenon DEF IInv, Types, FlagTypes
<1>7. PlaceTypes'
  BY <1>2, KeptPlace, Zenon DEF IInv, Types
<1>8. ResultTypes' /\ returned' = "false" /\ pc' = "idle"
  BY <1>2, ReturnsTypes, Zenon DEF IInv, Types
<1>9. Types'
  BY <1>4, <1>5, <1>6, <1>7, <1>8, Zenon DEF Types
<1>10. ~Sane'
  <2> SUFFICES ASSUME Sane' PROVE FALSE
    OBVIOUS
  <2>1. sound' /\ fresh'
    BY Zenon DEF Sane
  <2>2. partition = "none"
    BY <1>1, <1>4, <2>1, Zenon DEF IInv, Unpacked
  <2>3. QED
    BY <1>3, <2>1, <2>2, Zenon
<1>11. pc # "idle" /\ returned' \in {"false", "crash"}
  BY <1>1, <1>8
<1>12. QED
  BY <1>4, <1>8, <1>9, <1>10, <1>11, FailIInv, Zenon

\* One more unit of an entry, if it is an image.
LEMMA DataIInv == ASSUME IInv, Data PROVE IInv'
<1>1. /\ pc = "data" /\ KeepRest
      /\ block' = block + 1 /\ pc' = (IF block + 1 = Size THEN "end" ELSE "data")
      /\ entry' = entry /\ _error' = _error /\ returned' = returned /\ sound' = sound
  BY DEF Data, KeepOutcome
<1>2. /\ returned = "no" /\ mode = "archive" /\ entry \in 1..Len(entries)
      /\ entry \in 1..MaxEntries /\ entry \in DOMAIN entries /\ room \in Nat
      /\ Size \in Nat /\ Size <= MaxSize /\ block \in Nat /\ Len(entries) \in Nat
  BY <1>1, InArchive
<1>3. block < Size /\ Len(entries) <= MaxEntries
  BY <1>1 DEF IInv, Stages, OfArchive
<1>4. /\ EntryTypes' /\ entries' = entries /\ mode' = mode /\ fresh' = fresh
      /\ committed' = committed /\ tarBlockIsUpdateData' = tarBlockIsUpdateData
      /\ (sound' \in BOOLEAN /\ updateError' \in BOOLEAN => FlagTypes')
  BY <1>1, Kept, Zenon
<1>5. block + 1 \in Nat /\ block <= block + 1 /\ block + 1 <= Size /\ block + 1 <= MaxSize
  BY <1>2, <1>3, Bounds
<1>6. Units(block, block + 1) \in Seq(Unit) /\ Len(Units(block, block + 1)) = 1
  <2>1. Units(block, block + 1) \in Seq(Unit) /\ Len(Units(block, block + 1)) = (block + 1) - block
    BY <1>2, <1>5, UnitsAre
  <2>2. QED
    BY <1>2, <2>1
<1>7. UpdateTypes' /\ updateError' \in BOOLEAN /\ outlen' \in Nat
  <2>1. CASE tarBlockIsUpdateData
    <3>1. Flash(Units(block, block + 1)) /\ outlen' = outlen + 1
      BY <2>1 DEF Data
    <3>2. UpdateTypes'
      BY <1>4, <1>6, <3>1, FlashGives, Zenon DEF IInv, Types
    <3>3. updateError' = updateError
      BY <3>1 DEF Flash
    <3>4. outlen' \in Nat
      BY <3>1 DEF IInv, Types, PlaceTypes
    <3>5. QED
      BY <3>2, <3>3, <3>4, Zenon DEF IInv, Types, FlagTypes
  <2>2. CASE ~tarBlockIsUpdateData
    <3>1. UNCHANGED update /\ outlen' = outlen
      BY <2>2 DEF Data, update
    <3>2. QED
      BY <1>4, <3>1, KeptUpdate, Zenon DEF IInv, Types, FlagTypes, PlaceTypes
  <2>3. QED
    BY <2>1, <2>2
<1>8. FlagTypes'
  BY <1>1, <1>4, <1>7, Zenon DEF IInv, Types, FlagTypes
<1>9. PlaceTypes'
  BY <1>1, <1>2, <1>5, <1>7, Bounds DEF IInv, Types, PlaceTypes
<1>10. pc' \in {"data", "end"}
  BY <1>1
<1>11. ResultTypes'
  BY <1>1, <1>10, Zenon DEF IInv, Types, ResultTypes
<1>12. Types'
  BY <1>4, <1>7, <1>8, <1>9, <1>11, Zenon DEF Types
<1>13. Size' = Size
  BY <1>1, <1>4, Zenon DEF Size
<1>14. Stages'
  BY <1>1, <1>2, <1>3, <1>4, <1>5, <1>13 DEF Stages, OfImage, OfArchive, BeforeTar
<1>15. Unpacked'
  <2> SUFFICES ASSUME fresh' PROVE OfEntry' /\ FlashedBefore(entry)'
    BY <1>10, Zenon DEF Unpacked
  <2>1. OfEntry /\ FlashedBefore(entry)
    BY <1>1, <1>4, Zenon DEF IInv, Unpacked, OfArchive
  <2>2. FlashedBefore(entry)'
    <3>1. \A e : FlashedBefore(e)' <=> FlashedBefore(e)
      BY <1>4, SameFlashed
    <3>2. QED
      BY <1>1, <2>1, <3>1, FlashedHere
  <2>3. IsImage(entry)' <=> IsImage(entry)
    BY <1>1, <1>4 DEF IsImage
  <2>4. CASE IsImage(entry)
    <3>1. /\ tarBlockIsUpdateData /\ partition = PartitionOf(entries[entry].kind) /\ ~updateError
          /\ flashed = Units(0, block) /\ room = Size - block
      BY <2>1, <2>4, Zenon DEF OfEntry
    <3>2. Flash(Units(block, block + 1))
      BY <3>1 DEF Data
    <3>3. /\ partition' = partition /\ updateError' = updateError /\ room' = room - 1
          /\ flashed' = flashed \o Units(block, block + 1)
      BY <1>6, <3>2 DEF Flash
    <3>4. flashed' = Units(0, block + 1)
      <4>1. Units(0, block) \o Units(block, block + 1) = Units(0, block + 1)
        BY <1>2, <1>5, UnitsJoin
      <4>2. QED
        BY <3>1, <3>3, <4>1, Zenon
    <3>5. Units(0, block)' = Units(0, block + 1)
      BY <1>1, Zenon DEF Units
    <3>6. room' = Size' - block'
      BY <1>1, <1>2, <1>13, <3>1, <3>3
    <3>7. partition' = PartitionOf(entries'[entry'].kind) /\ ~updateError' /\ tarBlockIsUpdateData'
      BY <1>1, <1>4, <3>1, <3>3, Zenon
    <3>8. flashed' = Units(0, block)'
      BY <3>4, <3>5, Zenon
    <3>9. OfEntry'
      BY <2>3, <2>4, <3>6, <3>7, <3>8, Zenon DEF OfEntry
    <3>10. QED
      BY <2>2, <3>9
  <2>5. CASE ~IsImage(entry)
    <3>1. ~tarBlockIsUpdateData /\ partition = "none"
      BY <2>1, <2>5, Zenon DEF OfEntry
    <3>2. partition' = partition
      BY <3>1 DEF Data, update
    <3>3. OfEntry'
      BY <1>4, <2>3, <2>5, <3>1, <3>2, Zenon DEF OfEntry
    <3>4. QED
      BY <2>2, <3>3
  <2>6. QED
    BY <2>4, <2>5
<1>16. Inflated' /\ Roomy'
  BY <1>10 DEF Inflated, Roomy
<1>17. pc' # "idle" /\ returned' = "no"
  BY <1>1, <1>2, <1>10
<1>18. QED
  BY <1>12, <1>14, <1>15, <1>16, <1>17, RunsIInv, Zenon

LEMMA DataFailsIInv == ASSUME IInv, DataFails PROVE IInv'
<1>1. pc = "data" /\ tarBlockIsUpdateData /\ KeepFlags
  BY DEF DataFails
<1>2. /\ entry \in 1..MaxEntries /\ entry \in DOMAIN entries /\ mode = "archive" /\ room \in Nat
      /\ Size \in Nat /\ Size <= MaxSize /\ block \in Nat
  BY <1>1, InArchive
<1>3. block < Size
  BY <1>1 DEF IInv, Stages
<1>4. /\ EntryTypes' /\ entries' = entries /\ mode' = mode /\ fresh' = fresh
      /\ committed' = committed
      /\ (sound' \in BOOLEAN /\ updateError' \in BOOLEAN => FlagTypes')
      /\ UNCHANGED call /\ installed' = installed /\ damaged' = damaged
  BY <1>1, Kept, Zenon
<1>5. block + 1 \in Nat /\ block <= block + 1 /\ block + 1 <= Size /\ block + 1 <= MaxSize
  BY <1>2, <1>3, Bounds
<1> DEFINE units == Units(block, block + 1)
<1>6. units \in Seq(Unit) /\ Len(units) = 1
  <2>1. units \in Seq(Unit) /\ Len(units) = (block + 1) - block
    BY <1>2, <1>5, UnitsAre
  <2>2. QED
    BY <1>2, <2>1
<1>7. (Refuses(units) /\ TarFails) \/ (~callbacks /\ Flash(units) /\ Crashes /\ sound' = sound)
  BY DEF DataFails
<1> HIDE DEF units
<1>8. CASE Refuses(units) /\ TarFails
  <2>1. Returns("false", AnError) /\ UNCHANGED position
    BY <1>8, Zenon DEF TarFails
  <2>2. ResultTypes' /\ returned' = "false" /\ pc' = "idle"
    BY <2>1, ReturnsTypes, Zenon DEF IInv, Types
  <2>3. PlaceTypes'
    BY <2>1, KeptPlace, Zenon DEF IInv, Types
  <2>4. /\ UpdateTypes' /\ updateError' \in BOOLEAN
        /\ sound' \in BOOLEAN /\ (sound' => sound) /\ (sound' => ~Accepts(units))
    BY <1>4, <1>8, RefusesGives, Zenon DEF IInv, Types, FlagTypes
  <2>5. FlagTypes'
    BY <1>4, <2>4
  <2>6. Types'
    BY <1>4, <2>2, <2>3, <2>4, <2>5, Zenon DEF Types
  <2>7. ~Sane'
    <3> SUFFICES ASSUME Sane' PROVE FALSE
      OBVIOUS
    <3>1. Sane
      BY <1>4, <2>4, SameSane, Zenon
    <3>2. partition \in Partition /\ ~updateError /\ room = Size - block
      BY <1>1, <3>1, SaneEntry
    <3>3. Accepts(units)
      BY <1>2, <1>3, <1>6, <3>2 DEF Accepts, Partition
    <3>4. sound'
      BY Zenon DEF Sane
    <3>5. QED
      BY <2>4, <3>3, <3>4, Zenon
  <2>8. pc # "idle" /\ returned' \in {"false", "crash"}
    BY <1>1, <2>2
  <2>9. QED
    BY <1>4, <2>2, <2>6, <2>7, <2>8, FailIInv, Zenon
<1>9. CASE ~callbacks /\ Flash(units) /\ Crashes /\ sound' = sound
  <2>1. Returns("crash", _error) /\ UNCHANGED position
    BY <1>9, Zenon DEF Crashes
  <2>2. ResultTypes' /\ returned' = "crash" /\ pc' = "idle"
    BY <2>1, ReturnsTypes, Zenon DEF IInv, Types
  <2>3. PlaceTypes'
    BY <2>1, KeptPlace, Zenon DEF IInv, Types
  <2>4. UpdateTypes' /\ updateError' = updateError
    <3>1. UpdateTypes'
      BY <1>4, <1>6, <1>9, FlashGives, Zenon DEF IInv, Types
    <3>2. QED
      BY <1>9, <3>1, Zenon DEF Flash
  <2>5. FlagTypes'
    BY <1>4, <1>9, <2>4, Zenon DEF IInv, Types, FlagTypes
  <2>6. Types'
    BY <1>4, <2>2, <2>3, <2>4, <2>5, Zenon DEF Types
  <2>7. ~Sane'
    BY <1>2, <1>4, <1>9, NoCallbacks
  <2>8. pc # "idle" /\ returned' \in {"false", "crash"}
    BY <1>1, <2>2
  <2>9. QED
    BY <1>4, <2>2, <2>6, <2>7, <2>8, FailIInv, Zenon
<1>10. QED
  BY <1>7, <1>8, <1>9

\* The end of an entry commits its image, and no other; without one there is nothing to end.
LEMMA EntryEnds ==
  ASSUME IInv, pc = "end", End \/ EndOfNothing, UNCHANGED call, NEW here, here = entry
  PROVE  /\ UpdateTypes' /\ updateError' = updateError
         /\ fresh => FlashedBefore(here + 1)' /\ SomeFlashed'
         /\ partition' = "none"
<1>1. /\ entry \in 1..Len(entries) /\ here \in 1..Len(entries) /\ Len(entries) \in Nat
      /\ entry \in Nat /\ UpdateTypes /\ EntryTypes /\ block = Size
  BY InArchive DEF IInv, Types, Stages
<1>2. mode = "archive"
  BY InArchive
<1>3. entries' = entries /\ mode' = mode
  BY DEF call
<1>4. fresh => OfEntry /\ FlashedBefore(entry)
  BY Zenon DEF IInv, Unpacked, OfArchive
<1>5. here + 1 \in 1..(Len(entries') + 1)
  BY <1>1, <1>3
<1>6. FlashedBefore(here + 1)' => SomeFlashed'
  BY <1>5, Zenon DEF SomeFlashed
<1>7. CASE End
  <2>1. /\ UpdateTypes' /\ partition \in Partition /\ updateError' = updateError
        /\ partition' = "none"
        /\ [to |-> partition, content |-> flashed] \in Commit
        /\ committed' = Append(committed, [to |-> partition, content |-> flashed])
    BY <1>1, <1>7, EndGives
  <2>2. ASSUME fresh PROVE FlashedBefore(here + 1)'
    <3>1. partition # "none"
      BY <2>1 DEF Partition
    <3>2. /\ IsImage(entry) /\ partition = PartitionOf(entries[entry].kind)
          /\ flashed = Units(0, block)
      BY <1>4, <2>2, <3>1, Zenon DEF OfEntry
    <3>3. Wanted(here) = [to |-> partition, content |-> flashed]
      <4>1. partition = Wanted(here).to
        BY <1>1, <3>2, Kind
      <4>2. Units(0, block) = ContentOf(entry)
        <5>1. Size - 0 = Size /\ \A i \in 1..Size : 0 + i = i
          <6>1. Size \in Nat
            BY InArchive
          <6> HIDE DEF Size
          <6>2. QED
            BY <6>1
        <5>2. Units(0, block) = [i \in 1..Size |-> <<entry, 0 + i>>]
          BY <1>1, <5>1, Zenon DEF Units
        <5>3. ContentOf(entry) = [i \in 1..Size |-> <<entry, i>>]
          BY Zenon DEF ContentOf, Size
        <5> HIDE DEF Size
        <5>4. [i \in 1..Size |-> <<entry, 0 + i>>] = [i \in 1..Size |-> <<entry, i>>]
          BY <5>1, Zenon
        <5>5. QED
          BY <5>2, <5>3, <5>4, Zenon
      <4>3. ImageOf(here) = flashed
        BY <1>2, <3>2, <4>2, Zenon DEF ImageOf
      <4>4. QED
        BY <4>1, <4>3 DEF Wanted
    <3>4. IsImage(here) /\ FlashedBefore(here)
      BY <1>4, <2>2, <3>2, Zenon
    <3>5. committed \in Seq(Commit) /\ Wanted(here) \in Commit
          /\ committed' = Append(committed, Wanted(here))
      BY <1>1, <2>1, <3>3, Zenon DEF UpdateTypes
    <3>6. QED
      BY <1>1, <1>3, <3>4, <3>5, EntryCommitted
  <2>3. QED
    BY <1>6, <2>1, <2>2
<1>8. CASE EndOfNothing
  <2>1. UNCHANGED update /\ committed' = committed /\ partition = "none" /\ partition' = "none"
    BY <1>8 DEF EndOfNothing, update
  <2>2. UpdateTypes' /\ updateError' = updateError
    BY <1>1, <2>1, KeptUpdate
  <2>3. ASSUME fresh PROVE FlashedBefore(here + 1)'
    <3>1. ~IsImage(here) /\ FlashedBefore(here)
      <4>1. IsImage(here) => PartitionOf(entries[here].kind) # "none"
        BY <1>1, Kind
      <4>2. QED
        BY <1>4, <2>1, <2>3, <4>1, Zenon DEF OfEntry
    <3>2. here \in Nat
      BY <1>1
    <3>3. FlashedBefore(here + 1)
      BY <1>1, <3>1, <3>2, EntrySkipped
    <3>4. QED
      BY <1>3, <2>1, <3>3, SameFlashed
  <2>4. QED
    BY <1>6, <2>1, <2>2, <2>3
<1>9. QED
  BY <1>7, <1>8

LEMMA EndEntryIInv == ASSUME IInv, EndEntry PROVE IInv'
<1>1. /\ pc = "end" /\ (End \/ EndOfNothing) /\ installed' = installed /\ UNCHANGED call
      /\ damaged' = damaged /\ sound' = sound /\ tarBlockIsUpdateData' = FALSE
  BY DEF EndEntry, KeepTar, call
<1>2. /\ entry \in 1..Len(entries) /\ Len(entries) \in Nat /\ returned = "no"
      /\ mode = "archive" /\ entry \in 1..MaxEntries
  BY <1>1, InArchive
<1>3. Len(entries) <= MaxEntries
  BY <1>1 DEF IInv, Stages, OfArchive
<1>4. EntryTypes' /\ entries' = entries /\ mode' = mode /\ fresh' = fresh
  BY <1>1, KeptEntries, Zenon DEF IInv, Types
<1>5. PICK here \in 1..Len(entries) : here = entry
  BY <1>2
<1>6. /\ UpdateTypes' /\ updateError' = updateError
      /\ fresh => FlashedBefore(here + 1)' /\ SomeFlashed'
      /\ partition' = "none"
  BY <1>1, <1>5, EntryEnds
<1>7. FlagTypes'
  <2>1. tarBlockIsUpdateData' \in BOOLEAN
    BY <1>1
  <2>2. QED
    BY <1>1, <1>6, <2>1, KeptFlags, Zenon DEF IInv, Types, FlagTypes
<1>8. CASE /\ callbacks /\ entry' = entry + 1 /\ block' = 0 /\ pc' = "header"
           /\ outlen' = outlen /\ _error' = _error /\ returned' = returned
  <2>1. PlaceTypes'
    BY <1>2, <1>8, Bounds DEF IInv, Types, PlaceTypes
  <2>2. ResultTypes' /\ returned' = "no"
    BY <1>2, <1>8, Zenon DEF IInv, Types, ResultTypes
  <2>3. Types'
    BY <1>4, <1>6, <1>7, <2>1, <2>2, Zenon DEF Types
  <2>4. Stages'
    BY <1>2, <1>3, <1>4, <1>8 DEF Stages, OfImage, OfArchive, BeforeTar
  <2>5. Unpacked'
    <3>1. fresh' => FlashedBefore(entry)'
      <4>1. entry' = here + 1
        BY <1>5, <1>8
      <4>2. QED
        BY <1>4, <1>6, <4>1, FlashedHere
    <3>2. QED
      BY <1>1, <1>6, <1>8, <3>1 DEF Unpacked
  <2>6. Inflated' /\ Roomy'
    BY <1>8 DEF Inflated, Roomy
  <2>7. pc' # "idle"
    BY <1>8
  <2>8. QED
    BY <2>2, <2>3, <2>4, <2>5, <2>6, <2>7, RunsIInv, Zenon
<1>9. CASE ~callbacks /\ Crashes
  <2>1. Returns("crash", _error) /\ UNCHANGED position
    BY <1>9, Zenon DEF Crashes
  <2>2. ResultTypes' /\ returned' = "crash" /\ pc' = "idle"
    BY <2>1, ReturnsTypes, Zenon DEF IInv, Types
  <2>3. PlaceTypes'
    BY <2>1, KeptPlace, Zenon DEF IInv, Types
  <2>4. Types'
    BY <1>4, <1>6, <1>7, <2>2, <2>3, Zenon DEF Types
  <2>5. ~Sane'
    BY <1>1, <1>2, <1>4, <1>9, NoCallbacks
  <2>6. fresh' => SomeFlashed'
    BY <1>4, <1>6, Zenon
  <2>7. SuccessMeansFlashed'
    BY <2>2 DEF SuccessMeansFlashed
  <2>8. returned' # "no" /\ returned' # "none"
    BY <2>2
  <2>9. QED
    BY <2>2, <2>4, <2>5, <2>6, <2>7, <2>8, IdleIInv, Zenon
<1>10. QED
  BY <1>8, <1>9 DEF EndEntry

LEMMA EndEntryFailsIInv == ASSUME IInv, EndEntryFails PROVE IInv'
<1>1. /\ pc = "end" /\ (EndFails \/ (End /\ Faulty("end"))) /\ TarFails
      /\ installed' = installed /\ UNCHANGED call /\ damaged' = damaged
      /\ tarBlockIsUpdateData' = tarBlockIsUpdateData
  BY DEF EndEntryFails, EndIncomplete, KeepTar, call
<1>2. Returns("false", AnError) /\ UNCHANGED position
  BY <1>1, Zenon DEF TarFails
<1>3. ResultTypes' /\ returned' = "false" /\ pc' = "idle" /\ PlaceTypes'
  BY <1>2, ReturnsTypes, KeptPlace, Zenon DEF IInv, Types
<1>4. EntryTypes' /\ entries' = entries /\ mode' = mode /\ fresh' = fresh
  BY <1>1, KeptEntries, Zenon DEF IInv, Types
<1>5. UpdateTypes /\ FlagTypes /\ sound \in BOOLEAN
  BY Zenon DEF IInv, Types, FlagTypes
<1>6. pc # "idle" /\ returned' \in {"false", "crash"} /\ returned' # "no" /\ returned' # "none"
  BY <1>1, <1>3
<1>7. CASE EndFails
  <2>1. /\ UpdateTypes' /\ updateError' = updateError /\ committed' = committed
        /\ sound' \in BOOLEAN /\ (sound' => sound /\ (partition = "none" \/ updateError))
    BY <1>5, <1>7, EndFailsGives
  <2>2. FlagTypes'
    BY <1>1, <1>5, <2>1, KeptFlags, Zenon DEF FlagTypes
  <2>3. Types'
    BY <1>3, <1>4, <2>1, <2>2, Zenon DEF Types
  <2>4. ~Sane'
    <3> SUFFICES ASSUME Sane' PROVE FALSE
      OBVIOUS
    <3>1. Sane
      BY <1>1, <2>1, SameSane, Zenon
    <3>2. partition \in Partition /\ ~updateError
      BY <1>1, <3>1, SaneEntry
    <3>3. partition # "none"
      BY <3>2 DEF Partition
    <3>4. sound'
      BY Zenon DEF Sane
    <3>5. QED
      BY <2>1, <3>2, <3>3, <3>4, Zenon
  <2>5. QED
    BY <1>3, <1>4, <1>6, <2>1, <2>3, <2>4, FailIInv, Zenon
<1>8. CASE End /\ Faulty("end")
  <2>1. PICK here : here = entry
    OBVIOUS
  <2>2. UpdateTypes' /\ updateError' = updateError /\ (fresh => SomeFlashed')
    BY <1>1, <1>8, <2>1, EntryEnds
  <2>3. sound' \in BOOLEAN /\ ~sound'
    BY <1>8, FaultyGives
  <2>4. FlagTypes'
    BY <1>1, <1>5, <2>2, <2>3, KeptFlags, Zenon DEF FlagTypes
  <2>5. Types'
    BY <1>3, <1>4, <2>2, <2>4, Zenon DEF Types
  <2>6. ~Sane'
    BY <2>3, Unsound
  <2>7. SuccessMeansFlashed'
    BY <1>3 DEF SuccessMeansFlashed
  <2>8. fresh' => SomeFlashed'
    BY <1>4, <2>2, Zenon
  <2>9. QED
    BY <1>3, <1>6, <2>5, <2>6, <2>7, <2>8, IdleIInv, Zenon
<1>9. QED
  BY <1>1, <1>7, <1>8

\* A machine that was stopped between two steps is not what a fresh call finds.
LEMMA TarMisreadsIInv == ASSUME IInv, Writer, TarMisreads PROVE IInv'
<1>1. /\ pc = "header" /\ ~atRest /\ TarFails /\ UNCHANGED update /\ sound' = sound /\ KeepFlags
  BY DEF TarMisreads, update
<1>2. Returns("false", AnError) /\ UNCHANGED position
  BY <1>1, Zenon DEF TarFails
<1>3. OfArchive /\ pc # "idle"
  BY <1>1 DEF OfArchive
<1>4. ~fresh
  BY <1>1, <1>3, Zenon DEF Writer
<1>5. /\ EntryTypes' /\ entries' = entries /\ mode' = mode /\ fresh' = fresh
      /\ committed' = committed
      /\ (sound' \in BOOLEAN /\ updateError' \in BOOLEAN => FlagTypes')
  BY <1>1, Kept, Zenon
<1>6. UpdateTypes' /\ updateError' = updateError
  BY <1>1, <1>5, KeptUpdate, Zenon DEF IInv, Types
<1>7. FlagTypes'
  BY <1>1, <1>5, <1>6, Zenon DEF IInv, Types, FlagTypes
<1>8. PlaceTypes'
  BY <1>2, KeptPlace, Zenon DEF IInv, Types
<1>9. ResultTypes' /\ returned' = "false" /\ pc' = "idle"
  BY <1>2, ReturnsTypes, Zenon DEF IInv, Types
<1>10. Types'
  BY <1>5, <1>6, <1>7, <1>8, <1>9, Zenon DEF Types
<1>11. ~Sane'
  BY <1>4, <1>5, Zenon DEF Sane
<1>12. returned' \in {"false", "crash"}
  BY <1>9
<1>13. QED
  BY <1>3, <1>5, <1>9, <1>10, <1>11, <1>12, FailIInv, Zenon

\* A call that returns with what is committed so far: its type, and what it is.
LEMMA StopsIInv ==
  ASSUME IInv, pc # "idle", UNCHANGED update, UNCHANGED position, UNCHANGED call,
         sound' = sound, committed' = committed, callbacks' = callbacks,
         tarBlockIsUpdateData' = tarBlockIsUpdateData, damaged' \in BOOLEAN,
         NEW result \in {"true", "false"}, NEW code \in {ESP32_TARGZ_OK, AnError, _error},
         Returns(result, code), result = "false" => ~Sane', SuccessMeansFlashed'
  PROVE  IInv'
<1>1. ResultTypes' /\ returned' = result /\ pc' = "idle" /\ PlaceTypes'
  <2>1. result \in {"true", "false", "crash"}
    OBVIOUS
  <2>2. QED
    BY <2>1, ReturnsTypes, KeptPlace, Zenon DEF IInv, Types
<1>2. EntryTypes' /\ entries' = entries /\ mode' = mode /\ fresh' = fresh
  BY KeptEntries, Zenon DEF IInv, Types
<1>3. UpdateTypes' /\ updateError' = updateError
  BY KeptUpdate, Zenon DEF IInv, Types
<1>4. FlagTypes'
  <2>1. stale' = stale /\ fits' = fits
    BY DEF call
  <2>2. QED
    BY <1>2, <1>3, <2>1, Zenon DEF IInv, Types, FlagTypes
<1>5. Types'
  BY <1>1, <1>2, <1>3, <1>4, Zenon DEF Types
<1>6. fresh' => SomeFlashed'
  BY <1>2, SoFar, SameSome, Zenon
<1>7. returned' # "no" /\ returned' # "none" /\ returned' # "crash"
  BY <1>1
<1>8. Sane' => returned' \notin {"false", "crash"}
  BY <1>1, <1>7
<1>9. QED
  BY <1>1, <1>5, <1>6, <1>7, <1>8, IdleIInv, Zenon

LEMMA ArchiveEndsIInv == ASSUME IInv, Writer, ArchiveEnds PROVE IInv'
<1>1. /\ pc = "header" /\ entry > Len(entries) /\ Returns("true", _error)
      /\ UNCHANGED update /\ UNCHANGED position /\ sound' = sound /\ KeepFlags
  BY DEF ArchiveEnds, update, position
<1>2. OfArchive /\ pc # "idle"
  BY <1>1 DEF OfArchive
<1>3. /\ entries' = entries /\ mode' = mode /\ fresh' = fresh /\ UNCHANGED call
      /\ committed' = committed /\ installed' = installed /\ damaged' = damaged
      /\ tarBlockIsUpdateData' = tarBlockIsUpdateData
  BY <1>1, Kept, Zenon
<1>4. callbacks' = callbacks /\ firstblock' = firstblock /\ damaged' \in BOOLEAN /\ ~firstblock'
  <2>1. callbacks' = callbacks /\ firstblock' = firstblock
    BY <1>1, <1>3 DEF KeepFlags, installed
  <2>2. damaged \in BOOLEAN /\ ~firstblock
    BY <1>2, Zenon DEF IInv, Types, FlagTypes, Writer
  <2>3. QED
    BY <1>3, <2>1, <2>2
<1>5. SuccessMeansFlashed'
  <2> SUFFICES ASSUME fresh' PROVE FlashedBefore(Len(entries) + 1)'
    BY <1>4, Zenon DEF SuccessMeansFlashed
  <2>1. FlashedBefore(entry)
    BY <1>2, <1>3, Zenon DEF IInv, Unpacked
  <2>2. Len(entries) \in Nat /\ entry \in 1..(Len(entries) + 1)
    BY <1>1 DEF IInv, Types, EntryTypes, Stages
  <2>3. entry = Len(entries) + 1
    BY <1>1, <2>2
  <2>4. PICK last : last = Len(entries) + 1
    OBVIOUS
  <2>5. FlashedBefore(last)
    BY <2>1, <2>3, <2>4, Zenon
  <2>6. FlashedBefore(last)' /\ last = Len(entries') + 1
    BY <1>3, <2>4, <2>5, SameFlashed, Zenon
  <2>7. QED
    BY <2>6 DEF FlashedBefore, Images
<1>6. /\ "true" \in {"true", "false"} /\ _error \in {ESP32_TARGZ_OK, AnError, _error}
      /\ "true" # "false"
  OBVIOUS
<1>7. QED
  BY <1>1, <1>2, <1>3, <1>4, <1>5, <1>6, StopsIInv, Zenon

LEMMA ArchiveBreaksIInv == ASSUME IInv, ArchiveBreaks PROVE IInv'
<1>1. /\ pc # "idle" /\ damaged' = TRUE
      /\ (Returns("true", _error) \/ Returns("false", AnError))
      /\ UNCHANGED update /\ UNCHANGED position /\ UNCHANGED call
      /\ sound' = sound /\ committed' = committed /\ callbacks' = callbacks
      /\ tarBlockIsUpdateData' = tarBlockIsUpdateData
  BY DEF ArchiveBreaks, InTar, update, position, call, installed
<1>2. ~Sane' /\ SuccessMeansFlashed' /\ damaged' \in BOOLEAN
  BY <1>1, Zenon DEF Sane, SuccessMeansFlashed
<1>3. PICK result \in {"true", "false"} :
        \E code \in {ESP32_TARGZ_OK, AnError, _error} : Returns(result, code)
  BY <1>1, Zenon
<1>4. PICK code \in {ESP32_TARGZ_OK, AnError, _error} : Returns(result, code)
  BY <1>3
<1>5. QED
  BY <1>1, <1>2, <1>4, StopsIInv, Zenon

-----------------------------------------------------------------------------
(***************************************************************************)
(* The theorems.                                                           *)
(***************************************************************************)
LEMMA StutterIInv == ASSUME IInv, UNCHANGED vars PROVE IInv'
<1>1. UNCHANGED update /\ UNCHANGED position /\ UNCHANGED call /\ installed' = installed
      /\ UNCHANGED <<committed, firstblock, tarBlockIsUpdateData, _error, pc, returned, sound,
                     damaged>>
  BY DEF vars
<1>2. EntryTypes' /\ entries' = entries /\ mode' = mode /\ fresh' = fresh
      /\ PlaceTypes' /\ entry' = entry /\ block' = block /\ outlen' = outlen
  BY <1>1, KeptEntries, KeptPlace, Zenon DEF IInv, Types
<1>3. UpdateTypes' /\ partition' = partition /\ room' = room /\ flashed' = flashed
      /\ updateError' = updateError
  BY <1>1, KeptUpdate, Zenon DEF IInv, Types, update
<1>4. FlagTypes' /\ ResultTypes'
  <2>1. FlagTypes'
    BY <1>1, <1>3, KeptFlags, Zenon DEF IInv, Types, FlagTypes
  <2>2. _error' = _error /\ pc' = pc /\ returned' = returned
    BY <1>1
  <2>3. ResultTypes'
    BY <2>2, Zenon DEF IInv, Types, ResultTypes
  <2>4. QED
    BY <2>1, <2>3
<1>5. Types'
  BY <1>2, <1>3, <1>4, Zenon DEF Types
<1>6. /\ Size' = Size /\ OfImage' = OfImage /\ OfArchive' = OfArchive
      /\ BeforeTar' = BeforeTar
  BY <1>1, <1>2, Zenon DEF Size, OfImage, OfArchive, BeforeTar
<1>7. Phases'
  BY <1>1 DEF IInv, Phases
<1>8. Stages'
  BY <1>1, <1>2, <1>6 DEF IInv, Stages, IsImage, OfImage, OfArchive, BeforeTar
<1>9. Units(0, block)' = Units(0, block) /\ ImageOf(1)' = ImageOf(1)
  BY <1>2, Zenon DEF Units, ImageOf, ContentOf, Zeros
<1>10. Inflated'
  BY <1>1, <1>2, <1>3, <1>6, <1>9, Zenon DEF IInv, Inflated
<1>11. \A e : FlashedBefore(e)' <=> FlashedBefore(e)
  BY <1>1, <1>2, SameFlashed
<1>12. Unpacked'
  <2> SUFFICES ASSUME fresh'
               PROVE  /\ pc' \in {"setup", "header"} =>
                           partition' = "none" /\ ~tarBlockIsUpdateData'
                      /\ pc' \in {"data", "end"} => OfEntry'
                      /\ OfArchive' => FlashedBefore(entry)'
    BY Zenon DEF Unpacked
  <2>1. /\ pc \in {"setup", "header"} => partition = "none" /\ ~tarBlockIsUpdateData
        /\ pc \in {"data", "end"} => OfEntry
        /\ OfArchive => FlashedBefore(entry)
    BY <1>2, Zenon DEF IInv, Unpacked
  <2>2. IsImage(entry)' <=> IsImage(entry)
    BY <1>2 DEF IsImage
  <2>3. OfEntry => OfEntry'
    BY <1>1, <1>2, <1>3, <1>6, <1>9, <2>2, Zenon DEF OfEntry
  <2>4. FlashedBefore(entry) => FlashedBefore(entry)'
    BY <1>2, <1>11, FlashedHere
  <2>5. QED
    BY <1>1, <1>3, <1>6, <2>1, <2>3, <2>4, Zenon
<1>13. Sane' => Sane
  BY <1>1, SameSane, Zenon
<1>14. Roomy'
  BY <1>1, <1>2, <1>3, <1>6, <1>13 DEF IInv, Roomy, WholeSectors
<1>15. Results'
  BY <1>1, <1>2, SameSome, Zenon DEF IInv, Results
<1>16. SoundUpdateSucceeds'
  <2>1. SoundUpdateSucceeds <=> (Sane => returned \notin {"false", "crash"})
    BY Zenon DEF SoundUpdateSucceeds, Sane
  <2>2. Sane' => returned' \notin {"false", "crash"}
    BY <1>1, <1>13, <2>1 DEF IInv
  <2>3. QED
    BY <2>2, Zenon DEF SoundUpdateSucceeds, Sane
<1>17. SuccessMeansFlashed'
  <2>1. PICK last : last = Len(entries) + 1
    OBVIOUS
  <2>2. FlashedBefore(Len(entries) + 1)' <=> FlashedBefore(last)'
    <3>1. last = Len(entries') + 1
      BY <1>2, <2>1
    <3>2. QED
      BY <3>1 DEF FlashedBefore, Images
  <2>3. FlashedBefore(last)' <=> FlashedBefore(Len(entries) + 1)
    BY <1>11, <2>1, Zenon
  <2>4. SuccessMeansFlashed
    BY DEF IInv
  <2>5. QED
    BY <1>1, <1>2, <2>2, <2>3, <2>4, Zenon DEF SuccessMeansFlashed
<1>18. QED
  BY <1>5, <1>7, <1>8, <1>10, <1>12, <1>14, <1>15, <1>16, <1>17, Zenon DEF IInv

\* The writer and the tar machine: a step that does not leave the archive keeps them; one
\* that leaves it, or is not of it, may change what the next call finds.
SameWriter ==
  gzWriteCallback' = gzWriteCallback /\ firstblock' = firstblock /\ atRest' = atRest

LEMMA WriterKept ==
  ASSUME Writer, SameWriter, fresh' = fresh, (OfArchive /\ OfArchive') \/ pc' = pc
  PROVE  Writer'
<1>1. firstblock' = firstblock /\ atRest' = atRest /\ gzWriteCallback' = gzWriteCallback
  BY DEF SameWriter
<1>2. CASE OfArchive /\ OfArchive'
  <2>1. ~BeforeTar' /\ pc' # "raw"
    BY <1>2 DEF OfArchive, BeforeTar
  <2>2. QED
    BY <1>1, <1>2, <2>1, Zenon DEF Writer
<1>3. CASE pc' = pc
  <2>1. OfArchive' = OfArchive /\ BeforeTar' = BeforeTar
    BY <1>3 DEF OfArchive, BeforeTar
  <2>2. QED
    BY <1>1, <1>3, <2>1, Zenon DEF Writer
<1>4. QED
  BY <1>2, <1>3

LEMMA WriterLeft ==
  ASSUME pc' \in {"idle", "inflating", "ending"}, firstblock' \in BOOLEAN, atRest' \in BOOLEAN,
         gzWriteCallback' \in {"none", "gzUpdateWriteCallback", "gzProcessTarBuffer"}
  PROVE  Writer'
<1>1. ~OfArchive' /\ ~BeforeTar' /\ pc' # "raw" /\ pc' # "setup"
  BY DEF OfArchive, BeforeTar
<1>2. QED
  BY <1>1, Zenon DEF Writer

\* What installs no writer and sets up nothing, and is not of an archive any more.
LEMMA WriterReturns ==
  ASSUME Writer, pc' \in {"idle", "inflating", "ending"}, installed' = installed,
         firstblock' = firstblock, atRest' \in BOOLEAN
  PROVE  Writer'
<1>1. firstblock' \in BOOLEAN /\ gzWriteCallback' = gzWriteCallback
  BY Zenon DEF Writer, installed
<1>2. gzWriteCallback' \in {"none", "gzUpdateWriteCallback", "gzProcessTarBuffer"}
  BY <1>1, Zenon DEF Writer
<1>3. QED
  BY <1>1, <1>2, WriterLeft, Zenon

LEMMA KeepTarGives ==
  ASSUME Writer, KeepTar
  PROVE  /\ SameWriter /\ installed' = installed /\ firstblock' = firstblock
         /\ atRest' \in BOOLEAN
BY Zenon DEF Writer, KeepTar, SameWriter, installed

LEMMA KeepFlagsGives ==
  ASSUME Writer, KeepFlags
  PROVE  /\ installed' = installed /\ firstblock' = firstblock /\ fresh' = fresh
         /\ (atRest' = atRest => KeepTar)
BY Zenon DEF KeepFlags, KeepTar, call

\* A step of a call that keeps all but where it is.
LEMMA WriterRuns ==
  ASSUME Writer, KeepTar, fresh' = fresh,
         \/ OfArchive /\ OfArchive'
         \/ pc' = pc
         \/ pc' \in {"idle", "inflating", "ending"}
  PROVE  Writer'
<1>1. /\ SameWriter /\ installed' = installed /\ firstblock' = firstblock
      /\ atRest' \in BOOLEAN
  BY KeepTarGives
<1>2. CASE (OfArchive /\ OfArchive') \/ pc' = pc
  BY <1>1, <1>2, WriterKept
<1>3. CASE pc' \in {"idle", "inflating", "ending"}
  BY <1>1, <1>3, WriterReturns, Zenon
<1>4. QED
  BY <1>2, <1>3

LEMMA KeepRestWriter ==
  ASSUME Writer, KeepRest,
         \/ OfArchive /\ OfArchive'
         \/ pc' = pc
         \/ pc' \in {"idle", "inflating", "ending"}
  PROVE  Writer'
<1>1. KeepTar /\ fresh' = fresh
  BY KeepFlagsGives, Zenon DEF KeepRest
<1>2. QED
  BY <1>1, WriterRuns

LEMMA InitWriter == ASSUME Init PROVE Writer
BY Zenon DEF Init, Writer, OfArchive, BeforeTar

LEMMA CallerWriter ==
  ASSUME Writer, Forget \/ Abort \/ SetCallbacks \/ Reboot
  PROVE  Writer'
<1>1. CASE Forget
  <2>1. pc' = "idle" /\ firstblock' = TRUE /\ atRest' = atRest /\ installed' = installed
    BY <1>1 DEF Forget, Forgets, installed
  <2>2. /\ gzWriteCallback' \in {"none", "gzUpdateWriteCallback", "gzProcessTarBuffer"}
        /\ atRest' \in BOOLEAN /\ firstblock' \in BOOLEAN
    BY <2>1, Zenon DEF Writer, installed
  <2>3. QED
    BY <2>1, <2>2, WriterLeft, Zenon
<1>2. CASE Reboot
  <2>1. pc' = "idle" /\ firstblock' = TRUE /\ atRest' = TRUE /\ gzWriteCallback' = "none"
    BY <1>2 DEF Reboot, Forgets
  <2>2. QED
    BY <2>1, WriterLeft, Zenon
<1>3. CASE Abort \/ SetCallbacks
  <2>1. KeepCall
    BY <1>3 DEF Abort, SetCallbacks
  <2>2. SameWriter /\ fresh' = fresh /\ pc' = pc
    BY <2>1 DEF KeepCall, SameWriter, call
  <2>3. QED
    BY <2>2, WriterKept
<1>4. QED
  BY <1>1, <1>2, <1>3

\* A call that starts, or is refused.
LEMMA CalledWriter ==
  ASSUME Writer,
         \/ \E image \in Entries, update_size \in 0..MaxSize, error \in {ESP32_TARGZ_OK, AnError} :
              UpdateImage(image, update_size, error)
         \/ \E m \in {"image", "archive"} : UpdateRefused(m)
         \/ \E archive : UpdateArchive(archive)
  PROVE  Writer'
<1>1. ASSUME NEW image, NEW update_size, NEW error, UpdateImage(image, update_size, error)
      PROVE  Writer'
  <2>1. /\ pc' = "inflating" /\ gzWriteCallback' = "gzUpdateWriteCallback" /\ firstblock' = TRUE
        /\ atRest' = atRest
    BY <1>1 DEF UpdateImage, Called
  <2>2. atRest' \in BOOLEAN
    BY <2>1, Zenon DEF Writer
  <2>3. QED
    BY <2>1, <2>2, WriterLeft, Zenon
<1>2. ASSUME NEW m, UpdateRefused(m) PROVE Writer'
  <2>1. /\ pc' = "idle" /\ firstblock' = TRUE /\ atRest' = atRest
        /\ gzWriteCallback' \in {gzWriteCallback, "gzUpdateWriteCallback"}
    <3>1. /\ (NotStarted(m) \/ gzWriteCallback' = "gzUpdateWriteCallback")
          /\ Returns("false", AnError) /\ firstblock' = TRUE /\ atRest' = atRest
      BY <1>2, Zenon DEF UpdateRefused
    <3>2. NotStarted(m) => gzWriteCallback' = gzWriteCallback
      BY Zenon DEF NotStarted
    <3>3. QED
      BY <3>1, <3>2, Zenon DEF Returns
  <2>2. /\ gzWriteCallback' \in {"none", "gzUpdateWriteCallback", "gzProcessTarBuffer"}
        /\ atRest' \in BOOLEAN
    BY <2>1, Zenon DEF Writer
  <2>3. QED
    BY <2>1, <2>2, WriterLeft, Zenon
<1>3. ASSUME NEW archive, UpdateArchive(archive) PROVE Writer'
  <2>1. /\ firstblock' = TRUE /\ atRest' = atRest /\ fresh' = Fresh("archive")
        /\ gzWriteCallback' = (IF gzWriteCallback = "none" THEN "gzProcessTarBuffer"
                               ELSE gzWriteCallback)
        /\ pc' = (IF gzWriteCallback' = "gzProcessTarBuffer" THEN "setup" ELSE "raw")
    BY <1>3 DEF UpdateArchive, Called
  <2>2. /\ gzWriteCallback' \in {"none", "gzUpdateWriteCallback", "gzProcessTarBuffer"}
        /\ atRest' \in BOOLEAN
    BY <2>1 DEF Writer
  <2>3. fresh' => atRest'
    BY <2>1 DEF Fresh
  <2>4. ~OfArchive' /\ (pc' = "raw" => gzWriteCallback' # "gzProcessTarBuffer")
    BY <2>1 DEF OfArchive
  <2>5. QED
    BY <2>1, <2>2, <2>3, <2>4, Zenon DEF Writer
<1>4. QED
  BY <1>1, <1>2, <1>3, Zenon

LEMMA BeforeTarWriter ==
  ASSUME Writer, RawWrite \/ RawEnds \/ TarSetup \/ TarSetupFails
  PROVE  Writer'
<1>1. CASE RawWrite
  <2>1. KeepRest /\ (pc' = pc \/ AfterRaw)
    BY <1>1, Zenon DEF RawWrite, Raw
  <2>2. AfterRaw => pc' = "idle"
    BY DEF AfterRaw, Returns
  <2>3. QED
    BY <2>1, <2>2, KeepRestWriter
<1>2. CASE RawEnds
  <2>1. KeepRest /\ pc' = "idle"
    BY <1>2 DEF RawEnds, Raw, AfterRaw, Returns
  <2>2. QED
    BY <2>1, KeepRestWriter
<1>3. CASE TarSetup
  <2>1. /\ pc = "setup" /\ pc' = "header" /\ firstblock' = FALSE /\ atRest' = atRest
        /\ gzWriteCallback' = gzWriteCallback /\ fresh' = fresh
    BY <1>3 DEF TarSetup, installed, call
  <2>2. ~BeforeTar' /\ pc' # "raw" /\ firstblock' \in BOOLEAN /\ ~firstblock'
    BY <2>1 DEF BeforeTar
  <2>3. QED
    BY <2>1, <2>2, Zenon DEF Writer
<1>4. CASE TarSetupFails
  <2>1. KeepRest /\ pc' = "idle"
    BY <1>4 DEF TarSetupFails, AfterRaw, Returns
  <2>2. QED
    BY <2>1, KeepRestWriter
<1>5. QED
  BY <1>1, <1>2, <1>3, <1>4

\* What stops a call, in the middle of a step of tar or not.
LEMMA StopsWriter ==
  ASSUME Writer, Dry \/ NoMemory \/ TarMisreads \/ DataFails \/ ArchiveEnds \/ ArchiveBreaks
  PROVE  Writer'
<1>1. CASE Dry
  <2>1. KeepFlags /\ pc' = "idle" /\ Stops
    BY <1>1 DEF Dry, Returns
  <2>2. atRest' \in BOOLEAN
    BY <2>1, Zenon DEF Stops, Writer
  <2>3. QED
    BY <2>1, <2>2, KeepFlagsGives, WriterReturns, Zenon
<1>2. CASE NoMemory
  <2>1. KeepRest /\ pc' = "idle"
    BY <1>2 DEF NoMemory, Returns
  <2>2. QED
    BY <2>1, KeepRestWriter
<1>3. CASE TarMisreads
  <2>1. KeepFlags /\ pc' = "idle" /\ atRest' \in BOOLEAN
    BY <1>3 DEF TarMisreads, TarFails, Returns
  <2>2. QED
    BY <2>1, KeepFlagsGives, WriterReturns, Zenon
<1>4. CASE DataFails
  <2>1. KeepFlags /\ pc' = "idle" /\ atRest' = FALSE
    BY <1>4 DEF DataFails, TarFails, Crashes, Returns
  <2>2. QED
    BY <2>1, KeepFlagsGives, WriterReturns, Zenon
<1>5. CASE ArchiveEnds
  <2>1. KeepFlags /\ pc' = "idle" /\ atRest' = TRUE
    BY <1>5 DEF ArchiveEnds, Returns
  <2>2. QED
    BY <2>1, KeepFlagsGives, WriterReturns, Zenon
<1>6. CASE ArchiveBreaks
  <2>1. /\ pc' = "idle" /\ installed' = installed /\ firstblock' = firstblock /\ Stops
    BY <1>6 DEF ArchiveBreaks, Returns, installed
  <2>2. atRest' \in BOOLEAN
    BY <2>1, Zenon DEF Stops, Writer
  <2>3. QED
    BY <2>1, <2>2, WriterReturns, Zenon
<1>7. QED
  BY <1>1, <1>2, <1>3, <1>4, <1>5, <1>6

LEMMA ImageWriter ==
  ASSUME Writer,
         WriteBuffer \/ Breaks \/ WriteRest \/ FillImage \/ NothingInflated \/ EndImage
  PROVE  Writer'
<1>1. AfterRefusal => pc' \in {"idle", "ending"}
  BY DEF AfterRefusal
<1>2. CASE WriteBuffer
  <2>1. KeepRest /\ (pc' = pc \/ AfterRefusal)
    BY <1>2, Zenon DEF WriteBuffer
  <2>2. QED
    BY <1>1, <2>1, KeepRestWriter
<1>3. CASE WriteRest
  <2>1. KeepRest /\ (pc' = pc \/ AfterRefusal)
    BY <1>3, Zenon DEF WriteRest
  <2>2. QED
    BY <1>1, <2>1, KeepRestWriter
<1>4. CASE FillImage
  <2>1. KeepRest /\ (pc' = "ending" \/ AfterRefusal)
    BY <1>4, Zenon DEF FillImage
  <2>2. QED
    BY <1>1, <2>1, KeepRestWriter
<1>5. CASE NothingInflated
  <2>1. KeepRest /\ pc' = "idle"
    BY <1>5 DEF NothingInflated, Returns
  <2>2. QED
    BY <2>1, KeepRestWriter
<1>6. CASE Breaks
  <2>1. KeepTar /\ fresh' = fresh /\ pc' = pc
    BY <1>6, Zenon DEF Breaks
  <2>2. QED
    BY <2>1, WriterRuns
<1>7. CASE EndImage
  <2>1. KeepTar /\ fresh' = fresh /\ pc' = "idle"
    BY <1>7 DEF EndImage, Returns, call
  <2>2. QED
    BY <2>1, WriterRuns
<1>8. QED
  BY <1>2, <1>3, <1>4, <1>5, <1>6, <1>7

LEMMA ArchiveWriter ==
  ASSUME Writer,
         HeaderIgnored \/ HeaderBegins \/ HeaderFails \/ Data \/ EndEntry \/ EndEntryFails
  PROVE  Writer'
<1>1. CASE HeaderIgnored
  <2>1. KeepRest /\ OfArchive /\ OfArchive'
    BY <1>1 DEF HeaderIgnored, OfArchive
  <2>2. QED
    BY <2>1, KeepRestWriter
<1>2. CASE HeaderBegins
  <2>1. KeepTar /\ fresh' = fresh /\ OfArchive /\ (OfArchive' \/ pc' = "idle")
    BY <1>2 DEF HeaderBegins, OfArchive, Crashes, Returns, call
  <2>2. QED
    BY <2>1, WriterRuns
<1>3. CASE HeaderFails
  <2>1. KeepRest /\ pc' = "idle"
    BY <1>3 DEF HeaderFails, TarFails, Returns
  <2>2. QED
    BY <2>1, KeepRestWriter
<1>4. CASE Data
  <2>1. KeepRest /\ pc = "data" /\ pc' = (IF block + 1 = Size THEN "end" ELSE "data")
    BY <1>4, Zenon DEF Data
  <2>2. OfArchive /\ OfArchive'
    BY <2>1 DEF OfArchive
  <2>3. QED
    BY <2>1, <2>2, KeepRestWriter
<1>5. CASE EndEntry
  <2>1. KeepTar /\ fresh' = fresh /\ OfArchive /\ (OfArchive' \/ pc' = "idle")
    BY <1>5 DEF EndEntry, OfArchive, Crashes, Returns, call
  <2>2. QED
    BY <2>1, WriterRuns
<1>6. CASE EndEntryFails
  <2>1. KeepTar /\ fresh' = fresh /\ pc' = "idle"
    BY <1>6 DEF EndEntryFails, TarFails, Returns, call
  <2>2. QED
    BY <2>1, WriterRuns
<1>7. QED
  BY <1>1, <1>2, <1>3, <1>4, <1>5, <1>6

LEMMA NextWriter == ASSUME Writer, [Next]_vars PROVE Writer'
<1>1. CASE \/ \E image \in Entries, error \in {ESP32_TARGZ_OK, AnError} :
                \E update_size \in 0..MaxSize : UpdateImage(image, update_size, error)
           \/ \E m \in {"image", "archive"} : UpdateRefused(m)
           \/ \E n \in 1..MaxEntries : \E archive \in [1..n -> Entries] : UpdateArchive(archive)
  BY <1>1, CalledWriter, Zenon
<1>2. CASE Forget \/ Abort \/ SetCallbacks \/ Reboot
  BY <1>2, CallerWriter
<1>3. CASE RawWrite \/ RawEnds \/ TarSetup \/ TarSetupFails
  BY <1>3, BeforeTarWriter
<1>4. CASE Dry \/ NoMemory \/ TarMisreads \/ DataFails \/ ArchiveEnds \/ ArchiveBreaks
  BY <1>4, StopsWriter
<1>5. CASE WriteBuffer \/ Breaks \/ WriteRest \/ FillImage \/ NothingInflated \/ EndImage
  BY <1>5, ImageWriter
<1>6. CASE HeaderIgnored \/ HeaderBegins \/ HeaderFails \/ Data \/ EndEntry \/ EndEntryFails
  BY <1>6, ArchiveWriter
<1>7. CASE UNCHANGED vars
  <2>1. SameWriter /\ fresh' = fresh /\ pc' = pc
    BY <1>7 DEF vars, installed, call, SameWriter
  <2>2. QED
    BY <2>1, WriterKept
<1>8. QED
  BY <1>1, <1>2, <1>3, <1>4, <1>5, <1>6, <1>7, Zenon DEF Next

LEMMA NextIInv == ASSUME IInv, Writer, [Next]_vars PROVE IInv'
<1>1. ASSUME NEW image \in Entries, NEW error \in {ESP32_TARGZ_OK, AnError},
             NEW update_size \in 0..MaxSize, UpdateImage(image, update_size, error)
      PROVE  IInv'
  BY <1>1, UpdateImageIInv
<1>2. ASSUME NEW m \in {"image", "archive"}, UpdateRefused(m)
      PROVE  IInv'
  BY <1>2, UpdateRefusedIInv
<1>3. ASSUME NEW n \in 1..MaxEntries, NEW archive \in [1..n -> Entries], UpdateArchive(archive)
      PROVE  IInv'
  BY <1>3, UpdateArchiveIInv
<1>4. CASE Forget \/ Abort \/ SetCallbacks \/ Reboot
  BY <1>4, ForgetIInv, AbortIInv, SetCallbacksIInv, RebootIInv
<1>5. CASE RawWrite \/ RawEnds \/ TarSetup \/ TarSetupFails \/ TarMisreads
  BY <1>5, RawWriteIInv, RawEndsIInv, TarSetupIInv, TarSetupFailsIInv, TarMisreadsIInv
<1>6. CASE Dry \/ NoMemory
  BY <1>6, DryIInv, NoMemoryIInv
<1>7. CASE WriteBuffer \/ Breaks \/ WriteRest \/ FillImage \/ NothingInflated \/ EndImage
  BY <1>7, WriteBufferIInv, BreaksIInv, WriteRestIInv, FillImageIInv, NothingInflatedIInv,
     EndImageIInv
<1>8. CASE HeaderIgnored \/ HeaderBegins \/ HeaderFails \/ Data \/ DataFails
  BY <1>8, HeaderIgnoredIInv, HeaderBeginsIInv, HeaderFailsIInv, DataIInv, DataFailsIInv
<1>9. CASE EndEntry \/ EndEntryFails \/ ArchiveEnds \/ ArchiveBreaks
  BY <1>9, EndEntryIInv, EndEntryFailsIInv, ArchiveEndsIInv, ArchiveBreaksIInv
<1>10. CASE UNCHANGED vars
  BY <1>10, StutterIInv
<1>11. QED
  BY <1>1, <1>2, <1>3, <1>4, <1>5, <1>6, <1>7, <1>8, <1>9, <1>10, Zenon DEF Next

LEMMA Inductive == Spec => [](IInv /\ Writer)
<1>1. Init => IInv /\ Writer
  BY InitIInv, InitWriter
<1>2. IInv /\ Writer /\ [Next]_vars => IInv' /\ Writer'
  BY NextIInv, NextWriter
<1>3. QED
  BY <1>1, <1>2, PTL DEF Spec

\* Update, the flag of the tar callbacks and what was committed keep to their values, from
\* call to call and whatever fails.
THEOREM TypeCorrect == Spec => []UpTypeOK
<1>1. IInv /\ Writer => UpTypeOK
  <2> SUFFICES ASSUME IInv, Writer PROVE UpTypeOK
    OBVIOUS
  <2>1. \A i \in DOMAIN committed : committed[i].to \in {"U_FLASH", "U_PART"}
    <3>1. committed \in Seq(Commit)
      BY DEF IInv, Types, UpdateTypes
    <3>2. \A i \in DOMAIN committed : committed[i] \in Commit
      BY <3>1
    <3>3. \A c \in Commit : c.to \in {"U_FLASH", "U_PART"}
      BY DEF Commit, Partition
    <3>4. QED
      BY <3>2, <3>3, Zenon
  <2>2. partition \in {"none", "U_FLASH", "U_PART"}
    BY DEF IInv, Types, UpdateTypes, Partition
  <2>3. {updateError, callbacks, tarBlockIsUpdateData, firstblock, atRest, fresh, sound, damaged,
         stale, fits} \subseteq BOOLEAN
    BY Zenon DEF IInv, Types, FlagTypes, Writer
  <2>4. QED
    BY <2>1, <2>2, <2>3, Zenon
       DEF IInv, Types, UpdateTypes, EntryTypes, PlaceTypes, ResultTypes, Unit, Writer, UpTypeOK
<1>2. QED
  BY <1>1, Inductive, PTL

\* What becomes the content of a partition is one whole image, the one meant for it, with
\* zeros up to a sector if it was a .gz of its own: whatever was refused on the way, and
\* whether the call succeeds or not.
THEOREM WholeImages == Spec => []CommittedIsImage
<1>1. IInv => CommittedIsImage
  <2> SUFFICES ASSUME IInv, fresh
               PROVE  \A i \in DOMAIN committed :
                        \E e \in DOMAIN entries : IsImage(e) /\ committed[i] = Wanted(e)
    BY Zenon DEF CommittedIsImage
  <2>1. CASE returned = "none"
    <3>1. committed = <<>>
      BY <2>1 DEF IInv, Results
    <3>2. DOMAIN committed = {}
      BY <3>1
    <3>3. QED
      BY <3>2, Zenon
  <2>2. CASE returned # "none"
    <3>1. SomeFlashed
      <4>1. CASE pc # "idle"
        BY <4>1, SoFar
      <4>2. CASE pc = "idle"
        <5>1. returned \in {"true", "false", "crash"}
          BY <2>2, <4>2 DEF IInv, Phases, Types, ResultTypes
        <5>2. QED
          BY <5>1, Zenon DEF IInv, Results
      <4>3. QED
        BY <4>1, <4>2
    <3>2. PICK last : FlashedBefore(last)
      BY <3>1, Zenon DEF SomeFlashed
    <3>3. QED
      BY <3>2, Zenon DEF FlashedBefore, Images
  <2>3. QED
    BY <2>1, <2>2
<1>2. QED
  BY <1>1, Inductive, PTL

\* A call that is a success has updated each partition that there was an image for, in the
\* order of the archive, and nothing else; or nothing at all, if it is the update of an archive
\* that has not set up tar.
THEOREM SuccessFlashed == Spec => []SuccessMeansFlashed
<1>1. IInv => SuccessMeansFlashed
  BY DEF IInv
<1>2. QED
  BY <1>1, Inductive, PTL

\* Images are flashed when nothing fails: whatever their size and the size that was announced,
\* and whatever failed earlier. What an earlier call may leave in the way are an update that is
\* neither ended nor aborted, a step of tar half done, an old error, and its write callback.
THEOREM SoundSucceeds == Spec => []SoundUpdateSucceeds
<1>1. IInv => SoundUpdateSucceeds
  BY DEF IInv
<1>2. QED
  BY <1>1, Inductive, PTL
=============================================================================
