--------------------------- MODULE CacheFileProofs ---------------------------
(***************************************************************************)
(* Proofs about CacheFile: what a start finds on the disk, for any set of  *)
(* folders, any number of updates and any number of faults.                *)
(***************************************************************************)
EXTENDS CacheFile, FiniteSetTheorems, TLAPS

\* The places of a start before and while it reads.
ReadingPlaces == {"version", "size", "folder"}
LoadPlaces == {"open", "exit", "error"} \cup ReadingPlaces

\* The order in which the folders of a cache are written.
Order(c) == SetToSeq(DOMAIN c)
FolderCount(c) == Cardinality(DOMAIN c)

\* An item that is not what was written.
Broken == {Partial, Deadly}

\* What stands behind the first k items of a file made from cache c: all of
\* it, or, where broken items are to be expected, perhaps less.
Left(r, c, k, bad) ==
    /\ r \in Seq(Items)
    /\ Len(r) + k <= Len(Contents(c))
    /\ bad = {} => Len(r) + k = Len(Contents(c))
    /\ \A i \in 1 .. Len(r) :
          r[i] = Contents(c)[k + i] \/ r[i] \in bad

\* What the server holds after k folders of c.
Taken(c, k) == [d \in {Order(c)[i] : i \in 1 .. k} \ Excluded |-> c[d]]

\* A start that reads a file made from c.
Loading(c, bad) ==
    /\ pc = "version" => Left(rest, c, 0, bad)
    /\ pc = "size" => Left(rest, c, 1, bad)
    /\ pc = "folder" =>
          /\ left <= FolderCount(c)
          /\ Left(rest, c, 2 + FolderCount(c) - left, bad)
          /\ m_directoryCache = Taken(c, FolderCount(c) - left)
    /\ pc = "exit" => \/ m_directoryCache = Without(c, Excluded)
                      \/ bad # {} /\ m_directoryCache = Empty
    /\ pc = "error" => bad # {} \/ DOMAIN c \cap LongFolders # {}

\* Whatever SaveCache wrote to the file, a start that reads it loads all of it
\* or nothing.
ReadsWhole ==
    IF cache2 = NoFile THEN pc = "exit" /\ m_directoryCache = Empty
    ELSE \A c \in saved : Left(cache2, c, 0, Broken) => Loading(c, Broken)

FileInv ==
    /\ TypeOK
    /\ saved \subseteq Caches /\ Empty \in saved /\ lastSaved \in Caches
    /\ pc = "write" => cache # NoFile
    /\ pc \in {"delete copy", "copy", "delete", "open", "version", "size"} =>
          m_directoryCache = Empty
    /\ pc \in ReadingPlaces \cup {"exit", "error"} => ReadsWhole

\* While nothing goes wrong, the newest cache is on its way from one file to
\* the other and into the memory.
CleanInv ==
    clean =>
       /\ pc \in {"down", "delete copy", "copy"} => cache = Contents(lastSaved)
       /\ pc \in {"delete", "open"} => cache2 = Contents(lastSaved)
       /\ Loading(lastSaved, {})
       /\ NothingLost

\* Nothing in the file kills the process.
Harmless(f) == \A i \in 1 .. Len(f) : f[i].kind # "deadly"

\* The start that a file kills has deleted it before, and the next one
\* deletes the copy.
CrashInv ==
    ~failed =>
       /\ crashes \in {0, 1}
       /\ pc \in LoadPlaces => cache = NoFile
       /\ crashes = 1 =>
             /\ cache = NoFile \/ Harmless(cache)
             /\ pc \in {"copy", "delete", "open"} => cache2 = NoFile \/ Harmless(cache2)
             /\ pc \in ReadingPlaces => Harmless(rest)

-----------------------------------------------------------------------------
(***************************************************************************)
(* The items of a file.                                                    *)
(***************************************************************************)

(* The kind of an item tells which it is, and what it carries.             *)
LEMMA ItemKinds ==
    ASSUME NEW x \in Items
    PROVE  /\ x.kind = "version" => x = Version(CacheDiskVersion)
           /\ x.kind = "size" => x.value \in 0 .. Cardinality(Folders)
           /\ x.kind = "folder" => x.dir \in Folders /\ x.status \in 1 .. MaxUpdates
           /\ x.kind = "partial" => x = Partial
           /\ x.kind = "deadly" => x = Deadly
           /\ x.kind = "zero" => x = Zero
           /\ x.kind \in {"version", "size", "folder", "partial", "deadly", "zero"}
  BY DEF Items, Version, Size, Folder, Partial, Deadly, Zero

(* SaveCache writes each folder once: SetToSeq is a bijection.             *)
LEMMA OrderCovers ==
    ASSUME NEW c \in Caches
    PROVE  /\ FolderCount(c) \in 0 .. Cardinality(Folders)
           /\ Order(c) \in [1 .. FolderCount(c) -> DOMAIN c]
           /\ \A i, j \in 1 .. FolderCount(c) : Order(c)[i] = Order(c)[j] => i = j
           /\ \A d \in DOMAIN c : \E i \in 1 .. FolderCount(c) : Order(c)[i] = d
<1>1. DOMAIN c \in SUBSET Folders
  BY DEF Caches
<1>2. IsFiniteSet(DOMAIN c) /\ FolderCount(c) \in 0 .. Cardinality(Folders)
  BY <1>1, FoldersAssumption, FS_Subset, FS_CardinalityType DEF FolderCount
<1>3. ExistsBijection(1 .. FolderCount(c), DOMAIN c)
  BY <1>2, FS_CardinalityType DEF FolderCount
<1>4. \E f \in [1 .. FolderCount(c) -> DOMAIN c] : IsInjective(f)
  BY <1>3 DEF ExistsBijection, Bijection, Injection, IsInjective
<1>5. Order(c) \in [1 .. FolderCount(c) -> DOMAIN c] /\ IsInjective(Order(c))
  BY <1>4 DEF Order, SetToSeq, FolderCount
<1>6. \A i, j \in 1 .. FolderCount(c) : Order(c)[i] = Order(c)[j] => i = j
  BY <1>5 DEF IsInjective
<1>7. Order(c) \in Injection(1 .. FolderCount(c), DOMAIN c)
  BY <1>5 DEF Injection
<1>8. Cardinality(1 .. FolderCount(c)) = Cardinality(DOMAIN c)
  BY <1>2, FS_Interval DEF FolderCount
<1>9. Order(c) \in Surjection(1 .. FolderCount(c), DOMAIN c)
  BY <1>2, <1>7, <1>8, FS_Injection
<1>10. \A d \in DOMAIN c : \E i \in 1 .. FolderCount(c) : Order(c)[i] = d
  BY <1>9 DEF Surjection
<1> QED BY <1>2, <1>5, <1>6, <1>10

(* Two parts of a file.                                                    *)
LEMMA ConcatItems ==
    ASSUME NEW p \in Seq(Items), NEW q \in Seq(Items)
    PROVE  /\ p \o q \in Seq(Items) /\ Len(p \o q) = Len(p) + Len(q)
           /\ \A i \in 1 .. Len(p) : (p \o q)[i] = p[i]
           /\ \A i \in 1 .. Len(q) : (p \o q)[Len(p) + i] = q[i]
  OBVIOUS

(* The file SaveCache writes.                                              *)
LEMMA ContentsItems ==
    ASSUME NEW c \in Caches
    PROVE  /\ Contents(c) \in Seq(Items)
           /\ Len(Contents(c)) = FolderCount(c) + 2
           /\ Contents(c)[1] = Version(CacheDiskVersion)
           /\ Contents(c)[2] = Size(FolderCount(c))
           /\ \A i \in 1 .. FolderCount(c) :
                 /\ Order(c)[i] \in Folders
                 /\ Contents(c)[2 + i] = Folder(Order(c)[i], c[Order(c)[i]])
<1> DEFINE n == FolderCount(c)
           head == <<Version(CacheDiskVersion), Size(n)>>
           body == [i \in 1 .. n |-> Folder(Order(c)[i], c[Order(c)[i]])]
<1>1. n \in Nat /\ n \in 0 .. Cardinality(Folders)
  BY OrderCovers
<1>2. \A i \in 1 .. n : /\ Order(c)[i] \in Folders
                        /\ Folder(Order(c)[i], c[Order(c)[i]]) \in Items
  <2> SUFFICES ASSUME NEW i \in 1 .. n
               PROVE  /\ Order(c)[i] \in Folders
                      /\ Folder(Order(c)[i], c[Order(c)[i]]) \in Items
    OBVIOUS
  <2>1. Order(c)[i] \in DOMAIN c
    BY OrderCovers
  <2>2. Order(c)[i] \in Folders /\ c[Order(c)[i]] \in 1 .. MaxUpdates
    BY <2>1 DEF Caches
  <2> QED BY <2>2 DEF Items
<1>3. head \in Seq(Items) /\ Len(head) = 2
  BY <1>1 DEF Items
<1>4. body \in Seq(Items) /\ Len(body) = n
  BY <1>1, <1>2
<1>5. Contents(c) = head \o body
  BY DEF Contents, FolderCount, Order
<1> HIDE DEF body, n
<1>6. /\ head \o body \in Seq(Items) /\ Len(head \o body) = n + 2
      /\ (head \o body)[1] = head[1] /\ (head \o body)[2] = head[2]
      /\ \A i \in 1 .. n : (head \o body)[2 + i] = body[i]
  BY <1>1, <1>3, <1>4, ConcatItems
<1>7. \A i \in 1 .. n : body[i] = Folder(Order(c)[i], c[Order(c)[i]])
  BY DEF body
<1> QED BY <1>1, <1>2, <1>5, <1>6, <1>7 DEF n

(* A file that is written completely can be read from its start.           *)
LEMMA ContentsWhole ==
    ASSUME NEW c \in Caches, NEW bad \in SUBSET Broken
    PROVE  Left(Contents(c), c, 0, bad)
  BY ContentsItems, OrderCovers DEF Left

(* Reading an item leaves what stands behind it.                           *)
LEMMA ItemRead ==
    ASSUME NEW c \in Caches, NEW r, NEW k \in Nat, NEW bad \in SUBSET Broken,
           Left(r, c, k, bad), r # <<>>
    PROVE  /\ Left(Tail(r), c, k + 1, bad)
           /\ Head(r) \in Items
           /\ k + 1 <= Len(Contents(c))
           /\ Head(r) = Contents(c)[k + 1] \/ Head(r) \in bad
<1>1. r \in Seq(Items) /\ Len(r) \in Nat \ {0} /\ Len(Contents(c)) \in Nat
  BY ContentsItems DEF Left
<1>2. /\ Tail(r) \in Seq(Items) /\ Len(Tail(r)) = Len(r) - 1
      /\ \A i \in 1 .. Len(Tail(r)) : Tail(r)[i] = r[i + 1]
      /\ Head(r) = r[1] /\ Head(r) \in Items
  BY <1>1
<1>3. \A i \in 1 .. Len(Tail(r)) :
         \/ Tail(r)[i] = Contents(c)[k + 1 + i]
         \/ Tail(r)[i] \in bad
  <2> SUFFICES ASSUME NEW i \in 1 .. Len(Tail(r))
               PROVE  \/ Tail(r)[i] = Contents(c)[k + 1 + i]
                      \/ Tail(r)[i] \in bad
    OBVIOUS
  <2>1. i + 1 \in 1 .. Len(r) /\ k + (i + 1) = k + 1 + i
    BY <1>1, <1>2
  <2> QED BY <1>2, <2>1 DEF Left
<1> QED BY <1>1, <1>2, <1>3 DEF Left

(* What is cut off was made from the same cache.                           *)
LEMMA CutLeft ==
    ASSUME NEW c \in Caches, NEW f, Left(f, c, 0, Broken), NEW g \in Cuts(f)
    PROVE  Left(g, c, 0, Broken)
<1>1. f \in Seq(Items) /\ Len(f) \in Nat /\ Partial \in Items
  BY DEF Left, Items
<1>2. ASSUME NEW l \in 0 .. Len(f), g = SubSeq(f, 1, l) PROVE Left(g, c, 0, Broken)
  BY <1>1, <1>2 DEF Left, Broken
<1>3. ASSUME NEW l \in 0 .. Len(f), l # Len(f), g = Append(SubSeq(f, 1, l), Partial)
      PROVE  Left(g, c, 0, Broken)
  <2>1. SubSeq(f, 1, l) \in Seq(Items) /\ Len(SubSeq(f, 1, l)) = l
        /\ \A i \in 1 .. l : SubSeq(f, 1, l)[i] = f[i]
    BY <1>1
  <2>2. /\ g \in Seq(Items) /\ Len(g) = l + 1 /\ g[l + 1] = Partial
        /\ \A i \in 1 .. l : g[i] = f[i]
    BY <1>1, <1>3, <2>1
  <2>3. \A i \in 1 .. l : f[i] = Contents(c)[0 + i] \/ f[i] \in Broken
    BY <1>1 DEF Left
  <2>4. \A i \in 1 .. l + 1 : g[i] = Contents(c)[0 + i] \/ g[i] \in Broken
    BY <1>1, <2>2, <2>3 DEF Broken
  <2>5. Len(g) + 0 <= Len(Contents(c))
    <3>0. Len(Contents(c)) \in Nat
      BY ContentsItems
    <3>1. Len(f) + 0 <= Len(Contents(c))
      BY DEF Left
    <3>2. l + 1 <= Len(f)
      BY <1>1, <1>3, SMTT(30)
    <3> QED BY <1>1, <2>2, <3>0, <3>1, <3>2
  <2> QED BY <2>2, <2>4, <2>5 DEF Left, Broken
<1>4. \/ \E l \in 0 .. Len(f) : g = SubSeq(f, 1, l)
      \/ \E l \in 0 .. Len(f) : l # Len(f) /\ g = Append(SubSeq(f, 1, l), Partial)
  <2>1. SubSeq(f, 1, Len(f)) = f
    BY <1>1
  <2> QED BY <2>1 DEF Cuts, Prefixes
<1> QED BY <1>2, <1>3, <1>4

(* What SaveCache writes kills nobody, nor does a part of it.              *)
LEMMA ContentsHarmless ==
    ASSUME NEW c \in Caches
    PROVE  Harmless(Contents(c))
<1> SUFFICES ASSUME NEW j \in 1 .. Len(Contents(c))
             PROVE  Contents(c)[j].kind # "deadly"
  BY DEF Harmless
<1>1. FolderCount(c) \in Nat /\ Len(Contents(c)) = FolderCount(c) + 2
  BY OrderCovers, ContentsItems
<1>2. CASE j \in {1, 2}
  <2>1. Contents(c)[1] = Version(CacheDiskVersion) /\ Contents(c)[2] = Size(FolderCount(c))
    BY ContentsItems
  <2> QED BY <1>2, <2>1 DEF Version, Size
<1>3. CASE j \notin {1, 2}
  <2>1. j - 2 \in 1 .. FolderCount(c) /\ 2 + (j - 2) = j
    BY <1>1, <1>3
  <2>2. Contents(c)[2 + (j - 2)] = Folder(Order(c)[j - 2], c[Order(c)[j - 2]])
    BY <2>1, ContentsItems
  <2> QED BY <2>1, <2>2 DEF Folder
<1> QED BY <1>2, <1>3

\* What is left to read of a harmless file is harmless.
LEMMA HarmlessTail ==
    ASSUME NEW r \in Seq(Items), r # <<>>, Harmless(r)
    PROVE  Harmless(Tail(r))
<1>1. Len(Tail(r)) = Len(r) - 1 /\ \A i \in 1 .. Len(Tail(r)) : Tail(r)[i] = r[i + 1]
  OBVIOUS
<1>2. \A i \in 1 .. Len(Tail(r)) : i + 1 \in 1 .. Len(r)
  BY <1>1
<1> QED BY <1>1, <1>2 DEF Harmless

\* So is what a cut leaves of it.
LEMMA HarmlessCut ==
    ASSUME NEW f \in Seq(Items), Harmless(f), NEW g \in Cuts(f)
    PROVE  Harmless(g)
<1>1. \A l \in 0 .. Len(f) :
         /\ SubSeq(f, 1, l) \in Seq(Items) /\ Len(SubSeq(f, 1, l)) = l
         /\ \A i \in 1 .. l : SubSeq(f, 1, l)[i] = f[i] /\ i \in 1 .. Len(f)
  OBVIOUS
<1>2. \A p \in Prefixes(f) : p \in Seq(Items) /\ Harmless(p)
  BY <1>1 DEF Harmless, Prefixes
<1>3. \A p \in Seq(Items) : Harmless(p) => Harmless(Append(p, Partial))
  <2> SUFFICES ASSUME NEW p \in Seq(Items), Harmless(p) PROVE Harmless(Append(p, Partial))
    OBVIOUS
  <2>1. /\ Len(Append(p, Partial)) = Len(p) + 1 /\ Append(p, Partial)[Len(p) + 1] = Partial
        /\ \A i \in 1 .. Len(p) : Append(p, Partial)[i] = p[i]
    OBVIOUS
  <2>2. Partial.kind # "deadly" /\ Len(p) \in Nat
    BY DEF Partial
  <2> QED BY <2>1, <2>2 DEF Harmless
<1> QED BY <1>2, <1>3 DEF Cuts

-----------------------------------------------------------------------------
(***************************************************************************)
(* LoadFromDisk.                                                           *)
(***************************************************************************)

(* Before the first folder nothing is taken, after the last everything the *)
(* settings do not exclude ...                                             *)
LEMMA TakenEnds ==
    ASSUME NEW c \in Caches
    PROVE  Taken(c, 0) = Empty /\ Taken(c, FolderCount(c)) = Without(c, Excluded)
<1>1. {Order(c)[i] : i \in 1 .. 0} = {}
  OBVIOUS
<1>2. {Order(c)[i] : i \in 1 .. FolderCount(c)} = DOMAIN c
  <2>1. \A i \in 1 .. FolderCount(c) : Order(c)[i] \in DOMAIN c
    BY OrderCovers
  <2>2. \A d \in DOMAIN c : \E i \in 1 .. FolderCount(c) : Order(c)[i] = d
    BY OrderCovers
  <2> HIDE DEF Order, FolderCount
  <2> QED BY <2>1, <2>2
<1>3. Taken(c, 0) = Empty
  BY <1>1 DEF Taken, Empty
<1>4. Taken(c, FolderCount(c)) = Without(c, Excluded)
  BY <1>2 DEF Taken, Without
<1> QED BY <1>3, <1>4

(* ... and each folder adds itself.                                        *)
LEMMA TakenNext ==
    ASSUME NEW c \in Caches, NEW k \in Nat, k < FolderCount(c),
           NEW d, d = Order(c)[k + 1]
    PROVE  Taken(c, k + 1) =
              IF d \in Excluded THEN Taken(c, k)
              ELSE [x \in DOMAIN Taken(c, k) \union {d} |->
                       IF x = d THEN c[d] ELSE Taken(c, k)[x]]
<1> DEFINE T(n) == {Order(c)[i] : i \in 1 .. n}
<1>1. T(k + 1) = T(k) \cup {d}
  <2>1. 1 .. (k + 1) = (1 .. k) \cup {k + 1}
    OBVIOUS
  <2> QED BY <2>1
<1>2. Taken(c, k) = [x \in T(k) \ Excluded |-> c[x]]
  BY DEF Taken
<1>3. Taken(c, k + 1) = [x \in T(k + 1) \ Excluded |-> c[x]]
  BY DEF Taken
<1> HIDE DEF T
<1>4. CASE d \in Excluded
  <2>1. T(k + 1) \ Excluded = T(k) \ Excluded
    BY <1>1, <1>4
  <2> QED BY <1>2, <1>3, <1>4, <2>1
<1>5. CASE d \notin Excluded
  <2>1. DOMAIN Taken(c, k) \union {d} = T(k + 1) \ Excluded
    BY <1>1, <1>2, <1>5
  <2>2. \A x \in T(k + 1) \ Excluded : x # d => Taken(c, k)[x] = c[x]
    BY <1>1, <1>2
  <2>3. Taken(c, k + 1) = [x \in T(k + 1) \ Excluded |->
                              IF x = d THEN c[d] ELSE Taken(c, k)[x]]
    BY <1>3, <2>2
  <2> QED BY <1>5, <2>1, <2>3
<1> QED BY <1>4, <1>5

(* The version of a file, as long as it is whole, is the right one.        *)
LEMMA LoadVersion ==
    ASSUME NEW c \in Caches, NEW bad \in SUBSET Broken, Loading(c, bad), ReadVersion,
           m_directoryCache = Empty
    PROVE  Loading(c, bad)'
<1> USE DEF Goto
<1>1. Left(rest, c, 0, bad) /\ m_directoryCache' = m_directoryCache
  BY DEF ReadVersion, Loading
<1>2. CASE Readable("version") /\ pc' = "size" /\ rest' = Tail(rest)
  <2>1. Left(Tail(rest), c, 1, bad)
    BY <1>1, <1>2, ItemRead DEF Readable
  <2>2. Left(rest, c, 1, bad)'
    BY <1>2, <2>1 DEF Left, Contents
  <2> QED BY <1>2, <2>2 DEF Loading
<1>3. CASE ~Readable("version") /\ pc' \in {"exit", "error"}
  <2>1. bad # {}
    <3> SUFFICES ASSUME bad = {} PROVE Readable("version")
      BY <1>3
    <3>1. Len(rest) > 0 /\ rest \in Seq(Items) /\ rest # <<>> /\ 0 \in Nat
      BY <1>1, ContentsItems, OrderCovers DEF Left
    <3>2. Head(rest) = Contents(c)[0 + 1] \/ Head(rest) \in bad
      BY <1>1, <3>1, ItemRead
    <3>3. Head(rest) = Version(CacheDiskVersion)
      BY <3>2, ContentsItems
    <3> QED BY <3>1, <3>3 DEF Readable, Version
  <2> QED BY <1>1, <1>3, <2>1 DEF Loading
<1>4. Readable("partial") => ~Readable("version")
  BY DEF Readable
<1> QED BY <1>2, <1>3, <1>4 DEF ReadVersion

\* Reading the number of folders keeps what a start has loaded.
LEMMA LoadSize ==
    ASSUME NEW c \in Caches, NEW bad \in SUBSET Broken, Loading(c, bad), ReadSize,
           m_directoryCache = Empty
    PROVE  Loading(c, bad)'
<1> USE DEF Goto
<1>1. /\ Left(rest, c, 1, bad) /\ m_directoryCache' = m_directoryCache
      /\ rest \in Seq(Items)
  BY DEF ReadSize, Loading, Left
<1>2. CASE /\ Readable("size") /\ pc' = "folder"
           /\ left' = Head(rest).value /\ rest' = Tail(rest)
  <2>1. Left(Tail(rest), c, 2, bad)
    BY <1>1, <1>2, ItemRead DEF Readable
  <2>2. Head(rest) = Size(FolderCount(c))
    <3>1. Head(rest) = Contents(c)[1 + 1] \/ Head(rest) \in bad
      BY <1>1, <1>2, ItemRead DEF Readable
    <3>2. Head(rest) \notin Broken
      BY <1>2 DEF Readable, Broken, Partial, Deadly
    <3> QED BY <3>1, <3>2, ContentsItems
  <2>3. left' = FolderCount(c)
    BY <1>2, <2>2 DEF Size
  <2>4. Left(rest', c, 2 + FolderCount(c) - left', bad)
    <3>1. FolderCount(c) \in Nat
      BY OrderCovers
    <3>2. 2 + FolderCount(c) - left' = 2
      BY <2>3, <3>1
    <3> QED BY <1>2, <2>1, <3>2
  <2>5. left' <= FolderCount(c) /\ m_directoryCache' = Taken(c, FolderCount(c) - left')
    <3>1. FolderCount(c) \in Nat
      BY OrderCovers
    <3>2. FolderCount(c) - left' = 0 /\ left' <= FolderCount(c)
      BY <2>3, <3>1
    <3> QED BY <1>1, <3>2, TakenEnds
  <2> QED BY <1>1, <1>2, <2>3, <2>4, <2>5 DEF Loading
<1>3. CASE ~Readable("size") /\ pc' = "exit"
  <2>1. bad # {}
    <3> SUFFICES ASSUME bad = {} PROVE Readable("size")
      BY <1>3
    <3>1. Len(rest) > 0 /\ rest # <<>> /\ 1 \in Nat
      BY <1>1, ContentsItems, OrderCovers DEF Left
    <3>2. Head(rest) = Contents(c)[1 + 1] \/ Head(rest) \in bad
      BY <1>1, <3>1, ItemRead
    <3>3. Head(rest) = Size(FolderCount(c))
      BY <3>2, ContentsItems
    <3> QED BY <1>1, <3>1, <3>3 DEF Readable, Size
  <2> QED BY <1>1, <1>3, <2>1 DEF Loading
<1> QED BY <1>2, <1>3 DEF ReadSize

(* One folder more has been taken; in the end, all of them.                *)
LEMMA LoadFolder ==
    ASSUME NEW c \in Caches, NEW bad \in SUBSET Broken, Loading(c, bad), ReadFolder,
           left \in Nat
    PROVE  Loading(c, bad)'
<1> USE DEF Goto
<1> DEFINE n == FolderCount(c)
           k == n - left
<1>0. n \in Nat /\ Len(Contents(c)) = n + 2
  BY OrderCovers, ContentsItems
<1> HIDE DEF n
<1>1. /\ left <= n /\ k \in Nat /\ Left(rest, c, 2 + k, bad)
      /\ m_directoryCache = Taken(c, k)
  <2>1. left <= n /\ Left(rest, c, 2 + n - left, bad) /\ m_directoryCache = Taken(c, n - left)
    BY DEF ReadFolder, Loading, n
  <2>2. 2 + n - left = 2 + k /\ k \in Nat
    BY <1>0, <2>1
  <2> QED BY <2>1, <2>2
<1>2. CASE left = 0 /\ pc' = "exit" /\ m_directoryCache' = m_directoryCache
  <2>1. m_directoryCache' = Without(c, Excluded)
    BY <1>0, <1>1, <1>2, TakenEnds DEF n
  <2> QED BY <1>2, <2>1 DEF Loading
<1>3. CASE /\ left > 0 /\ Readable("folder") /\ left' = left - 1
           /\ rest' = Tail(rest) /\ pc' = pc
           /\ LET d == Head(rest).dir
              IN  m_directoryCache' =
                     IF d \in Excluded THEN m_directoryCache
                     ELSE [x \in DOMAIN m_directoryCache \union {d} |->
                              IF x = d THEN Head(rest).status ELSE m_directoryCache[x]]
  <2>1. /\ Left(Tail(rest), c, 2 + k + 1, bad)
        /\ Head(rest) = Contents(c)[2 + k + 1] \/ Head(rest) \in Broken
    <3>1. 2 + k \in Nat /\ rest # <<>>
      BY <1>1, <1>3 DEF Readable
    <3> HIDE DEF k
    <3> QED BY <1>1, <3>1, ItemRead
  <2>2. Head(rest) = Contents(c)[2 + (k + 1)]
    BY <1>0, <1>1, <1>3, <2>1 DEF Readable, Broken, Partial, Deadly
  <2>3. k + 1 \in 1 .. n /\ k < n
    BY <1>0, <1>1, <1>3
  <2> DEFINE d == Order(c)[k + 1]
  <2>4. Head(rest) = Folder(d, c[d])
    BY <2>2, <2>3, ContentsItems DEF n
  <2>5. Head(rest).dir = d /\ Head(rest).status = c[d]
    BY <2>4 DEF Folder
  <2>6. Taken(c, k + 1) =
              IF d \in Excluded THEN Taken(c, k)
              ELSE [x \in DOMAIN Taken(c, k) \union {d} |->
                       IF x = d THEN c[d] ELSE Taken(c, k)[x]]
    <3> HIDE DEF k
    <3> QED BY <1>1, <2>3, TakenNext DEF n
  <2>7. m_directoryCache' = Taken(c, k + 1)
    BY <1>1, <1>3, <2>5, <2>6
  <2>8. n - left' = k + 1 /\ left' <= n /\ 2 + n - left' = 2 + k + 1
    BY <1>0, <1>1, <1>3
  <2>9. Left(rest', c, 2 + n - left', bad) /\ m_directoryCache' = Taken(c, n - left')
    BY <1>3, <2>1, <2>7, <2>8
  <2>10. pc' = "folder"
    BY <1>3 DEF ReadFolder
  <2> QED BY <2>8, <2>9, <2>10 DEF Loading, n
<1>5. CASE left > 0 /\ Readable("zero")
  <2>1. Head(rest) = Contents(c)[2 + k + 1] \/ Head(rest) \in Broken
    <3>1. 2 + k \in Nat /\ rest # <<>>
      BY <1>1, <1>5 DEF Readable
    <3> HIDE DEF k
    <3> QED BY <1>1, <3>1, ItemRead
  <2>2. k + 1 \in 1 .. n /\ 2 + k + 1 = 2 + (k + 1)
    BY <1>0, <1>1, <1>5
  <2>3. Contents(c)[2 + (k + 1)] = Folder(Order(c)[k + 1], c[Order(c)[k + 1]])
    BY <2>2, ContentsItems DEF n
  <2> QED BY <1>5, <2>1, <2>2, <2>3 DEF Readable, Broken, Partial, Deadly, Folder
<1>4. CASE /\ left > 0 /\ ~(Readable("folder") /\ Head(rest).dir \notin LongFolders)
           /\ pc' = "error"
  <2>1. ASSUME bad = {} PROVE DOMAIN c \cap LongFolders # {}
    <3>1. Len(rest) > 0 /\ rest \in Seq(Items)
      BY <1>0, <1>1, <1>4, <2>1 DEF Left
    <3>2. k + 1 \in 1 .. n
      BY <1>0, <1>1, <1>4
    <3>3. Head(rest) = Contents(c)[2 + (k + 1)]
      <4>1. Head(rest) = Contents(c)[2 + k + 1] \/ Head(rest) \in bad
        <5>1. 2 + k \in Nat /\ rest # <<>>
          BY <1>1, <3>1
        <5> HIDE DEF k
        <5> QED BY <1>1, <5>1, ItemRead
      <4>2. 2 + k + 1 = 2 + (k + 1)
        BY <1>1
      <4> QED BY <2>1, <4>1, <4>2
    <3>4. Head(rest) = Folder(Order(c)[k + 1], c[Order(c)[k + 1]])
      BY <3>2, <3>3, ContentsItems DEF n
    <3>5. Readable("folder") /\ Head(rest).dir = Order(c)[k + 1]
      BY <3>1, <3>4 DEF Readable, Folder
    <3>6. Order(c)[k + 1] \in DOMAIN c
      BY <3>2, OrderCovers DEF n
    <3> QED BY <1>4, <3>5, <3>6
  <2> QED BY <1>4, <2>1 DEF Loading
<1> QED BY <1>2, <1>3, <1>4, <1>5 DEF ReadFolder, memory

-----------------------------------------------------------------------------
(***************************************************************************)
(* Types.                                                                  *)
(***************************************************************************)

(* A folder enters a cache, or leaves it.                                  *)
LEMMA CacheTyped ==
    ASSUME NEW c \in Caches, NEW d \in Folders
    PROVE  /\ \A v \in 1 .. MaxUpdates :
                 [x \in DOMAIN c \union {d} |-> IF x = d THEN v ELSE c[x]] \in Caches
           /\ [x \in DOMAIN c \ {d} |-> c[x]] \in Caches
<1>1. PICK D \in SUBSET Folders : c \in [D -> 1 .. MaxUpdates]
  BY DEF Caches
<1>2. ASSUME NEW v \in 1 .. MaxUpdates
      PROVE  [x \in DOMAIN c \union {d} |-> IF x = d THEN v ELSE c[x]] \in Caches
  <2>1. [x \in DOMAIN c \union {d} |-> IF x = d THEN v ELSE c[x]]
           \in [D \cup {d} -> 1 .. MaxUpdates]
    BY <1>1
  <2>2. D \cup {d} \in SUBSET Folders
    BY <1>1
  <2> QED BY <2>1, <2>2 DEF Caches
<1>3. [x \in DOMAIN c \ {d} |-> c[x]] \in Caches
  <2>1. [x \in DOMAIN c \ {d} |-> c[x]] \in [D \ {d} -> 1 .. MaxUpdates]
    BY <1>1
  <2>2. D \ {d} \in SUBSET Folders
    BY <1>1
  <2> QED BY <2>1, <2>2 DEF Caches
<1> QED BY <1>2, <1>3

\* The empty cache is a cache.
LEMMA EmptyTyped == Empty \in Caches
<1>1. Empty \in [{} -> 1 .. MaxUpdates]
  BY DEF Empty
<1> QED BY <1>1 DEF Caches

(* The next item goes from the list to the file.                           *)
LEMMA WriteMoves ==
    ASSUME NEW f \in Seq(Items), NEW r \in Seq(Items), r # <<>>
    PROVE  /\ Append(f, Head(r)) \in Seq(Items)
           /\ Tail(r) \in Seq(Items)
           /\ Append(f, Head(r)) \o Tail(r) = f \o r
<1>1. /\ Append(f, Head(r)) \in Seq(Items) /\ Tail(r) \in Seq(Items)
      /\ Len(r) \in Nat \ {0} /\ Len(f) \in Nat
      /\ Len(Append(f, Head(r))) = Len(f) + 1 /\ Len(Tail(r)) = Len(r) - 1
  OBVIOUS
<1> DEFINE g == Append(f, Head(r)) \o Tail(r)
           h == f \o r
<1>2. /\ h \in Seq(Items) /\ Len(h) = Len(f) + Len(r)
      /\ \A i \in 1 .. Len(f) : h[i] = f[i]
      /\ \A i \in 1 .. Len(r) : h[Len(f) + i] = r[i]
  BY ConcatItems
<1>3. /\ g \in Seq(Items) /\ Len(g) = Len(f) + 1 + (Len(r) - 1)
      /\ \A i \in 1 .. Len(f) + 1 : g[i] = Append(f, Head(r))[i]
      /\ \A i \in 1 .. Len(r) - 1 : g[Len(f) + 1 + i] = Tail(r)[i]
  BY <1>1, ConcatItems
<1> HIDE DEF g, h
<1>4. ASSUME NEW i \in 1 .. Len(f) + Len(r) PROVE g[i] = h[i]
  <2>1. CASE i <= Len(f)
    <3>1. i \in 1 .. Len(f) /\ i \in 1 .. Len(f) + 1
      BY <1>1, <2>1
    <3>2. Append(f, Head(r))[i] = f[i]
      BY <3>1
    <3> QED BY <1>2, <1>3, <3>1, <3>2
  <2>2. CASE i = Len(f) + 1
    <3>1. g[i] = Head(r)
      BY <1>1, <1>3, <2>2
    <3>2. h[Len(f) + 1] = r[1]
      BY <1>1, <1>2
    <3> QED BY <2>2, <3>1, <3>2
  <2>3. CASE i > Len(f) + 1
    <3>1. PICK j \in 1 .. Len(r) - 1 : i = Len(f) + 1 + j
      <4>1. i \in Nat /\ i <= Len(f) + Len(r) /\ i > Len(f) + 1
        BY <1>1, <2>3
      <4>2. i - (Len(f) + 1) \in 1 .. Len(r) - 1 /\ i = Len(f) + 1 + (i - (Len(f) + 1))
        BY <1>1, <4>1
      <4> QED BY <4>2
    <3>2. g[i] = Tail(r)[j]
      BY <1>3, <3>1
    <3>3. Tail(r)[j] = r[j + 1] /\ j + 1 \in 1 .. Len(r)
      BY <1>1, <3>1
    <3>4. h[Len(f) + (j + 1)] = r[j + 1]
      BY <1>2, <3>3
    <3>5. Len(f) + (j + 1) = i
      BY <1>1, <3>1
    <3> QED BY <3>2, <3>3, <3>4, <3>5
  <2> QED BY <1>1, <2>1, <2>2, <2>3
<1>5. Len(g) = Len(h)
  BY <1>1, <1>2, <1>3
<1>6. g = h
  BY <1>1, <1>2, <1>3, <1>4, <1>5
<1> QED BY <1>1, <1>6 DEF g, h

(* What is cut off or damaged still consists of items.                     *)
LEMMA FilesTyped ==
    ASSUME NEW f \in Seq(Items)
    PROVE  Cuts(f) \subseteq Seq(Items) /\ Damages(f) \subseteq Seq(Items)
<1>1. Partial \in Items /\ Zero \in Items
  BY DEF Items
<1>2. \A l \in 0 .. Len(f) : SubSeq(f, 1, l) \in Seq(Items)
  OBVIOUS
<1>3. Prefixes(f) \subseteq Seq(Items)
  BY <1>2 DEF Prefixes
<1>4. \A p \in Seq(Items) : Append(p, Partial) \in Seq(Items)
  BY <1>1
<1>5. Cuts(f) \subseteq Seq(Items)
  BY <1>3, <1>4 DEF Cuts
<1>6. \A i \in 1 .. Len(f), x \in Items : [f EXCEPT ![i] = x] \in Seq(Items)
  OBVIOUS
<1>7. \A i \in 1 .. Len(f) :
         [j \in 1 .. Len(f) |-> IF j < i THEN f[j] ELSE Zero] \in Seq(Items)
  BY <1>1
<1> QED BY <1>5, <1>6, <1>7 DEF Damages

\* Reading a folder keeps the types: what is stored is a folder's statuses.
LEMMA ReadFolderTyped ==
    ASSUME FileInv, ReadFolder
    PROVE  TypeOK'
<1>0. TypeOK /\ Cardinality(Folders) \in Nat
  BY FoldersAssumption, FS_CardinalityType DEF FileInv
<1> USE <1>0 DEF Goto, NoFault, history, files, memory, TypeOK
<1>1. /\ UNCHANGED <<cache, cache2, updates, faults>> /\ pc' \in {"exit", "folder", "error"}
      /\ left \in 0 .. Cardinality(Folders) /\ rest \in Seq(Items)
  BY DEF ReadFolder
<1>2. CASE UNCHANGED memory
  BY <1>1, <1>2
<1>3. CASE /\ left > 0 /\ Readable("folder") /\ left' = left - 1 /\ rest' = Tail(rest)
           /\ LET d == Head(rest).dir
              IN  m_directoryCache' =
                     IF d \in Excluded THEN m_directoryCache
                     ELSE [x \in DOMAIN m_directoryCache \union {d} |->
                              IF x = d THEN Head(rest).status ELSE m_directoryCache[x]]
  <2>1. rest # <<>> /\ Head(rest) \in Items /\ Tail(rest) \in Seq(Items)
    <3>1. rest # <<>>
      BY <1>3 DEF Readable
    <3> HIDE DEF TypeOK
    <3> QED BY <1>1, <3>1
  <2>2. Head(rest).dir \in Folders /\ Head(rest).status \in 1 .. MaxUpdates
    BY <1>3, <2>1, ItemKinds DEF Readable
  <2>3. m_directoryCache' \in Caches
    BY <1>3, <2>2, CacheTyped
  <2>4. left' \in 0 .. Cardinality(Folders)
    <3>1. left' = left - 1 /\ left > 0
      BY <1>3
    <3> HIDE DEF TypeOK
    <3> QED BY <1>0, <1>1, <3>1
  <2>5. rest' \in Seq(Items)
    BY <1>3, <2>1
  <2>6. pc' # "write"
    BY <1>1
  <2> QED BY <1>1, <2>3, <2>4, <2>5, <2>6
<1>4. CASE /\ left > 0 /\ Readable("zero") /\ left' = left - 1 /\ rest' = Tail(rest)
           /\ UNCHANGED <<pc, m_directoryCache>>
  <2>1. rest # <<>> /\ left' = left - 1 /\ left > 0 /\ rest' = Tail(rest)
    BY <1>4 DEF Readable
  <2>2. rest' \in Seq(Items) /\ left' \in 0 .. Cardinality(Folders)
    <3> HIDE DEF TypeOK
    <3> QED BY <1>0, <1>1, <2>1
  <2> QED BY <1>1, <1>4, <2>2
<1> QED BY <1>2, <1>3, <1>4 DEF ReadFolder

\* Every step keeps the types; what is read has them because it is the image
\* of a cache.
LEMMA TypeInductive ==
    ASSUME FileInv, [Next]_vars
    PROVE  TypeOK'
<1>0. TypeOK /\ Cardinality(Folders) \in Nat /\ MaxUpdates \in Nat /\ MaxFaults \in Nat
  BY FoldersAssumption, BoundsAssumption, FS_CardinalityType DEF FileInv
<1> USE <1>0 DEF Goto, Fault, Refused, NoFault, history, files, memory, TypeOK
<1>1. CASE Start
  <2>1. 0 \in 0 .. Cardinality(Folders) /\ <<>> \in Seq(Items)
    OBVIOUS
  <2> QED BY <1>1, <2>1, EmptyTyped DEF Start
<1>2. CASE DeleteCopy
  <2>1. cache2' \in {cache2, NoFile} /\ pc' = "copy"
    BY <1>2 DEF DeleteCopy
  <2>2. faults' = faults \/ (faults < MaxFaults /\ faults' = faults + 1)
    BY <1>2 DEF DeleteCopy
  <2>3. UNCHANGED <<cache, m_directoryCache, rest, left, updates>>
    BY <1>2 DEF DeleteCopy
  <2>4. faults' \in 0 .. MaxFaults
    BY <2>2
  <2>5. cache2' \in Seq(Items) \union {NoFile}
    BY <2>1
  <2> QED BY <2>1, <2>3, <2>4, <2>5
<1>3. CASE Copy
  BY <1>3 DEF Copy
<1>4. CASE DeleteOriginal
  BY <1>4 DEF DeleteOriginal
<1>5. CASE Open
  BY <1>5 DEF Open
<1>6. CASE ReadVersion
  <2>1. rest' = rest \/ (rest # <<>> /\ rest' = Tail(rest))
    BY <1>6 DEF ReadVersion, Readable
  <2>2. rest' \in Seq(Items)
    <3>1. rest \in Seq(Items)
      OBVIOUS
    <3> HIDE DEF TypeOK
    <3> QED BY <2>1, <3>1
  <2> QED BY <1>6, <2>2 DEF ReadVersion
<1>7. CASE ReadSize
  <2>1. CASE Readable("size")
    <3>1. rest # <<>> /\ rest' = Tail(rest) /\ left' = Head(rest).value
      BY <1>7, <2>1 DEF ReadSize, Readable
    <3>2. Head(rest) \in Items /\ rest' \in Seq(Items)
      BY <3>1
    <3>3. left' \in 0 .. Cardinality(Folders)
      BY <2>1, <3>1, <3>2, ItemKinds DEF Readable
    <3> QED BY <1>7, <2>1, <3>2, <3>3 DEF ReadSize
  <2>2. CASE ~Readable("size")
    BY <1>7, <2>2 DEF ReadSize
  <2> QED BY <2>1, <2>2
<1>8. CASE ReadFolder
  BY <1>8, ReadFolderTyped
<1>9. CASE ReadDies
  BY <1>9 DEF ReadDies
<1>10. CASE EndLoad
  BY <1>10, EmptyTyped DEF EndLoad
<1>11. ASSUME NEW d \in Folders, Update(d) PROVE TypeOK'
  <2>1. updates' \in 1 .. MaxUpdates /\ pc' = "running"
    BY <1>11 DEF Update
  <2>2. m_directoryCache' \in Caches
    BY <1>11, <2>1, CacheTyped DEF Update
  <2> QED BY <1>11, <2>1, <2>2 DEF Update
<1>12. CASE OpenForWrite
  <2>1. CASE cache' = <<>> /\ rest' = Contents(m_directoryCache)
    <3>1. rest' \in Seq(Items) /\ cache' \in Seq(Items)
      BY <2>1, ContentsItems
    <3>2. cache' \o rest' = rest'
      BY <2>1, <3>1
    <3> QED BY <1>12, <2>1, <3>1, <3>2 DEF OpenForWrite, Contents
  <2>2. CASE pc' = "down" /\ UNCHANGED <<cache, rest>>
    BY <1>12, <2>2 DEF OpenForWrite
  <2> QED BY <1>12, <2>1, <2>2 DEF OpenForWrite
<1>13. CASE WriteItem
  <2>1. CASE cache' = Append(cache, Head(rest)) /\ rest' = Tail(rest) /\ UNCHANGED pc
    <3>1. cache \in Seq(Items) /\ rest # <<>>
      BY <1>13 DEF WriteItem, FileInv
    <3>2. cache' \in Seq(Items) /\ rest' \in Seq(Items) /\ cache' \o rest' = cache \o rest
      BY <2>1, <3>1, WriteMoves
    <3> QED BY <1>13, <2>1, <3>2 DEF WriteItem, Contents
  <2>2. CASE cache' \in Cuts(cache) \union {NoFile} /\ pc' = "down" /\ UNCHANGED rest
    <3>1. cache' \in Seq(Items) \union {NoFile}
      BY <1>13, <2>2, FilesTyped DEF WriteItem, FileInv
    <3> QED BY <1>13, <2>2, <3>1 DEF WriteItem
  <2> QED BY <1>13, <2>1, <2>2 DEF WriteItem
<1>14. CASE CloseFile
  <2>1. cache' = cache \/ cache' \in Cuts(cache)
    BY <1>14 DEF CloseFile
  <2>2. cache' \in Seq(Items)
    BY <1>14, <2>1, FilesTyped DEF CloseFile, FileInv
  <2>3. /\ pc' = "down" /\ UNCHANGED <<cache2, memory, updates>>
        /\ faults' = faults \/ (faults < MaxFaults /\ faults' = faults + 1)
    BY <1>14 DEF CloseFile
  <2> QED BY <2>2, <2>3
<1>15. CASE Killed
  <2>1. cache' = cache \/ (pc = "write" /\ cache' \in Cuts(cache))
    BY <1>15 DEF Killed
  <2>2. cache' \in Seq(Items) \union {NoFile}
    BY <2>1, FilesTyped DEF FileInv
  <2>3. cache2' = cache2 \/ (cache # NoFile /\ cache2' \in Cuts(cache))
    BY <1>15 DEF Killed
  <2>4. cache2' \in Seq(Items) \union {NoFile}
    BY <2>3, FilesTyped
  <2> QED BY <1>15, <2>2, <2>4 DEF Killed
<1>16. CASE Damage
  <2>2. cache' \in Seq(Items)
    BY <1>16, FilesTyped DEF Damage
  <2> QED BY <1>16, <2>2 DEF Damage
<1>17. CASE UNCHANGED vars
  BY <1>17 DEF vars, Contents
<1> QED
  BY <1>1, <1>2, <1>3, <1>4, <1>5, <1>6, <1>7, <1>8, <1>9, <1>10, <1>11, <1>12, <1>13,
     <1>14, <1>15, <1>16, <1>17
  DEF Next, Create

-----------------------------------------------------------------------------
(***************************************************************************)
(* Where the files come from.                                              *)
(***************************************************************************)

\* Outside of the reading places nothing is said of a load.
LEMMA NotLoading ==
    ASSUME pc' \notin ReadingPlaces \cup {"exit", "error"}, NEW c, NEW bad
    PROVE  Loading(c, bad)'
  BY DEF Loading, ReadingPlaces

(* A step outside of a start's reading.                                    *)
LEMMA FileFrame ==
    ASSUME FileInv, TypeOK', saved' = saved, lastSaved' \in {lastSaved, m_directoryCache},
           pc' \notin ReadingPlaces \cup {"exit", "error", "write"},
           pc' \in {"delete copy", "copy", "delete", "open"} => m_directoryCache' = Empty
    PROVE  FileInv'
  BY DEF FileInv, TypeOK, ReadingPlaces

(* A step of a start that reads.                                           *)
LEMMA FileLoads ==
    ASSUME FileInv, TypeOK', UNCHANGED <<cache2, saved, lastSaved>>,
           pc \in ReadingPlaces,
           pc' \in ReadingPlaces \cup {"exit", "error"},
           pc' \in {"version", "size"} => m_directoryCache' = Empty,
           \A c \in saved : Loading(c, Broken) => Loading(c, Broken)'
    PROVE  FileInv'
<1>1. cache2 # NoFile /\ \A c \in saved : Left(cache2, c, 0, Broken) => Loading(c, Broken)
  BY DEF FileInv, ReadsWhole, ReadingPlaces
<1>2. ReadsWhole'
  BY <1>1 DEF ReadsWhole, Left, Contents, Broken
<1> QED BY <1>2 DEF FileInv, ReadingPlaces

(* What SaveCache wrote, or began to write, is read as a whole or not at   *)
(* all, and so are its first parts.                                        *)
LEMMA FileInductive ==
    ASSUME FileInv, [Next]_vars
    PROVE  FileInv'
<1>0. TypeOK'
  BY TypeInductive
<1> USE <1>0 DEF Goto, Fault, Refused, NoFault, history, files, memory, ReadingPlaces
<1>a. Empty \in saved /\ saved \subseteq Caches
  BY DEF FileInv
<1>1. CASE Start
  BY <1>1, FileFrame DEF Start
<1>2. CASE DeleteCopy
  BY <1>2, FileFrame DEF DeleteCopy, FileInv
<1>3. CASE Copy
  BY <1>3, FileFrame DEF Copy, FileInv
<1>4. CASE DeleteOriginal
  BY <1>4, FileFrame DEF DeleteOriginal, FileInv
<1>5. CASE Open
  <2>0. m_directoryCache' = Empty /\ UNCHANGED <<cache2, saved, lastSaved>>
    BY <1>5 DEF Open, FileInv
  <2>1. CASE cache2 = NoFile
    <3>1. pc' = "exit"
      BY <1>5, <2>1 DEF Open
    <3>2. ReadsWhole'
      BY <2>0, <2>1, <3>1 DEF ReadsWhole
    <3> QED BY <2>0, <3>1, <3>2 DEF FileInv
  <2>2. CASE cache2 # NoFile
    <3>1. pc' = "version" /\ rest' = cache2
      BY <1>5, <2>2 DEF Open
    <3>2. \A c \in saved : Left(cache2, c, 0, Broken) => Loading(c, Broken)'
      BY <3>1 DEF Loading
    <3>3. ReadsWhole'
      BY <2>0, <2>2, <3>2 DEF ReadsWhole, Left, Contents, Broken
    <3> QED BY <2>0, <3>1, <3>3 DEF FileInv
  <2> QED BY <2>1, <2>2
<1>6. CASE ReadVersion
  <2>1. m_directoryCache = Empty
    BY <1>6 DEF ReadVersion, FileInv
  <2>2. \A c \in saved : Loading(c, Broken) => Loading(c, Broken)'
    BY <1>6, <1>a, <2>1, LoadVersion
  <2> QED BY <1>6, <2>1, <2>2, FileLoads DEF ReadVersion
<1>7. CASE ReadSize
  <2>1. m_directoryCache = Empty
    BY <1>7 DEF ReadSize, FileInv
  <2>2. \A c \in saved : Loading(c, Broken) => Loading(c, Broken)'
    BY <1>7, <1>a, <2>1, LoadSize
  <2> QED BY <1>7, <2>1, <2>2, FileLoads DEF ReadSize
<1>8. CASE ReadFolder
  <2>1. left \in Nat
    <3>1. left \in 0 .. Cardinality(Folders)
      BY DEF FileInv, TypeOK
    <3> QED BY <3>1
  <2>2. \A c \in saved : Loading(c, Broken) => Loading(c, Broken)'
    BY <1>8, <1>a, <2>1, LoadFolder
  <2>3. pc' \in {"folder", "exit", "error"}
    BY <1>8 DEF ReadFolder
  <2> QED BY <1>8, <2>2, <2>3, FileLoads DEF ReadFolder
<1>9. CASE ReadDies
  BY <1>9, FileFrame DEF ReadDies
<1>10. CASE EndLoad
  BY <1>10, FileFrame DEF EndLoad
<1>11. ASSUME NEW d \in Folders, Update(d) PROVE FileInv'
  BY <1>11, FileFrame DEF Update
<1>12. CASE OpenForWrite
  <2>1. CASE /\ cache' = <<>> /\ pc' = "write"
             /\ saved' = saved \union {m_directoryCache} /\ lastSaved' = lastSaved
    <3>1. m_directoryCache \in Caches
      BY DEF FileInv, TypeOK
    <3>2. cache' # NoFile
      <4>1. <<>> \in Seq(Items)
        OBVIOUS
      <4> QED BY <2>1, <4>1, NoFileAssumption
    <3> QED BY <2>1, <3>1, <3>2 DEF FileInv
  <2>2. CASE pc' = "down" /\ UNCHANGED <<saved, lastSaved>>
    BY <2>2, FileFrame
  <2> QED BY <1>12, <2>1, <2>2 DEF OpenForWrite
<1>13. CASE WriteItem
  <2>1. cache \in Seq(Items) /\ rest \in Seq(Items) /\ rest # <<>>
        /\ UNCHANGED <<saved, lastSaved>> /\ pc = "write"
    BY <1>13 DEF WriteItem, FileInv, TypeOK
  <2>2. CASE cache' = Append(cache, Head(rest)) /\ pc' = "write"
    <3>1. cache' \in Seq(Items)
      BY <2>1, <2>2
    <3>2. cache' # NoFile
      BY <3>1, NoFileAssumption
    <3> QED BY <2>1, <2>2, <3>2 DEF FileInv
  <2>3. CASE pc' = "down"
    BY <2>1, <2>3, FileFrame
  <2> QED BY <1>13, <2>2, <2>3 DEF WriteItem
<1>14. CASE CloseFile
  BY <1>14, FileFrame DEF CloseFile
<1>15. CASE Killed
  BY <1>15, FileFrame DEF Killed
<1>16. CASE Damage
  BY <1>16, FileFrame DEF Damage
<1>17. CASE UNCHANGED vars
  <2>1. UNCHANGED <<files, pc, memory, saved, lastSaved>>
    BY <1>17 DEF vars
  <2>2. \A c : Loading(c, Broken)' <=> Loading(c, Broken)
    BY <2>1 DEF Loading
  <2>3. UNCHANGED <<cache, cache2, pc, m_directoryCache, saved, lastSaved>>
    BY <2>1
  <2>4. ReadsWhole => ReadsWhole'
    BY <2>2, <2>3 DEF ReadsWhole, Left, Contents, Broken
  <2> QED BY <2>3, <2>4 DEF FileInv
<1> QED
  BY <1>1, <1>2, <1>3, <1>4, <1>5, <1>6, <1>7, <1>8, <1>9, <1>10, <1>11, <1>12, <1>13,
     <1>14, <1>15, <1>16, <1>17
  DEF Next, Create

-----------------------------------------------------------------------------
(***************************************************************************)
(* From one close to the next start.                                       *)
(***************************************************************************)

(* As long as nothing goes wrong, what was written is read.                *)
LEMMA CleanInductive ==
    ASSUME FileInv, CleanInv, [Next]_vars
    PROVE  CleanInv'
<1> SUFFICES ASSUME clean'
             PROVE  /\ pc' \in {"down", "delete copy", "copy"} => cache' = Contents(lastSaved')
                    /\ pc' \in {"delete", "open"} => cache2' = Contents(lastSaved')
                    /\ Loading(lastSaved, {})'
                    /\ NothingLost'
  BY DEF CleanInv, Contents
<1> USE DEF Goto, Fault, Refused, NoFault, history, files, memory, ReadingPlaces
<1>a. lastSaved \in Caches /\ {} \in SUBSET Broken
  BY DEF FileInv
<1>b. Contents(lastSaved) # NoFile
  BY <1>a, ContentsItems, NoFileAssumption
<1>1. CASE Start
  <2>1. pc' = "delete copy" /\ UNCHANGED <<cache, lastSaved, clean>> /\ pc = "down"
    BY <1>1 DEF Start
  <2> QED BY <2>1, NotLoading DEF CleanInv, NothingLost
<1>2. CASE DeleteCopy
  <2>1. pc' = "copy" /\ UNCHANGED <<cache, lastSaved, clean>> /\ pc = "delete copy"
    BY <1>2 DEF DeleteCopy
  <2> QED BY <2>1, NotLoading DEF CleanInv, NothingLost
<1>3. CASE Copy
  <2>1. pc' = "delete" /\ UNCHANGED <<lastSaved, clean>> /\ pc = "copy"
    BY <1>3 DEF Copy
  <2>2. cache = Contents(lastSaved)
    BY <2>1 DEF CleanInv
  <2>3. cache2' = cache
    BY <1>3, <1>b, <2>1, <2>2 DEF Copy
  <2> QED BY <2>1, <2>2, <2>3, NotLoading DEF NothingLost
<1>4. CASE DeleteOriginal
  <2>1. pc' = "open" /\ UNCHANGED <<cache2, lastSaved, clean>> /\ pc = "delete"
    BY <1>4 DEF DeleteOriginal
  <2> QED BY <2>1, NotLoading DEF CleanInv, NothingLost
<1>5. CASE Open
  <2>1. UNCHANGED <<lastSaved, clean>> /\ cache2 = Contents(lastSaved)
    BY <1>5 DEF Open, CleanInv
  <2>2. pc' = "version" /\ rest' = cache2
    BY <1>5, <1>b, <2>1 DEF Open
  <2>3. Loading(lastSaved, {})'
    <3>1. Left(rest', lastSaved', 0, {})
      BY <1>a, <2>1, <2>2, ContentsWhole
    <3> QED BY <2>2, <3>1 DEF Loading
  <2> QED BY <2>2, <2>3 DEF NothingLost
<1>6. CASE ReadVersion
  <2>1. UNCHANGED <<lastSaved, clean>> /\ pc = "version" /\ pc' \in {"size", "exit", "error"}
    BY <1>6 DEF ReadVersion
  <2>2. m_directoryCache = Empty /\ Loading(lastSaved, {})
    BY <2>1 DEF FileInv, CleanInv
  <2>3. Loading(lastSaved, {})'
    <3>1. \A c : c = lastSaved => Loading(c, {})'
      BY <1>6, <1>a, <2>2, LoadVersion
    <3> QED BY <2>1, <3>1 DEF Loading
  <2> QED BY <2>1, <2>3 DEF NothingLost
<1>7. CASE ReadSize
  <2>1. UNCHANGED <<lastSaved, clean>> /\ pc = "size" /\ pc' \in {"folder", "exit"}
    BY <1>7 DEF ReadSize
  <2>2. m_directoryCache = Empty /\ Loading(lastSaved, {})
    BY <2>1 DEF FileInv, CleanInv
  <2>3. Loading(lastSaved, {})'
    <3>1. \A c : c = lastSaved => Loading(c, {})'
      BY <1>7, <1>a, <2>2, LoadSize
    <3> QED BY <2>1, <3>1 DEF Loading
  <2> QED BY <2>1, <2>3 DEF NothingLost
<1>8. CASE ReadFolder
  <2>1. UNCHANGED <<lastSaved, clean>> /\ pc' \in {"folder", "exit", "error"}
    BY <1>8 DEF ReadFolder
  <2>2. left \in Nat /\ Loading(lastSaved, {})
    <3>1. left \in 0 .. Cardinality(Folders)
      BY DEF FileInv, TypeOK
    <3>2. Loading(lastSaved, {})
      BY <2>1 DEF CleanInv
    <3> QED BY <3>1, <3>2
  <2>3. Loading(lastSaved, {})'
    <3>1. \A c : c = lastSaved => Loading(c, {})'
      BY <1>8, <1>a, <2>2, LoadFolder
    <3> QED BY <2>1, <3>1 DEF Loading
  <2> QED BY <2>1, <2>3 DEF NothingLost
<1>9. CASE ReadDies
  <2>1. UNCHANGED <<lastSaved, clean>> /\ Readable("deadly") /\ pc \in ReadingPlaces
        /\ (pc = "folder" => left > 0)
    BY <1>9 DEF ReadDies
  <2>2. PICK k \in Nat : /\ Left(rest, lastSaved, k, {})
                         /\ k \in {0, 1, 2 + FolderCount(lastSaved) - left}
    <3>1. Loading(lastSaved, {})
      BY <2>1 DEF CleanInv
    <3>2. CASE pc \in {"version", "size"}
      BY <3>1, <3>2 DEF Loading
    <3>3. CASE pc = "folder"
      <4>1. left \in 0 .. Cardinality(Folders) /\ left <= FolderCount(lastSaved)
            /\ Left(rest, lastSaved, 2 + FolderCount(lastSaved) - left, {})
        BY <3>1, <3>3 DEF Loading, FileInv, TypeOK
      <4>2. FolderCount(lastSaved) \in Nat /\ left \in Nat
        BY <1>a, <4>1, OrderCovers
      <4>3. 2 + FolderCount(lastSaved) - left \in Nat
        BY <4>1, <4>2
      <4> QED BY <4>1, <4>3
    <3> QED BY <2>1, <3>2, <3>3
  <2>3. Head(rest) = Contents(lastSaved)[k + 1] /\ k + 1 <= Len(Contents(lastSaved))
    <3>1. rest # <<>>
      BY <2>1 DEF Readable
    <3> QED BY <1>a, <2>2, <3>1, ItemRead
  <2>4. Contents(lastSaved)[k + 1].kind # "deadly"
    BY <1>a, <2>3, ContentsHarmless DEF Harmless
  <2> QED BY <2>1, <2>3, <2>4 DEF Readable
<1>10. CASE EndLoad
  <2>1. UNCHANGED <<lastSaved, clean>> /\ pc' = "running" /\ pc \in {"exit", "error"}
        /\ m_directoryCache' = IF pc = "error" THEN Empty ELSE m_directoryCache
    BY <1>10 DEF EndLoad
  <2>2. Loading(lastSaved, {})
    BY <2>1 DEF CleanInv
  <2>3. NothingLost'
    BY <2>1, <2>2 DEF NothingLost, Loading
  <2> QED BY <2>1, <2>3, NotLoading
<1>11. ASSUME NEW d \in Folders, Update(d) PROVE FALSE
  BY <1>11 DEF Update
<1>12. CASE OpenForWrite
  <2>1. pc' = "write"
    BY <1>12 DEF OpenForWrite
  <2> QED BY <2>1, NotLoading DEF NothingLost
<1>13. CASE WriteItem
  <2>1. pc' = "write"
    BY <1>13 DEF WriteItem
  <2> QED BY <2>1, NotLoading DEF NothingLost
<1>14. CASE CloseFile
  <2>1. /\ pc = "write" /\ rest = <<>> /\ pc' = "down" /\ lastSaved' = m_directoryCache
        /\ cache' = cache
    BY <1>14, Zenon DEF CloseFile, Refused, Fault
  <2>2. cache \in Seq(Items) /\ cache \o rest = Contents(m_directoryCache)
    BY <2>1 DEF FileInv, TypeOK
  <2>3. cache' = Contents(lastSaved')
    BY <2>1, <2>2
  <2> QED BY <2>1, <2>3, NotLoading DEF NothingLost
<1>15. CASE Killed
  BY <1>15 DEF Killed
<1>16. CASE Damage
  BY <1>16 DEF Damage
<1>17. CASE UNCHANGED vars
  BY <1>17 DEF vars, CleanInv, Loading, NothingLost
<1> QED
  BY <1>1, <1>2, <1>3, <1>4, <1>5, <1>6, <1>7, <1>8, <1>9, <1>10, <1>11, <1>12, <1>13,
     <1>14, <1>15, <1>16, <1>17
  DEF Next, Create

-----------------------------------------------------------------------------
(***************************************************************************)
(* Damaged files.                                                          *)
(***************************************************************************)

(* The start that dies has deleted the file (Create), the next one deletes *)
(* the copy, and what is written in between is harmless.                   *)
LEMMA CrashInductive ==
    ASSUME FileInv, CrashInv, [Next]_vars
    PROVE  CrashInv'
<1> SUFFICES ASSUME ~failed'
             PROVE  /\ crashes' \in {0, 1}
                    /\ pc' \in LoadPlaces => cache' = NoFile
                    /\ crashes' = 1 =>
                          /\ cache' = NoFile \/ Harmless(cache')
                          /\ pc' \in {"copy", "delete", "open"} =>
                                cache2' = NoFile \/ Harmless(cache2')
                          /\ pc' \in ReadingPlaces => Harmless(rest')
  BY DEF CrashInv, Harmless
<1> USE DEF Goto, Fault, Refused, NoFault, history, files, memory, ReadingPlaces, LoadPlaces,
            CrashInv
<1>1. CASE Start
  BY <1>1 DEF Start
<1>2. CASE DeleteCopy
  BY <1>2 DEF DeleteCopy
<1>3. CASE Copy
  BY <1>3 DEF Copy
<1>4. CASE DeleteOriginal
  BY <1>4 DEF DeleteOriginal
<1>5. CASE Open
  BY <1>5 DEF Open
<1>6. CASE ReadVersion
  <2>1. rest' = rest \/ (rest # <<>> /\ rest' = Tail(rest))
    BY <1>6 DEF ReadVersion, Readable
  <2>2. Harmless(rest) => Harmless(rest')
    BY <2>1, HarmlessTail DEF FileInv, TypeOK
  <2> QED BY <1>6, <2>2 DEF ReadVersion
<1>7. CASE ReadSize
  <2>1. rest' = rest \/ (rest # <<>> /\ rest' = Tail(rest))
    BY <1>7 DEF ReadSize, Readable
  <2>2. Harmless(rest) => Harmless(rest')
    BY <2>1, HarmlessTail DEF FileInv, TypeOK
  <2> QED BY <1>7, <2>2 DEF ReadSize
<1>8. CASE ReadFolder
  <2>1. rest' = rest \/ (rest # <<>> /\ rest' = Tail(rest))
    BY <1>8 DEF ReadFolder, Readable
  <2>2. Harmless(rest) => Harmless(rest')
    BY <2>1, HarmlessTail DEF FileInv, TypeOK
  <2> QED BY <1>8, <2>2 DEF ReadFolder
<1>9. CASE ReadDies
  <2>1. /\ pc \in ReadingPlaces /\ Readable("deadly") /\ pc' = "down"
        /\ UNCHANGED <<cache, failed>> /\ crashes' = IF crashes = 0 THEN 1 ELSE 2
    BY <1>9 DEF ReadDies
  <2>2. ~Harmless(rest)
    <3>1. rest \in Seq(Items) /\ rest # <<>>
      BY <2>1 DEF Readable, FileInv, TypeOK
    <3>2. Head(rest) = rest[1] /\ 1 \in 1 .. Len(rest)
      BY <3>1
    <3> QED BY <2>1, <3>2 DEF Readable, Harmless
  <2> QED BY <2>1, <2>2
<1>10. CASE EndLoad
  BY <1>10 DEF EndLoad
<1>11. ASSUME NEW d \in Folders, Update(d)
       PROVE  pc' = "running" /\ UNCHANGED <<cache, crashes, failed>>
  BY <1>11 DEF Update
<1>12. CASE OpenForWrite
  <2>1. Harmless(<<>>)
    BY DEF Harmless
  <2> QED BY <1>12, <2>1 DEF OpenForWrite
<1>13. CASE WriteItem
  <2>1. /\ cache \in Seq(Items) /\ rest \in Seq(Items) /\ rest # <<>>
        /\ cache \o rest = Contents(m_directoryCache) /\ m_directoryCache \in Caches
    BY <1>13 DEF WriteItem, FileInv, TypeOK
  <2>2. CASE cache' = Append(cache, Head(rest)) /\ rest' = Tail(rest) /\ pc' = pc
             /\ UNCHANGED history
    <3>1. /\ cache' \in Seq(Items) /\ rest' \in Seq(Items)
          /\ cache' \o rest' = Contents(m_directoryCache)
      BY <2>1, <2>2, WriteMoves
    <3>2. \A i \in 1 .. Len(cache') :
             /\ cache'[i] = Contents(m_directoryCache)[i]
             /\ i \in 1 .. Len(Contents(m_directoryCache))
      BY <3>1, ConcatItems
    <3>3. Harmless(cache')
      BY <2>1, <3>2, ContentsHarmless DEF Harmless
    <3> QED BY <1>13, <2>2, <3>3 DEF WriteItem
  <2> QED BY <1>13, <2>2 DEF WriteItem
<1>14. CASE CloseFile
  BY <1>14 DEF CloseFile
<1>15. CASE Killed
  <2>1. /\ pc' = "down" /\ UNCHANGED <<crashes, failed>>
        /\ cache' = cache \/ (pc = "write" /\ cache' \in Cuts(cache))
    BY <1>15 DEF Killed
  <2>2. pc = "write" => cache \in Seq(Items)
    BY DEF FileInv, TypeOK
  <2>3. crashes = 1 => cache' = NoFile \/ Harmless(cache')
    <3>1. CASE cache' = cache
      BY <2>1, <3>1
    <3>2. CASE pc = "write" /\ cache' \in Cuts(cache)
      <4>1. crashes = 1 => Harmless(cache)
        BY <2>1, <3>2 DEF FileInv
      <4> QED BY <2>2, <3>2, <4>1, HarmlessCut
    <3> QED BY <2>1, <3>1, <3>2
  <2> QED BY <2>1, <2>3
<1>16. CASE Damage
  BY <1>16 DEF Damage
<1>17. CASE UNCHANGED vars
  BY <1>17 DEF vars
<1>18. (\E d \in Folders : Update(d)) => pc' = "running" /\ UNCHANGED <<cache, crashes, failed>>
  BY <1>11
<1>19. CASE \E d \in Folders : Update(d)
  BY <1>18, <1>19
<1> QED
  BY <1>1, <1>2, <1>3, <1>4, <1>5, <1>6, <1>7, <1>8, <1>9, <1>10, <1>12, <1>13,
     <1>14, <1>15, <1>16, <1>17, <1>19
  DEF Next, Create

-----------------------------------------------------------------------------
(* At the start there is neither a file nor a cache.                       *)
LEMMA CacheFileInit == Init => FileInv /\ CleanInv /\ CrashInv
<1> SUFFICES ASSUME Init PROVE FileInv /\ CleanInv /\ CrashInv
  OBVIOUS
<1>1. TypeOK
  <2>1. Cardinality(Folders) \in Nat /\ MaxUpdates \in Nat /\ MaxFaults \in Nat
    BY FoldersAssumption, BoundsAssumption, FS_CardinalityType
  <2>2. <<>> \in Seq(Items) /\ 0 \in 0 .. Cardinality(Folders)
    BY <2>1
  <2> QED BY <2>1, <2>2, EmptyTyped DEF Init, TypeOK
<1>3. FileInv
  BY <1>1, EmptyTyped DEF Init, FileInv, ReadingPlaces
<1> QED BY <1>3 DEF Init, CleanInv, CrashInv, LoadPlaces

(* The types of the server's state and of both files.                      *)
THEOREM CacheFileTypeCorrect == Spec => []TypeOK
<1>1. FileInv => TypeOK
  BY DEF FileInv
<1> QED BY <1>1, CacheFileInit, FileInductive, PTL DEF Spec

(* SaveCache and Create: when nothing went wrong between the close and the *)
(* end of the next start, every folder that is not excluded is back.       *)
THEOREM SavedComesBack == Spec => []NothingLost
<1>1. CleanInv => NothingLost
  BY DEF CleanInv, NothingLost
<1> QED BY <1>1, CacheFileInit, FileInductive, CleanInductive, PTL DEF Spec

(* Create deletes the original before it reads the copy: a damaged file    *)
(* kills one start at most, as long as the file system obeys.              *)
THEOREM CrashesOnce == Spec => []OneCrashPerDamage
<1>1. CrashInv => OneCrashPerDamage
  BY DEF CrashInv, OneCrashPerDamage
<1> QED BY <1>1, CacheFileInit, FileInductive, CrashInductive, PTL DEF Spec

(* Create, error and exit: what a start hands to the server is a whole     *)
(* cache, or nothing, when it read what SaveCache had written, to the end  *)
(* or up to any place, and wherever that was cut off.                      *)
THEOREM LoadsWhole == Spec => LoadedIsWhole
<1>1. ASSUME FileInv, [Next]_vars
      PROVE  [EndLoad => \/ cache2 # NoFile /\ ~Written(cache2)
                         \/ \E c \in saved : m_directoryCache' = Without(c, Excluded)]_vars
  <2> SUFFICES ASSUME EndLoad, cache2 = NoFile \/ Written(cache2)
               PROVE  \E c \in saved : m_directoryCache' = Without(c, Excluded)
    OBVIOUS
  <2>1. Without(Empty, Excluded) = Empty /\ Empty \in saved /\ saved \subseteq Caches
    BY <1>1 DEF Without, Empty, FileInv
  <2>2. CASE pc = "error" \/ cache2 = NoFile
    <3>1. m_directoryCache' = Empty
      BY <1>1, <2>2 DEF EndLoad, FileInv, ReadsWhole
    <3> QED BY <2>1, <3>1
  <2>3. CASE pc = "exit" /\ cache2 # NoFile
    <3>1. PICK c \in saved : cache2 \in Cuts(Contents(c))
      BY <2>3 DEF Written
    <3>2. Left(Contents(c), c, 0, Broken)
      BY <2>1, ContentsWhole
    <3>3. Left(cache2, c, 0, Broken)
      BY <2>1, <3>1, <3>2, CutLeft
    <3>4. Loading(c, Broken)
      BY <1>1, <2>3, <3>3 DEF FileInv, ReadsWhole
    <3>5. m_directoryCache' = m_directoryCache
      BY <2>3 DEF EndLoad
    <3> QED BY <2>1, <2>3, <3>4, <3>5 DEF Loading
  <2> QED BY <2>2, <2>3 DEF EndLoad
<1> QED BY <1>1, CacheFileInit, FileInductive, PTL DEF Spec, LoadedIsWhole

=============================================================================
