------------------------------ MODULE CacheFile ------------------------------
(***************************************************************************)
(* The life of the status cache server and of its file (Create, SaveCache  *)
(* and Destroy of TSVNCache/SVNStatusCache.cpp, LoadFromDisk and           *)
(* SaveToDisk, WinMain and WndProc of TSVNCache.cpp).  A start reads a     *)
(* copy of the file after it has deleted the original; the close of the    *)
(* window writes the file anew.  The process may die between any two       *)
(* steps, a call of the file system may fail, and a file may be damaged    *)
(* while it lies on the disk, so badly that reading it kills the process.  *)
(*                                                                         *)
(* A file is the sequence of the items written to it.  A folder, with all  *)
(* its entries, is one item; a file that is cut off ends with an item that *)
(* is only partly there.                                                   *)
(***************************************************************************)
EXTENDS Naturals, Sequences, FiniteSets, SequencesExt

CONSTANTS Folders,      \* folders that may be cached
          LongFolders,  \* those with a path, or a path below them, over MAX_PATH
          Excluded,     \* those the settings exclude
          NoFile,
          CacheDiskVersion,
          MaxUpdates,   \* bound on the changes of the cache
          MaxFaults     \* bound on deaths, failing calls and damages

ASSUME FoldersAssumption ==
    /\ IsFiniteSet(Folders) /\ LongFolders \subseteq Folders /\ Excluded \subseteq Folders
ASSUME BoundsAssumption == CacheDiskVersion \in Nat /\ MaxUpdates \in Nat /\ MaxFaults \in Nat

VARIABLES
    cache, cache2,     \* the file and the copy that is read
    pc,
    m_directoryCache,  \* cached folder -> its status
    rest,              \* what is still to be read, or to be written
    left,              \* the folders still to be read
    updates, faults,
    saved,             \* history: every cache that was to be written
    lastSaved,         \* history: the newest that was written completely
    clean,             \* history: nothing has gone wrong or changed since
    crashes,           \* history: the starts killed since the last damage, up to two
    failed             \* history: a call of the file system has failed since

files == <<cache, cache2>>
memory == <<m_directoryCache, rest, left>>
history == <<saved, lastSaved, clean, crashes, failed>>
vars == <<files, pc, memory, updates, faults, history>>

Empty == [d \in {} |-> 0]

Init ==
    /\ cache = NoFile /\ cache2 = NoFile
    /\ pc = "down"
    /\ m_directoryCache = Empty /\ rest = <<>> /\ left = 0
    /\ updates = 0 /\ faults = 0
    /\ saved = {Empty} /\ lastSaved = Empty /\ clean = FALSE
    /\ crashes = 0 /\ failed = FALSE

Goto(place) == pc' = place

\* Something goes wrong.
Fault == faults < MaxFaults /\ faults' = faults + 1 /\ clean' = FALSE

\* The file system refuses a call; the code does not look at the result.
Refused == Fault /\ failed' = TRUE /\ UNCHANGED <<saved, lastSaved, crashes>>

NoFault == UNCHANGED <<faults, history>>

-----------------------------------------------------------------------------
(* The items of a file.                                                    *)

Version(n) == [kind |-> "version", value |-> n]
Size(n) == [kind |-> "size", value |-> n]
Folder(d, s) == [kind |-> "folder", dir |-> d, status |-> s]
Partial == [kind |-> "partial"]  \* fread returns less than asked for, or a wrong version
Deadly == [kind |-> "deadly"]    \* reading it kills the process
Zero == [kind |-> "zero"]        \* a length of zero, where a folder is expected

\* What SaveCache writes; the map holds no null.
Contents(c) ==
    <<Version(CacheDiskVersion), Size(Cardinality(DOMAIN c))>>
        \o [i \in 1 .. Cardinality(DOMAIN c) |->
               LET d == SetToSeq(DOMAIN c)[i] IN Folder(d, c[d])]

\* What is left of a file that was not written to its end.
Cuts(f) == Prefixes(f) \union {Append(p, Partial) : p \in Prefixes(f) \ {f}}

Items == {Version(CacheDiskVersion), Partial, Deadly, Zero}
             \union {Size(n) : n \in 0 .. Cardinality(Folders)}
             \union {Folder(d, s) : d \in Folders, s \in 1 .. MaxUpdates}

\* What a damage makes of a file: it is cut off, an item reads as another one,
\* or its end is filled with zeros.
Damages(f) ==
    Cuts(f) \union {[f EXCEPT ![i] = x] : i \in 1 .. Len(f), x \in Items}
            \union {[j \in 1 .. Len(f) |-> IF j < i THEN f[j] ELSE Zero] : i \in 1 .. Len(f)}

-----------------------------------------------------------------------------
(* Create: the start of the server.                                        *)

\* The mutex admits one server at a time.
Start ==
    /\ pc = "down"
    /\ Goto("delete copy")
    /\ m_directoryCache' = Empty /\ rest' = <<>> /\ left' = 0
    /\ UNCHANGED <<files, updates, faults, history>>

DeleteCopy ==
    /\ pc = "delete copy"
    /\ Goto("copy")
    /\ \/ cache2' = NoFile /\ NoFault
       \/ cache2 # NoFile /\ Refused /\ UNCHANGED cache2
    /\ UNCHANGED <<cache, memory, updates>>

Copy ==
    /\ pc = "copy"
    /\ Goto("delete")
    /\ \/ cache # NoFile /\ cache2' = cache /\ NoFault
       \/ cache # NoFile /\ Refused /\ UNCHANGED cache2
       \/ cache = NoFile /\ UNCHANGED cache2 /\ NoFault
    /\ UNCHANGED <<cache, memory, updates>>

\* Mutant: the original stays.
DeleteOriginalNot ==
    /\ pc = "delete"
    /\ Goto("open")
    /\ NoFault
    /\ UNCHANGED <<files, memory, updates>>

DeleteOriginal ==
    /\ pc = "delete"
    /\ Goto("open")
    /\ \/ cache' = NoFile /\ NoFault
       \/ cache # NoFile /\ Refused /\ UNCHANGED cache
    /\ UNCHANGED <<cache2, memory, updates>>

\* The copy is opened; without one the cache starts empty.
Open ==
    /\ pc = "open"
    /\ IF cache2 = NoFile
       THEN Goto("exit") /\ UNCHANGED rest
       ELSE Goto("version") /\ rest' = cache2
    /\ NoFault
    /\ UNCHANGED <<files, m_directoryCache, left, updates>>

Readable(kind) == rest # <<>> /\ Head(rest).kind = kind

\* The version: the end of the file leads to an empty cache, another version
\* to a new instance.
ReadVersion ==
    /\ pc = "version"
    /\ ~Readable("deadly")
    /\ \/ Readable("version") /\ Goto("size") /\ rest' = Tail(rest)
       \/ ~Readable("version") /\ Goto("exit") /\ UNCHANGED rest
       \/ Readable("partial") /\ Goto("error") /\ UNCHANGED rest
    /\ NoFault
    /\ UNCHANGED <<files, m_directoryCache, left, updates>>

ReadSize ==
    /\ pc = "size"
    /\ ~Readable("deadly")
    /\ IF Readable("size")
       THEN Goto("folder") /\ left' = Head(rest).value /\ rest' = Tail(rest)
       ELSE Goto("exit") /\ UNCHANGED <<rest, left>>
    /\ NoFault
    /\ UNCHANGED <<files, m_directoryCache, updates>>

\* Mutant: a folder that cannot be read ends the loop.
ReadFolderLenient ==
    /\ pc = "folder"
    /\ ~Readable("deadly") \/ left = 0
    /\ IF left > 0 /\ Readable("folder")
       THEN /\ m_directoryCache' = [d \in DOMAIN m_directoryCache \union {Head(rest).dir} |->
                                       IF d = Head(rest).dir THEN Head(rest).status
                                       ELSE m_directoryCache[d]]
            /\ left' = left - 1
            /\ rest' = Tail(rest)
            /\ UNCHANGED pc
       ELSE Goto("exit") /\ UNCHANGED memory
    /\ NoFault
    /\ UNCHANGED <<files, updates>>

\* Mutant: the last folder is not read.
ReadFolderButLast ==
    /\ pc = "folder"
    /\ ~Readable("deadly") \/ left = 0
    /\ \/ left <= 1 /\ Goto("exit") /\ UNCHANGED memory
       \/ /\ left > 1 /\ Readable("folder")
          /\ m_directoryCache' = [d \in DOMAIN m_directoryCache \union {Head(rest).dir} |->
                                     IF d = Head(rest).dir THEN Head(rest).status
                                     ELSE m_directoryCache[d]]
          /\ left' = left - 1
          /\ rest' = Tail(rest)
          /\ UNCHANGED pc
       \/ left > 1 /\ ~Readable("folder") /\ Goto("error") /\ UNCHANGED memory
    /\ NoFault
    /\ UNCHANGED <<files, updates>>

\* A folder: it is taken unless the settings exclude it.  A length of zero is
\* passed over; what cannot be read, or is longer than MAX_PATH, leads to a new
\* instance.
ReadFolder ==
    /\ pc = "folder"
    /\ ~Readable("deadly") \/ left = 0
    /\ \/ left = 0 /\ Goto("exit") /\ UNCHANGED memory
       \/ /\ left > 0 /\ Readable("folder") /\ Head(rest).dir \notin LongFolders
          /\ LET d == Head(rest).dir
             IN  m_directoryCache' =
                    IF d \in Excluded THEN m_directoryCache
                    ELSE [x \in DOMAIN m_directoryCache \union {d} |->
                             IF x = d THEN Head(rest).status ELSE m_directoryCache[x]]
          /\ left' = left - 1
          /\ rest' = Tail(rest)
          /\ UNCHANGED pc
       \/ /\ left > 0 /\ Readable("zero")
          /\ left' = left - 1
          /\ rest' = Tail(rest)
          /\ UNCHANGED <<pc, m_directoryCache>>
       \/ /\ left > 0 /\ ~Readable("zero")
          /\ ~(Readable("folder") /\ Head(rest).dir \notin LongFolders)
          /\ Goto("error")
          /\ UNCHANGED memory
    /\ NoFault
    /\ UNCHANGED <<files, updates>>

\* The process dies over a damaged file.
ReadDies ==
    /\ pc \in {"version", "size", "folder"} /\ Readable("deadly")
    /\ pc = "folder" => left > 0
    /\ Goto("down")
    /\ crashes' = IF crashes = 0 THEN 1 ELSE 2
    /\ UNCHANGED <<files, memory, updates, faults, saved, lastSaved, clean, failed>>

\* exit and error: the copy is deleted; after an error the instance is
\* replaced by an empty one.
EndLoad ==
    /\ pc \in {"exit", "error"}
    /\ Goto("running")
    /\ m_directoryCache' = IF pc = "error" THEN Empty ELSE m_directoryCache
    /\ rest' = <<>> /\ left' = 0
    /\ \/ cache2' = NoFile /\ NoFault
       \/ cache2 # NoFile /\ Refused /\ UNCHANGED cache2
    /\ UNCHANGED <<cache, updates>>

-----------------------------------------------------------------------------
(* The server runs, and closes.                                            *)

\* A folder is cached, gets a new status, or leaves the cache.
Update(d) ==
    /\ pc = "running" /\ updates < MaxUpdates
    /\ updates' = updates + 1
    /\ \/ m_directoryCache' = [x \in DOMAIN m_directoryCache \union {d} |->
                                  IF x = d THEN updates' ELSE m_directoryCache[x]]
       \/ m_directoryCache' = [x \in DOMAIN m_directoryCache \ {d} |-> m_directoryCache[x]]
    /\ clean' = FALSE
    /\ UNCHANGED <<files, pc, rest, left, faults, saved, lastSaved, crashes, failed>>

\* The window is closed or the session ends: SaveCache opens the file, which
\* is empty from now on.  A file that cannot be opened is not written.
OpenForWrite ==
    /\ pc = "running"
    /\ \/ /\ cache' = <<>> /\ rest' = Contents(m_directoryCache)
          /\ Goto("write")
          /\ saved' = saved \union {m_directoryCache}
          /\ UNCHANGED <<faults, lastSaved, clean, crashes, failed>>
       \/ Refused /\ Goto("down") /\ UNCHANGED <<cache, rest>>
    /\ UNCHANGED <<cache2, m_directoryCache, left, updates>>

\* The next item is written.  When that fails, the instance is destroyed and
\* the file deleted, unless that fails as well.
WriteItem ==
    /\ pc = "write" /\ rest # <<>>
    /\ \/ /\ cache' = Append(cache, Head(rest)) /\ rest' = Tail(rest)
          /\ UNCHANGED pc /\ NoFault
       \/ /\ Refused /\ cache' \in Cuts(cache) \union {NoFile}
          /\ Goto("down") /\ UNCHANGED rest
    /\ UNCHANGED <<cache2, m_directoryCache, left, updates>>

\* The file is closed, which writes what is still in the buffer; nobody looks
\* whether that succeeds.  WinMain destroys the instance and ends.
CloseFile ==
    /\ pc = "write" /\ rest = <<>>
    /\ Goto("down")
    /\ \/ /\ lastSaved' = m_directoryCache
          /\ clean' = TRUE
          /\ UNCHANGED <<cache, faults, saved, crashes, failed>>
       \/ Refused /\ cache' \in Cuts(cache)
    /\ UNCHANGED <<cache2, memory, updates>>

-----------------------------------------------------------------------------
(* The process is killed, and the file is damaged.                         *)

Killed ==
    /\ pc # "down"
    /\ Fault
    /\ Goto("down")
    /\ IF pc = "write" THEN cache' \in Cuts(cache) ELSE UNCHANGED cache
    /\ IF pc = "copy" /\ cache # NoFile THEN cache2' \in Cuts(cache) ELSE UNCHANGED cache2
    /\ UNCHANGED <<memory, updates, saved, lastSaved, crashes, failed>>

Damage ==
    /\ pc = "down" /\ cache \notin {NoFile, <<>>}
    /\ Fault
    /\ cache' \in Damages(cache)
    /\ crashes' = 0 /\ failed' = FALSE
    /\ UNCHANGED <<cache2, pc, memory, updates, saved, lastSaved>>

\* The steps of a start.
Create ==
    \/ DeleteCopy \/ Copy \/ DeleteOriginal \/ Open
    \/ ReadVersion \/ ReadSize \/ ReadFolder \/ ReadDies \/ EndLoad

Next ==
    \/ Start \/ Create
    \/ (\E d \in Folders : Update(d)) \/ OpenForWrite \/ WriteItem \/ CloseFile
    \/ Killed \/ Damage

Spec == Init /\ [][Next]_vars

-----------------------------------------------------------------------------
Caches == UNION {[D -> 1 .. MaxUpdates] : D \in SUBSET Folders}

ASSUME NoFileAssumption == NoFile \notin Seq(Items)

Without(c, D) == [d \in DOMAIN c \ D |-> c[d]]

\* The type invariant.  Only a start has a second file, unless the process
\* died or could not delete it.
TypeOK ==
    /\ cache \in Seq(Items) \union {NoFile} /\ cache2 \in Seq(Items) \union {NoFile}
    /\ m_directoryCache \in Caches
    /\ rest \in Seq(Items) /\ left \in 0 .. Cardinality(Folders)
    /\ faults \in 0 .. MaxFaults /\ updates \in 0 .. MaxUpdates
    /\ pc = "write" => cache \o rest = Contents(m_directoryCache)

\* What SaveCache wrote of some cache, to the end or up to a place.
Written(f) == \E c \in saved : f \in Cuts(Contents(c))

\* A loaded cache is a whole one: when the server begins to run, it holds what
\* the server held at some earlier close, less the folders the settings exclude,
\* or nothing; never the first part of a file that was left by a killed server,
\* by failing writes or a failing fclose, or cut off later (SVNStatusCache.cpp:
\* 96-166, 210).  Not so for other damages: there is no checksum, a wrong number
\* of folders, zeros or a wrong status are taken as they are (103-110).
LoadedIsWhole ==
    [][EndLoad => \/ cache2 # NoFile /\ ~Written(cache2)
                  \/ \E c \in saved : m_directoryCache' = Without(c, Excluded)]_vars

\* What was saved comes back: when nothing went wrong between the close and
\* the end of the next start, the server holds what it held, less the folders
\* the settings exclude.  (A cache with a path over MAX_PATH is written but
\* never read back, SVNStatusCache.cpp:108, CachedDirectory.cpp:130, 151, 169.)
NothingLost ==
    pc = "running" /\ clean /\ DOMAIN lastSaved \intersect LongFolders = {}
        => m_directoryCache = Without(lastSaved, Excluded)

\* A damaged file kills at most one start, also when that start or the next
\* one is killed elsewhere, as long as the file system deletes what it is told
\* to delete (SVNStatusCache.cpp:82-87).
OneCrashPerDamage == ~failed => crashes <= 1

=============================================================================
