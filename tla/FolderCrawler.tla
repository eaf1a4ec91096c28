---------------------------- MODULE FolderCrawler ----------------------------
(***************************************************************************)
(* The folder crawler of the status cache (TSVNCache/FolderCrawler.cpp):   *)
(* a background thread with two queues, one of paths the directory watcher *)
(* reported as changed and one of folders to be visited, and the blocks of *)
(* CSVNStatusCache that keep it away from folders while a command works in *)
(* them.  Requests come from the watcher, the pipe threads of the shell    *)
(* and the command thread; each checks the blocks, queues its path under   *)
(* m_critSec and then sets the wake event.                                 *)
(*                                                                         *)
(* The queues are UniqueQueues (module UniqueQueue).  What a refresh does  *)
(* to a cached folder is reduced to whether the cached status is older     *)
(* than the disk.  m_bClearMemory is never set (make_unique does not       *)
(* return null), and m_bPathsAddedSinceLastCrawl is never read: both are   *)
(* left out.  The registry value RecursiveOverlay is TRUE, its default:    *)
(* without it the crawler would not go on to the sub folders.              *)
(***************************************************************************)
EXTENDS Naturals, Sequences, FiniteSets, SequencesExt, Subsequences

CONSTANTS Dirs,        \* folders
          Files,       \* versioned files
          Databases,   \* the wc.db files
          Containing,  \* the folder of every path, outside the admin dirs
          Outside,     \* folders that are in no working copy
          Watcher,     \* the thread of the directory watcher
          Shells,      \* the threads that serve the pipes
          NoPath,
          MaxCalls,    \* bound on the calls and changes
          MaxFailures  \* bound on the failures of svn_client_status

Paths == Dirs \union Files \union Databases
Versioned == Dirs \ Outside
Threads == {Watcher} \union Shells

ASSUME PathsAssumption ==
    /\ IsFiniteSet(Paths) /\ NoPath \notin Paths
    /\ Dirs \intersect Files = {} /\ (Dirs \union Files) \intersect Databases = {}
    /\ Containing \in [Paths -> Dirs \union {NoPath}]
    /\ \A p \in Files \union Databases : Containing[p] \in Versioned
    /\ Outside \subseteq Dirs
    /\ \A d \in Outside : Containing[d] \in Outside \union {NoPath}
    /\ \A d \in Versioned : Containing[d] \in Versioned \/ \E b \in Databases : Containing[b] = d
ASSUME BoundsAssumption == IsFiniteSet(Shells) /\ MaxCalls \in Nat /\ MaxFailures \in Nat

VARIABLES
    m_pathsToUpdate, m_foldersToUpdate,  \* the two queues
    added,      \* m_bItemsAddedSinceLastCrawl
    wake,       \* m_hWakeEvent, reset by the wait that sees it
    m_bRun,
    guarded,    \* the main thread holds the guard of the cache in Stop
    holdoff,    \* the hold-off time has not passed
    inhibit,    \* m_lCrawlInhibitSet
    blocked,    \* m_blockedPath
    released,   \* m_blockReleasesAt has passed
    noWatch,    \* m_noWatchPaths: blocked folder -> "timed" or "over"
    pc, work, first,   \* the crawler: its place, workingPath, bFirstRunAfterWakeup
    call,       \* what every thread is doing
    exists,     \* the folders on disk
    gone,       \* the files that are not on disk
    dbChanged,  \* the databases with a time that CWCRoots has not seen
    cached,     \* the folders in m_directoryCache
    stale,      \* the cached folders whose status is older than the disk
    lost,       \* history: folders whose last change was given up
    calls, failures

queueVars == <<m_pathsToUpdate, m_foldersToUpdate, added, wake>>
blockVars == <<blocked, released, noWatch>>
crawlerVars == <<pc, work, first>>
diskVars == <<exists, gone, dbChanged>>
cacheVars == <<cached, stale>>
bounds == <<calls, failures>>
vars == <<queueVars, m_bRun, guarded, holdoff, inhibit, blockVars, crawlerVars, call,
          diskVars, cacheVars, lost, bounds>>

\* The paths at and below p are in every set that has p and whatever is
\* directly below one of its members.
Tree == [p \in Paths \union {NoPath} |->
            {q \in Paths : \A S \in SUBSET Paths :
                (\A x \in Paths : x = p \/ Containing[x] \in S => x \in S) => q \in S}]
Under(p) == Tree[p]
IsAncestorOf(p, q) == q \in Under(p)
\* The folders m_childDirectories lists once d has been fetched.
ChildDirs(d) == IF d \in Outside THEN {} ELSE {c \in Dirs : Containing[c] = d}

-----------------------------------------------------------------------------
(* The queues and the blocks.                                              *)

\* UniqueQueue: a value that is queued moves to the end.
Erased(q, p) == Omit(q, {p})
Pushed(q, p) == Append(Erased(q, p), p)
PushedAll(q, S) == Omit(q, S) \o SetToSeq(S)

IsPathGood(p) == \A b \in DOMAIN noWatch : ~IsAncestorOf(b, p)
GoodWithout(B, p) == \A b \in DOMAIN noWatch \ B : ~IsAncestorOf(b, p)
IsCrawlBlocked(p) == blocked # NoPath /\ IsAncestorOf(blocked, p)

\* AddDirectoryForUpdate for every folder of S, called by the crawler itself.
AddDirectories(S) ==
    /\ m_foldersToUpdate' = PushedAll(m_foldersToUpdate, S)
    /\ added' = (added \/ S # {})
    /\ wake' = (wake \/ S # {})

\* The nearest folder at or above p with a wc.db, or p when there is none.
WCRoot(p) ==
    LET roots == {d \in Versioned : /\ IsAncestorOf(d, p)
                                    /\ \E b \in Databases : Containing[b] = d}
        nearest == {d \in roots : \A r \in roots : IsAncestorOf(r, d)}
    IN  IF nearest = {} THEN p ELSE CHOOSE d \in nearest : TRUE

Block(d) ==
    noWatch' = [x \in DOMAIN noWatch \union {d} |-> IF x = d THEN "timed" ELSE noWatch[x]]
Unblock(B) == noWatch' = [x \in DOMAIN noWatch \ B |-> noWatch[x]]

\* What UnBlockPath(p) takes out: the block of the working copy root as well
\* as the one of p.
UnblockedBy(p) == {WCRoot(p), p}

\* Mutant: the folder is not crawled.
EndBlockSilently(p) ==
    /\ Unblock(UnblockedBy(p))
    /\ UNCHANGED <<m_foldersToUpdate, added, wake>>

\* UnBlockPath: the blocks end and p is crawled, unless another one covers it.
EndBlock(p) ==
    /\ Unblock(UnblockedBy(p))
    /\ AddDirectories({c \in {p} : GoodWithout(UnblockedBy(p), c)})

\* The folders that are unblocked without being crawled: those in the working
\* copy but not below p, when the whole working copy was blocked.
UnblockedBeside(p) ==
    IF WCRoot(p) \in DOMAIN noWatch THEN Under(WCRoot(p)) \ Under(p) ELSE {}

\* The folders that are visited, one after the other, when d is: those below
\* it, unless it is in no working copy.
Visited(d) == IF d \in Outside THEN {d} ELSE Under(d)

\* A request for p leads to a new status, or to the removal, of the folder d.
\* A folder that changed is visited by way of the folder it is in; of one that
\* is gone nothing is removed unless it has an entry of its own, and one for a
\* file that is gone leads nowhere.
Serves(q, p, d) ==
    \/ q = "folders" /\ d \in Visited(p)
    \/ q = "paths" /\ p \in Files \ gone /\ d = Containing[p] /\ d \in exists
    \/ q = "paths" /\ p \in Databases \intersect dbChanged /\ d \in Visited(Containing[p])
    \/ /\ q = "paths" /\ p \in exists \union cached
       /\ Containing[p] \in Versioned /\ d \in Under(p)

\* The stale folder d will not stay as it is: it is blocked, a request for it
\* is queued or on its way, or the crawler is at it.
Covered(d) ==
    \/ ~IsPathGood(d)
    \/ \E p \in Range(m_foldersToUpdate) : Serves("folders", p, d)
    \/ \E p \in Range(m_pathsToUpdate) : Serves("paths", p, d)
    \/ \E t \in Threads : call[t].at \in {"check", "push"} /\ Serves(call[t].queue, call[t].path, d)
    \/ pc \in {"check", "member"} /\ Serves("paths", work, d)
    \/ pc \in {"crawlcheck", "crawl", "refresh"} /\ d \in Visited(work)

-----------------------------------------------------------------------------
(* The cache.                                                              *)

\* RemoveCacheForPath, under the write lock: when d has an entry, it is deleted
\* with those below; the CCrawlInhibitor leaves a hold-off behind in any case.
RemoveCacheForPath(d) ==
    LET removed == IF d \in cached THEN Under(d) ELSE {}
    IN  /\ ~guarded
        /\ cached' = cached \ removed
        /\ stale' = stale \ removed
        /\ holdoff' = TRUE

\* The entries GetDirectoryCacheEntry creates while d is fetched: the one of d,
\* of its sub folders and of its parent.
NewEntries(d) ==
    (({d, Containing[d]} \union ChildDirs(d)) \intersect exists) \ cached

\* The status of d is fetched.  New entries are queued to be crawled, and so
\* are the folders of S.
Fetched(d, S) ==
    /\ cached' = cached \union NewEntries(d)
    /\ stale' = (stale \union NewEntries(d)) \ {d}
    /\ AddDirectories({c \in S \union NewEntries(d) : IsPathGood(c)})
    /\ UNCHANGED <<blockVars, failures>>

\* svn_client_status fails, or there is no client context to call it with: the
\* folder is left without a status.
FetchFails(d) ==
    /\ failures < MaxFailures
    /\ failures' = failures + 1
    /\ cached' = cached \union {d}
    /\ stale' = stale \union {d}

NewEntry(d) == AddDirectories({c \in {d} \ cached : IsPathGood(c)})

\* With "not a working copy" it is blocked for twenty seconds, with a path that
\* Subversion does not accept for five.
FetchBlocks(d) ==
    /\ FetchFails(d)
    /\ Block(d)
    /\ NewEntry(d)
    /\ UNCHANGED <<blocked, released>>

\* With an unknown error, and without a context, it is queued again behind a
\* short block of the crawler.
FetchRetries(d) ==
    /\ FetchFails(d)
    /\ blocked' = d
    /\ released' = FALSE
    /\ AddDirectories({c \in {d} : IsPathGood(c)})
    /\ UNCHANGED noWatch

\* With an error of the working copy nothing is done.
FetchGivesUp(d) ==
    /\ FetchFails(d)
    /\ NewEntry(d)
    /\ UNCHANGED blockVars

-----------------------------------------------------------------------------
(* The crawler thread.  The cache has been loaded from its file.            *)

Init ==
    /\ m_pathsToUpdate = <<>> /\ m_foldersToUpdate = <<>>
    /\ added = FALSE /\ wake = FALSE /\ m_bRun = TRUE /\ guarded = FALSE
    /\ holdoff = FALSE /\ inhibit = 0
    /\ blocked = NoPath /\ released = FALSE /\ noWatch = <<>>
    /\ pc = "wait" /\ work = NoPath /\ first = FALSE
    /\ call = [t \in Threads |-> [at |-> "idle"]]
    /\ exists = Dirs /\ gone = {} /\ dbChanged = {}
    /\ cached = Versioned /\ stale = {} /\ lost = {}
    /\ calls = 0 /\ failures = 0

Goto(place) == pc' = place

\* Mutant: the crawler waits for the wake event only.
WaitWithoutTermination ==
    /\ pc = "wait" /\ wake
    /\ wake' = FALSE
    /\ first' = TRUE
    /\ Goto(IF m_bRun THEN "loop" ELSE "end")
    /\ UNCHANGED <<m_pathsToUpdate, m_foldersToUpdate, added, work, m_bRun, guarded, holdoff,
                   inhibit, blockVars, call, diskVars, cacheVars, bounds>>

\* WaitForMultipleObjects; the termination event comes first.
Wait ==
    /\ pc = "wait"
    /\ \/ /\ ~m_bRun
          /\ Goto("end")
          /\ UNCHANGED <<wake, first>>
       \/ /\ m_bRun /\ wake
          /\ wake' = FALSE
          /\ first' = TRUE
          /\ Goto("loop")
    /\ UNCHANGED <<m_pathsToUpdate, m_foldersToUpdate, added, work, m_bRun, guarded, holdoff,
                   inhibit, blockVars, call, diskVars, cacheVars, bounds>>

\* The top of the inner loop: it ends with Stop, sleeps while the shell asks,
\* and goes round once after it has woken up.
LoopTop ==
    /\ pc = "loop"
    /\ IF ~m_bRun
       THEN Goto("wait") /\ UNCHANGED first
       ELSE /\ ~holdoff /\ inhibit = 0
            /\ first' = FALSE
            /\ IF first THEN UNCHANGED pc ELSE Goto("blocks")
    /\ UNCHANGED <<queueVars, work, m_bRun, guarded, holdoff, inhibit, blockVars, call, diskVars,
                   cacheVars, bounds>>

\* Mutant: m_blockedPath is never reset.
ResetBlockedPathNever == UNCHANGED <<blocked, released>>

\* The time of the crawler's own block may be over.
ResetBlockedPath ==
    /\ blocked' = IF released THEN NoPath ELSE blocked
    /\ released' = FALSE

\* RemoveTimedoutBlocks: the first block whose time is over ends.
RemoveTimedoutBlock(b) ==
    /\ pc = "blocks"
    /\ noWatch[b] = "over"
    /\ ResetBlockedPath
    /\ EndBlock(b)
    /\ Goto("sizes")
    /\ UNCHANGED <<m_pathsToUpdate, work, first, m_bRun, guarded, holdoff, inhibit, call, diskVars,
                   cacheVars, bounds>>

NoTimedoutBlock ==
    /\ pc = "blocks"
    /\ \A b \in DOMAIN noWatch : noWatch[b] = "timed"
    /\ ResetBlockedPath
    /\ Goto("sizes")
    /\ UNCHANGED <<queueVars, work, first, m_bRun, guarded, holdoff, inhibit, noWatch, call,
                   diskVars, cacheVars, bounds>>

\* The sizes are read without the lock.
NothingLeft ==
    /\ pc = "sizes"
    /\ Goto(IF m_foldersToUpdate = <<>> /\ m_pathsToUpdate = <<>> THEN "wait"
            ELSE IF m_pathsToUpdate # <<>> THEN "paths" ELSE "folders")
    /\ UNCHANGED <<queueVars, work, first, m_bRun, guarded, holdoff, inhibit, blockVars, call,
                   diskVars, cacheVars, bounds>>

\* A changed path is taken out; below m_blockedPath it moves to the end.
PopPath ==
    /\ pc = "paths"
    /\ LET p == Head(m_pathsToUpdate)
       IN  IF IsCrawlBlocked(p)
           THEN /\ m_pathsToUpdate' = Pushed(Tail(m_pathsToUpdate), p)
                /\ Goto("loop")
                /\ UNCHANGED work
           ELSE /\ m_pathsToUpdate' = Tail(m_pathsToUpdate)
                /\ work' = p
                /\ Goto("check")
    /\ UNCHANGED <<m_foldersToUpdate, added, wake, first, m_bRun, guarded, holdoff, inhibit,
                   blockVars, call, diskVars, cacheVars, bounds>>

\* What is to be done for the path: nothing when it is blocked, nothing when
\* the time of wc.db did not change.  What is gone is not versioned any more:
\* its entries are removed, of which a file has none.
CheckPath ==
    /\ pc = "check"
    /\ \/ /\ ~IsPathGood(work)
          /\ Goto("loop")
          /\ UNCHANGED <<dbChanged, cacheVars, holdoff, work>>
       \/ /\ IsPathGood(work) /\ work \in Databases
          /\ Goto(IF work \in dbChanged THEN "refresh" ELSE "loop")
          /\ dbChanged' = dbChanged \ {work}
          /\ work' = Containing[work]
          /\ UNCHANGED <<cacheVars, holdoff>>
       \/ /\ IsPathGood(work) /\ work \in Versioned \intersect exists
          /\ work' = Containing[work]
          /\ Goto("refresh")
          /\ UNCHANGED <<dbChanged, cacheVars, holdoff>>
       \/ /\ IsPathGood(work) /\ work \in Files \ gone /\ Containing[work] \in exists
          /\ Goto("member")
          /\ UNCHANGED <<dbChanged, cacheVars, holdoff, work>>
       \/ /\ IsPathGood(work) /\ work \notin Databases
          /\ \/ work \in Dirs /\ work \notin Versioned \intersect exists
             \/ work \in Files /\ (work \in gone \/ Containing[work] \notin exists)
          /\ IF work \in exists
             THEN UNCHANGED <<cacheVars, holdoff>>
             ELSE RemoveCacheForPath(work)
          /\ Goto("folders")
          /\ UNCHANGED <<dbChanged, work>>
    /\ UNCHANGED <<queueVars, first, m_bRun, guarded, inhibit, blockVars, call, exists, gone,
                   bounds>>

\* The folder of a changed folder or database is invalidated and refreshed,
\* under the read lock of the cache; its sub folders are queued.  When it is
\* gone by now but has an entry, it loses it, under the write lock.
RefreshFolder ==
    /\ pc = "refresh" /\ ~guarded
    /\ Goto("erase")
    /\ \/ /\ work \in exists
          /\ Fetched(work, ChildDirs(work))
          /\ UNCHANGED holdoff
       \/ /\ work \in cached \ exists
          /\ RemoveCacheForPath(work)
          /\ UNCHANGED <<m_foldersToUpdate, added, wake, blockVars, failures>>
    /\ UNCHANGED <<m_pathsToUpdate, work, first, m_bRun, guarded, inhibit, call, diskVars, calls>>

\* The folder is gone and has no entry: nothing is done.
RefreshMissing ==
    /\ pc = "refresh" /\ ~guarded /\ work \notin cached \union exists
    /\ Goto("erase")
    /\ UNCHANGED <<queueVars, work, first, m_bRun, guarded, holdoff, inhibit, blockVars, call,
                   diskVars, cacheVars, bounds>>

\* The folder of a changed file is asked for the status of the file, which may
\* be gone by now.
RefreshMember ==
    /\ pc = "member" /\ ~guarded
    /\ Goto("erase")
    /\ LET d == Containing[work]
       IN  \/ d \in exists /\ Fetched(d, {})
           \/ /\ d \notin exists \/ work \in gone
              /\ UNCHANGED <<cacheVars, m_foldersToUpdate, added, wake, blockVars, failures>>
    /\ UNCHANGED <<m_pathsToUpdate, work, first, m_bRun, guarded, holdoff, inhibit, call, diskVars,
                   calls>>

\* A notification for the same path that came meanwhile is taken out, since
\* the refresh may have caused it.
ErasePath ==
    /\ pc = "erase"
    /\ m_pathsToUpdate' = Erased(m_pathsToUpdate, work)
    /\ Goto("folders")
    /\ UNCHANGED <<m_foldersToUpdate, added, wake, work, first, m_bRun, guarded, holdoff, inhibit,
                   blockVars, call, diskVars, cacheVars, bounds>>

\* A folder is taken out to be crawled.
PopFolder ==
    /\ pc = "folders"
    /\ IF m_foldersToUpdate = <<>>
       THEN Goto("loop") /\ UNCHANGED <<m_foldersToUpdate, added, work>>
       ELSE LET d == Head(m_foldersToUpdate)
            IN  /\ added' = FALSE
                /\ work' = d
                /\ IF IsCrawlBlocked(d)
                   THEN /\ m_foldersToUpdate' = Pushed(Tail(m_foldersToUpdate), d)
                        /\ Goto("loop")
                   ELSE /\ m_foldersToUpdate' = Tail(m_foldersToUpdate)
                        /\ Goto("crawlcheck")
    /\ UNCHANGED <<m_pathsToUpdate, wake, first, m_bRun, guarded, holdoff, inhibit, blockVars, call,
                   diskVars, cacheVars, bounds>>

CheckFolder ==
    /\ pc = "crawlcheck"
    /\ Goto(IF IsPathGood(work) THEN "crawl" ELSE "loop")
    /\ UNCHANGED <<queueVars, work, first, m_bRun, guarded, holdoff, inhibit, blockVars, call,
                   diskVars, cacheVars, bounds>>

\* The folder is visited, under the read lock: fetched when it is new, has
\* changed or was not watched, and its sub folders are queued.
CrawlFolder ==
    /\ pc = "crawl" /\ ~guarded
    /\ Goto("crawlerase")
    /\ \/ /\ work \in exists
          /\ Fetched(work, ChildDirs(work))
          /\ UNCHANGED holdoff
       \/ /\ work \in cached \ stale
          /\ AddDirectories({c \in ChildDirs(work) : IsPathGood(c)})
          /\ UNCHANGED <<cacheVars, holdoff, blockVars, failures>>
    /\ UNCHANGED <<m_pathsToUpdate, work, first, m_bRun, guarded, inhibit, call, diskVars, calls>>

\* The folder is gone: it keeps the entry it may have, and the fetch leads to
\* nothing; RemoveCacheForPath is called when there is none to be removed.
CrawlMissing ==
    /\ pc = "crawl" /\ ~guarded /\ work \notin exists
    /\ \/ work \in stale /\ UNCHANGED holdoff
       \/ work \notin cached /\ holdoff' \in {holdoff, TRUE}
    /\ Goto("crawlerase")
    /\ UNCHANGED <<queueVars, work, first, m_bRun, guarded, inhibit, blockVars, call, diskVars,
                   cacheVars, bounds>>

\* The status of the folder cannot be fetched.
Fetching == IF pc = "member" THEN Containing[work] ELSE work

FetchStep(outcome) ==
    /\ pc \in {"refresh", "member", "crawl"} /\ ~guarded
    /\ Fetching \in exists \intersect Versioned
    /\ outcome
    /\ Goto(IF pc = "crawl" THEN "crawlerase" ELSE "erase")
    /\ UNCHANGED <<m_pathsToUpdate, work, first, m_bRun, guarded, holdoff, inhibit, call, diskVars,
                   calls>>

FetchError == FetchStep(FetchBlocks(Fetching) \/ FetchRetries(Fetching))
FetchLost == FetchStep(FetchGivesUp(Fetching))

\* A crawl request for the same folder that came meanwhile is taken out.
EraseFolder ==
    /\ pc = "crawlerase"
    /\ m_foldersToUpdate' = IF added THEN Erased(m_foldersToUpdate, work)
                            ELSE m_foldersToUpdate
    /\ Goto("loop")
    /\ UNCHANGED <<m_pathsToUpdate, added, wake, work, first, m_bRun, guarded, holdoff, inhibit,
                   blockVars, call, diskVars, cacheVars, bounds>>

-----------------------------------------------------------------------------
(* The callers.  A call checks the blocks, queues its path and sets the    *)
(* event in three steps.  Counted is what changes or queues anything.       *)

Counted == calls < MaxCalls /\ calls' = calls + 1

Begin(t, q, p, shell) ==
    /\ call[t].at = "idle"
    /\ call' = [call EXCEPT ![t] = [at |-> "check", queue |-> q, path |-> p, shell |-> shell]]

To(t, place) == call' = [call EXCEPT ![t].at = place]
Return(t) == call' = [call EXCEPT ![t] = [at |-> IF @.shell THEN "leave" ELSE "idle"]]

\* The watcher reports a changed file; the cached status of its folder is old.
ChangeFile(f) ==
    /\ Containing[f] \in exists
    /\ Begin(Watcher, "paths", f, FALSE) /\ Counted
    /\ gone' = gone \ {f}
    /\ stale' = stale \union ({Containing[f]} \intersect cached)
    /\ UNCHANGED <<queueVars, m_bRun, guarded, holdoff, inhibit, blockVars, crawlerVars, exists,
                   dbChanged, cached, failures>>

\* The same for a file that was deleted.
DeleteFile(f) ==
    /\ Containing[f] \in exists /\ f \notin gone
    /\ Begin(Watcher, "paths", f, FALSE) /\ Counted
    /\ gone' = gone \union {f}
    /\ stale' = stale \union ({Containing[f]} \intersect cached)
    /\ UNCHANGED <<queueVars, m_bRun, guarded, holdoff, inhibit, blockVars, crawlerVars, exists,
                   dbChanged, cached, failures>>

\* The watcher reports a database that was written: the status of every folder
\* of the working copy is old.
ChangeDatabase(b) ==
    /\ Begin(Watcher, "paths", b, FALSE) /\ Counted
    /\ dbChanged' = dbChanged \union {b}
    /\ stale' = stale \union (Under(Containing[b]) \intersect cached)
    /\ UNCHANGED <<queueVars, m_bRun, guarded, holdoff, inhibit, blockVars, crawlerVars, exists,
                   gone, cached, failures>>

\* The watcher reports a folder that was deleted, without its parent; or one
\* that was created or touched.
RemoveFolder(d) ==
    /\ d \in exists /\ ~\E b \in Databases : Containing[b] \in Under(d)
    /\ Begin(Watcher, "paths", d, FALSE) /\ Counted
    /\ exists' = exists \ Under(d)
    /\ gone' = gone \union (Files \intersect Under(d))
    /\ stale' = stale \union (Under(d) \intersect cached)
    /\ UNCHANGED <<queueVars, m_bRun, guarded, holdoff, inhibit, blockVars, crawlerVars, dbChanged,
                   cached, failures>>

TouchFolder(d) ==
    /\ Containing[d] \in exists \union {NoPath}
    /\ Begin(Watcher, "paths", d, FALSE) /\ Counted
    /\ exists' = exists \union {d}
    /\ UNCHANGED <<queueVars, m_bRun, guarded, holdoff, inhibit, blockVars, crawlerVars, gone,
                   dbChanged, cacheVars, failures>>

\* The shell asks for the status of a member of d, under the read lock: the
\* crawler is inhibited for the length of the call, and d is queued when it is
\* new or old.
AskStatus(t, d) ==
    /\ IsPathGood(d) /\ d \in exists /\ ~guarded
    /\ Begin(t, "folders", d, TRUE) /\ Counted
    /\ inhibit' = inhibit + 1
    /\ stale' = stale \union ({d} \ cached)
    /\ cached' = cached \union {d}
    /\ UNCHANGED <<queueVars, m_bRun, guarded, holdoff, blockVars, crawlerVars, diskVars, failures>>

\* The entry it asks for is in the cache and has not expired: nothing is queued.
\* A crawler that has been stopped does not look at inhibitor and hold-off.
AskCached(t) ==
    /\ m_bRun
    /\ \E d \in cached \intersect exists : IsPathGood(d)
    /\ call[t].at = "idle"
    /\ call' = [call EXCEPT ![t] = [at |-> "leave"]]
    /\ inhibit' = inhibit + 1
    /\ UNCHANGED <<queueVars, m_bRun, guarded, holdoff, blockVars, crawlerVars, diskVars,
                   cacheVars, bounds>>

\* The crawl command: the entries of d are removed and d is crawled.
CrawlCommand(t, d) ==
    /\ Begin(t, "folders", d, FALSE) /\ Counted
    /\ RemoveCacheForPath(d)
    /\ UNCHANGED <<queueVars, m_bRun, guarded, inhibit, blockVars, crawlerVars, diskVars, failures>>

\* AddDirectoryForUpdate and AddPathForUpdate return for a blocked path.
CheckCall(t) ==
    /\ call[t].at = "check"
    /\ IF IsPathGood(call[t].path) THEN To(t, "push") ELSE Return(t)
    /\ UNCHANGED <<queueVars, m_bRun, guarded, holdoff, inhibit, blockVars, crawlerVars, diskVars,
                   cacheVars, bounds>>

\* Mutant: the event is not set.
PushCallOnly(t) ==
    /\ call[t].at = "push"
    /\ Return(t)
    /\ IF call[t].queue = "paths"
       THEN /\ m_pathsToUpdate' = Pushed(m_pathsToUpdate, call[t].path)
            /\ UNCHANGED <<m_foldersToUpdate, added>>
       ELSE /\ m_foldersToUpdate' = Pushed(m_foldersToUpdate, call[t].path)
            /\ added' = TRUE
            /\ UNCHANGED m_pathsToUpdate
    /\ UNCHANGED <<wake, m_bRun, guarded, holdoff, inhibit, blockVars, crawlerVars, diskVars,
                   cacheVars, bounds>>

PushCall(t) ==
    /\ call[t].at = "push"
    /\ To(t, "set")
    /\ IF call[t].queue = "paths"
       THEN /\ m_pathsToUpdate' = Pushed(m_pathsToUpdate, call[t].path)
            /\ UNCHANGED <<m_foldersToUpdate, added>>
       ELSE /\ m_foldersToUpdate' = Pushed(m_foldersToUpdate, call[t].path)
            /\ added' = TRUE
            /\ UNCHANGED m_pathsToUpdate
    /\ UNCHANGED <<wake, m_bRun, guarded, holdoff, inhibit, blockVars, crawlerVars, diskVars,
                   cacheVars, bounds>>

SetCall(t) ==
    /\ call[t].at = "set"
    /\ wake' = TRUE
    /\ Return(t)
    /\ UNCHANGED <<m_pathsToUpdate, m_foldersToUpdate, added, m_bRun, guarded, holdoff, inhibit,
                   blockVars, crawlerVars, diskVars, cacheVars, bounds>>

\* The end of a CCrawlInhibitor.
LeaveCall(t) ==
    /\ call[t].at = "leave"
    /\ call' = [call EXCEPT ![t] = [at |-> "idle"]]
    /\ inhibit' = inhibit - 1
    /\ holdoff' = TRUE
    /\ UNCHANGED <<queueVars, m_bRun, guarded, blockVars, crawlerVars, diskVars, cacheVars, bounds>>

Caller(t) == CheckCall(t) \/ PushCall(t) \/ SetCall(t) \/ LeaveCall(t)

\* The commands of TortoiseProc that block the working copy of p, unblock it,
\* and release p (the crawler's own block, and the entries of p go).
BlockPath(p) ==
    /\ Counted
    /\ Block(WCRoot(p))
    /\ UNCHANGED <<queueVars, m_bRun, guarded, holdoff, inhibit, blocked, released, crawlerVars,
                   call, diskVars, cacheVars, failures>>

UnBlockPath(p) ==
    /\ Counted
    /\ EndBlock(p)
    /\ UNCHANGED <<m_pathsToUpdate, m_bRun, guarded, holdoff, inhibit, blocked, released,
                   crawlerVars, call, diskVars, cacheVars, failures>>

Release(p) ==
    /\ Counted
    /\ blocked' = p
    /\ released' = FALSE
    /\ RemoveCacheForPath(p)
    /\ UNCHANGED <<queueVars, m_bRun, guarded, inhibit, noWatch, crawlerVars, call, diskVars,
                   failures>>

\* Stop, called by the main thread with the write lock of the cache, or without
\* it when the session ends and 200 ms were not enough to get it.
Stop ==
    /\ m_bRun
    /\ m_bRun' = FALSE
    /\ guarded' \in BOOLEAN
    /\ UNCHANGED <<queueVars, holdoff, inhibit, blockVars, crawlerVars, call, diskVars, cacheVars,
                   bounds>>

\* It waits four seconds for the crawler at most and closes the handles, which
\* ends a wait for them as m_bRun does; then the main thread leaves the lock.
StopReturns ==
    /\ guarded
    /\ guarded' = FALSE
    /\ UNCHANGED <<queueVars, m_bRun, holdoff, inhibit, blockVars, crawlerVars, call, diskVars,
                   cacheVars, bounds>>

\* Time passes.
HoldoffEnds ==
    /\ holdoff
    /\ holdoff' = FALSE
    /\ UNCHANGED <<queueVars, m_bRun, guarded, inhibit, blockVars, crawlerVars, call, diskVars,
                   cacheVars, bounds>>

CrawlBlockEnds ==
    /\ blocked # NoPath /\ ~released
    /\ released' = TRUE
    /\ UNCHANGED <<queueVars, m_bRun, guarded, holdoff, inhibit, blocked, noWatch, crawlerVars,
                   call, diskVars, cacheVars, bounds>>

BlockTimesOut(d) ==
    /\ d \in DOMAIN noWatch /\ noWatch[d] = "timed"
    /\ noWatch' = [noWatch EXCEPT ![d] = "over"]
    /\ UNCHANGED <<queueVars, m_bRun, guarded, holdoff, inhibit, blocked, released, crawlerVars,
                   call, diskVars, cacheVars, bounds>>

Request(t) ==
    AskCached(t) \/ \E d \in Versioned : AskStatus(t, d) \/ CrawlCommand(t, d)

Command == \E d \in Versioned : BlockPath(d) \/ Release(d)

Time == HoldoffEnds \/ CrawlBlockEnds \/ \E d \in Dirs : BlockTimesOut(d)

\* The stale folders that are left to nobody.
Uncovered == {d \in stale : ~Covered(d)}

\* A step may keep every change, or give up the folders of S it leaves to
\* nobody.  A folder that was given up stays so until it gets a new status or
\* a new change.
Forgets(step, S) == step /\ lost' = (lost \intersect stale') \union (S \intersect Uncovered')
Keeps(step) == Forgets(step, {})
Renews(step, S) == step /\ lost' = (lost \intersect stale') \ S

\* Something changes on disk, and the watcher reports it.  Given up are the
\* folder of a deleted file, and a deleted folder without an entry of its own.
ChangeReported ==
    \/ \E f \in Files : Renews(ChangeFile(f), {Containing[f]})
    \/ \E f \in Files : Forgets(DeleteFile(f), {Containing[f]})
    \/ \E b \in Databases : Renews(ChangeDatabase(b), Under(Containing[b]))
    \/ \E d \in Versioned :
          \/ Forgets(RemoveFolder(d), IF d \in cached THEN {} ELSE Under(d))
          \/ Keeps(TouchFolder(d))

\* The request that ErasePath or EraseFolder takes out, and what it was for.
PathErased ==
    IF work \in Range(m_pathsToUpdate) THEN {d \in Dirs : Serves("paths", work, d)} ELSE {}
FolderErased ==
    IF added /\ work \in Range(m_foldersToUpdate) THEN Visited(work) ELSE {}

CarefulStep ==
    \/ Wait \/ LoopTop \/ NoTimedoutBlock \/ NothingLeft
    \/ PopPath \/ CheckPath \/ RefreshFolder \/ RefreshMember
    \/ PopFolder \/ CheckFolder \/ CrawlFolder \/ FetchError

\* The crawler gives up the requests it takes out again, a folder that is gone
\* and one with an error that blocks nothing.
Crawler ==
    \/ Keeps(CarefulStep)
    \/ \E b \in DOMAIN noWatch : Forgets(RemoveTimedoutBlock(b), UnblockedBeside(b))
    \/ Forgets(ErasePath, PathErased)
    \/ Forgets(EraseFolder, FolderErased)
    \/ Forgets(RefreshMissing \/ CrawlMissing, Visited(work))
    \/ Forgets(FetchLost, IF pc = "member" THEN {Fetching} ELSE Visited(Fetching))

Next ==
    \/ Crawler
    \/ \E d \in Versioned : Forgets(UnBlockPath(d), UnblockedBeside(d))
    \/ Keeps(Command) \/ Keeps(Stop) \/ Keeps(StopReturns) \/ Keeps(Time)
    \/ ChangeReported
    \/ \E t \in Shells : Keeps(Request(t))
    \/ \E t \in Threads : Keeps(Caller(t))

Spec == Init /\ [][Next]_vars

\* The crawler, the threads that call it and the main thread go on, and the
\* hold-off and block times pass; nobody has to ask, to block or to stop.
FairSpec ==
    /\ Spec
    /\ WF_vars(Crawler) /\ WF_vars(Keeps(StopReturns)) /\ WF_vars(Keeps(Time))
    /\ \A t \in Threads : WF_vars(Keeps(Caller(t)))

-----------------------------------------------------------------------------
Places == {"wait", "loop", "blocks", "sizes", "paths", "check", "refresh", "member", "erase",
           "folders", "crawlcheck", "crawl", "crawlerase", "end"}

\* A thread outside the crawler, and one that is in it; only the shell, which
\* asks for folders, leaves an inhibitor.
CallStates ==
    {[at |-> "idle"], [at |-> "leave"]} \union
    [at : {"check", "push", "set"}, queue : {"paths"}, path : Paths, shell : {FALSE}] \union
    [at : {"check", "push", "set"}, queue : {"folders"}, path : Dirs, shell : BOOLEAN]

\* The type invariant.
TypeOK ==
    /\ m_pathsToUpdate \in Seq(Paths) /\ m_foldersToUpdate \in Seq(Dirs)
    /\ added \in BOOLEAN /\ wake \in BOOLEAN /\ m_bRun \in BOOLEAN
    /\ guarded \in BOOLEAN
    /\ holdoff \in BOOLEAN /\ first \in BOOLEAN /\ released \in BOOLEAN
    /\ inhibit \in 0 .. Cardinality(Threads)
    /\ blocked \in Dirs \union {NoPath}
    /\ DOMAIN noWatch \subseteq Versioned /\ Range(noWatch) \subseteq {"timed", "over"}
    /\ pc \in Places /\ work \in Paths \union {NoPath}
    /\ call \in [Threads -> CallStates]
    /\ exists \subseteq Dirs /\ gone \subseteq Files /\ dbChanged \subseteq Databases
    /\ cached \subseteq Dirs /\ stale \subseteq cached /\ lost \subseteq stale
    /\ calls \in 0 .. MaxCalls /\ failures \in 0 .. MaxFailures

\* The crawler does not sleep on work: when it waits and a queue is not empty,
\* the event is set or the thread that queued last is about to set it.  The
\* sizes are read without the lock at FolderCrawler.cpp:177, and the event is
\* set after the lock is left, at lines 92 and 104.
NoSleepOnWork ==
    (pc = "wait" /\ m_bRun /\ (m_pathsToUpdate # <<>> \/ m_foldersToUpdate # <<>>))
        => wake \/ \E t \in Threads : call[t].at = "set"

\* A cached status that is older than the disk is not forgotten: the folder is
\* blocked (and the end of the block crawls it), a request that leads to it is
\* queued or on its way, or the crawler is at it.  The exceptions, recorded in
\* lost folder by folder, are what a request was for that is taken out again
\* (FolderCrawler.cpp:283, 321 and 397), the rest of the working copy when its
\* block ends together with that of one folder (SVNStatusCache.cpp:357), a
\* folder that is gone when it is refreshed or crawled, a deleted folder
\* without an entry of its own (:477, where the entries below it stay), the
\* folder of a deleted file (FolderCrawler.cpp:323-329), and a failure of
\* svn_client_status that blocks nothing (CachedDirectory.cpp:582-587).
NoChangeForgotten ==
    \A d \in stale \ lost : Covered(d)

\* The folders the crawler still owes a new status.
Unrenewed == {d \in stale \ lost : IsPathGood(d)}

\* The cache catches up with the disk: after the last change, unless the crawler
\* is stopped, no folder that is not blocked keeps a status that is older, but
\* for the changes that were given up; through hold-offs and through blocks of
\* the crawler's own.  The shell has to leave it some time: whoever asks for
\* ever renews the hold-off and the inhibitor (FolderCrawler.cpp:147-163).
ChangesReachCache ==
    <>[](inhibit = 0) => []<>(Unrenewed = {} \/ ~m_bRun)

\* Stop ends the crawler, wherever it is, although the main thread holds the
\* guard and gives up waiting after four seconds (FolderCrawler.cpp:53).
StopEndsCrawler == ~m_bRun ~> pc = "end"

=============================================================================
