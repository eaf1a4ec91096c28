-------------------------- MODULE DirectoryWatcher --------------------------
(***************************************************************************)
(* CDirectoryWatcher (TSVNCache/DirectoryWatcher): a worker thread waits   *)
(* on a completion port for changes below the watched directories, while   *)
(* the other threads of the cache add and remove paths and close all       *)
(* handles (a drive is to be removed).                                     *)
(*                                                                         *)
(* Every section under m_critSec is one action, except the worker's loop   *)
(* over the watched paths: it keeps the lock from one path to the next but *)
(* lets go of it while it calls RegisterDeviceNotification.                *)
(*                                                                         *)
(* A path is a sequence of names, the first one being the drive.  A        *)
(* CDirWatchInfo is "mapped" (in watchInfoMap), "condemned" (in            *)
(* infoToDelete) or "free" (not allocated).  While the worker is at        *)
(* "register" it holds a directory open (hDir) that is in no info yet.     *)
(***************************************************************************)
EXTENDS Integers, Sequences, SequencesExt, FiniteSets, Subsequences

CONSTANTS
    PathOrder,      \* the paths, in the order CTSVNPathList sorts them
    NamePrefix,     \* pairs of names of which the first is a prefix of the second
    Versioned,      \* the paths SVNHelper::IsVersioned accepts
    Gone,           \* the paths CreateFile may fail for
    ReadMayFail,    \* whether CreateIoCompletionPort, ReadDirectoryChangesW may
    Infos,          \* CDirWatchInfo objects
    NoInfo,
    MaxCalls        \* bound on the calls of other threads

Paths == Range(PathOrder)

ASSUME WatcherAssumption ==
    /\ PathOrder \in Seq(Paths)
    /\ \A p \in Paths : p \in Seq(Range(p))
    /\ Versioned \subseteq Paths
    /\ Gone \subseteq Paths
    /\ NoInfo \notin Infos /\ IsFiniteSet(Infos)
    /\ MaxCalls \in Nat
    /\ \A p \in Paths : p # <<>>

VARIABLES
    watchedPaths, blockedPath,
    life,           \* of each info: "free", "mapped", "condemned"
    dirName,        \* m_dirName
    open,           \* the infos whose m_hDir is open
    reading,        \* the infos with a pending ReadDirectoryChangesW
    dirty,          \* the infos with changes to be delivered
    port,           \* the completion port exists
    missed,         \* history: the map was cleared while hDir was open
    cleaned,        \* m_bCleaned
    running,        \* m_bRunning
    object,         \* the watcher: "alive", "cleared" by its destructor, "gone"
    pc, locked,     \* the worker, and whether it has m_critSec
    pdi, bRet,      \* its locals in the notification branch
    i, current, numPaths, numWatch,  \* and in the restart branch
    calls

infoVars == <<life, dirName, open, reading, dirty>>
listVars == <<watchedPaths, blockedPath>>
loopVars == <<i, current, numPaths, numWatch>>
vars == <<listVars, infoVars, port, missed, cleaned, running, object, pc, locked, pdi, bRet,
          loopVars, calls>>

IsAncestorOf(p, q) == IsPrefix(p, q)

Mapped == {k \in Infos : life[k] = "mapped"}
Covers(list, p) == \E k \in DOMAIN list : IsAncestorOf(list[k], p)

-----------------------------------------------------------------------------
(***************************************************************************)
(* The infos.                                                              *)
(***************************************************************************)

\* CloseWatchHandles: closing the directories aborts the pending reads.
CloseWatchHandles ==
    /\ open' = open \ Mapped
    /\ reading' = reading \ Mapped
    /\ dirty' = dirty \ Mapped
    /\ port' = FALSE

\* Mutant: the infos are forgotten with their handles open.
ClearInfoMapOnly ==
    /\ missed' = (pc = "register")
    /\ life' = [k \in Infos |-> IF k \in Mapped THEN "condemned" ELSE life[k]]
    /\ port' = FALSE
    /\ UNCHANGED <<dirName, open, reading, dirty>>

\* ClearInfoMap, and the end of CloseInfoMap and CloseHandlesForPath, as other
\* threads do it: hDir is not closed.
ClearInfos ==
    /\ CloseWatchHandles
    /\ missed' = (pc = "register")
    /\ life' = [k \in Infos |-> IF k \in Mapped THEN "condemned" ELSE life[k]]
    /\ UNCHANGED dirName

\* Mutant: the infos are deleted and m_bCleaned does not tell.
ClearAndCleanupSilent ==
    /\ CloseWatchHandles
    /\ life' = [k \in Infos |-> "free"]
    /\ UNCHANGED <<dirName, cleaned>>

\* ClearInfoMap followed by CleanupWatchInfo.
ClearAndCleanup ==
    /\ CloseWatchHandles
    /\ life' = [k \in Infos |-> "free"]
    /\ cleaned' = TRUE
    /\ UNCHANGED dirName

CleanupWatchInfo ==
    /\ life' = [k \in Infos |-> IF life[k] = "condemned" THEN "free" ELSE life[k]]
    /\ cleaned' = TRUE
    /\ UNCHANGED <<dirName, open, reading, dirty>>

-----------------------------------------------------------------------------
(***************************************************************************)
(* The calls of other threads.                                             *)
(***************************************************************************)

\* The watcher exists.
Exists == object = "alive" /\ pc # "crashed"

ACall ==
    /\ Exists /\ ~locked
    /\ calls < MaxCalls
    /\ calls' = calls + 1
    /\ UNCHANGED <<cleaned, object, pc, locked, pdi, bRet, loopVars>>

\* The root AddPath derives from a path and one that is watched: the path
\* itself above it, or the part up to a name that is a prefix of the other
\* path's name at that place (which need not be above both).
NewRoots(path, watched) ==
    (IF IsAncestorOf(path, watched) /\ path # watched THEN {path} ELSE {}) \cup
    {SubSeq(path, 1, n) : n \in {m \in 1 .. Len(path) - 1 :
        /\ m <= Len(watched)
        /\ SubSeq(path, 1, m - 1) = SubSeq(watched, 1, m - 1)
        /\ <<path[m], watched[m]>> \in NamePrefix}} \cup
    {SubSeq(watched, 1, n) : n \in {m \in 1 .. Len(watched) - 1 :
        /\ m <= Len(path)
        /\ SubSeq(path, 1, m - 1) = SubSeq(watched, 1, m - 1)
        /\ <<watched[m], path[m]>> \in NamePrefix}}

\* The list as SortByPathname leaves it (equal paths end up side by side, and
\* std::unique keeps one of them).
SortByPathname(list) == Omit(PathOrder, Paths \ Range(list))

\* Mutant: a path whose string begins like the one before counts as a child.
RemoveAlike(list) ==
    LET sorted == SortByPathname(list)
        Alike(p, q) == \/ IsAncestorOf(p, q)
                       \/ /\ Len(p) <= Len(q) /\ IsAncestorOf(Front(p), q)
                          /\ <<Last(p), q[Len(p)]>> \in NamePrefix
        kept == Ascending({k \in DOMAIN sorted : ~\E m \in 1 .. k - 1 :
                              \A j \in m + 1 .. k : Alike(sorted[m], sorted[j])})
    IN [n \in DOMAIN kept |-> sorted[kept[n]]]

\* CTSVNPathList::RemoveChildren: std::unique drops a path that is below the
\* last one it kept, which is then above everything from there on.  A path
\* that sorts between a directory and its children ("C:\a1" between "C:\a"
\* and "C:\a\x") saves them.
RemoveChildren(list) ==
    LET sorted == SortByPathname(list)
        kept == Ascending({k \in DOMAIN sorted : ~\E m \in 1 .. k - 1 :
                              \A j \in m + 1 .. k : IsAncestorOf(sorted[m], sorted[j])})
    IN [n \in DOMAIN kept |-> sorted[kept[n]]]

\* The list after AddPath; the last watched path with a new root decides.
ListWith(path) ==
    LET with == {k \in DOMAIN watchedPaths : NewRoots(path, watchedPaths[k]) # {}}
        last == CHOOSE k \in with : \A m \in with : m <= k
        root == CHOOSE r \in NewRoots(path, watchedPaths[last]) : TRUE
    IN IF with # {} /\ root \in Versioned
       THEN RemoveChildren(Append(watchedPaths, root))
       ELSE IF path \in Versioned THEN Append(watchedPaths, path) ELSE watchedPaths

AddPath(path, closeInfoMap) ==
    /\ ACall
    /\ blockedPath = <<>> \/ ~IsAncestorOf(blockedPath, path)
    /\ ~Covers(watchedPaths, path)
    /\ watchedPaths' = ListWith(path)
    /\ IF closeInfoMap /\ watchedPaths' # watchedPaths
       THEN ClearInfos ELSE UNCHANGED <<infoVars, port, missed>>
    /\ UNCHANGED <<blockedPath, running>>

Without(path) == Omit(watchedPaths, {p \in Paths : IsAncestorOf(path, p)})

RemovePathAndChildren(path) ==
    /\ ACall
    /\ watchedPaths' = Without(path)
    /\ UNCHANGED <<blockedPath, infoVars, port, missed, running>>

ClearInfoMap ==
    /\ ACall
    /\ ClearInfos
    /\ UNCHANGED <<listVars, running>>

GetRootPath(path) == SubSeq(path, 1, 1)

\* CloseInfoMap (hDir): the drive of the directory is given up for a while.
CloseInfoMap(k) ==
    /\ ACall
    /\ k \in Mapped
    /\ LET root == GetRootPath(dirName[k])
       IN watchedPaths' = Without(root) /\ blockedPath' = root
    /\ ClearInfos
    /\ UNCHANGED running

\* CloseHandlesForPath: every watched directory below path is given up, the
\* last one remains blocked.
CloseHandlesForPath(path) ==
    /\ ACall
    /\ LET below == {dirName[k] : k \in {m \in Mapped : IsAncestorOf(path, dirName[m])}}
       IN /\ watchedPaths' =
                Omit(watchedPaths, {p \in Paths : \E q \in below : IsAncestorOf(q, p)})
          /\ IF below = {} THEN UNCHANGED blockedPath ELSE blockedPath' \in below
    /\ ClearInfos
    /\ UNCHANGED running

\* The four seconds of BlockPath are over.
BlockExpires ==
    /\ Exists
    /\ blockedPath # <<>>
    /\ blockedPath' = <<>>
    /\ UNCHANGED <<watchedPaths, infoVars, port, missed, cleaned, running, object, pc, locked,
                   pdi, bRet, loopVars, calls>>

\* The wait for the worker that follows ends after four seconds at the latest,
\* so that it restrains nothing here.
Stop ==
    /\ Exists /\ ~locked
    /\ running' = FALSE
    /\ CloseWatchHandles
    /\ UNCHANGED <<listVars, life, dirName, missed, cleaned, object, pc, locked, pdi, bRet,
                   loopVars, calls>>

\* The destructor after its Stop, under the lock, whatever the worker does:
\* ClearInfoMap and CleanupWatchInfo.
Destroy ==
    /\ Exists /\ ~locked
    /\ ~running
    /\ ClearAndCleanup
    /\ missed' = (pc = "register")
    /\ object' = "cleared"
    /\ UNCHANGED <<listVars, running, pc, locked, pdi, bRet, loopVars, calls>>

\* The members go, the lock among them.  What a worker that has not ended by
\* then does is undefined and not followed further.
MembersDestroyed ==
    /\ object = "cleared"
    /\ object' = "gone"
    /\ pc' = IF pc = "end" THEN "end" ELSE "crashed"
    /\ missed' = FALSE
    /\ UNCHANGED <<listVars, infoVars, port, cleaned, running, locked, pdi, bRet,
                   loopVars, calls>>

\* Something below a watched directory changes.
Change(k) ==
    /\ object # "gone"
    /\ k \in open \ dirty
    /\ dirty' = dirty \cup {k}
    /\ UNCHANGED <<listVars, life, dirName, open, reading, port, missed, cleaned, running, object,
                   pc, locked, pdi, bRet, loopVars, calls>>

-----------------------------------------------------------------------------
(***************************************************************************)
(* WorkerThread.                                                           *)
(***************************************************************************)

Goto(place) == pc' = place

\* The head of the loop.
Loop ==
    /\ pc = "loop"
    /\ IF running THEN CleanupWatchInfo /\ Goto("arm")
                  ELSE Goto("end") /\ UNCHANGED <<infoVars, cleaned>>
    /\ UNCHANGED <<listVars, port, missed, running, locked, pdi, bRet, loopVars, object, calls>>

\* Nothing to watch: Sleep (200) and start over.
Arm ==
    /\ pc = "arm"
    /\ IF watchedPaths = <<>>
       THEN Goto("loop") /\ UNCHANGED <<cleaned, pdi>>
       ELSE Goto("wait") /\ cleaned' = FALSE /\ pdi' = NoInfo
    /\ UNCHANGED <<listVars, infoVars, port, missed, running, locked, bRet, loopVars,
                   object, calls>>

\* GetQueuedCompletionStatus returns a completed read.
Dequeue ==
    /\ pc = "wait" /\ port
    /\ \E k \in dirty \cap reading :
          /\ pdi' = k
          /\ dirty' = dirty \ {k}
          /\ reading' = reading \ {k}
    /\ Goto(IF running THEN "got" ELSE "end")
    /\ UNCHANGED <<listVars, life, dirName, open, port, missed, cleaned, running, locked, bRet,
                   loopVars, object, calls>>

\* Mutant: GetQueuedCompletionStatus waits without a timeout.
RestartWithoutTimeout ==
    /\ pc = "wait" /\ ~port
    /\ IF running
       THEN /\ ClearAndCleanup
            /\ i' = 1
            /\ locked' = TRUE
            /\ Goto("watch")
       ELSE /\ Goto("end")
            /\ UNCHANGED <<infoVars, port, cleaned, i, locked>>
    /\ UNCHANGED <<listVars, missed, running, pdi, bRet, current, numPaths, numWatch,
                   object, calls>>

\* There is no port, or it was closed, or ten minutes have passed: begin to
\* watch everything again, with the lock held.
Restart ==
    /\ pc = "wait"
    /\ IF running
       THEN /\ ClearAndCleanup
            /\ i' = 1
            /\ locked' = TRUE
            /\ Goto("watch")
       ELSE /\ Goto("end")
            /\ UNCHANGED <<infoVars, port, cleaned, i, locked>>
    /\ UNCHANGED <<listVars, missed, running, pdi, bRet, current, numPaths, numWatch,
                   object, calls>>

RemovePath(path) == Omit(watchedPaths, {path})

\* The for loop is over, or the directory cannot be opened: it is not
\* watched any more, and the loop ends.
EndWatch ==
    /\ pc = "watch"
    /\ \/ i > Len(watchedPaths) /\ UNCHANGED watchedPaths
       \/ /\ i <= Len(watchedPaths) /\ watchedPaths[i] \in Gone
          /\ watchedPaths' = RemovePath(watchedPaths[i])
    /\ locked' = FALSE
    /\ Goto("loop")
    /\ UNCHANGED <<blockedPath, infoVars, port, missed, cleaned, running, pdi, bRet, loopVars,
                   object, calls>>

\* The directory is open (hDir); leave the lock to register for device events.
OpenDirectory ==
    /\ pc = "watch" /\ i <= Len(watchedPaths)
    /\ current' = watchedPaths[i]
    /\ numPaths' = Len(watchedPaths)
    /\ numWatch' = Cardinality(Mapped)
    /\ locked' = FALSE
    /\ Goto("register")
    /\ UNCHANGED <<listVars, infoVars, port, missed, cleaned, running, pdi, bRet, i,
                   object, calls>>

\* What the worker looks at when it has the lock again.  If it starts over,
\* hDir is closed.
CountsUnchanged == numPaths = Len(watchedPaths) /\ numWatch = Cardinality(Mapped)

Restarted ==
    /\ pc = "register" /\ ~CountsUnchanged
    /\ ClearAndCleanup
    /\ missed' = FALSE
    /\ Goto("loop")
    /\ UNCHANGED <<listVars, running, locked, pdi, bRet, loopVars, object, calls>>

\* Associate the directory with the port and start reading.
Watch ==
    /\ pc = "register" /\ CountsUnchanged
    /\ \E m \in Infos : life[m] = "free"
    /\ LET k == CHOOSE m \in Infos : life[m] = "free"   \* new CDirWatchInfo
       IN /\ life' = [life EXCEPT ![k] = "mapped"]
          /\ dirName' = [dirName EXCEPT ![k] = current]
          /\ open' = open \cup {k}
          /\ reading' = reading \cup {k}
    /\ port' = TRUE
    /\ missed' = FALSE
    /\ i' = i + 1
    /\ locked' = TRUE
    /\ Goto("watch")
    /\ UNCHANGED <<listVars, dirty, cleaned, running, pdi, bRet, current, numPaths, numWatch,
                   object, calls>>

\* One of the two calls fails.
WatchFails ==
    /\ pc = "register" /\ CountsUnchanged
    /\ ReadMayFail
    /\ ClearAndCleanup
    /\ missed' = FALSE
    /\ watchedPaths' = RemovePath(current)
    /\ Goto("loop")
    /\ UNCHANGED <<blockedPath, running, locked, pdi, bRet, loopVars, object, calls>>

\* Is anything watched at all?  Without the lock.
Look ==
    /\ pc = "got"
    /\ Goto(IF Mapped = {} THEN "loop" ELSE "notified")
    /\ UNCHANGED <<listVars, infoVars, port, missed, cleaned, running, locked, pdi, bRet, loopVars,
                   object, calls>>

\* Under the lock: drop the notification if the infos have been cleaned up or
\* this one has left the map, else read the buffer and start the next read.
Notified ==
    /\ pc = "notified"
    /\ cleaned' = FALSE
    /\ \/ /\ cleaned \/ pdi \notin open \/ life[pdi] # "mapped"
          /\ Goto("loop")
          /\ UNCHANGED <<reading, bRet>>
       \/ /\ ~cleaned /\ pdi \in open /\ life[pdi] = "mapped"
          /\ bRet' \in {TRUE, ~ReadMayFail}
          /\ reading' = IF bRet' THEN reading \cup {pdi} ELSE reading
          /\ Goto("report")
    /\ UNCHANGED <<listVars, life, dirName, open, dirty, port, missed, running, locked, pdi,
                   loopVars, object, calls>>

\* AddPathForUpdate for every path of the buffer, then CleanupWatchInfo.
Report ==
    /\ pc = "report"
    /\ CleanupWatchInfo
    /\ Goto(IF bRet THEN "loop" ELSE "failed")
    /\ UNCHANGED <<listVars, port, missed, running, locked, pdi, bRet, loopVars, object, calls>>

\* Mutant: the completion port stays open.
ReadFailedOnly ==
    /\ pc = "failed"
    /\ open' = open \ {pdi}
    /\ dirty' = dirty \ {pdi}
    /\ watchedPaths' = RemovePath(dirName[pdi])
    /\ Goto("loop")
    /\ UNCHANGED <<blockedPath, life, dirName, reading, port, missed, cleaned, running, locked,
                   pdi, bRet, loopVars, object, calls>>

\* The next read could not be started: give the directory up.  What happens
\* if the info has been deleted is undefined and not followed further.
ReadFailed ==
    /\ pc = "failed"
    /\ open' = open \ {pdi}
    /\ dirty' = dirty \ {pdi}
    /\ watchedPaths' = RemovePath(dirName[pdi])
    /\ port' = FALSE
    /\ Goto(IF life[pdi] = "free" THEN "crashed" ELSE "loop")
    /\ UNCHANGED <<blockedPath, life, dirName, reading, missed, cleaned, running, locked, pdi,
                   bRet, loopVars, object, calls>>

-----------------------------------------------------------------------------
Init ==
    /\ watchedPaths = <<>> /\ blockedPath = <<>>
    /\ life = [k \in Infos |-> "free"]
    /\ dirName = [k \in Infos |-> <<>>]
    /\ open = {} /\ reading = {} /\ dirty = {}
    /\ port = FALSE /\ missed = FALSE /\ cleaned = FALSE
    /\ running = TRUE /\ object = "alive"
    /\ pc = "loop" /\ locked = FALSE
    /\ pdi = NoInfo /\ bRet = TRUE
    /\ i = 1 /\ current = <<>> /\ numPaths = 0 /\ numWatch = 0
    /\ calls = 0

Worker ==
    \/ Loop \/ Arm \/ Dequeue \/ Restart \/ EndWatch \/ OpenDirectory \/ Restarted \/ Watch
    \/ WatchFails \/ Look \/ Notified \/ Report \/ ReadFailed

\* A call of another thread that adds or gives up paths.
Call ==
    \/ \E p \in Paths, close \in BOOLEAN : AddPath(p, close)
    \/ \E p \in Paths : RemovePathAndChildren(p) \/ CloseHandlesForPath(p)
    \/ \E k \in Infos : CloseInfoMap(k)
    \/ ClearInfoMap

Environment ==
    \/ Call
    \/ \E k \in Infos : Change(k)
    \/ BlockExpires
    \/ Stop
    \/ Destroy \/ MembersDestroyed

Next == Worker \/ Environment

Spec == Init /\ [][Next]_vars

-----------------------------------------------------------------------------
Places == {"loop", "arm", "wait", "watch", "register", "got", "notified", "report", "failed",
           "end", "crashed"}

TypeOK ==
    /\ watchedPaths \in Seq(Paths)
    /\ blockedPath \in Paths \cup {<<p[1]>> : p \in Paths} \cup {<<>>}
    /\ life \in [Infos -> {"free", "mapped", "condemned"}]
    /\ dirName \in [Infos -> Paths \cup {<<>>}]
    /\ open \subseteq Infos /\ reading \subseteq Infos /\ dirty \subseteq Infos
    /\ port \in BOOLEAN /\ missed \in BOOLEAN /\ cleaned \in BOOLEAN
    /\ running \in BOOLEAN /\ object \in {"alive", "cleared", "gone"}
    /\ pc \in Places /\ locked \in BOOLEAN
    /\ pdi \in Infos \cup {NoInfo} /\ bRet \in BOOLEAN
    /\ i \in Nat /\ numPaths \in Nat /\ numWatch \in Nat
    /\ current \in Paths \cup {<<>>}
    /\ calls \in 0 .. MaxCalls

(* Closing the handles (so that a drive can be removed) reaches every      *)
(* directory that is in an info, and no info is deleted while the system   *)
(* may still write to its buffer.  It does not reach the directory the     *)
(* worker has open while it registers for device events: that one is       *)
(* closed as soon as the worker has the lock again, unless nothing had     *)
(* been watched yet when it was opened.  Then it is watched in spite of    *)
(* the closing, which is what the code does.                               *)
HandlesTracked ==
    /\ open \cup reading \subseteq Mapped
    /\ missed /\ CountsUnchanged => numWatch = 0

(* The info that came with a completion has not been deleted when the      *)
(* worker looks at it, unless m_bCleaned says so, although other threads   *)
(* cleared the map since and the destructor may have deleted the infos     *)
(* without waiting for the worker.                                         *)
NotifiedInfoExists == pc = "notified" /\ ~cleaned => life[pdi] # "free"

(* While the worker sleeps on the port, every directory it believes to     *)
(* watch is open and has a read pending: none has silently gone deaf.      *)
NobodyDeaf == pc = "wait" /\ port => Mapped \subseteq open \cap reading

(* AddPath keeps covering what was covered when it replaces watched paths  *)
(* by a new root.                                                          *)
AddPathUncoversNothing ==
    [][(\E p \in Paths, close \in BOOLEAN : AddPath(p, close)) =>
          \A q \in Paths : Covers(watchedPaths, q) => Covers(watchedPaths', q)]_vars

(***************************************************************************)
(* Liveness: the worker goes on.  The wait for a completion ends after ten *)
(* minutes, RegisterDeviceNotification returns.                            *)
(***************************************************************************)
FairSpec == Spec /\ WF_vars(Worker)

Watches(p) == \E k \in open \cap reading : IsAncestorOf(dirName[k], p)

Served(p) == Watches(p) \/ ~Covers(watchedPaths, p) \/ ~running \/ pc = "crashed"

\* From some time on nothing changes below what is watched, and no thread
\* adds or gives up paths.
QuietAtLast == <>[][~Call /\ \A k \in Infos : ~Change(k)]_vars

(* Every path on the list is watched eventually, unless it is taken off    *)
(* the list or the watcher ends, whatever AddPath and the closing of       *)
(* handles did to the loop that was about to watch it: once there are ten  *)
(* minutes without a change or a call.  Until then a path added to a port  *)
(* in use may wait for ever, because each change begins a new wait of ten  *)
(* minutes, and so may a path whose neighbour on the list was replaced     *)
(* during the loop, because the loop only compares the number of paths.    *)
EventuallyWatched ==
    QuietAtLast => \A p \in Paths : Covers(watchedPaths, p) ~> Served(p)
=============================================================================
