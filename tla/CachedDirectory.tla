--------------------------- MODULE CachedDirectory ---------------------------
(***************************************************************************)
(* One folder of the status cache (TSVNCache/CachedDirectory.cpp): the     *)
(* cached statuses of its files and of itself, and the time of wc.db they  *)
(* are valid for.  Pipe threads ask for the status of a file on behalf of  *)
(* the shell and do not wait for a fetch (bFetch is false); the crawler    *)
(* refreshes the folder (bFetch is true).  All of them hold the guard of   *)
(* the cache for reading, so they run side by side; m_critSec only covers  *)
(* single accesses to the entries.                                         *)
(*                                                                         *)
(* A status is the version of the working copy it was read from.  The      *)
(* folder is in a working copy; the expiry of an entry and a changed file  *)
(* time are a choice of the lookup.                                        *)
(***************************************************************************)
EXTENDS Integers, FiniteSets

CONSTANTS Files,        \* the versioned files of the folder
          Shells,       \* pipe threads
          Crawlers,     \* threads that refresh the folder
          MaxVersion,   \* bound on the changes of the working copy
          MaxCalls      \* bound on the calls

ASSUME ThreadsAssumption ==
    /\ IsFiniteSet(Files)
    /\ IsFiniteSet(Shells \union Crawlers)
    /\ Shells \intersect Crawlers = {}
ASSUME BoundsAssumption == MaxVersion \in Nat \ {0} /\ MaxCalls \in Nat

Threads == Shells \union Crawlers
Self == "self"
NoContext == "none"
ASSUME SelfAssumption == Self \notin Files
ASSUME ContextAssumption == NoContext \notin Threads

Absent == -1  \* there is no entry; for the folder itself: its kind is unknown
NoStatus == 0 \* the entry has the status none
Versions == 1 .. MaxVersion

VARIABLES
    db,          \* the version of the working copy; the time of wc.db
    known,       \* the time CWCRoots has recorded
    exists,      \* the files on disk
    m_wcDbFileTime,
    entry,       \* m_entryCache, and m_ownStatus for Self
    ownSet,      \* m_ownStatus.m_bSet
    m_fetchingStatus,
    m_pCtx,      \* the client context: the thread that has created it, or none
    pc, path, dbFileTime, snapshot, toReport,  \* per thread
    answered,    \* history: the highest version the shell was told
    unfetched,   \* history: m_wcDbFileTime was stored though nothing was fetched
    calls

diskVars == <<db, known, exists>>
dirVars == <<m_wcDbFileTime, entry, ownSet, m_fetchingStatus, m_pCtx>>
history == <<answered, unfetched>>
vars == <<diskVars, dirVars, pc, path, dbFileTime, snapshot, toReport, history, calls>>

Goto(t, place) == pc' = [pc EXCEPT ![t] = place]
bFetch(t) == t \in Crawlers

Init ==
    /\ db = 1 /\ known = 1 /\ exists = Files
    /\ m_wcDbFileTime = 0
    /\ entry = [f \in Files \union {Self} |-> Absent] /\ ownSet = FALSE
    /\ m_fetchingStatus = FALSE /\ m_pCtx = NoContext
    /\ pc = [t \in Threads |-> "idle"] /\ path = [t \in Threads |-> Self]
    /\ dbFileTime = [t \in Threads |-> 0] /\ snapshot = [t \in Threads |-> 0]
    /\ toReport = [t \in Threads |-> {}]
    /\ answered = [f \in Files |-> 0] /\ unfetched = FALSE
    /\ calls = 0

-----------------------------------------------------------------------------
(* The working copy.                                                       *)

\* A commit, an update or a revert changes every status and the time of wc.db.
Change ==
    /\ db < MaxVersion
    /\ db' = db + 1
    /\ UNCHANGED <<known, exists, dirVars, pc, path, dbFileTime, snapshot, toReport, history,
                   calls>>

\* The same, and it takes away a file.
Delete(f) ==
    /\ db < MaxVersion /\ f \in exists
    /\ db' = db + 1
    /\ exists' = exists \ {f}
    /\ UNCHANGED <<known, dirVars, pc, path, dbFileTime, snapshot, toReport, history, calls>>

\* CWCRoots reads the time of wc.db: it is notified, or ten seconds have passed.
NotifyChange ==
    /\ known # db
    /\ known' = db
    /\ UNCHANGED <<db, exists, dirVars, pc, path, dbFileTime, snapshot, toReport, history,
                   calls>>

-----------------------------------------------------------------------------
(* GetStatusForMember.                                                     *)

\* The call returns.  What it tells about the file is remembered.
Return(t) ==
    /\ Goto(t, "idle")
    /\ path' = [path EXCEPT ![t] = Self]
    /\ dbFileTime' = [dbFileTime EXCEPT ![t] = 0]

Answer(t) ==
    /\ Return(t)
    /\ answered' = IF path[t] \in Files /\ entry[path[t]] > answered[path[t]]
                   THEN [answered EXCEPT ![path[t]] = entry[path[t]]]
                   ELSE answered

Continue(t, place) == Goto(t, place) /\ UNCHANGED <<path, dbFileTime, answered>>

\* A call begins: the shell asks for a file, the crawler refreshes a file
\* whose entry has expired.
Begin(t, p) ==
    /\ pc[t] = "idle" /\ calls < MaxCalls
    /\ calls' = calls + 1
    /\ path' = [path EXCEPT ![t] = p]
    /\ Goto(t, "times")

Ask(t, f) ==
    /\ Begin(t, f)
    /\ UNCHANGED <<diskVars, dirVars, dbFileTime, snapshot, toReport, history>>

\* The crawler invalidates the folder and refreshes it.
RefreshStatus(t) ==
    /\ Begin(t, Self)
    /\ ownSet' = FALSE
    /\ UNCHANGED <<diskVars, m_wcDbFileTime, entry, m_fetchingStatus, m_pCtx, dbFileTime,
                   snapshot, toReport, history>>

\* The times are compared.
ReadTimes(t) ==
    /\ pc[t] = "times"
    /\ dbFileTime' = [dbFileTime EXCEPT ![t] = known]
    /\ Goto(t, IF m_wcDbFileTime = known THEN "lookup" ELSE "changed")
    /\ UNCHANGED <<diskVars, dirVars, path, snapshot, toReport, history, calls>>

\* The cache is valid for this time: the entry is returned while the folder is
\* being fetched for somebody else, and when it is there and has not expired;
\* the folder's own status when it is set.
Lookup(t) ==
    /\ pc[t] = "lookup"
    /\ \/ /\ path[t] \in Files
          /\ (~bFetch(t) /\ m_fetchingStatus) \/ entry[path[t]] # Absent
          /\ Answer(t)
       \/ /\ path[t] = Self /\ ownSet /\ entry[Self] # Absent
          /\ Answer(t)
       \/ /\ path[t] \in Files => bFetch(t) \/ ~m_fetchingStatus
          /\ Continue(t, "check")
    /\ UNCHANGED <<diskVars, dirVars, snapshot, toReport, unfetched, calls>>

\* The time has changed: the shell is given what there is, and the folder is
\* left to the crawler; otherwise the entries are cleared, those another thread
\* is fetching as well.
TimeChanged(t) ==
    /\ pc[t] = "changed"
    /\ IF ~bFetch(t) /\ (m_fetchingStatus \/ m_wcDbFileTime # 0)
       THEN Answer(t) /\ UNCHANGED entry
       ELSE /\ entry' = [f \in DOMAIN entry |-> IF f = Self THEN entry[f] ELSE Absent]
            /\ Continue(t, "check")
    /\ UNCHANGED <<diskVars, m_wcDbFileTime, ownSet, m_fetchingStatus, m_pCtx, snapshot,
                   toReport, unfetched, calls>>

\* Somebody else may have begun to fetch.
CheckFetching(t) ==
    /\ pc[t] = "check"
    /\ IF ~bFetch(t) /\ m_fetchingStatus
       THEN Answer(t)
       ELSE Continue(t, "clear")
    /\ UNCHANGED <<diskVars, dirVars, snapshot, toReport, unfetched, calls>>

\* Everything is cleared; the folder's own status is set to none.
Clear(t) ==
    /\ pc[t] = "clear"
    /\ entry' = [f \in DOMAIN entry |->
                    IF f = Self /\ entry[Self] # Absent THEN NoStatus ELSE Absent]
    /\ ownSet' = TRUE
    /\ Goto(t, "enter")
    /\ UNCHANGED <<diskVars, m_wcDbFileTime, m_fetchingStatus, m_pCtx, path, dbFileTime,
                   snapshot, toReport, history, calls>>

\* Mutant: m_fetchingStatus is set but not tested.
EnterFetchAnyway(t) ==
    /\ pc[t] = "enter"
    /\ m_fetchingStatus' = TRUE
    /\ Goto(t, "context")
    /\ UNCHANGED <<diskVars, m_wcDbFileTime, entry, ownSet, m_pCtx, path, dbFileTime, snapshot,
                   toReport, history, calls>>

\* SvnUpdateMembersStatus: only one thread fetches, another returns without a
\* status and makes the cache invalid.
EnterFetch(t) ==
    /\ pc[t] = "enter"
    /\ IF m_fetchingStatus THEN Goto(t, "invalid") ELSE Goto(t, "context")
    /\ m_fetchingStatus' = TRUE
    /\ UNCHANGED <<diskVars, m_wcDbFileTime, entry, ownSet, m_pCtx, path, dbFileTime, snapshot,
                   toReport, history, calls>>

\* The fetch begins with a client context of its own, which the callbacks find
\* in m_pCtx.  Without a context nothing is fetched, which is no error; with
\* a path Subversion does not accept it is one.
CreateContext(t) ==
    /\ pc[t] = "context"
    /\ \/ /\ m_pCtx' = t
          /\ snapshot' = [snapshot EXCEPT ![t] = db]
          /\ toReport' = [toReport EXCEPT ![t] = exists \union {Self}]
          /\ Goto(t, "fetch")
       \/ /\ m_pCtx' = NoContext
          /\ Goto(t, "unfetched")
          /\ UNCHANGED <<snapshot, toReport>>
       \/ /\ Goto(t, "failed")
          /\ UNCHANGED <<m_pCtx, snapshot, toReport>>
    /\ UNCHANGED <<diskVars, m_wcDbFileTime, entry, ownSet, m_fetchingStatus, path, dbFileTime,
                   history, calls>>

\* GetStatusCallback and AddEntry, for one item: its status is read at some
\* time of the fetch.
AddEntry(t, f) ==
    /\ pc[t] = "fetch" /\ f \in toReport[t]
    /\ \E v \in snapshot[t] .. db : entry' = [entry EXCEPT ![f] = v]
    /\ ownSet' = (ownSet \/ f = Self)
    /\ toReport' = [toReport EXCEPT ![t] = @ \ {f}]
    /\ UNCHANGED <<diskVars, m_wcDbFileTime, m_fetchingStatus, m_pCtx, pc, path, dbFileTime,
                   snapshot, history, calls>>

\* The fetch ends, completely or with an error, and its context is destroyed.
FetchEnds(t) ==
    /\ pc[t] = "fetch"
    /\ m_pCtx' = NoContext
    /\ toReport' = [toReport EXCEPT ![t] = {}]
    /\ snapshot' = [snapshot EXCEPT ![t] = 0]
    /\ \/ toReport[t] = {} /\ Goto(t, "fetched")
       \/ Goto(t, "failed")
    /\ UNCHANGED <<diskVars, m_wcDbFileTime, entry, ownSet, m_fetchingStatus, path, dbFileTime,
                   history, calls>>

\* Others may fetch again.  The time is stored, except after an error.
LeaveFetch(t) ==
    /\ pc[t] \in {"fetched", "unfetched", "failed"}
    /\ m_fetchingStatus' = FALSE
    /\ Goto(t, CASE pc[t] = "fetched" -> "store"
                  [] pc[t] = "unfetched" -> "storeUnfetched"
                  [] pc[t] = "failed" -> "invalid")
    /\ UNCHANGED <<diskVars, m_wcDbFileTime, entry, ownSet, m_pCtx, path, dbFileTime, snapshot,
                   toReport, history, calls>>

\* There is no status: the cache is valid for no time.
Invalid(t) ==
    /\ pc[t] = "invalid"
    /\ m_wcDbFileTime' = 0
    /\ unfetched' = FALSE
    /\ Return(t)
    /\ UNCHANGED <<diskVars, entry, ownSet, m_fetchingStatus, m_pCtx, snapshot, toReport,
                   answered, calls>>

\* Mutant: the time is asked for again after the fetch.
StoreTimeAfter(t) ==
    /\ pc[t] \in {"store", "storeUnfetched"}
    /\ m_wcDbFileTime' = known
    /\ unfetched' = (pc[t] = "storeUnfetched")
    /\ Goto(t, "return")
    /\ UNCHANGED <<diskVars, entry, ownSet, m_fetchingStatus, m_pCtx, path, dbFileTime,
                   snapshot, toReport, answered, calls>>

\* The entries are valid for the time that was read before they were fetched.
StoreTime(t) ==
    /\ pc[t] \in {"store", "storeUnfetched"}
    /\ m_wcDbFileTime' = dbFileTime[t]
    /\ unfetched' = (pc[t] = "storeUnfetched")
    /\ Goto(t, "return")
    /\ UNCHANGED <<diskVars, entry, ownSet, m_fetchingStatus, m_pCtx, path, dbFileTime,
                   snapshot, toReport, answered, calls>>

\* The entry is returned; the lookup is not locked.
ReturnEntry(t) ==
    /\ pc[t] = "return"
    /\ IF path[t] \in Files /\ entry[path[t]] = Absent THEN Continue(t, "add") ELSE Answer(t)
    /\ UNCHANGED <<diskVars, dirVars, snapshot, toReport, unfetched, calls>>

\* A file without an entry gets one without a status, or loses the status
\* another thread has entered meanwhile.
AddEmptyEntry(t) ==
    /\ pc[t] = "add"
    /\ entry' = [entry EXCEPT ![path[t]] = NoStatus]
    /\ Return(t)
    /\ UNCHANGED <<diskVars, m_wcDbFileTime, ownSet, m_fetchingStatus, m_pCtx, snapshot,
                   toReport, history, calls>>

\* The fetch of the parent folder sets the own status of this one.
ParentAddsEntry ==
    /\ entry[Self] # db \/ ~ownSet
    /\ entry' = [entry EXCEPT ![Self] = db]
    /\ ownSet' = TRUE
    /\ UNCHANGED <<diskVars, m_wcDbFileTime, m_fetchingStatus, m_pCtx, pc, path, dbFileTime,
                   snapshot, toReport, history, calls>>

Step(t) ==
    \/ ReadTimes(t) \/ Lookup(t) \/ TimeChanged(t) \/ CheckFetching(t) \/ Clear(t)
    \/ EnterFetch(t) \/ CreateContext(t) \/ FetchEnds(t) \/ LeaveFetch(t) \/ Invalid(t)
    \/ StoreTime(t) \/ ReturnEntry(t) \/ AddEmptyEntry(t)
    \/ \E f \in Files \union {Self} : AddEntry(t, f)

Next ==
    \/ Change \/ NotifyChange \/ ParentAddsEntry
    \/ \E f \in Files : Delete(f)
    \/ \E t \in Threads, f \in Files : Ask(t, f)
    \/ \E t \in Crawlers : RefreshStatus(t)
    \/ \E t \in Threads : Step(t)

Spec == Init /\ [][Next]_vars

-----------------------------------------------------------------------------
\* The type invariant; no time is ahead of the one CWCRoots knows, and no
\* status ahead of the working copy.
TypeOK ==
    /\ db \in Versions /\ known \in 1 .. db /\ exists \subseteq Files
    /\ m_wcDbFileTime \in 0 .. known
    /\ entry \in [Files \union {Self} -> Absent .. db]
    /\ ownSet \in BOOLEAN /\ m_fetchingStatus \in BOOLEAN /\ unfetched \in BOOLEAN
    /\ m_pCtx \in Threads \union {NoContext}
    /\ pc \in [Threads -> {"idle", "times", "lookup", "changed", "check", "clear", "enter",
                           "context", "fetch", "fetched", "unfetched", "failed", "invalid",
                           "store", "storeUnfetched", "return", "add"}]
    /\ path \in [Threads -> Files \union {Self}]
    /\ dbFileTime \in [Threads -> 0 .. known] /\ snapshot \in [Threads -> 0 .. db]
    /\ toReport \in [Threads -> SUBSET (Files \union {Self})]
    /\ answered \in [Files -> 0 .. db]
    /\ calls \in 0 .. MaxCalls

\* m_wcDbFileTime does not promise too much: no entry is older than the time
\* the entries are taken to be valid for, although the time is read before
\* the fetch, stored after it and not protected (CachedDirectory.cpp:220, 406).
\* The entry of a deleted file may be left from an earlier fetch, and so may
\* all entries when the time is stored though there was no client context to
\* fetch them with (:539-547): another thread's fetch may have entered them
\* after they were cleared for this one.
TagHonest ==
    ~unfetched => \A f \in exists : entry[f] > 0 => entry[f] >= m_wcDbFileTime

\* A file's entry does not go back in time: the shell is not told an older
\* status after it was told a newer one (CachedDirectory.cpp:395).
NoOlderAnswer ==
    \A f \in Files : entry[f] > 0 => entry[f] >= answered[f]

\* The callbacks of a fetch find the context of their own fetch in m_pCtx,
\* which belongs to the folder and not to the fetch, is overwritten by the
\* next one and destroyed at the end (CachedDirectory.cpp:515, 535-537, 663).
OwnContext == \A t \in Threads : pc[t] = "fetch" => m_pCtx = t

=============================================================================
