------------------------ MODULE CachedDirectoryProofs ------------------------
(***************************************************************************)
(* Proofs about CachedDirectory, for any files, threads and bounds.        *)
(***************************************************************************)
EXTENDS CachedDirectory, TLAPS

(* m_fetchingStatus is set while one thread is between the test of it and  *)
(* its end, and only then.                                                 *)
Fetching == {"context", "fetch", "fetched", "unfetched", "failed"}
SingleFetch ==
    /\ m_fetchingStatus <=> \E t \in Threads : pc[t] \in Fetching
    /\ \A t, u \in Threads : pc[t] \in Fetching /\ pc[u] \in Fetching => t = u

(* What a thread fetches is no older than the time the entries are valid   *)
(* for, or will be when a thread before it stores its time.                *)
SnapshotNew ==
    \A t \in Threads : pc[t] = "fetch" =>
       /\ snapshot[t] >= 1
       /\ snapshot[t] >= m_wcDbFileTime
       /\ \A u \in Threads : u = t \/ pc[u] \in {"store", "storeUnfetched"}
             => snapshot[t] >= dbFileTime[u]

(* The entries of a thread's fetch, while it fetches and until it stores   *)
(* its time.                                                               *)
FetchedNew ==
    /\ \A t \in Threads : pc[t] = "fetch" =>
          \A f \in exists \ toReport[t] : entry[f] > 0 => entry[f] >= snapshot[t]
    /\ \A t \in Threads : pc[t] \in {"fetched", "store"} =>
          \A f \in exists : entry[f] > 0 => entry[f] >= dbFileTime[t]

(* What the shell could be told about a file that is still to be fetched   *)
(* is no newer than the fetch.                                             *)
UnfetchedOld ==
    \A t \in Threads : pc[t] = "fetch" =>
       \A f \in Files \intersect toReport[t] :
          entry[f] <= snapshot[t] /\ answered[f] <= snapshot[t]

(* The inductive invariant.                                                *)
DirectoryInv ==
    /\ TypeOK
    /\ SingleFetch
    /\ SnapshotNew
    /\ FetchedNew
    /\ TagHonest
    /\ UnfetchedOld
    /\ NoOlderAnswer
    /\ OwnContext

-----------------------------------------------------------------------------
\* Every step keeps the types.
LEMMA TypeInductive ==
    ASSUME TypeOK, [Next]_vars
    PROVE  TypeOK'
<1> USE SelfAssumption, BoundsAssumption, ContextAssumption
    DEF TypeOK, Threads, Goto, Return, Answer, Continue, Begin, Versions, Absent, NoStatus,
        diskVars, dirVars, history
<1>1. CASE Change
  BY <1>1 DEF Change
<1>2. CASE NotifyChange
  BY <1>2 DEF NotifyChange
<1>3. CASE ParentAddsEntry
  BY <1>3 DEF ParentAddsEntry
<1>4. ASSUME NEW f \in Files, Delete(f) PROVE TypeOK'
  BY <1>4 DEF Delete
<1>5. ASSUME NEW t \in Threads, NEW f \in Files, Ask(t, f) PROVE TypeOK'
  BY <1>5 DEF Ask
<1>6. ASSUME NEW t \in Threads, RefreshStatus(t) PROVE TypeOK'
  <2>1. (ownSet \in BOOLEAN /\ m_fetchingStatus \in BOOLEAN /\ unfetched \in BOOLEAN)'
    BY <1>6, Zenon DEF RefreshStatus
  <2> QED
    BY <1>6, <2>1 DEF RefreshStatus
<1>7. ASSUME NEW t \in Threads, ReadTimes(t) PROVE TypeOK'
  BY <1>7 DEF ReadTimes
<1>8. ASSUME NEW t \in Threads, Lookup(t) PROVE TypeOK'
  BY <1>8 DEF Lookup
<1>9. ASSUME NEW t \in Threads, TimeChanged(t) PROVE TypeOK'
  <2>1. (ownSet \in BOOLEAN /\ m_fetchingStatus \in BOOLEAN /\ unfetched \in BOOLEAN)'
    BY <1>9, Zenon DEF TimeChanged
  <2> QED
    BY <1>9, <2>1 DEF TimeChanged
<1>10. ASSUME NEW t \in Threads, CheckFetching(t) PROVE TypeOK'
  BY <1>10 DEF CheckFetching
<1>11. ASSUME NEW t \in Threads, Clear(t) PROVE TypeOK'
  BY <1>11 DEF Clear
<1>12. ASSUME NEW t \in Threads, EnterFetch(t) PROVE TypeOK'
  <2>1. (ownSet \in BOOLEAN /\ m_fetchingStatus \in BOOLEAN /\ unfetched \in BOOLEAN)'
    BY <1>12, Zenon DEF EnterFetch
  <2> QED
    BY <1>12, <2>1 DEF EnterFetch
<1>13. ASSUME NEW t \in Threads, NEW f \in Files \union {Self}, AddEntry(t, f) PROVE TypeOK'
  BY <1>13 DEF AddEntry
<1>14. ASSUME NEW t \in Threads, FetchEnds(t) PROVE TypeOK'
  <2>1. (ownSet \in BOOLEAN /\ m_fetchingStatus \in BOOLEAN /\ unfetched \in BOOLEAN)'
    BY <1>14, Zenon DEF FetchEnds
  <2> QED
    BY <1>14, <2>1 DEF FetchEnds
<1>15. ASSUME NEW t \in Threads, Invalid(t) PROVE TypeOK'
  <2>1. (ownSet \in BOOLEAN /\ m_fetchingStatus \in BOOLEAN /\ unfetched \in BOOLEAN)'
    BY <1>15, Zenon DEF Invalid
  <2> QED
    BY <1>15, <2>1 DEF Invalid
<1>16. ASSUME NEW t \in Threads, StoreTime(t) PROVE TypeOK'
  BY <1>16 DEF StoreTime
<1>17. ASSUME NEW t \in Threads, ReturnEntry(t) PROVE TypeOK'
  BY <1>17 DEF ReturnEntry
<1>18. ASSUME NEW t \in Threads, CreateContext(t) PROVE TypeOK'
  BY <1>18 DEF CreateContext
<1>19. ASSUME NEW t \in Threads, LeaveFetch(t) PROVE TypeOK'
  BY <1>19 DEF LeaveFetch
<1>20. ASSUME NEW t \in Threads, AddEmptyEntry(t) PROVE TypeOK'
  BY <1>20 DEF AddEmptyEntry
<1>21. CASE UNCHANGED vars
  BY <1>21 DEF vars
<1> QED
  BY <1>1, <1>2, <1>3, <1>4, <1>5, <1>6, <1>7, <1>8, <1>9, <1>10, <1>11, <1>12, <1>13,
     <1>14, <1>15, <1>16, <1>17, <1>18, <1>19, <1>20, <1>21 DEF Next, Step

\* Every step keeps the invariant, which each of its parts needs.
LEMMA DirectoryInductive ==
    ASSUME DirectoryInv, [Next]_vars
    PROVE  DirectoryInv'
<1>0. TypeOK /\ TypeOK'
  BY TypeInductive DEF DirectoryInv
<1> USE SelfAssumption, ContextAssumption, <1>0
    DEF TypeOK, DirectoryInv, Threads, Goto, Return, Answer, Continue, Begin, Absent, NoStatus,
        diskVars, dirVars, history
<1>1. CASE Change
  <2>1. SingleFetch'
    BY <1>1 DEF Change, SingleFetch, Fetching
  <2>2. SnapshotNew'
    BY <1>1 DEF Change, SnapshotNew
  <2>3. FetchedNew'
    BY <1>1 DEF Change, FetchedNew
  <2>4. TagHonest'
    BY <1>1 DEF Change, TagHonest
  <2>5. UnfetchedOld'
    BY <1>1 DEF Change, UnfetchedOld
  <2>6. NoOlderAnswer'
    BY <1>1 DEF Change, NoOlderAnswer
  <2>7. OwnContext'
    BY <1>1 DEF Change, OwnContext, SingleFetch, Fetching
  <2> QED
    BY <2>1, <2>2, <2>3, <2>4, <2>5, <2>6, <2>7
<1>2. CASE NotifyChange
  <2>1. SingleFetch'
    BY <1>2 DEF NotifyChange, SingleFetch, Fetching
  <2>2. SnapshotNew'
    BY <1>2 DEF NotifyChange, SnapshotNew
  <2>3. FetchedNew'
    BY <1>2 DEF NotifyChange, FetchedNew
  <2>4. TagHonest'
    BY <1>2 DEF NotifyChange, TagHonest
  <2>5. UnfetchedOld'
    BY <1>2 DEF NotifyChange, UnfetchedOld
  <2>6. NoOlderAnswer'
    BY <1>2 DEF NotifyChange, NoOlderAnswer
  <2>7. OwnContext'
    BY <1>2 DEF NotifyChange, OwnContext, SingleFetch, Fetching
  <2> QED
    BY <2>1, <2>2, <2>3, <2>4, <2>5, <2>6, <2>7
<1>3. CASE ParentAddsEntry
  <2>1. SingleFetch'
    BY <1>3 DEF ParentAddsEntry, SingleFetch, Fetching
  <2>2. SnapshotNew'
    BY <1>3 DEF ParentAddsEntry, SnapshotNew
  <2>3. FetchedNew'
    BY <1>3 DEF ParentAddsEntry, FetchedNew
  <2>4. TagHonest'
    BY <1>3 DEF ParentAddsEntry, TagHonest
  <2>5. UnfetchedOld'
    BY <1>3 DEF ParentAddsEntry, UnfetchedOld
  <2>6. NoOlderAnswer'
    BY <1>3 DEF ParentAddsEntry, NoOlderAnswer
  <2>7. OwnContext'
    BY <1>3 DEF ParentAddsEntry, OwnContext, SingleFetch, Fetching
  <2> QED
    BY <2>1, <2>2, <2>3, <2>4, <2>5, <2>6, <2>7
<1>4. ASSUME NEW f \in Files, Delete(f) PROVE DirectoryInv'
  <2>1. SingleFetch'
    BY <1>4 DEF Delete, SingleFetch, Fetching
  <2>2. SnapshotNew'
    BY <1>4 DEF Delete, SnapshotNew
  <2>3. FetchedNew'
    BY <1>4 DEF Delete, FetchedNew
  <2>4. TagHonest'
    BY <1>4 DEF Delete, TagHonest
  <2>5. UnfetchedOld'
    BY <1>4 DEF Delete, UnfetchedOld
  <2>6. NoOlderAnswer'
    BY <1>4 DEF Delete, NoOlderAnswer
  <2>7. OwnContext'
    BY <1>4 DEF Delete, OwnContext, SingleFetch, Fetching
  <2> QED
    BY <2>1, <2>2, <2>3, <2>4, <2>5, <2>6, <2>7
<1>5. ASSUME NEW t \in Threads, NEW f \in Files, Ask(t, f) PROVE DirectoryInv'
  <2>1. SingleFetch'
    BY <1>5 DEF Ask, SingleFetch, Fetching
  <2>2. SnapshotNew'
    BY <1>5 DEF Ask, SnapshotNew
  <2>3. FetchedNew'
    BY <1>5 DEF Ask, FetchedNew
  <2>4. TagHonest'
    BY <1>5 DEF Ask, TagHonest
  <2>5. UnfetchedOld'
    BY <1>5 DEF Ask, UnfetchedOld
  <2>6. NoOlderAnswer'
    BY <1>5 DEF Ask, NoOlderAnswer
  <2>7. OwnContext'
    BY <1>5 DEF Ask, OwnContext, SingleFetch, Fetching
  <2> QED
    BY <2>1, <2>2, <2>3, <2>4, <2>5, <2>6, <2>7
<1>6. ASSUME NEW t \in Threads, RefreshStatus(t) PROVE DirectoryInv'
  <2>1. SingleFetch'
    BY <1>6 DEF RefreshStatus, SingleFetch, Fetching
  <2>2. SnapshotNew'
    BY <1>6 DEF RefreshStatus, SnapshotNew
  <2>3. FetchedNew'
    BY <1>6 DEF RefreshStatus, FetchedNew
  <2>4. TagHonest'
    BY <1>6 DEF RefreshStatus, TagHonest
  <2>5. UnfetchedOld'
    BY <1>6 DEF RefreshStatus, UnfetchedOld
  <2>6. NoOlderAnswer'
    BY <1>6 DEF RefreshStatus, NoOlderAnswer
  <2>7. OwnContext'
    BY <1>6 DEF RefreshStatus, OwnContext, SingleFetch, Fetching
  <2> QED
    BY <2>1, <2>2, <2>3, <2>4, <2>5, <2>6, <2>7
<1>7. ASSUME NEW t \in Threads, ReadTimes(t) PROVE DirectoryInv'
  <2>1. SingleFetch'
    BY <1>7 DEF ReadTimes, SingleFetch, Fetching
  <2>2. SnapshotNew'
    BY <1>7 DEF ReadTimes, SnapshotNew
  <2>3. FetchedNew'
    BY <1>7 DEF ReadTimes, FetchedNew
  <2>4. TagHonest'
    BY <1>7 DEF ReadTimes, TagHonest
  <2>5. UnfetchedOld'
    BY <1>7 DEF ReadTimes, UnfetchedOld
  <2>6. NoOlderAnswer'
    BY <1>7 DEF ReadTimes, NoOlderAnswer
  <2>7. OwnContext'
    BY <1>7 DEF ReadTimes, OwnContext, SingleFetch, Fetching
  <2> QED
    BY <2>1, <2>2, <2>3, <2>4, <2>5, <2>6, <2>7
<1>8. ASSUME NEW t \in Threads, Lookup(t) PROVE DirectoryInv'
  <2>1. SingleFetch'
    BY <1>8 DEF Lookup, SingleFetch, Fetching
  <2>2. SnapshotNew'
    BY <1>8 DEF Lookup, SnapshotNew
  <2>3. FetchedNew'
    BY <1>8 DEF Lookup, FetchedNew
  <2>4. TagHonest'
    BY <1>8 DEF Lookup, TagHonest
  <2>5. UnfetchedOld'
    BY <1>8 DEF Lookup, UnfetchedOld
  <2>6. NoOlderAnswer'
    BY <1>8 DEF Lookup, NoOlderAnswer
  <2>7. OwnContext'
    BY <1>8 DEF Lookup, OwnContext, SingleFetch, Fetching
  <2> QED
    BY <2>1, <2>2, <2>3, <2>4, <2>5, <2>6, <2>7
<1>9. ASSUME NEW t \in Threads, TimeChanged(t) PROVE DirectoryInv'
  <2>1. SingleFetch'
    BY <1>9 DEF TimeChanged, SingleFetch, Fetching
  <2>2. SnapshotNew'
    BY <1>9 DEF TimeChanged, SnapshotNew
  <2>3. FetchedNew'
    BY <1>9 DEF TimeChanged, FetchedNew
  <2>4. TagHonest'
    BY <1>9 DEF TimeChanged, TagHonest
  <2>5. UnfetchedOld'
    BY <1>9 DEF TimeChanged, UnfetchedOld
  <2>6. NoOlderAnswer'
    BY <1>9 DEF TimeChanged, NoOlderAnswer
  <2>7. OwnContext'
    BY <1>9 DEF TimeChanged, OwnContext, SingleFetch, Fetching
  <2> QED
    BY <2>1, <2>2, <2>3, <2>4, <2>5, <2>6, <2>7
<1>10. ASSUME NEW t \in Threads, CheckFetching(t) PROVE DirectoryInv'
  <2>1. SingleFetch'
    BY <1>10 DEF CheckFetching, SingleFetch, Fetching
  <2>2. SnapshotNew'
    BY <1>10 DEF CheckFetching, SnapshotNew
  <2>3. FetchedNew'
    BY <1>10 DEF CheckFetching, FetchedNew
  <2>4. TagHonest'
    BY <1>10 DEF CheckFetching, TagHonest
  <2>5. UnfetchedOld'
    BY <1>10 DEF CheckFetching, UnfetchedOld
  <2>6. NoOlderAnswer'
    BY <1>10 DEF CheckFetching, NoOlderAnswer
  <2>7. OwnContext'
    BY <1>10 DEF CheckFetching, OwnContext, SingleFetch, Fetching
  <2> QED
    BY <2>1, <2>2, <2>3, <2>4, <2>5, <2>6, <2>7
<1>11. ASSUME NEW t \in Threads, Clear(t) PROVE DirectoryInv'
  <2>1. SingleFetch'
    BY <1>11 DEF Clear, SingleFetch, Fetching
  <2>2. SnapshotNew'
    BY <1>11 DEF Clear, SnapshotNew
  <2>3. FetchedNew'
    BY <1>11 DEF Clear, FetchedNew
  <2>4. TagHonest'
    BY <1>11 DEF Clear, TagHonest
  <2>5. UnfetchedOld'
    BY <1>11 DEF Clear, UnfetchedOld
  <2>6. NoOlderAnswer'
    BY <1>11 DEF Clear, NoOlderAnswer
  <2>7. OwnContext'
    BY <1>11 DEF Clear, OwnContext, SingleFetch, Fetching
  <2> QED
    BY <2>1, <2>2, <2>3, <2>4, <2>5, <2>6, <2>7
<1>12. ASSUME NEW t \in Threads, EnterFetch(t) PROVE DirectoryInv'
  <2>1. SingleFetch'
    BY <1>12 DEF EnterFetch, SingleFetch, Fetching
  <2>2. SnapshotNew'
    BY <1>12 DEF EnterFetch, SnapshotNew
  <2>3. FetchedNew'
    BY <1>12 DEF EnterFetch, FetchedNew
  <2>4. TagHonest'
    BY <1>12 DEF EnterFetch, TagHonest
  <2>5. UnfetchedOld'
    BY <1>12 DEF EnterFetch, UnfetchedOld
  <2>6. NoOlderAnswer'
    BY <1>12 DEF EnterFetch, NoOlderAnswer
  <2>7. OwnContext'
    BY <1>12 DEF EnterFetch, OwnContext, SingleFetch, Fetching
  <2> QED
    BY <2>1, <2>2, <2>3, <2>4, <2>5, <2>6, <2>7
<1>13. ASSUME NEW t \in Threads, NEW f \in Files \union {Self}, AddEntry(t, f) PROVE DirectoryInv'
  <2>1. SingleFetch'
    BY <1>13 DEF AddEntry, SingleFetch, Fetching
  <2>2. SnapshotNew'
    BY <1>13 DEF AddEntry, SnapshotNew
  <2>3. FetchedNew'
    BY <1>13 DEF AddEntry, FetchedNew, SingleFetch, SnapshotNew, Fetching
  <2>4. TagHonest'
    BY <1>13 DEF AddEntry, TagHonest, SnapshotNew
  <2>5. UnfetchedOld'
    BY <1>13 DEF AddEntry, UnfetchedOld, SingleFetch, Fetching
  <2>6. NoOlderAnswer'
    BY <1>13 DEF AddEntry, NoOlderAnswer, UnfetchedOld
  <2>7. OwnContext'
    BY <1>13 DEF AddEntry, OwnContext, SingleFetch, Fetching
  <2> QED
    BY <2>1, <2>2, <2>3, <2>4, <2>5, <2>6, <2>7
<1>14. ASSUME NEW t \in Threads, FetchEnds(t) PROVE DirectoryInv'
  <2>1. SingleFetch'
    BY <1>14 DEF FetchEnds, SingleFetch, Fetching
  <2>2. SnapshotNew'
    BY <1>14 DEF FetchEnds, SnapshotNew, SingleFetch, Fetching
  <2>3. FetchedNew'
    BY <1>14 DEF FetchEnds, FetchedNew, SingleFetch, SnapshotNew, Fetching
  <2>4. TagHonest'
    BY <1>14 DEF FetchEnds, TagHonest
  <2>5. UnfetchedOld'
    BY <1>14 DEF FetchEnds, UnfetchedOld
  <2>6. NoOlderAnswer'
    BY <1>14 DEF FetchEnds, NoOlderAnswer
  <2>7. OwnContext'
    BY <1>14 DEF FetchEnds, OwnContext, SingleFetch, Fetching
  <2> QED
    BY <2>1, <2>2, <2>3, <2>4, <2>5, <2>6, <2>7
<1>15. ASSUME NEW t \in Threads, Invalid(t) PROVE DirectoryInv'
  <2>1. SingleFetch'
    BY <1>15 DEF Invalid, SingleFetch, Fetching
  <2>2. SnapshotNew'
    BY <1>15 DEF Invalid, SnapshotNew
  <2>3. FetchedNew'
    BY <1>15 DEF Invalid, FetchedNew
  <2>4. TagHonest'
    BY <1>15 DEF Invalid, TagHonest
  <2>5. UnfetchedOld'
    BY <1>15 DEF Invalid, UnfetchedOld
  <2>6. NoOlderAnswer'
    BY <1>15 DEF Invalid, NoOlderAnswer
  <2>7. OwnContext'
    BY <1>15 DEF Invalid, OwnContext, SingleFetch, Fetching
  <2> QED
    BY <2>1, <2>2, <2>3, <2>4, <2>5, <2>6, <2>7
<1>16. ASSUME NEW t \in Threads, StoreTime(t) PROVE DirectoryInv'
  <2>1. SingleFetch'
    BY <1>16 DEF StoreTime, SingleFetch, Fetching
  <2>2. SnapshotNew'
    BY <1>16 DEF StoreTime, SnapshotNew
  <2>3. FetchedNew'
    BY <1>16 DEF StoreTime, FetchedNew
  <2>4. TagHonest'
    BY <1>16 DEF StoreTime, TagHonest, FetchedNew
  <2>5. UnfetchedOld'
    BY <1>16 DEF StoreTime, UnfetchedOld
  <2>6. NoOlderAnswer'
    BY <1>16 DEF StoreTime, NoOlderAnswer
  <2>7. OwnContext'
    BY <1>16 DEF StoreTime, OwnContext, SingleFetch, Fetching
  <2> QED
    BY <2>1, <2>2, <2>3, <2>4, <2>5, <2>6, <2>7
<1>17. ASSUME NEW t \in Threads, ReturnEntry(t) PROVE DirectoryInv'
  <2>1. SingleFetch'
    BY <1>17 DEF ReturnEntry, SingleFetch, Fetching
  <2>2. SnapshotNew'
    BY <1>17 DEF ReturnEntry, SnapshotNew
  <2>3. FetchedNew'
    BY <1>17 DEF ReturnEntry, FetchedNew
  <2>4. TagHonest'
    BY <1>17 DEF ReturnEntry, TagHonest
  <2>5. UnfetchedOld'
    BY <1>17 DEF ReturnEntry, UnfetchedOld
  <2>6. NoOlderAnswer'
    BY <1>17 DEF ReturnEntry, NoOlderAnswer
  <2>7. OwnContext'
    BY <1>17 DEF ReturnEntry, OwnContext, SingleFetch, Fetching
  <2> QED
    BY <2>1, <2>2, <2>3, <2>4, <2>5, <2>6, <2>7
<1>18. ASSUME NEW t \in Threads, CreateContext(t) PROVE DirectoryInv'
  <2>1. SingleFetch'
    BY <1>18 DEF CreateContext, SingleFetch, Fetching
  <2>2. SnapshotNew'
    BY <1>18 DEF CreateContext, SnapshotNew, SingleFetch, Fetching
  <2>3. FetchedNew'
    BY <1>18 DEF CreateContext, FetchedNew, SingleFetch, Fetching
  <2>4. TagHonest'
    BY <1>18 DEF CreateContext, TagHonest, SingleFetch, Fetching
  <2>5. UnfetchedOld'
    BY <1>18 DEF CreateContext, UnfetchedOld, SingleFetch, Fetching
  <2>6. NoOlderAnswer'
    BY <1>18 DEF CreateContext, NoOlderAnswer, SingleFetch, Fetching
  <2>7. OwnContext'
    BY <1>18 DEF CreateContext, OwnContext, SingleFetch, Fetching
  <2> QED
    BY <2>1, <2>2, <2>3, <2>4, <2>5, <2>6, <2>7
<1>19. ASSUME NEW t \in Threads, LeaveFetch(t) PROVE DirectoryInv'
  <2>1. SingleFetch'
    BY <1>19 DEF LeaveFetch, SingleFetch, Fetching
  <2>2. SnapshotNew'
    BY <1>19 DEF LeaveFetch, SnapshotNew, SingleFetch, Fetching
  <2>3. FetchedNew'
    BY <1>19 DEF LeaveFetch, FetchedNew, SingleFetch, Fetching
  <2>4. TagHonest'
    BY <1>19 DEF LeaveFetch, TagHonest, SingleFetch, Fetching
  <2>5. UnfetchedOld'
    BY <1>19 DEF LeaveFetch, UnfetchedOld, SingleFetch, Fetching
  <2>6. NoOlderAnswer'
    BY <1>19 DEF LeaveFetch, NoOlderAnswer, SingleFetch, Fetching
  <2>7. OwnContext'
    BY <1>19 DEF LeaveFetch, OwnContext, SingleFetch, Fetching
  <2> QED
    BY <2>1, <2>2, <2>3, <2>4, <2>5, <2>6, <2>7
<1>20. ASSUME NEW t \in Threads, AddEmptyEntry(t) PROVE DirectoryInv'
  <2>1. SingleFetch'
    BY <1>20 DEF AddEmptyEntry, SingleFetch, Fetching
  <2>2. SnapshotNew'
    BY <1>20 DEF AddEmptyEntry, SnapshotNew, SingleFetch, Fetching
  <2>3. FetchedNew'
    BY <1>20 DEF AddEmptyEntry, FetchedNew, SingleFetch, Fetching
  <2>4. TagHonest'
    BY <1>20 DEF AddEmptyEntry, TagHonest, SingleFetch, Fetching
  <2>5. UnfetchedOld'
    BY <1>20 DEF AddEmptyEntry, UnfetchedOld, SingleFetch, Fetching
  <2>6. NoOlderAnswer'
    BY <1>20 DEF AddEmptyEntry, NoOlderAnswer, SingleFetch, Fetching
  <2>7. OwnContext'
    BY <1>20 DEF AddEmptyEntry, OwnContext, SingleFetch, Fetching
  <2> QED
    BY <2>1, <2>2, <2>3, <2>4, <2>5, <2>6, <2>7
<1>21. CASE UNCHANGED vars
  BY <1>21 DEF vars, SingleFetch, SnapshotNew, FetchedNew, TagHonest, UnfetchedOld,
     NoOlderAnswer, OwnContext
<1> QED
  BY <1>1, <1>2, <1>3, <1>4, <1>5, <1>6, <1>7, <1>8, <1>9, <1>10,
     <1>11, <1>12, <1>13, <1>14, <1>15, <1>16, <1>17, <1>18, <1>19, <1>20, <1>21
  DEF Next, Step

\* At the start nothing is cached, fetched or answered.
LEMMA DirectoryInit == Init => DirectoryInv
<1> SUFFICES ASSUME Init PROVE DirectoryInv
  OBVIOUS
<1> USE SelfAssumption, BoundsAssumption DEF Init, Absent
<1>1. TypeOK
  <2>1. ownSet \in BOOLEAN /\ m_fetchingStatus \in BOOLEAN /\ unfetched \in BOOLEAN
    BY Zenon
  <2>2. db \in Versions /\ known \in 1 .. db /\ m_wcDbFileTime \in 0 .. known
    BY DEF Versions
  <2>3. calls \in 0 .. MaxCalls
    OBVIOUS
  <2>4. answered \in [Files -> 0 .. db] /\ entry \in [Files \union {Self} -> Absent .. db]
    OBVIOUS
  <2>5. /\ pc \in [Threads -> {"idle", "times", "lookup", "changed", "check", "clear", "enter",
                              "context", "fetch", "fetched", "unfetched", "failed",
                              "invalid", "store", "storeUnfetched", "return", "add"}]
        /\ path \in [Threads -> Files \union {Self}]
        /\ dbFileTime \in [Threads -> 0 .. known] /\ snapshot \in [Threads -> 0 .. db]
        /\ toReport \in [Threads -> SUBSET (Files \union {Self})]
    OBVIOUS
  <2> QED
    BY <2>1, <2>2, <2>3, <2>4, <2>5 DEF TypeOK
<1>2. SingleFetch /\ SnapshotNew /\ FetchedNew /\ UnfetchedOld /\ OwnContext
  BY DEF SingleFetch, Fetching, SnapshotNew, FetchedNew, UnfetchedOld, OwnContext
<1>3. TagHonest /\ NoOlderAnswer
  BY DEF TagHonest, NoOlderAnswer
<1> QED
  BY <1>1, <1>2, <1>3 DEF DirectoryInv

\* So the invariant holds in every state.
LEMMA DirectoryInvariant == Spec => []DirectoryInv
  BY DirectoryInit, DirectoryInductive, PTL DEF Spec

-----------------------------------------------------------------------------
(* One thread fetches, and m_fetchingStatus says so (CachedDirectory.cpp,   *)
(* SvnUpdateMembersStatus): a flag left set would freeze the folder.       *)
THEOREM FetchIsSingle == Spec => [](TypeOK /\ SingleFetch)
<1>1. DirectoryInv => TypeOK /\ SingleFetch
  BY DEF DirectoryInv
<1> QED
  BY <1>1, DirectoryInvariant, PTL

(* No entry of an existing file is older than m_wcDbFileTime, although     *)
(* GetStatusForMember reads the time before the fetch and stores it after  *)
(* it (CachedDirectory.cpp:220, 406), while other threads do the same.     *)
THEOREM TagIsHonest == Spec => []TagHonest
<1>1. DirectoryInv => TagHonest
  BY DEF DirectoryInv
<1> QED
  BY <1>1, DirectoryInvariant, PTL

(* The shell is never told an older status of a file after a newer one,    *)
(* although GetStatusForMember answers from entries that are being cleared *)
(* and fetched.                                                            *)
THEOREM AnswersAdvance == Spec => []NoOlderAnswer
<1>1. DirectoryInv => NoOlderAnswer
  BY DEF DirectoryInv
<1> QED
  BY <1>1, DirectoryInvariant, PTL

(* A fetch never uses, or lets its callbacks use, the client context of     *)
(* another one, which may be destroyed already (CachedDirectory.cpp:515,    *)
(* 535-537, 663), although all threads share m_pCtx.                        *)
THEOREM ContextIsOwn == Spec => []OwnContext
<1>1. DirectoryInv => OwnContext
  BY DEF DirectoryInv
<1> QED
  BY <1>1, DirectoryInvariant, PTL
=============================================================================
