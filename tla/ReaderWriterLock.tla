-------------------------- MODULE ReaderWriterLock --------------------------
(***************************************************************************)
(* CReaderWriterLock and the CReaderWriterLockNonReentrance it is built on *)
(* (Utils/ReaderWriterLock), the lock that guards the status cache and the *)
(* lists of the dialogs.                                                   *)
(*                                                                         *)
(* A section between EnterCS and LeaveCS is one action.  Threads wait      *)
(* outside of it, on two events that are created when the first waiter     *)
(* comes and closed when the last one goes: m_hSafeToWriteEvent resets     *)
(* itself when it releases a thread, m_hSafeToReadEvent does not.  A wait  *)
(* returns in a step of its own, so that everything may happen between it  *)
(* and the next EnterCS.                                                   *)
(***************************************************************************)
EXTENDS Integers, FiniteSets

CONSTANTS
    Threads,
    MaxNest     \* bound on the nesting of one thread's locks of a kind

ASSUME ThreadsAssumption == IsFiniteSet(Threads)
ASSUME NestAssumption == MaxNest \in Nat \ {0}

VARIABLES
    numOfWriter,     \* m_iNumOfWriter: the owner and the waiting writers
    readerEntered,   \* m_iNumOfReaderEntered
    readerWaiting,   \* m_iNumOfReaderWaiting
    writeEvent,      \* m_hSafeToWriteEvent: "none", "reset" or "set"
    readEvent,       \* m_hSafeToReadEvent
    reads, writes,   \* m_map: the two halves of each thread's counter
    pc,              \* where in a call the thread is, "idle" outside of one
    timed            \* the call has a timeout

implVars == <<numOfWriter, readerEntered, readerWaiting, writeEvent, readEvent>>
vars == <<implVars, reads, writes, pc, timed>>

Events == {"none", "reset", "set"}

InMap(t) == reads[t] + writes[t] > 0

Add(f, t, d) == [f EXCEPT ![t] = @ + d]

Goto(t, place) == pc' = [pc EXCEPT ![t] = place]

\* SetEvent, if there is an event.
SetIfOpen(e) == IF e = "none" THEN "none" ELSE "set"

CreateIfNone(e) == IF e = "none" THEN "reset" ELSE e

-----------------------------------------------------------------------------
(***************************************************************************)
(* Readers.                                                                *)
(***************************************************************************)

\* _ReaderWait up to its first LeaveCS; WaitForSingleObject follows.
ReaderWait(t, place) ==
    /\ readerWaiting' = readerWaiting + 1
    /\ readEvent' = CreateIfNone(readEvent)
    /\ Goto(t, place)

\* Mutant: readers enter although a writer waits.
AcquireReaderLockBarging(t, timeout) ==
    /\ pc[t] = "idle" /\ reads[t] < MaxNest
    /\ reads' = Add(reads, t, 1)
    /\ readerEntered' = IF InMap(t) THEN readerEntered ELSE readerEntered + 1
    /\ InMap(t) \/ (writeEvent # "set" /\ \A u \in Threads : writes[u] = 0)
    /\ UNCHANGED <<numOfWriter, readerWaiting, writeEvent, readEvent, writes, pc, timed>>

\* A thread that has the lock only counts; without writers it gets it at once;
\* otherwise it waits.  (A timeout of zero fails without a trace.)
AcquireReaderLock(t, timeout) ==
    /\ pc[t] = "idle" /\ reads[t] < MaxNest
    /\ \/ /\ InMap(t)
          /\ reads' = Add(reads, t, 1)
          /\ UNCHANGED <<implVars, pc, timed>>
       \/ /\ ~InMap(t) /\ numOfWriter = 0
          /\ readerEntered' = readerEntered + 1
          /\ reads' = Add(reads, t, 1)
          /\ UNCHANGED <<numOfWriter, readerWaiting, writeEvent, readEvent, pc, timed>>
       \/ /\ ~InMap(t) /\ numOfWriter # 0
          /\ ReaderWait(t, "readWait")
          /\ timed' = [timed EXCEPT ![t] = timeout]
          /\ UNCHANGED <<numOfWriter, readerEntered, writeEvent, reads>>
    /\ UNCHANGED writes

\* WaitForSingleObject (m_hSafeToReadEvent) returns: signalled, or timed out.
ReaderWake(t) ==
    /\ \/ pc[t] = "readWait" /\ readEvent = "set" /\ Goto(t, "readWoken")
       \/ pc[t] = "readWait" /\ timed[t] /\ Goto(t, "readTimedOut")
       \/ pc[t] = "backWait" /\ readEvent = "set" /\ Goto(t, "backWoken")
    /\ UNCHANGED <<implVars, reads, writes, timed>>

\* The end of _ReaderWait: the last one closes the event.
LeaveReaderWait ==
    /\ readerWaiting' = readerWaiting - 1
    /\ readEvent' = IF readerWaiting = 1 THEN "none" ELSE readEvent

\* Mutant: a reader that was woken does not look for writers again.
ReaderEnterUnchecked(t) ==
    /\ pc[t] \in {"readWoken", "readTimedOut"}
    /\ readerEntered' = readerEntered + 1
    /\ reads' = Add(reads, t, 1)
    /\ LeaveReaderWait
    /\ Goto(t, "idle")
    /\ UNCHANGED <<numOfWriter, writeEvent, writes, timed>>

\* Back in the critical section there are no writers: the reader enters,
\* even if its time is over.
ReaderEnter(t) ==
    /\ pc[t] \in {"readWoken", "readTimedOut"}
    /\ numOfWriter = 0
    /\ readerEntered' = readerEntered + 1
    /\ reads' = Add(reads, t, 1)
    /\ LeaveReaderWait
    /\ Goto(t, "idle")
    /\ UNCHANGED <<numOfWriter, writeEvent, writes, timed>>

\* A writer came first: wait again, or find the time to be over.
ReaderRetry(t) ==
    /\ pc[t] = "readWoken"
    /\ numOfWriter # 0
    /\ \/ Goto(t, "readWait")
       \/ timed[t] /\ Goto(t, "readExpired")
    /\ UNCHANGED <<implVars, reads, writes, timed>>

\* The time is over; "readExpired" does not look for writers any more.
ReaderGiveUp(t) ==
    /\ \/ pc[t] = "readTimedOut" /\ numOfWriter # 0
       \/ pc[t] = "readExpired"
    /\ LeaveReaderWait
    /\ Goto(t, "idle")
    /\ UNCHANGED <<numOfWriter, readerEntered, writeEvent, reads, writes, timed>>

\* Mutant: the last reader does not signal the writers.
ReaderReleaseSilent ==
    /\ readerEntered' = readerEntered - 1
    /\ UNCHANGED <<numOfWriter, readerWaiting, writeEvent, readEvent>>

\* _ReaderRelease
ReaderRelease ==
    /\ readerEntered' = readerEntered - 1
    /\ writeEvent' = IF readerEntered = 1 THEN SetIfOpen(writeEvent) ELSE writeEvent
    /\ UNCHANGED <<numOfWriter, readerWaiting, readEvent>>

ReleaseReaderLock(t) ==
    /\ pc[t] = "idle" /\ reads[t] > 0
    /\ reads' = Add(reads, t, -1)
    /\ IF reads[t] + writes[t] = 1 THEN ReaderRelease ELSE UNCHANGED implVars
    /\ UNCHANGED <<writes, pc, timed>>

-----------------------------------------------------------------------------
(***************************************************************************)
(* Writers.                                                                *)
(***************************************************************************)

\* _WriterWaitAndLeaveCSIfSuccess up to its LeaveCS.
WriterWait(t, timeout) ==
    /\ numOfWriter' = numOfWriter + 1
    /\ readEvent' = IF numOfWriter = 0 /\ readEvent # "none" THEN "reset" ELSE readEvent
    /\ writeEvent' = CreateIfNone(writeEvent)
    /\ Goto(t, "writeWait")
    /\ timed' = [timed EXCEPT ![t] = timeout]

\* A thread that has the write lock only counts; a lock nobody has is taken
\* at once.
AcquireWriterLock(t, timeout) ==
    /\ pc[t] = "idle" /\ writes[t] < MaxNest
    /\ \/ /\ writes[t] > 0
          /\ writes' = Add(writes, t, 1)
          /\ UNCHANGED <<implVars, pc, timed>>
       \/ /\ ~InMap(t) /\ numOfWriter = 0 /\ readerEntered = 0
          /\ numOfWriter' = 1
          /\ writes' = Add(writes, t, 1)
          /\ UNCHANGED <<readerEntered, readerWaiting, writeEvent, readEvent, pc, timed>>
       \/ /\ ~InMap(t) /\ (numOfWriter # 0 \/ readerEntered # 0)
          /\ WriterWait(t, timeout)
          /\ UNCHANGED <<readerEntered, readerWaiting, writes>>
    /\ UNCHANGED reads

\* AcquireWriterLock of the only reader: it overtakes the waiting writers.
UpgradeAtOnce(t) ==
    /\ pc[t] = "idle" /\ reads[t] > 0 /\ writes[t] = 0
    /\ readerEntered = 1
    /\ readerEntered' = 0
    /\ numOfWriter' = numOfWriter + 1
    /\ writes' = Add(writes, t, 1)
    /\ UNCHANGED <<readerWaiting, writeEvent, readEvent, reads, pc, timed>>

\* AcquireWriterLock of one of several readers, _UpgradeToWriterLockAndLeaveCS:
\* it stops being a reader and waits as a writer; m_map keeps its entry.
UpgradeByWaiting(t, timeout) ==
    /\ pc[t] = "idle" /\ reads[t] > 0 /\ writes[t] = 0
    /\ readerEntered > 1
    /\ readerEntered' = readerEntered - 1
    /\ WriterWait(t, timeout)
    /\ UNCHANGED <<readerWaiting, reads, writes>>

\* Mutant: the event behaves as a manual-reset one.
WriterWakeManualReset(t) ==
    /\ pc[t] = "writeWait" /\ writeEvent = "set"
    /\ Goto(t, "writeWoken")
    /\ UNCHANGED <<implVars, reads, writes, timed>>

\* The wait on m_hSafeToWriteEvent releases one thread and resets the event.
WriterWake(t) ==
    /\ pc[t] = "writeWait" /\ writeEvent = "set"
    /\ writeEvent' = "reset"
    /\ Goto(t, "writeWoken")
    /\ UNCHANGED <<numOfWriter, readerEntered, readerWaiting, readEvent, reads, writes, timed>>

WriterTimeout(t) ==
    /\ pc[t] = "writeWait" /\ timed[t]
    /\ Goto(t, "writeTimedOut")
    /\ UNCHANGED <<implVars, reads, writes, timed>>

\* The waiting writer has the lock and enters that in m_map.
WriterEnter(t) ==
    /\ pc[t] = "writeWoken"
    /\ writes' = Add(writes, t, 1)
    /\ Goto(t, "idle")
    /\ UNCHANGED <<implVars, reads, timed>>

\* A writer whose time is over undoes its wait.  As the last waiter of a lock
\* that became free meanwhile it is the writer after all; a former reader is
\* a reader again, for which it may have to wait.
WriterGiveUp(t) ==
    /\ pc[t] = "writeTimedOut"
    /\ \/ /\ numOfWriter = 1 /\ readerEntered = 0
          /\ writeEvent' = "none"
          /\ Goto(t, "writeWoken")
          /\ UNCHANGED <<numOfWriter, readerEntered, readerWaiting, readEvent>>
       \/ /\ numOfWriter = 1 /\ readerEntered # 0
          /\ numOfWriter' = 0
          /\ writeEvent' = "none"
          /\ readEvent' = SetIfOpen(readEvent)
          /\ readerEntered' = IF InMap(t) THEN readerEntered + 1 ELSE readerEntered
          /\ Goto(t, "idle")
          /\ UNCHANGED readerWaiting
       \/ /\ numOfWriter # 1
          /\ numOfWriter' = numOfWriter - 1
          /\ IF InMap(t) THEN ReaderWait(t, "backWait")
                         ELSE Goto(t, "idle") /\ UNCHANGED <<readerWaiting, readEvent>>
          /\ UNCHANGED <<readerEntered, writeEvent>>
    /\ UNCHANGED <<reads, writes, timed>>

\* The _ReaderWait of a failed upgrade ends; alone, the thread becomes the
\* writer it wanted to be.
UpgraderBack(t) ==
    /\ pc[t] = "backWoken"
    /\ \/ /\ numOfWriter # 0
          /\ Goto(t, "backWait")
          /\ UNCHANGED implVars
       \/ /\ numOfWriter = 0
          /\ LeaveReaderWait
          /\ UNCHANGED writeEvent
          /\ IF readerEntered = 0
             THEN /\ numOfWriter' = 1
                  /\ Goto(t, "writeWoken")
                  /\ UNCHANGED readerEntered
             ELSE /\ readerEntered' = readerEntered + 1
                  /\ Goto(t, "idle")
                  /\ UNCHANGED numOfWriter
    /\ UNCHANGED <<reads, writes, timed>>

\* _WriterRelease
WriterRelease(downgrade) ==
    /\ numOfWriter' = numOfWriter - 1
    /\ readerEntered' = IF downgrade THEN readerEntered + 1 ELSE readerEntered
    /\ IF numOfWriter = 1
       THEN /\ writeEvent' = "none"
            /\ readEvent' = SetIfOpen(readEvent)
       ELSE /\ writeEvent' = IF downgrade THEN writeEvent ELSE "set"
            /\ UNCHANGED readEvent
    /\ UNCHANGED readerWaiting

ReleaseWriterLock(t) ==
    /\ pc[t] = "idle" /\ writes[t] > 0
    /\ writes' = Add(writes, t, -1)
    /\ IF writes[t] = 1 THEN WriterRelease(reads[t] > 0) ELSE UNCHANGED implVars
    /\ UNCHANGED <<reads, pc, timed>>

ReleaseAllLocks(t) ==
    /\ pc[t] = "idle" /\ InMap(t)
    /\ reads' = [reads EXCEPT ![t] = 0]
    /\ writes' = [writes EXCEPT ![t] = 0]
    /\ IF writes[t] > 0 THEN WriterRelease(FALSE) ELSE ReaderRelease
    /\ UNCHANGED <<pc, timed>>

-----------------------------------------------------------------------------
Init ==
    /\ numOfWriter = 0 /\ readerEntered = 0 /\ readerWaiting = 0
    /\ writeEvent = "none" /\ readEvent = "none"
    /\ reads = [t \in Threads |-> 0]
    /\ writes = [t \in Threads |-> 0]
    /\ pc = [t \in Threads |-> "idle"]
    /\ timed = [t \in Threads |-> FALSE]

Acquire(t) ==
    \E timeout \in BOOLEAN :
       \/ AcquireReaderLock(t, timeout)
       \/ AcquireWriterLock(t, timeout)
       \/ UpgradeByWaiting(t, timeout)
       \/ UpgradeAtOnce(t)

\* The steps of a call that has to wait.
Waiting(t) ==
    \/ ReaderWake(t)
    \/ ReaderEnter(t)
    \/ ReaderRetry(t)
    \/ ReaderGiveUp(t)
    \/ WriterWake(t)
    \/ WriterTimeout(t)
    \/ WriterEnter(t)
    \/ WriterGiveUp(t)
    \/ UpgraderBack(t)

Release(t) ==
    \/ ReleaseReaderLock(t)
    \/ ReleaseWriterLock(t)
    \/ ReleaseAllLocks(t)

Next == \E t \in Threads : Acquire(t) \/ Waiting(t) \/ Release(t)

Spec == Init /\ [][Next]_vars

-----------------------------------------------------------------------------
Places == {"idle", "readWait", "readWoken", "readTimedOut", "readExpired", "writeWait",
           "writeWoken", "writeTimedOut", "backWait", "backWoken"}

TypeOK ==
    /\ numOfWriter \in Nat /\ readerEntered \in Nat /\ readerWaiting \in Nat
    /\ writeEvent \in Events /\ readEvent \in Events
    /\ reads \in [Threads -> 0 .. MaxNest]
    /\ writes \in [Threads -> 0 .. MaxNest]
    /\ pc \in [Threads -> Places]
    /\ timed \in [Threads -> BOOLEAN]

\* The threads by what they own or wait for.
WriteOwners == {t \in Threads : writes[t] > 0 \/ pc[t] = "writeWoken"}
WriteWaiters == {t \in Threads : pc[t] \in {"writeWait", "writeTimedOut"}}
ReadOwners == {t \in Threads : reads[t] > 0 /\ writes[t] = 0 /\ pc[t] = "idle"}
ReadWaiters == {t \in Threads : pc[t] \in {"readWait", "readWoken", "readTimedOut", "readExpired",
                                           "backWait", "backWoken"}}

(* "either concurrent read access for multiple threads, or write access    *)
(* for a single thread", whatever upgrades, downgrades and timeouts are    *)
(* under way.                                                              *)
MutualExclusion ==
    \A t \in WriteOwners : WriteOwners = {t} /\ ReadOwners = {}

(* The three counters, from which every grant is decided, count exactly    *)
(* the threads that own the lock or wait for it, although an upgrade, a    *)
(* failed upgrade and a downgrade move a thread from one to another.       *)
CountersAgree ==
    /\ numOfWriter = Cardinality(WriteOwners) + Cardinality(WriteWaiters)
    /\ readerEntered = Cardinality(ReadOwners)
    /\ readerWaiting = Cardinality(ReadWaiters)

(* The handle a thread reads after LeaveCS is open until it stops waiting, *)
(* and the last one closes it: the destructor's assertion that both events *)
(* are gone holds when nobody uses the lock.                               *)
HandlesOpen ==
    /\ readEvent # "none" <=> ReadWaiters # {}
    /\ WriteWaiters # {} => writeEvent # "none"
    /\ writeEvent # "none" => WriteWaiters \cup WriteOwners # {}

(* A free lock is never slept on: if nobody owns it, then a waiting writer *)
(* finds the write event set, also if another waiter timed out when it was *)
(* being signalled; without writers the readers' event is set.             *)
NoSleepOnFreeLock ==
    /\ WriteWaiters # {} /\ WriteOwners = {} /\ ReadOwners = {} => writeEvent = "set"
    /\ ReadWaiters # {} /\ numOfWriter = 0 => readEvent = "set"

(***************************************************************************)
(* The abstract lock.                                                      *)
(***************************************************************************)
Holding(t) ==
    IF t \in WriteOwners THEN "write" ELSE IF t \in ReadOwners THEN "read" ELSE "none"

Abstract == INSTANCE SharedLock WITH holds <- [t \in Threads |-> Holding(t)]

(* The counters and events implement the abstract lock: each step grants   *)
(* or gives up the access of one thread, and none turns read access into   *)
(* write access while another thread reads.                                *)
ImplementsSharedLock == Abstract!Spec

-----------------------------------------------------------------------------
(***************************************************************************)
(* Liveness.  A thread that may run does; the locks are held by the CAuto  *)
(* classes over bounded scopes, so a thread that holds some has given all  *)
(* of them back some time later (in one step here, in whatever order it    *)
(* took and released nested ones before); the wait list of an event is     *)
(* served in order, so a waiting thread gets the event if it is signalled  *)
(* again and again.                                                        *)
(***************************************************************************)
Fairness ==
    \A t \in Threads :
       /\ WF_vars(Waiting(t))
       /\ SF_vars(ReleaseAllLocks(t))
       /\ SF_vars(WriterWake(t))

FairSpec == Spec /\ Fairness

(* "this helps protect writers against indefinite blockage by readers":    *)
(* every waiting writer, and every reader that waits for its upgrade, gets *)
(* its answer, however many readers and writers come and go.  (Only a      *)
(* reader whose upgrade timed out may go on waiting: it wants its read     *)
(* access back, without a timeout, and every writer comes first.)          *)
WritersAnswered ==
    \A t \in Threads :
       pc[t] = "writeWait" /\ (timed[t] => ~InMap(t)) ~> pc[t] = "idle"

=============================================================================
