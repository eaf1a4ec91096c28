---------------------------- MODULE JobScheduler ----------------------------
(***************************************************************************)
(* CJobScheduler and its shared CThreadPool (AsyncFramework/JobScheduler), *)
(* with the CThread objects they drive (AsyncFramework/Thread).            *)
(*                                                                         *)
(* Actors are the worker threads (an SThreadInfo and its CThread) and the  *)
(* client threads that call the public methods.  A critical section of a   *)
(* scheduler is one step up to its next use of the pool, which has a lock  *)
(* of its own; mutex[s] names the actor that holds the scheduler's lock    *)
(* between two such steps.  No pool method acquires another lock, so each  *)
(* is one step, except where a thread is joined with the pool's lock held  *)
(* (poolMutex).                                                            *)
(*                                                                         *)
(* The thread vectors are sets: threads are interchangeable, and which one *)
(* is at the back is left open.  The buffer behind the queue is the        *)
(* subject of JobQueue; here it is the sequence JobDeque promises.         *)
(***************************************************************************)
EXTENDS Integers, Sequences, FiniteSets, SequencesExt

CONSTANTS
    Schedulers, Workers, Clients, Jobs, None,
    ThreadCount,      \* [Schedulers -> Nat], the constructor's arguments
    SharedThreads,    \* [Schedulers -> Nat]
    Aggressive,       \* [Schedulers -> BOOLEAN]
    Fifo,             \* [Schedulers -> BOOLEAN]
    HWThreadCount,    \* GetHWThreadCount
    Preconstructed,   \* schedulers that exist from the start
    WaitingJobs,      \* jobs that call WaitForSomeJobs while they execute
    Services,         \* optional services the clients use, see Service
    Watermarks,       \* arguments of RemoveJobFromQueue
    SharedCounts,     \* arguments of SetSharedThreadCount
    MaxStops          \* bound on the stop counter, per scheduler

Actors == Workers \cup Clients

ASSUME ActorAssumption ==
    /\ Workers \cap Clients = {}
    /\ None \notin Actors \cup Schedulers \cup Jobs
ASSUME ConstructorAssumption ==
    /\ ThreadCount \in [Schedulers -> Nat]
    /\ SharedThreads \in [Schedulers -> Nat]
    /\ Aggressive \in [Schedulers -> BOOLEAN]
    /\ Fifo \in [Schedulers -> BOOLEAN]
ASSUME BoundAssumption ==
    /\ HWThreadCount \in Nat \ {0}
    /\ Preconstructed \subseteq Schedulers
    /\ WaitingJobs \subseteq Jobs
    /\ Watermarks \subseteq Nat
    /\ SharedCounts \subseteq Nat
    /\ MaxStops \in [Schedulers -> Nat]

VARIABLES
    \* CJobScheduler, per scheduler
    life,             \* "none", "live", "closing" (destructor runs), "dead"
    queue, running, suspended,
    runningCount, suspendedCount, yetToCreate, fromShared, unusedCount,
    starved, stopCount, emptyEvent, waitingThreads, threadIsIdle, mutex,
    \* CThreadPool
    pool, allocCount, maxCount, poolYetToCreate, starving, poolMutex,
    \* SThreadInfo and CThread
    born,             \* the workers that exist
    owner,            \* SThreadInfo::owner
    asleep,           \* CThread::suspended (the event resume is its negation)
    job,              \* the job a worker executes
    \* control state of the actors
    pc,
    at,               \* the scheduler whose method the actor is in
    notified,         \* the scheduler (or, for a client, worker) it deals with
    \* what became of each job
    fate

countVars == <<runningCount, suspendedCount, yetToCreate, fromShared, unusedCount>>
allocVars == <<running, suspended, countVars, pool, allocCount, poolYetToCreate,
               born, owner, asleep>>
starveVars == <<starved, starving>>
eventVars == <<emptyEvent, waitingThreads, threadIsIdle>>
limitVars == <<life, maxCount, poolMutex>>
jobVars == <<queue, job, fate>>
controlVars == <<mutex, pc, at, notified>>
vars == <<allocVars, starveVars, eventVars, limitVars, jobVars, controlVars, stopCount>>

Ready(c) == c \in Clients /\ pc[c] = "ready"

\* A client enters a public method; callers keep to the object's lifetime.
Enters(c, s) == Ready(c) /\ life[s] = "live" /\ mutex[s] = None

\* The actor keeps the lock of s and goes on at the given place.
Hold(a, s, place) ==
    /\ mutex' = [mutex EXCEPT ![s] = a]
    /\ pc' = [pc EXCEPT ![a] = place]
    /\ at' = IF a \in Clients THEN [at EXCEPT ![a] = s] ELSE at

Unlock(a, s, place) ==
    /\ mutex' = [mutex EXCEPT ![s] = None]
    /\ pc' = [pc EXCEPT ![a] = place]

Return(c) == pc' = [pc EXCEPT ![c] = "ready"]

(***************************************************************************)
(* The two manual-reset events.  A thread that is blocked when the event   *)
(* is set goes on even if the event is reset before it runs; one that has  *)
(* left the lock but not yet entered the wait ("wait", "waitSome") is not. *)
(***************************************************************************)

\* threadIsIdle.Set: the workers blocked in WaitForSomeJobs.
WakeIdle(s) ==
    [x \in Actors |-> IF x \in Workers /\ pc[x] = "blockedSome" /\ owner[x] = s
                      THEN "wokenSome" ELSE pc[x]]

\* emptyEvent.Set, given the places the step leaves the actors at.
WakeEmpty(s, places) ==
    [x \in Actors |-> CASE places[x] = "blocked" /\ at[x] = s -> "check"
                        [] places[x] = "dtorBlocked" /\ at[x] = s -> "dtorCheck"
                        [] OTHER -> places[x]]

-----------------------------------------------------------------------------
(***************************************************************************)
(* Thread allocation.                                                      *)
(***************************************************************************)

\* Enter a thread into the running list and resume it.
StartRunning(s, t) ==
    /\ running' = [running EXCEPT ![s] = @ \cup {t}]
    /\ runningCount' = [runningCount EXCEPT ![s] = @ + 1]
    /\ unusedCount' = [unusedCount EXCEPT ![s] = @ - 1]
    /\ owner' = [owner EXCEPT ![t] = s]
    /\ asleep' = [asleep EXCEPT ![t] = FALSE]

RecycleSuspended(s) ==
    /\ suspendedCount[s] > 0
    /\ \E t \in suspended[s] :
          /\ StartRunning(s, t)
          /\ suspended' = [suspended EXCEPT ![s] = @ \ {t}]
    /\ suspendedCount' = [suspendedCount EXCEPT ![s] = @ - 1]
    /\ UNCHANGED <<yetToCreate, fromShared, pool, allocCount, poolYetToCreate, born>>

CreatePrivate(s) ==
    /\ suspendedCount[s] = 0
    /\ yetToCreate[s] > 0
    /\ \E t \in Workers \ born : StartRunning(s, t) /\ born' = born \cup {t}
    /\ yetToCreate' = [yetToCreate EXCEPT ![s] = @ - 1]
    /\ UNCHANGED <<suspended, suspendedCount, fromShared, pool, allocCount,
                   poolYetToCreate>>

\* AllocateThread turns to the shared pool.
WantsShared(s) ==
    /\ suspendedCount[s] = 0
    /\ yetToCreate[s] = 0
    /\ fromShared[s] < SharedThreads[s]

\* Mutant: the thread stays in the pool.
RecycleSharedKept(t) == t \in pool /\ UNCHANGED <<pool, poolYetToCreate, born>>

\* CThreadPool::TryAlloc takes an idle thread ...
RecycleShared(t) ==
    /\ t \in pool
    /\ pool' = pool \ {t}
    /\ UNCHANGED <<poolYetToCreate, born>>

\* ... or creates one ...
CreateShared(t) ==
    /\ pool = {} /\ poolYetToCreate > 0
    /\ t \in Workers \ born
    /\ born' = born \cup {t}
    /\ poolYetToCreate' = poolYetToCreate - 1
    /\ UNCHANGED pool

\* ... and counts it as handed out;
Lend == allocCount' = allocCount + 1

\* it returns NULL when there is neither.
PoolExhausted == poolMutex = None /\ pool = {} /\ poolYetToCreate = 0

BorrowShared(s) ==
    /\ WantsShared(s)
    /\ ~starved[s]
    /\ poolMutex = None
    /\ \E t \in Workers : (RecycleShared(t) \/ CreateShared(t)) /\ StartRunning(s, t)
    /\ Lend
    /\ fromShared' = [fromShared EXCEPT ![s] = @ + 1]
    /\ UNCHANGED <<suspended, suspendedCount, yetToCreate>>

\* AllocateThread returns true.
Granted(s) ==
    /\ RecycleSuspended(s) \/ CreatePrivate(s) \/ BorrowShared(s)
    /\ UNCHANGED starveVars

\* AllocateThread returns false without asking the pool.
Refused(s) ==
    /\ suspendedCount[s] = 0
    /\ yetToCreate[s] = 0
    /\ fromShared[s] >= SharedThreads[s] \/ starved[s]
    /\ UNCHANGED <<allocVars, starveVars>>

\* The pool has nothing left: still under the lock, actor a goes on to
\* register with it, in a second use of the pool.
Starve(a, s) ==
    /\ WantsShared(s)
    /\ ~starved[s]
    /\ PoolExhausted
    /\ starved' = [starved EXCEPT ![s] = TRUE]
    /\ Hold(a, s, "addStarving")
    /\ UNCHANGED <<allocVars, starving>>

\* CThreadPool::AddStarving, and the return to the caller of AllocateThread.
AddStarving(a) ==
    LET s == IF a \in Clients THEN at[a] ELSE notified[a]
    IN /\ pc[a] = "addStarving"
       /\ poolMutex = None
       /\ starving' = Append(starving, s)
       /\ Unlock(a, s, IF a \in Clients THEN "ready" ELSE "select")
       /\ UNCHANGED <<allocVars, starved, eventVars, limitVars, jobVars, at,
                      notified, stopCount>>

-----------------------------------------------------------------------------
(***************************************************************************)
(* The clients' operations.                                                *)
(***************************************************************************)

Schedule(c, s, j) ==
    LET addThread == /\ stopCount[s] = 0
                     /\ \/ Aggressive[s]
                        \/ /\ Len(queue[s]) + 1 > 2 * runningCount[s]
                           /\ unusedCount[s] > 0
    IN /\ Enters(c, s)
       /\ fate[j] = "new"
       /\ fate' = [fate EXCEPT ![j] = "queued"]
       /\ emptyEvent' = [emptyEvent EXCEPT ![s] = @ /\ queue[s] # <<>>]
       /\ queue' = [queue EXCEPT ![s] = Append(@, j)]
       /\ \/ ~addThread /\ UNCHANGED <<allocVars, starveVars, mutex, pc, at>>
          \/ addThread /\ Granted(s) /\ UNCHANGED <<mutex, pc, at>>
          \/ addThread /\ Refused(s) /\ UNCHANGED <<mutex, pc, at>>
          \/ addThread /\ Starve(c, s)
       /\ UNCHANGED <<waitingThreads, threadIsIdle, limitVars, job, notified, stopCount>>

\* Jobs taken out of the queue unexecuted: OnUnSchedule, and the caller or
\* the scheduler disposes of them.  "abandoned" are those nobody worked for.
Drop(s, jobs) ==
    LET end == IF runningCount[s] = 0 THEN "abandoned" ELSE "dropped"
    IN fate' = [j \in Jobs |-> IF j \in jobs THEN end ELSE fate[j]]

\* Mutant: entries are always popped at the back.
QueueAfterPopsBack(q, n, front) == SubSeq(q, 1, Len(q) - n)

\* The queue with n entries popped while set_fifo (front) is in force.
QueueAfterPops(q, n, front) ==
    IF front THEN SubSeq(q, n + 1, Len(q)) ELSE SubSeq(q, 1, Len(q) - n)

RemoveJobFromQueue(c, s, watermark, oldest) ==
    LET rest == QueueAfterPops(queue[s], Len(queue[s]) - watermark, oldest = Fifo[s])
    IN /\ "remove" \in Services
       /\ Enters(c, s)
       /\ Len(queue[s]) > watermark
       /\ queue' = [queue EXCEPT ![s] = rest]
       /\ Drop(s, Range(queue[s]) \ Range(rest))
       /\ UNCHANGED <<allocVars, starveVars, eventVars, limitVars, job,
                      controlVars, stopCount>>

Stop(c, s) ==
    /\ Enters(c, s)
    /\ stopCount[s] < MaxStops[s]
    /\ stopCount' = [stopCount EXCEPT ![s] = @ + 1]
    /\ UNCHANGED <<allocVars, starveVars, eventVars, limitVars, jobVars, controlVars>>

Resume(c, s) ==
    /\ Enters(c, s)
    /\ stopCount[s] > 0
    /\ stopCount' = [stopCount EXCEPT ![s] = @ - 1]
    /\ IF stopCount[s] = 1 THEN Hold(c, s, "resume") ELSE UNCHANGED <<mutex, pc, at>>
    /\ UNCHANGED <<allocVars, starveVars, eventVars, limitVars, jobVars, notified>>

\* One turn of the loop in Resume that allocates threads for the backlog.
ResumeLoop(c) ==
    LET s == at[c]
        more == \/ Len(queue[s]) > runningCount[s] /\ Aggressive[s]
                \/ Len(queue[s]) > 4 * runningCount[s] /\ unusedCount[s] > 0
    IN /\ pc[c] = "resume"
       /\ \/ more /\ Granted(s) /\ UNCHANGED <<mutex, pc, at>>
          \/ more /\ Refused(s) /\ Unlock(c, s, "ready") /\ UNCHANGED at
          \/ more /\ Starve(c, s)
          \/ ~more /\ Unlock(c, s, "ready") /\ UNCHANGED <<allocVars, starveVars, at>>
       /\ UNCHANGED <<eventVars, limitVars, jobVars, notified, stopCount>>

\* WaitForEmptyQueueOrTimeout; the destructor calls it too ("dtorCheck").
WaitForEmptyQueue(c, s) ==
    /\ "wait" \in Services
    /\ Ready(c)
    /\ life[s] = "live"
    /\ pc' = [pc EXCEPT ![c] = "check"]
    /\ at' = [at EXCEPT ![c] = s]
    /\ UNCHANGED <<allocVars, starveVars, eventVars, limitVars, jobVars, mutex,
                   notified, stopCount>>

\* A stopped scheduler's waiting jobs are removed by whoever waits for them.
Drained(s) == IF stopCount[s] # 0 THEN <<>> ELSE queue[s]

\* Mutant: running workers are ignored.
IdleQueue(s) == Drained(s) = <<>>

Idle(s) == runningCount[s] = 0 /\ Drained(s) = <<>>

\* Mutant: the suspended threads are left behind.
TerminatePrivateNot(s) == UNCHANGED <<born, suspended>>

\* ~CJobScheduler ends the private threads it kept.
TerminatePrivate(s) ==
    /\ born' = born \ suspended[s]
    /\ suspended' = [suspended EXCEPT ![s] = {}]

\* One turn of the loop: drain, test, prepare to wait.
CheckEmpty(c) ==
    LET s == at[c]
    IN /\ pc[c] \in {"check", "dtorCheck"}
       /\ mutex[s] = None
       /\ queue' = [queue EXCEPT ![s] = Drained(s)]
       /\ Drop(s, Range(queue[s]) \ Range(Drained(s)))
       /\ \/ /\ ~Idle(s)
             /\ emptyEvent' = [emptyEvent EXCEPT ![s] = FALSE]
             /\ pc' = [pc EXCEPT ![c] = IF @ = "check" THEN "wait" ELSE "dtorWait"]
             /\ UNCHANGED <<suspended, born, life>>
          \/ /\ Idle(s) /\ pc[c] = "check"
             /\ Return(c)
             /\ UNCHANGED <<emptyEvent, suspended, born, life>>
          \/ \* the rest of ~CJobScheduler
             /\ Idle(s) /\ pc[c] = "dtorCheck"
             /\ Return(c)
             /\ TerminatePrivate(s)
             /\ life' = [life EXCEPT ![s] = "dead"]
             /\ UNCHANGED emptyEvent
       /\ UNCHANGED <<running, countVars, pool, allocCount, poolYetToCreate, owner,
                      asleep, starveVars, waitingThreads, threadIsIdle, maxCount,
                      poolMutex, job, mutex, at, notified, stopCount>>

\* Outside the lock: the wait returns at once if the event is set.
EnterWait(c) ==
    /\ pc[c] \in {"wait", "dtorWait"}
    /\ pc' = [pc EXCEPT ![c] = IF emptyEvent[at[c]]
                               THEN IF @ = "wait" THEN "check" ELSE "dtorCheck"
                               ELSE IF @ = "wait" THEN "blocked" ELSE "dtorBlocked"]
    /\ UNCHANGED <<allocVars, starveVars, eventVars, limitVars, jobVars, mutex, at,
                   notified, stopCount>>

\* WaitForEmptyQueueOrTimeout gives up.
Timeout(c) ==
    /\ "timeout" \in Services
    /\ pc[c] = "blocked"
    /\ Return(c)
    /\ UNCHANGED <<allocVars, starveVars, eventVars, limitVars, jobVars, mutex, at,
                   notified, stopCount>>

\* ~CJobScheduler starts: nobody else is in a method of the scheduler, and
\* the queue has run empty, as its comment demands.
Destroy(c, s) ==
    /\ "destroy" \in Services
    /\ Ready(c)
    /\ life[s] = "live"
    /\ queue[s] = <<>>
    /\ \A d \in Clients : pc[d] # "ready" => at[d] # s
    /\ life' = [life EXCEPT ![s] = "closing"]
    /\ pc' = [pc EXCEPT ![c] = "dtor"]
    /\ at' = [at EXCEPT ![c] = s]
    /\ UNCHANGED <<allocVars, starveVars, eventVars, maxCount, poolMutex, jobVars,
                   mutex, notified, stopCount>>

\* Mutant: the list keeps the entry.
RemoveStarvingNot(s) ==
    /\ poolMutex = None
    /\ s \in Range(starving)
    /\ starved' = [starved EXCEPT ![s] = FALSE]
    /\ UNCHANGED starving

\* Remove a scheduler from the starving list.  The code removes all its
\* entries; there is never more than one (StarvingRegistered).
RemoveStarving(s) ==
    /\ poolMutex = None
    /\ \E i \in DOMAIN starving :
          /\ starving[i] = s
          /\ starving' = RemoveAt(starving, i)
    /\ starved' = [starved EXCEPT ![s] = FALSE]

\* The destructor's StopStarvation, which does not hold the lock.
DestroyStopStarvation(c) ==
    /\ pc[c] = "dtor"
    /\ \/ ~starved[at[c]] /\ UNCHANGED starveVars
       \/ starved[at[c]] /\ RemoveStarving(at[c])
    /\ pc' = [pc EXCEPT ![c] = "dtorCheck"]
    /\ UNCHANGED <<allocVars, eventVars, limitVars, jobVars, mutex, at, notified,
                   stopCount>>

-----------------------------------------------------------------------------
(***************************************************************************)
(* The worker threads.                                                     *)
(***************************************************************************)

\* The thread function calls AssignJob of the thread's owner.
EntersAssignJob(t, s) ==
    /\ t \in born
    /\ pc[t] = "loop"
    /\ ~asleep[t]
    /\ owner[t] = s
    /\ mutex[s] = None
    /\ threadIsIdle' = [threadIsIdle EXCEPT ![s] = @ \/ waitingThreads[s] > 0]
    /\ UNCHANGED <<waitingThreads, limitVars, stopCount>>

\* AssignJob wakes up threads that waited for some work to finish.
WakeWaiting(s) == IF waitingThreads[s] > 0 THEN WakeIdle(s) ELSE pc

\* Mutant: the last job is overlooked.
HasMuchWork(s) == Len(queue[s]) > 1 /\ stopCount[s] = 0

HasWork(s) == queue[s] # <<>> /\ stopCount[s] = 0

TakeJob(t, s) ==
    /\ EntersAssignJob(t, s)
    /\ HasWork(s)
    /\ LET next == IF Fifo[s] THEN Head(queue[s]) ELSE Last(queue[s])
       IN /\ job' = [job EXCEPT ![t] = next]
          /\ fate' = [fate EXCEPT ![next] = "executing"]
    /\ queue' = [queue EXCEPT ![s] = QueueAfterPops(@, 1, Fifo[s])]
    /\ pc' = [WakeWaiting(s) EXCEPT ![t] = "execute"]
    /\ UNCHANGED <<allocVars, starveVars, emptyEvent, mutex, at, notified>>

\* Mutant: the thread is not counted as unused again.
CountUnusedNot(s) == UNCHANGED unusedCount

CountUnused(s) == unusedCount' = [unusedCount EXCEPT ![s] = @ + 1]

\* Mutant: the thread that finds no debt left tells nobody.
LastWorkerIndebted(s) == runningCount[s] = 1 /\ fromShared[s] > 0

LastWorker(s) == runningCount[s] = 1

\* The end of AssignJob without a job: the last worker signals emptyEvent.
Retire(s, places) ==
    /\ CountUnused(s)
    /\ runningCount' = [runningCount EXCEPT ![s] = @ - 1]
    /\ \/ /\ LastWorker(s)
          /\ emptyEvent' = [emptyEvent EXCEPT ![s] = TRUE]
          /\ pc' = WakeEmpty(s, places)
       \/ /\ ~LastWorker(s)
          /\ UNCHANGED emptyEvent
          /\ pc' = places

\* No work and no debt to the shared pool: keep the thread for later or,
\* with aggressive threading, end it.
ParkPrivate(t, s) ==
    /\ EntersAssignJob(t, s)
    /\ ~HasWork(s)
    /\ t \in running[s]
    /\ fromShared[s] = 0
    /\ running' = [running EXCEPT ![s] = @ \ {t}]
    /\ asleep' = [asleep EXCEPT ![t] = TRUE]
    /\ Retire(s, WakeWaiting(s))
    /\ \/ /\ Aggressive[s]
          /\ yetToCreate' = [yetToCreate EXCEPT ![s] = @ + 1]
          /\ born' = born \ {t}
          /\ UNCHANGED <<suspended, suspendedCount>>
       \/ /\ ~Aggressive[s]
          /\ suspended' = [suspended EXCEPT ![s] = @ \cup {t}]
          /\ suspendedCount' = [suspendedCount EXCEPT ![s] = @ + 1]
          /\ UNCHANGED <<yetToCreate, born>>
    /\ UNCHANGED <<fromShared, pool, allocCount, poolYetToCreate, owner, starveVars,
                   jobVars, mutex, at, notified>>

\* No work, and the scheduler owes a thread to the shared pool.
LeaveRunning(t, s) ==
    /\ EntersAssignJob(t, s)
    /\ ~HasWork(s)
    /\ t \in running[s]
    /\ fromShared[s] > 0
    /\ running' = [running EXCEPT ![s] = @ \ {t}]
    /\ asleep' = [asleep EXCEPT ![t] = TRUE]
    /\ mutex' = [mutex EXCEPT ![s] = t]
    /\ pc' = [WakeWaiting(s) EXCEPT ![t] = "stopStarving"]
    /\ at' = [at EXCEPT ![t] = s]
    /\ UNCHANGED <<suspended, countVars, pool, allocCount, poolYetToCreate, born,
                   owner, starveVars, emptyEvent, jobVars, notified>>

\* One successful turn of StopStarvation; while the scheduler is marked
\* starved but not in the list, the loop spins.
StopStarvation(t) ==
    /\ pc[t] = "stopStarving"
    /\ starved[at[t]]
    /\ RemoveStarving(at[t])
    /\ UNCHANGED <<allocVars, eventVars, limitVars, jobVars, controlVars, stopCount>>

\* Mutant: release a thread although the scheduler is registered.
StarvationIgnored(s) == TRUE

\* StopStarvation is over.
StarvationStopped(s) == ~starved[s]

\* What AssignJob does after Release returned.
EndRelease(t, s) ==
    /\ fromShared' = [fromShared EXCEPT ![s] = @ - 1]
    /\ Retire(s, [pc EXCEPT ![t] = "loop"])
    /\ mutex' = [mutex EXCEPT ![s] = None]

\* CThreadPool::Release, up to the first SelectStarving.
Release(t) ==
    LET s == at[t]
    IN /\ pc[t] = "stopStarving"
       /\ StarvationStopped(s)
       /\ poolMutex = None
       /\ owner' = [owner EXCEPT ![t] = None]
       /\ allocCount' = allocCount - 1
       /\ \/ /\ Cardinality(pool) + allocCount - 1 < maxCount
             /\ pool' = pool \cup {t}
             /\ UNCHANGED poolMutex
             /\ \/ starving = <<>> /\ EndRelease(t, s)
                \/ /\ starving # <<>>
                   /\ pc' = [pc EXCEPT ![t] = "select"]
                   /\ UNCHANGED <<fromShared, unusedCount, runningCount, emptyEvent, mutex>>
          \/ \* overflow: the thread deletes its own CThread, whose destructor
             \* waits for the thread to end
             /\ Cardinality(pool) + allocCount - 1 >= maxCount
             /\ poolMutex' = t
             /\ pc' = [pc EXCEPT ![t] = "joinSelf"]
             /\ UNCHANGED <<pool, fromShared, unusedCount, runningCount, emptyEvent, mutex>>
       /\ UNCHANGED <<running, suspended, suspendedCount, yetToCreate, poolYetToCreate,
                      born, asleep, starveVars, waitingThreads, threadIsIdle, life,
                      maxCount, jobVars, at, notified, stopCount>>

\* CThreadPool::SelectStarving as called by Release.
SelectStarving(t) ==
    /\ pc[t] = "select"
    /\ poolMutex = None
    /\ \/ /\ starving = <<>> \/ pool = {}
          /\ EndRelease(t, at[t])
          /\ UNCHANGED <<starving, notified>>
       \/ /\ starving # <<>> /\ pool # {}
          /\ starving' = Tail(starving)
          /\ notified' = [notified EXCEPT ![t] = Head(starving)]
          /\ pc' = [pc EXCEPT ![t] = "notify"]
          /\ UNCHANGED <<fromShared, unusedCount, runningCount, emptyEvent, mutex>>
    /\ UNCHANGED <<running, suspended, suspendedCount, yetToCreate, pool, allocCount,
                   poolYetToCreate, born, owner, asleep, starved, waitingThreads,
                   threadIsIdle, limitVars, jobVars, at, stopCount>>

\* The releasing thread enters ThreadAvailable of a starving scheduler.
ThreadAvailable(t) ==
    LET s == notified[t]
    IN /\ pc[t] = "notify"
       /\ mutex[s] = None
       /\ starved' = [starved EXCEPT ![s] = FALSE]
       /\ mutex' = [mutex EXCEPT ![s] = t]
       /\ pc' = [pc EXCEPT ![t] = "allocate"]
       /\ UNCHANGED <<allocVars, starving, eventVars, limitVars, jobVars, at, notified,
                      stopCount>>

\* One turn of its loop.
AllocateLoop(t) ==
    LET s == notified[t]
        more == /\ stopCount[s] # 0
                /\ Len(queue[s]) > 2 * runningCount[s]
                /\ WantsShared(s)
    IN /\ pc[t] = "allocate"
       /\ \/ /\ more
             /\ BorrowShared(s)
             /\ UNCHANGED <<starveVars, mutex, pc, at>>
          \/ more /\ Starve(t, s)
          \/ ~more /\ Unlock(t, s, "select") /\ UNCHANGED <<allocVars, starveVars, at>>
       /\ UNCHANGED <<eventVars, limitVars, jobVars, notified, stopCount>>

\* ThreadFunc after Execute: OnUnSchedule, delete, next turn.
FinishJob(t) ==
    /\ pc[t] = "execute"
    /\ fate' = [fate EXCEPT ![job[t]] = "done"]
    /\ job' = [job EXCEPT ![t] = None]
    /\ pc' = [pc EXCEPT ![t] = "loop"]
    /\ UNCHANGED <<allocVars, starveVars, eventVars, limitVars, queue, mutex, at,
                   notified, stopCount>>

\* Mutant: every running worker may wait.
EnoughRunningOffByOne(s) == waitingThreads[s] + 1 <= runningCount[s]

\* WaitForSomeJobs: with the caller waiting, somebody still runs.
EnoughRunning(s) == waitingThreads[s] + 1 < runningCount[s]

\* A job that needs the result of another one.
WaitForSomeJobs(t) ==
    LET s == owner[t]
    IN /\ pc[t] = "execute"
       /\ job[t] \in WaitingJobs
       /\ mutex[s] = None
       /\ \/ /\ EnoughRunning(s)
             /\ waitingThreads' = [waitingThreads EXCEPT ![s] = @ + 1]
             /\ threadIsIdle' = [threadIsIdle EXCEPT ![s] = FALSE]
             /\ pc' = [pc EXCEPT ![t] = "waitSome"]
          \/ /\ ~EnoughRunning(s)
             /\ threadIsIdle' = [threadIsIdle EXCEPT ![s] = TRUE]
             /\ pc' = WakeIdle(s)
             /\ UNCHANGED waitingThreads
       /\ UNCHANGED <<allocVars, starveVars, emptyEvent, limitVars, jobVars, mutex, at,
                      notified, stopCount>>

EnterWaitForSome(t) ==
    /\ pc[t] = "waitSome"
    /\ pc' = [pc EXCEPT ![t] = IF threadIsIdle[owner[t]] THEN "wokenSome"
                               ELSE "blockedSome"]
    /\ UNCHANGED <<allocVars, starveVars, eventVars, limitVars, jobVars, mutex, at,
                   notified, stopCount>>

\* The decrement at the end of WaitForSomeJobs, outside the lock.
LeaveWaitForSomeJobs(t) ==
    /\ pc[t] = "wokenSome"
    /\ waitingThreads' = [waitingThreads EXCEPT ![owner[t]] = @ - 1]
    /\ pc' = [pc EXCEPT ![t] = "execute"]
    /\ UNCHANGED <<allocVars, starveVars, emptyEvent, threadIsIdle, limitVars, jobVars,
                   mutex, at, notified, stopCount>>

-----------------------------------------------------------------------------
(***************************************************************************)
(* Construction, and the size of the shared pool.                          *)
(***************************************************************************)

PoolThreads == Cardinality(pool) + allocCount

\* CThreadPool::SetThreadCount, called by client c.  Surplus idle threads
\* are joined one by one with the pool's lock held.
SetThreadCount(c, count) ==
    /\ poolMutex = None
    /\ maxCount' = count
    /\ poolYetToCreate' = IF PoolThreads < count
                          THEN count - Cardinality(pool) + allocCount
                          ELSE poolYetToCreate
    /\ \/ /\ PoolThreads > count /\ pool # {}
          /\ poolMutex' = c
          /\ pc' = [pc EXCEPT ![c] = "shrink"]
       \/ /\ PoolThreads <= count \/ pool = {}
          /\ Return(c)
          /\ UNCHANGED poolMutex

\* The constructor, up to its unsynchronised GetSharedThreadCount.
Construct(c, s) ==
    /\ Ready(c)
    /\ life[s] = "none"
    /\ \A d \in Clients : pc[d] = "useAllCPUs" => at[d] # s
    /\ \/ /\ maxCount # 0
          /\ life' = [life EXCEPT ![s] = "live"]
          /\ UNCHANGED <<pc, at>>
       \/ /\ maxCount = 0
          /\ pc' = [pc EXCEPT ![c] = "useAllCPUs"]
          /\ at' = [at EXCEPT ![c] = s]
          /\ UNCHANGED life
    /\ UNCHANGED <<allocVars, starveVars, eventVars, maxCount, poolMutex, jobVars,
                   mutex, notified, stopCount>>

UseAllCPUs(c) ==
    /\ pc[c] = "useAllCPUs"
    /\ SetThreadCount(c, HWThreadCount)
    /\ life' = [life EXCEPT ![at[c]] = "live"]
    /\ UNCHANGED <<running, suspended, countVars, pool, allocCount, born, owner, asleep,
                   starveVars, eventVars, jobVars, mutex, at, notified, stopCount>>

\* SetSharedThreadCount, and ~CThreadPool at the end of the program.
SetSharedThreadCount(c, count) ==
    /\ Ready(c)
    /\ \/ count \in SharedCounts
       \/ count = 0 /\ \A s \in Schedulers : life[s] = "dead"
    /\ SetThreadCount(c, count)
    /\ UNCHANGED <<running, suspended, countVars, pool, allocCount, born, owner, asleep,
                   starveVars, eventVars, life, jobVars, mutex, at, notified, stopCount>>

\* One turn of the loop in SetThreadCount: pick a victim and ask it to end.
Shrink(c) ==
    /\ pc[c] = "shrink"
    /\ \/ /\ PoolThreads > maxCount
          /\ \E t \in pool :
                /\ pool' = pool \ {t}
                /\ notified' = [notified EXCEPT ![c] = t]
          /\ pc' = [pc EXCEPT ![c] = "join"]
          /\ UNCHANGED poolMutex
       \/ /\ PoolThreads <= maxCount \/ pool = {}
          /\ poolMutex' = None
          /\ Return(c)
          /\ UNCHANGED <<pool, notified>>
    /\ UNCHANGED <<running, suspended, countVars, allocCount, poolYetToCreate, born,
                   owner, asleep, starveVars, eventVars, life, maxCount, jobVars, mutex,
                   at, stopCount>>

\* CThread::Terminate returns once the victim has left its thread function.
Join(c) ==
    /\ pc[c] = "join"
    /\ pc[notified[c]] = "loop"
    /\ born' = born \ {notified[c]}
    /\ pc' = [pc EXCEPT ![c] = "shrink"]
    /\ notified' = [notified EXCEPT ![c] = None]
    /\ UNCHANGED <<running, suspended, countVars, pool, allocCount, poolYetToCreate,
                   owner, asleep, starveVars, eventVars, limitVars, jobVars, mutex, at,
                   stopCount>>

-----------------------------------------------------------------------------
Init ==
    /\ life = [s \in Schedulers |-> IF s \in Preconstructed THEN "live" ELSE "none"]
    /\ queue = [s \in Schedulers |-> <<>>]
    /\ running = [s \in Schedulers |-> {}]
    /\ suspended = [s \in Schedulers |-> {}]
    /\ runningCount = [s \in Schedulers |-> 0]
    /\ suspendedCount = [s \in Schedulers |-> 0]
    /\ yetToCreate = ThreadCount
    /\ fromShared = [s \in Schedulers |-> 0]
    /\ unusedCount = [s \in Schedulers |-> ThreadCount[s] + SharedThreads[s]]
    /\ starved = [s \in Schedulers |-> FALSE]
    /\ stopCount = [s \in Schedulers |-> 0]
    /\ emptyEvent = [s \in Schedulers |-> FALSE]
    /\ waitingThreads = [s \in Schedulers |-> 0]
    /\ threadIsIdle = [s \in Schedulers |-> FALSE]
    /\ mutex = [s \in Schedulers |-> None]
    /\ pool = {}
    /\ allocCount = 0
    /\ maxCount = IF Preconstructed = {} THEN 0 ELSE HWThreadCount
    /\ poolYetToCreate = maxCount
    /\ starving = <<>>
    /\ poolMutex = None
    /\ born = {}
    /\ owner = [t \in Workers |-> None]
    /\ asleep = [t \in Workers |-> TRUE]
    /\ job = [t \in Workers |-> None]
    /\ pc = [a \in Actors |-> IF a \in Clients THEN "ready" ELSE "loop"]
    /\ at = [a \in Actors |-> None]
    /\ notified = [a \in Actors |-> None]
    /\ fate = [j \in Jobs |-> "new"]

\* What a client that waits, or that holds a lock, does next.
ClientContinues(c) ==
    \/ AddStarving(c)
    \/ ResumeLoop(c)
    \/ CheckEmpty(c)
    \/ EnterWait(c)
    \/ DestroyStopStarvation(c)
    \/ UseAllCPUs(c)
    \/ Shrink(c)
    \/ Join(c)

ClientCalls(c) ==
    \/ \E s \in Schedulers :
          \/ \E j \in Jobs : Schedule(c, s, j)
          \/ \E w \in Watermarks, o \in BOOLEAN : RemoveJobFromQueue(c, s, w, o)
          \/ Stop(c, s)
          \/ Resume(c, s)
          \/ WaitForEmptyQueue(c, s)
          \/ Construct(c, s)
          \/ Destroy(c, s)
    \/ Timeout(c)
    \/ \E n \in SharedCounts \cup {0} : SetSharedThreadCount(c, n)

WorkerStep(t) ==
    \/ \E s \in Schedulers : TakeJob(t, s) \/ ParkPrivate(t, s) \/ LeaveRunning(t, s)
    \/ StopStarvation(t)
    \/ Release(t)
    \/ SelectStarving(t)
    \/ ThreadAvailable(t)
    \/ AllocateLoop(t)
    \/ AddStarving(t)
    \/ FinishJob(t)
    \/ WaitForSomeJobs(t)
    \/ EnterWaitForSome(t)
    \/ LeaveWaitForSomeJobs(t)

Next ==
    \/ \E c \in Clients : ClientContinues(c) \/ ClientCalls(c)
    \/ \E t \in Workers : WorkerStep(t)

Spec == Init /\ [][Next]_vars

-----------------------------------------------------------------------------
ClientPlaces == {"ready", "addStarving", "resume", "check", "wait", "blocked", "dtor",
                 "dtorCheck", "dtorWait", "dtorBlocked", "useAllCPUs", "shrink", "join"}
WorkerPlaces == {"loop", "execute", "waitSome", "blockedSome", "wokenSome",
                 "stopStarving",
                 "select", "notify", "allocate", "addStarving", "joinSelf"}

TypeOK ==
    /\ life \in [Schedulers -> {"none", "live", "closing", "dead"}]
    /\ queue \in [Schedulers -> Seq(Jobs)]
    /\ running \in [Schedulers -> SUBSET Workers]
    /\ suspended \in [Schedulers -> SUBSET Workers]
    /\ runningCount \in [Schedulers -> Nat]
    /\ suspendedCount \in [Schedulers -> Nat]
    /\ yetToCreate \in [Schedulers -> Nat]
    /\ fromShared \in [Schedulers -> Nat]
    /\ unusedCount \in [Schedulers -> Nat]
    /\ starved \in [Schedulers -> BOOLEAN]
    /\ stopCount \in [Schedulers -> Nat]
    /\ emptyEvent \in [Schedulers -> BOOLEAN]
    /\ waitingThreads \in [Schedulers -> Nat]
    /\ threadIsIdle \in [Schedulers -> BOOLEAN]
    /\ mutex \in [Schedulers -> Actors \cup {None}]
    /\ pool \in SUBSET Workers
    /\ allocCount \in Nat
    /\ maxCount \in Nat
    /\ poolYetToCreate \in Nat
    /\ starving \in Seq(Schedulers)
    /\ poolMutex \in Actors \cup {None}
    /\ born \in SUBSET Workers
    /\ owner \in [Workers -> Schedulers \cup {None}]
    /\ asleep \in [Workers -> BOOLEAN]
    /\ job \in [Workers -> Jobs \cup {None}]
    /\ pc \in [Actors -> ClientPlaces \cup WorkerPlaces]
    /\ at \in [Actors -> Schedulers \cup {None}]
    /\ notified \in [Actors -> Schedulers \cup Workers \cup {None}]
    /\ fate \in [Jobs -> {"new", "queued", "executing", "done", "dropped", "abandoned"}]

\* Workers between LeaveRunning and EndRelease of scheduler s.
Leaving(s) == {t \in Workers : at[t] = s /\ pc[t] \in {"stopStarving", "select",
                                 "notify", "allocate", "addStarving", "joinSelf"}}

(* The cached counters agree with the lists, with each other and with the  *)
(* constructor's arguments at every step, also while a worker is on its    *)
(* way back to the shared pool (AssignJob, AllocateThread): none of the    *)
(* size_t counters can run below zero.                                     *)
CountersAgree ==
    \A s \in Schedulers :
       /\ {runningCount[s], suspendedCount[s], yetToCreate[s], fromShared[s],
           unusedCount[s]} \subseteq Nat
       /\ runningCount[s] = Cardinality(running[s]) + Cardinality(Leaving(s))
       /\ life[s] # "dead" => suspendedCount[s] = Cardinality(suspended[s])
       /\ unusedCount[s] = suspendedCount[s] + yetToCreate[s]
                              + SharedThreads[s] - fromShared[s]
       /\ runningCount[s] + unusedCount[s] = ThreadCount[s] + SharedThreads[s]
       /\ fromShared[s] <= SharedThreads[s]

(* "Must be 0, if suspended is not empty": a scheduler that owes threads   *)
(* to the shared pool has every private thread at work, so an idle worker  *)
(* pays the debt back before the scheduler keeps threads for itself.       *)
DebtPaidFirst ==
    \A s \in Schedulers :
       fromShared[s] > 0 => suspendedCount[s] = 0 /\ yetToCreate[s] = 0

(* A thread is in one list of one owner: two schedulers never drive the    *)
(* same worker, and no worker is idle in the pool and at work at once      *)
(* (Release makes a worker available before AssignJob is done with it).    *)
OneOwner ==
    /\ \A s \in Schedulers, t \in Workers :
          t \in running[s] => /\ t \in born /\ owner[t] = s /\ ~asleep[t]
                              /\ t \notin pool
    /\ \A s1, s2 \in Schedulers :
          /\ s1 # s2 => running[s1] \cap running[s2] = {}
          /\ running[s1] \cap suspended[s2] = {}
    /\ \A s \in Schedulers : suspended[s] \cap pool = {}
    /\ \A t \in born : pc[t] \in {"loop", "execute"} /\ ~asleep[t]
                          => t \in running[owner[t]]

(* Every job is executed at most once and is never lost: it is queued once *)
(* or executed by one worker, whoever pops, drains or removes (AssignJob,  *)
(* WaitForEmptyQueue, RemoveJobFromQueue).                                 *)
JobsConserved ==
    \A j \in Jobs :
       /\ fate[j] = "queued" <=>
             \E s \in Schedulers : j \in Range(queue[s])
       /\ fate[j] = "executing" <=> \E t \in Workers : job[t] = j
       /\ \A t1, t2 \in Workers : job[t1] = j /\ job[t2] = j => t1 = t2
       /\ \A s \in Schedulers : Cardinality({i \in DOMAIN queue[s] : queue[s][i] = j}) <= 1

(* A scheduler with private threads never sits on work: whenever its lock  *)
(* is free, it is not stopped and jobs wait, some worker runs (Schedule,   *)
(* Resume, AssignJob).                                                     *)
NoStall ==
    \A s \in Schedulers :
       /\ mutex[s] = None
       /\ stopCount[s] = 0
       /\ queue[s] # <<>>
       /\ ThreadCount[s] > 0
       => runningCount[s] > 0

(* A scheduler registered with the pool knows it (starved), and whoever    *)
(* was selected for notification is not registered any more.               *)
StarvingRegistered ==
    /\ \A s \in Range(starving) : starved[s]
    /\ IsInjective(starving)
    /\ \A t \in Workers : pc[t] = "notify" =>
          /\ starved[notified[t]]
          /\ notified[t] \notin Range(starving)

(* A worker in AssignJob never waits for the lock it holds, and two        *)
(* releasing workers never wait for each other's lock: Release notifies    *)
(* other schedulers with the own lock held.                                *)
NoLockCycle ==
    \A t1, t2 \in Workers :
       pc[t1] = "notify" /\ pc[t2] = "notify"
          => ~(mutex[notified[t1]] = t2 /\ mutex[notified[t2]] = t1)

(* Nobody uses a destroyed scheduler: no worker is owned by it, inside it  *)
(* or about to notify it, and the pool has forgotten it (~CJobScheduler).  *)
NoUseAfterDestruction ==
    \A s \in Schedulers : life[s] = "dead" =>
       /\ running[s] = {}
       /\ Leaving(s) = {}
       /\ s \notin Range(starving)
       /\ \A t \in born : owner[t] # s
       /\ \A t \in Workers : pc[t] \in {"notify", "allocate", "addStarving"}
                                => notified[t] # s

(* The program ends without leaving threads behind: once every scheduler   *)
(* is destroyed, ~CThreadPool joins every remaining thread.                *)
AllThreadsJoined ==
    /\ \A s \in Schedulers : life[s] = "dead"
    /\ maxCount = 0 /\ poolMutex = None
    => born = {}

-----------------------------------------------------------------------------
(***************************************************************************)
(* Liveness.  Workers are scheduled by the operating system and every job  *)
(* ends; a client that waits or holds a lock goes on.                      *)
(***************************************************************************)
Fairness ==
    /\ \A t \in Workers : WF_vars(WorkerStep(t))
    /\ \A t \in Workers : SF_vars(FinishJob(t))
    /\ \A c \in Clients : WF_vars(ClientContinues(c))

FairSpec == Spec /\ Fairness

\* The clients stop no scheduler for ever, or again and again.
EventuallyResumed == <>[](\A s \in Schedulers : stopCount[s] = 0)

(* Every queued job is eventually taken by a worker or removed, unless     *)
(* its scheduler is kept stopped (Schedule, Resume, AssignJob).            *)
QueuedJobsTaken ==
    EventuallyResumed => \A j \in Jobs : fate[j] = "queued" ~> fate[j] # "queued"

(* A client in WaitForEmptyQueue gets out of it: no wakeup is lost between *)
(* the test under the lock and the wait, whatever other clients schedule,  *)
(* remove, drain, stop or resume meanwhile.  The one exception is a job    *)
(* that was queued while the scheduler was stopped and had no worker, and  *)
(* given up before a worker ran: Schedule has reset emptyEvent for it, and *)
(* neither RemoveJobFromQueue nor the draining waiter sets it again.       *)
WaitersReturn ==
    EventuallyResumed =>
       \A c \in Clients :
          pc[c] = "wait" ~> pc[c] = "ready" \/ \E j \in Jobs : fate[j] = "abandoned"
=============================================================================
