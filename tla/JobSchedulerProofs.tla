------------------------- MODULE JobSchedulerProofs -------------------------
(***************************************************************************)
(* Proofs about JobScheduler, for any number of schedulers that share one  *)
(* pool of any size.  First the thread lists and the thread counters       *)
(* (SchedulerInv); then, on top of them, what the schedulers owe to the    *)
(* jobs, to one another and to whoever destroys them; the types last.      *)
(***************************************************************************)
EXTENDS JobScheduler, FiniteSetTheorems, TLAPS

\* Places of a worker that is on its way back to the pool.
LeavingPlaces == {"stopStarving", "select", "notify", "allocate", "addStarving",
                  "joinSelf"}

(* Types of what the lists and counters depend on.                         *)
ListType ==
    /\ running \in [Schedulers -> SUBSET Workers]
    /\ suspended \in [Schedulers -> SUBSET Workers]
    /\ runningCount \in [Schedulers -> Int]
    /\ suspendedCount \in [Schedulers -> Int]
    /\ yetToCreate \in [Schedulers -> Int]
    /\ fromShared \in [Schedulers -> Int]
    /\ unusedCount \in [Schedulers -> Int]
    /\ pool \in SUBSET Workers
    /\ born \in SUBSET Workers
    /\ owner \in [Workers -> Schedulers \cup {None}]
    /\ asleep \in [Workers -> BOOLEAN]

ControlType ==
    /\ life \in [Schedulers -> {"none", "live", "closing", "dead"}]
    /\ mutex \in [Schedulers -> Actors \cup {None}]
    /\ starving \in Seq(Schedulers)
    /\ pc \in [Actors -> ClientPlaces \cup WorkerPlaces]
    /\ at \in [Actors -> Schedulers \cup {None}]
    /\ notified \in [Actors -> Schedulers \cup Workers \cup {None}]
    /\ \A c \in Clients : pc[c] \in ClientPlaces
    /\ \A t \in Workers : pc[t] \in WorkerPlaces
    /\ \A c \in Clients : pc[c] \in ClientPlaces \ {"ready", "shrink", "join"}
                             => at[c] \in Schedulers

(* Who holds which lock: a worker that returns its thread keeps its own    *)
(* scheduler locked, and the one it notifies is another one.               *)
LockInv ==
    /\ \A c \in Clients : pc[c] \in {"resume", "addStarving"} => mutex[at[c]] = c
    /\ \A c \in Clients : pc[c] \in {"shrink", "join"} => poolMutex = c
    /\ \A t \in Workers : pc[t] \in LeavingPlaces =>
          at[t] \in Schedulers /\ mutex[at[t]] = t
    /\ \A t \in Workers : pc[t] \in {"notify", "allocate", "addStarving"} =>
          notified[t] \in Schedulers
    /\ \A t \in Workers : pc[t] \in {"allocate", "addStarving"} =>
          mutex[notified[t]] = t /\ notified[t] # at[t]

(* A thread is in one list at most; neither a worker that is about to be   *)
(* released nor one that is being joined is in any.                        *)
Listed(t) ==
    t \in pool \/ \E s \in Schedulers : t \in running[s] \/ t \in suspended[s]

ListInv ==
    /\ \A t \in Workers : Listed(t) => t \in born
    /\ \A s \in Schedulers : running[s] \cap pool = {} /\ suspended[s] \cap pool = {}
    /\ \A s1, s2 \in Schedulers : running[s1] \cap suspended[s2] = {}
    /\ \A s1, s2 \in Schedulers : s1 # s2 => /\ running[s1] \cap running[s2] = {}
                                             /\ suspended[s1] \cap suspended[s2] = {}
    /\ \A t \in Workers : pc[t] = "stopStarving" => t \in born /\ ~Listed(t) /\ asleep[t]
    /\ \A c \in Clients : pc[c] = "join" =>
          notified[c] \in born /\ ~Listed(notified[c]) /\ asleep[notified[c]]

(* Awake threads run for their owner.                                      *)
OwnerInv ==
    /\ \A s \in Schedulers, t \in Workers : t \in running[s] => owner[t] = s /\ ~asleep[t]
    /\ \A t \in Workers : ~asleep[t] => owner[t] \in Schedulers /\ t \in running[owner[t]]

(* A scheduler is constructed by one client, and destroyed for good.       *)
LifeInv ==
    /\ \A c \in Clients : pc[c] = "useAllCPUs" =>
          /\ life[at[c]] = "none"
          /\ \A d \in Clients : pc[d] = "useAllCPUs" /\ at[d] = at[c] => d = c
    /\ \A c \in Clients : pc[c] \in {"dtor", "dtorCheck", "dtorWait", "dtorBlocked"} =>
          life[at[c]] \in {"closing", "dead"}

(* The counters.  At most one worker leaves a scheduler, and then its debt *)
(* is not paid yet.                                                        *)
LeavingCount(s) == IF Leaving(s) = {} THEN 0 ELSE 1

CountInv ==
    \A s \in Schedulers :
       /\ IsFiniteSet(running[s]) /\ IsFiniteSet(suspended[s])
       /\ runningCount[s] = Cardinality(running[s]) + LeavingCount(s)
       /\ life[s] # "dead" => suspendedCount[s] = Cardinality(suspended[s])
       /\ unusedCount[s] = suspendedCount[s] + yetToCreate[s]
                              + SharedThreads[s] - fromShared[s]
       /\ runningCount[s] + unusedCount[s] = ThreadCount[s] + SharedThreads[s]
       /\ suspendedCount[s] >= 0 /\ yetToCreate[s] >= 0
       /\ 0 <= fromShared[s] /\ fromShared[s] <= SharedThreads[s]
       /\ fromShared[s] > 0 => suspendedCount[s] = 0 /\ yetToCreate[s] = 0

DebtInv ==
    \A t \in Workers : pc[t] \in LeavingPlaces => fromShared[at[t]] > 0

ControlInv == ControlType /\ LockInv /\ LifeInv
ThreadInv == ListType /\ ListInv /\ OwnerInv /\ DebtInv /\ CountInv
SchedulerInv == ControlInv /\ ThreadInv

-----------------------------------------------------------------------------
(***************************************************************************)
(* Control.                                                                *)
(***************************************************************************)

(* Clients, workers, schedulers and None are told apart.                   *)
LEMMA ActorsApart ==
    /\ \A c \in Clients : c \in Actors /\ c \notin Workers /\ c # None
    /\ \A t \in Workers : t \in Actors /\ t \notin Clients /\ t # None
    /\ \A s \in Schedulers : s # None
  BY ActorAssumption DEF Actors

(* Setting an event moves the threads that are blocked on it, and no other.*)
LEMMA WakeWaitingMoves ==
    ASSUME ControlType, NEW s \in Schedulers
    PROVE  /\ WakeWaiting(s) \in [Actors -> ClientPlaces \cup WorkerPlaces]
           /\ \A x \in Actors : WakeWaiting(s)[x] # pc[x] =>
                 x \in Workers /\ pc[x] = "blockedSome" /\ WakeWaiting(s)[x] = "wokenSome"
  BY DEF WakeWaiting, WakeIdle, ControlType, WorkerPlaces

(* The same for emptyEvent, whose waiters are clients.                     *)
LEMMA WakeEmptyMoves ==
    ASSUME NEW s \in Schedulers,
           NEW places \in [Actors -> ClientPlaces \cup WorkerPlaces],
           \A t \in Workers : places[t] \in WorkerPlaces
    PROVE  /\ WakeEmpty(s, places) \in [Actors -> ClientPlaces \cup WorkerPlaces]
           /\ \A x \in Actors : WakeEmpty(s, places)[x] # places[x] =>
                 /\ x \in Clients
                 /\ \/ places[x] = "blocked" /\ WakeEmpty(s, places)[x] = "check"
                    \/ places[x] = "dtorBlocked" /\ WakeEmpty(s, places)[x] = "dtorCheck"
  BY DEF WakeEmpty, Actors, ClientPlaces, WorkerPlaces

(* RemoveStarving leaves a list of schedulers.                             *)
LEMMA RemoveStarvingType ==
    ASSUME starving \in Seq(Schedulers), NEW s, RemoveStarving(s)
    PROVE  starving' \in Seq(Schedulers)
<1>1. PICK i \in 1 .. Len(starving) : starving' = RemoveAt(starving, i)
  BY DEF RemoveStarving
<1>2. /\ SubSeq(starving, 1, i - 1) \in Seq(Schedulers)
      /\ SubSeq(starving, i + 1, Len(starving)) \in Seq(Schedulers)
  BY <1>1
<1> QED BY <1>1, <1>2 DEF RemoveAt

(* A client that keeps, or takes, the lock of a scheduler.                 *)
LEMMA HoldControl ==
    ASSUME ControlInv, NEW c \in Clients, NEW s \in Schedulers, mutex[s] \in {None, c},
           pc[c] \in {"ready", "resume"}, NEW place \in {"resume", "addStarving"},
           Hold(c, s, place), UNCHANGED <<life, starving, notified, poolMutex>>
    PROVE  ControlInv'
<1> USE ActorsApart DEF ControlInv, ControlType, LockInv, LifeInv, LeavingPlaces,
                        ClientPlaces, WorkerPlaces
<1>1. /\ at' = [at EXCEPT ![c] = s]
      /\ pc' = [pc EXCEPT ![c] = place]
      /\ mutex' = [mutex EXCEPT ![s] = c]
  BY DEF Hold
<1>2. /\ at' \in [Actors -> Schedulers \cup {None}]
      /\ mutex' \in [Schedulers -> Actors \cup {None}]
      /\ pc' \in [Actors -> ClientPlaces \cup WorkerPlaces]
  BY <1>1
<1>3. /\ \A d \in Clients : pc'[d] \in ClientPlaces
      /\ \A t \in Workers : pc'[t] \in WorkerPlaces
      /\ \A d \in Clients : pc'[d] \in ClientPlaces \ {"ready", "shrink", "join"}
                               => at'[d] \in Schedulers
  BY <1>1
<1>4. ControlType'
  BY <1>2, <1>3
<1>5. LockInv'
  BY <1>1
<1>6. LifeInv'
  BY <1>1
<1> QED BY <1>4, <1>5, <1>6

(* Locks are passed on or given back by the actor that holds them.         *)
LEMMA ControlInductive ==
    ASSUME ControlInv, ListType, [Next]_vars
    PROVE  ControlInv'
<1> USE ActorsApart DEF ControlInv, ControlType, LockInv, LifeInv, LeavingPlaces,
                        ClientPlaces, WorkerPlaces, allocVars, starveVars, eventVars,
                        limitVars, jobVars, controlVars, countVars
<1>1. ASSUME NEW c \in Clients, AddStarving(c) PROVE ControlInv'
  BY <1>1 DEF AddStarving, Unlock
<1>2. ASSUME NEW c \in Clients, ResumeLoop(c) PROVE ControlInv'
  <2>1. /\ pc[c] = "resume"
        /\ at[c] \in Schedulers /\ mutex[at[c]] = c
    BY <1>2 DEF ResumeLoop
  <2>2. UNCHANGED <<life, starving, notified, poolMutex>>
    BY <1>2 DEF ResumeLoop, Granted, Refused, Starve
  <2>3. CASE Starve(c, at[c])
    <3>1. Hold(c, at[c], "addStarving")
      BY <2>3 DEF Starve
    <3> QED BY <2>1, <2>2, <3>1, HoldControl
  <2>4. CASE ~Starve(c, at[c])
    <3>1. /\ UNCHANGED at
          /\ \/ UNCHANGED <<mutex, pc>>
             \/ /\ mutex' = [mutex EXCEPT ![at[c]] = None]
                /\ pc' = [pc EXCEPT ![c] = "ready"]
      BY <1>2, <2>4 DEF ResumeLoop, Unlock
    <3>2. ControlType'
      BY <2>1, <2>2, <3>1
    <3>3. LockInv' /\ LifeInv'
      BY <2>1, <2>2, <3>1
    <3> QED BY <3>2, <3>3
  <2> QED BY <2>3, <2>4
<1>3. ASSUME NEW c \in Clients, CheckEmpty(c) PROVE ControlInv'
  BY <1>3 DEF CheckEmpty, Return
<1>4. ASSUME NEW c \in Clients, EnterWait(c) PROVE ControlInv'
  BY <1>4 DEF EnterWait
<1>5. ASSUME NEW c \in Clients, DestroyStopStarvation(c) PROVE ControlInv'
  BY <1>5, RemoveStarvingType DEF DestroyStopStarvation
<1>6. ASSUME NEW c \in Clients, UseAllCPUs(c) PROVE ControlInv'
  BY <1>6 DEF UseAllCPUs, SetThreadCount, Return
<1>7. ASSUME NEW c \in Clients, Shrink(c) PROVE ControlInv'
  <2>1. notified' \in [Actors -> Schedulers \cup Workers \cup {None}]
    <3>1. \A t \in pool : t \in Workers
      BY Zenon DEF ListType
    <3>2. \/ \E t \in pool : notified' = [notified EXCEPT ![c] = t]
          \/ notified' = notified
      BY <1>7 DEF Shrink
    <3> QED BY <3>1, <3>2
  <2>2. ControlType'
    BY <1>7, <2>1 DEF Shrink, Return
  <2>3. LockInv' /\ LifeInv'
    BY <1>7 DEF Shrink, Return
  <2> QED BY <2>2, <2>3
<1>8. ASSUME NEW c \in Clients, Join(c) PROVE ControlInv'
  BY <1>8 DEF Join
<1>9. ASSUME NEW c \in Clients, NEW s \in Schedulers, NEW j,
             Schedule(c, s, j)
      PROVE  ControlInv'
  <2>1. CASE Starve(c, s)
    BY <1>9, <2>1, HoldControl DEF Schedule, Enters, Ready, Starve
  <2>2. CASE ~Starve(c, s)
    BY <1>9, <2>2 DEF Schedule, Granted, Refused
  <2> QED BY <2>1, <2>2
<1>10. ASSUME NEW c \in Clients, NEW s \in Schedulers, NEW w, NEW o,
             RemoveJobFromQueue(c, s, w, o)
      PROVE  ControlInv'
  BY <1>10 DEF RemoveJobFromQueue
<1>11. ASSUME NEW c \in Clients, NEW s \in Schedulers, Stop(c, s) PROVE ControlInv'
  BY <1>11 DEF Stop
<1>12. ASSUME NEW c \in Clients, NEW s \in Schedulers, Resume(c, s) PROVE ControlInv'
  <2>1. CASE Hold(c, s, "resume")
    BY <1>12, <2>1, HoldControl DEF Resume, Enters, Ready
  <2>2. CASE ~Hold(c, s, "resume")
    BY <1>12, <2>2 DEF Resume
  <2> QED BY <2>1, <2>2
<1>13. ASSUME NEW c \in Clients, NEW s \in Schedulers,
             WaitForEmptyQueue(c, s)
      PROVE  ControlInv'
  BY <1>13 DEF WaitForEmptyQueue, Ready
<1>14. ASSUME NEW c \in Clients, NEW s \in Schedulers, Construct(c, s) PROVE ControlInv'
  <2>1. /\ pc[c] = "ready" /\ life[s] = "none"
        /\ \A d \in Clients : pc[d] = "useAllCPUs" => at[d] # s
        /\ UNCHANGED <<mutex, starving, notified, poolMutex>>
    BY <1>14 DEF Construct, Ready
  <2>2. CASE UNCHANGED <<pc, at>> /\ life' = [life EXCEPT ![s] = "live"]
    <3>1. ControlType'
      BY <2>1, <2>2
    <3>2. LockInv' /\ LifeInv'
      BY <2>1, <2>2
    <3> QED BY <3>1, <3>2
  <2>3. CASE /\ pc' = [pc EXCEPT ![c] = "useAllCPUs"]
             /\ at' = [at EXCEPT ![c] = s]
             /\ UNCHANGED life
    <3>1. ControlType'
      BY <2>1, <2>3
    <3>2. LockInv' /\ LifeInv'
      BY <2>1, <2>3
    <3> QED BY <3>1, <3>2
  <2> QED BY <1>14, <2>2, <2>3 DEF Construct
<1>15. ASSUME NEW c \in Clients, NEW s \in Schedulers, Destroy(c, s) PROVE ControlInv'
  BY <1>15 DEF Destroy, Ready
<1>16. ASSUME NEW c \in Clients, Timeout(c) PROVE ControlInv'
  BY <1>16 DEF Timeout, Return
<1>17. ASSUME NEW c \in Clients, NEW n, SetSharedThreadCount(c, n) PROVE ControlInv'
  <2>1. /\ pc[c] = "ready"
        /\ UNCHANGED <<life, mutex, starving, at, notified>>
        /\ poolMutex = None
        /\ \/ pc' = [pc EXCEPT ![c] = "shrink"] /\ poolMutex' = c
           \/ pc' = [pc EXCEPT ![c] = "ready"] /\ poolMutex' = None
    BY <1>17 DEF SetSharedThreadCount, SetThreadCount, Ready, Return
  <2>2. ControlType'
    BY <2>1
  <2>3. LockInv' /\ LifeInv'
    BY <2>1
  <2> QED BY <2>2, <2>3
<1>18. ASSUME NEW t \in Workers, NEW s \in Schedulers, TakeJob(t, s) PROVE ControlInv'
  BY <1>18, WakeWaitingMoves DEF TakeJob, EntersAssignJob
<1>19. ASSUME NEW t \in Workers, NEW s \in Schedulers,
             ParkPrivate(t, s)
      PROVE  ControlInv'
  <2>1. pc' = WakeWaiting(s) \/ pc' = WakeEmpty(s, WakeWaiting(s))
    BY <1>19 DEF ParkPrivate, Retire
  <2>2. /\ WakeWaiting(s) \in [Actors -> ClientPlaces \cup WorkerPlaces]
        /\ \A u \in Workers : WakeWaiting(s)[u] \in WorkerPlaces
    BY WakeWaitingMoves
  <2>3. /\ pc' \in [Actors -> ClientPlaces \cup WorkerPlaces]
        /\ \A x \in Actors : pc'[x] # pc[x] =>
              \/ x \in Workers /\ pc[x] = "blockedSome" /\ pc'[x] = "wokenSome"
              \/ x \in Clients /\ pc[x] = "blocked" /\ pc'[x] = "check"
              \/ x \in Clients /\ pc[x] = "dtorBlocked" /\ pc'[x] = "dtorCheck"
    BY <2>1, <2>2, WakeWaitingMoves, WakeEmptyMoves
  <2> QED BY <1>19, <2>3 DEF ParkPrivate, EntersAssignJob
<1>20. ASSUME NEW t \in Workers, NEW s \in Schedulers,
             LeaveRunning(t, s)
      PROVE  ControlInv'
  BY <1>20, WakeWaitingMoves DEF LeaveRunning, EntersAssignJob
<1>21. ASSUME NEW t \in Workers, StopStarvation(t) PROVE ControlInv'
  BY <1>21, RemoveStarvingType DEF StopStarvation
<1>22. ASSUME NEW t \in Workers, Release(t) PROVE ControlInv'
  <2> DEFINE places == [pc EXCEPT ![t] = "loop"]
  <2>1. /\ places \in [Actors -> ClientPlaces \cup WorkerPlaces]
        /\ \A u \in Workers : places[u] \in WorkerPlaces
    OBVIOUS
  <2>2. at[t] \in Schedulers /\ mutex[at[t]] = t
    BY <1>22 DEF Release
  <2>3. CASE EndRelease(t, at[t])
    <3>1. pc' = places \/ pc' = WakeEmpty(at[t], places)
      BY <2>3 DEF EndRelease, Retire
    <3> HIDE DEF places
    <3>2. \A x \in Actors : places[x] = IF x = t THEN "loop" ELSE pc[x]
      BY DEF places
    <3>3. /\ mutex' = [mutex EXCEPT ![at[t]] = None]
          /\ UNCHANGED <<life, starving, at, notified>>
          /\ poolMutex = None /\ poolMutex' \in {None, t}
          /\ pc[t] \in LeavingPlaces
      BY <1>22, <2>3 DEF Release, EndRelease
    <3>4. /\ pc' \in [Actors -> ClientPlaces \cup WorkerPlaces]
          /\ pc'[t] = "loop"
          /\ \A x \in Actors : x # t /\ pc'[x] # pc[x] =>
                /\ x \in Clients
                /\ \/ pc[x] = "blocked" /\ pc'[x] = "check"
                   \/ pc[x] = "dtorBlocked" /\ pc'[x] = "dtorCheck"
      BY <2>1, <2>2, <3>1, <3>2, WakeEmptyMoves
    <3>5. ControlType'
      BY <2>2, <3>3, <3>4
    <3>6. LockInv' /\ LifeInv'
      BY <2>2, <3>3, <3>4
    <3> QED BY <3>5, <3>6
  <2>4. CASE ~EndRelease(t, at[t])
    BY <1>22, <2>2, <2>4 DEF Release
  <2> QED BY <2>3, <2>4
<1>23. ASSUME NEW t \in Workers, SelectStarving(t) PROVE ControlInv'
  <2> DEFINE places == [pc EXCEPT ![t] = "loop"]
  <2>1. /\ places \in [Actors -> ClientPlaces \cup WorkerPlaces]
        /\ \A u \in Workers : places[u] \in WorkerPlaces
    OBVIOUS
  <2>2. at[t] \in Schedulers /\ mutex[at[t]] = t
    BY <1>23 DEF SelectStarving
  <2>3. CASE EndRelease(t, at[t]) /\ UNCHANGED <<starving, notified>>
    <3>1. pc' = places \/ pc' = WakeEmpty(at[t], places)
      BY <2>3 DEF EndRelease, Retire
    <3> HIDE DEF places
    <3>2. \A x \in Actors : places[x] = IF x = t THEN "loop" ELSE pc[x]
      BY DEF places
    <3> QED BY <1>23, <2>1, <2>2, <2>3, <3>1, <3>2, WakeEmptyMoves
            DEF SelectStarving, EndRelease
  <2>4. CASE /\ starving # <<>>
             /\ starving' = Tail(starving)
             /\ notified' = [notified EXCEPT ![t] = Head(starving)]
             /\ pc' = [pc EXCEPT ![t] = "notify"]
             /\ UNCHANGED mutex
    <3>1. Head(starving) \in Schedulers /\ starving' \in Seq(Schedulers)
      BY <2>4
    <3> QED BY <1>23, <2>2, <2>4, <3>1 DEF SelectStarving
  <2> QED BY <1>23, <2>3, <2>4 DEF SelectStarving
<1>24. ASSUME NEW t \in Workers, ThreadAvailable(t) PROVE ControlInv'
  BY <1>24 DEF ThreadAvailable
<1>25. ASSUME NEW t \in Workers, AllocateLoop(t) PROVE ControlInv'
  BY <1>25 DEF AllocateLoop, Starve, Unlock, Hold
<1>26. ASSUME NEW t \in Workers, AddStarving(t) PROVE ControlInv'
  BY <1>26 DEF AddStarving, Unlock
<1>27. ASSUME NEW t \in Workers, FinishJob(t) PROVE ControlInv'
  BY <1>27 DEF FinishJob
<1>28. ASSUME NEW t \in Workers, WaitForSomeJobs(t) PROVE ControlInv'
  BY <1>28 DEF WaitForSomeJobs, WakeIdle
<1>29. ASSUME NEW t \in Workers, EnterWaitForSome(t) PROVE ControlInv'
  BY <1>29 DEF EnterWaitForSome
<1>30. ASSUME NEW t \in Workers, LeaveWaitForSomeJobs(t) PROVE ControlInv'
  BY <1>30 DEF LeaveWaitForSomeJobs
<1>31. CASE UNCHANGED vars
  BY <1>31 DEF vars
<1> QED
  BY ZenonT(30), <1>1, <1>2, <1>3, <1>4, <1>5, <1>6, <1>7, <1>8, <1>9, <1>10, <1>11, <1>12,
     <1>13, <1>14, <1>15, <1>16, <1>17, <1>18, <1>19, <1>20, <1>21, <1>22, <1>23,
     <1>24, <1>25, <1>26, <1>27, <1>28, <1>29, <1>30, <1>31, Zenon
  DEF Next, ClientContinues, ClientCalls, WorkerStep

-----------------------------------------------------------------------------
(***************************************************************************)
(* Lists and counters.                                                     *)
(***************************************************************************)

lists == <<running, suspended, countVars, pool, born, owner, asleep>>

\* A step that touches no list and lets no worker begin or end its way back.
QuietStep ==
    /\ UNCHANGED lists
    /\ \A t \in Workers : pc'[t] \in LeavingPlaces <=> pc[t] \in LeavingPlaces
    /\ \A t \in Workers : pc[t] \in LeavingPlaces => at'[t] = at[t]
    /\ \A t \in Workers : pc'[t] = "stopStarving" => pc[t] = "stopStarving"
    /\ \A c \in Clients : pc'[c] = "join" => pc[c] = "join" /\ notified'[c] = notified[c]
    /\ \A s \in Schedulers : life'[s] # "dead" => life[s] # "dead"

(* Such a step keeps the lists and the counters.                           *)
LEMMA ThreadFrame ==
    ASSUME SchedulerInv, QuietStep
    PROVE  ThreadInv'
<1> USE DEF QuietStep, lists, countVars, SchedulerInv, ThreadInv
<1>1. ListType'
  BY DEF ListType
<1>2. ListInv'
  BY DEF ListInv, Listed
<1>3. OwnerInv'
  BY DEF OwnerInv
<1>4. DebtInv'
  BY DEF DebtInv
<1>5. \A s \in Schedulers : Leaving(s)' = Leaving(s)
  BY DEF Leaving, LeavingPlaces
<1>6. CountInv'
  BY <1>5 DEF CountInv, LeavingCount
<1> QED BY <1>1, <1>2, <1>3, <1>4, <1>6

(* Thread t, idle or new, starts to run for s; the lists shrink otherwise. *)
LEMMA StartThread ==
    ASSUME ListType, ListInv, OwnerInv, NEW s \in Schedulers, NEW t \in Workers,
           t \in born => Listed(t),
           \A u \in Schedulers : t \notin running[u],
           StartRunning(s, t),
           suspended' \in [Schedulers -> SUBSET Workers],
           \A u \in Schedulers : suspended'[u] \subseteq suspended[u] \ {t},
           pool' \subseteq pool \ {t},
           born' = born \cup {t},
           UNCHANGED <<pc, notified>>
    PROVE  ListInv' /\ OwnerInv'
<1> USE DEF ListType
<1>1. /\ running' = [running EXCEPT ![s] = @ \cup {t}]
      /\ owner' = [owner EXCEPT ![t] = s]
      /\ asleep' = [asleep EXCEPT ![t] = FALSE]
  BY DEF StartRunning
<1>2. \A v \in Workers : v # t => /\ Listed(v)' => Listed(v)
                                  /\ asleep'[v] = asleep[v]
  BY <1>1 DEF Listed
<1>3. \A v \in Workers : pc[v] = "stopStarving" => v # t
  BY DEF ListInv
<1>4. \A c \in Clients : pc[c] = "join" => notified[c] # t
  BY DEF ListInv
<1>5. ListInv'
  BY <1>1, <1>2, <1>3, <1>4 DEF ListInv
<1>6. OwnerInv'
  BY <1>1 DEF OwnerInv
<1> QED BY <1>5, <1>6

\* Where the thread comes from, as the counters see it.
Parked(s, t) ==
    /\ t \in suspended[s] /\ suspendedCount[s] > 0
    /\ suspended' = [suspended EXCEPT ![s] = @ \ {t}]
    /\ suspendedCount' = [suspendedCount EXCEPT ![s] = @ - 1]
    /\ UNCHANGED <<yetToCreate, fromShared>>

Created(s) ==
    /\ yetToCreate[s] > 0
    /\ yetToCreate' = [yetToCreate EXCEPT ![s] = @ - 1]
    /\ UNCHANGED <<suspended, suspendedCount, fromShared>>

Borrowed(s) ==
    /\ WantsShared(s)
    /\ fromShared' = [fromShared EXCEPT ![s] = @ + 1]
    /\ UNCHANGED <<suspended, suspendedCount, yetToCreate>>

(* The counters of s when a thread starts to run for it.                   *)
LEMMA StartCounts ==
    ASSUME ListType, CountInv, NEW s \in Schedulers, NEW t \in Workers,
           t \notin running[s], StartRunning(s, t), UNCHANGED <<life, pc, at>>,
           Parked(s, t) \/ Created(s) \/ Borrowed(s)
    PROVE  CountInv'
<1> SUFFICES ASSUME NEW u \in Schedulers PROVE CountInv!(u)'
  BY DEF CountInv
<1> USE ConstructorAssumption DEF ListType
<1>1. LeavingCount(u)' = LeavingCount(u) /\ LeavingCount(u) \in Int
  BY DEF LeavingCount, Leaving
<1>2. CountInv!(u)
  BY DEF CountInv
<1>3. CASE u # s
  BY <1>1, <1>2, <1>3 DEF StartRunning, Parked, Created, Borrowed
<1>4. CASE u = s
  <2>1. /\ IsFiniteSet(running[s] \cup {t})
        /\ Cardinality(running[s] \cup {t}) = Cardinality(running[s]) + 1
        /\ Cardinality(running[s]) \in Nat
    BY <1>2, <1>4, FS_AddElement, FS_CardinalityType
  <2>2. /\ IsFiniteSet(suspended[s] \ {t})
        /\ t \in suspended[s] =>
              Cardinality(suspended[s] \ {t}) = Cardinality(suspended[s]) - 1
        /\ Cardinality(suspended[s]) \in Nat
    BY <1>2, <1>4, FS_RemoveElement, FS_CardinalityType
  <2>3. /\ running'[s] = running[s] \cup {t}
        /\ runningCount'[s] = runningCount[s] + 1
        /\ unusedCount'[s] = unusedCount[s] - 1
    BY DEF StartRunning
  <2>4. /\ IsFiniteSet(running'[s])
        /\ runningCount'[s] = Cardinality(running'[s]) + LeavingCount(s)'
    BY <1>1, <1>2, <1>4, <2>1, <2>3
  <2>5. /\ IsFiniteSet(suspended'[s])
        /\ life'[s] # "dead" => suspendedCount'[s] = Cardinality(suspended'[s])
    <3>1. CASE Parked(s, t)
      BY <1>2, <1>4, <2>2, <3>1 DEF Parked
    <3>2. CASE Created(s)
      BY <1>2, <1>4, <2>2, <3>2 DEF Created
    <3>3. CASE Borrowed(s)
      BY <1>2, <1>4, <2>2, <3>3 DEF Borrowed
    <3> QED BY <3>1, <3>2, <3>3
  <2>6. /\ unusedCount'[s] = suspendedCount'[s] + yetToCreate'[s]
                                + SharedThreads[s] - fromShared'[s]
        /\ runningCount'[s] + unusedCount'[s] = ThreadCount[s] + SharedThreads[s]
        /\ suspendedCount'[s] >= 0 /\ yetToCreate'[s] >= 0
        /\ 0 <= fromShared'[s] /\ fromShared'[s] <= SharedThreads[s]
        /\ fromShared'[s] > 0 => suspendedCount'[s] = 0 /\ yetToCreate'[s] = 0
    <3>1. CASE Parked(s, t)
      BY <1>2, <1>4, <2>3, <3>1 DEF Parked
    <3>2. CASE Created(s)
      BY <1>2, <1>4, <2>3, <3>2 DEF Created
    <3>3. CASE Borrowed(s)
      BY <1>2, <1>4, <2>3, <3>3 DEF Borrowed, WantsShared
    <3> QED BY <3>1, <3>2, <3>3
  <2> QED BY <1>4, <2>4, <2>5, <2>6
<1> QED BY <1>3, <1>4

(* AllocateThread takes a thread of its own, creates one or borrows one.   *)
LEMMA GrantThreads ==
    ASSUME SchedulerInv, NEW s \in Schedulers,
           RecycleSuspended(s) \/ CreatePrivate(s) \/ BorrowShared(s),
           UNCHANGED <<life, pc, at, notified>>
    PROVE  ThreadInv'
<1> USE DEF SchedulerInv, ThreadInv
<1>1. \E t \in Workers :
         /\ t \in born => Listed(t)
         /\ \A u \in Schedulers : t \notin running[u]
         /\ StartRunning(s, t)
         /\ suspended' \in [Schedulers -> SUBSET Workers]
         /\ \A u \in Schedulers : suspended'[u] \subseteq suspended[u] \ {t}
         /\ pool' \subseteq pool \ {t}
         /\ born' = born \cup {t}
         /\ Parked(s, t) \/ Created(s) \/ Borrowed(s)
  <2>1. CASE RecycleSuspended(s)
    <3>1. PICK t \in suspended[s] : /\ StartRunning(s, t)
                                    /\ suspended' = [suspended EXCEPT ![s] = @ \ {t}]
      BY <2>1 DEF RecycleSuspended
    <3>2. t \in Workers /\ t \in born /\ Listed(t)
      BY <3>1 DEF ListType, ListInv, Listed
    <3>3. \A u \in Schedulers : t \notin running[u]
      BY <3>1 DEF ListInv
    <3>4. \A u \in Schedulers : u # s => t \notin suspended[u]
      BY <3>1 DEF ListInv
    <3>5. t \notin pool
      BY <3>1 DEF ListInv
    <3>6. /\ suspended' \in [Schedulers -> SUBSET Workers]
          /\ \A u \in Schedulers : suspended'[u] \subseteq suspended[u] \ {t}
      BY <3>1, <3>4 DEF ListType
    <3>7. born' = born \cup {t} /\ pool' \subseteq pool \ {t}
      BY <2>1, <3>2, <3>5 DEF RecycleSuspended
    <3>8. Parked(s, t)
      BY <2>1, <3>1 DEF RecycleSuspended, Parked
    <3> QED BY <3>1, <3>2, <3>3, <3>6, <3>7, <3>8
  <2>2. CASE CreatePrivate(s)
    <3>1. PICK t \in Workers \ born : StartRunning(s, t) /\ born' = born \cup {t}
      BY <2>2 DEF CreatePrivate
    <3>2. ~Listed(t)
      BY <3>1 DEF ListInv
    <3> QED BY <2>2, <3>1, <3>2 DEF CreatePrivate, ListType, Listed, Created
  <2>3. CASE BorrowShared(s)
    <3>1. PICK t \in Workers : (RecycleShared(t) \/ CreateShared(t)) /\ StartRunning(s, t)
      BY <2>3 DEF BorrowShared
    <3>2. CASE RecycleShared(t)
      <4>1. t \in pool /\ t \in born /\ Listed(t)
        BY <3>2 DEF RecycleShared, ListInv, Listed
      <4>2. \A u \in Schedulers : t \notin running[u] /\ t \notin suspended[u]
        BY <4>1 DEF ListInv
      <4> QED BY <2>3, <3>1, <3>2, <4>1, <4>2 DEF BorrowShared, RecycleShared, ListType,
                                                      Borrowed
    <3>3. CASE CreateShared(t)
      <4>1. ~Listed(t)
        BY <3>3 DEF CreateShared, ListInv
      <4> QED BY <2>3, <3>1, <3>3, <4>1 DEF BorrowShared, CreateShared, ListType, Listed,
                                                 Borrowed
    <3> QED BY <3>1, <3>2, <3>3
  <2> QED BY <2>1, <2>2, <2>3
<1>2. ListInv' /\ OwnerInv'
  BY <1>1, StartThread
<1>3. CountInv'
  BY <1>1, StartCounts
<1>4. ListType'
  <2>1. \A t \in Workers : StartRunning(s, t) =>
           /\ running' \in [Schedulers -> SUBSET Workers]
           /\ runningCount' \in [Schedulers -> Int]
           /\ unusedCount' \in [Schedulers -> Int]
           /\ owner' \in [Workers -> Schedulers \cup {None}]
           /\ asleep' \in [Workers -> BOOLEAN]
    BY DEF StartRunning, ListType
  <2>2. pool' \in SUBSET Workers /\ born' \in SUBSET Workers
    BY <1>1 DEF ListType
  <2>3. /\ suspendedCount' \in [Schedulers -> Int]
        /\ yetToCreate' \in [Schedulers -> Int]
        /\ fromShared' \in [Schedulers -> Int]
    BY <1>1 DEF ListType, Parked, Created, Borrowed
  <2> QED BY <1>1, <2>1, <2>2, <2>3 DEF ListType
<1>5. DebtInv'
  <2>1. \A u \in Schedulers : fromShared'[u] >= fromShared[u]
    BY <1>1 DEF ListType, Parked, Created, Borrowed
  <2>2. \A t \in Workers : pc[t] \in LeavingPlaces => at[t] \in Schedulers
    BY DEF ControlInv, LockInv
  <2>3. \A u \in Schedulers : fromShared[u] \in Int /\ fromShared'[u] \in Int
    BY <1>4 DEF ListType
  <2> QED BY <2>1, <2>2, <2>3 DEF DebtInv
<1> QED BY <1>2, <1>3, <1>4, <1>5

(* A destroyed scheduler joins its parked threads.                         *)
LEMMA CheckEmptyThreads ==
    ASSUME SchedulerInv, NEW c \in Clients, CheckEmpty(c)
    PROVE  ThreadInv'
<1> DEFINE s == at[c]
<1> USE ActorsApart DEF SchedulerInv, ControlInv
<1>1. /\ c \in Actors /\ c \notin Workers /\ s \in Schedulers
      /\ pc' = [pc EXCEPT ![c] = pc'[c]] /\ pc'[c] # "join"
      /\ UNCHANGED <<running, countVars, pool, owner, asleep, at, notified>>
  BY DEF CheckEmpty, ControlType, ClientPlaces, Return, countVars
<1>2. /\ \A t \in Workers : pc'[t] = pc[t]
      /\ \A d \in Clients : pc'[d] = "join" => pc[d] = "join"
  BY <1>1 DEF ControlType
<1>3. CASE UNCHANGED <<suspended, born, life>>
  BY <1>1, <1>2, <1>3, ThreadFrame DEF QuietStep, lists
<1>4. CASE TerminatePrivate(s) /\ life' = [life EXCEPT ![s] = "dead"]
  <2> USE DEF ThreadInv
  <2>1. /\ suspended' = [suspended EXCEPT ![s] = {}] /\ born' = born \ suspended[s]
        /\ suspended' \in [Schedulers -> SUBSET Workers] /\ born' \in SUBSET Workers
    BY <1>1, <1>4 DEF TerminatePrivate, ListType
  <2>2. ListType'
    BY <1>1, <2>1 DEF ListType, countVars
  <2>3. \A u \in Schedulers : suspended'[u] = IF u = s THEN {} ELSE suspended[u]
    BY <1>1, <2>1 DEF ListType
  <2>4. \A t \in Workers : Listed(t)' => Listed(t) /\ t \notin suspended[s]
    BY <1>1, <2>3 DEF Listed, ListInv
  <2>5. ListInv'
    BY <1>1, <1>2, <2>1, <2>3, <2>4 DEF ListInv, Listed
  <2>6. OwnerInv'
    BY <1>1 DEF OwnerInv
  <2>7. DebtInv'
    BY <1>1, <1>2 DEF DebtInv, countVars
  <2>8. \A u \in Schedulers : Leaving(u)' = Leaving(u)
    BY <1>1, <1>2 DEF Leaving
  <2>9. CountInv'
    BY <1>1, <1>4, <2>3, <2>8, FS_EmptySet
    DEF CountInv, LeavingCount, countVars, ControlType
  <2> QED BY <2>2, <2>5, <2>6, <2>7, <2>9
<1> QED BY <1>3, <1>4 DEF CheckEmpty

(* SetThreadCount takes surplus threads out of the pool ...                *)
LEMMA ShrinkThreads ==
    ASSUME SchedulerInv, NEW c \in Clients, Shrink(c)
    PROVE  ThreadInv'
<1> USE ActorsApart DEF SchedulerInv, ControlInv
<1>1. /\ UNCHANGED <<running, suspended, countVars, born, owner, asleep, at, life>>
      /\ pc' = [pc EXCEPT ![c] = pc'[c]]
      /\ \A t \in Workers : pc'[t] = pc[t]
      /\ \A d \in Clients : d # c => pc'[d] = pc[d]
  BY DEF Shrink, Return, ControlType, countVars
<1>2. CASE /\ UNCHANGED <<pool, notified>> /\ Return(c)
  BY <1>1, <1>2, ThreadFrame DEF QuietStep, lists, Return, ControlType
<1>3. ASSUME NEW v \in pool, pool' = pool \ {v}, notified' = [notified EXCEPT ![c] = v]
      PROVE  ThreadInv'
  <2> USE DEF ThreadInv
  <2>1. v \in Workers /\ v \in born /\ asleep[v]
    BY DEF ListType, ListInv, OwnerInv, Listed
  <2>2. \A u \in Schedulers : v \notin running[u] /\ v \notin suspended[u]
    BY DEF ListInv
  <2>3. ListType'
    BY <1>1, <1>3 DEF ListType, countVars
  <2>4. \A t \in Workers : Listed(t)' <=> Listed(t) /\ t # v
    BY <1>1, <1>3, <2>2 DEF Listed
  <2>5. /\ notified'[c] = v
        /\ \A d \in Clients : d # c => notified'[d] = notified[d]
    BY <1>3 DEF ControlType
  <2>6. ListInv'
    BY <1>1, <1>3, <2>1, <2>4, <2>5 DEF ListInv, ListType
  <2>7. OwnerInv'
    BY <1>1 DEF OwnerInv
  <2>8. DebtInv'
    BY <1>1 DEF DebtInv, countVars
  <2>9. \A u \in Schedulers : Leaving(u)' = Leaving(u)
    BY <1>1 DEF Leaving
  <2>10. CountInv'
    BY <1>1, <2>9 DEF CountInv, LeavingCount, countVars
  <2> QED BY <2>3, <2>6, <2>7, <2>8, <2>10
<1> QED BY <1>2, <1>3 DEF Shrink

(* ... and joins them.                                                     *)
LEMMA JoinThreads ==
    ASSUME SchedulerInv, NEW c \in Clients, Join(c)
    PROVE  ThreadInv'
<1> USE ActorsApart DEF SchedulerInv, ControlInv, ThreadInv
<1>1. /\ UNCHANGED <<running, suspended, countVars, pool, owner, asleep, at, life>>
      /\ pc' = [pc EXCEPT ![c] = "shrink"]
      /\ \A t \in Workers : pc'[t] = pc[t]
      /\ \A d \in Clients : d # c => pc'[d] = pc[d] /\ notified'[d] = notified[d]
      /\ pc'[c] = "shrink"
      /\ born' = born \ {notified[c]}
      /\ ~Listed(notified[c]) /\ pc[notified[c]] = "loop"
  BY DEF Join, ControlType, countVars, limitVars, ListInv
<1>2. \A d \in Clients : pc[d] = "join" => d = c
  BY DEF Join, LockInv
<1>3. ListType'
  BY <1>1 DEF ListType, countVars
<1>4. \A t \in Workers : Listed(t)' <=> Listed(t)
  BY <1>1 DEF Listed
<1>5. ListInv'
  BY <1>1, <1>2, <1>4 DEF ListInv, ListType
<1>6. OwnerInv'
  BY <1>1 DEF OwnerInv
<1>7. DebtInv'
  BY <1>1 DEF DebtInv, countVars
<1>8. \A u \in Schedulers : Leaving(u)' = Leaving(u)
  BY <1>1 DEF Leaving
<1>9. CountInv'
  BY <1>1, <1>8 DEF CountInv, LeavingCount, countVars
<1> QED BY <1>3, <1>5, <1>6, <1>7, <1>9

(* Thread t, which ran for s, leaves the running list and is not in any    *)
(* other list afterwards.                                                  *)
LEMMA LeaveList ==
    ASSUME SchedulerInv, NEW s \in Schedulers, NEW t \in running[s],
           running' = [running EXCEPT ![s] = @ \ {t}],
           asleep' = [asleep EXCEPT ![t] = TRUE]
    PROVE  /\ t \in Workers /\ t \in born /\ t \notin pool
           /\ running' \in [Schedulers -> SUBSET Workers]
           /\ asleep' \in [Workers -> BOOLEAN]
           /\ \A u \in Schedulers : t \notin running'[u] /\ t \notin suspended[u]
           /\ \A u \in Schedulers : running'[u] = IF u = s THEN running[s] \ {t}
                                                          ELSE running[u]
           /\ \A c \in Clients : pc[c] = "join" => notified[c] # t
           /\ UNCHANGED owner => OwnerInv'
           /\ IsFiniteSet(running[s] \ {t})
           /\ Cardinality(running[s] \ {t}) = Cardinality(running[s]) - 1
           /\ Cardinality(running[s]) \in Nat /\ Cardinality(running[s]) > 0
<1> USE DEF SchedulerInv, ThreadInv
<1>1. t \in Workers /\ Listed(t)
  BY DEF ListType, Listed
<1>2. t \in born /\ t \notin pool
  BY <1>1 DEF ListInv
<1>3. /\ running' \in [Schedulers -> SUBSET Workers]
      /\ asleep' \in [Workers -> BOOLEAN]
      /\ \A u \in Schedulers : running'[u] = IF u = s THEN running[s] \ {t}
                                                     ELSE running[u]
  BY DEF ListType
<1>4. \A u \in Schedulers : t \notin running'[u] /\ t \notin suspended[u]
  BY <1>3 DEF ListInv
<1>5. \A c \in Clients : pc[c] = "join" => notified[c] # t
  BY <1>1 DEF ListInv
<1>6. UNCHANGED owner => OwnerInv'
  BY <1>1, <1>3 DEF OwnerInv, ListType
<1>7. IsFiniteSet(running[s])
  BY DEF CountInv
<1>8. /\ IsFiniteSet(running[s] \ {t})
      /\ Cardinality(running[s] \ {t}) = Cardinality(running[s]) - 1
      /\ Cardinality(running[s]) \in Nat /\ Cardinality(running[s]) # 0
  BY <1>7, FS_RemoveElement, FS_CardinalityType, FS_EmptySet
<1> QED BY <1>1, <1>2, <1>3, <1>4, <1>5, <1>6, <1>8

(* A free lock means that nobody is on the way back.                       *)
LEMMA NobodyLeaves ==
    ASSUME SchedulerInv, NEW s \in Schedulers, mutex[s] = None
    PROVE  Leaving(s) = {}
  BY ActorsApart DEF SchedulerInv, ControlInv, LockInv, Leaving, LeavingPlaces

(* A worker without work and debt is parked, or ended.                     *)
LEMMA ParkThreads ==
    ASSUME SchedulerInv, NEW t \in Workers, NEW s \in Schedulers, ParkPrivate(t, s)
    PROVE  ThreadInv'
<1> USE ActorsApart DEF SchedulerInv, ControlInv, ThreadInv
<1>1. /\ t \in running[s] /\ mutex[s] = None /\ fromShared[s] = 0 /\ pc[t] = "loop"
      /\ running' = [running EXCEPT ![s] = @ \ {t}]
      /\ asleep' = [asleep EXCEPT ![t] = TRUE]
      /\ UNCHANGED <<fromShared, pool, owner, at, notified, life>>
      /\ unusedCount' = [unusedCount EXCEPT ![s] = @ + 1]
      /\ runningCount' = [runningCount EXCEPT ![s] = @ - 1]
  BY DEF ParkPrivate, EntersAssignJob, Retire, CountUnused, limitVars
<1>2. /\ \A v \in Workers : pc'[v] # pc[v] => pc[v] = "blockedSome" /\ pc'[v] = "wokenSome"
      /\ \A c \in Clients : pc'[c] = "join" => pc[c] = "join"
  <2>1. pc' = WakeWaiting(s) \/ pc' = WakeEmpty(s, WakeWaiting(s))
    BY DEF ParkPrivate, Retire
  <2>2. \A v \in Workers : WakeWaiting(s)[v] \in WorkerPlaces
    BY WakeWaitingMoves DEF ControlType, WorkerPlaces
  <2> QED BY <2>1, <2>2, WakeWaitingMoves, WakeEmptyMoves
<1>3. /\ \A v \in Workers : pc'[v] \in LeavingPlaces <=> pc[v] \in LeavingPlaces
      /\ \A v \in Workers : pc'[v] = "stopStarving" => pc[v] = "stopStarving" /\ v # t
  BY <1>1, <1>2 DEF LeavingPlaces
<1>4. \A u \in Schedulers : LeavingCount(u)' = LeavingCount(u)
  BY <1>1, <1>3 DEF LeavingCount, Leaving, LeavingPlaces
<1>5. LeavingCount(s) = 0
  BY <1>1, NobodyLeaves DEF LeavingCount
<1>6. /\ t \in born /\ t \notin pool
      /\ running' \in [Schedulers -> SUBSET Workers]
      /\ asleep' \in [Workers -> BOOLEAN]
      /\ \A u \in Schedulers : t \notin running'[u] /\ t \notin suspended[u]
      /\ \A u \in Schedulers : running'[u] = IF u = s THEN running[s] \ {t}
                                                     ELSE running[u]
      /\ \A c \in Clients : pc[c] = "join" => notified[c] # t
      /\ OwnerInv'
  BY <1>1, LeaveList
<1>7. /\ IsFiniteSet(running[s] \ {t})
      /\ Cardinality(running[s] \ {t}) = Cardinality(running[s]) - 1
      /\ Cardinality(running[s]) \in Nat
  BY <1>1, LeaveList
<1>8. DebtInv'
  BY <1>1, <1>3 DEF DebtInv
<1>9. /\ runningCount'[s] = Cardinality(running'[s]) + LeavingCount(s)'
      /\ IsFiniteSet(running'[s])
      /\ runningCount'[s] + unusedCount'[s] = ThreadCount[s] + SharedThreads[s]
      /\ unusedCount'[s] = unusedCount[s] + 1
  BY <1>1, <1>4, <1>5, <1>6, <1>7, ConstructorAssumption DEF CountInv, ListType
<1>10. CASE /\ yetToCreate' = [yetToCreate EXCEPT ![s] = @ + 1]
            /\ born' = born \ {t}
            /\ UNCHANGED <<suspended, suspendedCount>>
  <2>1. ListType'
    BY <1>1, <1>6, <1>10 DEF ListType
  <2>2. \A v \in Workers : Listed(v)' => Listed(v) /\ v # t
    BY <1>1, <1>6, <1>10 DEF Listed
  <2>3. ListInv'
    BY <1>1, <1>2, <1>3, <1>6, <1>10, <2>2 DEF ListInv, ListType
  <2>4. CountInv'
    <3> SUFFICES ASSUME NEW u \in Schedulers PROVE CountInv!(u)'
      BY DEF CountInv
    <3>1. CASE u = s
      <4>1. /\ yetToCreate'[s] = yetToCreate[s] + 1
            /\ suspendedCount'[s] = suspendedCount[s]
            /\ fromShared'[s] = 0 /\ suspended'[s] = suspended[s] /\ life'[s] = life[s]
        BY <1>1, <1>10 DEF ListType
      <4>2. CountInv!(s)
        BY DEF CountInv
      <4>3. /\ SharedThreads[s] \in Nat /\ yetToCreate[s] \in Int
            /\ suspendedCount[s] \in Int /\ unusedCount[s] \in Int
        BY ConstructorAssumption DEF ListType
      <4> QED BY <1>1, <1>9, <3>1, <4>1, <4>2, <4>3
    <3>2. CASE u # s
      BY <1>1, <1>4, <1>6, <1>10, <3>2 DEF CountInv, ListType
    <3> QED BY <3>1, <3>2
  <2> QED BY <1>6, <1>8, <2>1, <2>3, <2>4
<1>11. CASE /\ suspended' = [suspended EXCEPT ![s] = @ \cup {t}]
            /\ suspendedCount' = [suspendedCount EXCEPT ![s] = @ + 1]
            /\ UNCHANGED <<yetToCreate, born>>
  <2>1. ListType'
    BY <1>1, <1>6, <1>11 DEF ListType
  <2>2. \A u \in Schedulers : suspended'[u] = IF u = s THEN suspended[s] \cup {t}
                                                      ELSE suspended[u]
    BY <1>11 DEF ListType
  <2>3. \A v \in Workers : v # t => (Listed(v)' => Listed(v))
    BY <1>1, <1>6, <2>2 DEF Listed
  <2>4. ListInv'
    <3>1. \A v \in Workers : Listed(v)' => v \in born'
      BY <1>6, <1>11, <2>3 DEF ListInv
    <3>2. \A u \in Schedulers : /\ running'[u] \cap pool' = {}
                                /\ suspended'[u] \cap pool' = {}
      BY <1>1, <1>6, <2>2 DEF ListInv
    <3>3. \A u1, u2 \in Schedulers : running'[u1] \cap suspended'[u2] = {}
      BY <1>1, <1>6, <2>2 DEF ListInv
    <3>4. \A u1, u2 \in Schedulers : u1 # u2 => /\ running'[u1] \cap running'[u2] = {}
                                                /\ suspended'[u1] \cap suspended'[u2] = {}
      BY <1>1, <1>6, <2>2 DEF ListInv
    <3>5. \A v \in Workers : pc'[v] = "stopStarving" =>
             v \in born' /\ ~Listed(v)' /\ asleep'[v]
      BY <1>1, <1>3, <1>11, <2>3 DEF ListInv, ListType
    <3>6. \A c \in Clients : pc'[c] = "join" =>
             notified'[c] \in born' /\ ~Listed(notified[c])' /\ asleep'[notified[c]]
      BY <1>1, <1>2, <1>6, <1>11, <2>3 DEF ListInv, ListType
    <3> QED BY <1>1, <3>1, <3>2, <3>3, <3>4, <3>5, <3>6 DEF ListInv
  <2>5. /\ IsFiniteSet(suspended[s] \cup {t})
        /\ Cardinality(suspended[s] \cup {t}) = Cardinality(suspended[s]) + 1
        /\ Cardinality(suspended[s]) \in Nat
    BY <1>6, FS_AddElement, FS_CardinalityType DEF CountInv
  <2>6. CountInv'
    <3> SUFFICES ASSUME NEW u \in Schedulers PROVE CountInv!(u)'
      BY DEF CountInv
    <3>1. CASE u = s
      <4>1. /\ yetToCreate'[s] = yetToCreate[s]
            /\ suspendedCount'[s] = suspendedCount[s] + 1
            /\ fromShared'[s] = 0 /\ suspended'[s] = suspended[s] \cup {t}
            /\ life'[s] = life[s]
        BY <1>1, <1>11, <2>2 DEF ListType
      <4>2. CountInv!(s)
        BY DEF CountInv
      <4>3. /\ SharedThreads[s] \in Nat /\ yetToCreate[s] \in Int
            /\ suspendedCount[s] \in Int /\ unusedCount[s] \in Int
        BY ConstructorAssumption DEF ListType
      <4> QED BY <1>1, <1>9, <2>5, <3>1, <4>1, <4>2, <4>3
    <3>2. CASE u # s
      BY <1>1, <1>4, <1>6, <1>11, <2>2, <3>2 DEF CountInv, ListType
    <3> QED BY <3>1, <3>2
  <2> QED BY <1>6, <1>8, <2>1, <2>4, <2>6
<1> QED BY <1>10, <1>11 DEF ParkPrivate

(* A worker without work pays a debt: it leaves the list but still counts  *)
(* as running.                                                             *)
LEMMA LeaveThreads ==
    ASSUME SchedulerInv, NEW t \in Workers, NEW s \in Schedulers, LeaveRunning(t, s)
    PROVE  ThreadInv'
<1> USE ActorsApart DEF SchedulerInv, ControlInv, ThreadInv
<1>1. /\ t \in running[s] /\ mutex[s] = None /\ fromShared[s] > 0 /\ pc[t] = "loop"
      /\ running' = [running EXCEPT ![s] = @ \ {t}]
      /\ asleep' = [asleep EXCEPT ![t] = TRUE]
      /\ at' = [at EXCEPT ![t] = s]
      /\ UNCHANGED <<suspended, countVars, pool, born, owner, notified, life>>
  BY DEF LeaveRunning, EntersAssignJob, limitVars
<1>2. /\ pc'[t] = "stopStarving"
      /\ \A v \in Workers : v # t => /\ pc'[v] \in LeavingPlaces <=> pc[v] \in LeavingPlaces
                                     /\ pc'[v] = "stopStarving" => pc[v] = "stopStarving"
      /\ \A c \in Clients : pc'[c] = "join" => pc[c] = "join"
  BY WakeWaitingMoves DEF LeaveRunning, LeavingPlaces
<1>3. /\ t \in born /\ t \notin pool
      /\ running' \in [Schedulers -> SUBSET Workers]
      /\ asleep' \in [Workers -> BOOLEAN]
      /\ \A u \in Schedulers : t \notin running'[u] /\ t \notin suspended[u]
      /\ \A u \in Schedulers : running'[u] = IF u = s THEN running[s] \ {t}
                                                     ELSE running[u]
      /\ \A c \in Clients : pc[c] = "join" => notified[c] # t
      /\ OwnerInv'
  BY <1>1, LeaveList
<1>4. /\ IsFiniteSet(running[s] \ {t})
      /\ Cardinality(running[s] \ {t}) = Cardinality(running[s]) - 1
      /\ Cardinality(running[s]) \in Nat
  BY <1>1, LeaveList
<1>5. ListType'
  BY <1>1, <1>3 DEF ListType, countVars
<1>6. \A v \in Workers : Listed(v)' => Listed(v) /\ v # t
  BY <1>1, <1>3 DEF Listed
<1>7. ListInv'
  BY <1>1, <1>2, <1>3, <1>6 DEF ListInv, ListType
<1>8. /\ at'[t] = s
      /\ \A v \in Workers : v # t => at'[v] = at[v]
  BY <1>1 DEF ControlType
<1>9. DebtInv'
  BY <1>1, <1>2, <1>8 DEF DebtInv, countVars
<1>10. LeavingCount(s) = 0 /\ LeavingCount(s)' = 1
  <2>1. t \in Leaving(s)'
    BY <1>2, <1>8 DEF Leaving
  <2> QED BY <1>1, <2>1, NobodyLeaves DEF LeavingCount
<1>11. \A u \in Schedulers : u # s => LeavingCount(u)' = LeavingCount(u)
  <2>1. \A v \in Workers : pc[v] \in LeavingPlaces => v # t
    BY <1>1 DEF LeavingPlaces
  <2>2. \A u \in Schedulers : u # s => Leaving(u)' = Leaving(u)
    BY <1>2, <1>8, <2>1 DEF Leaving, LeavingPlaces
  <2> QED BY <2>2 DEF LeavingCount
<1>12. CountInv'
  <2> SUFFICES ASSUME NEW u \in Schedulers PROVE CountInv!(u)'
    BY DEF CountInv
  <2>1. CASE u = s
    BY <1>1, <1>3, <1>4, <1>10, <2>1 DEF CountInv, ListType, countVars
  <2>2. CASE u # s
    BY <1>1, <1>3, <1>11, <2>2 DEF CountInv, countVars
  <2> QED BY <2>1, <2>2
<1> QED BY <1>3, <1>5, <1>7, <1>9, <1>12

(* The end of AssignJob pays the debt and lets the worker go.              *)
LEMMA EndReleaseThreads ==
    ASSUME SchedulerInv, NEW t \in Workers, pc[t] \in LeavingPlaces,
           EndRelease(t, at[t]),
           UNCHANGED <<running, suspended, suspendedCount, yetToCreate, born, asleep,
                       at, life>>
    PROVE  /\ DebtInv' /\ CountInv'
           /\ fromShared' \in [Schedulers -> Int]
           /\ runningCount' \in [Schedulers -> Int]
           /\ unusedCount' \in [Schedulers -> Int]
           /\ pc'[t] = "loop"
           /\ \A v \in Workers : v # t => pc'[v] = pc[v]
           /\ \A c \in Clients : pc'[c] = "join" => pc[c] = "join"
<1> DEFINE s == at[t]
           places == [pc EXCEPT ![t] = "loop"]
<1> USE ActorsApart DEF SchedulerInv, ControlInv, ThreadInv
<1>1. s \in Schedulers /\ mutex[s] = t /\ fromShared[s] > 0
  BY DEF LockInv, DebtInv
<1>2. /\ fromShared' = [fromShared EXCEPT ![s] = @ - 1]
      /\ unusedCount' = [unusedCount EXCEPT ![s] = @ + 1]
      /\ runningCount' = [runningCount EXCEPT ![s] = @ - 1]
      /\ pc' = places \/ pc' = WakeEmpty(s, places)
  BY DEF EndRelease, Retire, CountUnused
<1>3. /\ places \in [Actors -> ClientPlaces \cup WorkerPlaces]
      /\ \A v \in Workers : places[v] \in WorkerPlaces
      /\ places[t] = "loop"
      /\ \A x \in Actors : x # t => places[x] = pc[x]
  BY DEF ControlType, WorkerPlaces
<1> HIDE DEF places
<1>4. /\ pc'[t] = "loop"
      /\ \A v \in Workers : v # t => pc'[v] = pc[v]
      /\ \A c \in Clients : pc'[c] = "join" => pc[c] = "join"
  BY <1>1, <1>2, <1>3, WakeEmptyMoves
<1>5. \A v \in Workers : v # t /\ pc[v] \in LeavingPlaces
                            => at[v] \in Schedulers /\ at[v] # s
  BY <1>1 DEF LockInv
<1>6. DebtInv'
  BY <1>2, <1>4, <1>5 DEF DebtInv, ListType, LeavingPlaces
<1>7. /\ fromShared' \in [Schedulers -> Int]
      /\ runningCount' \in [Schedulers -> Int]
      /\ unusedCount' \in [Schedulers -> Int]
  BY <1>1, <1>2 DEF ListType
<1>8. LeavingCount(s) = 1 /\ LeavingCount(s)' = 0
  <2>1. t \in Leaving(s)
    BY DEF Leaving, LeavingPlaces
  <2>2. Leaving(s)' = {}
    BY <1>4, <1>5 DEF Leaving, LeavingPlaces
  <2> QED BY <2>1, <2>2 DEF LeavingCount
<1>9. \A u \in Schedulers : u # s => LeavingCount(u)' = LeavingCount(u)
  <2>1. \A u \in Schedulers : u # s => Leaving(u)' = Leaving(u)
    BY <1>4 DEF Leaving
  <2> QED BY <2>1 DEF LeavingCount
<1>10. CountInv'
  <2> SUFFICES ASSUME NEW u \in Schedulers PROVE CountInv!(u)'
    BY DEF CountInv
  <2>1. CASE u = s
    <3>1. /\ fromShared'[s] = fromShared[s] - 1
          /\ unusedCount'[s] = unusedCount[s] + 1
          /\ runningCount'[s] = runningCount[s] - 1
      BY <1>1, <1>2 DEF ListType
    <3>2. CountInv!(s)
      BY <1>1 DEF CountInv
    <3>3. /\ SharedThreads[s] \in Nat /\ ThreadCount[s] \in Nat
          /\ yetToCreate[s] \in Int /\ suspendedCount[s] \in Int /\ fromShared[s] \in Int
          /\ unusedCount[s] \in Int /\ runningCount[s] \in Int
      BY <1>1, ConstructorAssumption DEF ListType
    <3>4. Cardinality(running[s]) \in Nat
      BY <3>2, FS_CardinalityType
    <3>5. runningCount'[s] = Cardinality(running[s]) + LeavingCount(s)'
      BY <1>8, <3>1, <3>2, <3>3, <3>4
    <3>6. suspendedCount[s] = 0 /\ yetToCreate[s] = 0
      BY <1>1, <3>2
    <3>7. /\ unusedCount'[s] = suspendedCount[s] + yetToCreate[s]
                                  + SharedThreads[s] - fromShared'[s]
          /\ runningCount'[s] + unusedCount'[s] = ThreadCount[s] + SharedThreads[s]
          /\ 0 <= fromShared'[s] /\ fromShared'[s] <= SharedThreads[s]
      BY <1>1, <3>1, <3>2, <3>3
    <3> QED BY <2>1, <3>2, <3>5, <3>6, <3>7
  <2>2. CASE u # s
    BY <1>2, <1>9, <2>2 DEF CountInv, ListType
  <2> QED BY <2>1, <2>2
<1> QED BY <1>4, <1>6, <1>7, <1>10

(* Release puts the calling worker into the pool.                          *)
LEMMA ReleaseThreads ==
    ASSUME SchedulerInv, NEW t \in Workers, Release(t)
    PROVE  ThreadInv'
<1> USE ActorsApart DEF SchedulerInv, ControlInv, ThreadInv
<1>1. /\ pc[t] = "stopStarving" /\ poolMutex = None
      /\ owner' = [owner EXCEPT ![t] = None]
      /\ UNCHANGED <<running, suspended, suspendedCount, yetToCreate, born, asleep,
                     life, at, notified>>
      /\ \/ pool' = pool \cup {t} /\ EndRelease(t, at[t])
         \/ /\ pool' = pool \cup {t} \/ pool' = pool
            /\ pc' = [pc EXCEPT ![t] = "select"] \/ pc' = [pc EXCEPT ![t] = "joinSelf"]
            /\ UNCHANGED <<fromShared, unusedCount, runningCount>>
  BY DEF Release
<1>2. t \in born /\ ~Listed(t) /\ asleep[t]
  BY <1>1 DEF ListInv
<1>3. pool' = pool \cup {t} \/ pool' = pool
  BY <1>1
<1>4. /\ pc'[t] \notin {"stopStarving"}
      /\ \A v \in Workers : v # t => pc'[v] = pc[v]
      /\ \A c \in Clients : pc'[c] = "join" => pc[c] = "join"
      /\ DebtInv' /\ CountInv'
      /\ fromShared' \in [Schedulers -> Int]
      /\ runningCount' \in [Schedulers -> Int]
      /\ unusedCount' \in [Schedulers -> Int]
  <2>1. CASE EndRelease(t, at[t])
    BY <1>1, <2>1, EndReleaseThreads DEF LeavingPlaces
  <2>2. CASE /\ pc' = [pc EXCEPT ![t] = "select"] \/ pc' = [pc EXCEPT ![t] = "joinSelf"]
             /\ UNCHANGED <<fromShared, unusedCount, runningCount>>
    <3>1. /\ pc'[t] \in {"select", "joinSelf"}
          /\ \A x \in Actors : x # t => pc'[x] = pc[x]
      BY <2>2 DEF ControlType
    <3>2. \A u \in Schedulers : Leaving(u)' = Leaving(u)
      BY <1>1, <3>1 DEF Leaving
    <3>3. CountInv'
      BY <1>1, <2>2, <3>2 DEF CountInv, LeavingCount
    <3>4. DebtInv'
      BY <1>1, <2>2, <3>1 DEF DebtInv, LeavingPlaces
    <3> QED BY <2>2, <3>1, <3>3, <3>4 DEF ListType
  <2> QED BY <1>1, <2>1, <2>2
<1>5. ListType'
  BY <1>1, <1>3, <1>4 DEF ListType
<1>6. \A v \in Workers : v # t => (Listed(v)' <=> Listed(v))
  BY <1>1, <1>3 DEF Listed
<1>7. \A c \in Clients : pc[c] # "join"
  BY <1>1 DEF LockInv
<1>8. \A u \in Schedulers : t \notin running[u] /\ t \notin suspended[u]
  BY <1>2 DEF Listed
<1>9. ListInv'
  BY <1>1, <1>2, <1>3, <1>4, <1>6, <1>7, <1>8 DEF ListInv
<1>10. OwnerInv'
  BY <1>1, <1>2, <1>8 DEF OwnerInv, ListType
<1> QED BY <1>4, <1>5, <1>9, <1>10

(* SelectStarving ends the release or picks a scheduler to notify.         *)
LEMMA SelectThreads ==
    ASSUME SchedulerInv, NEW t \in Workers, SelectStarving(t)
    PROVE  ThreadInv'
<1> USE ActorsApart DEF SchedulerInv, ControlInv, ThreadInv
<1>1. /\ pc[t] = "select"
      /\ UNCHANGED <<running, suspended, suspendedCount, yetToCreate, pool, born, owner,
                     asleep, at, life>>
      /\ \/ EndRelease(t, at[t]) /\ UNCHANGED notified
         \/ /\ \A d \in Clients : notified'[d] = notified[d]
            /\ pc' = [pc EXCEPT ![t] = "notify"]
            /\ UNCHANGED <<fromShared, unusedCount, runningCount>>
  BY DEF SelectStarving, limitVars, ControlType
<1>2. CASE EndRelease(t, at[t]) /\ UNCHANGED notified
  <2>1. /\ DebtInv' /\ CountInv'
        /\ fromShared' \in [Schedulers -> Int]
        /\ runningCount' \in [Schedulers -> Int]
        /\ unusedCount' \in [Schedulers -> Int]
        /\ pc'[t] = "loop"
        /\ \A v \in Workers : v # t => pc'[v] = pc[v]
        /\ \A c \in Clients : pc'[c] = "join" => pc[c] = "join"
    BY <1>1, <1>2, EndReleaseThreads DEF LeavingPlaces
  <2>2. ListType'
    BY <1>1, <2>1 DEF ListType
  <2>3. ListInv'
    BY <1>1, <1>2, <2>1 DEF ListInv, Listed
  <2>4. OwnerInv'
    BY <1>1 DEF OwnerInv
  <2> QED BY <2>1, <2>2, <2>3, <2>4
<1>3. CASE /\ \A d \in Clients : notified'[d] = notified[d]
           /\ pc' = [pc EXCEPT ![t] = "notify"]
           /\ UNCHANGED <<fromShared, unusedCount, runningCount>>
  BY <1>1, <1>3, ThreadFrame DEF QuietStep, lists, countVars, LeavingPlaces, ControlType
<1> QED BY <1>1, <1>2, <1>3

(* Every step keeps the lists and the counters in order.                   *)
LEMMA ThreadInductive ==
    ASSUME SchedulerInv, [Next]_vars
    PROVE  ThreadInv'
<1> USE ActorsApart, ThreadFrame
        DEF SchedulerInv, ControlInv, ControlType, LeavingPlaces, ClientPlaces, QuietStep,
            lists, allocVars, starveVars, limitVars, jobVars, controlVars, countVars
<1>1. ASSUME NEW c \in Clients, AddStarving(c) PROVE ThreadInv'
  BY <1>1 DEF AddStarving, Unlock
<1>2. ASSUME NEW c \in Clients, ResumeLoop(c) PROVE ThreadInv'
  <2>1. CASE /\ RecycleSuspended(at[c]) \/ CreatePrivate(at[c]) \/ BorrowShared(at[c])
             /\ UNCHANGED <<pc, at, notified, life>>
    <3>1. at[c] \in Schedulers
      BY <1>2 DEF ResumeLoop, LockInv
    <3> QED BY <2>1, <3>1, GrantThreads
  <2>2. CASE Starve(c, at[c])
    BY <1>2, <2>2 DEF ResumeLoop, Starve, Hold
  <2>3. CASE UNCHANGED allocVars
    BY <1>2, <2>2, <2>3 DEF ResumeLoop, Unlock
  <2> QED BY <1>2, <2>1, <2>2, <2>3 DEF ResumeLoop, Granted, Refused
<1>3. ASSUME NEW c \in Clients, CheckEmpty(c) PROVE ThreadInv'
  BY <1>3, CheckEmptyThreads
<1>4. ASSUME NEW c \in Clients, EnterWait(c) PROVE ThreadInv'
  BY <1>4 DEF EnterWait
<1>5. ASSUME NEW c \in Clients, DestroyStopStarvation(c) PROVE ThreadInv'
  BY <1>5 DEF DestroyStopStarvation
<1>6. ASSUME NEW c \in Clients, UseAllCPUs(c) PROVE ThreadInv'
  BY <1>6 DEF UseAllCPUs, SetThreadCount, Return, LifeInv
<1>7. ASSUME NEW c \in Clients, Shrink(c) PROVE ThreadInv'
  BY <1>7, ShrinkThreads
<1>8. ASSUME NEW c \in Clients, Join(c) PROVE ThreadInv'
  BY <1>8, JoinThreads
<1>9. ASSUME NEW c \in Clients, NEW s \in Schedulers, NEW j,
              Schedule(c, s, j)
      PROVE  ThreadInv'
  <2>1. CASE /\ RecycleSuspended(s) \/ CreatePrivate(s) \/ BorrowShared(s)
             /\ UNCHANGED <<pc, at, notified, life>>
    <3>1. s \in Schedulers
      BY <1>9 DEF Schedule, LockInv
    <3> QED BY <2>1, <3>1, GrantThreads
  <2>2. CASE Starve(c, s)
    BY <1>9, <2>2 DEF Schedule, Starve, Hold, Enters, Ready
  <2>3. CASE UNCHANGED allocVars
    BY <1>9, <2>2, <2>3 DEF Schedule, Enters, Ready
  <2> QED BY <1>9, <2>1, <2>2, <2>3 DEF Schedule, Granted, Refused
<1>10. ASSUME NEW c \in Clients, NEW s \in Schedulers, NEW w, NEW o,
              RemoveJobFromQueue(c, s, w, o)
      PROVE  ThreadInv'
  BY <1>10 DEF RemoveJobFromQueue
<1>11. ASSUME NEW c \in Clients, NEW s \in Schedulers, Stop(c, s) PROVE ThreadInv'
  BY <1>11 DEF Stop
<1>12. ASSUME NEW c \in Clients, NEW s \in Schedulers, Resume(c, s) PROVE ThreadInv'
  BY <1>12 DEF Resume, Enters, Ready, Hold
<1>13. ASSUME NEW c \in Clients, NEW s \in Schedulers,
              WaitForEmptyQueue(c, s)
      PROVE  ThreadInv'
  BY <1>13 DEF WaitForEmptyQueue, Ready
<1>14. ASSUME NEW c \in Clients, NEW s \in Schedulers, Construct(c, s) PROVE ThreadInv'
  BY <1>14 DEF Construct, Ready
<1>15. ASSUME NEW c \in Clients, NEW s \in Schedulers, Destroy(c, s) PROVE ThreadInv'
  BY <1>15 DEF Destroy, Ready
<1>16. ASSUME NEW c \in Clients, Timeout(c) PROVE ThreadInv'
  BY <1>16 DEF Timeout, Return
<1>17. ASSUME NEW c \in Clients, NEW n, SetSharedThreadCount(c, n) PROVE ThreadInv'
  BY <1>17 DEF SetSharedThreadCount, SetThreadCount, Ready, Return
<1>18. ASSUME NEW t \in Workers, NEW s \in Schedulers, TakeJob(t, s) PROVE ThreadInv'
  BY <1>18, WakeWaitingMoves DEF TakeJob, EntersAssignJob
<1>19. ASSUME NEW t \in Workers, NEW s \in Schedulers,
              ParkPrivate(t, s)
      PROVE  ThreadInv'
  BY <1>19, ParkThreads
<1>20. ASSUME NEW t \in Workers, NEW s \in Schedulers,
              LeaveRunning(t, s)
      PROVE  ThreadInv'
  BY <1>20, LeaveThreads
<1>21. ASSUME NEW t \in Workers, StopStarvation(t) PROVE ThreadInv'
  BY <1>21 DEF StopStarvation
<1>22. ASSUME NEW t \in Workers, Release(t) PROVE ThreadInv'
  BY <1>22, ReleaseThreads
<1>23. ASSUME NEW t \in Workers, SelectStarving(t) PROVE ThreadInv'
  BY <1>23, SelectThreads
<1>24. ASSUME NEW t \in Workers, ThreadAvailable(t) PROVE ThreadInv'
  BY <1>24 DEF ThreadAvailable
<1>25. ASSUME NEW t \in Workers, AllocateLoop(t) PROVE ThreadInv'
  <2>1. CASE /\ \/ RecycleSuspended(notified[t])
                \/ CreatePrivate(notified[t])
                \/ BorrowShared(notified[t])
             /\ UNCHANGED <<pc, at, notified, life>>
    <3>1. notified[t] \in Schedulers
      BY <1>25 DEF AllocateLoop, LockInv
    <3> QED BY <2>1, <3>1, GrantThreads
  <2>2. CASE Starve(t, notified[t])
    BY <1>25, <2>2 DEF AllocateLoop, Starve, Hold
  <2>3. CASE UNCHANGED allocVars
    BY <1>25, <2>2, <2>3 DEF AllocateLoop, Unlock
  <2> QED BY <1>25, <2>1, <2>2, <2>3 DEF AllocateLoop, Granted, Refused
<1>26. ASSUME NEW t \in Workers, AddStarving(t) PROVE ThreadInv'
  BY <1>26 DEF AddStarving, Unlock
<1>27. ASSUME NEW t \in Workers, FinishJob(t) PROVE ThreadInv'
  BY <1>27 DEF FinishJob
<1>28. ASSUME NEW t \in Workers, WaitForSomeJobs(t) PROVE ThreadInv'
  BY <1>28 DEF WaitForSomeJobs, WakeIdle
<1>29. ASSUME NEW t \in Workers, EnterWaitForSome(t) PROVE ThreadInv'
  BY <1>29 DEF EnterWaitForSome
<1>30. ASSUME NEW t \in Workers, LeaveWaitForSomeJobs(t) PROVE ThreadInv'
  BY <1>30 DEF LeaveWaitForSomeJobs
<1>31. CASE UNCHANGED vars
  BY <1>31 DEF vars
<1> QED
  BY <1>1, <1>2, <1>3, <1>4, <1>5, <1>6, <1>7, <1>8, <1>9, <1>10, <1>11, <1>12,
     <1>13, <1>14, <1>15, <1>16, <1>17, <1>18, <1>19, <1>20, <1>21, <1>22, <1>23,
     <1>24, <1>25, <1>26, <1>27, <1>28, <1>29, <1>30, <1>31
  DEF Next, ClientContinues, ClientCalls, WorkerStep

(* Nothing is allocated at first.                                          *)
LEMMA SchedulerInit == Init => SchedulerInv
<1> SUFFICES ASSUME Init PROVE SchedulerInv
  OBVIOUS
<1> USE ActorsApart, ConstructorAssumption DEF Init
<1>1. ControlInv
  BY DEF ControlInv, ControlType, LockInv, LifeInv, LeavingPlaces, ClientPlaces,
         WorkerPlaces, Actors
<1>2. ListType
  BY DEF ListType
<1>3. ListInv
  BY DEF ListInv, Listed
<1>4. OwnerInv
  BY DEF OwnerInv
<1>5. DebtInv
  BY DEF DebtInv, LeavingPlaces
<1>6. \A s \in Schedulers : LeavingCount(s) = 0
  BY DEF LeavingCount, Leaving
<1>7. CountInv
  BY <1>6, FS_EmptySet DEF CountInv
<1> QED BY <1>1, <1>2, <1>3, <1>4, <1>5, <1>7 DEF SchedulerInv, ThreadInv

(* The invariant is inductive.                                             *)
LEMMA SchedulerInductive == SchedulerInv /\ [Next]_vars => SchedulerInv'
  BY ControlInductive, ThreadInductive DEF SchedulerInv, ThreadInv

(* AllocateThread and AssignJob: for any number of schedulers, threads and *)
(* clients, and whatever the clients do, the cached counters of each       *)
(* scheduler equal the sizes of its lists (a worker on its way back to the *)
(* pool counted as running), add up to the constructor's arguments and     *)
(* never run below zero.                                                   *)
THEOREM CountersCorrect == Spec => []CountersAgree
<1>1. ASSUME SchedulerInv, NEW s \in Schedulers
      PROVE  /\ Cardinality(Leaving(s)) = LeavingCount(s)
             /\ {runningCount[s], suspendedCount[s], yetToCreate[s], fromShared[s],
                 unusedCount[s]} \subseteq Nat
  <2> USE <1>1 DEF SchedulerInv, ThreadInv
  <2>1. Leaving(s) # {} => Leaving(s) = {mutex[s]}
    BY DEF ControlInv, LockInv, Leaving, LeavingPlaces
  <2>2. Cardinality(Leaving(s)) = LeavingCount(s)
    BY <2>1, FS_EmptySet, FS_Singleton DEF LeavingCount
  <2>3. runningCount[s] \in Nat
    <3>1. Cardinality(running[s]) \in Nat
      BY FS_CardinalityType DEF CountInv
    <3> QED BY <3>1 DEF CountInv, LeavingCount
  <2>4. /\ suspendedCount[s] \in Nat /\ yetToCreate[s] \in Nat
        /\ fromShared[s] \in Nat /\ unusedCount[s] \in Nat
    BY ConstructorAssumption DEF CountInv, ListType
  <2> QED BY <2>2, <2>3, <2>4
<1>2. SchedulerInv => CountersAgree
  BY <1>1 DEF SchedulerInv, ThreadInv, CountersAgree, CountInv
<1> QED BY <1>2, SchedulerInit, SchedulerInductive, PTL DEF Spec

(* AssignJob's "still in debt of shared pool?": while a scheduler owes     *)
(* threads to the pool, it neither parks nor could create private ones.    *)
THEOREM DebtFirst == Spec => []DebtPaidFirst
<1>1. SchedulerInv => DebtPaidFirst
  BY DEF SchedulerInv, ThreadInv, CountInv, DebtPaidFirst
<1> QED BY <1>1, SchedulerInit, SchedulerInductive, PTL DEF Spec

(* CThreadPool::TryAlloc and Release, RecycleSuspended, SetThreadCount: no *)
(* thread is ever driven by two schedulers, or idle in the pool and at     *)
(* work at once, although Release hands a thread on while it still runs.   *)
THEOREM OwnersUnique == Spec => []OneOwner
<1>1. ASSUME SchedulerInv PROVE OneOwner
  <2> USE <1>1 DEF SchedulerInv, ThreadInv
  <2>1. \A s \in Schedulers, t \in Workers : t \in running[s] =>
           t \in born /\ owner[t] = s /\ ~asleep[t] /\ t \notin pool
    BY DEF OwnerInv, ListInv, Listed
  <2>2. /\ \A s1, s2 \in Schedulers : /\ s1 # s2 => running[s1] \cap running[s2] = {}
                                      /\ running[s1] \cap suspended[s2] = {}
        /\ \A s \in Schedulers : suspended[s] \cap pool = {}
    BY DEF ListInv
  <2>3. \A t \in born : ~asleep[t] => t \in running[owner[t]]
    BY DEF OwnerInv, ListType
  <2> QED BY <2>1, <2>2, <2>3 DEF OneOwner
<1> QED BY <1>1, SchedulerInit, SchedulerInductive, PTL DEF Spec

-----------------------------------------------------------------------------
(***************************************************************************)
(* The invariants of the second part.                                      *)
(***************************************************************************)

\* Places of a worker that executes a job.
ExecutingPlaces == {"execute", "waitSome", "blockedSome", "wokenSome"}

\* A job is in one queue, once, or in the hands of one worker.
JobsInv ==
    /\ queue \in [Schedulers -> Seq(Jobs)]
    /\ job \in [Workers -> Jobs \cup {None}]
    /\ fate \in [Jobs -> {"new", "queued", "executing", "done", "dropped", "abandoned"}]
    /\ \A s \in Schedulers : IsInjective(queue[s])
    /\ \A s1, s2 \in Schedulers : s1 # s2 => Range(queue[s1]) \cap Range(queue[s2]) = {}
    /\ \A j \in Jobs : fate[j] = "queued" <=> \E s \in Schedulers : j \in Range(queue[s])
    /\ \A j \in Jobs : fate[j] = "executing" <=> \E t \in Workers : job[t] = j
    /\ \A t1, t2 \in Workers : job[t1] # None /\ job[t1] = job[t2] => t1 = t2
    /\ \A t \in Workers : job[t] # None => pc[t] \in ExecutingPlaces

\* The scheduler an actor has just marked as starved.
Registers(a) == IF a \in Clients THEN at[a] ELSE notified[a]

\* A starved scheduler is being registered, or is registered, or is being
\* notified; a worker that returned a thread left its own scheduler unstarved.
StarveInv ==
    /\ starved \in [Schedulers -> BOOLEAN]
    /\ \A s \in Range(starving) : starved[s]
    /\ IsInjective(starving)
    /\ \A t \in Workers : pc[t] = "notify" =>
          starved[notified[t]] /\ notified[t] \notin Range(starving)
    /\ \A t1, t2 \in Workers :
          pc[t1] = "notify" /\ pc[t2] = "notify" /\ notified[t1] = notified[t2] => t1 = t2
    /\ \A a \in Actors : pc[a] = "addStarving" =>
          /\ starved[Registers(a)] /\ Registers(a) \notin Range(starving)
          /\ \A t \in Workers : pc[t] = "notify" => notified[t] # Registers(a)
    /\ \A t \in Workers : pc[t] \in LeavingPlaces \ {"stopStarving"} => ~starved[at[t]]

\* Work that waits has a worker, or a client that is about to allocate one;
\* nobody leaves a scheduler that has work.
Waits(s) == ThreadCount[s] > 0 /\ stopCount[s] = 0 /\ queue[s] # <<>>

StallInv ==
    /\ stopCount \in [Schedulers -> Nat]
    /\ \A s \in Schedulers :
          Waits(s) => \/ runningCount[s] > 0
                      \/ \E c \in Clients : pc[c] = "resume" /\ at[c] = s
    /\ \A t \in Workers : pc[t] \in LeavingPlaces => ~HasWork(at[t])

DtorPlaces == {"dtor", "dtorCheck", "dtorWait", "dtorBlocked"}

\* A scheduler is destroyed by one client, after everybody has left it.
DtorInv ==
    /\ \A s \in Schedulers : life[s] \in {"closing", "dead"} =>
          /\ queue[s] = <<>>
          /\ \A c \in Clients : at[c] = s => pc[c] \in DtorPlaces \cup {"ready", "shrink", "join"}
    /\ \A c \in Clients : pc[c] \in DtorPlaces => life[at[c]] = "closing"
    /\ \A c, d \in Clients :
          pc[c] \in DtorPlaces /\ pc[d] \in DtorPlaces /\ at[c] = at[d] => c = d

\* What is destroyed has no threads, and nobody registers it any more.
DeadInv ==
    /\ \A c \in Clients : pc[c] \in DtorPlaces \ {"dtor"} => ~starved[at[c]]
    /\ \A s \in Schedulers : life[s] = "dead" =>
          /\ ~starved[s] /\ runningCount[s] = 0 /\ suspended[s] = {}
          /\ \A t \in Workers : pc[t] \in {"allocate", "addStarving"} => notified[t] # s

\* A thread belongs to a scheduler that has it in a list, or that is just
\* giving it back.
OwnedInv ==
    \A t \in born, s \in Schedulers : owner[t] = s =>
       t \in running[s] \cup suspended[s] \/ (pc[t] = "stopStarving" /\ at[t] = s)

-----------------------------------------------------------------------------
(***************************************************************************)
(* Sequences without repetition.                                           *)
(***************************************************************************)

(* An element is appended.                                                 *)
LEMMA AppendDistinct ==
    ASSUME NEW S, NEW q \in Seq(S), NEW x \in S
    PROVE  /\ Append(q, x) \in Seq(S)
           /\ Range(Append(q, x)) = Range(q) \cup {x}
           /\ IsInjective(q) /\ x \notin Range(q) => IsInjective(Append(q, x))
<1> DEFINE r == Append(q, x)
<1>1. /\ r \in Seq(S) /\ DOMAIN r = 1 .. Len(q) + 1 /\ DOMAIN q = 1 .. Len(q)
      /\ Len(q) \in Nat
      /\ \A i \in 1 .. Len(q) : r[i] = q[i]
      /\ r[Len(q) + 1] = x
  OBVIOUS
<1> HIDE DEF r
<1>2. Range(r) = Range(q) \cup {x}
  BY <1>1 DEF Range
<1>3. IsInjective(q) /\ x \notin Range(q) => IsInjective(r)
  BY <1>1 DEF Range, IsInjective
<1> QED BY <1>1, <1>2, <1>3 DEF r

(* A part of a sequence.                                                   *)
LEMMA SubSeqDistinct ==
    ASSUME NEW S, NEW q \in Seq(S), NEW m \in 1 .. Len(q) + 1, NEW n \in 0 .. Len(q)
    PROVE  /\ SubSeq(q, m, n) \in Seq(S)
           /\ Range(SubSeq(q, m, n)) = {q[i] : i \in m .. n}
           /\ IsInjective(q) => IsInjective(SubSeq(q, m, n))
<1> DEFINE r == SubSeq(q, m, n)
<1>1. /\ r \in Seq(S) /\ DOMAIN q = 1 .. Len(q) /\ Len(q) \in Nat
      /\ DOMAIN r = 1 .. Len(r)
      /\ Len(r) = IF m <= n THEN n - m + 1 ELSE 0
      /\ \A i \in 1 .. Len(r) : r[i] = q[i + m - 1]
  OBVIOUS
<1> HIDE DEF r
<1>2. Range(r) = {q[i] : i \in m .. n}
  <2>1. ASSUME NEW i \in m .. n PROVE q[i] \in Range(r)
    <3>1. i - m + 1 \in DOMAIN r /\ r[i - m + 1] = q[i]
      BY <1>1, SMTT(30)
    <3> QED BY <3>1 DEF Range
  <2>2. ASSUME NEW k \in DOMAIN r PROVE r[k] \in {q[i] : i \in m .. n}
    <3>1. k + m - 1 \in m .. n /\ r[k] = q[k + m - 1]
      BY <1>1, SMTT(30)
    <3> QED BY <3>1
  <2> QED BY <2>1, <2>2 DEF Range
<1>3. ASSUME IsInjective(q) PROVE IsInjective(r)
  <2> SUFFICES ASSUME NEW i \in DOMAIN r, NEW k \in DOMAIN r, r[i] = r[k] PROVE i = k
    BY DEF IsInjective
  <2>1. i + m - 1 \in DOMAIN q /\ k + m - 1 \in DOMAIN q
    BY <1>1, SMTT(30)
  <2>2. q[i + m - 1] = q[k + m - 1]
    BY <1>1
  <2> QED BY <1>1, <1>3, <2>1, <2>2 DEF IsInjective
<1> QED BY <1>1, <1>2, <1>3 DEF r

(* The head, or the last element, is taken away.                           *)
LEMMA PopDistinct ==
    ASSUME NEW S, NEW q \in Seq(S), q # <<>>, IsInjective(q)
    PROVE  /\ Head(q) \in Range(q) /\ Last(q) \in Range(q)
           /\ Range(SubSeq(q, 2, Len(q))) = Range(q) \ {Head(q)}
           /\ Range(SubSeq(q, 1, Len(q) - 1)) = Range(q) \ {Last(q)}
<1>1. DOMAIN q = 1 .. Len(q) /\ Len(q) \in Nat \ {0} /\ Head(q) = q[1] /\ Last(q) = q[Len(q)]
  BY DEF Last
<1>2. /\ Range(SubSeq(q, 2, Len(q))) = {q[i] : i \in 2 .. Len(q)}
      /\ Range(SubSeq(q, 1, Len(q) - 1)) = {q[i] : i \in 1 .. Len(q) - 1}
  BY <1>1, SubSeqDistinct
<1>3. {q[i] : i \in 2 .. Len(q)} = Range(q) \ {q[1]}
  BY <1>1 DEF Range, IsInjective
<1>4. {q[i] : i \in 1 .. Len(q) - 1} = Range(q) \ {q[Len(q)]}
  BY <1>1 DEF Range, IsInjective
<1>5. q[1] \in Range(q) /\ q[Len(q)] \in Range(q)
  BY <1>1 DEF Range
<1> QED BY <1>1, <1>2, <1>3, <1>4, <1>5

(* An element is taken out.                                                *)
LEMMA RemoveDistinct ==
    ASSUME NEW S, NEW q \in Seq(S), NEW i \in DOMAIN q, IsInjective(q)
    PROVE  /\ IsInjective(RemoveAt(q, i))
           /\ Range(RemoveAt(q, i)) = Range(q) \ {q[i]}
<1> DEFINE r == RemoveAt(q, i)
<1>1. DOMAIN q = 1 .. Len(q) /\ Len(q) \in Nat \ {0} /\ i \in 1 .. Len(q)
  OBVIOUS
<1>2. /\ DOMAIN r = 1 .. Len(q) - 1
      /\ \A k \in 1 .. Len(q) - 1 : r[k] = IF k < i THEN q[k] ELSE q[k + 1]
  <2> DEFINE u == SubSeq(q, 1, i - 1)
             v == SubSeq(q, i + 1, Len(q))
  <2>1. u \in Seq(S) /\ Len(u) = i - 1 /\ \A k \in 1 .. i - 1 : u[k] = q[k]
    BY <1>1
  <2>2. v \in Seq(S) /\ Len(v) = Len(q) - i /\ \A k \in 1 .. Len(q) - i : v[k] = q[k + i]
    BY <1>1
  <2>3. r = u \o v
    BY DEF RemoveAt
  <2> HIDE DEF u, v, r
  <2>4. DOMAIN r = 1 .. Len(q) - 1
    <3>0. u \in Seq(S) /\ v \in Seq(S)
      BY <2>1, <2>2
    <3>1. r \in Seq(S) /\ Len(r) = Len(u) + Len(v)
      BY <2>3, <3>0
    <3>2. Len(r) = Len(q) - 1
      BY <1>1, <2>1, <2>2, <3>1
    <3> QED BY <3>1, <3>2
  <2>5. ASSUME NEW k \in 1 .. Len(q) - 1 PROVE r[k] = IF k < i THEN q[k] ELSE q[k + 1]
    <3>1. CASE k < i
      BY <1>1, <2>1, <2>2, <2>3, <3>1
    <3>2. CASE k >= i
      <4>0. k \in 1 .. Len(u) + Len(v) /\ ~(k <= Len(u))
        BY <1>1, <2>1, <2>2, <3>2
      <4>1. r[k] = v[k - (i - 1)]
        BY <2>1, <2>2, <2>3, <4>0, SMTT(30)
      <4>2. k - (i - 1) \in 1 .. Len(q) - i /\ k - (i - 1) + i = k + 1
        BY <1>1, <3>2
      <4>3. v[k - (i - 1)] = q[k - (i - 1) + i]
        BY <2>2, <4>2
      <4> QED BY <3>2, <4>1, <4>2, <4>3
    <3> QED BY <1>1, <3>1, <3>2
  <2> QED BY <2>4, <2>5
<1> HIDE DEF r
<1>3. IsInjective(r)
  <2> SUFFICES ASSUME NEW k \in DOMAIN r, NEW l \in DOMAIN r, r[k] = r[l] PROVE k = l
    BY DEF IsInjective
  <2> DEFINE f(n) == IF n < i THEN n ELSE n + 1
  <2>1. f(k) \in DOMAIN q /\ f(l) \in DOMAIN q /\ q[f(k)] = q[f(l)]
    BY <1>1, <1>2
  <2>2. f(k) = f(l)
    BY <2>1 DEF IsInjective
  <2> QED BY <1>1, <1>2, <2>2
<1>4. Range(r) = Range(q) \ {q[i]}
  <2>1. ASSUME NEW k \in 1 .. Len(q), k # i PROVE q[k] \in Range(r)
    <3>1. CASE k < i
      BY <1>1, <1>2, <3>1 DEF Range
    <3>2. CASE k > i
      <4>1. k - 1 \in DOMAIN r /\ r[k - 1] = q[k]
        BY <1>1, <1>2, <3>2
      <4> QED BY <4>1 DEF Range
    <3> QED BY <1>1, <2>1, <3>1, <3>2
  <2>2. ASSUME NEW k \in DOMAIN r PROVE r[k] \in Range(q) \ {q[i]}
    BY <1>1, <1>2 DEF Range, IsInjective
  <2> QED BY <1>1, <2>1, <2>2 DEF Range
<1> QED BY <1>3, <1>4 DEF r

-----------------------------------------------------------------------------
(***************************************************************************)
(* Jobs.                                                                   *)
(***************************************************************************)

KeepsExecuting == \A t \in Workers : pc[t] \in ExecutingPlaces => pc'[t] \in ExecutingPlaces

(* A step that moves no job.                                               *)
LEMMA JobsFrame ==
    ASSUME JobsInv, UNCHANGED <<queue, job, fate>>, KeepsExecuting
    PROVE  JobsInv'
  BY DEF JobsInv, KeepsExecuting

(* A part of a queue is removed.                                           *)
LEMMA JobsDropped ==
    ASSUME JobsInv, KeepsExecuting, UNCHANGED job, NEW s \in Schedulers,
           NEW rest \in Seq(Jobs), IsInjective(rest), Range(rest) \subseteq Range(queue[s]),
           queue' = [queue EXCEPT ![s] = rest],
           Drop(s, Range(queue[s]) \ Range(rest))
    PROVE  JobsInv'
<1> USE DEF JobsInv
<1>0. PICK end \in {"dropped", "abandoned"} :
         fate' = [j \in Jobs |-> IF j \in Range(queue[s]) \ Range(rest) THEN end ELSE fate[j]]
  BY DEF Drop
<1>1. /\ \A j \in Jobs : fate'[j] = IF j \in Range(queue[s]) \ Range(rest) THEN end
                                                                          ELSE fate[j]
      /\ fate' \in [Jobs -> {"new", "queued", "executing", "done", "dropped", "abandoned"}]
  BY <1>0
<1>2. /\ queue' \in [Schedulers -> Seq(Jobs)]
      /\ queue'[s] = rest /\ \A u \in Schedulers : u # s => queue'[u] = queue[u]
  OBVIOUS
<1>3. /\ \A u \in Schedulers : IsInjective(queue'[u])
      /\ \A s1, s2 \in Schedulers : s1 # s2 => Range(queue'[s1]) \cap Range(queue'[s2]) = {}
  BY <1>2
<1>4. ASSUME NEW j \in Jobs
      PROVE  fate'[j] = "queued" <=> \E u \in Schedulers : j \in Range(queue'[u])
  <2>1. CASE j \in Range(queue[s]) \ Range(rest)
    <3>1. \A u \in Schedulers : u # s => j \notin Range(queue[u])
      BY <2>1
    <3> QED BY <1>1, <1>2, <2>1, <3>1
  <2>2. CASE j \notin Range(queue[s]) \ Range(rest)
    <3>1. j \in Range(rest) <=> j \in Range(queue[s])
      BY <2>2
    <3>2. \A u \in Schedulers : j \in Range(queue'[u]) <=> j \in Range(queue[u])
      BY <1>2, <3>1
    <3> QED BY <1>1, <2>2, <3>2
  <2> QED BY <2>1, <2>2
<1>5. \A j \in Jobs : fate'[j] = "executing" <=> \E t \in Workers : job'[t] = j
  BY <1>1
<1>6. \A t \in Workers : job'[t] # None => pc'[t] \in ExecutingPlaces
  BY DEF KeepsExecuting
<1> QED BY <1>1, <1>2, <1>3, <1>4, <1>5, <1>6

(* Schedule puts a new job into one queue.                                 *)
LEMMA JobsScheduled ==
    ASSUME JobsInv, KeepsExecuting, UNCHANGED job, NEW s \in Schedulers, NEW j \in Jobs,
           fate[j] = "new", fate' = [fate EXCEPT ![j] = "queued"],
           queue' = [queue EXCEPT ![s] = Append(@, j)]
    PROVE  JobsInv'
<1> USE DEF JobsInv
<1>1. /\ Append(queue[s], j) \in Seq(Jobs)
      /\ Range(Append(queue[s], j)) = Range(queue[s]) \cup {j}
      /\ j \notin Range(queue[s])
      /\ IsInjective(Append(queue[s], j))
  BY AppendDistinct
<1>2. /\ queue' \in [Schedulers -> Seq(Jobs)]
      /\ \A u \in Schedulers : queue'[u] = IF u = s THEN Append(queue[s], j) ELSE queue[u]
  BY <1>1
<1>3. /\ fate' \in [Jobs -> {"new", "queued", "executing", "done", "dropped", "abandoned"}]
      /\ \A k \in Jobs : fate'[k] = IF k = j THEN "queued" ELSE fate[k]
  OBVIOUS
<1>4. /\ \A u \in Schedulers : IsInjective(queue'[u])
      /\ \A s1, s2 \in Schedulers : s1 # s2 => Range(queue'[s1]) \cap Range(queue'[s2]) = {}
  BY <1>1, <1>2
<1>5. \A k \in Jobs : fate'[k] = "queued" <=> \E u \in Schedulers : k \in Range(queue'[u])
  BY <1>1, <1>2, <1>3
<1>6. \A k \in Jobs : fate'[k] = "executing" <=> \E t \in Workers : job'[t] = k
  BY <1>3
<1>7. \A t \in Workers : job'[t] # None => pc'[t] \in ExecutingPlaces
  BY DEF KeepsExecuting
<1>8. /\ job' \in [Workers -> Jobs \cup {None}]
      /\ \A t1, t2 \in Workers : job'[t1] # None /\ job'[t1] = job'[t2] => t1 = t2
  OBVIOUS
<1> HIDE DEF JobsInv
<1> QED BY <1>2, <1>3, <1>4, <1>5, <1>6, <1>7, <1>8 DEF JobsInv

(* AssignJob moves a job from the queue to a worker that has none.         *)
LEMMA JobsTaken ==
    ASSUME SchedulerInv, JobsInv, NEW t \in Workers, NEW s \in Schedulers, TakeJob(t, s)
    PROVE  JobsInv'
<1> USE DEF JobsInv
<1> DEFINE next == IF Fifo[s] THEN Head(queue[s]) ELSE Last(queue[s])
           rest == QueueAfterPops(queue[s], 1, Fifo[s])
<1>1. /\ pc[t] = "loop" /\ queue[s] # <<>>
      /\ job' = [job EXCEPT ![t] = next]
      /\ fate' = [fate EXCEPT ![next] = "executing"]
      /\ queue' = [queue EXCEPT ![s] = rest]
  BY DEF TakeJob, EntersAssignJob, HasWork
<1>2. \A u \in Workers : u # t /\ pc[u] \in ExecutingPlaces => pc'[u] \in ExecutingPlaces
  BY WakeWaitingMoves, ActorsApart DEF TakeJob, SchedulerInv, ControlInv, ControlType,
     ExecutingPlaces, WorkerPlaces
<1>3. pc'[t] = "execute"
  BY WakeWaitingMoves, ActorsApart DEF TakeJob, SchedulerInv, ControlInv
<1>4. /\ next \in Range(queue[s]) /\ next \in Jobs
      /\ rest \in Seq(Jobs) /\ IsInjective(rest) /\ Range(rest) = Range(queue[s]) \ {next}
  <2>1. queue[s] \in Seq(Jobs) /\ Len(queue[s]) \in Nat \ {0} /\ IsInjective(queue[s])
    BY <1>1
  <2>2. Range(queue[s]) \subseteq Jobs
    BY <2>1 DEF Range
  <2>3. CASE Fifo[s]
    <3>1. rest = SubSeq(queue[s], 2, Len(queue[s])) /\ next = Head(queue[s])
      BY <2>3 DEF QueueAfterPops
    <3> HIDE DEF rest, next
    <3>2. /\ Head(queue[s]) \in Range(queue[s])
          /\ Range(SubSeq(queue[s], 2, Len(queue[s]))) = Range(queue[s]) \ {Head(queue[s])}
      BY <1>1, <2>1, PopDistinct
    <3>3. /\ SubSeq(queue[s], 2, Len(queue[s])) \in Seq(Jobs)
          /\ IsInjective(SubSeq(queue[s], 2, Len(queue[s])))
      <4>1. 2 \in 1 .. Len(queue[s]) + 1 /\ Len(queue[s]) \in 0 .. Len(queue[s])
        BY <2>1
      <4> QED BY <2>1, <4>1, SubSeqDistinct
    <3> QED BY <2>2, <3>1, <3>2, <3>3
  <2>4. CASE ~Fifo[s]
    <3>1. rest = SubSeq(queue[s], 1, Len(queue[s]) - 1) /\ next = Last(queue[s])
      BY <2>4 DEF QueueAfterPops
    <3> HIDE DEF rest, next
    <3>2. /\ Last(queue[s]) \in Range(queue[s])
          /\ Range(SubSeq(queue[s], 1, Len(queue[s]) - 1)) = Range(queue[s]) \ {Last(queue[s])}
      BY <1>1, <2>1, PopDistinct
    <3>3. /\ SubSeq(queue[s], 1, Len(queue[s]) - 1) \in Seq(Jobs)
          /\ IsInjective(SubSeq(queue[s], 1, Len(queue[s]) - 1))
      <4>1. 1 \in 1 .. Len(queue[s]) + 1 /\ Len(queue[s]) - 1 \in 0 .. Len(queue[s])
        BY <2>1
      <4> QED BY <2>1, <4>1, SubSeqDistinct, SMTT(30)
    <3> QED BY <2>2, <3>1, <3>2, <3>3
  <2> QED BY <2>3, <2>4
<1> HIDE DEF next, rest
<1>5. job[t] = None
  BY <1>1 DEF ExecutingPlaces
<1>6. next # None
  BY <1>4, ActorAssumption
<1>7. /\ queue' \in [Schedulers -> Seq(Jobs)]
      /\ \A u \in Schedulers : queue'[u] = IF u = s THEN rest ELSE queue[u]
      /\ job' \in [Workers -> Jobs \cup {None}]
      /\ \A u \in Workers : job'[u] = IF u = t THEN next ELSE job[u]
      /\ fate' \in [Jobs -> {"new", "queued", "executing", "done", "dropped", "abandoned"}]
      /\ \A k \in Jobs : fate'[k] = IF k = next THEN "executing" ELSE fate[k]
  BY <1>1, <1>4
<1>8. /\ \A u \in Schedulers : IsInjective(queue'[u])
      /\ \A s1, s2 \in Schedulers : s1 # s2 => Range(queue'[s1]) \cap Range(queue'[s2]) = {}
  <2>1. \A u \in Schedulers : IsInjective(queue'[u])
    BY <1>4, <1>7
  <2>2. \A u \in Schedulers : Range(queue'[u]) \subseteq Range(queue[u])
    BY <1>4, <1>7
  <2>3. \A s1, s2 \in Schedulers : s1 # s2 => Range(queue[s1]) \cap Range(queue[s2]) = {}
    OBVIOUS
  <2> HIDE DEF JobsInv
  <2>4. \A s1, s2 \in Schedulers : s1 # s2 => Range(queue'[s1]) \cap Range(queue'[s2]) = {}
    BY <2>2, <2>3
  <2> QED BY <2>1, <2>4
<1>9. ASSUME NEW k \in Jobs
      PROVE  fate'[k] = "queued" <=> \E u \in Schedulers : k \in Range(queue'[u])
  <2>1. CASE k = next
    <3>1. \A u \in Schedulers : u # s => next \notin Range(queue[u])
      BY <1>4
    <3>2. \A u \in Schedulers : next \notin Range(queue'[u])
      BY <1>4, <1>7, <3>1
    <3> QED BY <1>7, <2>1, <3>2
  <2>2. CASE k # next
    <3>1. \A u \in Schedulers : k \in Range(queue'[u]) <=> k \in Range(queue[u])
      BY <1>4, <1>7, <2>2
    <3> QED BY <1>7, <2>2, <3>1
  <2> QED BY <2>1, <2>2
<1>10. \A k \in Jobs : fate'[k] = "executing" <=> \E u \in Workers : job'[u] = k
  BY <1>4, <1>5, <1>6, <1>7, ActorAssumption
<1>11. \A t1, t2 \in Workers : job'[t1] # None /\ job'[t1] = job'[t2] => t1 = t2
  <2>1. fate[next] = "queued"
    BY <1>4
  <2>2. \A u \in Workers : job[u] # next
    BY <1>4, <2>1
  <2> QED BY <1>7, <2>2
<1>12. \A u \in Workers : job'[u] # None => pc'[u] \in ExecutingPlaces
  BY <1>2, <1>3, <1>7 DEF ExecutingPlaces
<1> QED BY <1>7, <1>8, <1>9, <1>10, <1>11, <1>12

(* The worker is done with its job.                                        *)
LEMMA JobsFinished ==
    ASSUME SchedulerInv, JobsInv, NEW t \in Workers, FinishJob(t)
    PROVE  JobsInv'
<1> USE ActorsApart, ActorAssumption DEF JobsInv
<1>1. /\ fate' = [fate EXCEPT ![job[t]] = "done"]
      /\ job' = [job EXCEPT ![t] = None]
      /\ UNCHANGED queue
      /\ \A u \in Workers : u # t => pc'[u] = pc[u]
  BY DEF FinishJob, SchedulerInv, ControlInv, ControlType
<1>2. /\ job' \in [Workers -> Jobs \cup {None}]
      /\ \A u \in Workers : job'[u] = IF u = t THEN None ELSE job[u]
  BY <1>1
<1>3. /\ fate' \in [Jobs -> {"new", "queued", "executing", "done", "dropped", "abandoned"}]
       /\ \A k \in Jobs : fate'[k] = IF k = job[t] THEN "done" ELSE fate[k]
  <2> HIDE DEF JobsInv
  <2>1. fate \in [Jobs -> {"new", "queued", "executing", "done", "dropped", "abandoned"}]
    BY DEF JobsInv
  <2> QED BY <1>1, <2>1
<1>4. \A k \in Jobs : fate'[k] = "queued" <=> \E u \in Schedulers : k \in Range(queue'[u])
  BY <1>1, <1>2, <1>3
<1>5. \A k \in Jobs : fate'[k] = "executing" <=> \E u \in Workers : job'[u] = k
  BY <1>2, <1>3
<1> QED BY <1>1, <1>2, <1>3, <1>4, <1>5

(* Parking a worker wakes others, and moves nobody else.                   *)
LEMMA ParkMoves ==
    ASSUME ControlInv, NEW t \in Workers, NEW s \in Schedulers, ParkPrivate(t, s)
    PROVE  \A x \in Actors : pc'[x] # pc[x] =>
              \/ x \in Workers /\ pc[x] = "blockedSome" /\ pc'[x] = "wokenSome"
              \/ x \in Clients /\ pc[x] = "blocked" /\ pc'[x] = "check"
              \/ x \in Clients /\ pc[x] = "dtorBlocked" /\ pc'[x] = "dtorCheck"
<1> USE ActorsApart DEF ControlInv, ControlType
<1>1. pc' = WakeWaiting(s) \/ pc' = WakeEmpty(s, WakeWaiting(s))
  BY DEF ParkPrivate, Retire
<1>2. /\ WakeWaiting(s) \in [Actors -> ClientPlaces \cup WorkerPlaces]
      /\ \A u \in Workers : WakeWaiting(s)[u] \in WorkerPlaces
  BY WakeWaitingMoves DEF WorkerPlaces
<1> QED BY <1>1, <1>2, WakeWaitingMoves, WakeEmptyMoves

(* So does the end of Release, which takes the worker back to its loop.    *)
LEMMA EndReleaseMoves ==
    ASSUME ControlInv, NEW t \in Workers, at[t] \in Schedulers, EndRelease(t, at[t])
    PROVE  /\ pc'[t] = "loop"
           /\ \A x \in Actors : x # t /\ pc'[x] # pc[x] =>
                 /\ x \in Clients
                 /\ \/ pc[x] = "blocked" /\ pc'[x] = "check"
                    \/ pc[x] = "dtorBlocked" /\ pc'[x] = "dtorCheck"
<1> USE ActorsApart DEF ControlInv, ControlType
<1> DEFINE places == [pc EXCEPT ![t] = "loop"]
<1>1. /\ places \in [Actors -> ClientPlaces \cup WorkerPlaces]
      /\ \A u \in Workers : places[u] \in WorkerPlaces
  BY DEF WorkerPlaces
<1>2. pc' = places \/ pc' = WakeEmpty(at[t], places)
  BY DEF EndRelease, Retire
<1>3. \A x \in Actors : places[x] = IF x = t THEN "loop" ELSE pc[x]
  OBVIOUS
<1> HIDE DEF places
<1> QED BY <1>1, <1>2, <1>3, WakeEmptyMoves

(* Every step moves jobs only between the places JobsInv knows.            *)
LEMMA JobsInductive ==
    ASSUME SchedulerInv, JobsInv, [Next]_vars
    PROVE  JobsInv'
<1> USE ActorsApart, JobsFrame
    DEF KeepsExecuting, SchedulerInv, ControlInv, ControlType, ExecutingPlaces, allocVars,
        starveVars, eventVars, limitVars, jobVars, controlVars, countVars
<1>1. ASSUME NEW c \in Clients, AddStarving(c) PROVE JobsInv'
  BY <1>1 DEF AddStarving, Unlock
<1>2. ASSUME NEW c \in Clients, ResumeLoop(c) PROVE JobsInv'
  BY <1>2 DEF ResumeLoop, Granted, Refused, Starve, Unlock, Hold
<1>3. ASSUME NEW c \in Clients, CheckEmpty(c) PROVE JobsInv'
  <2> DEFINE s == at[c]
  <2>1. s \in Schedulers
    BY <1>3 DEF CheckEmpty, ClientPlaces
  <2>2. /\ Drained(s) \in Seq(Jobs) /\ IsInjective(Drained(s))
        /\ Range(Drained(s)) \subseteq Range(queue[s])
    BY <2>1 DEF Drained, JobsInv, Range, IsInjective
  <2>3. /\ queue' = [queue EXCEPT ![s] = Drained(s)]
        /\ Drop(s, Range(queue[s]) \ Range(Drained(s)))
        /\ UNCHANGED job /\ KeepsExecuting
    BY <1>3 DEF CheckEmpty, Return
  <2> HIDE DEF s
  <2> QED BY <2>1, <2>2, <2>3, JobsDropped
<1>4. ASSUME NEW c \in Clients, EnterWait(c) PROVE JobsInv'
  BY <1>4 DEF EnterWait
<1>5. ASSUME NEW c \in Clients, DestroyStopStarvation(c) PROVE JobsInv'
  BY <1>5 DEF DestroyStopStarvation
<1>6. ASSUME NEW c \in Clients, UseAllCPUs(c) PROVE JobsInv'
  BY <1>6 DEF UseAllCPUs, SetThreadCount, Return
<1>7. ASSUME NEW c \in Clients, Shrink(c) PROVE JobsInv'
  BY <1>7 DEF Shrink, Return
<1>8. ASSUME NEW c \in Clients, Join(c) PROVE JobsInv'
  BY <1>8 DEF Join
<1>9. ASSUME NEW c \in Clients, NEW s \in Schedulers, NEW j \in Jobs, Schedule(c, s, j)
      PROVE  JobsInv'
  <2>1. /\ fate[j] = "new" /\ fate' = [fate EXCEPT ![j] = "queued"]
        /\ queue' = [queue EXCEPT ![s] = Append(@, j)]
        /\ UNCHANGED job
    BY <1>9 DEF Schedule
  <2>2. KeepsExecuting
    BY <1>9 DEF Schedule, Granted, Refused, Starve, Hold
  <2> QED BY <2>1, <2>2, JobsScheduled
<1>10. ASSUME NEW c \in Clients, NEW s \in Schedulers, NEW w \in Watermarks,
              NEW o \in BOOLEAN, RemoveJobFromQueue(c, s, w, o)
      PROVE  JobsInv'
  <2> DEFINE rest == QueueAfterPops(queue[s], Len(queue[s]) - w, o = Fifo[s])
  <2>1. /\ queue' = [queue EXCEPT ![s] = rest]
        /\ Drop(s, Range(queue[s]) \ Range(rest))
        /\ UNCHANGED job /\ KeepsExecuting
        /\ Len(queue[s]) > w
    BY <1>10 DEF RemoveJobFromQueue
  <2>2. queue[s] \in Seq(Jobs) /\ IsInjective(queue[s]) /\ w \in Nat
    BY BoundAssumption DEF JobsInv
  <2>3. rest \in Seq(Jobs) /\ IsInjective(rest) /\ Range(rest) \subseteq Range(queue[s])
    <3>1. \/ rest = SubSeq(queue[s], Len(queue[s]) - w + 1, Len(queue[s]))
          \/ rest = SubSeq(queue[s], 1, Len(queue[s]) - (Len(queue[s]) - w))
      BY DEF QueueAfterPops
    <3>2. /\ Len(queue[s]) \in Nat
          /\ Len(queue[s]) - w + 1 \in 1 .. Len(queue[s]) + 1
          /\ Len(queue[s]) - (Len(queue[s]) - w) \in 0 .. Len(queue[s])
          /\ 1 \in 1 .. Len(queue[s]) + 1 /\ Len(queue[s]) \in 0 .. Len(queue[s])
      BY <2>1, <2>2
    <3> HIDE DEF rest
    <3>3. ASSUME NEW m \in 1 .. Len(queue[s]) + 1, NEW n \in 0 .. Len(queue[s])
          PROVE  /\ SubSeq(queue[s], m, n) \in Seq(Jobs)
                 /\ IsInjective(SubSeq(queue[s], m, n))
                 /\ Range(SubSeq(queue[s], m, n)) \subseteq Range(queue[s])
      <4> DEFINE q == queue[s]
                 r == SubSeq(q, m, n)
      <4>1. q \in Seq(Jobs) /\ IsInjective(q)
        BY <2>2
      <4>2. m \in 1 .. Len(q) + 1 /\ n \in 0 .. Len(q)
        OBVIOUS
      <4> HIDE DEF q
      <4>3. /\ r \in Seq(Jobs) /\ IsInjective(r)
            /\ Range(r) = {q[i] : i \in m .. n}
        BY <4>1, <4>2, SubSeqDistinct
      <4>4. m .. n \subseteq DOMAIN q
        BY <4>1, <4>2
      <4> HIDE DEF r
      <4>5. Range(r) \subseteq Range(q)
        BY <4>3, <4>4 DEF Range
      <4> QED BY <4>3, <4>5 DEF q, r
    <3> DEFINE q == queue[s]
               Part(m, n) == SubSeq(q, m, n)
    <3>4. \E m \in 1 .. Len(q) + 1, n \in 0 .. Len(q) : rest = Part(m, n)
      BY <3>1, <3>2
    <3>5. \A m \in 1 .. Len(q) + 1, n \in 0 .. Len(q) :
             /\ Part(m, n) \in Seq(Jobs) /\ IsInjective(Part(m, n))
             /\ Range(Part(m, n)) \subseteq Range(q)
      BY <3>3
    <3> HIDE DEF rest, Part
    <3> QED BY <3>4, <3>5
  <2> HIDE DEF rest
  <2> QED BY <2>1, <2>3, JobsDropped
<1>11. ASSUME NEW c \in Clients, NEW s \in Schedulers, Stop(c, s) PROVE JobsInv'
  BY <1>11 DEF Stop
<1>12. ASSUME NEW c \in Clients, NEW s \in Schedulers, Resume(c, s) PROVE JobsInv'
  BY <1>12 DEF Resume, Hold
<1>13. ASSUME NEW c \in Clients, NEW s \in Schedulers, WaitForEmptyQueue(c, s)
      PROVE  JobsInv'
  BY <1>13 DEF WaitForEmptyQueue, Ready
<1>14. ASSUME NEW c \in Clients, NEW s \in Schedulers, Construct(c, s)
      PROVE  JobsInv'
  BY <1>14 DEF Construct, Ready
<1>15. ASSUME NEW c \in Clients, NEW s \in Schedulers, Destroy(c, s)
      PROVE  JobsInv'
  BY <1>15 DEF Destroy, Ready
<1>16. ASSUME NEW c \in Clients, Timeout(c) PROVE JobsInv'
  BY <1>16 DEF Timeout, Return
<1>17. ASSUME NEW c \in Clients, NEW n, SetSharedThreadCount(c, n) PROVE JobsInv'
  BY <1>17 DEF SetSharedThreadCount, SetThreadCount, Return
<1>18. ASSUME NEW t \in Workers, NEW s \in Schedulers, TakeJob(t, s)
      PROVE  JobsInv'
  BY <1>18, JobsTaken
<1>19. ASSUME NEW t \in Workers, NEW s \in Schedulers, ParkPrivate(t, s)
      PROVE  JobsInv'
  BY <1>19, ParkMoves DEF ParkPrivate
<1>20. ASSUME NEW t \in Workers, NEW s \in Schedulers, LeaveRunning(t, s)
      PROVE  JobsInv'
  BY <1>20, WakeWaitingMoves DEF LeaveRunning, EntersAssignJob
<1>21. ASSUME NEW t \in Workers, StopStarvation(t) PROVE JobsInv'
  BY <1>21 DEF StopStarvation
<1>22. ASSUME NEW t \in Workers, Release(t) PROVE JobsInv'
  <2>1. at[t] \in Schedulers
    BY <1>22 DEF LockInv, Release, LeavingPlaces
  <2>2. EndRelease(t, at[t]) \/ \A u \in Workers : u # t => pc'[u] = pc[u]
    BY <1>22 DEF Release
  <2> QED BY <1>22, <2>1, <2>2, EndReleaseMoves DEF Release
<1>23. ASSUME NEW t \in Workers, SelectStarving(t) PROVE JobsInv'
  <2>1. at[t] \in Schedulers
    BY <1>23 DEF LockInv, SelectStarving, LeavingPlaces
  <2>2. EndRelease(t, at[t]) \/ \A u \in Workers : u # t => pc'[u] = pc[u]
    BY <1>23 DEF SelectStarving
  <2> QED BY <1>23, <2>1, <2>2, EndReleaseMoves DEF SelectStarving
<1>24. ASSUME NEW t \in Workers, ThreadAvailable(t) PROVE JobsInv'
  BY <1>24 DEF ThreadAvailable
<1>25. ASSUME NEW t \in Workers, AllocateLoop(t) PROVE JobsInv'
  BY <1>25 DEF AllocateLoop, Starve, Unlock, Hold
<1>26. ASSUME NEW t \in Workers, AddStarving(t) PROVE JobsInv'
  BY <1>26 DEF AddStarving, Unlock
<1>27. ASSUME NEW t \in Workers, FinishJob(t) PROVE JobsInv'
  BY <1>27, JobsFinished
<1>28. ASSUME NEW t \in Workers, WaitForSomeJobs(t) PROVE JobsInv'
  BY <1>28 DEF WaitForSomeJobs, WakeIdle
<1>29. ASSUME NEW t \in Workers, EnterWaitForSome(t) PROVE JobsInv'
  BY <1>29 DEF EnterWaitForSome
<1>30. ASSUME NEW t \in Workers, LeaveWaitForSomeJobs(t) PROVE JobsInv'
  BY <1>30 DEF LeaveWaitForSomeJobs
<1>31. CASE UNCHANGED vars
  BY <1>31 DEF vars
<1> QED
  BY <1>1, <1>2, <1>3, <1>4, <1>5, <1>6, <1>7, <1>8, <1>9, <1>10, <1>11, <1>12,
     <1>13, <1>14, <1>15, <1>16, <1>17, <1>18, <1>19, <1>20, <1>21, <1>22, <1>23,
     <1>24, <1>25, <1>26, <1>27, <1>28, <1>29, <1>30, <1>31
  DEF Next, ClientContinues, ClientCalls, WorkerStep

(* No job exists for anybody at first.                                     *)
LEMMA JobsInit == Init => JobsInv
<1> SUFFICES ASSUME Init PROVE JobsInv
  OBVIOUS
<1>1. queue \in [Schedulers -> Seq(Jobs)]
  BY DEF Init
<1>2. \A s \in Schedulers : Range(queue[s]) = {} /\ IsInjective(queue[s])
  BY DEF Init, Range, IsInjective
<1>3. \A t \in Workers : job[t] = None
  BY DEF Init
<1>4. \A j \in Jobs : fate[j] = "new" /\ j # None
  BY ActorAssumption DEF Init
<1>5. job \in [Workers -> Jobs \cup {None}]
  BY DEF Init
<1>6. fate \in [Jobs -> {"new", "queued", "executing", "done", "dropped", "abandoned"}]
  BY DEF Init
<1> QED BY <1>1, <1>2, <1>3, <1>4, <1>5, <1>6 DEF JobsInv

(* Schedule, AssignJob, RemoveJobFromQueue and WaitForEmptyQueue: whatever *)
(* the clients do and however many workers pop, a job waits in one queue,  *)
(* once, or is executed by one worker, and is executed at most once.       *)
THEOREM JobsKept == Spec => []JobsConserved
<1>1. ASSUME JobsInv PROVE JobsConserved
  <2> USE <1>1 DEF JobsInv
  <2>1. ASSUME NEW s \in Schedulers, NEW j \in Jobs
        PROVE  Cardinality({i \in DOMAIN queue[s] : queue[s][i] = j}) <= 1
    <3> DEFINE Here == {i \in DOMAIN queue[s] : queue[s][i] = j}
    <3>1. \A i, k \in Here : i = k
      BY DEF IsInjective
    <3>2. Here = {} \/ \E i \in Here : Here = {i}
      BY <3>1
    <3> HIDE DEF Here
    <3>3. Cardinality(Here) = 0 \/ Cardinality(Here) = 1
      BY <3>2, FS_EmptySet, FS_Singleton
    <3> QED BY <3>3 DEF Here
  <2>2. \A j \in Jobs, t1, t2 \in Workers : job[t1] = j /\ job[t2] = j => t1 = t2
    BY ActorAssumption
  <2> QED BY <2>1, <2>2 DEF JobsConserved
<1>2. SchedulerInv /\ JobsInv /\ [Next]_vars => JobsInv'
  BY JobsInductive
<1> QED BY <1>1, <1>2, JobsInit, SchedulerInit, SchedulerInductive, PTL DEF Spec

-----------------------------------------------------------------------------
(***************************************************************************)
(* Starving schedulers.                                                    *)
(***************************************************************************)

\* A step that marks, registers and selects nobody.
StarveKept ==
    /\ \A t \in Workers : pc'[t] = "notify" => pc[t] = "notify" /\ notified'[t] = notified[t]
    /\ \A a \in Actors : pc'[a] = "addStarving" =>
          pc[a] = "addStarving" /\ at'[a] = at[a] /\ notified'[a] = notified[a]
    /\ \A t \in Workers : pc'[t] \in LeavingPlaces \ {"stopStarving"} =>
          /\ pc[t] \in LeavingPlaces \ {"stopStarving"} \/ ~starved[at[t]]
          /\ at'[t] = at[t]

(* Such a step keeps the invariant.                                        *)
LEMMA StarveFrame ==
    ASSUME StarveInv, StarveKept, UNCHANGED starveVars
    PROVE  StarveInv'
<1>0. starved' = starved /\ starving' = starving
  BY DEF starveVars
<1> USE DEF StarveInv, StarveKept
<1>1. \A a \in Actors : pc'[a] = "addStarving" => Registers(a)' = Registers(a)
  BY DEF Registers
<1>2. \A a \in Actors : pc'[a] = "addStarving" =>
          /\ starved'[Registers(a)'] /\ Registers(a)' \notin Range(starving)
          /\ \A t \in Workers : pc'[t] = "notify" => notified'[t] # Registers(a)'
  <2> SUFFICES ASSUME NEW a \in Actors, pc'[a] = "addStarving"
               PROVE  /\ starved'[Registers(a)'] /\ Registers(a)' \notin Range(starving)
                      /\ \A t \in Workers : pc'[t] = "notify" => notified'[t] # Registers(a)'
    BY Zenon
  <2>1. pc[a] = "addStarving" /\ Registers(a)' = Registers(a)
    BY <1>1, Zenon
  <2>2. starved[Registers(a)] /\ Registers(a) \notin Range(starving)
    BY <2>1, Zenon
  <2>3. \A t \in Workers : pc'[t] = "notify" => notified'[t] # Registers(a)
    <3>1. \A t \in Workers : pc[t] = "notify" => notified[t] # Registers(a)
      BY <2>1, Zenon
    <3>2. \A t \in Workers : pc'[t] = "notify" => pc[t] = "notify" /\ notified'[t] = notified[t]
      BY Zenon
    <3> HIDE DEF StarveInv, StarveKept
    <3> QED BY <3>1, <3>2
  <2> QED BY <1>0, <2>1, <2>2, <2>3, Zenon
<1>3. \A t \in Workers : pc'[t] \in LeavingPlaces \ {"stopStarving"} => ~starved'[at'[t]]
  BY <1>0, Zenon
<1>4. \A t \in Workers : pc'[t] = "notify" =>
          starved'[notified'[t]] /\ notified'[t] \notin Range(starving)
  BY <1>0, Zenon
<1>5. \A t1, t2 \in Workers :
          pc'[t1] = "notify" /\ pc'[t2] = "notify" /\ notified'[t1] = notified'[t2] => t1 = t2
  <2>1. \A t1, t2 \in Workers :
           pc[t1] = "notify" /\ pc[t2] = "notify" /\ notified[t1] = notified[t2] => t1 = t2
    BY Zenon
  <2>2. \A t \in Workers : pc'[t] = "notify" => pc[t] = "notify" /\ notified'[t] = notified[t]
    BY Zenon
  <2> HIDE DEF StarveInv, StarveKept
  <2> QED BY <2>1, <2>2
<1> HIDE DEF StarveInv
<1>7. /\ starved \in [Schedulers -> BOOLEAN]
      /\ \A s \in Range(starving) : starved[s]
      /\ IsInjective(starving)
  BY DEF StarveInv
<1> QED BY <1>2, <1>3, <1>4, <1>5, <1>0, <1>7, Zenon DEF StarveInv

(* AllocateThread marks its scheduler while it holds the lock: nobody has  *)
(* it registered, notifies it or leaves it.                                *)
LEMMA StarveMarks ==
    ASSUME SchedulerInv, StarveInv, NEW a \in Actors, NEW s \in Schedulers,
           Starve(a, s), UNCHANGED notified,
           \/ a \in Clients /\ pc[a] = "ready" /\ mutex[s] = None
           \/ a \in Clients /\ pc[a] = "resume" /\ mutex[s] = a
           \/ a \in Workers /\ pc[a] = "allocate" /\ notified[a] = s
    PROVE  StarveInv'
<1> USE ActorsApart DEF SchedulerInv, ControlInv, ControlType
<1>1. /\ starved' = [starved EXCEPT ![s] = TRUE] /\ ~starved[s] /\ UNCHANGED starving
      /\ pc' = [pc EXCEPT ![a] = "addStarving"]
      /\ at' = IF a \in Clients THEN [at EXCEPT ![a] = s] ELSE at
  BY DEF Starve, Hold
<1>2. /\ pc'[a] = "addStarving" /\ \A x \in Actors : x # a => pc'[x] = pc[x]
      /\ Registers(a)' = s /\ \A x \in Actors : x # a => Registers(x)' = Registers(x)
      /\ \A t \in Workers : at'[t] = at[t]
  BY <1>1 DEF Registers
<1>3. /\ starved \in [Schedulers -> BOOLEAN]
      /\ starved' \in [Schedulers -> BOOLEAN]
      /\ starved'[s] /\ \A u : u # s => starved'[u] = starved[u]
  <2>1. starved \in [Schedulers -> BOOLEAN]
    BY DEF StarveInv
  <2> QED BY <1>1, <2>1
<1>4. /\ s \notin Range(starving)
      /\ \A t \in Workers : pc[t] = "notify" => notified[t] # s
  <2>1. /\ \A u \in Range(starving) : starved[u]
        /\ \A t \in Workers : pc[t] = "notify" => starved[notified[t]]
    BY Zenon DEF StarveInv
  <2> QED BY <1>1, <2>1, Zenon
<1>5. \A t \in Workers : pc[t] \in LeavingPlaces => at[t] # s
  BY DEF LockInv
<1>6. \A x \in Actors : x # a /\ pc[x] = "addStarving" => Registers(x) # s
  BY DEF LockInv, Registers, LeavingPlaces, Actors
<1>7. \A x \in Actors : pc'[x] = "addStarving" =>
          /\ starved'[Registers(x)'] /\ Registers(x)' \notin Range(starving)
          /\ \A t \in Workers : pc'[t] = "notify" => notified[t] # Registers(x)'
  <2> SUFFICES ASSUME NEW x \in Actors, pc'[x] = "addStarving"
               PROVE  /\ starved'[Registers(x)'] /\ Registers(x)' \notin Range(starving)
                      /\ \A t \in Workers : pc'[t] = "notify" => notified[t] # Registers(x)'
    BY Zenon
  <2>1. \A t \in Workers : pc'[t] = "notify" => pc[t] = "notify"
    BY <1>2
  <2>2. CASE x = a
    BY <1>2, <1>3, <1>4, <2>1, <2>2, Zenon
  <2>3. CASE x # a
    <3>1. pc[x] = "addStarving" /\ Registers(x)' = Registers(x) /\ Registers(x) # s
      BY <1>2, <1>6, <2>3
    <3>2. /\ starved[Registers(x)] /\ Registers(x) \notin Range(starving)
          /\ \A t \in Workers : pc[t] = "notify" => notified[t] # Registers(x)
      BY <3>1, Zenon DEF StarveInv
    <3> QED BY <1>3, <2>1, <3>1, <3>2, Zenon
  <2> QED BY <2>2, <2>3
<1>8. \A t \in Workers : pc'[t] \in LeavingPlaces \ {"stopStarving"} => ~starved'[at'[t]]
  <2> SUFFICES ASSUME NEW t \in Workers, pc'[t] \in LeavingPlaces \ {"stopStarving"}
               PROVE  ~starved'[at'[t]]
    BY Zenon
  <2>1. pc[t] \in LeavingPlaces \ {"stopStarving"}
    BY <1>2 DEF LeavingPlaces
  <2>2. at'[t] = at[t] /\ at[t] # s
    BY <1>2, <1>5, <2>1
  <2>3. ~starved[at[t]]
    BY <2>1, Zenon DEF StarveInv
  <2> QED BY <1>3, <2>2, <2>3, Zenon
<1>9. \A t \in Workers : pc'[t] = "notify" => pc[t] = "notify" /\ starved'[notified[t]]
  <2>1. \A t \in Workers : pc'[t] = "notify" => pc[t] = "notify" /\ notified[t] # s
    BY <1>2, <1>4
  <2> QED BY <1>3, <2>1, Zenon DEF StarveInv
<1> HIDE DEF SchedulerInv, ControlInv, ControlType
<1>10. \A u \in Range(starving) : starved'[u]
  BY <1>3, <1>4, Zenon DEF StarveInv
<1>11. /\ starving' = starving /\ notified' = notified
       /\ IsInjective(starving)
       /\ \A t \in Workers : pc[t] = "notify" => notified[t] \notin Range(starving)
       /\ \A t1, t2 \in Workers :
            pc[t1] = "notify" /\ pc[t2] = "notify" /\ notified[t1] = notified[t2] => t1 = t2
  BY <1>1, Zenon DEF StarveInv
<1> HIDE DEF StarveInv
<1>12. \A t \in Workers : pc'[t] = "notify" =>
          starved'[notified'[t]] /\ notified'[t] \notin Range(starving')
  BY <1>9, <1>11, Zenon
<1>13. \A t1, t2 \in Workers :
          pc'[t1] = "notify" /\ pc'[t2] = "notify" /\ notified'[t1] = notified'[t2] => t1 = t2
  BY <1>9, <1>11
<1>14. \A x \in Actors : pc'[x] = "addStarving" =>
          /\ starved'[Registers(x)'] /\ Registers(x)' \notin Range(starving')
          /\ \A t \in Workers : pc'[t] = "notify" => notified'[t] # Registers(x)'
  BY <1>7, <1>11, Zenon
<1>15. /\ \A u \in Range(starving') : starved'[u]
       /\ IsInjective(starving')
  BY <1>10, <1>11, Zenon
<1> QED BY <1>3, <1>8, <1>12, <1>13, <1>14, <1>15, Zenon DEF StarveInv

(* A scheduler that is neither selected nor about to register is unmarked  *)
(* and leaves the list.                                                    *)
LEMMA StarveEnds ==
    ASSUME StarveInv, StarveKept, NEW s \in Schedulers,
           starved' = [starved EXCEPT ![s] = FALSE],
           IsInjective(starving'), Range(starving') \subseteq Range(starving) \ {s},
           \A t \in Workers : pc'[t] = "notify" => notified'[t] # s,
           \A a \in Actors : pc'[a] = "addStarving" => Registers(a) # s
    PROVE  StarveInv'
<1>1. /\ starved \in [Schedulers -> BOOLEAN]
      /\ starved' \in [Schedulers -> BOOLEAN]
      /\ ~starved'[s] /\ \A u : u # s => starved'[u] = starved[u]
  <2>1. starved \in [Schedulers -> BOOLEAN]
    BY DEF StarveInv
  <2> QED BY <2>1
<1>2. \A u \in Range(starving') : starved'[u]
  <2>1. \A u \in Range(starving) : starved[u]
    BY Zenon DEF StarveInv
  <2> QED BY <1>1, <2>1, Zenon
<1>3. \A t \in Workers : pc'[t] = "notify" =>
         pc[t] = "notify" /\ notified'[t] = notified[t] /\ notified[t] # s
  BY Zenon DEF StarveKept
<1>4. \A t \in Workers : pc'[t] = "notify" =>
          starved'[notified'[t]] /\ notified'[t] \notin Range(starving')
  <2>1. \A t \in Workers : pc[t] = "notify" =>
           starved[notified[t]] /\ notified[t] \notin Range(starving)
    BY Zenon DEF StarveInv
  <2>2. \A t \in Workers : pc'[t] = "notify" => notified'[t] \notin Range(starving')
    BY <1>3, <2>1
  <2>3. ASSUME NEW t \in Workers, pc'[t] = "notify" PROVE starved'[notified'[t]]
    <3>1. starved[notified[t]] /\ notified'[t] = notified[t] /\ notified[t] # s
      BY <1>3, <2>1, <2>3, Zenon
    <3> QED BY <1>1, <3>1, Zenon
  <2> QED BY <2>2, <2>3, Zenon
<1>5. \A t1, t2 \in Workers :
          pc'[t1] = "notify" /\ pc'[t2] = "notify" /\ notified'[t1] = notified'[t2] => t1 = t2
  <2>1. \A t1, t2 \in Workers :
           pc[t1] = "notify" /\ pc[t2] = "notify" /\ notified[t1] = notified[t2] => t1 = t2
    BY Zenon DEF StarveInv
  <2> QED BY <1>3, <2>1
<1>6. ASSUME NEW a \in Actors, pc'[a] = "addStarving"
      PROVE  /\ starved'[Registers(a)'] /\ Registers(a)' \notin Range(starving')
             /\ \A t \in Workers : pc'[t] = "notify" => notified'[t] # Registers(a)'
  <2>1. pc[a] = "addStarving" /\ at'[a] = at[a] /\ notified'[a] = notified[a]
    BY <1>6, Zenon DEF StarveKept
  <2>2. Registers(a)' = Registers(a) /\ Registers(a) # s
    BY <1>6, <2>1 DEF Registers
  <2>3. /\ starved[Registers(a)] /\ Registers(a) \notin Range(starving)
        /\ \A t \in Workers : pc[t] = "notify" => notified[t] # Registers(a)
    BY <2>1, Zenon DEF StarveInv
  <2>4. \A t \in Workers : pc'[t] = "notify" => notified'[t] # Registers(a)
    BY <1>3, <2>3
  <2> QED BY <1>1, <2>2, <2>3, <2>4, Zenon
<1>7. \A t \in Workers : pc'[t] \in LeavingPlaces \ {"stopStarving"} => ~starved'[at'[t]]
  <2>1. \A t \in Workers : pc'[t] \in LeavingPlaces \ {"stopStarving"} =>
           /\ pc[t] \in LeavingPlaces \ {"stopStarving"} \/ ~starved[at[t]]
           /\ at'[t] = at[t]
    BY Zenon DEF StarveKept
  <2>2. \A t \in Workers : pc[t] \in LeavingPlaces \ {"stopStarving"} => ~starved[at[t]]
    BY Zenon DEF StarveInv
  <2> QED BY <1>1, <2>1, <2>2, Zenon
<1> QED BY <1>1, <1>2, <1>4, <1>5, <1>6, <1>7, Zenon DEF StarveInv

(* StopStarvation takes the scheduler's entry out of the list.             *)
LEMMA StarveRemoved ==
    ASSUME ControlInv, StarveInv, StarveKept, NEW s \in Schedulers, RemoveStarving(s)
    PROVE  StarveInv'
<1>1. starving \in Seq(Schedulers) /\ IsInjective(starving)
  BY DEF ControlInv, ControlType, StarveInv
<1>2. PICK i \in DOMAIN starving : starving[i] = s /\ starving' = RemoveAt(starving, i)
  BY DEF RemoveStarving
<1>3. /\ IsInjective(starving') /\ Range(starving') = Range(starving) \ {s}
      /\ s \in Range(starving)
  <2>1. s \in Range(starving)
    BY <1>2 DEF Range
  <2> QED BY <1>1, <1>2, <2>1, RemoveDistinct
<1>4. starved' = [starved EXCEPT ![s] = FALSE]
  BY DEF RemoveStarving
<1>5. \A t \in Workers : pc'[t] = "notify" => notified'[t] # s
  <2>1. \A t \in Workers : pc'[t] = "notify" => pc[t] = "notify" /\ notified'[t] = notified[t]
    BY Zenon DEF StarveKept
  <2>2. \A t \in Workers : pc[t] = "notify" => notified[t] \notin Range(starving)
    BY Zenon DEF StarveInv
  <2> QED BY <1>3, <2>1, <2>2
<1>6. \A a \in Actors : pc'[a] = "addStarving" => Registers(a) # s
  <2>1. \A a \in Actors : pc'[a] = "addStarving" => pc[a] = "addStarving"
    BY Zenon DEF StarveKept
  <2>2. \A a \in Actors : pc[a] = "addStarving" => Registers(a) \notin Range(starving)
    BY Zenon DEF StarveInv
  <2> QED BY <1>3, <2>1, <2>2
<1> QED BY <1>3, <1>4, <1>5, <1>6, StarveEnds

(* ThreadAvailable ends the starvation of the selected scheduler.          *)
LEMMA StarveNotified ==
    ASSUME SchedulerInv, StarveInv, NEW t \in Workers, ThreadAvailable(t)
    PROVE  StarveInv'
<1> USE ActorsApart DEF SchedulerInv, ControlInv, ControlType
<1> DEFINE s == notified[t]
<1>1. /\ pc[t] = "notify" /\ pc' = [pc EXCEPT ![t] = "allocate"]
      /\ starved' = [starved EXCEPT ![s] = FALSE]
      /\ starving' = starving /\ at' = at /\ notified' = notified
  BY DEF ThreadAvailable, controlVars
<1>2. s \in Schedulers
  BY <1>1 DEF LockInv
<1>3. pc'[t] = "allocate" /\ \A x \in Actors : x # t => pc'[x] = pc[x]
  BY <1>1
<1>4. StarveKept
  BY <1>1, <1>3 DEF StarveKept, LeavingPlaces
<1>5. IsInjective(starving') /\ Range(starving') \subseteq Range(starving) \ {s}
  <2>1. s \notin Range(starving) /\ IsInjective(starving)
    BY <1>1, Zenon DEF StarveInv
  <2> QED BY <1>1, <2>1, Zenon
<1>6. \A u \in Workers : pc'[u] = "notify" => notified'[u] # s
  <2>1. \A u \in Workers : pc[u] = "notify" /\ notified[u] = s => u = t
    BY <1>1, Zenon DEF StarveInv
  <2> QED BY <1>1, <1>3, <2>1
<1>7. \A a \in Actors : pc'[a] = "addStarving" => Registers(a) # s
  <2>1. \A a \in Actors : pc[a] = "addStarving" => notified[t] # Registers(a)
    BY <1>1, Zenon DEF StarveInv
  <2> QED BY <1>3, <2>1
<1> HIDE DEF s, SchedulerInv, ControlInv, ControlType
<1> QED BY <1>1, <1>2, <1>4, <1>5, <1>6, <1>7, StarveEnds

(* AddStarving registers the marked scheduler.                             *)
LEMMA StarveRegistered ==
    ASSUME SchedulerInv, StarveInv, NEW a \in Actors, AddStarving(a)
    PROVE  StarveInv'
<1> USE ActorsApart DEF SchedulerInv, ControlInv, ControlType
<1> DEFINE s == Registers(a)
<1>1. /\ pc[a] = "addStarving" /\ s \in Schedulers
      /\ starving' = Append(starving, s)
      /\ starved' = starved /\ at' = at /\ notified' = notified
      /\ pc' = [pc EXCEPT ![a] = IF a \in Clients THEN "ready" ELSE "select"]
  BY DEF AddStarving, Unlock, Registers, LockInv, Actors, ClientPlaces
<1>2. /\ starved[s] /\ s \notin Range(starving)
      /\ \A t \in Workers : pc[t] = "notify" => notified[t] # s
  BY <1>1, Zenon DEF StarveInv
<1>3. IsInjective(starving') /\ Range(starving') = Range(starving) \cup {s}
  <2>1. starving \in Seq(Schedulers) /\ IsInjective(starving)
    BY DEF StarveInv
  <2> HIDE DEF s
  <2> QED BY <1>1, <1>2, <2>1, AppendDistinct
<1>4. /\ \A x \in Actors : x # a => pc'[x] = pc[x]
      /\ pc'[a] \in {"ready", "select"} /\ (a \in Workers => pc'[a] = "select")
      /\ (a \in Clients => pc'[a] = "ready")
      /\ \A x \in Actors : Registers(x)' = Registers(x)
  BY <1>1 DEF Registers, Actors
<1>5. \A x \in Actors : x # a /\ pc[x] = "addStarving" => Registers(x) # s
  BY <1>1 DEF LockInv, Registers, LeavingPlaces, Actors
<1> HIDE DEF s
<1>6. \A u \in Range(starving') : starved'[u]
  <2>1. \A u \in Range(starving) : starved[u]
    BY Zenon DEF StarveInv
  <2> QED BY <1>1, <1>2, <1>3, <2>1, Zenon
<1>7. \A t \in Workers : pc'[t] = "notify" => pc[t] = "notify" /\ notified[t] # s
  BY <1>2, <1>4
<1>8. \A t \in Workers : pc'[t] = "notify" =>
         starved'[notified'[t]] /\ notified'[t] \notin Range(starving')
  <2>1. \A t \in Workers : pc[t] = "notify" =>
           starved[notified[t]] /\ notified[t] \notin Range(starving)
    BY Zenon DEF StarveInv
  <2>2. \A t \in Workers : pc'[t] = "notify" => notified[t] \notin Range(starving')
    BY <1>3, <1>7, <2>1
  <2> QED BY <1>1, <1>7, <2>1, <2>2, Zenon
<1>9. \A t1, t2 \in Workers :
          pc'[t1] = "notify" /\ pc'[t2] = "notify" /\ notified'[t1] = notified'[t2] => t1 = t2
  <2>1. \A t1, t2 \in Workers :
           pc[t1] = "notify" /\ pc[t2] = "notify" /\ notified[t1] = notified[t2] => t1 = t2
    BY Zenon DEF StarveInv
  <2> QED BY <1>1, <1>7, <2>1
<1>10. ASSUME NEW x \in Actors, pc'[x] = "addStarving"
       PROVE  /\ starved'[Registers(x)'] /\ Registers(x)' \notin Range(starving')
              /\ \A t \in Workers : pc'[t] = "notify" => notified'[t] # Registers(x)'
  <2>1. x # a /\ pc[x] = "addStarving" /\ Registers(x)' = Registers(x) /\ Registers(x) # s
    BY <1>4, <1>5, <1>10
  <2>2. /\ starved[Registers(x)] /\ Registers(x) \notin Range(starving)
        /\ \A t \in Workers : pc[t] = "notify" => notified[t] # Registers(x)
    BY <2>1, Zenon DEF StarveInv
  <2>3. Registers(x) \notin Range(starving')
    BY <1>3, <2>1, <2>2
  <2> QED BY <1>1, <1>7, <2>1, <2>2, <2>3, Zenon
<1>11. \A t \in Workers : pc'[t] \in LeavingPlaces \ {"stopStarving"} => ~starved'[at'[t]]
  <2>1. \A t \in Workers : pc'[t] \in LeavingPlaces \ {"stopStarving"} =>
           pc[t] \in LeavingPlaces \ {"stopStarving"}
    BY <1>1, <1>4 DEF LeavingPlaces
  <2>2. \A t \in Workers : pc[t] \in LeavingPlaces \ {"stopStarving"} => ~starved[at[t]]
    BY Zenon DEF StarveInv
  <2> QED BY <1>1, <2>1, <2>2, Zenon
<1>12. starved' \in [Schedulers -> BOOLEAN]
  BY <1>1 DEF StarveInv
<1> HIDE DEF SchedulerInv, ControlInv, ControlType
<1> QED BY <1>3, <1>6, <1>8, <1>9, <1>10, <1>11, <1>12, Zenon DEF StarveInv

(* Release goes on once the scheduler of the worker is not starved.        *)
LEMMA StarveReleased ==
    ASSUME SchedulerInv, StarveInv, NEW t \in Workers, Release(t)
    PROVE  StarveInv'
<1> USE ActorsApart DEF SchedulerInv, ControlInv, ControlType
<1>1. /\ pc[t] = "stopStarving" /\ at[t] \in Schedulers
      /\ UNCHANGED <<starveVars, at, notified>>
  BY DEF Release, LockInv, LeavingPlaces
<1>2. /\ pc'[t] \in {"loop", "select", "joinSelf"}
      /\ \A u \in Workers : u # t => pc'[u] = pc[u]
      /\ \A c \in Clients : pc'[c] = "addStarving" => pc[c] = "addStarving"
  <2>1. \/ EndRelease(t, at[t])
        \/ pc' = [pc EXCEPT ![t] = "select"] \/ pc' = [pc EXCEPT ![t] = "joinSelf"]
    BY DEF Release
  <2>2. CASE EndRelease(t, at[t])
    BY <1>1, <2>2, EndReleaseMoves
  <2> QED BY <2>1, <2>2
<1>3. ~starved[at[t]]
  BY Zenon DEF Release, StarvationStopped
<1>4. \A u \in Workers : pc'[u] \in LeavingPlaces \ {"stopStarving"} =>
         /\ pc[u] \in LeavingPlaces \ {"stopStarving"} \/ ~starved[at[u]]
         /\ at'[u] = at[u]
  <2>1. \A u \in Workers : u # t /\ pc'[u] \in LeavingPlaces \ {"stopStarving"} =>
           pc[u] \in LeavingPlaces \ {"stopStarving"}
    BY <1>2
  <2>2. at' = at
    BY <1>1
  <2> QED BY <1>3, <2>1, <2>2, Zenon
<1>5. StarveKept
  BY <1>1, <1>2, <1>4 DEF StarveKept, Actors
<1> QED BY <1>1, <1>5, StarveFrame

(* SelectStarving moves the first of the list to whoever notifies it.      *)
LEMMA StarveSelected ==
    ASSUME SchedulerInv, StarveInv, NEW t \in Workers, SelectStarving(t)
    PROVE  StarveInv'
<1> USE ActorsApart DEF SchedulerInv, ControlInv, ControlType
<1> DEFINE s == Head(starving)
<1>1. pc[t] = "select" /\ at' = at /\ starved' = starved /\ at[t] \in Schedulers
  BY DEF SelectStarving, LockInv, LeavingPlaces
<1>2. CASE EndRelease(t, at[t]) /\ UNCHANGED <<starving, notified>>
  <2>1. StarveKept
    BY <1>1, <1>2, EndReleaseMoves DEF StarveKept, LeavingPlaces, Actors
  <2> QED BY <1>1, <1>2, <2>1, StarveFrame DEF starveVars
<1>3. CASE /\ starving # <<>>
           /\ starving' = Tail(starving)
           /\ notified' = [notified EXCEPT ![t] = s]
           /\ pc' = [pc EXCEPT ![t] = "notify"]
  <2>1. /\ s \in Schedulers /\ s \in Range(starving)
        /\ IsInjective(starving') /\ Range(starving') = Range(starving) \ {s}
    <3>1. /\ starving \in Seq(Schedulers) /\ IsInjective(starving)
          /\ Len(starving) \in Nat \ {0}
          /\ starving' = SubSeq(starving, 2, Len(starving))
      BY <1>3 DEF StarveInv
    <3>2. /\ s \in Schedulers
          /\ 2 \in 1 .. Len(starving) + 1 /\ Len(starving) \in 0 .. Len(starving)
      BY <3>1
    <3>3. IsInjective(SubSeq(starving, 2, Len(starving)))
      BY <3>1, <3>2, SubSeqDistinct
    <3>4. /\ s \in Range(starving)
          /\ Range(SubSeq(starving, 2, Len(starving))) = Range(starving) \ {s}
      BY <1>3, <3>1, PopDistinct
    <3> QED BY <3>1, <3>2, <3>3, <3>4
  <2>2. /\ pc'[t] = "notify" /\ \A x \in Actors : x # t => pc'[x] = pc[x]
        /\ notified'[t] = s /\ \A x \in Actors : x # t => notified'[x] = notified[x]
    BY <1>3, <2>1
  <2>3. starved[s]
    BY <2>1, Zenon DEF StarveInv
  <2>4. /\ \A u \in Workers : pc[u] = "notify" =>
              starved[notified[u]] /\ notified[u] \notin Range(starving)
        /\ \A t1, t2 \in Workers :
              pc[t1] = "notify" /\ pc[t2] = "notify" /\ notified[t1] = notified[t2] => t1 = t2
        /\ \A a \in Actors : pc[a] = "addStarving" =>
              /\ starved[Registers(a)] /\ Registers(a) \notin Range(starving)
              /\ \A u \in Workers : pc[u] = "notify" => notified[u] # Registers(a)
        /\ \A u \in Range(starving) : starved[u]
        /\ starved \in [Schedulers -> BOOLEAN]
    BY Zenon DEF StarveInv
  <2>5. \A u \in Workers : pc'[u] = "notify" /\ u # t =>
           pc[u] = "notify" /\ notified'[u] = notified[u] /\ notified[u] # s
    BY <2>1, <2>2, <2>4
  <2>6. \A a \in Actors : pc'[a] = "addStarving" =>
           pc[a] = "addStarving" /\ Registers(a)' = Registers(a) /\ Registers(a) # s
    BY <1>1, <2>1, <2>2, <2>4 DEF Registers, Actors
  <2>7. \A u \in Workers : pc'[u] = "notify" =>
           starved'[notified'[u]] /\ notified'[u] \notin Range(starving')
    <3>1. \A u \in Workers : pc'[u] = "notify" => notified'[u] \notin Range(starving')
      BY <2>1, <2>2, <2>4, <2>5
    <3>2. ASSUME NEW u \in Workers, pc'[u] = "notify" PROVE starved'[notified'[u]]
      <4>1. CASE u = t
        BY <1>1, <2>2, <2>3, <4>1, Zenon
      <4>2. CASE u # t
        BY <1>1, <2>4, <2>5, <3>2, <4>2, Zenon
      <4> QED BY <4>1, <4>2
    <3> QED BY <3>1, <3>2, Zenon
  <2>8. \A t1, t2 \in Workers :
          pc'[t1] = "notify" /\ pc'[t2] = "notify" /\ notified'[t1] = notified'[t2] => t1 = t2
    BY <2>2, <2>4, <2>5
  <2>9. ASSUME NEW a \in Actors, pc'[a] = "addStarving"
        PROVE  /\ starved'[Registers(a)'] /\ Registers(a)' \notin Range(starving')
               /\ \A u \in Workers : pc'[u] = "notify" => notified'[u] # Registers(a)'
    <3>1. pc[a] = "addStarving" /\ Registers(a)' = Registers(a) /\ Registers(a) # s
      BY <2>6, <2>9, Zenon
    <3>2. /\ starved[Registers(a)] /\ Registers(a) \notin Range(starving)
          /\ \A u \in Workers : pc[u] = "notify" => notified[u] # Registers(a)
      BY <2>4, <3>1, Zenon
    <3>3. Registers(a) \notin Range(starving')
      BY <2>1, <3>2
    <3>4. \A u \in Workers : pc'[u] = "notify" => notified'[u] # Registers(a)
      BY <2>2, <2>5, <3>1, <3>2
    <3> QED BY <1>1, <3>1, <3>2, <3>3, <3>4, Zenon
  <2>10. \A u \in Workers : pc'[u] \in LeavingPlaces \ {"stopStarving"} => ~starved'[at'[u]]
    <3>1. \A u \in Workers : pc'[u] \in LeavingPlaces \ {"stopStarving"} =>
             pc[u] \in LeavingPlaces \ {"stopStarving"}
      BY <1>1, <2>2 DEF LeavingPlaces
    <3>2. \A u \in Workers : pc[u] \in LeavingPlaces \ {"stopStarving"} => ~starved[at[u]]
      BY Zenon DEF StarveInv
    <3> QED BY <1>1, <3>1, <3>2, Zenon
  <2>11. \A u \in Range(starving') : starved'[u]
    BY <1>1, <2>1, <2>4, Zenon
  <2> HIDE DEF SchedulerInv, ControlInv, ControlType
  <2>12. starved' \in [Schedulers -> BOOLEAN]
    BY <1>1, <2>4
  <2> QED BY <2>1, <2>7, <2>8, <2>9, <2>10, <2>11, <2>12, Zenon DEF StarveInv
<1> QED BY <1>2, <1>3 DEF SelectStarving

(* Every step keeps the bookkeeping of starvation.                         *)
LEMMA StarveInductive ==
    ASSUME SchedulerInv, StarveInv, [Next]_vars
    PROVE  StarveInv'
<1> USE ActorsApart, StarveFrame
    DEF StarveKept, SchedulerInv, ControlInv, ControlType, LeavingPlaces, allocVars,
        starveVars, eventVars, limitVars, jobVars, controlVars, countVars
<1>1. ASSUME NEW c \in Clients, AddStarving(c) PROVE StarveInv'
  BY <1>1, StarveRegistered DEF Actors
<1>2. ASSUME NEW c \in Clients, ResumeLoop(c) PROVE StarveInv'
  <2>1. at[c] \in Schedulers
    BY <1>2 DEF ResumeLoop, ClientPlaces
  <2>2. CASE Starve(c, at[c])
    BY <1>2, <2>1, <2>2, StarveMarks DEF ResumeLoop, LockInv
  <2>3. CASE ~Starve(c, at[c])
    BY <1>2, <2>3 DEF ResumeLoop, Granted, Refused, Unlock
  <2> QED BY <2>2, <2>3
<1>3. ASSUME NEW c \in Clients, CheckEmpty(c) PROVE StarveInv'
  BY <1>3 DEF CheckEmpty, Return
<1>4. ASSUME NEW c \in Clients, EnterWait(c) PROVE StarveInv'
  BY <1>4 DEF EnterWait
<1>5. ASSUME NEW c \in Clients, DestroyStopStarvation(c) PROVE StarveInv'
  <2>1. at[c] \in Schedulers /\ StarveKept
    BY <1>5 DEF DestroyStopStarvation, ClientPlaces
  <2>2. CASE UNCHANGED starveVars
    BY <2>1, <2>2
  <2>3. CASE RemoveStarving(at[c])
    BY <2>1, <2>3, StarveRemoved
  <2> QED BY <1>5, <2>2, <2>3 DEF DestroyStopStarvation
<1>6. ASSUME NEW c \in Clients, UseAllCPUs(c) PROVE StarveInv'
  BY <1>6 DEF UseAllCPUs, SetThreadCount, Return
<1>7. ASSUME NEW c \in Clients, Shrink(c) PROVE StarveInv'
  BY <1>7 DEF Shrink, Return
<1>8. ASSUME NEW c \in Clients, Join(c) PROVE StarveInv'
  BY <1>8 DEF Join
<1>9. ASSUME NEW c \in Clients, NEW s \in Schedulers, NEW j \in Jobs, Schedule(c, s, j)
      PROVE  StarveInv'
  <2>1. CASE Starve(c, s)
    BY <1>9, <2>1, StarveMarks DEF Schedule, Enters, Ready
  <2>2. CASE ~Starve(c, s)
    BY <1>9, <2>2 DEF Schedule, Granted, Refused
  <2> QED BY <2>1, <2>2
<1>10. ASSUME NEW c \in Clients, NEW s \in Schedulers, NEW w \in Watermarks,
              NEW o \in BOOLEAN, RemoveJobFromQueue(c, s, w, o)
      PROVE  StarveInv'
  BY <1>10 DEF RemoveJobFromQueue
<1>11. ASSUME NEW c \in Clients, NEW s \in Schedulers, Stop(c, s) PROVE StarveInv'
  BY <1>11 DEF Stop
<1>12. ASSUME NEW c \in Clients, NEW s \in Schedulers, Resume(c, s)
      PROVE  StarveInv'
  BY <1>12 DEF Resume, Hold, Enters, Ready
<1>13. ASSUME NEW c \in Clients, NEW s \in Schedulers, WaitForEmptyQueue(c, s)
      PROVE  StarveInv'
  BY <1>13 DEF WaitForEmptyQueue, Ready
<1>14. ASSUME NEW c \in Clients, NEW s \in Schedulers, Construct(c, s)
      PROVE  StarveInv'
  BY <1>14 DEF Construct, Ready
<1>15. ASSUME NEW c \in Clients, NEW s \in Schedulers, Destroy(c, s)
      PROVE  StarveInv'
  BY <1>15 DEF Destroy, Ready
<1>16. ASSUME NEW c \in Clients, Timeout(c) PROVE StarveInv'
  BY <1>16 DEF Timeout, Return
<1>17. ASSUME NEW c \in Clients, NEW n, SetSharedThreadCount(c, n)
      PROVE  StarveInv'
  BY <1>17 DEF SetSharedThreadCount, SetThreadCount, Return
<1>18. ASSUME NEW t \in Workers, NEW s \in Schedulers, TakeJob(t, s)
      PROVE  StarveInv'
  BY <1>18, WakeWaitingMoves DEF TakeJob, EntersAssignJob
<1>19. ASSUME NEW t \in Workers, NEW s \in Schedulers, ParkPrivate(t, s)
      PROVE  StarveInv'
  BY <1>19, ParkMoves DEF ParkPrivate
<1>20. ASSUME NEW t \in Workers, NEW s \in Schedulers, LeaveRunning(t, s)
      PROVE  StarveInv'
  BY <1>20, WakeWaitingMoves DEF LeaveRunning, EntersAssignJob
<1>21. ASSUME NEW t \in Workers, StopStarvation(t) PROVE StarveInv'
  <2>1. at[t] \in Schedulers /\ StarveKept
    BY <1>21 DEF StopStarvation, LockInv
  <2> QED BY <1>21, <2>1, StarveRemoved DEF StopStarvation
<1>22. ASSUME NEW t \in Workers, Release(t) PROVE StarveInv'
  BY <1>22, StarveReleased
<1>23. ASSUME NEW t \in Workers, SelectStarving(t) PROVE StarveInv'
  BY <1>23, StarveSelected
<1>24. ASSUME NEW t \in Workers, ThreadAvailable(t) PROVE StarveInv'
  BY <1>24, StarveNotified
<1>25. ASSUME NEW t \in Workers, AllocateLoop(t) PROVE StarveInv'
  <2>1. CASE Starve(t, notified[t])
    BY <1>25, <2>1, StarveMarks DEF AllocateLoop, LockInv
  <2>2. CASE ~Starve(t, notified[t])
    BY <1>25, <2>2 DEF AllocateLoop, Unlock
  <2> QED BY <2>1, <2>2
<1>26. ASSUME NEW t \in Workers, AddStarving(t) PROVE StarveInv'
  BY <1>26, StarveRegistered DEF Actors
<1>27. ASSUME NEW t \in Workers, FinishJob(t) PROVE StarveInv'
  BY <1>27 DEF FinishJob
<1>28. ASSUME NEW t \in Workers, WaitForSomeJobs(t) PROVE StarveInv'
  BY <1>28 DEF WaitForSomeJobs, WakeIdle
<1>29. ASSUME NEW t \in Workers, EnterWaitForSome(t) PROVE StarveInv'
  BY <1>29 DEF EnterWaitForSome
<1>30. ASSUME NEW t \in Workers, LeaveWaitForSomeJobs(t) PROVE StarveInv'
  BY <1>30 DEF LeaveWaitForSomeJobs
<1>31. CASE UNCHANGED vars
  BY <1>31 DEF vars
<1> QED
  BY <1>1, <1>2, <1>3, <1>4, <1>5, <1>6, <1>7, <1>8, <1>9, <1>10, <1>11, <1>12,
     <1>13, <1>14, <1>15, <1>16, <1>17, <1>18, <1>19, <1>20, <1>21, <1>22, <1>23,
     <1>24, <1>25, <1>26, <1>27, <1>28, <1>29, <1>30, <1>31
  DEF Next, ClientContinues, ClientCalls, WorkerStep

(* At first no scheduler starves.                                          *)
LEMMA StarveInit == Init => StarveInv
<1> SUFFICES ASSUME Init PROVE StarveInv
  OBVIOUS
<1>1. starving = <<>> /\ starved = [s \in Schedulers |-> FALSE]
  BY DEF Init
<1>2. Range(starving) = {} /\ IsInjective(starving)
  BY <1>1 DEF Range, IsInjective
<1>3. \A a \in Actors : pc[a] \notin LeavingPlaces
  BY DEF Init, LeavingPlaces
<1> QED BY <1>1, <1>2, <1>3, ActorsApart DEF StarveInv, LeavingPlaces

(* AddStarving, StopStarvation, SelectStarving, ThreadAvailable: a         *)
(* registered scheduler is marked starved, is registered once, and is off  *)
(* the list while a worker is on its way to notify it, alone.              *)
THEOREM RegisteredAreStarved == Spec => []StarvingRegistered
<1>1. StarveInv => StarvingRegistered
  BY Zenon DEF StarveInv, StarvingRegistered
<1>2. SchedulerInv /\ StarveInv /\ [Next]_vars => StarveInv'
  BY StarveInductive
<1> QED BY <1>1, <1>2, StarveInit, SchedulerInit, SchedulerInductive, PTL DEF Spec

-----------------------------------------------------------------------------
(***************************************************************************)
(* Locks.                                                                  *)
(***************************************************************************)

\* A lock that a worker keeps between two steps is that of the scheduler it
\* leaves or of the one it notifies.
HolderInv ==
    \A t \in Workers, s \in Schedulers : mutex[s] = t =>
       /\ pc[t] \in LeavingPlaces
       /\ \/ s = at[t]
          \/ s = notified[t] /\ pc[t] \in {"allocate", "addStarving"}

(* Workers take and give back locks where HolderInv says.                  *)
LEMMA HolderInductive ==
    ASSUME SchedulerInv, HolderInv, [Next]_vars
    PROVE  HolderInv'
<1> USE ActorsApart
    DEF HolderInv, SchedulerInv, ControlInv, ControlType, LockInv, LeavingPlaces, allocVars,
        starveVars, eventVars, limitVars, jobVars, controlVars, countVars
<1>1. ASSUME NEW c \in Clients, AddStarving(c) PROVE HolderInv'
  BY <1>1 DEF AddStarving, Unlock, Actors
<1>2. ASSUME NEW c \in Clients, ResumeLoop(c) PROVE HolderInv'
  BY <1>2 DEF ResumeLoop, Granted, Refused, Starve, Hold, Unlock
<1>3. ASSUME NEW c \in Clients, CheckEmpty(c) PROVE HolderInv'
  BY <1>3 DEF CheckEmpty, Return
<1>4. ASSUME NEW c \in Clients, EnterWait(c) PROVE HolderInv'
  BY <1>4 DEF EnterWait
<1>5. ASSUME NEW c \in Clients, DestroyStopStarvation(c) PROVE HolderInv'
  BY <1>5 DEF DestroyStopStarvation
<1>6. ASSUME NEW c \in Clients, UseAllCPUs(c) PROVE HolderInv'
  BY <1>6 DEF UseAllCPUs, SetThreadCount, Return
<1>7. ASSUME NEW c \in Clients, Shrink(c) PROVE HolderInv'
  BY <1>7 DEF Shrink, Return
<1>8. ASSUME NEW c \in Clients, Join(c) PROVE HolderInv'
  BY <1>8 DEF Join
<1>9. ASSUME NEW c \in Clients, NEW s \in Schedulers, NEW j \in Jobs, Schedule(c, s, j)
      PROVE  HolderInv'
  BY <1>9 DEF Schedule, Granted, Refused, Starve, Hold, Unlock, Enters, Ready
<1>10. ASSUME NEW c \in Clients, NEW s \in Schedulers, NEW w \in Watermarks,
              NEW o \in BOOLEAN, RemoveJobFromQueue(c, s, w, o)
      PROVE  HolderInv'
  BY <1>10 DEF RemoveJobFromQueue
<1>11. ASSUME NEW c \in Clients, NEW s \in Schedulers, Stop(c, s) PROVE HolderInv'
  BY <1>11 DEF Stop
<1>12. ASSUME NEW c \in Clients, NEW s \in Schedulers, Resume(c, s)
      PROVE  HolderInv'
  BY <1>12 DEF Resume, Hold, Enters, Ready
<1>13. ASSUME NEW c \in Clients, NEW s \in Schedulers, WaitForEmptyQueue(c, s)
      PROVE  HolderInv'
  BY <1>13 DEF WaitForEmptyQueue, Ready
<1>14. ASSUME NEW c \in Clients, NEW s \in Schedulers, Construct(c, s)
      PROVE  HolderInv'
  BY <1>14 DEF Construct, Ready
<1>15. ASSUME NEW c \in Clients, NEW s \in Schedulers, Destroy(c, s)
      PROVE  HolderInv'
  BY <1>15 DEF Destroy, Ready
<1>16. ASSUME NEW c \in Clients, Timeout(c) PROVE HolderInv'
  BY <1>16 DEF Timeout, Return
<1>17. ASSUME NEW c \in Clients, NEW n, SetSharedThreadCount(c, n)
      PROVE  HolderInv'
  BY <1>17 DEF SetSharedThreadCount, SetThreadCount, Return
<1>18. ASSUME NEW t \in Workers, NEW s \in Schedulers, TakeJob(t, s)
      PROVE  HolderInv'
  <2>1. /\ UNCHANGED <<mutex, at, notified>> /\ pc[t] = "loop"
        /\ pc' = [WakeWaiting(s) EXCEPT ![t] = "execute"]
    BY <1>18 DEF TakeJob, EntersAssignJob
  <2>2. \A u \in Workers : pc[u] \in LeavingPlaces => pc'[u] = pc[u]
    BY <2>1, WakeWaitingMoves
  <2> QED BY <2>1, <2>2
<1>19. ASSUME NEW t \in Workers, NEW s \in Schedulers, ParkPrivate(t, s)
      PROVE  HolderInv'
  <2>1. /\ UNCHANGED <<mutex, at, notified>>
        /\ \A u \in Workers : pc[u] \in LeavingPlaces => pc'[u] = pc[u]
    BY <1>19, ParkMoves DEF ParkPrivate
  <2> QED BY <2>1
<1>20. ASSUME NEW t \in Workers, NEW s \in Schedulers, LeaveRunning(t, s)
      PROVE  HolderInv'
  <2>1. /\ mutex' = [mutex EXCEPT ![s] = t] /\ mutex[s] = None /\ pc[t] = "loop"
        /\ at' = [at EXCEPT ![t] = s] /\ UNCHANGED notified
        /\ pc' = [WakeWaiting(s) EXCEPT ![t] = "stopStarving"]
    BY <1>20 DEF LeaveRunning, EntersAssignJob
  <2>2. /\ pc'[t] = "stopStarving"
        /\ \A u \in Workers : u # t /\ pc[u] \in LeavingPlaces => pc'[u] = pc[u]
    BY <2>1, WakeWaitingMoves
  <2>3. \A u \in Workers : u # t => at'[u] = at[u]
    BY <2>1
  <2> QED BY <2>1, <2>2, <2>3
<1>21. ASSUME NEW t \in Workers, StopStarvation(t) PROVE HolderInv'
  BY <1>21 DEF StopStarvation
<1>22. ASSUME NEW t \in Workers, Release(t) PROVE HolderInv'
  <2>1. at[t] \in Schedulers /\ mutex[at[t]] = t
    BY <1>22 DEF Release
  <2>2. CASE EndRelease(t, at[t])
    <3>1. /\ mutex' = [mutex EXCEPT ![at[t]] = None] /\ at' = at /\ pc'[t] = "loop"
          /\ pc[t] \in {"stopStarving", "select"}
          /\ notified' = notified \/ notified' = [notified EXCEPT ![t] = Head(starving)]
          /\ \A u \in Workers : u # t => pc'[u] = pc[u]
      BY <1>22, <2>1, <2>2, EndReleaseMoves DEF Release, EndRelease
    <3> QED BY <2>1, <3>1
  <2>3. CASE ~EndRelease(t, at[t])
    BY <1>22, <2>1, <2>3 DEF Release
  <2> QED BY <2>2, <2>3
<1>23. ASSUME NEW t \in Workers, SelectStarving(t) PROVE HolderInv'
  <2>1. at[t] \in Schedulers /\ mutex[at[t]] = t
    BY <1>23 DEF SelectStarving
  <2>2. CASE EndRelease(t, at[t])
    <3>1. /\ mutex' = [mutex EXCEPT ![at[t]] = None] /\ at' = at /\ pc'[t] = "loop"
          /\ pc[t] \in {"stopStarving", "select"}
          /\ notified' = notified \/ notified' = [notified EXCEPT ![t] = Head(starving)]
          /\ \A u \in Workers : u # t => pc'[u] = pc[u]
      BY <1>23, <2>1, <2>2, EndReleaseMoves DEF SelectStarving, EndRelease
    <3> QED BY <2>1, <3>1
  <2>3. CASE ~EndRelease(t, at[t])
    BY <1>23, <2>1, <2>3 DEF SelectStarving
  <2> QED BY <2>2, <2>3
<1>24. ASSUME NEW t \in Workers, ThreadAvailable(t) PROVE HolderInv'
  BY <1>24 DEF ThreadAvailable
<1>25. ASSUME NEW t \in Workers, AllocateLoop(t) PROVE HolderInv'
  BY <1>25 DEF AllocateLoop, Granted, Refused, Starve, Hold, Unlock
<1>26. ASSUME NEW t \in Workers, AddStarving(t) PROVE HolderInv'
  BY <1>26 DEF AddStarving, Unlock, Actors
<1>27. ASSUME NEW t \in Workers, FinishJob(t) PROVE HolderInv'
  BY <1>27 DEF FinishJob
<1>28. ASSUME NEW t \in Workers, WaitForSomeJobs(t) PROVE HolderInv'
  BY <1>28 DEF WaitForSomeJobs, WakeIdle
<1>29. ASSUME NEW t \in Workers, EnterWaitForSome(t) PROVE HolderInv'
  BY <1>29 DEF EnterWaitForSome
<1>30. ASSUME NEW t \in Workers, LeaveWaitForSomeJobs(t) PROVE HolderInv'
  BY <1>30 DEF LeaveWaitForSomeJobs
<1>31. CASE UNCHANGED vars
  BY <1>31 DEF vars
<1> QED
  BY <1>1, <1>2, <1>3, <1>4, <1>5, <1>6, <1>7, <1>8, <1>9, <1>10, <1>11, <1>12,
     <1>13, <1>14, <1>15, <1>16, <1>17, <1>18, <1>19, <1>20, <1>21, <1>22, <1>23,
     <1>24, <1>25, <1>26, <1>27, <1>28, <1>29, <1>30, <1>31
  DEF Next, ClientContinues, ClientCalls, WorkerStep

\* A worker that waits for the lock of the scheduler it notifies does not
\* wait for another one that notifies, nor for itself: chains of waiting
\* workers have no cycle of any length.
NoWaitChain ==
    \A t1, t2 \in Workers :
       pc[t1] = "notify" /\ pc[t2] = "notify" => mutex[notified[t1]] # t2

(* Release notifies other schedulers with the lock of its own kept.  A     *)
(* worker returns a thread only when its scheduler is not starved, and     *)
(* notifies only starved schedulers, so whoever holds the lock of the      *)
(* notified one does not notify itself.                                    *)
THEOREM WaitsEnd == Spec => []NoWaitChain
<1>1. Init => HolderInv
  BY ActorsApart DEF Init, HolderInv
<1>2. ASSUME SchedulerInv, StarveInv, HolderInv PROVE NoWaitChain
  <2> SUFFICES ASSUME NEW t1 \in Workers, NEW t2 \in Workers,
                      pc[t1] = "notify", pc[t2] = "notify",
                      mutex[notified[t1]] = t2
               PROVE  FALSE
    BY DEF NoWaitChain
  <2>1. notified[t1] \in Schedulers
    BY <1>2 DEF SchedulerInv, ControlInv, LockInv
  <2>2. notified[t1] = at[t2]
    BY <1>2, <2>1 DEF HolderInv
  <2>3. starved[notified[t1]] /\ ~starved[at[t2]]
    BY Zenon, <1>2 DEF StarveInv, LeavingPlaces
  <2> QED BY <2>2, <2>3, Zenon
<1>3. SchedulerInv /\ StarveInv /\ [Next]_vars => StarveInv'
  BY StarveInductive
<1>4. SchedulerInv /\ HolderInv /\ [Next]_vars => HolderInv'
  BY HolderInductive
<1> QED
  BY <1>1, <1>2, <1>3, <1>4, StarveInit, SchedulerInit, SchedulerInductive, PTL DEF Spec

(* Two workers that return their threads to the pool never wait for each   *)
(* other's lock.                                                           *)
THEOREM LocksAcyclic == Spec => []NoLockCycle
<1>1. NoWaitChain => NoLockCycle
  BY DEF NoWaitChain, NoLockCycle
<1> QED BY <1>1, WaitsEnd, PTL

-----------------------------------------------------------------------------
(***************************************************************************)
(* Work that waits.                                                        *)
(***************************************************************************)

\* A step that neither adds work nor takes the last worker from it.
StallKept ==
    /\ stopCount' \in [Schedulers -> Nat]
    /\ \A s \in Schedulers : Waits(s)' => Waits(s)
    /\ \A s \in Schedulers : Waits(s)' /\ runningCount[s] > 0 => runningCount'[s] > 0
    /\ \A c \in Clients : pc[c] = "resume" => pc'[c] = "resume" /\ at'[c] = at[c]
    /\ \A t \in Workers : pc'[t] \in LeavingPlaces /\ HasWork(at[t])' =>
          pc[t] \in LeavingPlaces /\ HasWork(at[t])

(* Such a step keeps the invariant.                                        *)
LEMMA StallFrame ==
    ASSUME StallInv, StallKept
    PROVE  StallInv'
<1>1. ASSUME NEW s \in Schedulers, Waits(s)'
      PROVE  \/ runningCount'[s] > 0
             \/ \E c \in Clients : pc'[c] = "resume" /\ at'[c] = s
  <2>1. Waits(s)
    BY <1>1, Zenon DEF StallKept
  <2>2. \/ runningCount[s] > 0
        \/ \E c \in Clients : pc[c] = "resume" /\ at[c] = s
    BY <2>1, Zenon DEF StallInv
  <2> QED BY <1>1, <2>2, Zenon DEF StallKept
<1>2. \A t \in Workers : pc'[t] \in LeavingPlaces => ~HasWork(at[t])'
  BY Zenon DEF StallKept, StallInv
<1>3. stopCount' \in [Schedulers -> Nat]
  BY DEF StallKept
<1> QED BY <1>1, <1>2, <1>3, Zenon DEF StallInv

(* An idle scheduler has threads to allocate, private ones if it was given *)
(* any.                                                                    *)
LEMMA IdleHasThreads ==
    ASSUME SchedulerInv, NEW s \in Schedulers
    PROVE  /\ runningCount[s] \in Nat
           /\ runningCount[s] = 0 /\ ThreadCount[s] > 0 =>
                 unusedCount[s] > 0 /\ (suspendedCount[s] > 0 \/ yetToCreate[s] > 0)
<1> USE ConstructorAssumption DEF SchedulerInv, ThreadInv
<1>1. Cardinality(running[s]) \in Nat
  BY FS_CardinalityType DEF CountInv
<1>2. runningCount[s] \in Nat
  BY <1>1 DEF CountInv, LeavingCount
<1>3. /\ unusedCount[s] = suspendedCount[s] + yetToCreate[s] + SharedThreads[s] - fromShared[s]
      /\ runningCount[s] + unusedCount[s] = ThreadCount[s] + SharedThreads[s]
      /\ suspendedCount[s] \in Int /\ yetToCreate[s] \in Int /\ fromShared[s] \in Int
      /\ unusedCount[s] \in Int /\ fromShared[s] >= 0
      /\ ThreadCount[s] \in Nat /\ SharedThreads[s] \in Nat
  BY DEF CountInv, ListType
<1> HIDE DEF SchedulerInv, ThreadInv
<1> QED BY <1>2, <1>3

(* AllocateThread only adds to the running threads.                        *)
LEMMA GrantCounts ==
    ASSUME SchedulerInv, NEW s \in Schedulers,
           RecycleSuspended(s) \/ CreatePrivate(s) \/ BorrowShared(s)
    PROVE  runningCount' = [runningCount EXCEPT ![s] = @ + 1]
  BY DEF RecycleSuspended, CreatePrivate, BorrowShared, StartRunning

(* Schedule allocates a thread if none runs.                               *)
LEMMA StallSchedule ==
    ASSUME SchedulerInv, StallInv, NEW c \in Clients, NEW s \in Schedulers, NEW j \in Jobs,
           queue[s] \in Seq(Jobs), Schedule(c, s, j)
    PROVE  StallInv'
<1> USE ActorsApart DEF SchedulerInv, ControlInv, ControlType
<1>1. /\ pc[c] = "ready" /\ mutex[s] = None /\ stopCount' = stopCount
      /\ queue' = [queue EXCEPT ![s] = Append(@, j)]
  BY DEF Schedule, Enters, Ready
<1>2. /\ \A d \in Clients : d # c => pc'[d] = pc[d] /\ at'[d] = at[d]
      /\ \A t \in Workers : pc'[t] = pc[t] /\ at'[t] = at[t]
  BY <1>1 DEF Schedule, Granted, Refused, Starve, Hold
<1>3. \A u \in Schedulers : u # s => /\ Waits(u)' <=> Waits(u)
                                     /\ HasWork(u)' <=> HasWork(u)
  BY <1>1 DEF Waits, HasWork
<1>4. /\ \A u \in Schedulers : u # s => runningCount'[u] = runningCount[u]
      /\ runningCount'[s] >= runningCount[s]
      /\ Waits(s)' => runningCount'[s] > 0
  <2>1. /\ runningCount \in [Schedulers -> Int] /\ runningCount[s] \in Nat
        /\ stopCount \in [Schedulers -> Nat]
        /\ ThreadCount[s] \in Nat
    BY IdleHasThreads, ConstructorAssumption DEF ThreadInv, ListType, StallInv
  <2>2. CASE RecycleSuspended(s) \/ CreatePrivate(s) \/ BorrowShared(s)
    BY <2>1, <2>2, GrantCounts
  <2>3. CASE ~(RecycleSuspended(s) \/ CreatePrivate(s) \/ BorrowShared(s))
    <3>1. runningCount' = runningCount
      BY <2>3 DEF Schedule, Granted, Refused, Starve, allocVars, countVars
    <3>2. ASSUME Waits(s)', runningCount[s] = 0 PROVE FALSE
      <4>1. unusedCount[s] > 0 /\ (suspendedCount[s] > 0 \/ yetToCreate[s] > 0)
        BY <3>2, IdleHasThreads DEF Waits
      <4>2. stopCount[s] = 0
        BY <1>1, <3>2 DEF Waits
      <4>3. Len(queue[s]) + 1 > 2 * runningCount[s]
        BY <3>2
      <4>4. suspendedCount[s] \in Int /\ yetToCreate[s] \in Int /\ unusedCount[s] \in Int
        BY DEF ThreadInv, ListType
      <4>5. ~Refused(s) /\ ~Starve(c, s)
        BY <4>1, <4>4 DEF Refused, Starve, WantsShared
      <4>6. Granted(s)
        BY <4>1, <4>2, <4>3, <4>5, SMT DEF Schedule
      <4> QED BY <2>3, <4>6 DEF Granted
    <3> QED BY <2>1, <3>1, <3>2
  <2> QED BY <2>2, <2>3
<1>5. \A t \in Workers : pc[t] \in LeavingPlaces => at[t] \in Schedulers /\ at[t] # s
  BY <1>1 DEF LockInv
<1>6. \A t \in Workers : pc'[t] \in LeavingPlaces => ~HasWork(at[t])'
  <2> SUFFICES ASSUME NEW t \in Workers, pc'[t] \in LeavingPlaces PROVE ~HasWork(at[t])'
    BY Zenon
  <2>1. /\ pc[t] \in LeavingPlaces /\ at'[t] = at[t] /\ at[t] \in Schedulers /\ at[t] # s
    BY <1>2, <1>5
  <2>2. ~HasWork(at[t])
    BY <2>1, Zenon DEF StallInv
  <2>3. queue'[at[t]] = queue[at[t]] /\ stopCount' = stopCount
    BY <1>1, <2>1
  <2> QED BY <2>1, <2>2, <2>3 DEF HasWork
<1>7. ASSUME NEW u \in Schedulers, Waits(u)'
      PROVE  \/ runningCount'[u] > 0
             \/ \E d \in Clients : pc'[d] = "resume" /\ at'[d] = u
  <2>1. CASE u = s
    BY <1>4, <1>7, <2>1
  <2>2. CASE u # s
    <3>1. Waits(u)
      BY <1>3, <1>7, <2>2, Zenon
    <3>2. \/ runningCount[u] > 0
          \/ \E d \in Clients : pc[d] = "resume" /\ at[d] = u
      BY <3>1, Zenon DEF StallInv
    <3> QED BY <1>1, <1>2, <1>4, <2>2, <3>2
  <2> QED BY <2>1, <2>2
<1>8. stopCount' \in [Schedulers -> Nat]
  BY <1>1 DEF StallInv
<1> HIDE DEF SchedulerInv, ControlInv, ControlType
<1> QED BY <1>6, <1>7, <1>8, Zenon DEF StallInv

(* Resume leaves its loop only if a thread runs or nothing waits.          *)
LEMMA StallResumeLoop ==
    ASSUME SchedulerInv, StallInv, NEW c \in Clients, at[c] \in Schedulers,
           queue[at[c]] \in Seq(Jobs), ResumeLoop(c)
    PROVE  StallInv'
<1> USE ActorsApart DEF SchedulerInv, ControlInv, ControlType
<1> DEFINE s == at[c]
<1>0. /\ runningCount \in [Schedulers -> Int] /\ runningCount[s] \in Nat
      /\ stopCount \in [Schedulers -> Nat]
      /\ suspendedCount[s] \in Int /\ yetToCreate[s] \in Int /\ unusedCount[s] \in Int
      /\ ThreadCount[s] \in Nat /\ Len(queue[s]) \in Nat
  BY IdleHasThreads, ConstructorAssumption DEF ThreadInv, ListType, StallInv
<1>1. /\ pc[c] = "resume" /\ UNCHANGED <<queue, stopCount>>
      /\ \A d \in Clients : d # c => pc'[d] = pc[d] /\ at'[d] = at[d]
      /\ \A t \in Workers : pc'[t] = pc[t] /\ at'[t] = at[t]
      /\ at'[c] = s
  BY DEF ResumeLoop, Granted, Refused, Starve, Hold, Unlock, jobVars
<1>2. CASE RecycleSuspended(s) \/ CreatePrivate(s) \/ BorrowShared(s)
  <2>1. runningCount' = [runningCount EXCEPT ![s] = @ + 1]
    BY <1>2, GrantCounts
  <2>2. \A u \in Schedulers : runningCount[u] > 0 => runningCount'[u] > 0
    BY <1>0, <2>1
  <2>3. runningCount'[s] > 0
    BY <1>0, <2>1
  <2>4. ASSUME NEW u \in Schedulers, Waits(u)'
        PROVE  \/ runningCount'[u] > 0
               \/ \E d \in Clients : pc'[d] = "resume" /\ at'[d] = u
    <3>1. \/ runningCount[u] > 0
          \/ \E d \in Clients : pc[d] = "resume" /\ at[d] = u
      BY <1>1, <2>4 DEF StallInv, Waits
    <3> QED BY <1>1, <2>2, <2>3, <3>1
  <2>5. \A t \in Workers : pc'[t] \in LeavingPlaces => ~HasWork(at[t])'
    BY <1>1 DEF StallInv, HasWork
  <2> QED BY <1>0, <1>1, <2>4, <2>5 DEF StallInv
<1>3. CASE ~(RecycleSuspended(s) \/ CreatePrivate(s) \/ BorrowShared(s))
  <2>1. runningCount' = runningCount
    BY <1>3 DEF ResumeLoop, Granted, Refused, Starve, allocVars, countVars
  <2>2. ASSUME Waits(s), runningCount[s] = 0 PROVE FALSE
    <3>1. unusedCount[s] > 0 /\ (suspendedCount[s] > 0 \/ yetToCreate[s] > 0)
      BY <2>2, IdleHasThreads DEF Waits
    <3>2. ~Refused(s) /\ ~Starve(c, s)
      BY <1>0, <3>1 DEF Refused, Starve, WantsShared
    <3>3. Len(queue[s]) > runningCount[s] /\ Len(queue[s]) > 4 * runningCount[s]
      BY <1>0, <2>2 DEF Waits
    <3>4. ~Granted(s)
      BY <1>3 DEF Granted
    <3>5. /\ ~(Len(queue[s]) > runningCount[s] /\ Aggressive[s])
          /\ ~(Len(queue[s]) > 4 * runningCount[s] /\ unusedCount[s] > 0)
      BY <3>2, <3>4, Zenon DEF ResumeLoop
    <3> QED BY <3>1, <3>3, <3>5
  <2>3. ASSUME NEW u \in Schedulers, Waits(u)'
        PROVE  \/ runningCount'[u] > 0
               \/ \E d \in Clients : pc'[d] = "resume" /\ at'[d] = u
    <3>1. Waits(u)
      BY <1>1, <2>3 DEF Waits
    <3>2. \/ runningCount[u] > 0
          \/ \E d \in Clients : pc[d] = "resume" /\ at[d] = u
      BY <3>1 DEF StallInv
    <3>3. u = s => runningCount[u] > 0
      BY <1>0, <2>2, <3>1
    <3> QED BY <1>1, <2>1, <3>2, <3>3
  <2>4. \A t \in Workers : pc'[t] \in LeavingPlaces => ~HasWork(at[t])'
    BY <1>1 DEF StallInv, HasWork
  <2> QED BY <1>0, <1>1, <2>3, <2>4 DEF StallInv
<1> QED BY <1>2, <1>3

(* A worker that finds no work leaves a scheduler that has none.           *)
LEMMA StallReleased ==
    ASSUME SchedulerInv, StallInv, NEW t \in Workers, Release(t) \/ SelectStarving(t)
    PROVE  StallInv'
<1> USE ActorsApart DEF SchedulerInv, ControlInv, ControlType
<1>1. /\ pc[t] \in LeavingPlaces /\ at[t] \in Schedulers
      /\ queue' = queue /\ stopCount' = stopCount /\ at' = at
  BY DEF Release, SelectStarving, LockInv, LeavingPlaces, jobVars
<1>2. runningCount \in [Schedulers -> Int] /\ stopCount \in [Schedulers -> Nat]
  BY DEF ThreadInv, ListType, StallInv
<1>3. ~HasWork(at[t]) /\ ~Waits(at[t])
  <2>1. ~HasWork(at[t])
    BY <1>1, Zenon DEF StallInv
  <2> QED BY <2>1 DEF HasWork, Waits
<1>4. /\ \A u \in Workers : u # t => pc'[u] = pc[u]
      /\ \A c \in Clients : pc[c] = "resume" => pc'[c] = "resume"
      /\ \A s \in Schedulers : s # at[t] => runningCount'[s] = runningCount[s]
  <2>1. CASE EndRelease(t, at[t])
    BY <1>1, <1>2, <2>1, EndReleaseMoves DEF EndRelease, Retire
  <2>2. CASE ~EndRelease(t, at[t])
    BY <2>2 DEF Release, SelectStarving
  <2> QED BY <2>1, <2>2
<1>5. /\ \A s \in Schedulers : Waits(s)' <=> Waits(s)
      /\ \A s \in Schedulers : HasWork(s)' <=> HasWork(s)
      /\ \A u \in Workers : HasWork(at[u])' <=> HasWork(at[u])
  BY <1>1 DEF Waits, HasWork
<1> HIDE DEF SchedulerInv, ControlInv, ControlType
<1>6. \A s \in Schedulers : Waits(s)' /\ runningCount[s] > 0 => runningCount'[s] > 0
  <2> SUFFICES ASSUME NEW s \in Schedulers, Waits(s)', runningCount[s] > 0
               PROVE  runningCount'[s] > 0
    BY Zenon
  <2>1. Waits(s)
    BY <1>5, Zenon
  <2>2. s # at[t]
    BY <1>3, <2>1, Zenon
  <2> QED BY <1>4, <2>2
<1>7. \A u \in Workers : pc'[u] \in LeavingPlaces /\ HasWork(at[u])' =>
         pc[u] \in LeavingPlaces /\ HasWork(at[u])
  <2> SUFFICES ASSUME NEW u \in Workers, pc'[u] \in LeavingPlaces, HasWork(at[u])'
               PROVE  pc[u] \in LeavingPlaces /\ HasWork(at[u])
    BY Zenon
  <2>1. HasWork(at[u])
    BY <1>5, Zenon
  <2>2. u # t
    BY <1>3, <2>1, Zenon
  <2> QED BY <1>4, <2>1, <2>2, Zenon
<1>8. \A c \in Clients : pc[c] = "resume" => pc'[c] = "resume" /\ at'[c] = at[c]
  BY <1>1, <1>4
<1>9. stopCount' \in [Schedulers -> Nat]
  BY <1>1, <1>2
<1>10. StallKept
  BY <1>5, <1>6, <1>7, <1>8, <1>9, Zenon DEF StallKept
<1> QED BY <1>10, StallFrame

(* A worker is parked by a scheduler that has no work.                     *)
LEMMA StallParked ==
    ASSUME SchedulerInv, StallInv, NEW t \in Workers, NEW s \in Schedulers,
           ParkPrivate(t, s)
    PROVE  StallInv'
<1> USE ActorsApart DEF SchedulerInv, ControlInv, ControlType
<1>1. /\ queue' = queue /\ stopCount' = stopCount /\ at' = at
      /\ queue[s] = <<>> \/ stopCount[s] # 0
      /\ runningCount' = [runningCount EXCEPT ![s] = @ - 1]
  BY DEF ParkPrivate, EntersAssignJob, HasWork, Retire, jobVars
<1>2. runningCount \in [Schedulers -> Int] /\ stopCount \in [Schedulers -> Nat]
  BY DEF ThreadInv, ListType, StallInv
<1>3. \A u \in Schedulers : Waits(u)' => Waits(u) /\ u # s
  BY <1>1 DEF Waits
<1>4. \A u \in Schedulers : u # s => runningCount'[u] = runningCount[u]
  BY <1>1, <1>2
<1>5. /\ \A c \in Clients : pc[c] = "resume" => pc'[c] = "resume"
      /\ \A u \in Workers : pc'[u] \in LeavingPlaces => pc[u] \in LeavingPlaces
  BY ParkMoves DEF LeavingPlaces
<1>6. \A u \in Workers : HasWork(at[u])' <=> HasWork(at[u])
  BY <1>1 DEF HasWork
<1> HIDE DEF SchedulerInv, ControlInv, ControlType
<1>7. \A u \in Schedulers : Waits(u)' /\ runningCount[u] > 0 => runningCount'[u] > 0
  <2> SUFFICES ASSUME NEW u \in Schedulers, Waits(u)', runningCount[u] > 0
               PROVE  runningCount'[u] > 0
    BY Zenon
  <2>1. u # s
    BY <1>3, Zenon
  <2> QED BY <1>4, <2>1
<1>8. stopCount' \in [Schedulers -> Nat]
  BY <1>1, <1>2
<1>9. \A c \in Clients : pc[c] = "resume" => pc'[c] = "resume" /\ at'[c] = at[c]
  BY <1>1, <1>5
<1>10. StallKept
  BY <1>3, <1>5, <1>6, <1>7, <1>8, <1>9, Zenon DEF StallKept
<1> QED BY <1>10, StallFrame

(* AllocateThread keeps it for the scheduler that is notified.             *)
LEMMA StallAllocated ==
    ASSUME SchedulerInv, StallInv, NEW t \in Workers, AllocateLoop(t)
    PROVE  StallInv'
<1> USE ActorsApart DEF SchedulerInv, ControlInv, ControlType, LeavingPlaces
<1>1. /\ pc[t] = "allocate" /\ notified[t] \in Schedulers
      /\ queue' = queue /\ stopCount' = stopCount /\ at' = at
      /\ \A u \in Workers : pc'[u] \in LeavingPlaces => pc[u] \in LeavingPlaces
      /\ \A c \in Clients : pc'[c] = pc[c]
  BY DEF AllocateLoop, Starve, Hold, Unlock, LockInv, jobVars
<1>2. runningCount \in [Schedulers -> Int] /\ stopCount \in [Schedulers -> Nat]
  BY DEF ThreadInv, ListType, StallInv
<1>3. \A u \in Schedulers : runningCount[u] > 0 => runningCount'[u] > 0
  <2>1. CASE BorrowShared(notified[t])
    <3> DEFINE s == notified[t]
    <3>1. s \in Schedulers /\ BorrowShared(s)
      BY <1>1, <2>1
    <3> HIDE DEF s
    <3>2. runningCount' = [runningCount EXCEPT ![s] = @ + 1]
      BY <3>1, GrantCounts
    <3> QED BY <1>2, <3>1, <3>2
  <2>2. CASE ~BorrowShared(notified[t])
    BY <2>2 DEF AllocateLoop, Starve, allocVars, countVars
  <2> QED BY <2>1, <2>2
<1>4. StallKept
  BY <1>1, <1>2, <1>3 DEF StallKept, Waits, HasWork
<1> QED BY <1>4, StallFrame

(* Every step leaves work with a worker.                                   *)
LEMMA StallInductive ==
    ASSUME SchedulerInv, JobsInv, StallInv, [Next]_vars
    PROVE  StallInv'
<1>0. stopCount \in [Schedulers -> Nat] /\ queue \in [Schedulers -> Seq(Jobs)]
  BY DEF StallInv, JobsInv
<1> USE <1>0, ActorsApart, StallFrame
    DEF StallKept, Waits, HasWork, SchedulerInv, ControlInv, ControlType, LeavingPlaces,
        allocVars, starveVars, eventVars, limitVars, jobVars, controlVars, countVars
<1>1. ASSUME NEW c \in Clients, AddStarving(c) PROVE StallInv'
  BY <1>1 DEF AddStarving, Unlock, Actors
<1>2. ASSUME NEW c \in Clients, ResumeLoop(c) PROVE StallInv'
  <2>1. at[c] \in Schedulers
    BY <1>2 DEF ResumeLoop, ClientPlaces
  <2> QED BY <1>2, <2>1, StallResumeLoop
<1>3. ASSUME NEW c \in Clients, CheckEmpty(c) PROVE StallInv'
  <2> DEFINE s == at[c]
  <2>1. /\ \E r : queue' = [queue EXCEPT ![s] = r] /\ (r = queue[s] \/ r = <<>>)
        /\ s \in Schedulers /\ UNCHANGED <<stopCount, runningCount, at>>
        /\ \A x \in Actors : pc'[x] = pc[x] \/ x = c
        /\ pc[c] # "resume" /\ pc'[c] # "resume"
    BY <1>3, ZenonT(30) DEF CheckEmpty, Return, Drained, ClientPlaces
  <2>2. \A u \in Schedulers : queue'[u] # <<>> => queue[u] # <<>>
    BY <2>1
  <2>3. \A t \in Workers : pc[t] \in LeavingPlaces => at[t] \in Schedulers
    BY DEF LockInv
  <2> HIDE DEF s
  <2> QED BY <2>1, <2>2, <2>3
<1>4. ASSUME NEW c \in Clients, EnterWait(c) PROVE StallInv'
  BY <1>4 DEF EnterWait
<1>5. ASSUME NEW c \in Clients, DestroyStopStarvation(c) PROVE StallInv'
  BY <1>5 DEF DestroyStopStarvation
<1>6. ASSUME NEW c \in Clients, UseAllCPUs(c) PROVE StallInv'
  BY <1>6 DEF UseAllCPUs, SetThreadCount, Return
<1>7. ASSUME NEW c \in Clients, Shrink(c) PROVE StallInv'
  BY <1>7 DEF Shrink, Return
<1>8. ASSUME NEW c \in Clients, Join(c) PROVE StallInv'
  BY <1>8 DEF Join
<1>9. ASSUME NEW c \in Clients, NEW s \in Schedulers, NEW j \in Jobs, Schedule(c, s, j)
      PROVE  StallInv'
  BY <1>9, StallSchedule
<1>10. ASSUME NEW c \in Clients, NEW s \in Schedulers, NEW w \in Watermarks,
              NEW o \in BOOLEAN, RemoveJobFromQueue(c, s, w, o)
      PROVE  StallInv'
  <2>0. w \in Nat /\ Len(queue[s]) > w
    BY <1>10, BoundAssumption DEF RemoveJobFromQueue
  <2> DEFINE rest == QueueAfterPops(queue[s], Len(queue[s]) - w, o = Fifo[s])
  <2>1. /\ queue' = [queue EXCEPT ![s] = rest] /\ queue[s] # <<>>
        /\ UNCHANGED <<stopCount, runningCount, at, pc>>
    BY <1>10, <2>0 DEF RemoveJobFromQueue
  <2> HIDE DEF rest
  <2>2. \A u \in Schedulers : queue'[u] # <<>> => queue[u] # <<>>
    BY <2>1
  <2>3. \A u \in Workers : pc[u] \in LeavingPlaces => at[u] \in Schedulers
    BY DEF LockInv
  <2> QED BY <2>1, <2>2, <2>3
<1>11. ASSUME NEW c \in Clients, NEW s \in Schedulers, Stop(c, s) PROVE StallInv'
  BY <1>11 DEF Stop
<1>12. ASSUME NEW c \in Clients, NEW s \in Schedulers, Resume(c, s)
      PROVE  StallInv'
  <2>1. /\ pc[c] = "ready" /\ mutex[s] = None /\ stopCount[s] > 0
        /\ stopCount' = [stopCount EXCEPT ![s] = @ - 1]
        /\ UNCHANGED <<queue, runningCount>>
        /\ IF stopCount[s] = 1 THEN Hold(c, s, "resume") ELSE UNCHANGED <<mutex, pc, at>>
    BY <1>12 DEF Resume, Enters, Ready
  <2>2. /\ \A x \in Actors : x # c => pc'[x] = pc[x] /\ at'[x] = at[x]
        /\ stopCount[s] = 1 => pc'[c] = "resume" /\ at'[c] = s
        /\ stopCount[s] # 1 => stopCount'[s] # 0
    BY <2>1 DEF Hold
  <2>3. /\ stopCount' \in [Schedulers -> Nat]
        /\ \A u \in Schedulers : u # s => stopCount'[u] = stopCount[u]
    BY <2>1
  <2>4. \A t \in Workers : pc[t] \in LeavingPlaces => at[t] \in Schedulers /\ at[t] # s
    BY <2>1 DEF LockInv
  <2>5. \A t \in Workers : pc'[t] \in LeavingPlaces => ~HasWork(at[t])'
    BY <2>1, <2>2, <2>3, <2>4 DEF StallInv
  <2>6. ASSUME NEW u \in Schedulers, Waits(u)'
        PROVE  \/ runningCount'[u] > 0
               \/ \E d \in Clients : pc'[d] = "resume" /\ at'[d] = u
    <3>1. CASE u = s
      BY <2>2, <2>6, <3>1
    <3>2. CASE u # s
      <4>1. Waits(u)
        BY <2>1, <2>3, <2>6, <3>2
      <4> QED BY <2>1, <2>2, <4>1 DEF StallInv
    <3> QED BY <3>1, <3>2
  <2> QED BY <2>3, <2>5, <2>6 DEF StallInv
<1>13. ASSUME NEW c \in Clients, NEW s \in Schedulers, WaitForEmptyQueue(c, s)
      PROVE  StallInv'
  BY <1>13 DEF WaitForEmptyQueue, Ready
<1>14. ASSUME NEW c \in Clients, NEW s \in Schedulers, Construct(c, s)
      PROVE  StallInv'
  BY <1>14 DEF Construct, Ready
<1>15. ASSUME NEW c \in Clients, NEW s \in Schedulers, Destroy(c, s)
      PROVE  StallInv'
  BY <1>15 DEF Destroy, Ready
<1>16. ASSUME NEW c \in Clients, Timeout(c) PROVE StallInv'
  BY <1>16 DEF Timeout, Return
<1>17. ASSUME NEW c \in Clients, NEW n, SetSharedThreadCount(c, n) PROVE StallInv'
  BY <1>17 DEF SetSharedThreadCount, SetThreadCount, Return, Ready
<1>18. ASSUME NEW t \in Workers, NEW s \in Schedulers, TakeJob(t, s)
      PROVE  StallInv'
  <2>1. /\ queue' = [queue EXCEPT ![s] = QueueAfterPops(@, 1, Fifo[s])]
        /\ queue[s] # <<>>
        /\ UNCHANGED <<stopCount, runningCount, at>>
        /\ pc' = [WakeWaiting(s) EXCEPT ![t] = "execute"]
    BY <1>18 DEF TakeJob, EntersAssignJob
  <2>2. \A u \in Schedulers : queue'[u] # <<>> => queue[u] # <<>>
    BY <2>1
  <2>3. \A u \in Workers : pc[u] \in LeavingPlaces => at[u] \in Schedulers
    BY DEF LockInv
  <2>4. /\ \A c \in Clients : pc'[c] = pc[c]
        /\ \A u \in Workers : pc'[u] \in LeavingPlaces => pc[u] \in LeavingPlaces
    BY <2>1, WakeWaitingMoves
  <2> QED BY <2>1, <2>2, <2>3, <2>4
<1>19. ASSUME NEW t \in Workers, NEW s \in Schedulers, ParkPrivate(t, s)
      PROVE  StallInv'
  BY <1>19, StallParked
<1>20. ASSUME NEW t \in Workers, NEW s \in Schedulers, LeaveRunning(t, s)
      PROVE  StallInv'
  <2>1. /\ queue[s] = <<>> \/ stopCount[s] # 0
        /\ UNCHANGED <<queue, stopCount, runningCount>>
        /\ at' = [at EXCEPT ![t] = s] /\ mutex[s] = None /\ pc[t] = "loop"
        /\ pc' = [WakeWaiting(s) EXCEPT ![t] = "stopStarving"]
    BY <1>20 DEF LeaveRunning, EntersAssignJob
  <2>2. /\ \A u \in Workers : u # t /\ pc'[u] \in LeavingPlaces => pc[u] \in LeavingPlaces
        /\ \A c \in Clients : pc'[c] = pc[c] /\ at'[c] = at[c]
    BY <2>1, WakeWaitingMoves
  <2>3. \A u \in Workers : pc'[u] \in LeavingPlaces /\ HasWork(at[u])' =>
           pc[u] \in LeavingPlaces /\ HasWork(at[u])
    BY <2>1, <2>2
  <2> QED BY <2>1, <2>2, <2>3
<1>21. ASSUME NEW t \in Workers, StopStarvation(t) PROVE StallInv'
  BY <1>21 DEF StopStarvation
<1>22. ASSUME NEW t \in Workers, Release(t) PROVE StallInv'
  BY <1>22, StallReleased
<1>23. ASSUME NEW t \in Workers, SelectStarving(t) PROVE StallInv'
  BY <1>23, StallReleased
<1>24. ASSUME NEW t \in Workers, ThreadAvailable(t) PROVE StallInv'
  BY <1>24 DEF ThreadAvailable
<1>25. ASSUME NEW t \in Workers, AllocateLoop(t) PROVE StallInv'
  BY <1>25, StallAllocated
<1>26. ASSUME NEW t \in Workers, AddStarving(t) PROVE StallInv'
  BY <1>26 DEF AddStarving, Unlock, Actors
<1>27. ASSUME NEW t \in Workers, FinishJob(t) PROVE StallInv'
  BY <1>27 DEF FinishJob
<1>28. ASSUME NEW t \in Workers, WaitForSomeJobs(t) PROVE StallInv'
  BY <1>28 DEF WaitForSomeJobs, WakeIdle
<1>29. ASSUME NEW t \in Workers, EnterWaitForSome(t) PROVE StallInv'
  BY <1>29 DEF EnterWaitForSome
<1>30. ASSUME NEW t \in Workers, LeaveWaitForSomeJobs(t) PROVE StallInv'
  BY <1>30 DEF LeaveWaitForSomeJobs
<1>31. CASE UNCHANGED vars
  BY <1>31 DEF vars
<1> QED
  BY <1>1, <1>2, <1>3, <1>4, <1>5, <1>6, <1>7, <1>8, <1>9, <1>10, <1>11, <1>12,
     <1>13, <1>14, <1>15, <1>16, <1>17, <1>18, <1>19, <1>20, <1>21, <1>22, <1>23,
     <1>24, <1>25, <1>26, <1>27, <1>28, <1>29, <1>30, <1>31
  DEF Next, ClientContinues, ClientCalls, WorkerStep

(* At the start nothing waits.                                             *)
LEMMA StallInit == Init => StallInv
  BY ActorsApart DEF Init, StallInv, Waits, LeavingPlaces

(* Schedule, Resume and AssignJob's parking of threads: whenever the lock  *)
(* of a scheduler with private threads is free, it is not stopped and a    *)
(* job waits, some worker runs, whatever the other schedulers have taken   *)
(* from the shared pool.                                                   *)
THEOREM NeverStalls == Spec => []NoStall
<1>1. Init => StallInv
  BY StallInit
<1>2. ASSUME SchedulerInv, StallInv PROVE NoStall
  <2> SUFFICES ASSUME NEW s \in Schedulers, mutex[s] = None, Waits(s)
               PROVE  runningCount[s] > 0
    BY DEF NoStall, Waits
  <2>1. \A c \in Clients : pc[c] = "resume" /\ at[c] = s => mutex[s] = c
    BY <1>2 DEF SchedulerInv, ControlInv, LockInv
  <2> QED BY <1>2, <2>1, ActorsApart DEF StallInv
<1>3. SchedulerInv /\ JobsInv /\ [Next]_vars => JobsInv'
  BY JobsInductive
<1>4. SchedulerInv /\ JobsInv /\ StallInv /\ [Next]_vars => StallInv'
  BY StallInductive
<1> QED
  BY <1>1, <1>2, <1>3, <1>4, JobsInit, SchedulerInit, SchedulerInductive, PTL DEF Spec

-----------------------------------------------------------------------------
(***************************************************************************)
(* Destruction.                                                            *)
(***************************************************************************)

\* A step that begins and ends no destructor.
DtorKept ==
    /\ \A s \in Schedulers : life'[s] = life[s] \/ (life[s] = "none" /\ life'[s] = "live")
    /\ \A s \in Schedulers :
          life[s] \in {"closing", "dead"} /\ queue[s] = <<>> => queue'[s] = <<>>
    /\ \A c \in Clients : pc'[c] \in DtorPlaces => pc[c] \in DtorPlaces /\ at'[c] = at[c]
    /\ \A c \in Clients :
          \/ pc'[c] \in DtorPlaces \cup {"ready", "shrink", "join"}
          \/ /\ pc[c] \notin DtorPlaces \cup {"ready", "shrink", "join"}
             /\ at'[c] = at[c]
          \/ life[at'[c]] \in {"none", "live"}

(* Such a step keeps the invariant.                                        *)
LEMMA DtorFrame ==
    ASSUME ControlInv, DtorInv, DtorKept
    PROVE  DtorInv'
<1>1. \A s \in Schedulers : life'[s] \in {"closing", "dead"} => life'[s] = life[s]
  BY DEF DtorKept
<1>2. ASSUME NEW s \in Schedulers, life'[s] \in {"closing", "dead"}, NEW c \in Clients,
             at'[c] = s
      PROVE  pc'[c] \in DtorPlaces \cup {"ready", "shrink", "join"}
  BY <1>1, <1>2 DEF DtorKept, DtorInv
<1>3. \A c \in Clients : pc[c] \in DtorPlaces => at[c] \in Schedulers
  BY DEF ControlInv, ControlType, DtorPlaces, ClientPlaces
<1>4. \A c \in Clients : pc'[c] \in DtorPlaces => life'[at'[c]] = "closing"
  BY <1>3 DEF DtorKept, DtorInv
<1>5. \A s \in Schedulers : life'[s] \in {"closing", "dead"} => queue'[s] = <<>>
  BY <1>1 DEF DtorKept, DtorInv
<1>6. \A c, d \in Clients :
          pc'[c] \in DtorPlaces /\ pc'[d] \in DtorPlaces /\ at'[c] = at'[d] => c = d
  BY DEF DtorKept, DtorInv
<1> QED BY <1>2, <1>4, <1>5, <1>6 DEF DtorInv

(* ~CJobScheduler begins when nobody is in a method.                       *)
LEMMA DtorBegins ==
    ASSUME ControlInv, DtorInv, NEW c \in Clients, NEW s \in Schedulers, Destroy(c, s)
    PROVE  DtorInv'
<1> USE ActorsApart DEF ControlInv, ControlType
<1>1. /\ pc[c] = "ready" /\ life[s] = "live" /\ queue[s] = <<>> /\ queue' = queue
      /\ \A d \in Clients : pc[d] # "ready" => at[d] # s
      /\ life' = [life EXCEPT ![s] = "closing"]
      /\ pc' = [pc EXCEPT ![c] = "dtor"]
      /\ at' = [at EXCEPT ![c] = s]
  BY DEF Destroy, Ready, jobVars
<1>2. /\ pc'[c] = "dtor" /\ at'[c] = s /\ life'[s] = "closing"
      /\ \A d \in Clients : d # c => pc'[d] = pc[d] /\ at'[d] = at[d]
      /\ \A u \in Schedulers : u # s => life'[u] = life[u]
  BY <1>1
<1>3. \A d \in Clients : d # c /\ pc[d] \in DtorPlaces => at[d] # s /\ at[d] \in Schedulers
  BY <1>1 DEF DtorPlaces, ClientPlaces
<1>4. ASSUME NEW u \in Schedulers, life'[u] \in {"closing", "dead"}
      PROVE  /\ queue'[u] = <<>>
             /\ \A d \in Clients : at'[d] = u =>
                   pc'[d] \in DtorPlaces \cup {"ready", "shrink", "join"}
  BY <1>1, <1>2, <1>4 DEF DtorInv, DtorPlaces
<1>5. \A d \in Clients : pc'[d] \in DtorPlaces => life'[at'[d]] = "closing"
  BY <1>2, <1>3 DEF DtorInv
<1>6. \A d, e \in Clients :
          pc'[d] \in DtorPlaces /\ pc'[e] \in DtorPlaces /\ at'[d] = at'[e] => d = e
  BY <1>2, <1>3 DEF DtorInv
<1> QED BY <1>4, <1>5, <1>6 DEF DtorInv

(* It ends in the last turn of its wait for an empty queue.                *)
LEMMA DtorChecks ==
    ASSUME ControlInv, DtorInv, NEW c \in Clients, CheckEmpty(c)
    PROVE  DtorInv'
<1> USE ActorsApart DEF ControlInv, ControlType
<1> DEFINE s == at[c]
<1>1. /\ pc[c] \in {"check", "dtorCheck"} /\ s \in Schedulers
      /\ queue' = [queue EXCEPT ![s] = Drained(s)] /\ UNCHANGED at
  BY DEF CheckEmpty, ClientPlaces
<1>2. \A u \in Schedulers : life[u] \in {"closing", "dead"} => queue'[u] = <<>>
  BY <1>1 DEF DtorInv, Drained
<1>3. CASE life' = life
  <2>1. /\ \A d \in Clients : d # c => pc'[d] = pc[d]
        /\ pc'[c] = "ready" \/ (pc[c] = "check" /\ pc'[c] = "wait")
              \/ (pc[c] = "dtorCheck" /\ pc'[c] = "dtorWait")
    BY <1>1 DEF CheckEmpty, Return
  <2>2. DtorKept
    BY <1>1, <1>2, <1>3, <2>1 DEF DtorKept, DtorPlaces
  <2> QED BY <2>2, DtorFrame
<1>4. CASE /\ pc[c] = "dtorCheck" /\ Return(c)
           /\ life' = [life EXCEPT ![s] = "dead"]
  <2>1. /\ pc'[c] = "ready" /\ \A d \in Clients : d # c => pc'[d] = pc[d]
        /\ \A u \in Schedulers : u # s => life'[u] = life[u]
        /\ life[s] = "closing"
    BY <1>1, <1>4 DEF Return, DtorInv, DtorPlaces
  <2>2. \A d \in Clients : d # c /\ pc[d] \in DtorPlaces => at[d] # s /\ at[d] \in Schedulers
    BY <1>4 DEF DtorInv, DtorPlaces, ClientPlaces
  <2>3. ASSUME NEW u \in Schedulers, life'[u] \in {"closing", "dead"}
        PROVE  /\ queue'[u] = <<>>
               /\ \A d \in Clients : at'[d] = u =>
                     pc'[d] \in DtorPlaces \cup {"ready", "shrink", "join"}
    BY <1>1, <1>2, <2>1, <2>3 DEF DtorInv
  <2>4. \A d \in Clients : pc'[d] \in DtorPlaces => life'[at'[d]] = "closing"
    BY <1>1, <2>1, <2>2 DEF DtorInv, DtorPlaces
  <2>5. \A d, e \in Clients :
            pc'[d] \in DtorPlaces /\ pc'[e] \in DtorPlaces /\ at'[d] = at'[e] => d = e
    <3>1. \A d \in Clients : pc'[d] \in DtorPlaces => pc[d] \in DtorPlaces /\ at'[d] = at[d]
      BY <1>1, <2>1 DEF DtorPlaces
    <3> QED BY <3>1 DEF DtorInv
  <2> QED BY <2>3, <2>4, <2>5 DEF DtorInv
<1> QED BY <1>3, <1>4 DEF CheckEmpty

(* Every step keeps to the order of destruction.                           *)
LEMMA DtorInductive ==
    ASSUME SchedulerInv, DtorInv, [Next]_vars
    PROVE  DtorInv'
<1>0. ControlInv
  BY DEF SchedulerInv
<1> USE <1>0, ActorsApart, DtorFrame
    DEF DtorKept, DtorPlaces, ControlInv, ControlType, LifeInv, ClientPlaces, allocVars,
        starveVars, eventVars, limitVars, jobVars, controlVars, countVars
<1>1. ASSUME NEW c \in Clients, AddStarving(c) PROVE DtorInv'
  BY <1>1 DEF AddStarving, Unlock, Actors
<1>2. ASSUME NEW c \in Clients, ResumeLoop(c) PROVE DtorInv'
  BY <1>2 DEF ResumeLoop, Granted, Refused, Starve, Hold, Unlock
<1>3. ASSUME NEW c \in Clients, CheckEmpty(c) PROVE DtorInv'
  BY <1>3, DtorChecks
<1>4. ASSUME NEW c \in Clients, EnterWait(c) PROVE DtorInv'
  BY <1>4 DEF EnterWait
<1>5. ASSUME NEW c \in Clients, DestroyStopStarvation(c) PROVE DtorInv'
  BY <1>5 DEF DestroyStopStarvation
<1>6. ASSUME NEW c \in Clients, UseAllCPUs(c) PROVE DtorInv'
  BY <1>6 DEF UseAllCPUs, SetThreadCount, Return
<1>7. ASSUME NEW c \in Clients, Shrink(c) PROVE DtorInv'
  BY <1>7 DEF Shrink, Return
<1>8. ASSUME NEW c \in Clients, Join(c) PROVE DtorInv'
  BY <1>8 DEF Join
<1>9. ASSUME NEW c \in Clients, NEW s \in Schedulers, NEW j \in Jobs, Schedule(c, s, j)
      PROVE  DtorInv'
  BY <1>9 DEF Schedule, Granted, Refused, Starve, Hold, Unlock, Enters, Ready
<1>10. ASSUME NEW c \in Clients, NEW s \in Schedulers, NEW w \in Watermarks,
              NEW o \in BOOLEAN, RemoveJobFromQueue(c, s, w, o)
      PROVE  DtorInv'
  BY <1>10 DEF RemoveJobFromQueue, Enters, Ready
<1>11. ASSUME NEW c \in Clients, NEW s \in Schedulers, Stop(c, s) PROVE DtorInv'
  BY <1>11 DEF Stop
<1>12. ASSUME NEW c \in Clients, NEW s \in Schedulers, Resume(c, s) PROVE DtorInv'
  BY <1>12 DEF Resume, Enters, Ready, Hold
<1>13. ASSUME NEW c \in Clients, NEW s \in Schedulers, WaitForEmptyQueue(c, s)
      PROVE  DtorInv'
  BY <1>13 DEF WaitForEmptyQueue, Ready
<1>14. ASSUME NEW c \in Clients, NEW s \in Schedulers, Construct(c, s)
      PROVE  DtorInv'
  BY <1>14 DEF Construct, Ready
<1>15. ASSUME NEW c \in Clients, NEW s \in Schedulers, Destroy(c, s)
      PROVE  DtorInv'
  BY <1>15, DtorBegins
<1>16. ASSUME NEW c \in Clients, Timeout(c) PROVE DtorInv'
  BY <1>16 DEF Timeout, Return
<1>17. ASSUME NEW c \in Clients, NEW n, SetSharedThreadCount(c, n) PROVE DtorInv'
  BY <1>17 DEF SetSharedThreadCount, SetThreadCount, Return, Ready
<1>18. ASSUME NEW t \in Workers, NEW s \in Schedulers, TakeJob(t, s)
      PROVE  DtorInv'
  BY <1>18, WakeWaitingMoves DEF TakeJob, EntersAssignJob, HasWork
<1>19. ASSUME NEW t \in Workers, NEW s \in Schedulers, ParkPrivate(t, s)
      PROVE  DtorInv'
  BY <1>19, ParkMoves DEF ParkPrivate, EntersAssignJob
<1>20. ASSUME NEW t \in Workers, NEW s \in Schedulers, LeaveRunning(t, s)
      PROVE  DtorInv'
  BY <1>20, WakeWaitingMoves DEF LeaveRunning, EntersAssignJob
<1>21. ASSUME NEW t \in Workers, StopStarvation(t) PROVE DtorInv'
  BY <1>21 DEF StopStarvation
<1>22. ASSUME NEW t \in Workers, Release(t) PROVE DtorInv'
  <2>1. at[t] \in Schedulers
    BY <1>22 DEF LockInv, Release, LeavingPlaces
  <2>2. EndRelease(t, at[t]) \/ \A c \in Clients : pc'[c] = pc[c]
    BY <1>22 DEF Release
  <2> QED BY <1>22, <2>1, <2>2, EndReleaseMoves DEF Release
<1>23. ASSUME NEW t \in Workers, SelectStarving(t) PROVE DtorInv'
  <2>1. at[t] \in Schedulers
    BY <1>23 DEF LockInv, SelectStarving, LeavingPlaces
  <2>2. EndRelease(t, at[t]) \/ \A c \in Clients : pc'[c] = pc[c]
    BY <1>23 DEF SelectStarving
  <2> QED BY <1>23, <2>1, <2>2, EndReleaseMoves DEF SelectStarving
<1>24. ASSUME NEW t \in Workers, ThreadAvailable(t) PROVE DtorInv'
  BY <1>24 DEF ThreadAvailable
<1>25. ASSUME NEW t \in Workers, AllocateLoop(t) PROVE DtorInv'
  BY <1>25 DEF AllocateLoop, Granted, Refused, Starve, Hold, Unlock
<1>26. ASSUME NEW t \in Workers, AddStarving(t) PROVE DtorInv'
  BY <1>26 DEF AddStarving, Unlock, Actors
<1>27. ASSUME NEW t \in Workers, FinishJob(t) PROVE DtorInv'
  BY <1>27 DEF FinishJob
<1>28. ASSUME NEW t \in Workers, WaitForSomeJobs(t) PROVE DtorInv'
  BY <1>28 DEF WaitForSomeJobs, WakeIdle
<1>29. ASSUME NEW t \in Workers, EnterWaitForSome(t) PROVE DtorInv'
  BY <1>29 DEF EnterWaitForSome
<1>30. ASSUME NEW t \in Workers, LeaveWaitForSomeJobs(t) PROVE DtorInv'
  BY <1>30 DEF LeaveWaitForSomeJobs
<1>31. CASE UNCHANGED vars
  BY <1>31 DEF vars
<1> QED
  BY <1>1, <1>2, <1>3, <1>4, <1>5, <1>6, <1>7, <1>8, <1>9, <1>10, <1>11, <1>12,
     <1>13, <1>14, <1>15, <1>16, <1>17, <1>18, <1>19, <1>20, <1>21, <1>22, <1>23,
     <1>24, <1>25, <1>26, <1>27, <1>28, <1>29, <1>30, <1>31
  DEF Next, ClientContinues, ClientCalls, WorkerStep

\* A step that neither starts nor marks anything of a destroyed scheduler.
DeadKept ==
    /\ \A s \in Schedulers : life'[s] = "dead" => life[s] = "dead"
    /\ \A s \in Schedulers : life[s] \in {"closing", "dead"} /\ ~starved[s] => ~starved'[s]
    /\ \A s \in Schedulers : life[s] = "dead" =>
          runningCount'[s] = runningCount[s] /\ suspended'[s] = suspended[s]
    /\ \A c \in Clients : pc'[c] \in DtorPlaces \ {"dtor"} =>
          pc[c] \in DtorPlaces \ {"dtor"} /\ at'[c] = at[c]
    /\ \A t \in Workers : pc'[t] \in {"allocate", "addStarving"} =>
          \/ pc[t] \in {"allocate", "addStarving"} /\ notified'[t] = notified[t]
          \/ life[notified'[t]] # "dead"

(* Such a step keeps the invariant.                                        *)
LEMMA DeadFrame ==
    ASSUME ControlInv, DtorInv, DeadInv, DeadKept
    PROVE  DeadInv'
<1>1. ASSUME NEW c \in Clients, pc'[c] \in DtorPlaces \ {"dtor"} PROVE ~starved'[at'[c]]
  <2>1. pc[c] \in DtorPlaces \ {"dtor"} /\ at'[c] = at[c]
    BY <1>1, Zenon DEF DeadKept
  <2>2. at[c] \in Schedulers /\ life[at[c]] = "closing"
    BY <2>1 DEF DtorInv, ControlInv, ControlType, DtorPlaces, ClientPlaces
  <2>3. ~starved[at[c]]
    BY <2>1, Zenon DEF DeadInv
  <2>4. ~starved'[at[c]]
    <3>1. life[at[c]] \in {"closing", "dead"}
      BY <2>2
    <3> QED BY <2>2, <2>3, <3>1, Zenon DEF DeadKept
  <2> QED BY <2>1, <2>4, Zenon
<1>2. ASSUME NEW s \in Schedulers, life'[s] = "dead"
      PROVE  /\ ~starved'[s] /\ runningCount'[s] = 0 /\ suspended'[s] = {}
             /\ \A t \in Workers : pc'[t] \in {"allocate", "addStarving"} => notified'[t] # s
  <2>1. life[s] = "dead" /\ life[s] \in {"closing", "dead"}
    BY <1>2 DEF DeadKept
  <2>2. /\ ~starved[s] /\ runningCount[s] = 0 /\ suspended[s] = {}
        /\ \A t \in Workers : pc[t] \in {"allocate", "addStarving"} => notified[t] # s
    BY <2>1, Zenon DEF DeadInv
  <2>3. ~starved'[s] /\ runningCount'[s] = 0 /\ suspended'[s] = {}
    BY <2>1, <2>2, Zenon DEF DeadKept
  <2>4. \A t \in Workers : pc'[t] \in {"allocate", "addStarving"} => notified'[t] # s
    BY <2>1, <2>2, Zenon DEF DeadKept
  <2> QED BY <2>3, <2>4, Zenon
<1> QED BY <1>1, <1>2, Zenon DEF DeadInv

(* A scheduler that still has a worker is not destroyed.                   *)
LEMMA UsedIsNotDead ==
    ASSUME SchedulerInv, DeadInv, NEW s \in Schedulers, NEW t \in Workers,
           t \in running[s] \/ (pc[t] \in LeavingPlaces /\ at[t] = s)
    PROVE  life[s] # "dead"
<1>1. IsFiniteSet(running[s]) /\ runningCount[s] = Cardinality(running[s]) + LeavingCount(s)
  BY DEF SchedulerInv, ThreadInv, CountInv
<1>2. /\ Cardinality(running[s]) \in Nat
      /\ Cardinality(running[s]) = 0 <=> running[s] = {}
  BY <1>1, FS_CardinalityType, FS_EmptySet
<1>3. LeavingCount(s) \in {0, 1} /\ (Leaving(s) # {} => LeavingCount(s) = 1)
  BY DEF LeavingCount
<1>4. t \in running[s] \/ t \in Leaving(s)
  BY DEF Leaving, LeavingPlaces
<1>5. runningCount[s] # 0
  BY <1>1, <1>2, <1>3, <1>4
<1> QED BY <1>5 DEF DeadInv

(* Threads are allocated, and starvation is marked, for live schedulers.   *)
LEMMA DeadAllocates ==
    ASSUME SchedulerInv, DtorInv, DeadInv, NEW a \in Actors, NEW s \in Schedulers,
           life[s] \notin {"closing", "dead"}, life' = life,
           \/ /\ RecycleSuspended(s) \/ CreatePrivate(s) \/ BorrowShared(s)
              /\ UNCHANGED <<starved, pc, at, notified>>
           \/ /\ Starve(a, s) /\ UNCHANGED notified
              /\ \/ a \in Clients /\ pc[a] \in {"ready", "resume"}
                 \/ a \in Workers /\ pc[a] = "allocate"
    PROVE  DeadInv'
<1> USE ActorsApart DEF SchedulerInv, ControlInv, ControlType
<1>1. /\ runningCount \in [Schedulers -> Int]
      /\ suspended \in [Schedulers -> SUBSET Workers]
  BY DEF ThreadInv, ListType
<1>2. CASE /\ RecycleSuspended(s) \/ CreatePrivate(s) \/ BorrowShared(s)
           /\ UNCHANGED <<starved, pc, at, notified>>
  <2>1. \A u \in Schedulers : u # s =>
           runningCount'[u] = runningCount[u] /\ suspended'[u] = suspended[u]
    BY <1>1, <1>2 DEF RecycleSuspended, CreatePrivate, BorrowShared, StartRunning
  <2>2. DeadKept
    BY <1>2, <2>1 DEF DeadKept
  <2> QED BY <2>2, DeadFrame
<1>3. CASE /\ Starve(a, s) /\ UNCHANGED notified
           /\ \/ a \in Clients /\ pc[a] \in {"ready", "resume"}
              \/ a \in Workers /\ pc[a] = "allocate"
  <2>1. /\ UNCHANGED <<runningCount, suspended>>
        /\ starved' = [starved EXCEPT ![s] = TRUE]
        /\ pc' = [pc EXCEPT ![a] = "addStarving"]
        /\ \A c \in Clients : c # a => at'[c] = at[c]
    BY <1>3 DEF Starve, Hold, allocVars, countVars
  <2>2. pc'[a] = "addStarving" /\ \A x \in Actors : x # a => pc'[x] = pc[x]
    BY <2>1
  <2>3. \A u \in Schedulers : life[u] \in {"closing", "dead"} /\ ~starved[u] => ~starved'[u]
    <3>1. \A u \in Schedulers : u # s => starved'[u] = starved[u]
      BY <2>1
    <3> QED BY <3>1, Zenon
  <2>4. \A c \in Clients : pc'[c] \in DtorPlaces \ {"dtor"} =>
           pc[c] \in DtorPlaces \ {"dtor"} /\ at'[c] = at[c]
    BY <2>1, <2>2 DEF DtorPlaces
  <2>5. \A t \in Workers : pc'[t] \in {"allocate", "addStarving"} =>
           pc[t] \in {"allocate", "addStarving"} /\ notified'[t] = notified[t]
    BY <1>3, <2>2
  <2> HIDE DEF SchedulerInv, ControlType
  <2>6. DeadKept
    <3>1. runningCount' = runningCount /\ suspended' = suspended
      BY <2>1
    <3>2. life' = life
      OBVIOUS
    <3>3. \A u \in Schedulers : life'[u] = "dead" => life[u] = "dead"
      BY <3>2
    <3>4. \A u \in Schedulers : life[u] = "dead" =>
             runningCount'[u] = runningCount[u] /\ suspended'[u] = suspended[u]
      BY <3>1
    <3>5. \A t \in Workers : pc'[t] \in {"allocate", "addStarving"} =>
             \/ pc[t] \in {"allocate", "addStarving"} /\ notified'[t] = notified[t]
             \/ life[notified'[t]] # "dead"
      BY <2>5
    <3> QED BY <2>3, <2>4, <3>3, <3>4, <3>5, Zenon DEF DeadKept
  <2> HIDE DEF ControlInv
  <2> QED BY <2>6, DeadFrame DEF SchedulerInv
<1> QED BY <1>2, <1>3

(* The destructor's StopStarvation unmarks the scheduler.                  *)
LEMMA DeadUnmarks ==
    ASSUME SchedulerInv, StarveInv, DtorInv, DeadInv,
           NEW c \in Clients, DestroyStopStarvation(c)
    PROVE  DeadInv'
<1> USE ActorsApart DEF ControlType
<1> DEFINE s == at[c]
<1>1. /\ ControlInv /\ ControlType
      /\ pc[c] = "dtor" /\ s \in Schedulers
      /\ pc' = [pc EXCEPT ![c] = "dtorCheck"]
      /\ life' = life /\ runningCount' = runningCount /\ suspended' = suspended
      /\ at' = at /\ notified' = notified
  BY DEF DestroyStopStarvation, SchedulerInv, ControlInv, ClientPlaces, limitVars, allocVars,
         countVars
<1>2. pc'[c] = "dtorCheck" /\ \A x \in Actors : x # c => pc'[x] = pc[x]
  BY <1>1
<1>3. ~starved'[s]
  <2>1. CASE ~starved[s] /\ UNCHANGED starveVars
    BY <2>1, Zenon DEF starveVars
  <2>2. CASE RemoveStarving(s)
    <3>1. starved' = [starved EXCEPT ![s] = FALSE] /\ starved \in [Schedulers -> BOOLEAN]
      BY <2>2 DEF RemoveStarving, StarveInv
    <3> QED BY <1>1, <3>1
  <2> QED BY <2>1, <2>2, Zenon DEF DestroyStopStarvation
<1>4. \A u : ~starved[u] => ~starved'[u]
  <2>1. CASE UNCHANGED starveVars
    BY <2>1, Zenon DEF starveVars
  <2>2. CASE RemoveStarving(s)
    <3>1. \A u : u # s => starved'[u] = starved[u]
      BY <2>2 DEF RemoveStarving
    <3> QED BY <1>3, <3>1, Zenon
  <2> QED BY <2>1, <2>2, Zenon DEF DestroyStopStarvation
<1> HIDE DEF s, ControlType
<1>5. ASSUME NEW d \in Clients, pc'[d] \in DtorPlaces \ {"dtor"} PROVE ~starved'[at'[d]]
  <2>1. CASE d = c
    BY <1>1, <1>3, <2>1, Zenon DEF s
  <2>2. CASE d # c
    <3>1. pc[d] \in DtorPlaces \ {"dtor"}
      BY <1>2, <1>5, <2>2, ActorsApart
    <3>2. ~starved[at[d]]
      BY <3>1, Zenon DEF DeadInv
    <3> QED BY <1>1, <1>4, <3>2, Zenon
  <2> QED BY <2>1, <2>2
<1>6. ASSUME NEW u \in Schedulers, life'[u] = "dead"
      PROVE  /\ ~starved'[u] /\ runningCount'[u] = 0 /\ suspended'[u] = {}
             /\ \A t \in Workers : pc'[t] \in {"allocate", "addStarving"} => notified'[t] # u
  <2>1. /\ ~starved[u] /\ runningCount[u] = 0 /\ suspended[u] = {}
        /\ \A t \in Workers : pc[t] \in {"allocate", "addStarving"} => notified[t] # u
    BY <1>1, <1>6, Zenon DEF DeadInv
  <2>2. ~starved'[u] /\ runningCount'[u] = 0 /\ suspended'[u] = {}
    BY <1>1, <1>4, <2>1, Zenon
  <2>3. \A t \in Workers : pc'[t] \in {"allocate", "addStarving"} => notified'[t] # u
    BY <1>1, <1>2, <2>1, ActorsApart
  <2> QED BY <2>2, <2>3, Zenon
<1> QED BY <1>5, <1>6, Zenon DEF DeadInv

(* The destructor ends when no thread is left and none can come.           *)
LEMMA DeadChecks ==
    ASSUME SchedulerInv, DtorInv, DeadInv, NEW c \in Clients, CheckEmpty(c)
    PROVE  DeadInv'
<1> USE ActorsApart DEF ControlType
<1> DEFINE s == at[c]
<1>1. /\ ControlInv /\ ControlType
      /\ suspended \in [Schedulers -> SUBSET Workers]
      /\ pc[c] \in {"check", "dtorCheck"} /\ s \in Schedulers /\ mutex[s] = None
      /\ starved' = starved /\ runningCount' = runningCount
      /\ at' = at /\ notified' = notified
  BY DEF CheckEmpty, SchedulerInv, ControlInv, ClientPlaces, starveVars, countVars,
         ThreadInv, ListType
<1>2. /\ \A x \in Actors : x # c => pc'[x] = pc[x]
      /\ pc'[c] = "ready" \/ (pc[c] = "check" /\ pc'[c] = "wait")
            \/ (pc[c] = "dtorCheck" /\ pc'[c] = "dtorWait")
  BY <1>1 DEF CheckEmpty, Return
<1>3. CASE life' = life /\ suspended' = suspended
  <2>1. \A d \in Clients : pc'[d] \in DtorPlaces \ {"dtor"} =>
           pc[d] \in DtorPlaces \ {"dtor"} /\ at'[d] = at[d]
    BY <1>1, <1>2 DEF DtorPlaces
  <2>2. \A t \in Workers : pc'[t] \in {"allocate", "addStarving"} =>
           pc[t] \in {"allocate", "addStarving"} /\ notified'[t] = notified[t]
    BY <1>1, <1>2
  <2>3. DeadKept
    BY <1>1, <1>3, <2>1, <2>2, Zenon DEF DeadKept
  <2> QED BY <1>1, <2>3, DeadFrame
<1>4. CASE /\ Idle(s) /\ pc[c] = "dtorCheck" /\ Return(c)
           /\ TerminatePrivate(s)
           /\ life' = [life EXCEPT ![s] = "dead"]
  <2>1. /\ pc'[c] = "ready" /\ runningCount[s] = 0
        /\ suspended'[s] = {} /\ \A u \in Schedulers : u # s => suspended'[u] = suspended[u]
        /\ \A u \in Schedulers : u # s => life'[u] = life[u]
    BY <1>1, <1>4 DEF Return, Idle, TerminatePrivate
  <2>2. ~starved[s]
    BY <1>4, Zenon DEF DeadInv, DtorPlaces
  <2>3. \A d \in Clients : pc'[d] \in DtorPlaces \ {"dtor"} => pc[d] \in DtorPlaces \ {"dtor"}
    BY <1>2, <2>1 DEF DtorPlaces
  <2>4. \A d \in Clients : pc'[d] \in DtorPlaces \ {"dtor"} => ~starved'[at'[d]]
    BY <1>1, <2>3, Zenon DEF DeadInv
  <2>5. \A t \in Workers : pc'[t] \in {"allocate", "addStarving"} => notified[t] # s
    BY <1>1, <1>2 DEF SchedulerInv, ControlInv, LockInv
  <2>6. ASSUME NEW u \in Schedulers, life'[u] = "dead"
        PROVE  /\ ~starved'[u] /\ runningCount'[u] = 0 /\ suspended'[u] = {}
               /\ \A t \in Workers : pc'[t] \in {"allocate", "addStarving"} => notified'[t] # u
    <3>1. CASE u = s
      BY <1>1, <2>1, <2>2, <2>5, <3>1, Zenon
    <3>2. CASE u # s
      <4>1. /\ ~starved[u] /\ runningCount[u] = 0 /\ suspended[u] = {}
            /\ \A t \in Workers : pc[t] \in {"allocate", "addStarving"} => notified[t] # u
        BY <2>1, <2>6, <3>2, Zenon DEF DeadInv
      <4>2. \A t \in Workers : pc'[t] = pc[t]
        BY <1>2
      <4>3. suspended'[u] = suspended[u]
        BY <2>1, <3>2
      <4> QED BY <1>1, <4>1, <4>2, <4>3, Zenon
    <3> QED BY <3>1, <3>2
  <2> QED BY <2>4, <2>6, Zenon DEF DeadInv
<1> QED BY <1>3, <1>4 DEF CheckEmpty

(* The end of Release is about a scheduler that still has a worker.        *)
LEMMA DeadReleased ==
    ASSUME SchedulerInv, DtorInv, DeadInv, NEW t \in Workers, Release(t) \/ SelectStarving(t)
    PROVE  DeadInv'
<1> USE ActorsApart DEF ControlType
<1>1. /\ ControlInv /\ ControlType
      /\ pc[t] \in LeavingPlaces /\ at[t] \in Schedulers
      /\ runningCount \in [Schedulers -> Int]
      /\ starved' = starved /\ suspended' = suspended /\ life' = life /\ at' = at
  BY DEF Release, SelectStarving, SchedulerInv, ControlInv, LockInv, LeavingPlaces, starveVars,
         limitVars, ThreadInv, ListType
<1>2. life[at[t]] # "dead"
  BY <1>1, UsedIsNotDead
<1>3. /\ pc'[t] \notin {"allocate", "addStarving"}
      /\ \A u \in Workers : u # t => pc'[u] = pc[u] /\ notified'[u] = notified[u]
      /\ \A c \in Clients : pc'[c] \in DtorPlaces \ {"dtor"} => pc[c] \in DtorPlaces \ {"dtor"}
      /\ \A s \in Schedulers : s # at[t] => runningCount'[s] = runningCount[s]
  <2>1. \A u \in Workers : u # t => notified'[u] = notified[u]
    BY <1>1 DEF Release, SelectStarving
  <2>2. CASE EndRelease(t, at[t])
    BY <1>1, <2>1, <2>2, EndReleaseMoves DEF EndRelease, Retire, DtorPlaces
  <2>3. CASE ~EndRelease(t, at[t])
    BY <1>1, <2>1, <2>3 DEF Release, SelectStarving, DtorPlaces
  <2> QED BY <2>2, <2>3
<1>4. \A s \in Schedulers : life[s] = "dead" =>
         runningCount'[s] = runningCount[s] /\ suspended'[s] = suspended[s]
  BY <1>1, <1>2, <1>3
<1>5. \A c \in Clients : pc'[c] \in DtorPlaces \ {"dtor"} =>
         pc[c] \in DtorPlaces \ {"dtor"} /\ at'[c] = at[c]
  BY <1>1, <1>3
<1>6. \A u \in Workers : pc'[u] \in {"allocate", "addStarving"} =>
         pc[u] \in {"allocate", "addStarving"} /\ notified'[u] = notified[u]
  BY <1>3
<1>7. DeadKept
  BY <1>1, <1>4, <1>5, <1>6, Zenon DEF DeadKept
<1> QED BY <1>1, <1>7, DeadFrame

(* Every step leaves what is destroyed alone.                              *)
LEMMA DeadInductive ==
    ASSUME SchedulerInv, JobsInv, StarveInv, DtorInv, DeadInv, [Next]_vars
    PROVE  DeadInv'
<1>0. ControlInv
  BY DEF SchedulerInv
<1> USE <1>0, ActorsApart, DeadFrame
    DEF DeadKept, DtorPlaces, ControlInv, ControlType, ClientPlaces, allocVars,
        starveVars, eventVars, limitVars, jobVars, controlVars, countVars
<1>1. ASSUME NEW c \in Clients, AddStarving(c) PROVE DeadInv'
  BY <1>1 DEF AddStarving, Unlock, Actors
<1>2. ASSUME NEW c \in Clients, ResumeLoop(c) PROVE DeadInv'
  <2> DEFINE s == at[c]
  <2>1. /\ s \in Schedulers /\ life[s] \notin {"closing", "dead"} /\ life' = life
        /\ pc[c] = "resume"
    BY <1>2 DEF ResumeLoop, DtorInv
  <2>2. CASE Starve(c, s)
    BY <1>2, <2>1, <2>2, DeadAllocates DEF ResumeLoop
  <2>3. CASE Granted(s) /\ UNCHANGED <<mutex, pc, at>>
    BY <1>2, <2>1, <2>3, DeadAllocates DEF ResumeLoop, Granted
  <2>4. CASE Unlock(c, s, "ready") /\ UNCHANGED <<allocVars, starveVars, at>>
    BY <1>2, <2>4 DEF ResumeLoop, Unlock
  <2> QED BY <1>2, <2>2, <2>3, <2>4 DEF ResumeLoop, Refused
<1>3. ASSUME NEW c \in Clients, CheckEmpty(c) PROVE DeadInv'
  BY <1>3, DeadChecks
<1>4. ASSUME NEW c \in Clients, EnterWait(c) PROVE DeadInv'
  BY <1>4 DEF EnterWait
<1>5. ASSUME NEW c \in Clients, DestroyStopStarvation(c) PROVE DeadInv'
  BY <1>5, DeadUnmarks
<1>6. ASSUME NEW c \in Clients, UseAllCPUs(c) PROVE DeadInv'
  BY <1>6 DEF UseAllCPUs, SetThreadCount, Return
<1>7. ASSUME NEW c \in Clients, Shrink(c) PROVE DeadInv'
  BY <1>7 DEF Shrink, Return
<1>8. ASSUME NEW c \in Clients, Join(c) PROVE DeadInv'
  BY <1>8 DEF Join
<1>9. ASSUME NEW c \in Clients, NEW s \in Schedulers, NEW j \in Jobs, Schedule(c, s, j)
      PROVE  DeadInv'
  <2>1. life[s] = "live" /\ life' = life /\ pc[c] = "ready"
    BY <1>9 DEF Schedule, Enters, Ready
  <2>2. CASE Granted(s) \/ Starve(c, s)
    BY <1>9, <2>1, <2>2, DeadAllocates DEF Schedule, Granted
  <2>3. CASE ~(Granted(s) \/ Starve(c, s))
    BY <1>9, <2>3 DEF Schedule, Refused
  <2> QED BY <2>2, <2>3
<1>10. ASSUME NEW c \in Clients, NEW s \in Schedulers, NEW w \in Watermarks,
              NEW o \in BOOLEAN, RemoveJobFromQueue(c, s, w, o)
      PROVE  DeadInv'
  BY <1>10 DEF RemoveJobFromQueue, Enters, Ready
<1>11. ASSUME NEW c \in Clients, NEW s \in Schedulers, Stop(c, s) PROVE DeadInv'
  BY <1>11 DEF Stop
<1>12. ASSUME NEW c \in Clients, NEW s \in Schedulers, Resume(c, s) PROVE DeadInv'
  BY <1>12 DEF Resume, Enters, Ready, Hold
<1>13. ASSUME NEW c \in Clients, NEW s \in Schedulers, WaitForEmptyQueue(c, s)
      PROVE  DeadInv'
  BY <1>13 DEF WaitForEmptyQueue, Ready
<1>14. ASSUME NEW c \in Clients, NEW s \in Schedulers, Construct(c, s)
      PROVE  DeadInv'
  BY <1>14 DEF Construct, Ready
<1>15. ASSUME NEW c \in Clients, NEW s \in Schedulers, Destroy(c, s)
      PROVE  DeadInv'
  BY <1>15 DEF Destroy, Ready
<1>16. ASSUME NEW c \in Clients, Timeout(c) PROVE DeadInv'
  BY <1>16 DEF Timeout, Return
<1>17. ASSUME NEW c \in Clients, NEW n, SetSharedThreadCount(c, n) PROVE DeadInv'
  BY <1>17 DEF SetSharedThreadCount, SetThreadCount, Return, Ready
<1>18. ASSUME NEW t \in Workers, NEW s \in Schedulers, TakeJob(t, s)
      PROVE  DeadInv'
  BY <1>18, WakeWaitingMoves DEF TakeJob, EntersAssignJob
<1>19. ASSUME NEW t \in Workers, NEW s \in Schedulers, ParkPrivate(t, s)
      PROVE  DeadInv'
  <2>1. /\ suspended' = suspended \/ suspended' = [suspended EXCEPT ![s] = @ \cup {t}]
        /\ runningCount' = [runningCount EXCEPT ![s] = @ - 1]
        /\ UNCHANGED <<life, starved, at, notified>> /\ t \in running[s]
    BY <1>19 DEF ParkPrivate, EntersAssignJob, Retire
  <2>2. life[s] # "dead"
    BY <2>1, UsedIsNotDead
  <2>3. \A u \in Schedulers : u # s =>
           suspended'[u] = suspended[u] /\ runningCount'[u] = runningCount[u]
    BY <2>1 DEF SchedulerInv, ThreadInv, ListType
  <2>4. DeadKept
    BY <1>19, <2>1, <2>2, <2>3, ParkMoves
  <2> QED BY <2>4
<1>20. ASSUME NEW t \in Workers, NEW s \in Schedulers, LeaveRunning(t, s)
      PROVE  DeadInv'
  BY <1>20, WakeWaitingMoves DEF LeaveRunning, EntersAssignJob
<1>21. ASSUME NEW t \in Workers, StopStarvation(t) PROVE DeadInv'
  <2>1. \A u \in Schedulers : ~starved[u] => ~starved'[u]
    <3>1. starved' = [starved EXCEPT ![at[t]] = FALSE] /\ starved \in [Schedulers -> BOOLEAN]
      BY <1>21 DEF StopStarvation, RemoveStarving, StarveInv
    <3> QED BY <3>1
  <2>2. UNCHANGED <<life, runningCount, suspended, pc, at, notified>>
    BY <1>21 DEF StopStarvation
  <2> QED BY <2>1, <2>2
<1>22. ASSUME NEW t \in Workers, Release(t) PROVE DeadInv'
  BY <1>22, DeadReleased
<1>23. ASSUME NEW t \in Workers, SelectStarving(t) PROVE DeadInv'
  BY <1>23, DeadReleased
<1>24. ASSUME NEW t \in Workers, ThreadAvailable(t) PROVE DeadInv'
  <2> DEFINE s == notified[t]
  <2>1. /\ pc[t] = "notify" /\ pc' = [pc EXCEPT ![t] = "allocate"]
        /\ starved' = [starved EXCEPT ![s] = FALSE]
        /\ UNCHANGED <<life, runningCount, suspended, at, notified>>
    BY <1>24 DEF ThreadAvailable
  <2>2. s \in Schedulers
    BY <2>1 DEF SchedulerInv, LockInv
  <2>3. life[s] # "dead"
    <3>1. starved[s]
      BY <2>1, Zenon DEF StarveInv
    <3> QED BY <2>2, <3>1, Zenon DEF DeadInv
  <2>4. \A u \in Schedulers : ~starved[u] => ~starved'[u]
    BY <2>1 DEF StarveInv
  <2>5. DeadKept
    BY <2>1, <2>3, <2>4
  <2> QED BY <2>5
<1>25. ASSUME NEW t \in Workers, AllocateLoop(t) PROVE DeadInv'
  <2> DEFINE s == notified[t]
  <2>1. s \in Schedulers /\ life' = life /\ pc[t] = "allocate"
    BY <1>25 DEF AllocateLoop, SchedulerInv, LockInv
  <2>2. ASSUME Len(queue[s]) > 2 * runningCount[s] PROVE life[s] \notin {"closing", "dead"}
    <3>1. queue[s] # <<>>
      BY <2>1, <2>2, IdleHasThreads DEF JobsInv
    <3> QED BY <2>1, <3>1 DEF DtorInv
  <2>3. CASE /\ Len(queue[s]) > 2 * runningCount[s]
             /\ BorrowShared(s) /\ UNCHANGED <<starveVars, mutex, pc, at>>
    <3>1. life[s] \notin {"closing", "dead"}
      BY <2>2, <2>3
    <3>2. UNCHANGED <<starved, pc, at, notified>>
      BY <1>25, <2>3 DEF AllocateLoop
    <3> QED BY <2>1, <2>3, <3>1, <3>2, DeadAllocates
  <2>4. CASE Len(queue[s]) > 2 * runningCount[s] /\ Starve(t, s)
    <3>1. life[s] \notin {"closing", "dead"}
      BY <2>2, <2>4
    <3>2. UNCHANGED notified
      BY <1>25 DEF AllocateLoop
    <3> QED BY <2>1, <2>4, <3>1, <3>2, DeadAllocates
  <2>5. CASE Unlock(t, s, "select") /\ UNCHANGED <<allocVars, starveVars, at>>
    BY <1>25, <2>5 DEF AllocateLoop, Unlock
  <2> QED BY <1>25, <2>3, <2>4, <2>5 DEF AllocateLoop
<1>26. ASSUME NEW t \in Workers, AddStarving(t) PROVE DeadInv'
  BY <1>26 DEF AddStarving, Unlock, Actors
<1>27. ASSUME NEW t \in Workers, FinishJob(t) PROVE DeadInv'
  BY <1>27 DEF FinishJob
<1>28. ASSUME NEW t \in Workers, WaitForSomeJobs(t) PROVE DeadInv'
  BY <1>28 DEF WaitForSomeJobs, WakeIdle
<1>29. ASSUME NEW t \in Workers, EnterWaitForSome(t) PROVE DeadInv'
  BY <1>29 DEF EnterWaitForSome
<1>30. ASSUME NEW t \in Workers, LeaveWaitForSomeJobs(t) PROVE DeadInv'
  BY <1>30 DEF LeaveWaitForSomeJobs
<1>31. CASE UNCHANGED vars
  BY <1>31 DEF vars
<1> QED
  BY <1>1, <1>2, <1>3, <1>4, <1>5, <1>6, <1>7, <1>8, <1>9, <1>10, <1>11, <1>12,
     <1>13, <1>14, <1>15, <1>16, <1>17, <1>18, <1>19, <1>20, <1>21, <1>22, <1>23,
     <1>24, <1>25, <1>26, <1>27, <1>28, <1>29, <1>30, <1>31
  DEF Next, ClientContinues, ClientCalls, WorkerStep

(* AllocateThread makes its scheduler the owner of a running thread.       *)
LEMMA OwnedGranted ==
    ASSUME ListType, OwnedInv, NEW s \in Schedulers, UNCHANGED <<pc, at>>,
           RecycleSuspended(s) \/ CreatePrivate(s) \/ BorrowShared(s)
    PROVE  OwnedInv'
<1>1. PICK t \in Workers :
         /\ running' = [running EXCEPT ![s] = @ \cup {t}]
         /\ owner' = [owner EXCEPT ![t] = s]
         /\ suspended' = suspended \/ suspended' = [suspended EXCEPT ![s] = @ \ {t}]
         /\ born' = born \/ born' = born \cup {t}
  BY DEF RecycleSuspended, CreatePrivate, BorrowShared, RecycleShared, CreateShared,
         StartRunning, ListType
<1>2. /\ \A u \in Schedulers : running[u] \subseteq running'[u]
      /\ t \in running'[s]
      /\ \A u \in Schedulers : suspended[u] \subseteq suspended'[u] \cup {t}
      /\ owner'[t] = s /\ \A v \in Workers : v # t => owner'[v] = owner[v]
  BY <1>1 DEF ListType
<1>3. ASSUME NEW v \in born', NEW u \in Schedulers, owner'[v] = u
      PROVE  v \in running'[u] \cup suspended'[u] \/ (pc'[v] = "stopStarving" /\ at'[v] = u)
  <2>1. CASE v = t
    BY <1>2, <1>3, <2>1
  <2>2. CASE v # t
    <3>1. v \in born /\ owner[v] = u
      BY <1>1, <1>2, <1>3, <2>2 DEF ListType
    <3>2. v \in running[u] \cup suspended[u] \/ (pc[v] = "stopStarving" /\ at[v] = u)
      BY <3>1 DEF OwnedInv
    <3> QED BY <1>2, <2>2, <3>2
  <2> QED BY <2>1, <2>2
<1> QED BY <1>3 DEF OwnedInv

\* A step that moves no thread between lists; threads may end.
OwnedKept ==
    /\ UNCHANGED <<running, suspended, owner>>
    /\ born' \subseteq born
    /\ \A t \in Workers : pc[t] = "stopStarving" => pc'[t] = "stopStarving" /\ at'[t] = at[t]

(* Such a step keeps the invariant.                                        *)
LEMMA OwnedFrame ==
    ASSUME ListType, OwnedInv, OwnedKept
    PROVE  OwnedInv'
  BY DEF ListType, OwnedInv, OwnedKept

(* A thread that is neither running nor suspended belongs to nobody.       *)
LEMMA OwnedInductive ==
    ASSUME SchedulerInv, OwnedInv, [Next]_vars
    PROVE  OwnedInv'
<1>0. ListType
  BY DEF SchedulerInv, ThreadInv
<1> USE <1>0, ActorsApart, OwnedFrame
    DEF OwnedKept, SchedulerInv, ControlInv, ControlType, ClientPlaces, allocVars,
        starveVars, eventVars, limitVars, jobVars, controlVars, countVars
<1>1. ASSUME NEW c \in Clients, AddStarving(c) PROVE OwnedInv'
  BY <1>1 DEF AddStarving, Unlock, Actors
<1>2. ASSUME NEW c \in Clients, ResumeLoop(c) PROVE OwnedInv'
  <2>1. at[c] \in Schedulers
    BY <1>2 DEF ResumeLoop
  <2>2. CASE Granted(at[c]) /\ UNCHANGED <<pc, at>>
    BY <2>1, <2>2, OwnedGranted DEF Granted
  <2>3. CASE Starve(c, at[c])
    BY <1>2, <2>3 DEF ResumeLoop, Starve, Hold
  <2>4. CASE UNCHANGED allocVars /\ Unlock(c, at[c], "ready") /\ UNCHANGED at
    BY <1>2, <2>4 DEF ResumeLoop, Unlock
  <2> QED BY <1>2, <2>2, <2>3, <2>4 DEF ResumeLoop, Refused
<1>3. ASSUME NEW c \in Clients, CheckEmpty(c) PROVE OwnedInv'
  <2>1. at[c] \in Schedulers /\ UNCHANGED <<running, owner, at>>
    BY <1>3 DEF CheckEmpty
  <2>2. \A t \in Workers : pc'[t] = pc[t]
    BY <1>3 DEF CheckEmpty, Return
  <2>3. CASE UNCHANGED <<suspended, born>>
    BY <2>1, <2>2, <2>3
  <2>4. CASE TerminatePrivate(at[c])
    <3>1. /\ born' = born \ suspended[at[c]]
          /\ \A u \in Schedulers : u # at[c] => suspended'[u] = suspended[u]
      BY <2>1, <2>4 DEF TerminatePrivate, ListType
    <3>2. ASSUME NEW v \in born', NEW u \in Schedulers, owner'[v] = u
          PROVE  v \in running'[u] \cup suspended'[u]
                    \/ (pc'[v] = "stopStarving" /\ at'[v] = u)
      <4>1. v \in born /\ v \notin suspended[at[c]] /\ v \in Workers /\ owner[v] = u
        BY <2>1, <3>1, <3>2 DEF ListType
      <4>2. v \in running[u] \cup suspended[u] \/ (pc[v] = "stopStarving" /\ at[v] = u)
        BY <4>1 DEF OwnedInv
      <4>3. v \in suspended[u] => v \in suspended'[u]
        BY <3>1, <4>1
      <4> QED BY <2>1, <2>2, <4>1, <4>2, <4>3
    <3> QED BY <3>2 DEF OwnedInv
  <2> QED BY <1>3, <2>3, <2>4 DEF CheckEmpty
<1>4. ASSUME NEW c \in Clients, EnterWait(c) PROVE OwnedInv'
  BY <1>4 DEF EnterWait
<1>5. ASSUME NEW c \in Clients, DestroyStopStarvation(c) PROVE OwnedInv'
  BY <1>5 DEF DestroyStopStarvation
<1>6. ASSUME NEW c \in Clients, UseAllCPUs(c) PROVE OwnedInv'
  BY <1>6 DEF UseAllCPUs, SetThreadCount, Return
<1>7. ASSUME NEW c \in Clients, Shrink(c) PROVE OwnedInv'
  BY <1>7 DEF Shrink, Return
<1>8. ASSUME NEW c \in Clients, Join(c) PROVE OwnedInv'
  BY <1>8 DEF Join
<1>9. ASSUME NEW c \in Clients, NEW s \in Schedulers, NEW j \in Jobs, Schedule(c, s, j)
      PROVE  OwnedInv'
  <2>1. CASE Granted(s) /\ UNCHANGED <<pc, at>>
    BY <2>1, OwnedGranted DEF Granted
  <2>2. CASE Starve(c, s)
    BY <1>9, <2>2 DEF Schedule, Starve, Hold, Enters, Ready
  <2>3. CASE UNCHANGED allocVars /\ UNCHANGED <<pc, at>>
    BY <2>3
  <2> QED BY <1>9, <2>1, <2>2, <2>3 DEF Schedule, Refused
<1>10. ASSUME NEW c \in Clients, NEW s \in Schedulers, NEW w \in Watermarks,
              NEW o \in BOOLEAN, RemoveJobFromQueue(c, s, w, o)
      PROVE  OwnedInv'
  BY <1>10 DEF RemoveJobFromQueue, Enters, Ready
<1>11. ASSUME NEW c \in Clients, NEW s \in Schedulers, Stop(c, s) PROVE OwnedInv'
  BY <1>11 DEF Stop
<1>12. ASSUME NEW c \in Clients, NEW s \in Schedulers, Resume(c, s)
      PROVE  OwnedInv'
  BY <1>12 DEF Resume, Enters, Ready, Hold
<1>13. ASSUME NEW c \in Clients, NEW s \in Schedulers, WaitForEmptyQueue(c, s)
      PROVE  OwnedInv'
  BY <1>13 DEF WaitForEmptyQueue, Ready
<1>14. ASSUME NEW c \in Clients, NEW s \in Schedulers, Construct(c, s)
      PROVE  OwnedInv'
  BY <1>14 DEF Construct, Ready
<1>15. ASSUME NEW c \in Clients, NEW s \in Schedulers, Destroy(c, s)
      PROVE  OwnedInv'
  BY <1>15 DEF Destroy, Ready
<1>16. ASSUME NEW c \in Clients, Timeout(c) PROVE OwnedInv'
  BY <1>16 DEF Timeout, Return
<1>17. ASSUME NEW c \in Clients, NEW n, SetSharedThreadCount(c, n) PROVE OwnedInv'
  BY <1>17 DEF SetSharedThreadCount, SetThreadCount, Return, Ready
<1>18. ASSUME NEW t \in Workers, NEW s \in Schedulers, TakeJob(t, s)
      PROVE  OwnedInv'
  BY <1>18, WakeWaitingMoves DEF TakeJob, EntersAssignJob
<1>19. ASSUME NEW t \in Workers, NEW s \in Schedulers, ParkPrivate(t, s)
      PROVE  OwnedInv'
  <2>1. /\ running' = [running EXCEPT ![s] = @ \ {t}] /\ UNCHANGED <<owner, at>>
        /\ \/ born' = born \ {t} /\ suspended' = suspended
           \/ born' = born /\ suspended' = [suspended EXCEPT ![s] = @ \cup {t}]
        /\ owner[t] = s
    BY <1>19 DEF ParkPrivate, EntersAssignJob
  <2>2. \A u \in Workers : pc[u] = "stopStarving" => pc'[u] = "stopStarving"
    BY <1>19, ParkMoves
  <2>3. /\ \A u \in Schedulers : running[u] \subseteq running'[u] \cup {t}
        /\ \A u \in Schedulers : suspended[u] \subseteq suspended'[u]
        /\ born' \subseteq born
        /\ t \in born' => t \in suspended'[s]
    <3>1. \A u \in Schedulers : running[u] \subseteq running'[u] \cup {t}
      BY <2>1 DEF ListType
    <3>2. CASE born' = born \ {t} /\ suspended' = suspended
      BY <3>1, <3>2
    <3>3. CASE born' = born /\ suspended' = [suspended EXCEPT ![s] = @ \cup {t}]
      <4>1. suspended'[s] = suspended[s] \cup {t}
        BY <3>3 DEF ListType
      <4>2. \A u \in Schedulers : u # s => suspended'[u] = suspended[u]
        BY <3>3 DEF ListType
      <4> QED BY <3>1, <3>3, <4>1, <4>2
    <3> QED BY <2>1, <3>2, <3>3
  <2>4. ASSUME NEW v \in born', NEW u \in Schedulers, owner'[v] = u
        PROVE  v \in running'[u] \cup suspended'[u] \/ (pc'[v] = "stopStarving" /\ at'[v] = u)
    <3>1. v \in running[u] \cup suspended[u] \/ (pc[v] = "stopStarving" /\ at[v] = u)
      BY <2>1, <2>3, <2>4 DEF OwnedInv
    <3> QED BY <2>1, <2>2, <2>3, <2>4, <3>1 DEF ListType
  <2> QED BY <2>4 DEF OwnedInv
<1>20. ASSUME NEW t \in Workers, NEW s \in Schedulers, LeaveRunning(t, s)
      PROVE  OwnedInv'
  <2>1. /\ running' = [running EXCEPT ![s] = @ \ {t}] /\ owner[t] = s
        /\ UNCHANGED <<suspended, born, owner>>
        /\ pc' = [WakeWaiting(s) EXCEPT ![t] = "stopStarving"]
        /\ at' = [at EXCEPT ![t] = s] /\ pc[t] = "loop"
    BY <1>20 DEF LeaveRunning, EntersAssignJob
  <2>2. /\ pc'[t] = "stopStarving" /\ at'[t] = s
        /\ \A u \in Workers : u # t => at'[u] = at[u]
        /\ \A u \in Workers : pc[u] = "stopStarving" => pc'[u] = "stopStarving" /\ u # t
    BY <2>1, WakeWaitingMoves
  <2>3. \A u \in Schedulers : running[u] \subseteq running'[u] \cup {t}
    BY <2>1 DEF ListType
  <2>4. ASSUME NEW v \in born', NEW u \in Schedulers, owner'[v] = u
        PROVE  v \in running'[u] \cup suspended'[u] \/ (pc'[v] = "stopStarving" /\ at'[v] = u)
    <3>1. v \in born /\ v \in Workers /\ owner[v] = u
      BY <2>1, <2>4 DEF ListType
    <3>2. v \in running[u] \cup suspended[u] \/ (pc[v] = "stopStarving" /\ at[v] = u)
      BY <3>1 DEF OwnedInv
    <3>3. v = t => u = s
      BY <2>1, <3>1
    <3> QED BY <2>1, <2>2, <2>3, <3>1, <3>2, <3>3
  <2> QED BY <2>4 DEF OwnedInv
<1>21. ASSUME NEW t \in Workers, StopStarvation(t) PROVE OwnedInv'
  BY <1>21 DEF StopStarvation
<1>22. ASSUME NEW t \in Workers, Release(t) PROVE OwnedInv'
  <2>1. /\ owner' = [owner EXCEPT ![t] = None]
        /\ UNCHANGED <<running, suspended, born, at>> /\ at[t] \in Schedulers
    BY <1>22 DEF Release, LockInv, LeavingPlaces
  <2>2. \A u \in Workers : u # t => pc'[u] = pc[u]
    <3>1. CASE EndRelease(t, at[t])
      BY <2>1, <3>1, EndReleaseMoves
    <3>2. CASE ~EndRelease(t, at[t])
      BY <1>22, <3>2 DEF Release
    <3> QED BY <3>1, <3>2
  <2>3. ASSUME NEW v \in born', NEW u \in Schedulers, owner'[v] = u
        PROVE  v \in running'[u] \cup suspended'[u] \/ (pc'[v] = "stopStarving" /\ at'[v] = u)
    <3>1. v \in born /\ v \in Workers /\ v # t /\ owner[v] = u
      BY <2>1, <2>3 DEF ListType
    <3>2. v \in running[u] \cup suspended[u] \/ (pc[v] = "stopStarving" /\ at[v] = u)
      BY <3>1 DEF OwnedInv
    <3> QED BY <2>1, <2>2, <3>1, <3>2
  <2> QED BY <2>3 DEF OwnedInv
<1>23. ASSUME NEW t \in Workers, SelectStarving(t) PROVE OwnedInv'
  <2>1. /\ UNCHANGED <<running, suspended, born, owner, at>> /\ at[t] \in Schedulers
        /\ pc[t] = "select"
    BY <1>23 DEF SelectStarving, LockInv, LeavingPlaces
  <2>2. \A u \in Workers : u # t => pc'[u] = pc[u]
    <3>1. CASE EndRelease(t, at[t])
      BY <2>1, <3>1, EndReleaseMoves
    <3>2. CASE ~EndRelease(t, at[t])
      BY <1>23, <3>2 DEF SelectStarving
    <3> QED BY <3>1, <3>2
  <2> QED BY <2>1, <2>2
<1>24. ASSUME NEW t \in Workers, ThreadAvailable(t) PROVE OwnedInv'
  BY <1>24 DEF ThreadAvailable
<1>25. ASSUME NEW t \in Workers, AllocateLoop(t) PROVE OwnedInv'
  <2>1. notified[t] \in Schedulers /\ pc[t] = "allocate"
    BY <1>25 DEF AllocateLoop, LockInv
  <2>2. CASE BorrowShared(notified[t]) /\ UNCHANGED <<pc, at>>
    BY <2>1, <2>2, OwnedGranted
  <2>3. CASE Starve(t, notified[t])
    BY <1>25, <2>1, <2>3 DEF AllocateLoop, Starve, Hold
  <2>4. CASE UNCHANGED allocVars /\ Unlock(t, notified[t], "select") /\ UNCHANGED at
    BY <1>25, <2>1, <2>4 DEF AllocateLoop, Unlock
  <2> QED BY <1>25, <2>2, <2>3, <2>4 DEF AllocateLoop
<1>26. ASSUME NEW t \in Workers, AddStarving(t) PROVE OwnedInv'
  BY <1>26 DEF AddStarving, Unlock, Actors
<1>27. ASSUME NEW t \in Workers, FinishJob(t) PROVE OwnedInv'
  BY <1>27 DEF FinishJob
<1>28. ASSUME NEW t \in Workers, WaitForSomeJobs(t) PROVE OwnedInv'
  BY <1>28 DEF WaitForSomeJobs, WakeIdle
<1>29. ASSUME NEW t \in Workers, EnterWaitForSome(t) PROVE OwnedInv'
  BY <1>29 DEF EnterWaitForSome
<1>30. ASSUME NEW t \in Workers, LeaveWaitForSomeJobs(t) PROVE OwnedInv'
  BY <1>30 DEF LeaveWaitForSomeJobs
<1>31. CASE UNCHANGED vars
  BY <1>31 DEF vars
<1> QED
  BY <1>1, <1>2, <1>3, <1>4, <1>5, <1>6, <1>7, <1>8, <1>9, <1>10, <1>11, <1>12,
     <1>13, <1>14, <1>15, <1>16, <1>17, <1>18, <1>19, <1>20, <1>21, <1>22, <1>23,
     <1>24, <1>25, <1>26, <1>27, <1>28, <1>29, <1>30, <1>31
  DEF Next, ClientContinues, ClientCalls, WorkerStep

(* ~CJobScheduler: once a scheduler is destroyed, no worker is owned by    *)
(* it, inside it or about to notify it, and the pool has forgotten it,     *)
(* whatever the other schedulers and the pool do meanwhile.                *)
THEOREM DestroyedIsUnused == Spec => []NoUseAfterDestruction
<1>1. Init => DtorInv /\ DeadInv /\ OwnedInv
  BY ActorsApart DEF Init, DtorInv, DeadInv, OwnedInv, DtorPlaces
<1>2. ASSUME SchedulerInv, StarveInv, DeadInv, OwnedInv PROVE NoUseAfterDestruction
  <2> SUFFICES ASSUME NEW s \in Schedulers, life[s] = "dead"
               PROVE  /\ running[s] = {} /\ Leaving(s) = {} /\ s \notin Range(starving)
                      /\ \A t \in born : owner[t] # s
                      /\ \A t \in Workers : pc[t] \in {"notify", "allocate", "addStarving"}
                                               => notified[t] # s
    BY DEF NoUseAfterDestruction
  <2>1. running[s] = {} /\ Leaving(s) = {}
    <3>1. running[s] \subseteq Workers
      BY <1>2 DEF SchedulerInv, ThreadInv, ListType
    <3>2. \A t \in Workers : t \notin running[s] /\ t \notin Leaving(s)
      BY <1>2, UsedIsNotDead DEF Leaving, LeavingPlaces
    <3> QED BY <3>1, <3>2 DEF Leaving
  <2>2. ~starved[s] /\ suspended[s] = {}
        /\ \A t \in Workers : pc[t] \in {"allocate", "addStarving"} => notified[t] # s
    BY <1>2, Zenon DEF DeadInv
  <2>3. s \notin Range(starving)
    BY <1>2, <2>2, Zenon DEF StarveInv
  <2>4. \A t \in Workers : pc[t] = "notify" => notified[t] # s
    BY <1>2, <2>2, Zenon DEF StarveInv
  <2>5. \A t \in born : owner[t] # s
    <3>1. born \subseteq Workers
      BY <1>2 DEF SchedulerInv, ThreadInv, ListType
    <3> QED BY <1>2, <2>1, <2>2, <3>1 DEF OwnedInv, Leaving
  <2> QED BY <2>1, <2>2, <2>3, <2>4, <2>5
<1>3. /\ SchedulerInv /\ JobsInv /\ [Next]_vars => JobsInv'
      /\ SchedulerInv /\ StarveInv /\ [Next]_vars => StarveInv'
      /\ SchedulerInv /\ DtorInv /\ [Next]_vars => DtorInv'
      /\ SchedulerInv /\ OwnedInv /\ [Next]_vars => OwnedInv'
  BY JobsInductive, StarveInductive, DtorInductive, OwnedInductive
<1>4. SchedulerInv /\ JobsInv /\ StarveInv /\ DtorInv /\ DeadInv /\ [Next]_vars => DeadInv'
  BY DeadInductive
<1> QED
  BY <1>1, <1>2, <1>3, <1>4, JobsInit, StarveInit, SchedulerInit, SchedulerInductive, PTL
  DEF Spec

-----------------------------------------------------------------------------
(***************************************************************************)
(* The shared pool gets back what it lent.                                 *)
(***************************************************************************)

\* A worker that counts as returned to the pool while its scheduler still
\* counts it as borrowed.
ReturnedPlaces == LeavingPlaces \ {"stopStarving"}

\* The threads that the pool has lent to s and not got back, numbered.
LentCount(s) ==
    fromShared[s] - IF \E t \in Workers : at[t] = s /\ pc[t] \in ReturnedPlaces THEN 1 ELSE 0

Lent == {p \in Schedulers \X (Nat \ {0}) : p[2] <= LentCount(p[1])}

\* The pool counts what it lends, and is empty once its size has been set to
\* zero and the surplus threads are joined.
PoolInv ==
    /\ maxCount \in Nat
    /\ IsFiniteSet(pool) /\ IsFiniteSet(Lent)
    /\ allocCount = Cardinality(Lent)
    /\ maxCount = 0 => pool = {} \/ \E c \in Clients : pc[c] \in {"shrink", "join"}

\* A thread without an owner is idle in the pool or is being joined.
IdleInv ==
    \A t \in born : owner[t] = None =>
       \/ t \in pool
       \/ pc[t] = "joinSelf"
       \/ \E c \in Clients : pc[c] = "join" /\ notified[c] = t

(* The number of lent threads is a natural number.                         *)
LEMMA LentCountType ==
    ASSUME SchedulerInv
    PROVE  \A s \in Schedulers : LentCount(s) \in Nat
<1> SUFFICES ASSUME NEW s \in Schedulers PROVE LentCount(s) \in Nat
  OBVIOUS
<1>1. fromShared[s] \in Int /\ fromShared[s] >= 0
  BY DEF SchedulerInv, ThreadInv, ListType, CountInv
<1>2. (\E t \in Workers : at[t] = s /\ pc[t] \in ReturnedPlaces) => fromShared[s] > 0
  BY DEF SchedulerInv, ThreadInv, DebtInv, ReturnedPlaces
<1> QED BY <1>1, <1>2 DEF LentCount

\* A step that lends nothing and gets nothing back.
LentKept ==
    /\ fromShared' = fromShared
    /\ \A t \in Workers : pc'[t] \in ReturnedPlaces <=> pc[t] \in ReturnedPlaces
    /\ \A t \in Workers : pc[t] \in ReturnedPlaces => at'[t] = at[t]

(* Such a step leaves the lent threads alone.                              *)
LEMMA LentFrame ==
    ASSUME LentKept
    PROVE  Lent' = Lent
<1>1. \A s : LentCount(s)' = LentCount(s)
  BY DEF LentKept, LentCount
<1> QED BY <1>1 DEF Lent

(* AllocateThread borrows one more thread.                                 *)
LEMMA LentBorrowed ==
    ASSUME SchedulerInv, NEW s \in Schedulers, UNCHANGED <<pc, at>>, IsFiniteSet(Lent),
           fromShared' = [fromShared EXCEPT ![s] = @ + 1]
    PROVE  IsFiniteSet(Lent') /\ Cardinality(Lent') = Cardinality(Lent) + 1
<1> DEFINE n == LentCount(s) + 1
<1>1. /\ \A u \in Schedulers : LentCount(u) \in Nat
      /\ \A u \in Schedulers : fromShared[u] \in Int
      /\ fromShared \in [Schedulers -> Int]
  BY LentCountType DEF SchedulerInv, ThreadInv, ListType
<1>2. /\ LentCount(s)' = n
      /\ \A u \in Schedulers : u # s => LentCount(u)' = LentCount(u)
  BY <1>1 DEF LentCount
<1>3. ASSUME NEW u \in Schedulers, NEW k \in Nat \ {0}
      PROVE  <<u, k>> \in Lent' <=> <<u, k>> \in Lent \/ (u = s /\ k = n)
  <2>1. <<u, k>> \in Lent <=> k <= LentCount(u)
    BY DEF Lent
  <2>2. <<u, k>> \in Lent' <=> k <= LentCount(u)'
    BY DEF Lent
  <2> QED BY <1>1, <1>2, <2>1, <2>2
<1>4. n \in Nat \ {0} /\ <<s, n>> \notin Lent
  BY <1>1 DEF Lent
<1>5. Lent' = Lent \cup {<<s, n>>}
  <2>1. Lent \subseteq Schedulers \X (Nat \ {0}) /\ Lent' \subseteq Schedulers \X (Nat \ {0})
    BY DEF Lent
  <2> HIDE DEF n
  <2>2. ASSUME NEW p \in Schedulers \X (Nat \ {0})
        PROVE  p \in Lent' <=> p \in Lent \cup {<<s, n>>}
    <3>1. PICK u \in Schedulers, k \in Nat \ {0} : p = <<u, k>>
      OBVIOUS
    <3> QED BY <1>3, <3>1
  <2> QED BY <1>4, <2>1, <2>2
<1> HIDE DEF n
<1> QED BY <1>4, <1>5, FS_AddElement

(* A worker in Release gives one thread back; the pool counts it at once,  *)
(* its scheduler only at the end (EndRelease).                             *)
LEMMA LentReturned ==
    ASSUME SchedulerInv, NEW t \in Workers, Release(t), IsFiniteSet(Lent)
    PROVE  /\ IsFiniteSet(Lent') /\ Cardinality(Lent') = Cardinality(Lent) - 1
           /\ Cardinality(Lent) \in Nat \ {0}
<1> USE ActorsApart DEF SchedulerInv, ControlInv, ControlType, ThreadInv
<1>0. PICK s \in Schedulers, n \in Nat \ {0} : s = at[t] /\ n = fromShared[s]
  BY DEF Release, LockInv, LeavingPlaces, DebtInv, ListType
<1>1. /\ pc[t] = "stopStarving" /\ at' = at /\ at[t] = s /\ fromShared[s] = n
      /\ s \in Schedulers /\ mutex[s] = t
      /\ n \in Nat \ {0}
      /\ fromShared \in [Schedulers -> Int]
  BY <1>0 DEF Release, LockInv, LeavingPlaces, ListType
<1>2. \A v \in Workers : v # t /\ pc[v] \in ReturnedPlaces => at[v] # s
  BY <1>1 DEF LockInv, ReturnedPlaces
<1>3. /\ \A v \in Workers : v # t => pc'[v] = pc[v]
      /\ \/ pc'[t] = "loop" /\ fromShared' = [fromShared EXCEPT ![s] = n - 1]
         \/ pc'[t] \in ReturnedPlaces /\ fromShared' = fromShared
  <2>1. CASE EndRelease(t, s)
    BY <1>1, <2>1, EndReleaseMoves DEF EndRelease
  <2>2. CASE ~EndRelease(t, s)
    BY <1>1, <2>2 DEF Release, ReturnedPlaces, LeavingPlaces
  <2> QED BY <2>1, <2>2
<1>4. LentCount(s) = n
  BY <1>1, <1>2 DEF LentCount, ReturnedPlaces
<1>5. LentCount(s)' = n - 1
  <2>1. CASE pc'[t] = "loop" /\ fromShared' = [fromShared EXCEPT ![s] = n - 1]
    <3>1. fromShared'[s] = n - 1
      BY <1>1, <2>1
    <3>2. ~\E v \in Workers : at'[v] = s /\ pc'[v] \in ReturnedPlaces
      BY <1>1, <1>2, <1>3, <2>1 DEF ReturnedPlaces, LeavingPlaces
    <3>3. n - 1 - 0 = n - 1
      BY <1>1
    <3> QED BY <1>1, <3>1, <3>2, <3>3 DEF LentCount
  <2>2. CASE pc'[t] \in ReturnedPlaces /\ fromShared' = fromShared
    BY <1>1, <2>2 DEF LentCount
  <2> QED BY <1>3, <2>1, <2>2
<1>6. \A u \in Schedulers : u # s => LentCount(u)' = LentCount(u)
  <2> SUFFICES ASSUME NEW u \in Schedulers, u # s PROVE LentCount(u)' = LentCount(u)
    OBVIOUS
  <2>1. fromShared'[u] = fromShared[u]
    BY <1>1, <1>3
  <2>2. \A v \in Workers : at'[v] = u => at[v] = u /\ pc'[v] = pc[v]
    BY <1>1, <1>3
  <2>3. \A v \in Workers : at[v] = u => at'[v] = u /\ pc'[v] = pc[v]
    BY <1>1, <1>3
  <2> QED BY <2>1, <2>2, <2>3 DEF LentCount
<1>7. \A u \in Schedulers : LentCount(u) \in Nat
  BY LentCountType
<1> HIDE DEF SchedulerInv, ControlInv, ControlType, ThreadInv
<1>8. <<s, n>> \in Lent
  BY <1>1, <1>4 DEF Lent
<1>9. Lent' = Lent \ {<<s, n>>}
  <2>1. Lent \subseteq Schedulers \X (Nat \ {0}) /\ Lent' \subseteq Schedulers \X (Nat \ {0})
    BY DEF Lent
  <2>2. ASSUME NEW p \in Schedulers \X (Nat \ {0})
        PROVE  p \in Lent' <=> p \in Lent \ {<<s, n>>}
    <3>1. PICK u \in Schedulers, k \in Nat \ {0} : p = <<u, k>>
      OBVIOUS
    <3>2. <<u, k>> \in Lent <=> k <= LentCount(u)
      BY DEF Lent
    <3>3. <<u, k>> \in Lent' <=> k <= LentCount(u)'
      BY DEF Lent
    <3>4. k <= LentCount(u)' <=> k <= LentCount(u) /\ ~(u = s /\ k = n)
      <4>1. CASE u = s
        BY <1>1, <1>4, <1>5, <4>1
      <4>2. CASE u # s
        BY <1>6, <4>2
      <4> QED BY <4>1, <4>2
    <3> QED BY <3>1, <3>2, <3>3, <3>4
  <2> QED BY <2>1, <2>2
<1> QED BY <1>8, <1>9, FS_RemoveElement, FS_CardinalityType, FS_EmptySet

(* What SelectStarving does at the end of Release changes no number.       *)
LEMMA LentEnded ==
    ASSUME SchedulerInv, NEW t \in Workers, SelectStarving(t)
    PROVE  Lent' = Lent
<1> USE ActorsApart DEF SchedulerInv, ControlInv, ControlType, ThreadInv
<1>0. PICK s \in Schedulers : s = at[t]
  BY DEF SelectStarving, LockInv, LeavingPlaces
<1>1. /\ pc[t] = "select" /\ at' = at /\ at[t] = s
      /\ mutex[s] = t
      /\ fromShared \in [Schedulers -> Int]
  BY <1>0 DEF SelectStarving, LockInv, LeavingPlaces, ListType
<1>2. CASE EndRelease(t, s)
  <2>1. /\ pc'[t] = "loop"
        /\ \A v \in Workers : v # t => pc'[v] = pc[v]
        /\ fromShared' = [fromShared EXCEPT ![s] = @ - 1]
    BY <1>1, <1>2, EndReleaseMoves DEF EndRelease
  <2>2. \A v \in Workers : v # t /\ pc[v] \in ReturnedPlaces => at[v] # s
    BY <1>1 DEF LockInv, ReturnedPlaces
  <2>3. LentCount(s) = fromShared[s] - 1
    BY <1>1 DEF LentCount, ReturnedPlaces, LeavingPlaces
  <2>4. LentCount(s)' = fromShared[s] - 1
    <3>1. fromShared'[s] = fromShared[s] - 1 /\ fromShared[s] - 1 - 0 = fromShared[s] - 1
      BY <1>1, <2>1
    <3>2. ~\E v \in Workers : at'[v] = s /\ pc'[v] \in ReturnedPlaces
      BY <1>1, <2>1, <2>2 DEF ReturnedPlaces, LeavingPlaces
    <3> QED BY <1>1, <3>1, <3>2 DEF LentCount
  <2>5. \A u \in Schedulers : u # s => LentCount(u)' = LentCount(u)
    <3> SUFFICES ASSUME NEW u \in Schedulers, u # s PROVE LentCount(u)' = LentCount(u)
      OBVIOUS
    <3>1. fromShared'[u] = fromShared[u]
      BY <1>1, <2>1
    <3>2. \A v \in Workers : at[v] = u => pc'[v] = pc[v]
      BY <1>1, <2>1
    <3> QED BY <1>1, <3>1, <3>2 DEF LentCount
  <2>6. \A u \in Schedulers : LentCount(u)' = LentCount(u)
    BY <1>1, <2>3, <2>4, <2>5
  <2>7. \A p \in Schedulers \X (Nat \ {0}) : p[1] \in Schedulers
    OBVIOUS
  <2> QED BY <2>6, <2>7 DEF Lent
<1>3. CASE /\ pc' = [pc EXCEPT ![t] = "notify"] /\ fromShared' = fromShared
  BY <1>1, <1>3, LentFrame DEF LentKept, ReturnedPlaces, LeavingPlaces
<1> QED BY <1>1, <1>2, <1>3 DEF SelectStarving

\* A step that leaves the pool and its size alone.
PoolKept ==
    /\ UNCHANGED <<maxCount, pool, allocCount>>
    /\ LentKept
    /\ \A c \in Clients : pc[c] \in {"shrink", "join"} => pc'[c] \in {"shrink", "join"}

(* Such a step keeps the invariant.                                        *)
LEMMA PoolFrame ==
    ASSUME PoolInv, PoolKept
    PROVE  PoolInv'
<1>1. Lent' = Lent
  BY LentFrame DEF PoolKept
<1>2. /\ maxCount' \in Nat /\ IsFiniteSet(pool') /\ IsFiniteSet(Lent')
      /\ allocCount' = Cardinality(Lent')
  BY <1>1 DEF PoolInv, PoolKept
<1>3. maxCount' = 0 => pool' = {} \/ \E c \in Clients : pc'[c] \in {"shrink", "join"}
  BY DEF PoolInv, PoolKept
<1> QED BY <1>2, <1>3 DEF PoolInv

(* AllocateThread takes threads out of the pool only.                      *)
LEMMA PoolGranted ==
    ASSUME SchedulerInv, PoolInv, NEW s \in Schedulers, UNCHANGED <<pc, at, maxCount>>,
           RecycleSuspended(s) \/ CreatePrivate(s) \/ BorrowShared(s)
    PROVE  PoolInv'
<1>1. CASE BorrowShared(s)
  <2>1. /\ pool' \subseteq pool /\ allocCount' = allocCount + 1
        /\ fromShared' = [fromShared EXCEPT ![s] = @ + 1]
    BY <1>1 DEF BorrowShared, RecycleShared, CreateShared, Lend
  <2>2. IsFiniteSet(Lent') /\ Cardinality(Lent') = Cardinality(Lent) + 1
    BY <2>1, LentBorrowed DEF PoolInv
  <2>3. IsFiniteSet(pool')
    BY <2>1, FS_Subset DEF PoolInv
  <2>4. maxCount' = 0 => pool' = {} \/ \E c \in Clients : pc'[c] \in {"shrink", "join"}
    BY <2>1 DEF PoolInv
  <2> QED BY <2>1, <2>2, <2>3, <2>4 DEF PoolInv
<1>2. CASE RecycleSuspended(s) \/ CreatePrivate(s)
  <2>1. PoolKept
    BY <1>2 DEF RecycleSuspended, CreatePrivate, PoolKept, LentKept
  <2> QED BY <2>1, PoolFrame
<1> QED BY <1>1, <1>2

(* SetThreadCount leaves a caller behind that shrinks the pool, unless the *)
(* pool is small enough.                                                   *)
LEMMA PoolResized ==
    ASSUME SchedulerInv, PoolInv, NEW c \in Clients, NEW count \in Nat,
           SetThreadCount(c, count), UNCHANGED <<fromShared, pool, allocCount, at>>
    PROVE  PoolInv'
<1> USE ActorsApart DEF SchedulerInv, ControlInv, ControlType
<1>1. /\ maxCount' = count
      /\ \/ pc' = [pc EXCEPT ![c] = "shrink"]
         \/ pc' = [pc EXCEPT ![c] = "ready"] /\ (PoolThreads <= count \/ pool = {})
  BY DEF SetThreadCount, Return
<1>2. \A t \in Workers : pc'[t] = pc[t]
  BY <1>1
<1>3. Lent' = Lent
  BY <1>2, LentFrame DEF LentKept
<1>4. Cardinality(pool) \in Nat /\ Cardinality(Lent) \in Nat
      /\ (Cardinality(pool) = 0 <=> pool = {})
  BY FS_CardinalityType, FS_EmptySet DEF PoolInv
<1>5. count = 0 => pool = {} \/ pc'[c] = "shrink"
  BY <1>1, <1>4 DEF PoolThreads, PoolInv
<1> QED BY <1>1, <1>3, <1>5 DEF PoolInv

(* The loop in SetThreadCount ends when the pool is small enough.          *)
LEMMA PoolShrinks ==
    ASSUME SchedulerInv, PoolInv, NEW c \in Clients, Shrink(c)
    PROVE  PoolInv'
<1> USE ActorsApart DEF SchedulerInv, ControlInv, ControlType
<1>1. /\ UNCHANGED <<maxCount, fromShared, allocCount, at>>
      /\ \/ pool' \subseteq pool /\ pc' = [pc EXCEPT ![c] = "join"]
         \/ /\ pool' = pool /\ pc' = [pc EXCEPT ![c] = "ready"]
            /\ PoolThreads <= maxCount \/ pool = {}
  BY DEF Shrink, Return, countVars
<1>2. \A t \in Workers : pc'[t] = pc[t]
  BY <1>1
<1>3. Lent' = Lent
  BY <1>1, <1>2, LentFrame DEF LentKept
<1>4. Cardinality(pool) \in Nat /\ Cardinality(Lent) \in Nat
      /\ (Cardinality(pool) = 0 <=> pool = {})
  BY FS_CardinalityType, FS_EmptySet DEF PoolInv
<1>5. IsFiniteSet(pool')
  BY <1>1, FS_Subset DEF PoolInv
<1>6. maxCount = 0 => pool' = {} \/ pc'[c] = "join"
  BY <1>1, <1>4 DEF PoolThreads, PoolInv
<1> QED BY <1>1, <1>3, <1>5, <1>6 DEF PoolInv

(* Release keeps no thread in a pool of size zero.                         *)
LEMMA PoolReleased ==
    ASSUME SchedulerInv, PoolInv, NEW t \in Workers, Release(t)
    PROVE  PoolInv'
<1>1. /\ IsFiniteSet(Lent') /\ Cardinality(Lent') = Cardinality(Lent) - 1
      /\ Cardinality(Lent) \in Nat \ {0}
  BY LentReturned DEF PoolInv
<1>2. /\ allocCount' = allocCount - 1 /\ maxCount' = maxCount /\ poolMutex = None
      /\ \/ pool' = pool
         \/ pool' = pool \cup {t} /\ Cardinality(pool) + allocCount - 1 < maxCount
  BY DEF Release
<1>3. Cardinality(pool) \in Nat /\ IsFiniteSet(pool')
  BY <1>2, FS_CardinalityType, FS_AddElement DEF PoolInv
<1>4. maxCount = 0 => pool' = {}
  <2>1. \A c \in Clients : pc[c] \notin {"shrink", "join"}
    BY <1>2, ActorsApart DEF SchedulerInv, ControlInv, LockInv
  <2>2. maxCount = 0 => pool = {}
    BY <2>1 DEF PoolInv
  <2>3. maxCount = 0 => pool' = pool
    BY <1>1, <1>2, <1>3 DEF PoolInv
  <2> QED BY <2>2, <2>3
<1> QED BY <1>1, <1>2, <1>3, <1>4 DEF PoolInv

(* The pool counts the threads it has lent at every step.                  *)
LEMMA PoolInductive ==
    ASSUME SchedulerInv, PoolInv, [Next]_vars
    PROVE  PoolInv'
<1> USE ActorsApart, PoolFrame
    DEF PoolKept, LentKept, ReturnedPlaces, LeavingPlaces, SchedulerInv, ControlInv,
        ControlType, ClientPlaces, allocVars, starveVars, eventVars, limitVars, jobVars,
        controlVars, countVars
<1>1. ASSUME NEW c \in Clients, AddStarving(c) PROVE PoolInv'
  BY <1>1 DEF AddStarving, Unlock, Actors
<1>2. ASSUME NEW c \in Clients, ResumeLoop(c) PROVE PoolInv'
  <2>1. at[c] \in Schedulers /\ maxCount' = maxCount
    BY <1>2 DEF ResumeLoop
  <2>2. CASE Granted(at[c]) /\ UNCHANGED <<pc, at>>
    BY <2>1, <2>2, PoolGranted DEF Granted
  <2>3. CASE Starve(c, at[c])
    BY <1>2, <2>3 DEF ResumeLoop, Starve, Hold
  <2>4. CASE UNCHANGED allocVars /\ Unlock(c, at[c], "ready") /\ UNCHANGED at
    BY <1>2, <2>4 DEF ResumeLoop, Unlock
  <2> QED BY <1>2, <2>2, <2>3, <2>4 DEF ResumeLoop, Refused
<1>3. ASSUME NEW c \in Clients, CheckEmpty(c) PROVE PoolInv'
  BY <1>3 DEF CheckEmpty, Return
<1>4. ASSUME NEW c \in Clients, EnterWait(c) PROVE PoolInv'
  BY <1>4 DEF EnterWait
<1>5. ASSUME NEW c \in Clients, DestroyStopStarvation(c) PROVE PoolInv'
  BY <1>5 DEF DestroyStopStarvation
<1>6. ASSUME NEW c \in Clients, UseAllCPUs(c) PROVE PoolInv'
  <2>1. SetThreadCount(c, HWThreadCount) /\ UNCHANGED <<fromShared, pool, allocCount, at>>
    BY <1>6 DEF UseAllCPUs
  <2> QED BY <2>1, PoolResized, BoundAssumption
<1>7. ASSUME NEW c \in Clients, Shrink(c) PROVE PoolInv'
  BY <1>7, PoolShrinks
<1>8. ASSUME NEW c \in Clients, Join(c) PROVE PoolInv'
  BY <1>8 DEF Join
<1>9. ASSUME NEW c \in Clients, NEW s \in Schedulers, NEW j \in Jobs, Schedule(c, s, j)
      PROVE  PoolInv'
  <2>1. CASE Granted(s) /\ UNCHANGED <<pc, at>>
    BY <1>9, <2>1, PoolGranted DEF Granted, Schedule
  <2>2. CASE Starve(c, s)
    BY <1>9, <2>2 DEF Schedule, Starve, Hold, Enters, Ready
  <2>3. CASE UNCHANGED allocVars /\ UNCHANGED <<pc, at>>
    BY <1>9, <2>3 DEF Schedule
  <2> QED BY <1>9, <2>1, <2>2, <2>3 DEF Schedule, Refused
<1>10. ASSUME NEW c \in Clients, NEW s \in Schedulers, NEW w \in Watermarks,
              NEW o \in BOOLEAN, RemoveJobFromQueue(c, s, w, o)
      PROVE  PoolInv'
  BY <1>10 DEF RemoveJobFromQueue, Enters, Ready
<1>11. ASSUME NEW c \in Clients, NEW s \in Schedulers, Stop(c, s) PROVE PoolInv'
  BY <1>11 DEF Stop
<1>12. ASSUME NEW c \in Clients, NEW s \in Schedulers, Resume(c, s) PROVE PoolInv'
  BY <1>12 DEF Resume, Enters, Ready, Hold
<1>13. ASSUME NEW c \in Clients, NEW s \in Schedulers, WaitForEmptyQueue(c, s)
      PROVE  PoolInv'
  BY <1>13 DEF WaitForEmptyQueue, Ready
<1>14. ASSUME NEW c \in Clients, NEW s \in Schedulers, Construct(c, s)
      PROVE  PoolInv'
  BY <1>14 DEF Construct, Ready
<1>15. ASSUME NEW c \in Clients, NEW s \in Schedulers, Destroy(c, s)
      PROVE  PoolInv'
  BY <1>15 DEF Destroy, Ready
<1>16. ASSUME NEW c \in Clients, Timeout(c) PROVE PoolInv'
  BY <1>16 DEF Timeout, Return
<1>17. ASSUME NEW c \in Clients, NEW n, SetSharedThreadCount(c, n) PROVE PoolInv'
  <2>1. n \in Nat
    <3>1. n \in SharedCounts \/ n = 0
      BY <1>17 DEF SetSharedThreadCount
    <3>2. SharedCounts \subseteq Nat
      BY BoundAssumption
    <3>3. CASE n \in SharedCounts
      BY <3>2, <3>3, Zenon
    <3>4. CASE n = 0
      BY <3>4
    <3> QED BY <3>1, <3>3, <3>4, Zenon
  <2>2. SetThreadCount(c, n) /\ UNCHANGED <<fromShared, pool, allocCount, at>>
    BY <1>17 DEF SetSharedThreadCount
  <2> QED BY <2>1, <2>2, PoolResized
<1>18. ASSUME NEW t \in Workers, NEW s \in Schedulers, TakeJob(t, s)
      PROVE  PoolInv'
  BY <1>18, WakeWaitingMoves DEF TakeJob, EntersAssignJob
<1>19. ASSUME NEW t \in Workers, NEW s \in Schedulers, ParkPrivate(t, s)
      PROVE  PoolInv'
  BY <1>19, ParkMoves, ZenonT(30) DEF ParkPrivate, EntersAssignJob
<1>20. ASSUME NEW t \in Workers, NEW s \in Schedulers, LeaveRunning(t, s)
      PROVE  PoolInv'
  <2>1. /\ pc' = [WakeWaiting(s) EXCEPT ![t] = "stopStarving"]
        /\ at' = [at EXCEPT ![t] = s] /\ pc[t] = "loop"
        /\ UNCHANGED <<maxCount, pool, allocCount, fromShared>>
    BY <1>20 DEF LeaveRunning, EntersAssignJob
  <2>2. /\ pc'[t] = "stopStarving"
        /\ \A x \in Actors : x # t => pc'[x] = WakeWaiting(s)[x]
    BY <2>1, WakeWaitingMoves
  <2>3. \A u \in Workers : u # t => at'[u] = at[u]
    BY <2>1
  <2>4. /\ \A u \in Workers : u # t /\ pc'[u] # pc[u] =>
              pc[u] = "blockedSome" /\ pc'[u] = "wokenSome"
        /\ \A d \in Clients : pc'[d] = pc[d]
    BY <2>2, WakeWaitingMoves
  <2> QED BY <2>1, <2>2, <2>3, <2>4
<1>21. ASSUME NEW t \in Workers, StopStarvation(t) PROVE PoolInv'
  BY <1>21 DEF StopStarvation
<1>22. ASSUME NEW t \in Workers, Release(t) PROVE PoolInv'
  BY <1>22, PoolReleased
<1>23. ASSUME NEW t \in Workers, SelectStarving(t) PROVE PoolInv'
  <2>1. UNCHANGED <<maxCount, pool, allocCount>> /\ Lent' = Lent
    BY <1>23, LentEnded DEF SelectStarving
  <2>2. \A c \in Clients : pc[c] \in {"shrink", "join"} => pc'[c] \in {"shrink", "join"}
    <3>1. pc[t] = "select" /\ at[t] \in Schedulers
      BY <1>23 DEF SelectStarving, LockInv
    <3>2. CASE EndRelease(t, at[t])
      BY <3>1, <3>2, EndReleaseMoves
    <3>3. CASE ~EndRelease(t, at[t])
      BY <1>23, <3>3 DEF SelectStarving
    <3> QED BY <3>2, <3>3
  <2> QED BY <2>1, <2>2 DEF PoolInv
<1>24. ASSUME NEW t \in Workers, ThreadAvailable(t) PROVE PoolInv'
  BY <1>24 DEF ThreadAvailable
<1>25. ASSUME NEW t \in Workers, AllocateLoop(t) PROVE PoolInv'
  <2>1. notified[t] \in Schedulers /\ pc[t] = "allocate" /\ maxCount' = maxCount
    BY <1>25 DEF AllocateLoop, LockInv
  <2>2. CASE BorrowShared(notified[t]) /\ UNCHANGED <<pc, at>>
    BY <2>1, <2>2, PoolGranted
  <2>3. CASE Starve(t, notified[t])
    BY <1>25, <2>1, <2>3 DEF AllocateLoop, Starve, Hold
  <2>4. CASE UNCHANGED allocVars /\ Unlock(t, notified[t], "select") /\ UNCHANGED at
    BY <1>25, <2>1, <2>4 DEF AllocateLoop, Unlock
  <2> QED BY <1>25, <2>2, <2>3, <2>4 DEF AllocateLoop
<1>26. ASSUME NEW t \in Workers, AddStarving(t) PROVE PoolInv'
  BY <1>26 DEF AddStarving, Unlock, Actors
<1>27. ASSUME NEW t \in Workers, FinishJob(t) PROVE PoolInv'
  BY <1>27 DEF FinishJob
<1>28. ASSUME NEW t \in Workers, WaitForSomeJobs(t) PROVE PoolInv'
  BY <1>28 DEF WaitForSomeJobs, WakeIdle
<1>29. ASSUME NEW t \in Workers, EnterWaitForSome(t) PROVE PoolInv'
  BY <1>29 DEF EnterWaitForSome
<1>30. ASSUME NEW t \in Workers, LeaveWaitForSomeJobs(t) PROVE PoolInv'
  BY <1>30 DEF LeaveWaitForSomeJobs
<1>31. CASE UNCHANGED vars
  BY <1>31 DEF vars
<1> QED
  BY <1>1, <1>2, <1>3, <1>4, <1>5, <1>6, <1>7, <1>8, <1>9, <1>10, <1>11, <1>12,
     <1>13, <1>14, <1>15, <1>16, <1>17, <1>18, <1>19, <1>20, <1>21, <1>22, <1>23,
     <1>24, <1>25, <1>26, <1>27, <1>28, <1>29, <1>30, <1>31
  DEF Next, ClientContinues, ClientCalls, WorkerStep

\* A step that neither disowns a thread nor takes one out of the pool.
IdleKept ==
    /\ born' \subseteq born
    /\ \A t \in Workers : owner'[t] = None => owner[t] = None
    /\ pool \subseteq pool'
    /\ \A t \in Workers : pc[t] = "joinSelf" => pc'[t] = "joinSelf"
    /\ \A c \in Clients : pc[c] = "join" => pc'[c] = "join" /\ notified'[c] = notified[c]

(* Such a step keeps the invariant.                                        *)
LEMMA IdleFrame ==
    ASSUME ListType, IdleInv, IdleKept
    PROVE  IdleInv'
  BY DEF ListType, IdleInv, IdleKept

(* AllocateThread makes its scheduler the owner of the thread it takes.    *)
LEMMA IdleGranted ==
    ASSUME ListType, IdleInv, NEW s \in Schedulers, UNCHANGED <<pc, notified>>,
           RecycleSuspended(s) \/ CreatePrivate(s) \/ BorrowShared(s)
    PROVE  IdleInv'
<1>1. PICK t \in Workers :
         /\ owner' = [owner EXCEPT ![t] = s]
         /\ pool' = pool \/ pool' = pool \ {t}
         /\ born' \subseteq born \cup {t}
  <2>1. CASE RecycleSuspended(s)
    BY <2>1 DEF RecycleSuspended, StartRunning, ListType
  <2>2. CASE CreatePrivate(s)
    BY <2>2 DEF CreatePrivate, StartRunning
  <2>3. CASE BorrowShared(s)
    BY <2>3 DEF BorrowShared, RecycleShared, CreateShared, StartRunning
  <2> QED BY <2>1, <2>2, <2>3
<1>2. /\ owner'[t] = s /\ s # None
      /\ \A v \in Workers : v # t => owner'[v] = owner[v]
  BY <1>1, ActorsApart DEF ListType
<1>3. born \subseteq Workers
  BY DEF ListType
<1> QED BY <1>1, <1>2, <1>3 DEF IdleInv

(* A thread without an owner waits in the pool or for its end.             *)
LEMMA IdleInductive ==
    ASSUME SchedulerInv, IdleInv, [Next]_vars
    PROVE  IdleInv'
<1>0. ListType
  BY DEF SchedulerInv, ThreadInv
<1> USE <1>0, ActorsApart, IdleFrame
    DEF IdleKept, SchedulerInv, ControlInv, ControlType, ClientPlaces, allocVars,
        starveVars, eventVars, limitVars, jobVars, controlVars, countVars
<1>1. ASSUME NEW c \in Clients, AddStarving(c) PROVE IdleInv'
  BY <1>1 DEF AddStarving, Unlock, Actors
<1>2. ASSUME NEW c \in Clients, ResumeLoop(c) PROVE IdleInv'
  <2>1. at[c] \in Schedulers /\ UNCHANGED notified
    BY <1>2 DEF ResumeLoop
  <2>2. CASE Granted(at[c]) /\ UNCHANGED <<pc, at>>
    BY <2>1, <2>2, IdleGranted DEF Granted
  <2>3. CASE Starve(c, at[c])
    BY <1>2, <2>3 DEF ResumeLoop, Starve, Hold
  <2>4. CASE UNCHANGED allocVars /\ Unlock(c, at[c], "ready") /\ UNCHANGED at
    BY <1>2, <2>4 DEF ResumeLoop, Unlock
  <2> QED BY <1>2, <2>2, <2>3, <2>4 DEF ResumeLoop, Refused
<1>3. ASSUME NEW c \in Clients, CheckEmpty(c) PROVE IdleInv'
  <2>1. /\ UNCHANGED <<pool, owner, notified>> /\ born' \subseteq born
        /\ pc[c] \in {"check", "dtorCheck"}
    BY <1>3 DEF CheckEmpty, TerminatePrivate
  <2>2. \A x \in Actors : x # c => pc'[x] = pc[x]
    BY <1>3 DEF CheckEmpty, Return
  <2> QED BY <2>1, <2>2
<1>4. ASSUME NEW c \in Clients, EnterWait(c) PROVE IdleInv'
  BY <1>4 DEF EnterWait
<1>5. ASSUME NEW c \in Clients, DestroyStopStarvation(c) PROVE IdleInv'
  BY <1>5 DEF DestroyStopStarvation
<1>6. ASSUME NEW c \in Clients, UseAllCPUs(c) PROVE IdleInv'
  BY <1>6 DEF UseAllCPUs, SetThreadCount, Return
<1>7. ASSUME NEW c \in Clients, Shrink(c) PROVE IdleInv'
  <2>1. /\ UNCHANGED <<born, owner>> /\ pc[c] = "shrink" /\ poolMutex = c
        /\ \A x \in Actors : x # c => pc'[x] = pc[x]
        /\ \A x \in Actors : x # c => notified'[x] = notified[x]
    BY <1>7 DEF Shrink, Return, LockInv
  <2>2. CASE UNCHANGED pool
    BY <2>1, <2>2
  <2>3. ASSUME NEW v \in pool, pool' = pool \ {v}, pc' = [pc EXCEPT ![c] = "join"],
               notified' = [notified EXCEPT ![c] = v]
        PROVE  IdleInv'
    <3>1. pc'[c] = "join" /\ notified'[c] = v
      BY <2>3
    <3> QED BY <2>1, <2>3, <3>1 DEF IdleInv, ListType
  <2> QED BY <1>7, <2>2, <2>3 DEF Shrink
<1>8. ASSUME NEW c \in Clients, Join(c) PROVE IdleInv'
  <2>1. /\ UNCHANGED <<pool, owner>> /\ born' = born \ {notified[c]}
        /\ \A x \in Actors : x # c => pc'[x] = pc[x] /\ notified'[x] = notified[x]
    BY <1>8 DEF Join
  <2>2. ASSUME NEW v \in born', owner'[v] = None
        PROVE  \/ v \in pool'
               \/ pc'[v] = "joinSelf"
               \/ \E d \in Clients : pc'[d] = "join" /\ notified'[d] = v
    <3>1. v \in born /\ v \in Workers /\ v # notified[c] /\ owner[v] = None
      BY <2>1, <2>2 DEF ListType
    <3>2. \/ v \in pool
          \/ pc[v] = "joinSelf"
          \/ \E d \in Clients : pc[d] = "join" /\ notified[d] = v
      BY <3>1 DEF IdleInv
    <3> QED BY <2>1, <3>1, <3>2
  <2> QED BY <2>2 DEF IdleInv
<1>9. ASSUME NEW c \in Clients, NEW s \in Schedulers, NEW j \in Jobs, Schedule(c, s, j)
      PROVE  IdleInv'
  <2>1. CASE Granted(s) /\ UNCHANGED <<pc, at>>
    BY <1>9, <2>1, IdleGranted DEF Granted, Schedule
  <2>2. CASE Starve(c, s)
    BY <1>9, <2>2 DEF Schedule, Starve, Hold, Enters, Ready
  <2>3. CASE UNCHANGED allocVars /\ UNCHANGED <<pc, at>>
    BY <1>9, <2>3 DEF Schedule
  <2> QED BY <1>9, <2>1, <2>2, <2>3 DEF Schedule, Refused
<1>10. ASSUME NEW c \in Clients, NEW s \in Schedulers, NEW w \in Watermarks,
              NEW o \in BOOLEAN, RemoveJobFromQueue(c, s, w, o)
      PROVE  IdleInv'
  BY <1>10 DEF RemoveJobFromQueue, Enters, Ready
<1>11. ASSUME NEW c \in Clients, NEW s \in Schedulers, Stop(c, s) PROVE IdleInv'
  BY <1>11 DEF Stop
<1>12. ASSUME NEW c \in Clients, NEW s \in Schedulers, Resume(c, s) PROVE IdleInv'
  BY <1>12 DEF Resume, Enters, Ready, Hold
<1>13. ASSUME NEW c \in Clients, NEW s \in Schedulers, WaitForEmptyQueue(c, s)
      PROVE  IdleInv'
  BY <1>13 DEF WaitForEmptyQueue, Ready
<1>14. ASSUME NEW c \in Clients, NEW s \in Schedulers, Construct(c, s)
      PROVE  IdleInv'
  BY <1>14 DEF Construct, Ready
<1>15. ASSUME NEW c \in Clients, NEW s \in Schedulers, Destroy(c, s)
      PROVE  IdleInv'
  BY <1>15 DEF Destroy, Ready
<1>16. ASSUME NEW c \in Clients, Timeout(c) PROVE IdleInv'
  BY <1>16 DEF Timeout, Return
<1>17. ASSUME NEW c \in Clients, NEW n, SetSharedThreadCount(c, n) PROVE IdleInv'
  BY <1>17 DEF SetSharedThreadCount, SetThreadCount, Return, Ready
<1>18. ASSUME NEW t \in Workers, NEW s \in Schedulers, TakeJob(t, s)
      PROVE  IdleInv'
  BY <1>18, WakeWaitingMoves DEF TakeJob, EntersAssignJob
<1>19. ASSUME NEW t \in Workers, NEW s \in Schedulers, ParkPrivate(t, s)
      PROVE  IdleInv'
  BY <1>19, ParkMoves DEF ParkPrivate, EntersAssignJob
<1>20. ASSUME NEW t \in Workers, NEW s \in Schedulers, LeaveRunning(t, s)
      PROVE  IdleInv'
  <2>1. /\ pc' = [WakeWaiting(s) EXCEPT ![t] = "stopStarving"]
        /\ UNCHANGED <<pool, born, owner, notified>> /\ pc[t] = "loop"
    BY <1>20 DEF LeaveRunning, EntersAssignJob
  <2>2. /\ \A u \in Workers : pc[u] = "joinSelf" => pc'[u] = "joinSelf"
        /\ \A d \in Clients : pc'[d] = pc[d]
    BY <2>1, WakeWaitingMoves
  <2> QED BY <2>1, <2>2
<1>21. ASSUME NEW t \in Workers, StopStarvation(t) PROVE IdleInv'
  BY <1>21 DEF StopStarvation
<1>22. ASSUME NEW t \in Workers, Release(t) PROVE IdleInv'
  <2>1. /\ owner' = [owner EXCEPT ![t] = None]
        /\ UNCHANGED <<born, notified>> /\ at[t] \in Schedulers /\ pc[t] = "stopStarving"
    BY <1>22 DEF Release, LockInv, LeavingPlaces
  <2>2. \A x \in Actors : x # t /\ pc[x] \in {"joinSelf", "join"} => pc'[x] = pc[x]
    <3>1. CASE EndRelease(t, at[t])
      BY <2>1, <3>1, EndReleaseMoves
    <3>2. CASE ~EndRelease(t, at[t])
      BY <1>22, <3>2 DEF Release
    <3> QED BY <3>1, <3>2
  <2>3. pool' = pool \cup {t} \/ (pool' = pool /\ pc'[t] = "joinSelf")
    BY <1>22 DEF Release
  <2>4. \A v \in Workers : v # t => owner'[v] = owner[v]
    BY <2>1 DEF ListType
  <2>5. ASSUME NEW v \in born', owner'[v] = None
        PROVE  \/ v \in pool'
               \/ pc'[v] = "joinSelf"
               \/ \E d \in Clients : pc'[d] = "join" /\ notified'[d] = v
    <3>1. CASE v = t
      BY <2>3, <3>1
    <3>2. CASE v # t
      <4>1. v \in born /\ v \in Workers /\ owner[v] = None
        BY <2>1, <2>4, <2>5, <3>2 DEF ListType
      <4>2. \/ v \in pool
            \/ pc[v] = "joinSelf"
            \/ \E d \in Clients : pc[d] = "join" /\ notified[d] = v
        BY <4>1 DEF IdleInv
      <4> QED BY <2>1, <2>2, <2>3, <3>2, <4>1, <4>2
    <3> QED BY <3>1, <3>2
  <2> QED BY <2>5 DEF IdleInv
<1>23. ASSUME NEW t \in Workers, SelectStarving(t) PROVE IdleInv'
  <2>1. /\ UNCHANGED <<born, owner, pool>> /\ at[t] \in Schedulers
        /\ \A c \in Clients : notified'[c] = notified[c]
        /\ pc[t] = "select"
    BY <1>23 DEF SelectStarving, LockInv, LeavingPlaces
  <2>2. \A x \in Actors : x # t /\ pc[x] \in {"joinSelf", "join"} => pc'[x] = pc[x]
    <3>1. CASE EndRelease(t, at[t])
      BY <2>1, <3>1, EndReleaseMoves
    <3>2. CASE ~EndRelease(t, at[t])
      BY <1>23, <3>2 DEF SelectStarving
    <3> QED BY <3>1, <3>2
  <2> QED BY <2>1, <2>2
<1>24. ASSUME NEW t \in Workers, ThreadAvailable(t) PROVE IdleInv'
  BY <1>24 DEF ThreadAvailable
<1>25. ASSUME NEW t \in Workers, AllocateLoop(t) PROVE IdleInv'
  <2>1. notified[t] \in Schedulers /\ pc[t] = "allocate" /\ UNCHANGED notified
    BY <1>25 DEF AllocateLoop, LockInv
  <2>2. CASE BorrowShared(notified[t]) /\ UNCHANGED <<pc, at>>
    BY <2>1, <2>2, IdleGranted
  <2>3. CASE Starve(t, notified[t])
    BY <1>25, <2>1, <2>3 DEF AllocateLoop, Starve, Hold
  <2>4. CASE UNCHANGED allocVars /\ Unlock(t, notified[t], "select") /\ UNCHANGED at
    BY <1>25, <2>1, <2>4 DEF AllocateLoop, Unlock
  <2> QED BY <1>25, <2>2, <2>3, <2>4 DEF AllocateLoop
<1>26. ASSUME NEW t \in Workers, AddStarving(t) PROVE IdleInv'
  BY <1>26 DEF AddStarving, Unlock, Actors
<1>27. ASSUME NEW t \in Workers, FinishJob(t) PROVE IdleInv'
  BY <1>27 DEF FinishJob
<1>28. ASSUME NEW t \in Workers, WaitForSomeJobs(t) PROVE IdleInv'
  BY <1>28 DEF WaitForSomeJobs, WakeIdle
<1>29. ASSUME NEW t \in Workers, EnterWaitForSome(t) PROVE IdleInv'
  BY <1>29 DEF EnterWaitForSome
<1>30. ASSUME NEW t \in Workers, LeaveWaitForSomeJobs(t) PROVE IdleInv'
  BY <1>30 DEF LeaveWaitForSomeJobs
<1>31. CASE UNCHANGED vars
  BY <1>31 DEF vars
<1> QED
  BY <1>1, <1>2, <1>3, <1>4, <1>5, <1>6, <1>7, <1>8, <1>9, <1>10, <1>11, <1>12,
     <1>13, <1>14, <1>15, <1>16, <1>17, <1>18, <1>19, <1>20, <1>21, <1>22, <1>23,
     <1>24, <1>25, <1>26, <1>27, <1>28, <1>29, <1>30, <1>31
  DEF Next, ClientContinues, ClientCalls, WorkerStep

(* The pool starts empty.                                                  *)
LEMMA PoolInit == Init => PoolInv /\ IdleInv
<1> SUFFICES ASSUME Init PROVE PoolInv /\ IdleInv
  OBVIOUS
<1>1. \A s \in Schedulers : LentCount(s) = 0
  BY DEF Init, LentCount, ReturnedPlaces, LeavingPlaces, Actors
<1>2. Lent = {}
  BY <1>1 DEF Lent
<1>3. maxCount \in Nat /\ pool = {} /\ born = {} /\ allocCount = 0
  BY BoundAssumption DEF Init
<1> QED BY <1>2, <1>3, FS_EmptySet DEF PoolInv, IdleInv


(* ~CThreadPool: once every scheduler is destroyed and the size of the     *)
(* pool is set to zero, no thread is left, whatever the destructors, the   *)
(* releasing workers and changes of the pool's size did before.            *)
THEOREM NoThreadLeft == Spec => []AllThreadsJoined
<1>1. Init => PoolInv /\ IdleInv
  BY PoolInit
<1>2. ASSUME SchedulerInv, NoUseAfterDestruction, PoolInv, IdleInv PROVE AllThreadsJoined
  <2> SUFFICES ASSUME \A s \in Schedulers : life[s] = "dead",
                      maxCount = 0, poolMutex = None, NEW t \in born
               PROVE  FALSE
    BY DEF AllThreadsJoined
  <2>1. t \in Workers /\ owner[t] = None
    BY <1>2 DEF SchedulerInv, ThreadInv, ListType, NoUseAfterDestruction
  <2>2. \A c \in Clients : pc[c] \notin {"shrink", "join"}
    BY <1>2, ActorsApart DEF SchedulerInv, ControlInv, LockInv
  <2>3. pool = {}
    BY <1>2, <2>2 DEF PoolInv
  <2>4. pc[t] = "joinSelf"
    BY <1>2, <2>1, <2>2, <2>3 DEF IdleInv
  <2>5. at[t] \in Schedulers
    BY <1>2, <2>1, <2>4 DEF SchedulerInv, ControlInv, LockInv, LeavingPlaces
  <2>6. t \in Leaving(at[t])
    BY <2>1, <2>4 DEF Leaving
  <2> QED BY <1>2, <2>5, <2>6 DEF NoUseAfterDestruction
<1>3. /\ SchedulerInv /\ PoolInv /\ [Next]_vars => PoolInv'
      /\ SchedulerInv /\ IdleInv /\ [Next]_vars => IdleInv'
  BY PoolInductive, IdleInductive
<1> QED
  BY <1>1, <1>2, <1>3, DestroyedIsUnused, SchedulerInit, SchedulerInductive, PTL DEF Spec

-----------------------------------------------------------------------------
(***************************************************************************)
(* Types, and with them the counters that no list stands for:              *)
(* waitingThreads, and yetToCreate of the pool.                            *)
(***************************************************************************)

WaitingPlaces == {"waitSome", "blockedSome", "wokenSome"}

\* The workers inside WaitForSomeJobs of scheduler s.
WaitingIn(s) == {t \in Workers : owner[t] = s /\ pc[t] \in WaitingPlaces}

\* A worker that executes a job runs for its owner, which counts the ones
\* that wait.
WaitInv ==
    /\ waitingThreads \in [Schedulers -> Int]
    /\ \A t \in Workers : pc[t] \in ExecutingPlaces =>
          owner[t] \in Schedulers /\ t \in running[owner[t]]
    /\ \A s \in Schedulers :
          IsFiniteSet(WaitingIn(s)) /\ waitingThreads[s] = Cardinality(WaitingIn(s))

\* The variables no other invariant gives a type.
RestInv ==
    /\ emptyEvent \in [Schedulers -> BOOLEAN]
    /\ threadIsIdle \in [Schedulers -> BOOLEAN]
    /\ poolYetToCreate \in Nat
    /\ poolMutex \in Actors \cup {None}

\* A step by which nobody begins or ends to wait.
WaitKept ==
    /\ UNCHANGED waitingThreads
    /\ \A t \in Workers : pc[t] \in WaitingPlaces <=> pc'[t] \in WaitingPlaces
    /\ \A t \in Workers : pc[t] \in WaitingPlaces => owner'[t] = owner[t]
    /\ \A t \in Workers : pc'[t] \in ExecutingPlaces =>
          /\ owner'[t] \in Schedulers /\ t \in running'[owner'[t]]

(* Such a step keeps the count.                                            *)
LEMMA WaitFrame ==
    ASSUME WaitInv, WaitKept
    PROVE  WaitInv'
<1>1. \A s : WaitingIn(s)' = WaitingIn(s)
  BY DEF WaitingIn, WaitKept
<1>2. \A s \in Schedulers :
         IsFiniteSet(WaitingIn(s)') /\ waitingThreads'[s] = Cardinality(WaitingIn(s)')
  BY <1>1 DEF WaitInv, WaitKept
<1>3. waitingThreads' \in [Schedulers -> Int]
  BY DEF WaitInv, WaitKept
<1> QED BY <1>2, <1>3 DEF WaitInv, WaitKept

(* A thread that starts to run was not executing anything.                 *)
LEMMA WaitGranted ==
    ASSUME SchedulerInv, WaitInv, NEW s \in Schedulers, UNCHANGED <<pc, waitingThreads>>,
           RecycleSuspended(s) \/ CreatePrivate(s) \/ BorrowShared(s)
    PROVE  WaitInv'
<1> USE DEF SchedulerInv, ThreadInv
<1>1. PICK t \in Workers :
         /\ running' = [running EXCEPT ![s] = @ \cup {t}]
         /\ owner' = [owner EXCEPT ![t] = s]
         /\ \A u \in Schedulers : t \notin running[u]
  <2>1. CASE RecycleSuspended(s)
    BY <2>1 DEF RecycleSuspended, StartRunning, ListType, ListInv
  <2>2. CASE CreatePrivate(s)
    <3>1. PICK t \in Workers \ born : StartRunning(s, t)
      BY <2>2 DEF CreatePrivate
    <3>2. \A u \in Schedulers : t \notin running[u]
      BY <3>1 DEF ListInv, Listed
    <3> QED BY <3>1, <3>2 DEF StartRunning
  <2>3. CASE BorrowShared(s)
    <3>1. PICK t \in Workers : (RecycleShared(t) \/ CreateShared(t)) /\ StartRunning(s, t)
      BY <2>3 DEF BorrowShared
    <3>2. t \in pool \/ t \notin born
      BY <3>1 DEF RecycleShared, CreateShared
    <3>3. \A u \in Schedulers : t \notin running[u]
      BY <3>2 DEF ListInv, Listed
    <3> QED BY <3>1, <3>3 DEF StartRunning
  <2> QED BY <2>1, <2>2, <2>3
<1>2. \A v \in Workers : pc[v] \in ExecutingPlaces => v # t
  BY <1>1 DEF WaitInv
<1>3. /\ \A v \in Workers : v # t => owner'[v] = owner[v]
      /\ \A u \in Schedulers : running[u] \subseteq running'[u]
  BY <1>1 DEF ListType
<1>4. \A v \in Workers : pc[v] \in ExecutingPlaces =>
         owner'[v] = owner[v] /\ owner'[v] \in Schedulers /\ v \in running'[owner'[v]]
  BY <1>2, <1>3 DEF WaitInv
<1>5. WaitingPlaces \subseteq ExecutingPlaces
  BY DEF WaitingPlaces, ExecutingPlaces
<1>6. WaitKept
  BY <1>4, <1>5 DEF WaitKept
<1> QED BY <1>6, WaitFrame

(* Who leaves the running list was not executing.                          *)
LEMMA WaitLeft ==
    ASSUME SchedulerInv, WaitInv, NEW t \in Workers, NEW s \in Schedulers,
           pc[t] = "loop", UNCHANGED <<owner, waitingThreads>>,
           running' = [running EXCEPT ![s] = @ \ {t}],
           pc'[t] \notin ExecutingPlaces,
           \A v \in Workers : v # t /\ pc'[v] # pc[v] =>
              pc[v] = "blockedSome" /\ pc'[v] = "wokenSome"
    PROVE  WaitInv'
<1>1. \A v \in Workers : pc'[v] \in ExecutingPlaces => pc[v] \in ExecutingPlaces /\ v # t
  BY DEF ExecutingPlaces
<1>2. \A u \in Schedulers : running[u] \subseteq running'[u] \cup {t}
  BY DEF SchedulerInv, ThreadInv, ListType
<1>3. WaitKept
  BY <1>1, <1>2 DEF WaitKept, WaitInv, WaitingPlaces, ExecutingPlaces
<1> QED BY <1>3, WaitFrame

(* WaitForSomeJobs counts its caller ...                                   *)
LEMMA WaitBegins ==
    ASSUME SchedulerInv, WaitInv, NEW t \in Workers, WaitForSomeJobs(t)
    PROVE  WaitInv'
<1> USE ActorsApart DEF SchedulerInv, ControlInv, ControlType
<1>0. PICK s \in Schedulers : s = owner[t]
  BY DEF WaitForSomeJobs, WaitInv, ExecutingPlaces
<1>1. pc[t] = "execute" /\ owner' = owner /\ running' = running
  BY DEF WaitForSomeJobs, allocVars
<1>2. CASE /\ threadIsIdle' = [threadIsIdle EXCEPT ![s] = TRUE]
           /\ pc' = WakeIdle(s) /\ UNCHANGED waitingThreads
  <2>1. \A v \in Workers : pc'[v] # pc[v] => pc[v] = "blockedSome" /\ pc'[v] = "wokenSome"
    BY <1>2 DEF WakeIdle
  <2>2. WaitKept
    BY <1>1, <1>2, <2>1 DEF WaitKept, WaitInv, WaitingPlaces, ExecutingPlaces
  <2> QED BY <2>2, WaitFrame
<1>3. CASE /\ waitingThreads' = [waitingThreads EXCEPT ![s] = @ + 1]
           /\ pc' = [pc EXCEPT ![t] = "waitSome"]
  <2>1. /\ pc'[t] = "waitSome" /\ \A v \in Workers : v # t => pc'[v] = pc[v]
    BY <1>3
  <2>2. WaitingIn(s)' = WaitingIn(s) \cup {t} /\ t \notin WaitingIn(s)
    BY <1>0, <1>1, <2>1 DEF WaitingIn, WaitingPlaces
  <2>3. \A u \in Schedulers : u # s => WaitingIn(u)' = WaitingIn(u)
    BY <1>0, <1>1, <2>1 DEF WaitingIn
  <2>4. /\ IsFiniteSet(WaitingIn(s)')
        /\ Cardinality(WaitingIn(s)') = Cardinality(WaitingIn(s)) + 1
    <3>1. IsFiniteSet(WaitingIn(s))
      BY DEF WaitInv
    <3>2. /\ IsFiniteSet(WaitingIn(s) \cup {t})
          /\ Cardinality(WaitingIn(s) \cup {t}) = Cardinality(WaitingIn(s)) + 1
      BY <2>2, <3>1, FS_AddElement
    <3> QED BY <2>2, <3>2
  <2>5. /\ waitingThreads' \in [Schedulers -> Int]
        /\ waitingThreads'[s] = waitingThreads[s] + 1
        /\ \A u \in Schedulers : u # s => waitingThreads'[u] = waitingThreads[u]
    BY <1>3 DEF WaitInv
  <2>6. ASSUME NEW u \in Schedulers
        PROVE  IsFiniteSet(WaitingIn(u)') /\ waitingThreads'[u] = Cardinality(WaitingIn(u)')
    <3>1. IsFiniteSet(WaitingIn(u)) /\ waitingThreads[u] = Cardinality(WaitingIn(u))
      BY DEF WaitInv
    <3>2. CASE u = s
      BY <2>4, <2>5, <3>1, <3>2
    <3>3. CASE u # s
      BY <2>3, <2>5, <3>1, <3>3
    <3> QED BY <3>2, <3>3
  <2>7. \A v \in Workers : pc'[v] \in ExecutingPlaces =>
           owner'[v] \in Schedulers /\ v \in running'[owner'[v]]
    BY <1>1, <2>1 DEF WaitInv, ExecutingPlaces
  <2> QED BY <2>5, <2>6, <2>7 DEF WaitInv
<1> QED BY <1>0, <1>2, <1>3 DEF WaitForSomeJobs

(* ... and takes it out of the count at the end.                           *)
LEMMA WaitEnds ==
    ASSUME SchedulerInv, WaitInv, NEW t \in Workers, LeaveWaitForSomeJobs(t)
    PROVE  WaitInv'
<1> USE ActorsApart DEF SchedulerInv, ControlInv, ControlType
<1>0. PICK s \in Schedulers : s = owner[t]
  BY DEF LeaveWaitForSomeJobs, WaitInv, ExecutingPlaces
<1>1. /\ pc[t] = "wokenSome" /\ owner' = owner /\ running' = running
      /\ waitingThreads' = [waitingThreads EXCEPT ![s] = @ - 1]
      /\ pc'[t] = "execute" /\ \A v \in Workers : v # t => pc'[v] = pc[v]
  BY <1>0 DEF LeaveWaitForSomeJobs, allocVars
<1>2. WaitingIn(s)' = WaitingIn(s) \ {t} /\ t \in WaitingIn(s)
  BY <1>0, <1>1 DEF WaitingIn, WaitingPlaces
<1>3. \A u \in Schedulers : u # s => WaitingIn(u)' = WaitingIn(u)
  BY <1>0, <1>1 DEF WaitingIn
<1>4. /\ IsFiniteSet(WaitingIn(s)')
      /\ Cardinality(WaitingIn(s)') = Cardinality(WaitingIn(s)) - 1
  <2>1. IsFiniteSet(WaitingIn(s))
    BY DEF WaitInv
  <2>2. /\ IsFiniteSet(WaitingIn(s) \ {t})
        /\ Cardinality(WaitingIn(s) \ {t}) = Cardinality(WaitingIn(s)) - 1
    BY <1>2, <2>1, FS_RemoveElement
  <2> QED BY <1>2, <2>2
<1>5. /\ waitingThreads' \in [Schedulers -> Int]
      /\ waitingThreads'[s] = waitingThreads[s] - 1
      /\ \A u \in Schedulers : u # s => waitingThreads'[u] = waitingThreads[u]
  BY <1>1 DEF WaitInv
<1>6. ASSUME NEW u \in Schedulers
      PROVE  IsFiniteSet(WaitingIn(u)') /\ waitingThreads'[u] = Cardinality(WaitingIn(u)')
  <2>1. IsFiniteSet(WaitingIn(u)) /\ waitingThreads[u] = Cardinality(WaitingIn(u))
    BY DEF WaitInv
  <2>2. CASE u = s
    BY <1>4, <1>5, <2>1, <2>2
  <2>3. CASE u # s
    BY <1>3, <1>5, <2>1, <2>3
  <2> QED BY <2>2, <2>3
<1>7. \A v \in Workers : pc'[v] \in ExecutingPlaces =>
         owner'[v] \in Schedulers /\ v \in running'[owner'[v]]
  BY <1>1 DEF WaitInv, ExecutingPlaces
<1> QED BY <1>5, <1>6, <1>7 DEF WaitInv

(* The number of waiting workers is right at every step.                   *)
LEMMA WaitInductive ==
    ASSUME SchedulerInv, WaitInv, [Next]_vars
    PROVE  WaitInv'
<1> USE ActorsApart, WaitFrame
    DEF WaitKept, WaitInv, WaitingPlaces, ExecutingPlaces, SchedulerInv, ControlInv,
        ControlType, ClientPlaces, allocVars, starveVars, eventVars, limitVars, jobVars,
        controlVars, countVars
<1>1. ASSUME NEW c \in Clients, AddStarving(c) PROVE WaitInv'
  BY <1>1 DEF AddStarving, Unlock, Actors
<1>2. ASSUME NEW c \in Clients, ResumeLoop(c) PROVE WaitInv'
  <2>1. at[c] \in Schedulers /\ UNCHANGED waitingThreads
    BY <1>2 DEF ResumeLoop
  <2>2. CASE Granted(at[c]) /\ UNCHANGED <<pc, at>>
    BY <2>1, <2>2, WaitGranted DEF Granted
  <2>3. CASE Starve(c, at[c])
    BY <1>2, <2>3 DEF ResumeLoop, Starve, Hold
  <2>4. CASE UNCHANGED allocVars /\ Unlock(c, at[c], "ready") /\ UNCHANGED at
    BY <1>2, <2>4 DEF ResumeLoop, Unlock
  <2> QED BY <1>2, <2>2, <2>3, <2>4 DEF ResumeLoop, Refused
<1>3. ASSUME NEW c \in Clients, CheckEmpty(c) PROVE WaitInv'
  BY <1>3 DEF CheckEmpty, Return
<1>4. ASSUME NEW c \in Clients, EnterWait(c) PROVE WaitInv'
  BY <1>4 DEF EnterWait
<1>5. ASSUME NEW c \in Clients, DestroyStopStarvation(c) PROVE WaitInv'
  BY <1>5 DEF DestroyStopStarvation
<1>6. ASSUME NEW c \in Clients, UseAllCPUs(c) PROVE WaitInv'
  BY <1>6 DEF UseAllCPUs, SetThreadCount, Return
<1>7. ASSUME NEW c \in Clients, Shrink(c) PROVE WaitInv'
  BY <1>7 DEF Shrink, Return
<1>8. ASSUME NEW c \in Clients, Join(c) PROVE WaitInv'
  BY <1>8 DEF Join
<1>9. ASSUME NEW c \in Clients, NEW s \in Schedulers, NEW j \in Jobs, Schedule(c, s, j)
      PROVE  WaitInv'
  <2>1. CASE Granted(s) /\ UNCHANGED <<pc, at>>
    BY <1>9, <2>1, WaitGranted DEF Granted, Schedule
  <2>2. CASE Starve(c, s)
    BY <1>9, <2>2 DEF Schedule, Starve, Hold, Enters, Ready
  <2>3. CASE UNCHANGED allocVars /\ UNCHANGED <<pc, at>>
    BY <1>9, <2>3 DEF Schedule
  <2> QED BY <1>9, <2>1, <2>2, <2>3 DEF Schedule, Refused
<1>10. ASSUME NEW c \in Clients, NEW s \in Schedulers, NEW w \in Watermarks,
              NEW o \in BOOLEAN, RemoveJobFromQueue(c, s, w, o)
      PROVE  WaitInv'
  BY <1>10 DEF RemoveJobFromQueue, Enters, Ready
<1>11. ASSUME NEW c \in Clients, NEW s \in Schedulers, Stop(c, s) PROVE WaitInv'
  BY <1>11 DEF Stop
<1>12. ASSUME NEW c \in Clients, NEW s \in Schedulers, Resume(c, s) PROVE WaitInv'
  BY <1>12 DEF Resume, Enters, Ready, Hold
<1>13. ASSUME NEW c \in Clients, NEW s \in Schedulers, WaitForEmptyQueue(c, s)
      PROVE  WaitInv'
  BY <1>13 DEF WaitForEmptyQueue, Ready
<1>14. ASSUME NEW c \in Clients, NEW s \in Schedulers, Construct(c, s)
      PROVE  WaitInv'
  BY <1>14 DEF Construct, Ready
<1>15. ASSUME NEW c \in Clients, NEW s \in Schedulers, Destroy(c, s)
      PROVE  WaitInv'
  BY <1>15 DEF Destroy, Ready
<1>16. ASSUME NEW c \in Clients, Timeout(c) PROVE WaitInv'
  BY <1>16 DEF Timeout, Return
<1>17. ASSUME NEW c \in Clients, NEW n, SetSharedThreadCount(c, n) PROVE WaitInv'
  BY <1>17 DEF SetSharedThreadCount, SetThreadCount, Return, Ready
<1>18. ASSUME NEW t \in Workers, NEW s \in Schedulers, TakeJob(t, s)
      PROVE  WaitInv'
  <2>1. /\ UNCHANGED <<waitingThreads, owner, running>> /\ pc[t] = "loop"
        /\ owner[t] \in Schedulers /\ t \in running[owner[t]]
    BY <1>18 DEF TakeJob, EntersAssignJob, ThreadInv, OwnerInv
  <2>2. /\ pc'[t] = "execute"
        /\ \A u \in Workers : u # t /\ pc'[u] # pc[u] =>
              pc[u] = "blockedSome" /\ pc'[u] = "wokenSome"
    BY <1>18, WakeWaitingMoves DEF TakeJob
  <2> QED BY <2>1, <2>2
<1>19. ASSUME NEW t \in Workers, NEW s \in Schedulers, ParkPrivate(t, s)
      PROVE  WaitInv'
  <2>1. /\ running' = [running EXCEPT ![s] = @ \ {t}] /\ pc[t] = "loop"
        /\ UNCHANGED <<owner, waitingThreads>>
    BY <1>19 DEF ParkPrivate, EntersAssignJob
  <2>2. \A v \in Workers : pc'[v] # pc[v] => pc[v] = "blockedSome" /\ pc'[v] = "wokenSome"
    BY <1>19, ParkMoves
  <2>3. pc'[t] \notin ExecutingPlaces
    BY <2>1, <2>2
  <2> HIDE DEF WaitInv, ExecutingPlaces
  <2> QED BY <2>1, <2>2, <2>3, WaitLeft
<1>20. ASSUME NEW t \in Workers, NEW s \in Schedulers, LeaveRunning(t, s)
      PROVE  WaitInv'
  <2>1. /\ running' = [running EXCEPT ![s] = @ \ {t}] /\ pc[t] = "loop"
        /\ UNCHANGED <<owner, waitingThreads>>
    BY <1>20 DEF LeaveRunning, EntersAssignJob
  <2>2. /\ pc'[t] = "stopStarving"
        /\ \A v \in Workers : v # t /\ pc'[v] # pc[v] =>
              pc[v] = "blockedSome" /\ pc'[v] = "wokenSome"
    BY <1>20, WakeWaitingMoves DEF LeaveRunning
  <2>3. pc'[t] \notin ExecutingPlaces
    BY <2>2
  <2> HIDE DEF WaitInv, ExecutingPlaces
  <2> QED BY <2>1, <2>2, <2>3, WaitLeft
<1>21. ASSUME NEW t \in Workers, StopStarvation(t) PROVE WaitInv'
  BY <1>21 DEF StopStarvation
<1>22. ASSUME NEW t \in Workers, Release(t) PROVE WaitInv'
  <2>1. /\ owner' = [owner EXCEPT ![t] = None] /\ UNCHANGED <<running, waitingThreads>>
        /\ at[t] \in Schedulers /\ pc[t] = "stopStarving"
    BY <1>22 DEF Release, LockInv, LeavingPlaces
  <2>2. /\ \A v \in Workers : v # t => pc'[v] = pc[v]
        /\ pc'[t] \in {"loop", "select", "joinSelf"}
    <3>1. CASE EndRelease(t, at[t])
      BY <2>1, <3>1, EndReleaseMoves
    <3>2. CASE ~EndRelease(t, at[t])
      BY <1>22, <3>2 DEF Release
    <3> QED BY <3>1, <3>2
  <2>3. \A v \in Workers : v # t => owner'[v] = owner[v]
    BY <2>1 DEF ThreadInv, ListType
  <2> QED BY <2>1, <2>2, <2>3
<1>23. ASSUME NEW t \in Workers, SelectStarving(t) PROVE WaitInv'
  <2>1. /\ UNCHANGED <<owner, running, waitingThreads>> /\ at[t] \in Schedulers
        /\ pc[t] = "select"
    BY <1>23 DEF SelectStarving, LockInv, LeavingPlaces
  <2>2. /\ \A v \in Workers : v # t => pc'[v] = pc[v]
        /\ pc'[t] \in {"loop", "notify"}
    <3>1. CASE EndRelease(t, at[t])
      BY <2>1, <3>1, EndReleaseMoves
    <3>2. CASE ~EndRelease(t, at[t])
      BY <1>23, <3>2 DEF SelectStarving
    <3> QED BY <3>1, <3>2
  <2> QED BY <2>1, <2>2
<1>24. ASSUME NEW t \in Workers, ThreadAvailable(t) PROVE WaitInv'
  BY <1>24 DEF ThreadAvailable
<1>25. ASSUME NEW t \in Workers, AllocateLoop(t) PROVE WaitInv'
  <2>1. notified[t] \in Schedulers /\ pc[t] = "allocate" /\ UNCHANGED waitingThreads
    BY <1>25 DEF AllocateLoop, LockInv
  <2>2. CASE BorrowShared(notified[t]) /\ UNCHANGED <<pc, at>>
    BY <2>1, <2>2, WaitGranted
  <2>3. CASE Starve(t, notified[t])
    BY <1>25, <2>1, <2>3 DEF AllocateLoop, Starve, Hold
  <2>4. CASE UNCHANGED allocVars /\ Unlock(t, notified[t], "select") /\ UNCHANGED at
    BY <1>25, <2>1, <2>4 DEF AllocateLoop, Unlock
  <2> QED BY <1>25, <2>2, <2>3, <2>4 DEF AllocateLoop
<1>26. ASSUME NEW t \in Workers, AddStarving(t) PROVE WaitInv'
  BY <1>26 DEF AddStarving, Unlock, Actors
<1>27. ASSUME NEW t \in Workers, FinishJob(t) PROVE WaitInv'
  BY <1>27 DEF FinishJob
<1>28. ASSUME NEW t \in Workers, WaitForSomeJobs(t) PROVE WaitInv'
  BY <1>28, WaitBegins
<1>29. ASSUME NEW t \in Workers, EnterWaitForSome(t) PROVE WaitInv'
  BY <1>29 DEF EnterWaitForSome
<1>30. ASSUME NEW t \in Workers, LeaveWaitForSomeJobs(t) PROVE WaitInv'
  BY <1>30, WaitEnds
<1>31. CASE UNCHANGED vars
  BY <1>31 DEF vars
<1> QED
  BY <1>1, <1>2, <1>3, <1>4, <1>5, <1>6, <1>7, <1>8, <1>9, <1>10, <1>11, <1>12,
     <1>13, <1>14, <1>15, <1>16, <1>17, <1>18, <1>19, <1>20, <1>21, <1>22, <1>23,
     <1>24, <1>25, <1>26, <1>27, <1>28, <1>29, <1>30, <1>31
  DEF Next, ClientContinues, ClientCalls, WorkerStep

(* SetThreadCount allows no negative number of threads.                    *)
LEMMA RestResized ==
    ASSUME SchedulerInv, PoolInv, RestInv, NEW c \in Clients, NEW count \in Nat,
           SetThreadCount(c, count), UNCHANGED <<emptyEvent, threadIsIdle>>
    PROVE  RestInv'
<1>1. Cardinality(pool) \in Nat /\ allocCount \in Nat
  BY FS_CardinalityType DEF PoolInv
<1>2. poolYetToCreate' \in Nat
  <2>1. CASE PoolThreads < count
    <3>1. poolYetToCreate' = count - Cardinality(pool) + allocCount
      BY <2>1 DEF SetThreadCount
    <3>2. count - Cardinality(pool) + allocCount \in Nat
      BY <1>1, <2>1 DEF PoolThreads
    <3> QED BY <3>1, <3>2
  <2>2. CASE ~(PoolThreads < count)
    BY <2>2 DEF SetThreadCount, RestInv
  <2> QED BY <2>1, <2>2
<1>3. poolMutex' \in Actors \cup {None}
  BY ActorsApart DEF SetThreadCount, RestInv
<1> QED BY <1>2, <1>3 DEF RestInv

(* So are the events and what is left of the pool's size.                  *)
LEMMA RestInductive ==
    ASSUME SchedulerInv, PoolInv, RestInv, WaitInv, [Next]_vars
    PROVE  RestInv'
<1> USE ActorsApart
    DEF RestInv, SchedulerInv, ControlInv, ControlType, ClientPlaces, allocVars,
        starveVars, eventVars, limitVars, jobVars, controlVars, countVars
<1>1. ASSUME NEW c \in Clients, AddStarving(c) PROVE RestInv'
  BY <1>1 DEF AddStarving, Unlock, Actors
<1>2. ASSUME NEW c \in Clients, ResumeLoop(c) PROVE RestInv'
  BY <1>2 DEF ResumeLoop, Granted, Refused, Starve, RecycleSuspended, CreatePrivate,
              BorrowShared, RecycleShared, CreateShared
<1>3. ASSUME NEW c \in Clients, CheckEmpty(c) PROVE RestInv'
  BY <1>3 DEF CheckEmpty, Return
<1>4. ASSUME NEW c \in Clients, EnterWait(c) PROVE RestInv'
  BY <1>4 DEF EnterWait
<1>5. ASSUME NEW c \in Clients, DestroyStopStarvation(c) PROVE RestInv'
  BY <1>5 DEF DestroyStopStarvation
<1>6. ASSUME NEW c \in Clients, UseAllCPUs(c) PROVE RestInv'
  <2>1. SetThreadCount(c, HWThreadCount) /\ UNCHANGED <<emptyEvent, threadIsIdle>>
    BY <1>6 DEF UseAllCPUs
  <2> QED BY <2>1, RestResized, BoundAssumption
<1>7. ASSUME NEW c \in Clients, Shrink(c) PROVE RestInv'
  BY <1>7 DEF Shrink, Return
<1>8. ASSUME NEW c \in Clients, Join(c) PROVE RestInv'
  BY <1>8 DEF Join
<1>9. ASSUME NEW c \in Clients, NEW s \in Schedulers, NEW j \in Jobs, Schedule(c, s, j)
      PROVE  RestInv'
  <2>1. /\ emptyEvent' = [emptyEvent EXCEPT ![s] = @ /\ queue[s] # <<>>]
        /\ UNCHANGED <<threadIsIdle, poolMutex>>
    BY <1>9 DEF Schedule
  <2>2. emptyEvent' \in [Schedulers -> BOOLEAN]
    BY <2>1
  <2>3. poolYetToCreate' \in Nat
    BY <1>9 DEF Schedule, Granted, Refused, Starve, RecycleSuspended, CreatePrivate,
                BorrowShared, RecycleShared, CreateShared
  <2> QED BY <2>1, <2>2, <2>3
<1>10. ASSUME NEW c \in Clients, NEW s \in Schedulers, NEW w \in Watermarks,
              NEW o \in BOOLEAN, RemoveJobFromQueue(c, s, w, o)
      PROVE  RestInv'
  BY <1>10 DEF RemoveJobFromQueue, Enters, Ready
<1>11. ASSUME NEW c \in Clients, NEW s \in Schedulers, Stop(c, s) PROVE RestInv'
  BY <1>11 DEF Stop
<1>12. ASSUME NEW c \in Clients, NEW s \in Schedulers, Resume(c, s) PROVE RestInv'
  BY <1>12 DEF Resume, Enters, Ready, Hold
<1>13. ASSUME NEW c \in Clients, NEW s \in Schedulers, WaitForEmptyQueue(c, s)
      PROVE  RestInv'
  BY <1>13 DEF WaitForEmptyQueue, Ready
<1>14. ASSUME NEW c \in Clients, NEW s \in Schedulers, Construct(c, s)
      PROVE  RestInv'
  BY <1>14 DEF Construct, Ready
<1>15. ASSUME NEW c \in Clients, NEW s \in Schedulers, Destroy(c, s)
      PROVE  RestInv'
  BY <1>15 DEF Destroy, Ready
<1>16. ASSUME NEW c \in Clients, Timeout(c) PROVE RestInv'
  BY <1>16 DEF Timeout, Return
<1>17. ASSUME NEW c \in Clients, NEW n, SetSharedThreadCount(c, n) PROVE RestInv'
  <2>1. n \in Nat
    <3>1. n \in SharedCounts \/ n = 0
      BY <1>17 DEF SetSharedThreadCount
    <3>2. SharedCounts \subseteq Nat
      BY BoundAssumption
    <3>3. CASE n \in SharedCounts
      BY <3>2, <3>3, Zenon
    <3>4. CASE n = 0
      BY <3>4
    <3> QED BY <3>1, <3>3, <3>4, Zenon
  <2>2. SetThreadCount(c, n) /\ UNCHANGED <<emptyEvent, threadIsIdle>>
    BY <1>17 DEF SetSharedThreadCount
  <2> QED BY <2>1, <2>2, RestResized
<1>18. ASSUME NEW t \in Workers, NEW s \in Schedulers, TakeJob(t, s)
      PROVE  RestInv'
  <2>1. /\ threadIsIdle' = [threadIsIdle EXCEPT ![s] = @ \/ waitingThreads[s] > 0]
        /\ UNCHANGED <<poolMutex, poolYetToCreate>>
        /\ emptyEvent' = emptyEvent
    BY <1>18 DEF TakeJob, EntersAssignJob
  <2>2. threadIsIdle' \in [Schedulers -> BOOLEAN]
    BY <2>1
  <2> QED BY <2>1, <2>2
<1>19. ASSUME NEW t \in Workers, NEW s \in Schedulers, ParkPrivate(t, s)
      PROVE  RestInv'
  <2>1. /\ threadIsIdle' = [threadIsIdle EXCEPT ![s] = @ \/ waitingThreads[s] > 0]
        /\ UNCHANGED <<poolMutex, poolYetToCreate>>
        /\ emptyEvent' = emptyEvent \/ emptyEvent' = [emptyEvent EXCEPT ![s] = TRUE]
    BY <1>19 DEF ParkPrivate, Retire, EntersAssignJob
  <2>2. threadIsIdle' \in [Schedulers -> BOOLEAN]
    BY <2>1
  <2> QED BY <2>1, <2>2
<1>20. ASSUME NEW t \in Workers, NEW s \in Schedulers, LeaveRunning(t, s)
      PROVE  RestInv'
  <2>1. /\ threadIsIdle' = [threadIsIdle EXCEPT ![s] = @ \/ waitingThreads[s] > 0]
        /\ UNCHANGED <<poolMutex, poolYetToCreate>>
        /\ emptyEvent' = emptyEvent
    BY <1>20 DEF LeaveRunning, EntersAssignJob
  <2>2. threadIsIdle' \in [Schedulers -> BOOLEAN]
    BY <2>1
  <2> QED BY <2>1, <2>2
<1>21. ASSUME NEW t \in Workers, StopStarvation(t) PROVE RestInv'
  BY <1>21 DEF StopStarvation
<1>22. ASSUME NEW t \in Workers, Release(t) PROVE RestInv'
  BY <1>22 DEF Release, EndRelease, Retire
<1>23. ASSUME NEW t \in Workers, SelectStarving(t) PROVE RestInv'
  BY <1>23 DEF SelectStarving, EndRelease, Retire
<1>24. ASSUME NEW t \in Workers, ThreadAvailable(t) PROVE RestInv'
  BY <1>24 DEF ThreadAvailable
<1>25. ASSUME NEW t \in Workers, AllocateLoop(t) PROVE RestInv'
  BY <1>25 DEF AllocateLoop, Starve, BorrowShared, RecycleShared, CreateShared
<1>26. ASSUME NEW t \in Workers, AddStarving(t) PROVE RestInv'
  BY <1>26 DEF AddStarving, Unlock, Actors
<1>27. ASSUME NEW t \in Workers, FinishJob(t) PROVE RestInv'
  BY <1>27 DEF FinishJob
<1>28. ASSUME NEW t \in Workers, WaitForSomeJobs(t) PROVE RestInv'
  BY <1>28 DEF WaitForSomeJobs
<1>29. ASSUME NEW t \in Workers, EnterWaitForSome(t) PROVE RestInv'
  BY <1>29 DEF EnterWaitForSome
<1>30. ASSUME NEW t \in Workers, LeaveWaitForSomeJobs(t) PROVE RestInv'
  BY <1>30 DEF LeaveWaitForSomeJobs
<1>31. CASE UNCHANGED vars
  BY <1>31 DEF vars
<1> QED
  BY <1>1, <1>2, <1>3, <1>4, <1>5, <1>6, <1>7, <1>8, <1>9, <1>10, <1>11, <1>12,
     <1>13, <1>14, <1>15, <1>16, <1>17, <1>18, <1>19, <1>20, <1>21, <1>22, <1>23,
     <1>24, <1>25, <1>26, <1>27, <1>28, <1>29, <1>30, <1>31
  DEF Next, ClientContinues, ClientCalls, WorkerStep

(* Type correctness: in particular no counter of a scheduler or of the     *)
(* pool runs below zero, neither those that CountersAgree relates to lists *)
(* nor waitingThreads (WaitForSomeJobs), allocCount and yetToCreate of the *)
(* pool (TryAlloc, Release, SetThreadCount).                               *)
THEOREM SchedulerTypeCorrect == Spec => []TypeOK
<1>1. Init => WaitInv /\ RestInv
  <2> SUFFICES ASSUME Init PROVE WaitInv /\ RestInv
    OBVIOUS
  <2>1. \A s : WaitingIn(s) = {}
    BY DEF Init, WaitingIn, WaitingPlaces, Actors
  <2>2. RestInv
    BY BoundAssumption DEF Init, RestInv
  <2>3. waitingThreads = [s \in Schedulers |-> 0]
        /\ \A t \in Workers : pc[t] \notin ExecutingPlaces
    BY ActorsApart DEF Init, ExecutingPlaces
  <2> QED BY <2>1, <2>2, <2>3, FS_EmptySet DEF WaitInv
<1>2. ASSUME SchedulerInv, JobsInv, StarveInv, StallInv, PoolInv, WaitInv, RestInv
      PROVE  TypeOK
  <2> USE <1>2
  <2>1. /\ running \in [Schedulers -> SUBSET Workers]
        /\ suspended \in [Schedulers -> SUBSET Workers]
        /\ pool \in SUBSET Workers /\ born \in SUBSET Workers
        /\ owner \in [Workers -> Schedulers \cup {None}]
        /\ asleep \in [Workers -> BOOLEAN]
    BY DEF SchedulerInv, ThreadInv, ListType
  <2>2. /\ runningCount \in [Schedulers -> Nat] /\ suspendedCount \in [Schedulers -> Nat]
        /\ yetToCreate \in [Schedulers -> Nat] /\ fromShared \in [Schedulers -> Nat]
        /\ unusedCount \in [Schedulers -> Nat]
    <3>1. \A s \in Schedulers :
             /\ runningCount[s] \in Nat /\ suspendedCount[s] \in Nat
             /\ yetToCreate[s] \in Nat /\ fromShared[s] \in Nat /\ unusedCount[s] \in Nat
      <4> SUFFICES ASSUME NEW s \in Schedulers
                   PROVE  /\ runningCount[s] \in Nat /\ suspendedCount[s] \in Nat
                          /\ yetToCreate[s] \in Nat /\ fromShared[s] \in Nat
                          /\ unusedCount[s] \in Nat
        OBVIOUS
      <4>1. /\ IsFiniteSet(running[s])
            /\ runningCount[s] = Cardinality(running[s]) + LeavingCount(s)
            /\ unusedCount[s] = suspendedCount[s] + yetToCreate[s]
                                   + SharedThreads[s] - fromShared[s]
            /\ suspendedCount[s] >= 0 /\ yetToCreate[s] >= 0
            /\ 0 <= fromShared[s] /\ fromShared[s] <= SharedThreads[s]
        BY DEF SchedulerInv, ThreadInv, CountInv
      <4>2. /\ suspendedCount[s] \in Int /\ yetToCreate[s] \in Int /\ fromShared[s] \in Int
            /\ SharedThreads[s] \in Nat
        BY ConstructorAssumption DEF SchedulerInv, ThreadInv, ListType
      <4>3. Cardinality(running[s]) \in Nat /\ LeavingCount(s) \in {0, 1}
        BY <4>1, FS_CardinalityType DEF LeavingCount
      <4> QED BY <4>1, <4>2, <4>3
    <3> QED BY <3>1 DEF SchedulerInv, ThreadInv, ListType
  <2>3. waitingThreads \in [Schedulers -> Nat]
    <3>1. \A s \in Schedulers : waitingThreads[s] \in Nat
      BY FS_CardinalityType DEF WaitInv
    <3> QED BY <3>1 DEF WaitInv
  <2>4. allocCount \in Nat /\ maxCount \in Nat
    BY FS_CardinalityType DEF PoolInv
  <2>5. /\ queue \in [Schedulers -> Seq(Jobs)] /\ job \in [Workers -> Jobs \cup {None}]
        /\ fate \in [Jobs -> {"new", "queued", "executing", "done", "dropped", "abandoned"}]
        /\ stopCount \in [Schedulers -> Nat]
    BY DEF JobsInv, StallInv
  <2>6. starved \in [Schedulers -> BOOLEAN]
    BY DEF StarveInv
  <2>7. ControlType
    BY DEF SchedulerInv, ControlInv
  <2>8. RestInv
    OBVIOUS
  <2> QED BY <2>1, <2>2, <2>3, <2>4, <2>5, <2>6, <2>7, <2>8 DEF TypeOK, ControlType, RestInv
<1>3. /\ SchedulerInv /\ JobsInv /\ [Next]_vars => JobsInv'
      /\ SchedulerInv /\ StarveInv /\ [Next]_vars => StarveInv'
      /\ SchedulerInv /\ PoolInv /\ [Next]_vars => PoolInv'
      /\ SchedulerInv /\ WaitInv /\ [Next]_vars => WaitInv'
      /\ SchedulerInv /\ PoolInv /\ RestInv /\ WaitInv /\ [Next]_vars => RestInv'
  BY JobsInductive, StarveInductive, PoolInductive, WaitInductive, RestInductive
<1>4. SchedulerInv /\ JobsInv /\ StallInv /\ [Next]_vars => StallInv'
  BY StallInductive
<1> QED
  BY <1>1, <1>2, <1>3, <1>4, StallInit, PoolInit, JobsInit, StarveInit,
     SchedulerInit, SchedulerInductive, PTL DEF Spec

=============================================================================
