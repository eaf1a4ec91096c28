----------------------------- MODULE JobProofs ------------------------------
(***************************************************************************)
(* Proofs about JobBase, the safety of a job's life for any number of      *)
(* observing threads and event handles, and about JobQueue, the buffer it  *)
(* waits in, for every number of jobs and every initial size.              *)
(***************************************************************************)
EXTENDS JobBase, JobQueue, SequenceTheorems, TLAPS

\* Where the methods return to.
ReturnPlaces == {"end", "clearScheduled", "unscheduled", "waitDone", "waited",
                 "deleteWait", "deleteNow"}

TypeInv == TypeOK /\ ret \in [Actors -> ReturnPlaces]

(* The actors are different.                                               *)
LEMMA ActorFacts ==
    /\ Scheduler \in Actors /\ Owner \in Actors
    /\ \A x \in Observers : x \in Actors /\ x # Scheduler /\ x # Owner
    /\ Scheduler # Owner
  BY JobActorAssumption DEF Actors

(* The methods of the one-shot event and Execute keep every variable in    *)
(* its type.                                                               *)
LEMMA MethodType ==
    ASSUME TypeInv, NEW x \in Actors, MethodStep(x)
    PROVE  TypeInv'
<1> USE DEF TypeInv, TypeOK, ReturnPlaces, Places, Goto, Return, At,
            flagVars, eventVars, jobVars
<1>1. CASE Claim(x)
  BY <1>1 DEF Claim
<1>2. CASE Run(x)
  BY <1>2 DEF Run
<1>3. CASE SetDone(x)
  BY <1>3 DEF SetDone, Raise, Events
<1>4. CASE SignalDone(x)
  BY <1>4, JobHandleAssumption DEF SignalDone, Signal, Events
<1>5. CASE TestScheduled(x)
  BY <1>5 DEF TestScheduled
<1>6. CASE SetDeletable(x)
  BY <1>6 DEF SetDeletable, Raise, Events
<1>7. CASE SignalDeletable(x)
  BY <1>7, JobHandleAssumption DEF SignalDeletable, Signal, Events
<1>8. CASE WaitTest(x)
  BY <1>8 DEF WaitTest
<1>9. CASE AutoAllocTest(x)
  BY <1>9 DEF AutoAllocTest
<1>10. CASE AutoAllocAssign(x)
  BY <1>10 DEF AutoAllocAssign
<1>11. CASE WaitRetest(x)
  BY <1>11 DEF WaitRetest
<1>12. CASE Unblock(x)
  BY <1>12 DEF Unblock
<1> QED
  BY <1>1, <1>2, <1>3, <1>4, <1>5, <1>6, <1>7, <1>8, <1>9, <1>10, <1>11, <1>12
  DEF MethodStep, Execute

(* So does every other step.                                               *)
LEMMA TypeInductive ==
    ASSUME TypeInv, [Next]_vars
    PROVE  TypeInv'
<1> USE ActorFacts DEF TypeInv, TypeOK, ReturnPlaces, Places, Goto, Return, Call, At,
                       flagVars, eventVars, jobVars
<1>1. CASE SchedulerStep
  <2>1. CASE TakeFromQueue
    BY <2>1 DEF TakeFromQueue
  <2>2. CASE ClearScheduled
    BY <2>2 DEF ClearScheduled
  <2>3. CASE TestDone
    BY <2>3 DEF TestDone
  <2>4. CASE DisposeOwned
    BY <2>4 DEF DisposeOwned
  <2> QED BY <1>1, <2>1, <2>2, <2>3, <2>4 DEF SchedulerStep
<1>2. CASE Terminate
  BY <1>2 DEF Terminate
<1>3. ASSUME NEW x \in Observers \cup {Owner}, WaitUntilDone(x) PROVE TypeInv'
  BY <1>3 DEF WaitUntilDone
<1>4. ASSUME NEW x \in Observers \cup {Owner}, WaitDone(x) PROVE TypeInv'
  BY <1>4, JobFlagAssumption DEF WaitDone, Events
<1>5. ASSUME NEW b \in BOOLEAN, Delete(b) PROVE TypeInv'
  BY <1>5 DEF Delete
<1>6. CASE DeleteExecute
  BY <1>6 DEF DeleteExecute
<1>7. CASE DeleteWait
  BY <1>7 DEF DeleteWait, Events
<1>8. CASE DeleteNow
  BY <1>8 DEF DeleteNow
<1>9. ASSUME NEW x \in Actors, MethodStep(x) PROVE TypeInv'
  BY <1>9, MethodType
<1>10. CASE UNCHANGED vars
  BY <1>10 DEF vars
<1> QED
  BY <1>1, <1>2, <1>3, <1>4, <1>5, <1>6, <1>7, <1>8, <1>9, <1>10 DEF Next, ClientStep

(* A scheduled job is well formed.                                         *)
LEMMA TypeInit == Init => TypeInv
<1> SUFFICES ASSUME Init PROVE TypeInv
  OBVIOUS
<1>1. /\ waiting \in BOOLEAN /\ terminated \in BOOLEAN /\ scheduled \in BOOLEAN
      /\ owned \in BOOLEAN /\ freed \in BOOLEAN /\ runs \in Nat
  BY JobFlagAssumption DEF Init
<1>2. /\ state \in [Events -> BOOLEAN]
      /\ event \in [Events -> Handles \cup {NoHandle}]
      /\ signalled \subseteq Handles /\ used \subseteq Handles
  BY DEF Init
<1>3. /\ pc \in [Actors -> Places] /\ ret \in [Actors -> Places]
      /\ ret \in [Actors -> ReturnPlaces]
  BY DEF Init, Places, ReturnPlaces
<1>4. /\ waitsFor \in [Actors -> Events] /\ timed \in [Actors -> BOOLEAN]
      /\ handle \in [Actors -> Handles \cup {NoHandle}]
  BY DEF Init, Events
<1> QED BY <1>1, <1>2, <1>3, <1>4 DEF TypeInv, TypeOK

(* Every flag, event and control variable of a job keeps its type.         *)
THEOREM TypeCorrect == Spec => []TypeOK
<1>1. TypeInv => TypeOK
  BY DEF TypeInv
<1> QED BY <1>1, TypeInit, TypeInductive, PTL DEF Spec

-----------------------------------------------------------------------------
Done == state["executionDone"]
Deletable == state["deletable"]

\* The part of Execute between the claim and executionDone.
Running(x) == pc[x] \in {"run", "setDone"}

(* Why InternalExecute runs once: the token waiting is exchanged for the   *)
(* right to run, and exists at most once.                                  *)
ClaimInv ==
    /\ runs <= 1
    /\ waiting => runs = 0 /\ ~Done /\ \A x \in Actors : ~Running(x)
    /\ \A x \in Actors : pc[x] = "run" => runs = 0
    /\ \A x \in Actors : Running(x) => ~Done
    /\ \A x, y \in Actors : Running(x) /\ Running(y) => x = y

(* Why a raised deletable means what it says: Execute and OnUnSchedule     *)
(* raise it only once both are through.                                    *)
DeletableInv ==
    /\ \A x \in Actors : pc[x] \in {"signalDone", "testScheduled"} => Done
    /\ \A x \in Actors : pc[x] = "setDeletable" => Done /\ ~scheduled
    /\ \A x \in Actors : pc[x] = "signalDeletable" => Deletable
    /\ Deletable => Done /\ ~scheduled
    /\ pc[Scheduler] \in {"testDone", "unscheduled"} => ~scheduled
    /\ ret[Scheduler] = "unscheduled" => ~scheduled

(* Why Delete's wait ends only after deletable: handles are not shared,    *)
(* only the owner waits for deletable, and it holds the event's handle.    *)
WaitInv ==
    /\ \A e \in Events : event[e] # NoHandle => event[e] \in used
    /\ signalled \subseteq used
    /\ event["deletable"] # NoHandle => event["deletable"] # event["executionDone"]
    /\ event["deletable"] \in signalled => Deletable
    /\ \A x \in Actors \ {Owner} : waitsFor[x] = "executionDone"
    /\ ret[Owner] = "deleteNow" =>
          /\ waitsFor[Owner] = "deletable" /\ ~timed[Owner]
          /\ pc[Owner] \in {"waitTest", "autoAlloc", "assign", "waitRetest", "block",
                            "deleteNow", "end"}
          /\ pc[Owner] = "block" => handle[Owner] = event["deletable"]
    /\ pc[Owner] = "deleteNow" => Deletable

(* A job the scheduler owns is touched by the scheduler alone, which goes  *)
(* through Execute, unless it drains the job, OnUnSchedule and the         *)
(* deletion in this order.                                                 *)
OwnedInv ==
    owned =>
      /\ \A x \in Actors \ {Scheduler} : pc[x] = "ready"
      /\ pc[Scheduler] \in {"queued", "claim", "run", "setDone", "signalDone",
                            "testScheduled", "clearScheduled", "testDone",
                            "setDeletable", "signalDeletable", "unscheduled", "end"}
      /\ pc[Scheduler] \in {"queued", "claim"} => waiting
      /\ pc[Scheduler] \in {"queued", "claim", "run", "setDone", "signalDone",
                            "testScheduled"} => scheduled
      /\ pc[Scheduler] \in {"claim", "run", "setDone", "signalDone", "testScheduled"}
            => ret[Scheduler] = "clearScheduled"
      /\ pc[Scheduler] \in {"clearScheduled", "testDone"} => Done \/ waiting
      /\ pc[Scheduler] \in {"testDone", "setDeletable", "signalDeletable"}
            => ret[Scheduler] = "unscheduled"
      /\ pc[Scheduler] = "signalDeletable" => Deletable
      /\ pc[Scheduler] \in {"unscheduled", "end"} => Deletable \/ waiting

FreedInv == freed => ~scheduled /\ (Deletable \/ (owned /\ waiting))

(* The token is never duplicated, and its holder has not run yet.          *)
LEMMA ClaimInductive ==
    ASSUME TypeInv, ClaimInv, [Next]_vars
    PROVE  ClaimInv'
<1> USE ActorFacts DEF TypeInv, TypeOK, ReturnPlaces, Places, Goto, Return, Call, At,
        flagVars, eventVars, jobVars, ClaimInv, Running, Done
<1>1. CASE TakeFromQueue
  BY <1>1 DEF TakeFromQueue
<1>2. CASE ClearScheduled
  BY <1>2 DEF ClearScheduled
<1>3. CASE TestDone
  BY <1>3 DEF TestDone
<1>4. CASE DisposeOwned
  BY <1>4 DEF DisposeOwned
<1>5. CASE Terminate
  BY <1>5 DEF Terminate
<1>6. ASSUME NEW x \in Observers \cup {Owner}, WaitUntilDone(x) PROVE ClaimInv'
  BY <1>6 DEF WaitUntilDone
<1>7. ASSUME NEW x \in Observers \cup {Owner}, WaitDone(x) PROVE ClaimInv'
  BY <1>7 DEF WaitDone
<1>8. ASSUME NEW b \in BOOLEAN, Delete(b) PROVE ClaimInv'
  BY <1>8 DEF Delete
<1>9. CASE DeleteExecute
  BY <1>9 DEF DeleteExecute
<1>10. CASE DeleteWait
  BY <1>10 DEF DeleteWait
<1>11. CASE DeleteNow
  BY <1>11 DEF DeleteNow
<1>12. ASSUME NEW x \in Actors, Claim(x) PROVE ClaimInv'
  BY <1>12 DEF Claim
<1>13. ASSUME NEW x \in Actors, Run(x) PROVE ClaimInv'
  BY <1>13 DEF Run
<1>14. ASSUME NEW x \in Actors, SetDone(x) PROVE ClaimInv'
  BY <1>14 DEF SetDone, Raise, Events
<1>15. ASSUME NEW x \in Actors, SignalDone(x) PROVE ClaimInv'
  BY <1>15 DEF SignalDone, Signal, Events
<1>16. ASSUME NEW x \in Actors, TestScheduled(x) PROVE ClaimInv'
  BY <1>16 DEF TestScheduled
<1>17. ASSUME NEW x \in Actors, SetDeletable(x) PROVE ClaimInv'
  BY <1>17 DEF SetDeletable, Raise, Events
<1>18. ASSUME NEW x \in Actors, SignalDeletable(x) PROVE ClaimInv'
  BY <1>18 DEF SignalDeletable, Signal, Events
<1>19. ASSUME NEW x \in Actors, WaitTest(x) PROVE ClaimInv'
  BY <1>19 DEF WaitTest
<1>20. ASSUME NEW x \in Actors, AutoAllocTest(x) PROVE ClaimInv'
  BY <1>20 DEF AutoAllocTest
<1>21. ASSUME NEW x \in Actors, AutoAllocAssign(x) PROVE ClaimInv'
  BY <1>21 DEF AutoAllocAssign
<1>22. ASSUME NEW x \in Actors, WaitRetest(x) PROVE ClaimInv'
  BY <1>22 DEF WaitRetest
<1>23. ASSUME NEW x \in Actors, Unblock(x) PROVE ClaimInv'
  BY <1>23 DEF Unblock
<1>24. CASE UNCHANGED vars
  BY <1>24 DEF vars
<1> QED
  BY <1>1, <1>2, <1>3, <1>4, <1>5, <1>6, <1>7, <1>8, <1>9, <1>10, <1>11, <1>12, <1>13,
     <1>14, <1>15, <1>16, <1>17, <1>18, <1>19, <1>20, <1>21, <1>22, <1>23, <1>24
  DEF Next, SchedulerStep, ClientStep, MethodStep, Execute

(* CJobBase::Execute: "Jobs will be executed only once", whoever calls it, *)
(* for any number of observers, and nobody sees executionDone while the    *)
(* job still runs.                                                         *)
THEOREM ExecutedOnce == Spec => []RunsOnce
<1>1. Init => ClaimInv
  BY DEF Init, ClaimInv, Running, Done, Events
<1>2. ClaimInv => RunsOnce
  BY DEF ClaimInv, RunsOnce, Running, Done
<1> QED BY <1>1, <1>2, TypeInit, TypeInductive, ClaimInductive, PTL DEF Spec

(* Raising deletable is left to the one that comes second.                 *)
LEMMA DeletableInductive ==
    ASSUME TypeInv, DeletableInv, [Next]_vars
    PROVE  DeletableInv'
<1> USE ActorFacts DEF TypeInv, TypeOK, ReturnPlaces, Places, Goto, Return, Call, At,
        flagVars, eventVars, jobVars, DeletableInv, Done, Deletable, Events
<1>1. CASE TakeFromQueue
  BY <1>1 DEF TakeFromQueue
<1>2. CASE ClearScheduled
  BY <1>2 DEF ClearScheduled
<1>3. CASE TestDone
  BY <1>3 DEF TestDone
<1>4. CASE DisposeOwned
  BY <1>4 DEF DisposeOwned
<1>5. CASE Terminate
  BY <1>5 DEF Terminate
<1>6. ASSUME NEW x \in Observers \cup {Owner}, WaitUntilDone(x) PROVE DeletableInv'
  BY <1>6 DEF WaitUntilDone
<1>7. ASSUME NEW x \in Observers \cup {Owner}, WaitDone(x) PROVE DeletableInv'
  BY <1>7 DEF WaitDone
<1>8. ASSUME NEW b \in BOOLEAN, Delete(b) PROVE DeletableInv'
  BY <1>8 DEF Delete
<1>9. CASE DeleteExecute
  BY <1>9 DEF DeleteExecute
<1>10. CASE DeleteWait
  BY <1>10 DEF DeleteWait
<1>11. CASE DeleteNow
  BY <1>11 DEF DeleteNow
<1>12. ASSUME NEW x \in Actors, Claim(x) PROVE DeletableInv'
  BY <1>12 DEF Claim
<1>13. ASSUME NEW x \in Actors, Run(x) PROVE DeletableInv'
  BY <1>13 DEF Run
<1>14. ASSUME NEW x \in Actors, SetDone(x) PROVE DeletableInv'
  BY <1>14 DEF SetDone, Raise
<1>15. ASSUME NEW x \in Actors, SignalDone(x) PROVE DeletableInv'
  BY <1>15 DEF SignalDone, Signal
<1>16. ASSUME NEW x \in Actors, TestScheduled(x) PROVE DeletableInv'
  BY <1>16 DEF TestScheduled
<1>17. ASSUME NEW x \in Actors, SetDeletable(x) PROVE DeletableInv'
  BY <1>17 DEF SetDeletable, Raise
<1>18. ASSUME NEW x \in Actors, SignalDeletable(x) PROVE DeletableInv'
  BY <1>18 DEF SignalDeletable, Signal
<1>19. ASSUME NEW x \in Actors, WaitTest(x) PROVE DeletableInv'
  BY <1>19 DEF WaitTest
<1>20. ASSUME NEW x \in Actors, AutoAllocTest(x) PROVE DeletableInv'
  BY <1>20 DEF AutoAllocTest
<1>21. ASSUME NEW x \in Actors, AutoAllocAssign(x) PROVE DeletableInv'
  BY <1>21 DEF AutoAllocAssign
<1>22. ASSUME NEW x \in Actors, WaitRetest(x) PROVE DeletableInv'
  BY <1>22 DEF WaitRetest
<1>23. ASSUME NEW x \in Actors, Unblock(x) PROVE DeletableInv'
  BY <1>23 DEF Unblock
<1>24. CASE UNCHANGED vars
  BY <1>24 DEF vars
<1> QED
  BY <1>1, <1>2, <1>3, <1>4, <1>5, <1>6, <1>7, <1>8, <1>9, <1>10, <1>11, <1>12, <1>13,
     <1>14, <1>15, <1>16, <1>17, <1>18, <1>19, <1>20, <1>21, <1>22, <1>23, <1>24
  DEF Next, SchedulerStep, ClientStep, MethodStep, Execute

(* The owner wakes up only for deletable.                                  *)
LEMMA WaitInductive ==
    ASSUME TypeInv, DeletableInv, WaitInv, [Next]_vars
    PROVE  WaitInv'
<1> USE ActorFacts, JobHandleAssumption
    DEF TypeInv, TypeOK, ReturnPlaces, Places, Goto, Return, Call, At,
        flagVars, eventVars, jobVars, WaitInv, Done, Deletable, Events
<1>1. CASE TakeFromQueue
  BY <1>1 DEF TakeFromQueue
<1>2. CASE ClearScheduled
  BY <1>2 DEF ClearScheduled
<1>3. CASE TestDone
  BY <1>3 DEF TestDone
<1>4. CASE DisposeOwned
  BY <1>4 DEF DisposeOwned
<1>5. CASE Terminate
  BY <1>5 DEF Terminate
<1>6. ASSUME NEW x \in Observers \cup {Owner}, WaitUntilDone(x) PROVE WaitInv'
  BY <1>6 DEF WaitUntilDone
<1>7. ASSUME NEW x \in Observers \cup {Owner}, WaitDone(x) PROVE WaitInv'
  BY <1>7 DEF WaitDone
<1>8. ASSUME NEW b \in BOOLEAN, Delete(b) PROVE WaitInv'
  BY <1>8 DEF Delete
<1>9. CASE DeleteExecute
  BY <1>9 DEF DeleteExecute
<1>10. CASE DeleteWait
  BY <1>10 DEF DeleteWait
<1>11. CASE DeleteNow
  BY <1>11 DEF DeleteNow
<1>12. ASSUME NEW x \in Actors, Claim(x) PROVE WaitInv'
  BY <1>12 DEF Claim
<1>13. ASSUME NEW x \in Actors, Run(x) PROVE WaitInv'
  BY <1>13 DEF Run
<1>14. ASSUME NEW x \in Actors, SetDone(x) PROVE WaitInv'
  BY <1>14 DEF SetDone, Raise
<1>15. ASSUME NEW x \in Actors, SignalDone(x) PROVE WaitInv'
  BY <1>15 DEF SignalDone, Signal
<1>16. ASSUME NEW x \in Actors, TestScheduled(x) PROVE WaitInv'
  BY <1>16 DEF TestScheduled
<1>17. ASSUME NEW x \in Actors, SetDeletable(x) PROVE WaitInv'
  BY <1>17 DEF SetDeletable, Raise
<1>18. ASSUME NEW x \in Actors, SignalDeletable(x) PROVE WaitInv'
  BY <1>18 DEF SignalDeletable, Signal, DeletableInv
<1>19. ASSUME NEW x \in Actors, WaitTest(x) PROVE WaitInv'
  BY <1>19 DEF WaitTest
<1>20. ASSUME NEW x \in Actors, AutoAllocTest(x) PROVE WaitInv'
  BY <1>20 DEF AutoAllocTest
<1>21. ASSUME NEW x \in Actors, AutoAllocAssign(x) PROVE WaitInv'
  BY <1>21 DEF AutoAllocAssign
<1>22. ASSUME NEW x \in Actors, WaitRetest(x) PROVE WaitInv'
  BY <1>22 DEF WaitRetest
<1>23. ASSUME NEW x \in Actors, Unblock(x) PROVE WaitInv'
  BY <1>23 DEF Unblock
<1>24. CASE UNCHANGED vars
  BY <1>24 DEF vars
<1> QED
  BY <1>1, <1>2, <1>3, <1>4, <1>5, <1>6, <1>7, <1>8, <1>9, <1>10, <1>11, <1>12, <1>13,
     <1>14, <1>15, <1>16, <1>17, <1>18, <1>19, <1>20, <1>21, <1>22, <1>23, <1>24
  DEF Next, SchedulerStep, ClientStep, MethodStep, Execute

(* The scheduler's way through a job it owns.                              *)
LEMMA OwnedInductive ==
    ASSUME TypeInv, DeletableInv, OwnedInv, [Next]_vars
    PROVE  OwnedInv'
<1> USE ActorFacts DEF TypeInv, TypeOK, ReturnPlaces, Places, Goto, Return, Call, At,
        flagVars, eventVars, jobVars, OwnedInv, Done, Deletable, Events
<1>1. CASE TakeFromQueue
  BY <1>1 DEF TakeFromQueue
<1>2. CASE ClearScheduled
  BY <1>2 DEF ClearScheduled
<1>3. CASE TestDone
  BY <1>3 DEF TestDone
<1>4. CASE DisposeOwned
  BY <1>4 DEF DisposeOwned
<1>5. CASE Terminate
  BY <1>5 DEF Terminate
<1>6. ASSUME NEW x \in Observers \cup {Owner}, WaitUntilDone(x) PROVE OwnedInv'
  BY <1>6 DEF WaitUntilDone
<1>7. ASSUME NEW x \in Observers \cup {Owner}, WaitDone(x) PROVE OwnedInv'
  BY <1>7 DEF WaitDone
<1>8. ASSUME NEW b \in BOOLEAN, Delete(b) PROVE OwnedInv'
  BY <1>8 DEF Delete
<1>9. CASE DeleteExecute
  BY <1>9 DEF DeleteExecute
<1>10. CASE DeleteWait
  BY <1>10 DEF DeleteWait
<1>11. CASE DeleteNow
  BY <1>11 DEF DeleteNow
<1>12. ASSUME NEW x \in Actors, Claim(x) PROVE OwnedInv'
  BY <1>12 DEF Claim
<1>13. ASSUME NEW x \in Actors, Run(x) PROVE OwnedInv'
  BY <1>13 DEF Run
<1>14. ASSUME NEW x \in Actors, SetDone(x) PROVE OwnedInv'
  BY <1>14 DEF SetDone, Raise
<1>15. ASSUME NEW x \in Actors, SignalDone(x) PROVE OwnedInv'
  BY <1>15 DEF SignalDone, Signal
<1>16. ASSUME NEW x \in Actors, TestScheduled(x) PROVE OwnedInv'
  BY <1>16 DEF TestScheduled, DeletableInv
<1>17. ASSUME NEW x \in Actors, SetDeletable(x) PROVE OwnedInv'
  BY <1>17 DEF SetDeletable, Raise
<1>18. ASSUME NEW x \in Actors, SignalDeletable(x) PROVE OwnedInv'
  BY <1>18 DEF SignalDeletable, Signal
<1>19. ASSUME NEW x \in Actors, WaitTest(x) PROVE OwnedInv'
  BY <1>19 DEF WaitTest
<1>20. ASSUME NEW x \in Actors, AutoAllocTest(x) PROVE OwnedInv'
  BY <1>20 DEF AutoAllocTest
<1>21. ASSUME NEW x \in Actors, AutoAllocAssign(x) PROVE OwnedInv'
  BY <1>21 DEF AutoAllocAssign
<1>22. ASSUME NEW x \in Actors, WaitRetest(x) PROVE OwnedInv'
  BY <1>22 DEF WaitRetest
<1>23. ASSUME NEW x \in Actors, Unblock(x) PROVE OwnedInv'
  BY <1>23 DEF Unblock
<1>24. CASE UNCHANGED vars
  BY <1>24 DEF vars
<1> QED
  BY <1>1, <1>2, <1>3, <1>4, <1>5, <1>6, <1>7, <1>8, <1>9, <1>10, <1>11, <1>12, <1>13,
     <1>14, <1>15, <1>16, <1>17, <1>18, <1>19, <1>20, <1>21, <1>22, <1>23, <1>24
  DEF Next, SchedulerStep, ClientStep, MethodStep, Execute

(* Both deletions find deletable raised.                                   *)
LEMMA FreedInductive ==
    ASSUME TypeInv, DeletableInv, WaitInv, OwnedInv, FreedInv, [Next]_vars
    PROVE  FreedInv'
<1> USE ActorFacts DEF TypeInv, TypeOK, ReturnPlaces, Places, Goto, Return, Call, At,
        flagVars, eventVars, jobVars, FreedInv, Deletable, Events
<1>1. CASE TakeFromQueue
  BY <1>1 DEF TakeFromQueue
<1>2. CASE ClearScheduled
  BY <1>2 DEF ClearScheduled
<1>3. CASE TestDone
  BY <1>3 DEF TestDone
<1>4. CASE DisposeOwned
  BY <1>4 DEF DisposeOwned, DeletableInv, OwnedInv
<1>5. CASE Terminate
  BY <1>5 DEF Terminate
<1>6. ASSUME NEW x \in Observers \cup {Owner}, WaitUntilDone(x) PROVE FreedInv'
  BY <1>6 DEF WaitUntilDone
<1>7. ASSUME NEW x \in Observers \cup {Owner}, WaitDone(x) PROVE FreedInv'
  BY <1>7 DEF WaitDone
<1>8. ASSUME NEW b \in BOOLEAN, Delete(b) PROVE FreedInv'
  BY <1>8 DEF Delete
<1>9. CASE DeleteExecute
  BY <1>9 DEF DeleteExecute
<1>10. CASE DeleteWait
  BY <1>10 DEF DeleteWait
<1>11. CASE DeleteNow
  BY <1>11 DEF DeleteNow, DeletableInv, WaitInv, Done
<1>12. ASSUME NEW x \in Actors, Claim(x) PROVE FreedInv'
  BY <1>12 DEF Claim
<1>13. ASSUME NEW x \in Actors, Run(x) PROVE FreedInv'
  BY <1>13 DEF Run
<1>14. ASSUME NEW x \in Actors, SetDone(x) PROVE FreedInv'
  BY <1>14 DEF SetDone, Raise
<1>15. ASSUME NEW x \in Actors, SignalDone(x) PROVE FreedInv'
  BY <1>15 DEF SignalDone, Signal
<1>16. ASSUME NEW x \in Actors, TestScheduled(x) PROVE FreedInv'
  BY <1>16 DEF TestScheduled
<1>17. ASSUME NEW x \in Actors, SetDeletable(x) PROVE FreedInv'
  BY <1>17 DEF SetDeletable, Raise
<1>18. ASSUME NEW x \in Actors, SignalDeletable(x) PROVE FreedInv'
  BY <1>18 DEF SignalDeletable, Signal
<1>19. ASSUME NEW x \in Actors, WaitTest(x) PROVE FreedInv'
  BY <1>19 DEF WaitTest
<1>20. ASSUME NEW x \in Actors, AutoAllocTest(x) PROVE FreedInv'
  BY <1>20 DEF AutoAllocTest
<1>21. ASSUME NEW x \in Actors, AutoAllocAssign(x) PROVE FreedInv'
  BY <1>21 DEF AutoAllocAssign
<1>22. ASSUME NEW x \in Actors, WaitRetest(x) PROVE FreedInv'
  BY <1>22 DEF WaitRetest
<1>23. ASSUME NEW x \in Actors, Unblock(x) PROVE FreedInv'
  BY <1>23 DEF Unblock
<1>24. CASE UNCHANGED vars
  BY <1>24 DEF vars
<1> QED
  BY <1>1, <1>2, <1>3, <1>4, <1>5, <1>6, <1>7, <1>8, <1>9, <1>10, <1>11, <1>12, <1>13,
     <1>14, <1>15, <1>16, <1>17, <1>18, <1>19, <1>20, <1>21, <1>22, <1>23, <1>24
  DEF Next, SchedulerStep, ClientStep, MethodStep, Execute

(* OnUnSchedule: "The job must not be deleted before this function has     *)
(* been called", for any number of observers and whether the job is        *)
(* executed, removed from the queue or drained; and ~CJobBase:             *)
(* "assert (deletable.Test ())", but for the owned jobs that a stopped     *)
(* scheduler drains before anybody executes them.                          *)
THEOREM DeletionSafe == Spec => []DeletedOnlyWhenSafe
<1> DEFINE IInv == /\ TypeInv /\ ClaimInv /\ DeletableInv
                   /\ WaitInv /\ OwnedInv /\ FreedInv
<1>1. Init => IInv
  <2> SUFFICES ASSUME Init PROVE IInv
    OBVIOUS
  <2>1. ClaimInv
    BY DEF Init, ClaimInv, Running, Done, Events
  <2>2. DeletableInv
    BY ActorFacts DEF Init, DeletableInv, Done, Deletable, Events
  <2>3. WaitInv
    BY ActorFacts DEF Init, WaitInv, Deletable, Events
  <2>4. OwnedInv
    BY ActorFacts DEF Init, OwnedInv
  <2>5. FreedInv
    BY DEF Init, FreedInv
  <2> QED BY <2>1, <2>2, <2>3, <2>4, <2>5, TypeInit
<1>2. IInv /\ [Next]_vars => IInv'
  BY TypeInductive, ClaimInductive, DeletableInductive, WaitInductive,
     OwnedInductive, FreedInductive
<1>3. IInv => DeletedOnlyWhenSafe
  <2> SUFFICES ASSUME IInv, freed PROVE DeletedOnlyWhenSafe
    BY DEF DeletedOnlyWhenSafe
  <2>1. CASE Deletable
    BY <2>1 DEF DeletedOnlyWhenSafe, ClaimInv, DeletableInv, Running, Done, Deletable
  <2>2. CASE owned /\ waiting
    BY <2>2 DEF DeletedOnlyWhenSafe, Unexecuted, ClaimInv, FreedInv, Running
  <2> QED BY <2>1, <2>2 DEF FreedInv
<1> QED BY <1>1, <1>2, <1>3, PTL DEF Spec

-----------------------------------------------------------------------------
(* The scheduler never waits for an event.                                 *)
SchedulerInv ==
    /\ pc[Scheduler] \in {"queued", "claim", "run", "setDone", "signalDone", "testScheduled",
                          "setDeletable", "signalDeletable", "clearScheduled", "testDone",
                          "unscheduled", "end"}
    /\ ret[Scheduler] \in {"end", "clearScheduled", "unscheduled"}
    /\ TRUE \notin TimedCalls => \A x \in Actors : ~timed[x]

(* Why the owner is woken by e, whose Set ends at place: it blocks on the  *)
(* handle that Set finds, and it has looked at the state after that handle *)
(* was there.                                                              *)
Woken(e, place) ==
    /\ pc[Owner] = "assign" /\ waitsFor[Owner] = e => event[e] = NoHandle
    /\ pc[Owner] = "waitRetest" /\ waitsFor[Owner] = e => event[e] # NoHandle
    /\ pc[Owner] = "block" /\ waitsFor[Owner] = e /\ ~timed[Owner] =>
          /\ event[e] # NoHandle /\ handle[Owner] = event[e]
          /\ state[e] => event[e] \in signalled \/ \E y \in Actors : pc[y] = place

(* Only the owner waits for deletable; the two threads that look for the   *)
(* handle of executionDone at the same time are the owner and an observer. *)
WakeInv ==
    /\ Woken("deletable", "signalDeletable")
    /\ Observers = {} => Woken("executionDone", "signalDone")

\* The scheduler's way through a job, kept by every step.
LEMMA SchedulerInductive ==
    ASSUME TypeInv, SchedulerInv, [Next]_vars
    PROVE  SchedulerInv'
<1> USE ActorFacts, JobFlagAssumption
    DEF TypeInv, TypeOK, ReturnPlaces, Places, Goto, Return, Call, At,
        flagVars, eventVars, jobVars, SchedulerInv, Events
<1>1. CASE TakeFromQueue
  BY <1>1 DEF TakeFromQueue
<1>2. CASE ClearScheduled
  BY <1>2 DEF ClearScheduled
<1>3. CASE TestDone
  BY <1>3 DEF TestDone
<1>4. CASE DisposeOwned
  BY <1>4 DEF DisposeOwned
<1>5. CASE Terminate
  BY <1>5 DEF Terminate
<1>6. ASSUME NEW x \in Observers \cup {Owner}, WaitUntilDone(x) PROVE SchedulerInv'
  BY <1>6 DEF WaitUntilDone
<1>7. ASSUME NEW x \in Observers \cup {Owner}, WaitDone(x) PROVE SchedulerInv'
  BY <1>7 DEF WaitDone
<1>8. ASSUME NEW b \in BOOLEAN, Delete(b) PROVE SchedulerInv'
  BY <1>8 DEF Delete
<1>9. CASE DeleteExecute
  BY <1>9 DEF DeleteExecute
<1>10. CASE DeleteWait
  BY <1>10 DEF DeleteWait
<1>11. CASE DeleteNow
  BY <1>11 DEF DeleteNow
<1>12. ASSUME NEW x \in Actors, Claim(x) PROVE SchedulerInv'
  <2>1. ret' = ret /\ timed' = timed
    BY <1>12 DEF Claim
  <2>2. pc'[Scheduler] = pc[Scheduler] \/ pc'[Scheduler] \in {"run", ret[Scheduler]}
    BY <1>12 DEF Claim
  <2> QED BY <2>1, <2>2
<1>13. ASSUME NEW x \in Actors, Run(x) PROVE SchedulerInv'
  BY <1>13 DEF Run
<1>14. ASSUME NEW x \in Actors, SetDone(x) PROVE SchedulerInv'
  BY <1>14 DEF SetDone, Raise
<1>15. ASSUME NEW x \in Actors, SignalDone(x) PROVE SchedulerInv'
  BY <1>15 DEF SignalDone, Signal
<1>16. ASSUME NEW x \in Actors, TestScheduled(x) PROVE SchedulerInv'
  <2>1. ret' = ret /\ timed' = timed
    BY <1>16 DEF TestScheduled
  <2>2. pc'[Scheduler] = pc[Scheduler] \/ pc'[Scheduler] \in {"setDeletable", ret[Scheduler]}
    BY <1>16 DEF TestScheduled
  <2> QED BY <2>1, <2>2
<1>17. ASSUME NEW x \in Actors, SetDeletable(x) PROVE SchedulerInv'
  BY <1>17 DEF SetDeletable, Raise
<1>18. ASSUME NEW x \in Actors, SignalDeletable(x) PROVE SchedulerInv'
  BY <1>18 DEF SignalDeletable, Signal
<1>19. ASSUME NEW x \in Actors, WaitTest(x) PROVE SchedulerInv'
  BY <1>19 DEF WaitTest
<1>20. ASSUME NEW x \in Actors, AutoAllocTest(x) PROVE SchedulerInv'
  BY <1>20 DEF AutoAllocTest
<1>21. ASSUME NEW x \in Actors, AutoAllocAssign(x) PROVE SchedulerInv'
  BY <1>21 DEF AutoAllocAssign
<1>22. ASSUME NEW x \in Actors, WaitRetest(x) PROVE SchedulerInv'
  BY <1>22 DEF WaitRetest
<1>23. ASSUME NEW x \in Actors, Unblock(x) PROVE SchedulerInv'
  BY <1>23 DEF Unblock
<1>24. CASE UNCHANGED vars
  BY <1>24 DEF vars
<1> QED
  BY <1>1, <1>2, <1>3, <1>4, <1>5, <1>6, <1>7, <1>8, <1>9, <1>10, <1>11, <1>12, <1>13,
     <1>14, <1>15, <1>16, <1>17, <1>18, <1>19, <1>20, <1>21, <1>22, <1>23, <1>24
  DEF Next, SchedulerStep, ClientStep, MethodStep, Execute

(* Nobody but the owner moves the owner, and nobody but a waiting thread   *)
(* gives an event its handle.                                              *)
LEMMA WakeInductive ==
    ASSUME TypeInv, SchedulerInv, WaitInv, WakeInv, [Next]_vars
    PROVE  WakeInv'
<1> USE ActorFacts, JobHandleAssumption
    DEF TypeInv, TypeOK, ReturnPlaces, Places, Goto, Return, Call, At,
        flagVars, eventVars, jobVars, WakeInv, Woken, Events
<1>1. CASE TakeFromQueue
  BY <1>1 DEF TakeFromQueue
<1>2. CASE ClearScheduled
  BY <1>2 DEF ClearScheduled
<1>3. CASE TestDone
  BY <1>3 DEF TestDone
<1>4. CASE DisposeOwned
  BY <1>4 DEF DisposeOwned
<1>5. CASE Terminate
  BY <1>5 DEF Terminate
<1>6. ASSUME NEW x \in Observers \cup {Owner}, WaitUntilDone(x) PROVE WakeInv'
  BY <1>6 DEF WaitUntilDone
<1>7. ASSUME NEW x \in Observers \cup {Owner}, WaitDone(x) PROVE WakeInv'
  BY <1>7 DEF WaitDone
<1>8. ASSUME NEW b \in BOOLEAN, Delete(b) PROVE WakeInv'
  BY <1>8 DEF Delete
<1>9. CASE DeleteExecute
  BY <1>9 DEF DeleteExecute
<1>10. CASE DeleteWait
  BY <1>10 DEF DeleteWait
<1>11. CASE DeleteNow
  BY <1>11 DEF DeleteNow
<1>12. ASSUME NEW x \in Actors, Claim(x) PROVE WakeInv'
  BY <1>12 DEF Claim
<1>13. ASSUME NEW x \in Actors, Run(x) PROVE WakeInv'
  BY <1>13 DEF Run
<1>14. ASSUME NEW x \in Actors, SetDone(x) PROVE WakeInv'
  BY <1>14 DEF SetDone, Raise
<1>15. ASSUME NEW x \in Actors, SignalDone(x) PROVE WakeInv'
  BY <1>15 DEF SignalDone, Signal
<1>16. ASSUME NEW x \in Actors, TestScheduled(x) PROVE WakeInv'
  BY <1>16 DEF TestScheduled
<1>17. ASSUME NEW x \in Actors, SetDeletable(x) PROVE WakeInv'
  BY <1>17 DEF SetDeletable, Raise
<1>18. ASSUME NEW x \in Actors, SignalDeletable(x) PROVE WakeInv'
  BY <1>18 DEF SignalDeletable, Signal
<1>19. ASSUME NEW x \in Actors, WaitTest(x) PROVE WakeInv'
  BY <1>19 DEF WaitTest
<1>20. ASSUME NEW x \in Actors, AutoAllocTest(x) PROVE WakeInv'
  BY <1>20 DEF AutoAllocTest
<1>21. ASSUME NEW x \in Actors, AutoAllocAssign(x) PROVE WakeInv'
  <2>1. x = Owner \/ waitsFor[x] = "executionDone"
    BY DEF WaitInv
  <2>2. Observers = {} => x = Owner
    BY <1>21 DEF AutoAllocAssign, SchedulerInv, Actors
  <2> QED
    BY <1>21, <2>1, <2>2 DEF AutoAllocAssign
<1>22. ASSUME NEW x \in Actors, WaitRetest(x) PROVE WakeInv'
  BY <1>22 DEF WaitRetest
<1>23. ASSUME NEW x \in Actors, Unblock(x) PROVE WakeInv'
  BY <1>23 DEF Unblock
<1>24. CASE UNCHANGED vars
  BY <1>24 DEF vars
<1> QED
  BY <1>1, <1>2, <1>3, <1>4, <1>5, <1>6, <1>7, <1>8, <1>9, <1>10, <1>11, <1>12, <1>13,
     <1>14, <1>15, <1>16, <1>17, <1>18, <1>19, <1>20, <1>21, <1>22, <1>23, <1>24
  DEF Next, SchedulerStep, ClientStep, MethodStep, Execute

\* All of this holds in every state.
LEMMA WakeInvariant == Spec => [](TypeInv /\ SchedulerInv /\ DeletableInv /\ WaitInv /\ WakeInv)
<1>1. Init => SchedulerInv /\ DeletableInv /\ WaitInv /\ WakeInv
  <2> USE ActorFacts DEF Init, Events
  <2>1. Init => SchedulerInv
    BY DEF SchedulerInv
  <2>2. Init => DeletableInv
    BY DEF DeletableInv, Done, Deletable
  <2>3. Init => WaitInv
    BY DEF WaitInv, Deletable
  <2>4. Init => WakeInv
    BY DEF WakeInv, Woken
  <2> QED BY <2>1, <2>2, <2>3, <2>4
<1> QED
  BY <1>1, TypeInit, TypeInductive, SchedulerInductive, DeletableInductive, WaitInductive,
     WakeInductive, PTL DEF Spec

\* The owner is asleep in Delete although Set of deletable is complete.
AsleepInDelete ==
    /\ pc[Owner] = "block" /\ ret[Owner] = "deleteNow"
    /\ state["deletable"] /\ Signalling("deletable") = {}
    /\ handle[Owner] \notin signalled

(* CJobBase::Delete is not left sleeping by a Set that saw no handle,      *)
(* whatever the observers do and whether or not they use a timeout: only   *)
(* the owner allocates the handle of deletable.                            *)
THEOREM DeleteIsWoken == Spec => []~AsleepInDelete
<1>1. ASSUME TypeInv, WaitInv, WakeInv PROVE ~AsleepInDelete
  BY <1>1, ActorFacts DEF AsleepInDelete, Signalling, WaitInv, WakeInv, Woken
<1> QED BY <1>1, WakeInvariant, PTL

(* COneShotEvent::WaitFor: nobody sleeps through an event when the owner   *)
(* is the only one that waits (CWaitableEventPool::AutoAlloc may lose a    *)
(* handle when two threads are in it) and waits without a timeout          *)
(* (WaitForEndOrTimeout does not look at the state again).                 *)
THEOREM WaiterIsWoken ==
    ASSUME Observers = {}, TRUE \notin TimedCalls
    PROVE  Spec => []NoSleepThroughSignal
<1>1. ASSUME TypeInv, SchedulerInv, WaitInv, WakeInv PROVE NoSleepThroughSignal
  <2> SUFFICES ASSUME NEW x \in Actors, pc[x] = "block", state[waitsFor[x]],
                      Signalling(waitsFor[x]) = {}
               PROVE  handle[x] \in signalled
    BY DEF NoSleepThroughSignal
  <2>1. x = Owner /\ ~timed[x] /\ waitsFor[x] \in Events
    BY <1>1 DEF SchedulerInv, Actors, TypeInv, TypeOK
  <2>2. \A y \in Actors :
           pc[y] # IF waitsFor[x] = "deletable" THEN "signalDeletable" ELSE "signalDone"
    BY DEF Signalling
  <2>3. CASE waitsFor[x] = "deletable"
    BY <1>1, <2>1, <2>2, <2>3 DEF WakeInv, Woken
  <2>4. CASE waitsFor[x] = "executionDone"
    BY <1>1, <2>1, <2>2, <2>4 DEF WakeInv, Woken
  <2> QED BY <2>1, <2>3, <2>4 DEF Events
<1> QED BY <1>1, WakeInvariant, PTL
-----------------------------------------------------------------------------
(***************************************************************************)
(* The job queue (module JobQueue) for every number of jobs and every      *)
(* initial buffer size: its invariants, and that it implements the         *)
(* double-ended sequence.                                                  *)
(***************************************************************************)
\* The inductive invariant of the buffer: the three parts need each other.
RingInv == QueueTypeOK /\ RoomForPush /\ EntriesAreJobs

\* What a push leaves behind, whichever way AutoGrow goes.
LEMMA RingPushInv ==
    ASSUME RingInv, NEW job \in Jobs, Push(job)
    PROVE  RingInv'
<1> USE DEF RingInv, QueueTypeOK, RoomForPush, EntriesAreJobs
<1> DEFINE written == [buf EXCEPT ![last] = job]
           count   == last + 1 - first
           newCap  == GrownCapacity(count, capacity)
<1>1. /\ written \in [0 .. capacity - 1 -> Jobs \cup {NoJob}]
      /\ \A k \in first .. last : written[k] \in Jobs
  OBVIOUS
<1>2. newCap \in Nat \ {0} /\ (last + 1 = capacity => count < newCap)
  BY DEF GrownCapacity
<1>3. CASE last + 1 < capacity
  BY <1>1, <1>3 DEF Push
<1>4. CASE last + 1 = capacity
  <2>1. /\ buf' = MoveToFront(written, first, last + 1, newCap)
        /\ first' = 0 /\ last' = count /\ capacity' = newCap /\ fifo' = fifo
    BY <1>4 DEF Push
  <2> HIDE DEF written, newCap
  <2>2. buf' \in [0 .. capacity' - 1 -> Jobs \cup {NoJob}]
    BY <2>1, <1>1, <1>2 DEF MoveToFront
  <2>3. \A k \in first' .. last' - 1 : buf'[k] \in Jobs
    BY <2>1, <1>1, <1>2, <1>4 DEF MoveToFront
  <2> QED BY <2>1, <2>2, <2>3, <1>2, <1>4
<1> QED BY <1>3, <1>4 DEF Push

\* Pushing, popping and switching the order keep the invariant.
LEMMA RingInvInductive ==
    ASSUME RingInv, [QueueNext]_queueVars
    PROVE  RingInv'
<1>1. ASSUME NEW job \in Jobs, Push(job) PROVE RingInv'
  BY <1>1, RingPushInv
<1>2. CASE Pop
  BY <1>2 DEF RingInv, QueueTypeOK, RoomForPush, EntriesAreJobs, Pop, Empty
<1>3. ASSUME NEW b \in BOOLEAN, SetFifo(b) PROVE RingInv'
  BY <1>3 DEF RingInv, QueueTypeOK, RoomForPush, EntriesAreJobs, SetFifo
<1>4. CASE UNCHANGED queueVars
  BY <1>4 DEF RingInv, QueueTypeOK, RoomForPush, EntriesAreJobs, queueVars
<1> QED BY <1>1, <1>2, <1>3, <1>4 DEF QueueNext

(* A push never writes outside the buffer and pop never returns anything   *)
(* but a job that was pushed (CQueue::push, pop, AutoGrow, Grow).          *)
THEOREM QueueSafe == QueueSpec => [](QueueTypeOK /\ RoomForPush /\ EntriesAreJobs)
<1>1. QueueInit => RingInv
  BY SizeAssumption DEF QueueInit, RingInv, QueueTypeOK, RoomForPush,
         EntriesAreJobs
<1>2. RingInv /\ [QueueNext]_queueVars => RingInv'
  BY RingInvInductive
<1> QED BY <1>1, <1>2, PTL DEF QueueSpec, RingInv

-----------------------------------------------------------------------------
\* The entries are a sequence, determined by its length and its elements.
EntriesAreSeq ==
    /\ Entries \in Seq(Jobs)
    /\ Len(Entries) = last - first
    /\ \A i \in 1 .. last - first : Entries[i] = buf[first + i - 1]

\* The valid entries form a sequence of jobs.
LEMMA RingEntriesSeq == RingInv => EntriesAreSeq
<1> SUFFICES ASSUME RingInv PROVE EntriesAreSeq
  OBVIOUS
<1>1. last - first \in Nat
  BY DEF RingInv, QueueTypeOK, RoomForPush
<1>2. \A i \in 1 .. last - first : buf[first + i - 1] \in Jobs
  BY DEF RingInv, QueueTypeOK, RoomForPush, EntriesAreJobs
<1> QED BY <1>1, <1>2 DEF Entries, Size, EntriesAreSeq

\* AutoGrow: whichever way the buffer moves, a push appends one entry.
LEMMA RingPushAppends ==
    ASSUME RingInv, NEW job \in Jobs, Push(job)
    PROVE  Entries' = Append(Entries, job)
<1>1. RingInv'
  BY RingPushInv
<1>2. EntriesAreSeq
  BY RingEntriesSeq
<1>3. EntriesAreSeq'
  <2>1. RingInv' => EntriesAreSeq'
    BY RingEntriesSeq, PTL
  <2> QED BY <1>1, <2>1
<1> HIDE DEF Entries
<1> DEFINE new == Append(Entries, job)
<1>4. /\ new \in Seq(Jobs) /\ Len(new) = last + 1 - first
      /\ \A i \in 1 .. last + 1 - first :
            new[i] = IF i <= last - first THEN buf[first + i - 1] ELSE job
  BY <1>2 DEF EntriesAreSeq, RingInv, QueueTypeOK, RoomForPush
<1>5. last' - first' = last + 1 - first
  BY DEF Push, RingInv, QueueTypeOK, RoomForPush
<1>6. \A i \in 1 .. last + 1 - first :
         buf'[first' + i - 1] = IF i <= last - first THEN buf[first + i - 1]
                                                      ELSE job
  <2> SUFFICES ASSUME NEW i \in 1 .. last + 1 - first
               PROVE  buf'[first' + i - 1] =
                        IF i <= last - first THEN buf[first + i - 1] ELSE job
    OBVIOUS
  <2> DEFINE written == [buf EXCEPT ![last] = job]
             newCap == GrownCapacity(last + 1 - first, capacity)
  <2>1. written[first + i - 1] =
            IF i <= last - first THEN buf[first + i - 1] ELSE job
    BY DEF RingInv, QueueTypeOK, RoomForPush
  <2>2. CASE last + 1 < capacity
    BY <2>1, <2>2 DEF Push, RingInv, QueueTypeOK, RoomForPush
  <2>3. CASE last + 1 = capacity
    <3>1. buf' = MoveToFront(written, first, last + 1, newCap) /\ first' = 0
      BY <2>3 DEF Push, RingInv, QueueTypeOK, RoomForPush
    <3>2. newCap \in Nat /\ i - 1 \in 0 .. newCap - 1
      BY <2>3 DEF GrownCapacity, RingInv, QueueTypeOK, RoomForPush
    <3> HIDE DEF written, newCap
    <3>3. buf'[i - 1] = written[first + (i - 1)]
      BY <3>1, <3>2 DEF MoveToFront, RingInv, QueueTypeOK, RoomForPush
    <3> QED BY <2>1, <3>1, <3>3 DEF RingInv, QueueTypeOK
  <2> QED BY <2>2, <2>3 DEF Push
<1> HIDE DEF new
<1>7. Entries' = new
  BY <1>3, <1>4, <1>5, <1>6, SeqEqual DEF EntriesAreSeq
<1> QED BY <1>7 DEF new

\* A pop shortens the sequence at the end the strategy names.
LEMMA RingPopShortens ==
    ASSUME RingInv, Pop
    PROVE  /\ Entries # <<>>
           /\ Entries' = IF fifo THEN Tail(Entries)
                         ELSE SubSeq(Entries, 1, Len(Entries) - 1)
<1> USE DEF RingInv, QueueTypeOK, RoomForPush
<1>1. last - first \in Nat \ {0}
  BY DEF Pop, Empty
<1>2. Entries \in Seq(Jobs) /\ Len(Entries) = last - first
  BY RingEntriesSeq DEF EntriesAreSeq
<1>3. CASE fifo
  <2>1. Entries' = [i \in 1 .. (last - first) - 1 |-> buf[first + 1 + i - 1]]
    BY <1>1, <1>3 DEF Entries, Size, Pop
  <2>2. /\ Tail(Entries) \in Seq(Jobs)
        /\ Len(Tail(Entries)) = (last - first) - 1
        /\ \A i \in 1 .. (last - first) - 1 :
              Tail(Entries)[i] = buf[first + 1 + i - 1]
    <3>1. \A i \in 1 .. (last - first) - 1 :
              Entries[i + 1] = buf[first + 1 + i - 1]
      BY <1>1 DEF Entries, Size
    <3> HIDE DEF Entries
    <3>2. Entries # <<>>
      BY <1>1, <1>2
    <3> QED BY <1>1, <1>2, <3>1, <3>2
  <2>3. /\ Entries' \in Seq(Jobs)
        /\ Len(Entries') = (last - first) - 1
        /\ \A i \in 1 .. (last - first) - 1 :
              Entries'[i] = buf[first + 1 + i - 1]
    BY <1>1, <2>1 DEF EntriesAreJobs
  <2>4. Entries' = Tail(Entries)
    BY <2>2, <2>3, SeqEqual
  <2> QED BY <1>1, <1>2, <1>3, <2>4
<1>4. CASE ~fifo
  <2>1. Entries' = [i \in 1 .. (last - first) - 1 |-> buf[first + i - 1]]
    BY <1>1, <1>4 DEF Entries, Size, Pop
  <2>2. SubSeq(Entries, 1, Len(Entries) - 1)
           = [i \in 1 .. (last - first) - 1 |-> Entries[i]]
    BY <1>1, <1>2
  <2>3. \A i \in 1 .. (last - first) - 1 : Entries[i] = buf[first + i - 1]
    BY <1>1 DEF Entries, Size
  <2> QED BY <1>1, <1>2, <1>4, <2>1, <2>2, <2>3
<1> QED BY <1>3, <1>4

(* The buffer implements the double-ended sequence: no growth, shift or    *)
(* change of strategy loses, duplicates or reorders a queued job           *)
(* (CQueue::Grow, AutoGrow, push, pop, set_fifo).                          *)
THEOREM QueueImplementsDeque == QueueSpec => ImplementsDeque
<1>1. QueueInit => Abstract!Init
  BY SizeAssumption DEF QueueInit, Abstract!Init, Entries, Size
<1>2. RingInv /\ [QueueNext]_queueVars => [Abstract!Next]_(Abstract!vars)
  <2> SUFFICES ASSUME RingInv, [QueueNext]_queueVars
               PROVE  Abstract!Next \/ UNCHANGED Abstract!vars
    OBVIOUS
  <2>1. ASSUME NEW job \in Jobs, Push(job) PROVE Abstract!Next
    <3>1. fifo' = fifo
      BY <2>1 DEF Push
    <3> QED BY <2>1, <3>1, RingPushAppends DEF Abstract!Next, Abstract!Push
  <2>2. CASE Pop
    <3>1. fifo' = fifo
      BY <2>2 DEF Pop
    <3> QED BY <2>2, <3>1, RingPopShortens DEF Abstract!Next, Abstract!Pop
  <2>3. ASSUME NEW b \in BOOLEAN, SetFifo(b) PROVE Abstract!Next
    BY <2>3 DEF SetFifo, Entries, Size, Abstract!Next, Abstract!SetFifo
  <2>4. CASE UNCHANGED queueVars
    BY <2>4 DEF queueVars, Entries, Size, Abstract!vars
  <2> QED BY <2>1, <2>2, <2>3, <2>4 DEF QueueNext
<1>3. QueueSpec => []RingInv
  BY QueueSafe, PTL DEF RingInv
<1> QED BY <1>1, <1>2, <1>3, PTL DEF QueueSpec, ImplementsDeque, Abstract!Spec
=============================================================================
