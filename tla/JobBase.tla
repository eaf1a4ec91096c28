------------------------------ MODULE JobBase -------------------------------
(***************************************************************************)
(* The life of one CJobBase object (AsyncFramework/JobBase) from Schedule  *)
(* to delete, with the two COneShotEvents it owns (WaitableEvent).         *)
(*                                                                         *)
(* Nothing here is protected by a lock: the flags are volatile words       *)
(* accessed with interlocked operations, so every access is a step of its  *)
(* own.  Actors are the scheduler's thread that has the job in its hands,  *)
(* the job's owner, and observing threads that wait for the result.  The   *)
(* steps of a called method continue at ret[x] when it returns.            *)
(***************************************************************************)
EXTENDS Integers, FiniteSets

CONSTANTS
    Scheduler,          \* the scheduler's side (worker, or whoever drains)
    Owner,              \* the thread that created the job
    Observers,          \* threads that only wait for it
    Handles, NoHandle,  \* OS events
    Ownerships,         \* values of Schedule's transferOwnership
    TimedCalls          \* {FALSE}: WaitUntilDone, {TRUE}: WaitUntilDoneOrTimeout

Actors == {Scheduler, Owner} \cup Observers
Events == {"executionDone", "deletable"}

ASSUME JobActorAssumption ==
    /\ Scheduler # Owner
    /\ Scheduler \notin Observers
    /\ Owner \notin Observers
ASSUME JobHandleAssumption == NoHandle \notin Handles
ASSUME JobFlagAssumption ==
    /\ Ownerships \subseteq BOOLEAN
    /\ TimedCalls \subseteq BOOLEAN

VARIABLES
    waiting, terminated, scheduled,  \* CJobBase
    state, event,                    \* COneShotEvent, per event
    signalled,                       \* the handles that are set
    used,                            \* the handles the pool has given out
    owned,                           \* transferOwnership
    freed,                           \* the job has been deleted
    runs,                            \* calls of InternalExecute
    pc, ret,
    waitsFor,                        \* the event whose wait method runs
    timed,                           \* it is WaitForEndOrTimeout
    handle                           \* the handle an actor waits on

flagVars == <<waiting, terminated, scheduled>>
jobVars == <<owned, freed, runs>>
eventVars == <<state, event, signalled, used>>
vars == <<flagVars, eventVars, jobVars, pc, ret, waitsFor, timed, handle>>

\* An actor is at a place of its program and the object still exists; what a
\* method does to a deleted object is undefined and not followed further.
At(x, place) == pc[x] = place /\ ~freed

Goto(x, place) == pc' = [pc EXCEPT ![x] = place]
Call(x, place, back) == Goto(x, place) /\ ret' = [ret EXCEPT ![x] = back]
Return(x) == Goto(x, ret[x])

-----------------------------------------------------------------------------
(***************************************************************************)
(* COneShotEvent.                                                          *)
(***************************************************************************)

\* Set: raise the state and, if this call did it, look for a handle.
Raise(x, e, place) ==
    /\ state' = [state EXCEPT ![e] = TRUE]
    /\ UNCHANGED <<event, signalled, used>>
    /\ Goto(x, place)

\* The second half of Set.
Signal(e) ==
    /\ signalled' = IF event[e] # NoHandle THEN signalled \cup {event[e]} ELSE signalled
    /\ UNCHANGED <<state, event, used>>

\* WaitFor and WaitForEndOrTimeout: first look at the state.
WaitTest(x) ==
    /\ At(x, "waitTest")
    /\ IF state[waitsFor[x]] THEN Return(x) ELSE Goto(x, "autoAlloc")
    /\ UNCHANGED <<flagVars, eventVars, jobVars, ret, waitsFor, timed, handle>>

\* AutoAlloc: nothing to do if there is a handle, else take one from the pool.
AutoAllocTest(x) ==
    /\ At(x, "autoAlloc")
    /\ IF event[waitsFor[x]] # NoHandle THEN Goto(x, "waitRetest") ELSE Goto(x, "assign")
    /\ UNCHANGED <<flagVars, eventVars, jobVars, ret, waitsFor, timed, handle>>

AutoAllocAssign(x) ==
    /\ At(x, "assign")
    /\ \E h \in Handles \ used :
          /\ event' = [event EXCEPT ![waitsFor[x]] = h]
          /\ used' = used \cup {h}
    /\ Goto(x, "waitRetest")
    /\ UNCHANGED <<flagVars, state, signalled, jobVars, ret, waitsFor, timed, handle>>

\* Mutant: no second look at the state.
WaitNoRetest(x) ==
    /\ At(x, "waitRetest")
    /\ Goto(x, "block")
    /\ handle' = [handle EXCEPT ![x] = event[waitsFor[x]]]
    /\ UNCHANGED <<flagVars, eventVars, jobVars, ret, waitsFor, timed>>

\* WaitFor looks at the state once more before it blocks on the handle;
\* WaitForEndOrTimeout does not.
WaitRetest(x) ==
    /\ At(x, "waitRetest")
    /\ IF ~timed[x] /\ state[waitsFor[x]]
       THEN Return(x) /\ UNCHANGED handle
       ELSE Goto(x, "block") /\ handle' = [handle EXCEPT ![x] = event[waitsFor[x]]]
    /\ UNCHANGED <<flagVars, eventVars, jobVars, ret, waitsFor, timed>>

\* The handle is signalled, or the timeout has passed.
Unblock(x) ==
    /\ pc[x] = "block"
    /\ handle[x] \in signalled \/ timed[x]
    /\ Return(x)
    /\ UNCHANGED <<flagVars, eventVars, jobVars, ret, waitsFor, timed, handle>>

-----------------------------------------------------------------------------
(***************************************************************************)
(* CJobBase::Execute.                                                      *)
(***************************************************************************)

\* Mutant: the flag is tested but not cleared.
ClaimNot(x) ==
    /\ At(x, "claim")
    /\ IF waiting THEN Goto(x, "run") ELSE Return(x)
    /\ UNCHANGED <<flagVars, eventVars, jobVars, ret, waitsFor, timed, handle>>

\* InterlockedExchange (&waiting, FALSE): only one caller goes on.
Claim(x) ==
    /\ At(x, "claim")
    /\ waiting' = FALSE
    /\ IF waiting THEN Goto(x, "run") ELSE Return(x)
    /\ UNCHANGED <<terminated, scheduled, eventVars, jobVars, ret, waitsFor, timed, handle>>

Run(x) ==
    /\ At(x, "run")
    /\ runs' = IF terminated THEN runs ELSE runs + 1
    /\ Goto(x, "setDone")
    /\ UNCHANGED <<flagVars, eventVars, owned, freed, ret, waitsFor, timed, handle>>

SetDone(x) ==
    /\ At(x, "setDone")
    /\ Raise(x, "executionDone", "signalDone")
    /\ UNCHANGED <<flagVars, jobVars, ret, waitsFor, timed, handle>>

SignalDone(x) ==
    /\ At(x, "signalDone")
    /\ Signal("executionDone")
    /\ Goto(x, "testScheduled")
    /\ UNCHANGED <<flagVars, jobVars, ret, waitsFor, timed, handle>>

\* Mutant: deletable is set although the scheduler still has the job.
TestScheduledNot(x) ==
    /\ At(x, "testScheduled")
    /\ Goto(x, "setDeletable")
    /\ UNCHANGED <<flagVars, eventVars, jobVars, ret, waitsFor, timed, handle>>

TestScheduled(x) ==
    /\ At(x, "testScheduled")
    /\ IF scheduled THEN Return(x) ELSE Goto(x, "setDeletable")
    /\ UNCHANGED <<flagVars, eventVars, jobVars, ret, waitsFor, timed, handle>>

\* deletable.Set () of Execute and of OnUnSchedule.
SetDeletable(x) ==
    /\ At(x, "setDeletable")
    /\ Raise(x, "deletable", IF state["deletable"] THEN ret[x] ELSE "signalDeletable")
    /\ UNCHANGED <<flagVars, jobVars, ret, waitsFor, timed, handle>>

SignalDeletable(x) ==
    /\ At(x, "signalDeletable")
    /\ Signal("deletable")
    /\ Return(x)
    /\ UNCHANGED <<flagVars, jobVars, ret, waitsFor, timed, handle>>

Execute(x) ==
    \/ Claim(x)
    \/ Run(x)
    \/ SetDone(x)
    \/ SignalDone(x)
    \/ TestScheduled(x)
    \/ SetDeletable(x)
    \/ SignalDeletable(x)

-----------------------------------------------------------------------------
(***************************************************************************)
(* The scheduler's side: CJobScheduler::ThreadFunc, or a call that takes   *)
(* the job out of the queue.                                               *)
(***************************************************************************)

\* The job is taken from the queue, to be executed or to be given up: by
\* RemoveJobFromQueue, or because the queue of a stopped scheduler is drained.
TakeFromQueue ==
    /\ At(Scheduler, "queued")
    /\ \/ Call(Scheduler, "claim", "clearScheduled")
       \/ Goto(Scheduler, "clearScheduled") /\ UNCHANGED ret
    /\ UNCHANGED <<flagVars, eventVars, jobVars, waitsFor, timed, handle>>

\* OnUnSchedule: clear the flag, then test whether the job has run.
ClearScheduled ==
    /\ At(Scheduler, "clearScheduled")
    /\ scheduled' = FALSE
    /\ Call(Scheduler, "testDone", "unscheduled")
    /\ UNCHANGED <<waiting, terminated, eventVars, jobVars, waitsFor, timed, handle>>

\* Mutant: OnUnSchedule leaves deletable to Execute.
TestDoneNot ==
    /\ At(Scheduler, "testDone")
    /\ Return(Scheduler)
    /\ UNCHANGED <<flagVars, eventVars, jobVars, ret, waitsFor, timed, handle>>

TestDone ==
    /\ At(Scheduler, "testDone")
    /\ IF state["executionDone"] THEN Goto(Scheduler, "setDeletable") ELSE Return(Scheduler)
    /\ UNCHANGED <<flagVars, eventVars, jobVars, ret, waitsFor, timed, handle>>

\* The scheduler deletes the jobs it owns.
DisposeOwned ==
    /\ pc[Scheduler] = "unscheduled"
    /\ Goto(Scheduler, "end")
    /\ freed' = (freed \/ owned)
    /\ UNCHANGED <<flagVars, eventVars, owned, runs, ret, waitsFor, timed, handle>>

SchedulerStep == TakeFromQueue \/ ClearScheduled \/ TestDone \/ DisposeOwned

-----------------------------------------------------------------------------
(***************************************************************************)
(* The owner and the observers.                                            *)
(***************************************************************************)

Terminate ==
    /\ At(Owner, "ready")
    /\ ~owned
    /\ terminated' = TRUE
    /\ UNCHANGED <<waiting, scheduled, eventVars, jobVars, pc, ret, waitsFor, timed, handle>>

\* WaitUntilDone (inlineExecution); each thread waits once.
WaitUntilDone(x) ==
    /\ ~owned
    /\ At(x, "ready")
    /\ \/ Call(x, "claim", "waitDone")
       \/ Goto(x, "waitDone") /\ UNCHANGED ret
    /\ UNCHANGED <<flagVars, eventVars, jobVars, waitsFor, timed, handle>>

WaitDone(x) ==
    /\ At(x, "waitDone")
    /\ Call(x, "waitTest", "waited")
    /\ waitsFor' = [waitsFor EXCEPT ![x] = "executionDone"]
    /\ \E b \in TimedCalls : timed' = [timed EXCEPT ![x] = b]
    /\ UNCHANGED <<flagVars, eventVars, jobVars, handle>>

\* Delete (terminate), once nobody else uses the job: execute it here if
\* that has not begun elsewhere.
Delete(terminate) ==
    /\ ~owned
    /\ pc[Owner] \in {"ready", "waited"} /\ ~freed
    /\ \A x \in Observers : pc[x] \in {"ready", "waited"}
    /\ terminated' = (terminated \/ terminate)
    /\ Goto(Owner, "delete")
    /\ UNCHANGED <<waiting, scheduled, eventVars, jobVars, ret, waitsFor, timed, handle>>

DeleteExecute ==
    /\ At(Owner, "delete")
    /\ IF waiting THEN Call(Owner, "claim", "deleteWait")
                  ELSE Goto(Owner, "deleteWait") /\ UNCHANGED ret
    /\ UNCHANGED <<flagVars, eventVars, jobVars, waitsFor, timed, handle>>

DeleteWait ==
    /\ At(Owner, "deleteWait")
    /\ Call(Owner, "waitTest", "deleteNow")
    /\ waitsFor' = [waitsFor EXCEPT ![Owner] = "deletable"]
    /\ timed' = [timed EXCEPT ![Owner] = FALSE]
    /\ UNCHANGED <<flagVars, eventVars, jobVars, handle>>

DeleteNow ==
    /\ At(Owner, "deleteNow")
    /\ freed' = TRUE
    /\ Goto(Owner, "end")
    /\ UNCHANGED <<flagVars, eventVars, owned, runs, ret, waitsFor, timed, handle>>

\* Observers stay away once the owner deletes the job.
ClientStep ==
    \/ Terminate
    \/ WaitUntilDone(Owner)
    \/ \E x \in Observers : pc[Owner] \in {"ready", "waited"} /\ WaitUntilDone(x)
    \/ \E x \in Observers \cup {Owner} : WaitDone(x)
    \/ \E terminate \in BOOLEAN : Delete(terminate)
    \/ DeleteExecute
    \/ DeleteWait
    \/ DeleteNow

MethodStep(x) ==
    \/ Execute(x)
    \/ WaitTest(x)
    \/ AutoAllocTest(x)
    \/ AutoAllocAssign(x)
    \/ WaitRetest(x)
    \/ Unblock(x)

\* The job has been constructed and scheduled.
Init ==
    /\ waiting = TRUE
    /\ terminated = FALSE
    /\ scheduled = TRUE
    /\ state = [e \in Events |-> FALSE]
    /\ event = [e \in Events |-> NoHandle]
    /\ signalled = {}
    /\ used = {}
    /\ owned \in Ownerships
    /\ freed = FALSE
    /\ runs = 0
    /\ pc = [x \in Actors |-> IF x = Scheduler THEN "queued" ELSE "ready"]
    /\ ret = [x \in Actors |-> "end"]
    /\ waitsFor = [x \in Actors |-> "executionDone"]
    /\ timed = [x \in Actors |-> FALSE]
    /\ handle = [x \in Actors |-> NoHandle]

Next ==
    \/ SchedulerStep
    \/ ClientStep
    \/ \E x \in Actors : MethodStep(x)

Spec == Init /\ [][Next]_vars

-----------------------------------------------------------------------------
Places == {"queued", "ready", "claim", "run", "setDone", "signalDone", "testScheduled",
           "setDeletable", "signalDeletable", "clearScheduled", "testDone",
           "unscheduled", "waitDone", "waitTest", "autoAlloc", "assign", "waitRetest",
           "block", "waited", "delete", "deleteWait", "deleteNow", "end"}

TypeOK ==
    /\ waiting \in BOOLEAN
    /\ terminated \in BOOLEAN
    /\ scheduled \in BOOLEAN
    /\ state \in [Events -> BOOLEAN]
    /\ event \in [Events -> Handles \cup {NoHandle}]
    /\ signalled \subseteq Handles
    /\ used \subseteq Handles
    /\ owned \in BOOLEAN
    /\ freed \in BOOLEAN
    /\ runs \in Nat
    /\ pc \in [Actors -> Places]
    /\ ret \in [Actors -> Places]
    /\ waitsFor \in [Actors -> Events]
    /\ timed \in [Actors -> BOOLEAN]
    /\ handle \in [Actors -> Handles \cup {NoHandle}]

(* "Jobs will be executed only once": the worker, an inline wait and       *)
(* Delete may all call Execute, but InternalExecute is entered by at most  *)
(* one of them, and nobody sees the job done while it still runs.          *)
RunsOnce ==
    /\ runs <= 1
    /\ \A x, y \in Actors : pc[x] = "run" /\ pc[y] = "run" => x = y
    /\ state["executionDone"] => \A x \in Actors : pc[x] # "run"

\* The scheduler owns the job and has never begun to execute it.
Unexecuted == owned /\ waiting /\ runs = 0

(* No job is deleted before the scheduler has let go of it ("The job must  *)
(* not be deleted before this function [OnUnSchedule] has been called") or *)
(* while somebody runs it, and a job that anybody began to execute, or     *)
(* that its owner deletes, only once it is done and deletable.  The rest   *)
(* are the jobs a stopped scheduler owns and drains: it deletes them       *)
(* unexecuted and not deletable, against ~CJobBase's                       *)
(* assert (deletable.Test ()).                                             *)
DeletedOnlyWhenSafe ==
    freed => /\ ~scheduled
             /\ \A x \in Actors : pc[x] # "run"
             /\ ~Unexecuted => state["deletable"] /\ state["executionDone"]

\* Actors in the second half of Set of an event.
Signalling(e) == {x \in Actors : pc[x] = IF e = "deletable" THEN "signalDeletable"
                                                           ELSE "signalDone"}

(* No thread sleeps through the event it waits for: once Set is complete,  *)
(* the handle of every blocked thread is signalled, although Set skips     *)
(* SetEvent when it sees no handle (WaitFor looks at the state again after *)
(* it allocated one).                                                      *)
NoSleepThroughSignal ==
    \A x \in Actors :
       /\ pc[x] = "block" /\ ~freed
       /\ state[waitsFor[x]]
       /\ Signalling(waitsFor[x]) = {}
       => handle[x] \in signalled

-----------------------------------------------------------------------------
(***************************************************************************)
(* Liveness: every thread goes on, and the job ends.  A method works on an *)
(* existing object.                                                        *)
(***************************************************************************)
Fairness ==
    /\ WF_vars(SchedulerStep)
    /\ \A x \in Actors : WF_vars(MethodStep(x))
    /\ WF_vars(DeleteExecute \/ DeleteWait \/ DeleteNow)
    /\ \A x \in Observers \cup {Owner} : WF_vars(WaitDone(x))

FairSpec == Spec /\ Fairness

(* Delete returns: of OnUnSchedule and Execute, each of which sets one     *)
(* flag and tests the other's, at least one sees both and sets deletable.  *)
DeleteReturns == pc[Owner] = "delete" ~> freed

=============================================================================
