------------------------------ MODULE JobQueue ------------------------------
(***************************************************************************)
(* CJobScheduler::CQueue (AsyncFramework/JobScheduler.h and .cpp): the job *)
(* queue as the code lays it out, one buffer with the valid entries in     *)
(* [first, last).  Pointers are indices into the buffer: `data` is the     *)
(* function buf on 0 .. capacity - 1 and the pointer `end` is capacity.    *)
(*                                                                         *)
(* The queue is only ever touched under the scheduler's mutex, so every    *)
(* method is one action.                                                   *)
(***************************************************************************)
EXTENDS Integers, Sequences

CONSTANTS Jobs,        \* the entries (TJob: a job and its ownership flag)
          NoJob,       \* content of a slot that was never written
          InitialSize  \* Grow (1024) in the constructor

ASSUME NoJobAssumption == NoJob \notin Jobs
ASSUME SizeAssumption == InitialSize \in Nat \ {0}

VARIABLES buf, first, last, capacity, fifo

queueVars == <<buf, first, last, capacity, fifo>>

Size == last - first

Empty == first = last

\* The entries, oldest first.
Entries == [i \in 1 .. Size |-> buf[first + i - 1]]

(***************************************************************************)
(* Buffer management.  Slots of a freshly allocated buffer are undefined;  *)
(* NoJob marks them, as it marks the slots memmove leaves behind.          *)
(***************************************************************************)

\* The entries b[lo .. hi-1] moved to the start of a buffer of n slots.
MoveToFront(b, lo, hi, n) ==
    [k \in 0 .. n - 1 |-> IF k < hi - lo THEN b[lo + k] ELSE NoJob]

\* AutoGrow: shift to the front while at most half of the buffer is in use,
\* otherwise double it.
GrownCapacity(count, cap) == IF 2 * count <= cap THEN cap ELSE 2 * cap

QueueInit ==
    /\ buf = [k \in 0 .. InitialSize - 1 |-> NoJob]
    /\ first = 0
    /\ last = 0
    /\ capacity = InitialSize
    /\ fifo \in BOOLEAN

Push(job) ==
    LET written == [buf EXCEPT ![last] = job]
        count   == last + 1 - first
        newCap  == GrownCapacity(count, capacity)
    IN /\ \/ /\ last + 1 < capacity
             /\ buf' = written
             /\ last' = last + 1
             /\ UNCHANGED <<first, capacity>>
          \/ /\ last + 1 = capacity
             /\ buf' = MoveToFront(written, first, last + 1, newCap)
             /\ first' = 0
             /\ last' = count
             /\ capacity' = newCap
       /\ UNCHANGED fifo

\* Mutant: the strategy is ignored.
PopNewest ==
    /\ ~Empty
    /\ first' = first /\ last' = last - 1
    /\ UNCHANGED <<buf, capacity, fifo>>

\* pop has no check of its own: every caller tests empty() first.
Pop ==
    /\ ~Empty
    /\ IF fifo THEN first' = first + 1 /\ last' = last
               ELSE first' = first /\ last' = last - 1
    /\ UNCHANGED <<buf, capacity, fifo>>

\* RemoveJobFromQueue switches the strategy and back.
SetFifo(newValue) ==
    /\ fifo' = newValue
    /\ UNCHANGED <<buf, first, last, capacity>>

QueueNext ==
    \/ \E job \in Jobs : Push(job)
    \/ Pop
    \/ \E b \in BOOLEAN : SetFifo(b)

QueueSpec == QueueInit /\ [][QueueNext]_queueVars

-----------------------------------------------------------------------------
QueueTypeOK ==
    /\ capacity \in Nat \ {0}
    /\ buf \in [0 .. capacity - 1 -> Jobs \cup {NoJob}]
    /\ first \in Nat
    /\ last \in Nat
    /\ fifo \in BOOLEAN

(* The next push always has a slot: `*last = job` never writes at or       *)
(* behind `end`, whatever sequence of push, pop (from either end) and      *)
(* AutoGrow led here.                                                      *)
RoomForPush == first <= last /\ last < capacity

(* No slot in [first, last) is one that was never written or was left      *)
(* behind by a move: pop only ever returns a job that push was given.      *)
EntriesAreJobs == \A k \in first .. last - 1 : buf[k] \in Jobs

(***************************************************************************)
(* What the queue promises: a double-ended sequence.                       *)
(***************************************************************************)
Abstract == INSTANCE JobDeque WITH entries <- Entries, fifo <- fifo

(* Refinement: shifting and doubling the buffer never loses, duplicates or *)
(* reorders an entry (AutoGrow, Grow).                                     *)
ImplementsDeque == Abstract!Spec
=============================================================================
