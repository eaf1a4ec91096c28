------------------------------ MODULE JobDeque ------------------------------
(***************************************************************************)
(* The promise of CJobScheduler::CQueue: a sequence of jobs, extended at   *)
(* the end, and shortened at the front (fifo) or at the end (lifo).        *)
(***************************************************************************)
EXTENDS Sequences, Integers

CONSTANT Jobs

VARIABLES entries, fifo

vars == <<entries, fifo>>

Init == entries = <<>> /\ fifo \in BOOLEAN

Push(job) == entries' = Append(entries, job) /\ UNCHANGED fifo

Pop ==
    /\ entries # <<>>
    /\ entries' = IF fifo THEN Tail(entries)
                          ELSE SubSeq(entries, 1, Len(entries) - 1)
    /\ UNCHANGED fifo

SetFifo(newValue) == fifo' = newValue /\ UNCHANGED entries

Next ==
    \/ \E job \in Jobs : Push(job)
    \/ Pop
    \/ \E b \in BOOLEAN : SetFifo(b)

Spec == Init /\ [][Next]_vars
=============================================================================
