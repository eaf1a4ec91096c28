--------------------------- MODULE MCJobScheduler ---------------------------
(* Instances of JobScheduler for TLC.  The constructor arguments are those *)
(* the program uses, scaled down: the default scheduler (0, SIZE_MAX), the *)
(* CPU scheduler of the revision graph (1, INT_MAX, aggressive), and the   *)
(* private ones (n, 0, aggressive) of the dialogs.                         *)
EXTENDS JobScheduler, TLC

CONSTANTS a, b

\* constructor arguments
Zero  == [s \in Schedulers |-> 0]
One   == [s \in Schedulers |-> 1]
Two   == [s \in Schedulers |-> 2]
OneZero == [s \in Schedulers |-> IF s = a THEN 1 ELSE 0]
Lazy  == [s \in Schedulers |-> FALSE]
Eager == [s \in Schedulers |-> TRUE]
ZeroOne == [s \in Schedulers |-> IF s = b THEN 1 ELSE 0]
OnlyB == [s \in Schedulers |-> s = b]

\* Workers, clients and jobs that behave alike are interchangeable.
Symmetry ==
    UNION {Permutations(X) : X \in {Workers, Clients, WaitingJobs, Jobs \ WaitingJobs}}
=============================================================================
