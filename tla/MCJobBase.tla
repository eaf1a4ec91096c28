----------------------------- MODULE MCJobBase ------------------------------
(* Instances of JobBase for TLC. *)
EXTENDS JobBase, TLC

\* Observers and handles are interchangeable.
Symmetry == Permutations(Observers) \cup Permutations(Handles)
=============================================================================
