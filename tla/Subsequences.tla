---------------------------- MODULE Subsequences ----------------------------
(***************************************************************************)
(* What a loop that erases values from a list leaves of it.  Written with  *)
(* the places that are kept instead of SelectSeq, whose recursion is out   *)
(* of the reach of the proofs.                                             *)
(***************************************************************************)
EXTENDS Naturals, Sequences, FiniteSets

\* The numbers of the finite set S in ascending order: the n-th one is that
\* which n of them do not exceed.
Ascending(S) ==
    [n \in 1 .. Cardinality(S) |-> CHOOSE x \in S : Cardinality({y \in S : y <= x}) = n]

\* The sequence s without the values of S.
Omit(s, S) ==
    LET kept == Ascending({k \in DOMAIN s : s[k] \notin S})
    IN  [n \in DOMAIN kept |-> s[kept[n]]]
=============================================================================
