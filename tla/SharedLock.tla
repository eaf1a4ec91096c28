----------------------------- MODULE SharedLock -----------------------------
(***************************************************************************)
(* What CReaderWriterLock (Utils/ReaderWriterLock) promises: "either       *)
(* concurrent read access for multiple threads, or write access for a      *)
(* single thread".  There is no step from "read" to "write" while another  *)
(* thread reads: an upgrade gives up the read access first, so what was    *)
(* read before it may be out of date after it.                             *)
(***************************************************************************)
CONSTANT Threads

VARIABLE holds   \* the access each thread has

Init == holds = [t \in Threads |-> "none"]

OthersOf(t) == {holds[u] : u \in Threads \ {t}}

Take(t, access) == holds' = [holds EXCEPT ![t] = access]

Read(t)  == "write" \notin OthersOf(t) /\ Take(t, "read")
Write(t) == OthersOf(t) \subseteq {"none"} /\ Take(t, "write")
Leave(t) == Take(t, "none")

Next == \E t \in Threads : Read(t) \/ Write(t) \/ Leave(t)

Spec == Init /\ [][Next]_holds
=============================================================================
