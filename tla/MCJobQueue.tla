----------------------------- MODULE MCJobQueue -----------------------------
(* Model of JobQueue for TLC: MaxSize bounds the number of queued jobs so  *)
(* that the buffer both shifts and doubles several times.                  *)
EXTENDS JobQueue

CONSTANT MaxSize

\* Bound on the queue depth (state constraint).
DepthBound == Size <= MaxSize
=============================================================================
