-------------------------- MODULE MCCachedDirectory --------------------------
EXTENDS CachedDirectory, TLC

\* Pipe threads are interchangeable.
Symmetry == Permutations(Shells)
=============================================================================
