---------------------------- MODULE MCUniqueQueue ---------------------------
EXTENDS UniqueQueue

MCValues == 1 .. 4
=============================================================================
