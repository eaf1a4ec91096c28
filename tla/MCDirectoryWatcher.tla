------------------------- MODULE MCDirectoryWatcher -------------------------
(* Instance of DirectoryWatcher for TLC: C:\a with a folder below it, the  *)
(* folder C:\a1 whose name begins alike and which sorts between the two,   *)
(* and one on another drive.                                               *)
EXTENDS DirectoryWatcher

FourPaths == <<<<"c", "a">>, <<"c", "a1">>, <<"c", "a", "x">>, <<"d", "e">>>>
BeginsAlike == {<<"a", "a1">>}
AllPaths == {FourPaths[n] : n \in 1 .. 4}
MayBeRemoved == {<<"c", "a", "x">>}
=============================================================================
