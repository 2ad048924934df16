------------------------ MODULE MCFileMutationQueue ------------------------
(* "real" is a path without symbolic links, "alias" one that leads to the   *)
(* same file.                                                               *)
EXTENDS FileMutationQueue, TLC

AliasPaths == {"real", "alias"}
MCRealPath == [p \in Paths |-> "real"]
Interchangeable == Permutations(Calls)

MCSpec == Init /\ [][Next \/ Finished]_vars
=============================================================================
