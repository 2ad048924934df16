---------------------------- MODULE MCSessionTree ----------------------------
(* Instances of SessionTree for TLC.                                           *)
EXTENDS SessionTree, TLC

FilesAlike == Permutations(Files) \cup Permutations(Processes)
=============================================================================
