---------------------------- MODULE MCCompaction ----------------------------
(* Instances of Compaction for TLC.                                            *)
EXTENDS Compaction, TLC

LargeMessages == [user |-> {1, 2}, bash |-> {1}, assistant |-> {1, 2}, toolResult |-> {1, 2}]

CompactorsAlike == Permutations(Compactors)
=============================================================================
