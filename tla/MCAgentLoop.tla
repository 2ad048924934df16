----------------------------- MODULE MCAgentLoop -----------------------------
(* AgentLoop for TLC: the configurations give the modes and the bounds.     *)
EXTENDS AgentLoop

(* An idle agent may stay idle.  With this step in the next-state relation  *)
(* a deadlock is a loop stuck in the middle of a run.                       *)
StaysIdle == pc = "idle" /\ UNCHANGED vars

MCSpec == Init /\ [][Next \/ StaysIdle]_vars
MCFairSpec == MCSpec /\ Fairness
=============================================================================
