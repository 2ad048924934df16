--------------------------- MODULE MCAgentSession ---------------------------
(* Bounds for AgentSession. *)
EXTENDS AgentSession

MCBounds(all, each, others) ==
  [b \in {"prompts", "queued", "bash", "calls", "big", "faults", "throws", "aborts",
          "clears", "compactions", "all"} |->
     IF b = "all" THEN all ELSE IF b \in DOMAIN each THEN each[b] ELSE others]

\* Five things may happen, two prompts and two failures among them.
SessionBounds == MCBounds(5, [prompts |-> 2, faults |-> 2, compactions |-> 2], 1)

\* A prompt, a retryable failure or not, and a run that fails.
HangBounds == MCBounds(3, [prompts |-> 1, faults |-> 1, throws |-> 1], 0)
=============================================================================
