--------------------------- MODULE MCSlackChannel ---------------------------
(* Instances of SlackChannel for TLC.                                         *)
EXTENDS SlackChannel

CONSTANTS m1, m2, c1
MCTasks == Mentions \cup Events
(* A mention and a remark that say the same, and a mention by somebody whose  *)
(* name is not known.                                                         *)
MCText(m) == IF m = c1 THEN m1 ELSE m
MCPromptText(m) == IF m = m2 THEN "unknown" ELSE MCText(m)

(* A channel may stay quiet.                                                  *)
Quiet == activations = {} /\ UNCHANGED channelVars
MCChannelSpec == ChannelInit /\ [][ChannelNext \/ Quiet]_channelVars /\ ChannelFairness
=============================================================================
