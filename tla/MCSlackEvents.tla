---------------------------- MODULE MCSlackEvents ----------------------------
(* SlackEvents for TLC: contents are named for their kind.                     *)
EXTENDS SlackEvents

CONSTANTS immediate, soon, far, periodic, broken
MCKind(v) == CASE v = immediate -> "immediate"
               [] v \in {soon, far} -> "one-shot"
               [] v = periodic -> "periodic"
               [] OTHER -> "broken"
MCAt(v) == IF v = far THEN MaxNow + MaxDelay + 1 ELSE 1

(* The file may stay as it is.                                                 *)
Quiet == now = MaxNow /\ UNCHANGED eventVars
MCFairSpec == EventsInit /\ [][EventsNext \/ Quiet]_eventVars /\ EventsFairness
=============================================================================
