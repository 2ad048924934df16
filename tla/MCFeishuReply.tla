--------------------------- MODULE MCFeishuReply ---------------------------
(* Instances of FeishuReply for TLC.                                          *)
EXTENDS FeishuReply

(* Two texts, the second of which begins as the first ends.                   *)
MCScript == << <<1, 2>>, <<2, 3>> >>
MCAgain == << <<4>> >>

Finished == Over /\ (ticks = MaxTicks \/ closed) /\ UNCHANGED vars
MCFairSpec == Init /\ [][Next \/ Finished]_vars /\ Fairness
=============================================================================
