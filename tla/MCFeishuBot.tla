---------------------------- MODULE MCFeishuBot ----------------------------
(* Instances of FeishuBot for TLC.                                            *)
EXTENDS FeishuBot

MCTasks == Messages \X (1..MaxDeliveries)

(* The bot may fall silent when nothing is in flight and nothing is left to  *)
(* deliver, and the clock and the crashes are at their bounds.               *)
Silent ==
  /\ appending = {} /\ activations = {} /\ tasks = <<>>
  /\ delivered = MaxDeliveries /\ clock = MaxTime /\ crashes = MaxCrashes
  /\ UNCHANGED botVars
MCBotSpec == BotInit /\ [][BotNext \/ Silent]_botVars /\ BotFairness
=============================================================================
