--------------------------- MODULE SerialExecutor ---------------------------
(***************************************************************************)
(* What a serial queue promises its callers: tasks run one at a time, in    *)
(* the order they were submitted, the first at once if nothing runs, and    *)
(* the next one when the current one ends.  ConversationQueue and           *)
(* FileMutationQueue are two implementations of it.                         *)
(***************************************************************************)
EXTENDS Sequences

CONSTANT Tasks

VARIABLES
  waiting,   \* submitted and not started, oldest first
  active     \* the task that runs, if one does

vars == <<waiting, active>>

Init == waiting = <<>> /\ active = {}

Submit(t) ==
  IF active = {} THEN active' = {t} /\ UNCHANGED waiting
  ELSE waiting' = Append(waiting, t) /\ UNCHANGED active

Finish ==
  /\ active # {}
  /\ IF waiting = <<>> THEN active' = {} /\ UNCHANGED waiting
     ELSE active' = {Head(waiting)} /\ waiting' = Tail(waiting)

Discard == waiting' = <<>> /\ UNCHANGED active

Next == (\E t \in Tasks : Submit(t)) \/ Finish \/ Discard

Spec == Init /\ [][Next]_vars

=============================================================================
