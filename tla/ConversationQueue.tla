-------------------------- MODULE ConversationQueue --------------------------
(***************************************************************************)
(* channel-core/src/queue.ts: the queue that runs the messages of one       *)
(* conversation one after the other.  mom's ChannelQueue (slack.ts) has the *)
(* same body.                                                               *)
(*                                                                          *)
(* processNext() is an async function: every call that passes its guard is  *)
(* an activation of its own, suspended at `await task.run()', and nothing   *)
(* but the flag `processing' keeps two of them from running side by side.   *)
(* A task's promise settles in one step and the activation that awaits it   *)
(* resumes in a later one; anything may be enqueued between the two.        *)
(***************************************************************************)
EXTENDS Naturals, Sequences

CONSTANT Tasks     \* every task is enqueued at most once

VARIABLES
  tasks,           \* ConversationQueue.tasks
  processing,      \* ConversationQueue.processing
  activations,     \* tasks some activation of processNext() awaits
  settled,         \* those of them whose promise is fulfilled or rejected
  enqueued         \* tasks enqueue() was called with

vars == <<tasks, processing, activations, settled, enqueued>>

Init ==
  /\ tasks = <<>> /\ processing = FALSE /\ activations = {}
  /\ settled = {} /\ enqueued = {}

(* processNext(), called with queue q, flag busy and the other activations. *)
ProcessNext(q, busy, others) ==
  IF busy \/ q = <<>> THEN
    /\ tasks' = q /\ processing' = busy /\ activations' = others
  ELSE
    /\ tasks' = Tail(q) /\ processing' = TRUE
    /\ activations' = others \cup {Head(q)}

EnqueueInFront(t) ==                                             \* mutant
  /\ t \notin enqueued
  /\ enqueued' = enqueued \cup {t}
  /\ ProcessNext(<<t>> \o tasks, processing, activations)
  /\ UNCHANGED settled
Enqueue(t) ==
  /\ t \notin enqueued
  /\ enqueued' = enqueued \cup {t}
  /\ ProcessNext(Append(tasks, t), processing, activations)
  /\ UNCHANGED settled

Settle(t) ==
  /\ t \in activations \ settled
  /\ settled' = settled \cup {t}
  /\ UNCHANGED <<tasks, processing, activations, enqueued>>

(* The `finally' of processNext(): the next task starts in the same step.   *)
Resume(t) ==
  /\ t \in activations \cap settled
  /\ settled' = settled \ {t}
  /\ ProcessNext(tasks, FALSE, activations \ {t})
  /\ UNCHANGED enqueued

Clear ==
  /\ tasks' = <<>>
  /\ UNCHANGED <<processing, activations, settled, enqueued>>

Next ==
  \/ \E t \in Tasks : Enqueue(t) \/ Settle(t) \/ Resume(t)
  \/ Clear

Spec == Init /\ [][Next]_vars

-----------------------------------------------------------------------------
TypeOK ==
  /\ tasks \in Seq(Tasks) /\ processing \in BOOLEAN
  /\ activations \subseteq Tasks /\ settled \subseteq activations
  /\ enqueued \subseteq Tasks

(* The flag does what a lock would: at most one activation of processNext() *)
(* is suspended in a task, and there is one exactly while the flag is set.  *)
OneActivation ==
  IF processing THEN \E t \in Tasks : activations = {t} ELSE activations = {}

(* A task waits only while some activation is there to start it: between    *)
(* `processing = false' and the next task no enqueue can slip in and leave  *)
(* the queue asleep with work in it.                                        *)
NeverStalls == tasks # <<>> => activations # {}
Waits(t) == \E k \in DOMAIN tasks : tasks[k] = t

(* The queue does what a serial executor promises: never two conversations' *)
(* turns at once, none started out of order, whatever its tasks do and      *)
(* however enqueue() and clear() fall between them.                         *)
Abstract == INSTANCE SerialExecutor WITH waiting <- tasks, active <- activations
ImplementsSerialExecutor == Abstract!Spec

=============================================================================
