---------------------------- MODULE SlackChannel ----------------------------
(***************************************************************************)
(* One channel of mom: the socket handlers and the queue of mom/src/        *)
(* slack.ts, the handler of main.ts, and how agent.ts and context.ts bring  *)
(* the channel's log into the context of the model.                         *)
(*                                                                          *)
(* ChannelQueue has the body of ConversationQueue.  Events of the scheduler *)
(* may wait in it.  A mention never should: while a run is on it is only    *)
(* logged, and the next run finds it in the log.  What separates the two    *)
(* cases is the handler's flag `running', not the queue's `processing'.     *)
(*                                                                          *)
(* The end of a run, the `finally' of the handler and the queue's next      *)
(* start are microtasks of one turn of the event loop: no socket event      *)
(* comes between them, and they are one step here.                          *)
(***************************************************************************)
EXTENDS ConversationQueue

CONSTANTS
  Mentions,        \* messages that address mom
  Chatter,         \* messages of the channel that do not
  StopMessages,    \* messages that say "stop" to mom
  Events,          \* synthetic messages of the scheduler
  Text(_),         \* who said what, as the log has it: two may say the same
  PromptText(_),   \* the same, as run() hands it to prompt()
  MaxWaiting,      \* enqueueEvent() takes no more than this
  MaxRedelivered   \* bound: messages Slack delivers again

ASSUME ChannelAssumption ==
  /\ Tasks = Mentions \cup Events
  /\ Mentions \cap (Chatter \cup StopMessages) = {} /\ Chatter \cap StopMessages = {}
  /\ Events \cap (Mentions \cup Chatter \cup StopMessages) = {}
  /\ MaxWaiting \in Nat

ChannelMessages == Mentions \cup Chatter \cup StopMessages \cup Events

(* The log falls back on the id of a user whose name mom has not loaded,    *)
(* and the prompt on the word "unknown": the two texts differ.              *)
Unknown == {t \in Tasks : PromptText(t) # Text(t)}

VARIABLES
  running,         \* ChannelState.running
  stopRequested,   \* ChannelState.stopRequested
  phase,           \* where handleEvent() is
  aborted,         \* what session.abort() met: "nothing", or a run of the agent
  log,             \* log.jsonl: messages of users
  synced,          \* user messages of the session, copied from the log ...
  prompted,        \* ... or prompted: how often each of them
  turnedAway,      \* mentions answered with "Already working"
  discarded,       \* events the full queue did not take
  redelivered,
  heard            \* history: the log when the run began

handlerVars == <<running, stopRequested, phase, aborted, heard>>
context == <<synced, prompted>>
channelVars == <<vars, handlerVars, log, context, turnedAway, discarded, redelivered>>

ChannelInit ==
  /\ Init
  /\ running = FALSE /\ stopRequested = FALSE /\ phase = "none" /\ aborted = "none"
  /\ synced = [m \in ChannelMessages |-> 0] /\ prompted = [m \in ChannelMessages |-> 0]
  /\ log = {} /\ turnedAway = {} /\ discarded = {} /\ redelivered = 0 /\ heard = {}

-----------------------------------------------------------------------------
(* handleEvent() begins in the step in which its task is started, and sets  *)
(* the flags before its first await.                                        *)
Begins ==
  /\ phase' = "opening" /\ running' = TRUE /\ stopRequested' = FALSE
  /\ aborted' = "none" /\ heard' = log'
BeginsIfStarted ==
  IF activations' # activations THEN Begins ELSE UNCHANGED handlerVars

(* Every message is logged first.  Slack delivers a message again when the  *)
(* acknowledgement did not reach it.                                        *)
Logged(m) ==
  /\ log' = log \cup {m}
  /\ \/ m \notin log /\ UNCHANGED redelivered
     \/ m \in log /\ redelivered < MaxRedelivered /\ redelivered' = redelivered + 1

(* app_mention, and message of a direct channel.                            *)
Mention(m) ==
  /\ Logged(m)
  /\ IF running THEN turnedAway' = turnedAway \cup {m} /\ UNCHANGED <<vars, handlerVars>>
     ELSE /\ enqueued' = enqueued \cup {m}
          /\ ProcessNext(Append(tasks, m), processing, activations)
          /\ BeginsIfStarted /\ UNCHANGED <<settled, turnedAway>>
  /\ UNCHANGED <<context, discarded>>

Hears(m) ==
  /\ m \notin log /\ Logged(m)
  /\ UNCHANGED <<vars, handlerVars, context, turnedAway, discarded>>

(* enqueueEvent(): no question whether mom is busy, but a bound.            *)
EnqueueEventPast(e) ==                                           \* mutant
  /\ e \notin enqueued \cup discarded
  /\ UNCHANGED <<log, context, turnedAway, redelivered>>
  /\ IF Len(tasks) > MaxWaiting
     THEN discarded' = discarded \cup {e} /\ UNCHANGED <<vars, handlerVars>>
     ELSE Enqueue(e) /\ BeginsIfStarted /\ UNCHANGED discarded
EnqueueEvent(e) ==
  /\ e \notin enqueued \cup discarded
  /\ UNCHANGED <<log, context, turnedAway, redelivered>>
  /\ IF Len(tasks) >= MaxWaiting
     THEN discarded' = discarded \cup {e} /\ UNCHANGED <<vars, handlerVars>>
     ELSE Enqueue(e) /\ BeginsIfStarted /\ UNCHANGED discarded

(* Somebody says "stop".  abort() reaches the run of the agent only while   *)
(* there is one.                                                            *)
Stop(m) ==
  /\ Logged(m)
  /\ IF ~running THEN UNCHANGED handlerVars
     ELSE /\ stopRequested' = TRUE
          /\ aborted' = CASE phase = "prompting" -> "run"
                          [] phase # "prompting" /\ aborted = "none" -> "nothing"
                          [] OTHER -> aborted
          /\ UNCHANGED <<running, phase, heard>>
  /\ UNCHANGED <<vars, context, turnedAway, discarded>>

-----------------------------------------------------------------------------
(* The run of task t.                                                       *)
Said(S) == {Text(m) : m \in S}

(* The texts of the session, the time that prompt() puts before them taken  *)
(* off.                                                                     *)
ToldWithTheTime ==                                               \* mutant
  Said({m \in ChannelMessages : synced[m] > 0})
Told ==
  Said({m \in ChannelMessages : synced[m] > 0})
    \cup {PromptText(m) : m \in {n \in ChannelMessages : prompted[n] > 0}}

(* syncLogToSessionManager(): every text of the log the session does not    *)
(* have yet, but the message of the run itself, which prompt() will add.    *)
FirstWith(text, S) == CHOOSE m \in S : Text(m) = text
NewIn(S) == {FirstWith(x, S) : x \in Said(S) \ Told}
Added(S) == [m \in ChannelMessages |-> synced[m] + (IF m \in NewIn(S) THEN 1 ELSE 0)]
SyncsAll(t) ==                                                   \* mutant
  /\ t \in activations /\ phase = "opening" /\ phase' = "synced"
  /\ synced' = Added(log)
  /\ UNCHANGED <<vars, running, stopRequested, aborted, heard, log, prompted,
                 turnedAway, discarded, redelivered>>
SyncsChatter(t) ==                                               \* mutant
  /\ t \in activations /\ phase = "opening" /\ phase' = "synced"
  /\ synced' = Added(log \ Mentions)
  /\ UNCHANGED <<vars, running, stopRequested, aborted, heard, log, prompted,
                 turnedAway, discarded, redelivered>>
Syncs(t) ==
  /\ t \in activations /\ phase = "opening" /\ phase' = "synced"
  /\ synced' = Added(log \ {t})
  /\ UNCHANGED <<vars, running, stopRequested, aborted, heard, log, prompted,
                 turnedAway, discarded, redelivered>>

Prompts(t) ==
  /\ t \in activations /\ phase = "synced" /\ phase' = "prompting"
  /\ prompted' = [prompted EXCEPT ![t] = @ + 1]
  /\ UNCHANGED <<vars, running, stopRequested, aborted, heard, log, synced,
                 turnedAway, discarded, redelivered>>

(* The agent is done or aborted; what it said is posted.                    *)
Answers(t) ==
  /\ t \in activations /\ phase = "prompting" /\ phase' = "replying"
  /\ UNCHANGED <<vars, running, stopRequested, aborted, heard, log, context,
                 turnedAway, discarded, redelivered>>

(* The handler ends, from any phase if something throws, and the queue goes *)
(* on with the next task.                                                   *)
Ends(t) ==
  /\ t \in activations
  /\ UNCHANGED <<log, context, turnedAway, discarded, redelivered>>
  /\ enqueued' = enqueued /\ settled' = settled
  /\ ProcessNext(tasks, FALSE, activations \ {t})
  /\ IF tasks # <<>> THEN Begins
     ELSE /\ phase' = "none" /\ running' = FALSE
          /\ UNCHANGED <<stopRequested, aborted, heard>>

RunOf(t) == Syncs(t) \/ Prompts(t) \/ Answers(t) \/ Ends(t)

ChannelNext ==
  \/ \E m \in Mentions : Mention(m)
  \/ \E m \in Chatter : Hears(m)
  \/ \E e \in Events : EnqueueEvent(e)
  \/ \E t \in Tasks : RunOf(t)
  \/ \E m \in StopMessages : Stop(m)

ChannelSpec == ChannelInit /\ [][ChannelNext]_channelVars
(* The steps of a run end: requests settle and the agent stops.             *)
ChannelFairness == \A t \in Tasks : WF_channelVars(RunOf(t))
ChannelFairSpec == ChannelSpec /\ ChannelFairness

-----------------------------------------------------------------------------
(* What waits in the queue are events of the scheduler, no more than the    *)
(* bound: a mention is started at once or refused.  This holds because      *)
(* `running' of the handler and `processing' of the queue, two flags in two *)
(* files, agree whenever a socket event can come.                           *)
WaitingAreEvents ==
  Len(tasks) <= MaxWaiting /\ \A k \in DOMAIN tasks : tasks[k] \in Events
FlagsAgree == running = processing

(* What anybody said before a run began, also while mom was busy, is in the *)
(* context of that run.                                                     *)
ContextIsComplete ==
  phase = "prompting" => \A m \in heard : prompted[m] > 0 \/ Text(m) \in Told

(* A message is told to the model once, be it prompted and found in the log *)
(* by a later run, or copied from the log and prompted.  Slack may have it  *)
(* prompted again, and what an unknown user said is copied besides: the     *)
(* session has it under another name.                                       *)
ToldOnce ==
  \A m \in ChannelMessages :
    /\ synced[m] <= 1 /\ prompted[m] <= 1 + redelivered
    /\ m \notin Unknown => synced[m] + prompted[m] <= 1 + redelivered

=============================================================================
