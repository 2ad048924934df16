---------------------------- MODULE AgentSession ----------------------------
(***************************************************************************)
(* AgentSession of coding-agent/src/core/agent-session.ts: what happens    *)
(* between an agent, which emits events and does not wait for the session, *)
(* and the session, which handles them one after the other.  Handling a    *)
(* message persists it; handling agent_end may sleep and retry, or         *)
(* compact, both of which edit the transcript of an agent that may already *)
(* be running again.  Callers of prompt(), steer(), abort(), clearQueue()  *)
(* and recordBashResult() come in at any await.                            *)
(*                                                                         *)
(* The agent is the one of module AgentLoop, reduced to what the session   *)
(* sees of it: the messages it appends and emits, its two queues, and the  *)
(* end of a run.  Everything an agent does between two awaits that wait    *)
(* for nothing outside the process is one step here.                       *)
(***************************************************************************)
EXTENDS Naturals, FiniteSets, SequencesExt

CONSTANTS
  Callers,      \* callers of prompt(), one call each at a time
  MaxRetries,   \* settings: retry.maxRetries
  ThrowPhases,  \* where a run itself may fail: "respond" (credentials, hooks on
                \* the request), "tools" (hooks on tool results)
  Bounds        \* how often each thing may happen, see Init

ASSUME SessionAssumption ==
  /\ "handler" \notin Callers
  /\ MaxRetries \in Nat
  /\ ThrowPhases \subseteq {"respond", "tools"}
  /\ Bounds \in [{"prompts", "queued", "bash", "calls", "big", "faults",
                  "throws", "aborts", "clears", "compactions", "all"} -> Nat]

VARIABLES
  messages,     \* agent.state.messages
  session,      \* the entries of the session manager's branch
  run,          \* the agent's active run
  steering,     \* the agent's queues ...
  followUp,
  steeringMessages,  \* ... and the session's copies of them for display
  followUpMessages,
  agentEventQueue,   \* events emitted by the agent and not yet handled
  handler,      \* where _processAgentEvent is with the first of them
  handled,      \* the assistant message it is retrying or compacting for
  lastAssistant,     \* _lastAssistantMessage
  retryPromise, \* is _retryPromise pending?
  retryAttempt,
  overflowRecoveryAttempted,
  compacting,   \* the automatic compaction in progress, by who awaits it
  timers,       \* setTimeout callbacks that will call agent.continue()
  caller,       \* where each caller of prompt() is
  pendingBash,  \* _pendingBashMessages
  made,         \* how many messages were made, which is also the clock
  left,         \* what is left of Bounds
  emitted,      \* ghost: the messages of all message_end events
  raced,        \* ghost: the transcript was edited while the session was behind
  released,     \* ghost: the promise was resolved with a retry still to come
  unanswered    \* ghost: a run failed before the model had given it an answer

agent == <<messages, run, steering, followUp, agentEventQueue, emitted>>
queues == <<steering, followUp, steeringMessages, followUpMessages>>
retry == <<retryPromise, retryAttempt>>
handling == <<handler, handled, lastAssistant>>
vars == <<agent, session, steeringMessages, followUpMessages, handling, retry,
          overflowRecoveryAttempted, compacting, timers, caller, pendingBash,
          made, left, raced, released, unanswered>>

-----------------------------------------------------------------------------
(* Messages, entries and events.  n is when a message was made; big: its      *)
(* usage is above the threshold of compaction.  An error is worth a retry, a *)
(* failure is not, an overflow is one for which the context was too long; an *)
(* overlong answer is a success, but its input was above the window.         *)

Replies == {"call", "answer", "overlong", "error", "failed", "overflow", "aborted"}
Message(kind, n, big) == [kind |-> kind, n |-> n, big |-> big]
None == Message("none", 0, FALSE)
AgentEnd == Message("agent_end", 0, FALSE)
IsAssistant(m) == m.kind \in Replies
IsError(m) == m.kind \in {"error", "overflow", "failed"}
IsContextOverflow(m) == m.kind \in {"overflow", "overlong"}

\* early: ghost, a caller of prompt() compacted before the session had handled
\* all events, or the session reset overflowRecoveryAttempted meanwhile. back:
\* ghost, see BringsBack.
NotCompacting == [reason |-> "none", first |-> 0, saved |-> FALSE, early |-> FALSE]
Compacted(n, c, back) ==
  [kind |-> "compaction", n |-> n, first |-> c.first, reason |-> c.reason,
   early |-> c.early, back |-> back]
\* answered: the model has answered in this run.
NoRun == [phase |-> "idle", aborted |-> FALSE, owner |-> "none", answered |-> FALSE]
StartedBy(owner) == [NoRun EXCEPT !.phase = "respond", !.owner = owner]
Actors == Callers \cup {"handler"}

LatestCompaction(s) ==
  LET all == {i \in DOMAIN s : s[i].kind = "compaction"}
  IN IF all = {} THEN 0 ELSE CHOOSE i \in all : \A j \in all : j <= i

IsMessage(e) == e.kind # "compaction"
MessagesOf(s) ==
  LET upTo[i \in 0..Len(s)] == IF i = 0 THEN <<>>
                               ELSE IF IsMessage(s[i]) THEN Append(upTo[i - 1], s[i])
                               ELSE upTo[i - 1]
  IN upTo[Len(s)]

\* What the model is shown of a branch: the latest summary, what it kept, what
\* followed.
BuildSessionContext(s) ==
  LET c == LatestCompaction(s)
  IN IF c = 0 THEN s
     ELSE <<Message("summary", s[c].n, FALSE)>>
          \o MessagesOf(SubSeq(s, s[c].first, c - 1))
          \o SubSeq(s, c + 1, Len(s))

\* Where the cut of a compaction may fall: not on a tool result, and not before
\* what the previous compaction kept.
CutPoints(s) ==
  LET c == LatestCompaction(s)
      start == IF c = 0 THEN 1 ELSE s[c].first
      cuts == {i \in start..Len(s) : s[i].kind \notin {"result", "compaction"}}
  IN IF cuts = {} THEN {start} ELSE cuts

WithoutLast(s) == SubSeq(s, 1, Len(s) - 1)
EndsInAssistant(s) == s # <<>> /\ IsAssistant(Last(s))

\* The answer leaves the transcript; it stays in the session.
StripLastAssistant(s) == IF EndsInAssistant(s) THEN WithoutLast(s) ELSE s

Unhandled == SelectSeq(agentEventQueue, LAMBDA e : e.kind # "agent_end")
Behind == \E i \in DOMAIN agentEventQueue : agentEventQueue[i].kind # "agent_end"

-----------------------------------------------------------------------------
Init ==
  /\ messages = <<>>
  /\ session = <<>>
  /\ run = NoRun
  /\ steering = <<>>
  /\ followUp = <<>>
  /\ steeringMessages = <<>>
  /\ followUpMessages = <<>>
  /\ agentEventQueue = <<>>
  /\ handler = "ready"
  /\ handled = None
  /\ lastAssistant = None
  /\ retryPromise = FALSE
  /\ retryAttempt = 0
  /\ overflowRecoveryAttempted = FALSE
  /\ compacting = [a \in Actors |-> NotCompacting]
  /\ timers = 0
  /\ caller = [c \in Callers |-> "out"]
  /\ pendingBash = <<>>
  /\ made = 0
  /\ left = Bounds
  /\ emitted = <<>>
  /\ raced = FALSE
  /\ released = FALSE
  /\ unanswered = FALSE

Spend(what) ==
  /\ left[what] > 0
  /\ left["all"] > 0
  /\ left' = [left EXCEPT ![what] = @ - 1, !["all"] = @ - 1]

IsStreaming == run.phase # "idle"
HandlerBusy == handler # "ready" \/ compacting["handler"] # NotCompacting

-----------------------------------------------------------------------------
(* The agent                                                                 *)

\* Messages enter the transcript and their events reach the session's handler,
\* which queues them without being awaited.
EmitMessages(ms) ==
  /\ messages' = messages \o ms
  /\ emitted' = emitted \o ms
  /\ agentEventQueue' = agentEventQueue \o ms

\* A queue drained in mode "one-at-a-time", the default of the settings.
Drained(q) == IF q = <<>> THEN <<>> ELSE <<Head(q)>>

\* A run starts: its prompts, then what the first poll finds.
Start(prompts, owner) ==
  /\ ~IsStreaming
  /\ run' = StartedBy(owner)
  /\ EmitMessages(prompts \o Drained(steering))
  /\ steering' = IF steering = <<>> THEN <<>> ELSE Tail(steering)
  /\ UNCHANGED followUp

\* continue() on an answer: a queued message is the prompt, and the first poll
\* for steering messages is skipped if it was one.
StartFromQueue ==
  /\ ~IsStreaming
  /\ \/ /\ steering # <<>>
        /\ run' = StartedBy("none")
        /\ EmitMessages(Drained(steering))
        /\ steering' = Tail(steering)
        /\ UNCHANGED followUp
     \/ /\ steering = <<>>
        /\ followUp # <<>>
        /\ run' = StartedBy("none")
        /\ EmitMessages(Drained(followUp))
        /\ followUp' = Tail(followUp)
        /\ UNCHANGED steering

CreateLater(kind) == UNCHANGED retryPromise \* mutant

\* What _createRetryPromiseForAgentEnd does at once.
CreateRetryPromise(kind) == retryPromise' = (retryPromise \/ kind = "error")

\* The callers that await the end of the run, as prompt() or in waitForRetry().
RunFinished ==
  /\ run' = NoRun
  /\ caller' = [c \in Callers |->
       CASE caller[c] = "running" /\ run.owner = c -> "returned"
         [] caller[c] = "settling" -> "out"
         [] OTHER -> caller[c]]

\* The last messages of a run and agent_end.
End(ms, kind) ==
  /\ messages' = messages \o ms
  /\ emitted' = emitted \o ms
  /\ agentEventQueue' = (agentEventQueue \o ms) \o <<AgentEnd>>
  /\ CreateRetryPromise(kind)
  /\ RunFinished

Made(kind, big) == Message(kind, made + 1, big)

\* A response that calls tools.
RespondWithCall ==
  /\ run.phase = "respond"
  /\ ~run.aborted
  /\ Spend("calls")
  /\ EmitMessages(<<Made("call", FALSE)>>)
  /\ run' = [run EXCEPT !.phase = "tools", !.answered = TRUE]
  /\ made' = made + 1
  /\ UNCHANGED <<queues, session, handling, retry, overflowRecoveryAttempted,
                 compacting, timers, caller, pendingBash, raced, released, unanswered>>

\* The result of the call, and the poll for steering messages after it.
FinishTools ==
  /\ run.phase = "tools"
  /\ EmitMessages(<<Made("result", FALSE)>> \o Drained(steering))
  /\ steering' = IF steering = <<>> THEN <<>> ELSE Tail(steering)
  /\ run' = [run EXCEPT !.phase = "respond"]
  /\ made' = made + 1
  /\ UNCHANGED <<followUp, steeringMessages, followUpMessages, session, handling,
                 retry, overflowRecoveryAttempted, compacting, timers, caller,
                 pendingBash, left, raced, released, unanswered>>

\* How large the context is by an answer: above the threshold, above the window.
Sizes == {"small", "big", "over"}
AnswerOf(size) == Made(IF size = "over" THEN "overlong" ELSE "answer", size # "small")

\* An answer without calls: the queues are polled, and the run ends if they are
\* empty.
RespondWithAnswer(size) ==
  /\ run.phase = "respond"
  /\ ~run.aborted
  /\ IF size = "small" THEN UNCHANGED left ELSE Spend("big")
  /\ \/ /\ steering # <<>>
        /\ EmitMessages(<<AnswerOf(size), Head(steering)>>)
        /\ steering' = Tail(steering)
        /\ run' = [run EXCEPT !.answered = TRUE]
        /\ UNCHANGED <<followUp, retryPromise, caller>>
     \/ /\ steering = <<>>
        /\ followUp # <<>>
        /\ EmitMessages(<<AnswerOf(size), Head(followUp)>>)
        /\ followUp' = Tail(followUp)
        /\ run' = [run EXCEPT !.answered = TRUE]
        /\ UNCHANGED <<steering, retryPromise, caller>>
     \/ /\ steering = <<>>
        /\ followUp = <<>>
        /\ End(<<AnswerOf(size)>>, "answer")
        /\ UNCHANGED <<steering, followUp>>
  /\ made' = made + 1
  /\ UNCHANGED <<steeringMessages, followUpMessages, session, handling,
                 retryAttempt, overflowRecoveryAttempted, compacting, timers,
                 pendingBash, raced, released, unanswered>>

\* A response that fails or was aborted ends the run without a poll.
RespondWithFailure(kind) ==
  /\ run.phase = "respond"
  /\ (kind = "aborted") <=> run.aborted
  /\ IF kind = "aborted" THEN UNCHANGED left ELSE Spend("faults")
  /\ End(<<Made(kind, FALSE)>>, kind)
  /\ made' = made + 1
  /\ UNCHANGED <<queues, session, handling, retryAttempt,
                 overflowRecoveryAttempted, compacting, timers, pendingBash, raced,
                 released, unanswered>>

\* The loop itself throws, with a text that reads like a retryable error or
\* not: the message for it enters the transcript, and only agent_end is emitted.
Throw(kind) ==
  LET seen == IF run.aborted THEN "aborted" ELSE kind IN
  /\ run.phase \in ThrowPhases
  /\ Spend("throws")
  /\ messages' = Append(messages, Made(seen, FALSE))
  /\ made' = made + 1
  /\ agentEventQueue' = Append(agentEventQueue, AgentEnd)
  /\ CreateRetryPromise(seen)
  /\ RunFinished
  /\ unanswered' = (unanswered \/ ~run.answered)
  /\ UNCHANGED <<queues, emitted, session, handling, retryAttempt,
                 overflowRecoveryAttempted, compacting, timers, pendingBash, raced,
                 released>>

-----------------------------------------------------------------------------
(* Retry and automatic compaction, shared by the handler of agent_end and by *)
(* prompt()                                                                  *)

\* A retryable failure the handler has not come to yet.
RetryAhead(events, last) ==
  last.kind = "error" \/ \E i \in DOMAIN events : events[i].kind = "error"

KeepPromise(events, last) == UNCHANGED <<retryPromise, caller, released>> \* mutant

ReleaseNobody(events, last) == \* mutant
  retryPromise' = FALSE /\ UNCHANGED <<caller, released>>

\* Whoever waits for the promise goes on to wait for the agent.
ResolveRetry(events, last) ==
  /\ released' = (released \/ RetryAhead(events, last))
  /\ retryPromise' = FALSE
  /\ caller' = [c \in Callers |->
       IF retryPromise /\ caller[c] = "waiting" THEN "settling" ELSE caller[c]]

\* The credentials for it are awaited first.
BeginCompaction(a, reason) ==
  compacting' = [compacting EXCEPT ![a] =
    [NotCompacting EXCEPT !.reason = reason,
                          !.early = a # "handler" /\ Behind]]

\* The answer was made before the latest compaction.
IsStale(m) ==
  LET c == LatestCompaction(session) IN c # 0 /\ m.n <= session[c].n

\* An assistant message other than the one meant is the last of the transcript.
StripsAnother(ms, m) == EndsInAssistant(ms) /\ Last(ms).n # m.n

\* An answer stands for its own size, a failure for the size of the last answer
\* that has one and of what follows that in the transcript.
HasUsage(m) == m.kind \in {"call", "answer", "overlong"}
IsLarge(m, trailing) ==
  LET sized == SelectSeq(messages, HasUsage)
  IN IF IsError(m)
     THEN sized # <<>> /\ ~IsStale(Last(sized)) /\ (Last(sized).big \/ trailing)
     ELSE m.big

CheckAgain(a, m, skipAborted, ms, behind) == \* mutant
  IF IsContextOverflow(m) /\ ~IsStale(m)
  THEN /\ overflowRecoveryAttempted' = TRUE
       /\ messages' = StripLastAssistant(ms)
       /\ raced' = (raced \/ behind \/ StripsAnother(ms, m))
       /\ BeginCompaction(a, "overflow")
  ELSE /\ messages' = ms
       /\ raced' = (raced \/ behind)
       /\ UNCHANGED <<overflowRecoveryAttempted, compacting>>

\* For the last answer m, with the transcript ms as the caller has left it. The
\* model may be another than the one that answered: the user can choose one at
\* any time, and a run keeps the one it has started with.  trailing: what follows
\* the last usage takes the context above the threshold.
CheckCompaction(a, m, skipAborted, ms, behind) ==
  \E sameModel, trailing \in BOOLEAN :
    LET considered == ~(skipAborted /\ m.kind = "aborted") /\ ~IsStale(m)
        overflow == considered /\ sameModel /\ IsContextOverflow(m)
        recover == overflow /\ ~overflowRecoveryAttempted
        threshold == considered /\ ~overflow /\ IsLarge(m, trailing)
    IN \/ /\ recover
          /\ overflowRecoveryAttempted' = TRUE
          /\ messages' = StripLastAssistant(ms)
          /\ raced' = (raced \/ behind \/ StripsAnother(ms, m))
          /\ BeginCompaction(a, "overflow")
       \/ /\ ~recover
          /\ messages' = ms
          /\ raced' = (raced \/ behind)
          /\ UNCHANGED overflowRecoveryAttempted
          /\ IF threshold THEN BeginCompaction(a, "threshold")
             ELSE UNCHANGED compacting

ShowKept(entries) == \* mutant
  SubSeq(entries, Last(entries).first, Len(entries) - 1)

Shown(entries) == BuildSessionContext(entries)

\* From here on the compaction works on the branch it reads, unless there is
\* nothing to compact.
CompactionPrepared(a) ==
  /\ compacting[a] # NotCompacting
  /\ compacting[a].first = 0
  /\ IF session = <<>> \/ ~IsMessage(Last(session))
     THEN compacting' = [compacting EXCEPT ![a] = NotCompacting]
     ELSE \E first \in CutPoints(session) :
            compacting' = [compacting EXCEPT ![a].first = first]
  /\ UNCHANGED <<agent, steeringMessages, followUpMessages, session, handling,
                 retry, overflowRecoveryAttempted, timers, caller, pendingBash,
                 made, left, raced, released, unanswered>>

\* ghost: the transcript ends in an answer again, of an agent that is about to ask
\* the model or whose failure is still to be retried.
BringsBack(ms) ==
  /\ EndsInAssistant(ms)
  /\ run.phase # "tools"
  /\ IsStreaming \/ retryPromise \/ agentEventQueue # <<>>

\* The summary is there: it is appended to wherever the session is by now, and
\* the transcript is replaced by what the session shows.
CompactionSaved(a) ==
  LET c == compacting[a]
      entries(back) == Append(session, Compacted(made + 1, c, back))
  IN /\ c.first # 0
     /\ ~c.saved
     /\ Spend("compactions")
     /\ made' = made + 1
     /\ messages' = Shown(entries(FALSE))
     /\ session' = entries(BringsBack(messages'))
     /\ raced' = (raced \/ Behind)
     /\ compacting' = [compacting EXCEPT ![a].saved = TRUE]
     /\ UNCHANGED <<run, queues, agentEventQueue, emitted, handling, retry, timers,
                    overflowRecoveryAttempted, caller, pendingBash, released, unanswered>>

\* After the extensions: the failure to be retried leaves the transcript again
\* (an overlong answer does not, so that the retry finds nothing to do),
\* and a timer is set for the retry or for messages that wait in the queues.
CompactionDone(a) ==
  LET willRetry == compacting[a].reason = "overflow" IN
  /\ compacting[a].saved
  /\ compacting' = [compacting EXCEPT ![a] = NotCompacting]
  /\ messages' = IF willRetry /\ messages # <<>> /\ IsError(Last(messages))
                 THEN WithoutLast(messages) ELSE messages
  /\ timers' = IF willRetry \/ steering # <<>> \/ followUp # <<>>
               THEN timers + 1 ELSE timers
  /\ UNCHANGED <<run, queues, agentEventQueue, emitted, session, handling, retry,
                 overflowRecoveryAttempted, caller, pendingBash, made, left, raced,
                 released, unanswered>>

\* It was cancelled, or no summary could be had.
CompactionFails(a) ==
  /\ compacting[a] # NotCompacting
  /\ ~compacting[a].saved
  /\ compacting' = [compacting EXCEPT ![a] = NotCompacting]
  /\ UNCHANGED <<agent, steeringMessages, followUpMessages, session, handling,
                 retry, overflowRecoveryAttempted, timers, caller, pendingBash,
                 made, left, raced, released, unanswered>>

\* A timer calls continue(), which starts nothing if a run is active or if the
\* transcript ends in an answer and both queues are empty.
TimerFires ==
  /\ timers > 0
  /\ timers' = timers - 1
  /\ \/ /\ ~IsStreaming
        /\ messages # <<>>
        /\ ~EndsInAssistant(messages)
        /\ Start(<<>>, "none")
     \/ /\ ~IsStreaming
        /\ EndsInAssistant(messages)
        /\ StartFromQueue
     \/ /\ \/ IsStreaming
           \/ messages = <<>>
           \/ EndsInAssistant(messages) /\ steering = <<>> /\ followUp = <<>>
        /\ UNCHANGED agent
  /\ UNCHANGED <<steeringMessages, followUpMessages, session, handling, retry,
                 overflowRecoveryAttempted, compacting, caller, pendingBash,
                 made, left, raced, released, unanswered>>

-----------------------------------------------------------------------------
(* _processAgentEvent                                                        *)

\* A recovery that prompt() has begun is then behind the session.
ResetRecovery ==
  /\ overflowRecoveryAttempted' = FALSE
  /\ compacting' = [a \in Actors |->
       IF a # "handler" /\ compacting[a].reason = "overflow"
       THEN [compacting[a] EXCEPT !.early = TRUE] ELSE compacting[a]]

\* The start of a user message takes it out of the first copy of a queue that
\* has it; then the extensions are awaited.
BeginEvent ==
  LET e == Head(agentEventQueue) IN
  /\ agentEventQueue # <<>>
  /\ ~HandlerBusy
  /\ handler' = "extensions"
  /\ IF e.kind = "user"
     THEN /\ ResetRecovery
          /\ IF Contains(steeringMessages, e)
             THEN /\ steeringMessages' = RemoveFirst(steeringMessages, e)
                  /\ UNCHANGED followUpMessages
             ELSE /\ followUpMessages' = RemoveFirst(followUpMessages, e)
                  /\ UNCHANGED steeringMessages
     ELSE UNCHANGED <<overflowRecoveryAttempted, compacting, steeringMessages,
                      followUpMessages>>
  /\ UNCHANGED <<agent, session, handled, lastAssistant, retry, timers, caller,
                 pendingBash, made, left, raced, released, unanswered>>

PersistUnlessFailed(e) == \* mutant
  /\ session' = IF IsError(e) THEN session ELSE Append(session, e)
  /\ UNCHANGED <<overflowRecoveryAttempted, compacting, lastAssistant, retryAttempt>>

\* The end of a message persists it and notes the last answer.
Persist(e) ==
  /\ session' = Append(session, e)
  /\ lastAssistant' = IF IsAssistant(e) THEN e ELSE lastAssistant
  /\ IF IsAssistant(e) /\ ~IsError(e)
     THEN ResetRecovery /\ retryAttempt' = 0
     ELSE UNCHANGED <<overflowRecoveryAttempted, compacting, retryAttempt>>

FinishMessage ==
  LET e == Head(agentEventQueue) IN
  /\ handler = "extensions"
  /\ e.kind # "agent_end"
  /\ Persist(e)
  /\ agentEventQueue' = Tail(agentEventQueue)
  /\ handler' = "ready"
  /\ UNCHANGED <<messages, run, queues, emitted, handled, retryPromise, timers,
                 caller, pendingBash, made, left, raced, released, unanswered>>

RetriesLeft == retryAttempt + 1 <= MaxRetries

\* Retryable: the failed answer leaves the transcript, and the handler sleeps.
SleepBeforeRetry(m) ==
  /\ retryPromise' = TRUE
  /\ retryAttempt' = retryAttempt + 1
  /\ messages' = StripLastAssistant(messages)
  /\ raced' = (raced \/ StripsAnother(messages, m))
  /\ handler' = "sleeping"
  /\ handled' = m
  /\ UNCHANGED <<caller, overflowRecoveryAttempted, compacting, released>>

\* No retry, or none left: whoever waits is released before any compaction.
GiveUp(m, events, last) ==
  /\ retryAttempt' = IF m.kind = "error" THEN 0 ELSE retryAttempt
  /\ ResolveRetry(events, last)
  /\ CheckCompaction("handler", m, TRUE, messages, FALSE)
  /\ handler' = "ready"
  /\ handled' = None

FinishAgentEnd ==
  LET m == lastAssistant IN
  /\ handler = "extensions"
  /\ Head(agentEventQueue).kind = "agent_end"
  /\ agentEventQueue' = Tail(agentEventQueue)
  /\ lastAssistant' = None
  /\ \/ /\ m = None
        /\ handler' = "ready"
        /\ UNCHANGED <<messages, handled, retry, caller, overflowRecoveryAttempted,
                       compacting, raced, released>>
     \/ /\ m.kind = "error"
        /\ RetriesLeft
        /\ SleepBeforeRetry(m)
     \/ /\ m # None
        /\ m.kind = "error" => ~RetriesLeft
        /\ GiveUp(m, Tail(agentEventQueue), None)
  /\ UNCHANGED <<run, queues, emitted, session, timers, pendingBash, made, left,
                 unanswered>>

\* The backoff is over; continue() is called from a timer of its own.
SleepOver ==
  /\ handler = "sleeping"
  /\ handler' = "ready"
  /\ handled' = None
  /\ timers' = timers + 1
  /\ UNCHANGED <<agent, session, steeringMessages, followUpMessages, lastAssistant,
                 retry, overflowRecoveryAttempted, compacting, caller, pendingBash,
                 made, left, raced, released, unanswered>>

-----------------------------------------------------------------------------
(* The callers                                                               *)

\* _flushPendingBashMessages, for the transcript and for the session.
Flushed(s) == s \o pendingBash

\* prompt() while no run is active: flush, and compact first if the last answer
\* asks for it.  Without a model or its credentials it throws, having flushed what there
\* was to flush.
Prompt(c) ==
  LET ms == Flushed(messages)
      answers == SelectSeq(ms, IsAssistant)
      behind == pendingBash # <<>> /\ Behind IN
  /\ caller[c] = "out"
  /\ ~IsStreaming
  /\ Spend("prompts")
  /\ session' = Flushed(session)
  /\ pendingBash' = <<>>
  /\ \/ /\ pendingBash # <<>>
        /\ UNCHANGED <<caller, overflowRecoveryAttempted, compacting>>
        /\ messages' = ms
        /\ raced' = (raced \/ behind)
     \/ /\ caller' = [caller EXCEPT ![c] = "preparing"]
        /\ answers = <<>>
        /\ messages' = ms
        /\ raced' = (raced \/ behind)
        /\ UNCHANGED <<overflowRecoveryAttempted, compacting>>
     \/ /\ caller' = [caller EXCEPT ![c] = "preparing"]
        /\ answers # <<>>
        /\ CheckCompaction(c, Last(answers), FALSE, ms, behind)
  /\ UNCHANGED <<run, queues, agentEventQueue, emitted, handling, retry, timers,
                 made, released, unanswered>>

\* After the compaction and the extensions: agent.prompt(), which throws if a
\* run has become active meanwhile.
Send(c) ==
  /\ caller[c] = "preparing"
  /\ compacting[c] = NotCompacting
  /\ \/ /\ Start(<<Made("user", FALSE)>>, c)
        /\ caller' = [caller EXCEPT ![c] = "running"]
        /\ made' = made + 1
     \/ /\ IsStreaming
        /\ caller' = [caller EXCEPT ![c] = "out"]
        /\ UNCHANGED <<agent, made>>
  /\ UNCHANGED <<steeringMessages, followUpMessages, session, handling, retry,
                 overflowRecoveryAttempted, compacting, timers, pendingBash,
                 left, raced, released, unanswered>>

\* waitForRetry() after the run, and the waitForIdle() in it.
Return(c) ==
  /\ \/ /\ caller[c] = "returned"
        /\ caller' = [caller EXCEPT ![c] = IF retryPromise THEN "waiting" ELSE "out"]
     \/ /\ caller[c] = "settling"
        /\ ~IsStreaming
        /\ caller' = [caller EXCEPT ![c] = "out"]
  /\ UNCHANGED <<agent, session, steeringMessages, followUpMessages, handling, retry,
                 overflowRecoveryAttempted, compacting, timers, pendingBash, made,
                 left, raced, released, unanswered>>

\* steer(), or prompt() with that streamingBehavior.
QueueSteer ==
  LET m == Made("user", FALSE) IN
  /\ Spend("queued")
  /\ steering' = Append(steering, m)
  /\ steeringMessages' = Append(steeringMessages, m)
  /\ made' = made + 1
  /\ UNCHANGED <<messages, run, followUp, agentEventQueue, emitted, session,
                 followUpMessages, handling, retry, overflowRecoveryAttempted,
                 compacting, timers, caller, pendingBash, raced, released, unanswered>>

QueueFollowUp ==
  LET m == Made("user", FALSE) IN
  /\ Spend("queued")
  /\ followUp' = Append(followUp, m)
  /\ followUpMessages' = Append(followUpMessages, m)
  /\ made' = made + 1
  /\ UNCHANGED <<messages, run, steering, agentEventQueue, emitted, session,
                 steeringMessages, handling, retry, overflowRecoveryAttempted,
                 compacting, timers, caller, pendingBash, raced, released, unanswered>>

ForgetCopies == \* mutant
  /\ Spend("clears")
  /\ steeringMessages' = <<>>
  /\ followUpMessages' = <<>>
  /\ UNCHANGED <<agent, session, handling, retry, overflowRecoveryAttempted,
                 compacting, timers, caller, pendingBash, made, raced, released, unanswered>>

ClearQueue ==
  /\ Spend("clears")
  /\ steering' = <<>>
  /\ followUp' = <<>>
  /\ steeringMessages' = <<>>
  /\ followUpMessages' = <<>>
  /\ UNCHANGED <<messages, run, agentEventQueue, emitted, session, handling, retry,
                 overflowRecoveryAttempted, compacting, timers, caller, pendingBash,
                 made, raced, released, unanswered>>

\* abort(): a sleeping handler gives up its retry, whoever waits for one is
\* released, and the run is told.
Abort ==
  /\ Spend("aborts")
  /\ run' = IF IsStreaming THEN [run EXCEPT !.aborted = TRUE] ELSE run
  /\ \/ /\ handler = "sleeping"
        /\ GiveUp(handled, agentEventQueue, lastAssistant)
     \/ /\ handler # "sleeping"
        /\ ResolveRetry(agentEventQueue, lastAssistant)
        /\ UNCHANGED <<messages, handler, handled, retryAttempt,
                       overflowRecoveryAttempted, compacting, raced>>
  /\ UNCHANGED <<queues, agentEventQueue, emitted, session, lastAssistant, timers,
                 pendingBash, made, unanswered>>

\* recordBashResult(): at once, or with the next prompt if a run is active.
RecordBashResult ==
  LET m == Made("bash", FALSE) IN
  /\ Spend("bash")
  /\ made' = made + 1
  /\ \/ /\ IsStreaming
        /\ pendingBash' = Append(pendingBash, m)
        /\ UNCHANGED <<messages, session, raced>>
     \/ /\ ~IsStreaming
        /\ messages' = Append(messages, m)
        /\ session' = Append(session, m)
        /\ raced' = (raced \/ Behind)
        /\ UNCHANGED pendingBash
  /\ UNCHANGED <<run, queues, agentEventQueue, emitted, handling, retry,
                 overflowRecoveryAttempted, compacting, timers, caller, released, unanswered>>

-----------------------------------------------------------------------------
AgentStep ==
  \/ RespondWithCall
  \/ FinishTools
  \/ \E size \in Sizes : RespondWithAnswer(size)
  \/ \E kind \in {"error", "failed", "overflow", "aborted"} : RespondWithFailure(kind)

SessionStep ==
  \/ BeginEvent
  \/ FinishMessage
  \/ FinishAgentEnd
  \/ SleepOver
  \/ TimerFires

CompactionStep(a) ==
  \/ CompactionPrepared(a)
  \/ CompactionSaved(a)
  \/ CompactionDone(a)
  \/ CompactionFails(a)
CallerStep(c) == Send(c) \/ Return(c)

Next ==
  \/ AgentStep
  \/ \E kind \in {"error", "failed"} : Throw(kind)
  \/ SessionStep
  \/ \E a \in Actors : CompactionStep(a)
  \/ \E c \in Callers : Prompt(c) \/ CallerStep(c)
  \/ QueueSteer
  \/ QueueFollowUp
  \/ ClearQueue
  \/ Abort
  \/ RecordBashResult

Spec == Init /\ [][Next]_vars

\* Providers and tools answer, extensions and summaries settle, timers fire.
Fairness ==
  /\ WF_vars(AgentStep)
  /\ WF_vars(SessionStep)
  /\ \A a \in Actors : WF_vars(CompactionStep(a))
  /\ \A c \in Callers : WF_vars(CallerStep(c))

FairSpec == Spec /\ Fairness

-----------------------------------------------------------------------------
\* What is left of s without what the agent does not emit is ms.
FromAgent(e) == e.kind \notin {"compaction", "bash", "agent_end"}
Rank(s, k) == Cardinality({i \in 1..k : FromAgent(s[i])})
FilteredTo(s, ms) ==
  /\ Len(ms) = Rank(s, Len(s))
  /\ \A k \in DOMAIN s : FromAgent(s[k]) => ms[Rank(s, k)] = s[k]

\* The session holds every message the agent has emitted and the handler has
\* dealt with, once and in the order of emission, whatever the handler slept or
\* compacted in between: what is not in it is what waits in the event queue
\* (agent-session.ts 437-452 and 513-531).
PersistedInOrder == FilteredTo(session \o agentEventQueue, emitted)

ByAgent(q) == SelectSeq(q, LAMBDA m : ~IsError(m) /\ ~IsContextOverflow(m) /\
                 (m.kind \in {"bash", "summary"} \/ m \in ToSet(emitted)))

\* The agent's transcript is what the session, with the events still to be
\* handled, would show if it were opened again, but for failed and for overlong
\* answers: the two are kept apart by retries, overflow recoveries and failed runs
\* only (agent-session.ts 1778-1786, 1934-1965, 2439-2443).  An overlong answer,
\* though a success, is taken out like a failure, and stays out if the compaction
\* fails.  Not claimed once a bash result, a compaction or a retry has edited the
\* transcript of an agent whose events the session had not handled yet.
TranscriptMatchesSession ==
  raced \/ ByAgent(messages) = ByAgent(BuildSessionContext(session \o Unhandled))

InFlight(m) == \E i \in DOMAIN agentEventQueue : agentEventQueue[i] = m

\* The queues shown to the user are the agent's, but for messages that were
\* delivered and whose events are not handled yet (agent-session.ts 487-505,
\* 1174-1207, 1314-1322).
QueuesAgree ==
  /\ \A m \in ToSet(steering) : m \in ToSet(steeringMessages)
  /\ \A m \in ToSet(followUp) : m \in ToSet(followUpMessages)
  /\ \A m \in ToSet(steeringMessages) : m \in ToSet(steering) \/ InFlight(m)
  /\ \A m \in ToSet(followUpMessages) : m \in ToSet(followUp) \/ InFlight(m)

\* Two recoveries from a context overflow are never without a user message or a
\* successful answer between them: the session cannot compact and retry for
\* ever (agent-session.ts 1766-1779).  Not claimed of one that prompt() begins
\* before the session has handled the failure, or still awaits when the session
\* comes to a later message: the flag is then reset under it, and the end of the
\* run recovers once more.
Recovery(e) == ~IsMessage(e) /\ e.reason = "overflow" /\ ~e.early
RecoversOnce ==
  \A i, j \in DOMAIN session :
    i < j /\ Recovery(session[i]) /\ Recovery(session[j])
    => \E k \in (i + 1)..(j - 1) :
         session[k].kind \in {"user", "call", "answer", "overlong", "aborted"}

\* A compaction has put an answer back at the end of the transcript.
Revived == \E i \in DOMAIN session : session[i].kind = "compaction" /\ session[i].back

UnderWay ==
  \/ IsStreaming
  \/ handler # "ready"
  \/ timers > 0
  \/ \E i \in DOMAIN agentEventQueue : agentEventQueue[i].kind = "agent_end"

\* While the promise that prompt() may wait for is pending, something is under
\* way that resolves it.  Not claimed once the transcript was edited under a run,
\* or a compaction begun by another prompt() has put the failed answer back that
\* the retry had removed: the retry then finds the transcript ending in an answer,
\* and gives up without resolving anything (agent-session.ts 2466-2470).  Nor once
\* a run has failed before the model had given it an answer, see
\* WaitsForRetryOnly.
RetryInProgress ==
  retryPromise /\ ~raced /\ ~Revived /\ ~unanswered => UnderWay

\* "Wait for any in-progress retry to complete. Returns immediately if no retry is
\* in progress" (agent-session.ts 2485-2486): without the exceptions.
WaitsForRetryOnly == retryPromise => UnderWay

\* While a failed answer is still to be retried the promise is pending, so that
\* prompt() cannot return before the retry (agent-session.ts 438-443). Not
\* claimed after an abort, and after the end of an earlier run was handled so
\* late that it resolved the promise of this one.
RetryIsAwaited ==
  handler = "sleeping" \/ RetryAhead(agentEventQueue, lastAssistant)
    => retryPromise \/ released

\* A prompt returns, however often it is retried and compacted for, with the
\* same exceptions (agent-session.ts 1061-1062, 2488-2495).
PromptReturns ==
  \A c \in Callers :
    caller[c] # "out" ~> (caller[c] = "out" \/ raced \/ Revived \/ unanswered)
=============================================================================
