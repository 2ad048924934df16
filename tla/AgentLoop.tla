------------------------------ MODULE AgentLoop ------------------------------
(***************************************************************************)
(* The agent runtime of packages/agent: class Agent (agent.ts), the         *)
(* transcript and queues it owns, and the loop it runs (agent-loop.ts).     *)
(*                                                                          *)
(* JavaScript is cooperative: code runs without interruption between two    *)
(* awaits.  The loop awaits the listeners at every event it emits, so every *)
(* emission is one step here, `pc' says which await the loop is suspended   *)
(* at, and whatever callers, tools and listeners do meanwhile (steer,       *)
(* followUp, abort, reset, a tool's progress) are actions that interleave.  *)
(*                                                                          *)
(* Messages carry only what the loop and the properties tell apart.  User   *)
(* messages are numbered in the order the agent accepts them; assistant     *)
(* messages are numbered by `turn', and the calls of turn t are <<t, i>>.   *)
(***************************************************************************)
EXTENDS Naturals, Sequences

CONSTANTS
  ToolExecution,     \* config.toolExecution: "parallel" or "sequential"
  SteeringMode,      \* "all" or "one-at-a-time"
  FollowUpMode,
  MaxCalls,          \* bound: tool calls in one assistant message
  MaxMsgs,           \* bound: user messages given to the agent
  ToolTurns,         \* bound: turns whose assistant message may call tools
  MaxContinues,      \* bound: calls of continue()
  MaxThrows,         \* bound: listener or hook exceptions
  MaxResets          \* bound: calls of reset() and clearAllQueues()

ASSUME ModesAssumption ==
  /\ ToolExecution \in {"parallel", "sequential"}
  /\ SteeringMode \in {"all", "one-at-a-time"}
  /\ FollowUpMode \in {"all", "one-at-a-time"}

ASSUME BoundsAssumption ==
  /\ MaxCalls \in Nat /\ MaxMsgs \in Nat /\ ToolTurns \in Nat
  /\ MaxContinues \in Nat /\ MaxThrows \in Nat /\ MaxResets \in Nat

VARIABLES
  \* What Agent owns: _state, the two PendingMessageQueues and activeRun.
  messages,          \* _state.messages, the transcript
  isStreaming,       \* _state.isStreaming
  streamingMessage,  \* _state.streamingMessage is defined
  pendingToolCalls,  \* _state.pendingToolCalls
  errorMessage,      \* _state.errorMessage is defined
  steeringQueue,
  followUpQueue,
  activeRun,         \* "none", "live", or "aborted" once abort() was called
  \* The locals of runAgentLoop, runLoop and executeToolCalls.
  pc,                \* the await the loop is suspended at
  context,           \* currentContext.messages
  newMessages,       \* what agent_end will report
  prompts,           \* prompts still to be announced
  pendingMessages,
  skipInitialSteeringPoll,
  turn,              \* number of the current assistant message
  toolCalls,         \* number of calls in it
  prepared,          \* how many of them prepareToolCall has seen
  runnableCalls,     \* prepared calls whose outcome is not emitted yet
  current,           \* the call whose outcome is being emitted
  toolResults,
  \* Tools: promises that live on even when the run that started them died.
  running,           \* calls whose tool.execute has not settled
  tainted,           \* calls with a rejected update emission
  \* Bookkeeping of the callers and of the properties.
  nextId,            \* user messages 1 .. nextId-1 were accepted
  via,               \* how each was: "prompt", "steer" or "followUp"
  discarded,         \* removed on purpose by reset() or clearAllQueues()
  base,              \* length of the transcript when the run began
  resetInRun,        \* reset() was called during this run
  late,              \* calls whose updates reached listeners after their run
  throws, resets, continues

agentVars == <<messages, isStreaming, streamingMessage, pendingToolCalls,
               errorMessage, activeRun>>
queueVars == <<steeringQueue, followUpQueue>>
turnVars == <<prompts, pendingMessages, skipInitialSteeringPoll>>
toolVars == <<toolCalls, prepared, runnableCalls, current, toolResults>>
loopVars == <<context, newMessages, turn>>
execVars == <<running, tainted, late>>
callerVars == <<nextId, via, discarded, resets, continues>>
runVars == <<base, resetInRun>>
vars == <<agentVars, queueVars, turnVars, toolVars, loopVars, execVars,
          callerVars, runVars, pc, throws>>

-----------------------------------------------------------------------------
(* Messages and queues.  A definition marked `mutant' is a deliberate bug:  *)
(* put in place of the one after it, some property must fail.               *)

User(m) == [role |-> "user", id |-> m]
Assistant(t, stop, n) ==
  [role |-> "assistant", turn |-> t, stopReason |-> stop, calls |-> n]
ToolResult(t, i) == [role |-> "toolResult", turn |-> t, call |-> i]

Users(ids) == [k \in DOMAIN ids |-> User(ids[k])]
Failed(m) == m.role = "assistant" /\ m.stopReason \in {"error", "aborted"}

(* PendingMessageQueue.enqueue, and what drain hands out and keeps.         *)
Enqueue(queue, m) == Append(queue, m)
Drained(queue, mode) ==
  IF mode = "all" \/ queue = <<>> THEN queue ELSE <<Head(queue)>>
KeptNothing(queue, mode) == <<>>                                 \* mutant
Kept(queue, mode) ==
  IF mode = "all" \/ queue = <<>> THEN <<>> ELSE Tail(queue)

(* config.getSteeringMessages: nothing, once, when continue() has already   *)
(* drained the queue into the prompt.                                       *)
PollEvenIfSkipped ==                                             \* mutant
  [out |-> Drained(steeringQueue, SteeringMode),
   kept |-> Kept(steeringQueue, SteeringMode)]
SteeringPoll ==
  IF skipInitialSteeringPoll THEN [out |-> <<>>, kept |-> steeringQueue]
  ELSE [out |-> Drained(steeringQueue, SteeringMode),
        kept |-> Kept(steeringQueue, SteeringMode)]

(* Where the loop is suspended.                                             *)
ToolPCs == {"tool_start", "tool_prepare", "tool_execute", "tool_await",
            "tool_end", "result_start", "result_end"}
LoopPCs == ToolPCs \cup
  {"agent_start", "run_turn_start", "prompt_start", "prompt_end",
   "initial_poll", "turn_start", "inject_start", "inject_end", "request",
   "streaming", "failed_turn_end", "turn_end", "poll_steering",
   "poll_followUp", "agent_end", "run_failure", "finish"}
PCs == LoopPCs \cup {"idle"}

-----------------------------------------------------------------------------
Init ==
  /\ messages = <<>> /\ isStreaming = FALSE /\ streamingMessage = FALSE
  /\ pendingToolCalls = {} /\ errorMessage = FALSE
  /\ steeringQueue = <<>> /\ followUpQueue = <<>> /\ activeRun = "none"
  /\ pc = "idle" /\ context = <<>> /\ newMessages = <<>> /\ prompts = <<>>
  /\ pendingMessages = <<>> /\ skipInitialSteeringPoll = FALSE
  /\ turn = 0 /\ toolCalls = 0 /\ prepared = 0 /\ runnableCalls = <<>> /\ current = 0
  /\ toolResults = <<>> /\ running = {} /\ tainted = {}
  /\ nextId = 1 /\ via = <<>> /\ discarded = {} /\ base = 0
  /\ resetInRun = FALSE /\ late = {}
  /\ throws = 0 /\ resets = 0 /\ continues = 0

-----------------------------------------------------------------------------
(* The callers of class Agent *)

Accept(how) ==
  /\ nextId <= MaxMsgs
  /\ nextId' = nextId + 1
  /\ via' = Append(via, how)
  /\ UNCHANGED <<discarded, resets, continues>>

ReportNothingYet(ids) == <<>>                                    \* mutant
ReportPrompts(ids) == Users(ids)

(* runWithLifecycle up to the executor, with the loop's entry: the context  *)
(* is a snapshot of the transcript followed by the prompts.                 *)
BeginRun(ids, skip) ==
  /\ activeRun' = "live" /\ isStreaming' = TRUE
  /\ streamingMessage' = FALSE /\ errorMessage' = FALSE
  /\ context' = messages \o Users(ids)
  /\ newMessages' = ReportPrompts(ids)
  /\ prompts' = ids
  /\ skipInitialSteeringPoll' = skip
  /\ pendingMessages' = <<>>
  /\ base' = Len(messages) /\ resetInRun' = FALSE
  /\ pc' = "agent_start"
  /\ UNCHANGED <<messages, pendingToolCalls, turn, toolVars, execVars, throws>>

Prompt ==
  /\ activeRun = "none"
  /\ Accept("prompt")
  /\ BeginRun(<<nextId>>, FALSE)
  /\ UNCHANGED queueVars

(* continue(): from an assistant message it turns queued messages into the  *)
(* prompt, steering first; from any other it resumes the transcript.        *)
Continue ==
  /\ activeRun = "none" /\ messages # <<>> /\ continues < MaxContinues
  /\ continues' = continues + 1
  /\ UNCHANGED <<nextId, via, discarded, resets>>
  /\ LET fromAssistant == messages[Len(messages)].role = "assistant"
     IN \/ /\ fromAssistant /\ steeringQueue # <<>>
           /\ steeringQueue' = Kept(steeringQueue, SteeringMode)
           /\ UNCHANGED followUpQueue
           /\ BeginRun(Drained(steeringQueue, SteeringMode), TRUE)
        \/ /\ fromAssistant /\ steeringQueue = <<>> /\ followUpQueue # <<>>
           /\ followUpQueue' = Kept(followUpQueue, FollowUpMode)
           /\ UNCHANGED steeringQueue
           /\ BeginRun(Drained(followUpQueue, FollowUpMode), FALSE)
        \/ /\ ~fromAssistant
           /\ UNCHANGED queueVars
           /\ BeginRun(<<>>, FALSE)

Steer ==
  /\ Accept("steer")
  /\ steeringQueue' = Enqueue(steeringQueue, nextId)
  /\ UNCHANGED <<agentVars, followUpQueue, turnVars, toolVars, loopVars,
                 execVars, runVars, pc, throws>>

FollowUp ==
  /\ Accept("followUp")
  /\ followUpQueue' = Enqueue(followUpQueue, nextId)
  /\ UNCHANGED <<agentVars, steeringQueue, turnVars, toolVars, loopVars,
                 execVars, runVars, pc, throws>>

Abort ==
  /\ activeRun = "live"
  /\ activeRun' = "aborted"
  /\ UNCHANGED <<messages, isStreaming, streamingMessage, pendingToolCalls,
                 errorMessage, queueVars, turnVars, toolVars, loopVars,
                 execVars, callerVars, runVars, pc, throws>>

Queued == {steeringQueue[k] : k \in DOMAIN steeringQueue}
            \cup {followUpQueue[k] : k \in DOMAIN followUpQueue}
Delivered == {messages[k].id : k \in {j \in DOMAIN messages :
                                        messages[j].role = "user"}}

ClearAllQueues ==
  /\ resets < MaxResets
  /\ steeringQueue' = <<>> /\ followUpQueue' = <<>>
  /\ discarded' = discarded \cup Queued
  /\ resets' = resets + 1
  /\ UNCHANGED <<agentVars, turnVars, toolVars, loopVars, execVars, nextId,
                 via, continues, runVars, pc, throws>>

(* reset() has no guard: it may come while a run is active.                 *)
Reset ==
  /\ resets < MaxResets
  /\ messages' = <<>> /\ isStreaming' = FALSE /\ streamingMessage' = FALSE
  /\ pendingToolCalls' = {} /\ errorMessage' = FALSE
  /\ steeringQueue' = <<>> /\ followUpQueue' = <<>>
  /\ discarded' = discarded \cup Queued \cup Delivered
  /\ resetInRun' = (activeRun # "none")
  /\ resets' = resets + 1
  /\ UNCHANGED <<activeRun, turnVars, toolVars, loopVars, execVars, nextId,
                 via, continues, base, pc, throws>>

-----------------------------------------------------------------------------
(* The loop.  Emit(next) is the end of an emission whose reduction          *)
(* (processEvents) the action states itself: the listeners are awaited, and *)
(* the loop resumes at `next', or one of them throws and the run fails.     *)

Emit(next) ==
  \/ pc' = next /\ UNCHANGED throws
  \/ throws < MaxThrows /\ throws' = throws + 1 /\ pc' = "run_failure"

EmitAgentStart ==
  /\ pc = "agent_start"
  /\ Emit("run_turn_start")
  /\ UNCHANGED <<agentVars, queueVars, turnVars, toolVars, loopVars, execVars,
                 callerVars, runVars>>

EmitRunTurnStart ==
  /\ pc = "run_turn_start"
  /\ Emit(IF prompts = <<>> THEN "initial_poll" ELSE "prompt_start")
  /\ UNCHANGED <<agentVars, queueVars, turnVars, toolVars, loopVars, execVars,
                 callerVars, runVars>>

EmitPromptStart ==
  /\ pc = "prompt_start"
  /\ streamingMessage' = TRUE
  /\ Emit("prompt_end")
  /\ UNCHANGED <<messages, isStreaming, pendingToolCalls, errorMessage,
                 activeRun, queueVars, turnVars, toolVars, loopVars, execVars,
                 callerVars, runVars>>

EmitPromptEnd ==
  /\ pc = "prompt_end"
  /\ messages' = Append(messages, User(Head(prompts)))
  /\ streamingMessage' = FALSE
  /\ prompts' = Tail(prompts)
  /\ Emit(IF Len(prompts) = 1 THEN "initial_poll" ELSE "prompt_start")
  /\ UNCHANGED <<isStreaming, pendingToolCalls, errorMessage, activeRun,
                 queueVars, pendingMessages, skipInitialSteeringPoll,
                 toolVars, loopVars, execVars, callerVars, runVars>>

(* A turn injects its pending messages before it asks the model.  The first *)
(* turn of a run was already announced by runAgentLoop.                     *)
Inject(pending) == IF pending # <<>> THEN "inject_start" ELSE "request"

InitialPoll ==
  /\ pc = "initial_poll"
  /\ pendingMessages' = SteeringPoll.out
  /\ steeringQueue' = SteeringPoll.kept
  /\ skipInitialSteeringPoll' = FALSE
  /\ pc' = Inject(pendingMessages')
  /\ UNCHANGED <<agentVars, followUpQueue, prompts, toolVars, loopVars,
                 execVars, callerVars, runVars, throws>>

EmitTurnStart ==
  /\ pc = "turn_start"
  /\ Emit(Inject(pendingMessages))
  /\ UNCHANGED <<agentVars, queueVars, turnVars, toolVars, loopVars, execVars,
                 callerVars, runVars>>

EmitInjectStart ==
  /\ pc = "inject_start"
  /\ streamingMessage' = TRUE
  /\ Emit("inject_end")
  /\ UNCHANGED <<messages, isStreaming, pendingToolCalls, errorMessage,
                 activeRun, queueVars, turnVars, toolVars, loopVars, execVars,
                 callerVars, runVars>>

EmitInjectEnd ==
  /\ pc = "inject_end"
  /\ LET m == User(Head(pendingMessages))
     IN /\ messages' = Append(messages, m)
        /\ context' = Append(context, m)
        /\ newMessages' = Append(newMessages, m)
  /\ streamingMessage' = FALSE
  /\ pendingMessages' = Tail(pendingMessages)
  /\ Emit(IF Len(pendingMessages) = 1 THEN "request" ELSE "inject_start")
  /\ UNCHANGED <<isStreaming, pendingToolCalls, errorMessage, activeRun,
                 queueVars, prompts, skipInitialSteeringPoll, turn, toolVars,
                 execVars, callerVars, runVars>>

(* streamAssistantResponse up to the first event of the stream: the model   *)
(* sees `context'; transformContext, getApiKey or streamFn may throw.       *)
Request ==
  /\ pc = "request"
  /\ turn' = turn + 1
  /\ \/ /\ context' = Append(context, Assistant(turn', "partial", 0))
        /\ streamingMessage' = TRUE
        /\ Emit("streaming")
     \/ /\ throws < MaxThrows /\ throws' = throws + 1
        /\ pc' = "run_failure"
        /\ UNCHANGED <<context, streamingMessage>>
  /\ UNCHANGED <<messages, isStreaming, pendingToolCalls, errorMessage,
                 activeRun, queueVars, turnVars, toolVars, newMessages,
                 execVars, callerVars, runVars>>

StreamUpdate ==
  /\ pc = "streaming"
  /\ streamingMessage' = TRUE
  /\ Emit("streaming")
  /\ UNCHANGED <<messages, isStreaming, pendingToolCalls, errorMessage,
                 activeRun, queueVars, turnVars, toolVars, loopVars, execVars,
                 callerVars, runVars>>

(* The final message replaces the partial one.  A failed response ends the  *)
(* run even when it holds tool calls; otherwise its calls are executed.     *)
StreamEnd(stop, n) ==
  /\ pc = "streaming"
  /\ stop = "aborted" => activeRun = "aborted"
  /\ n > 0 => turn <= ToolTurns
  /\ LET m == Assistant(turn, stop, n)
     IN /\ context' = [context EXCEPT ![Len(context)] = m]
        /\ newMessages' = Append(newMessages, m)
        /\ messages' = Append(messages, m)
        /\ Emit(CASE Failed(m) -> "failed_turn_end"
                  [] ~Failed(m) /\ n > 0 -> "tool_start"
                  [] OTHER -> "turn_end")
  /\ streamingMessage' = FALSE
  /\ toolCalls' = n
  /\ prepared' = 0 /\ runnableCalls' = <<>> /\ toolResults' = <<>>
  /\ current' = 0
  /\ UNCHANGED <<isStreaming, pendingToolCalls, errorMessage, activeRun,
                 queueVars, turnVars, turn, execVars, callerVars, runVars>>

EmitFailedTurnEnd ==
  /\ pc = "failed_turn_end"
  /\ errorMessage' = TRUE
  /\ Emit("agent_end")
  /\ UNCHANGED <<messages, isStreaming, streamingMessage, pendingToolCalls,
                 activeRun, queueVars, turnVars, toolVars, loopVars, execVars,
                 callerVars, runVars>>

-----------------------------------------------------------------------------
(* Tool calls *)

NextCall == <<turn, prepared + 1>>

EmitToolStart ==
  /\ pc = "tool_start"
  /\ pendingToolCalls' = pendingToolCalls \cup {NextCall}
  /\ Emit("tool_prepare")
  /\ UNCHANGED <<messages, isStreaming, streamingMessage, errorMessage,
                 activeRun, queueVars, turnVars, toolVars, loopVars, execVars,
                 callerVars, runVars>>

(* prepareToolCall: an unknown tool, bad arguments or a veto is an immediate *)
(* outcome, emitted before anything else; any other call becomes runnable.  *)
KeepsPreparing(n) == ToolExecution = "parallel" /\ n < toolCalls

PrepareToolCall ==
  /\ pc = "tool_prepare"
  /\ prepared' = prepared + 1
  /\ \/ /\ current' = prepared + 1
        /\ pc' = "tool_end"
        /\ UNCHANGED runnableCalls
     \/ /\ runnableCalls' = Append(runnableCalls, prepared + 1)
        /\ pc' = IF KeepsPreparing(prepared') THEN "tool_start" ELSE "tool_execute"
        /\ UNCHANGED current
  /\ UNCHANGED <<agentVars, queueVars, turnVars, loopVars, toolCalls,
                 toolResults, execVars, callerVars, runVars, throws>>

(* executePreparedToolCall, of one call when sequential and of every        *)
(* runnable call at once when parallel.                                     *)
ExecuteTools ==
  /\ pc = "tool_execute"
  /\ running' = running \cup
                  {<<turn, runnableCalls[k]>> : k \in DOMAIN runnableCalls}
  /\ pc' = "tool_await"
  /\ UNCHANGED <<agentVars, queueVars, turnVars, toolVars, loopVars, tainted,
                 late, callerVars, runVars, throws>>

(* await running.execution of the next runnable call, then afterToolCall.   *)
(* A rejected update emission makes the execution itself reject.            *)
SettledAlready(c) == TRUE                                        \* mutant
Settled(c) == c \notin running

AwaitTool ==
  /\ pc = "tool_await"
  /\ Settled(<<turn, Head(runnableCalls)>>)
  /\ \/ /\ <<turn, Head(runnableCalls)>> \in tainted
        /\ pc' = "run_failure"
        /\ UNCHANGED <<current, runnableCalls, throws>>
     \/ /\ <<turn, Head(runnableCalls)>> \notin tainted
        /\ current' = Head(runnableCalls)
        /\ runnableCalls' = Tail(runnableCalls)
        /\ Emit("tool_end")
  /\ UNCHANGED <<agentVars, queueVars, turnVars, loopVars, toolCalls,
                 prepared, toolResults, execVars, callerVars, runVars>>

StillPending == pendingToolCalls \ {<<turn, current>>}

EmitToolEnd ==
  /\ pc = "tool_end"
  /\ pendingToolCalls' = StillPending
  /\ Emit("result_start")
  /\ UNCHANGED <<messages, isStreaming, streamingMessage, errorMessage,
                 activeRun, queueVars, turnVars, toolVars, loopVars, execVars,
                 callerVars, runVars>>

EmitResultStart ==
  /\ pc = "result_start"
  /\ streamingMessage' = TRUE
  /\ Emit("result_end")
  /\ UNCHANGED <<messages, isStreaming, pendingToolCalls, errorMessage,
                 activeRun, queueVars, turnVars, toolVars, loopVars, execVars,
                 callerVars, runVars>>

(* Where execution goes after an outcome: to the next call to prepare, to   *)
(* the start of the runnable calls once the last preparation was immediate, *)
(* to the next runnable call, or out of executeToolCalls.                   *)
AfterOutcomeIfNoneRunnable ==                                    \* mutant
  IF runnableCalls = <<>> THEN "turn_end"
  ELSE IF prepared < toolCalls THEN "tool_start"
  ELSE IF current = toolCalls THEN "tool_execute" ELSE "tool_await"
AfterOutcome ==
  IF prepared < toolCalls THEN "tool_start"
  ELSE IF runnableCalls = <<>> THEN "turn_end"
  ELSE IF current = toolCalls THEN "tool_execute" ELSE "tool_await"

EmitResultEnd ==
  /\ pc = "result_end"
  /\ messages' = Append(messages, ToolResult(turn, current))
  /\ streamingMessage' = FALSE
  /\ toolResults' = Append(toolResults, ToolResult(turn, current))
  /\ Emit(AfterOutcome)
  /\ UNCHANGED <<isStreaming, pendingToolCalls, errorMessage, activeRun,
                 queueVars, turnVars, loopVars, toolCalls, prepared,
                 runnableCalls, current, execVars, callerVars, runVars>>

(* The results join the context, then turn_end is emitted.                  *)
ContextWithoutResults == context                                 \* mutant
ContextWithResults == context \o toolResults

EmitTurnEnd ==
  /\ pc = "turn_end"
  /\ context' = ContextWithResults
  /\ newMessages' = newMessages \o toolResults
  /\ toolResults' = <<>>
  /\ Emit("poll_steering")
  /\ UNCHANGED <<agentVars, queueVars, turnVars, turn, toolCalls, prepared,
                 runnableCalls, current, execVars, callerVars, runVars>>

-----------------------------------------------------------------------------
(* The end of a turn and of a run *)

(* The inner loop goes on while the model called tools or someone steered.  *)
GoesOn(pending) == toolCalls > 0 \/ pending # <<>>

PollSteering ==
  /\ pc = "poll_steering"
  /\ pendingMessages' = SteeringPoll.out
  /\ steeringQueue' = SteeringPoll.kept
  /\ pc' = IF GoesOn(pendingMessages') THEN "turn_start" ELSE "poll_followUp"
  /\ UNCHANGED <<agentVars, followUpQueue, prompts, skipInitialSteeringPoll,
                 toolVars, loopVars, execVars, callerVars, runVars, throws>>

PollFollowUp ==
  /\ pc = "poll_followUp"
  /\ pendingMessages' = Drained(followUpQueue, FollowUpMode)
  /\ followUpQueue' = Kept(followUpQueue, FollowUpMode)
  /\ pc' = IF pendingMessages' # <<>> THEN "turn_start" ELSE "agent_end"
  /\ UNCHANGED <<agentVars, steeringQueue, prompts, skipInitialSteeringPoll,
                 toolVars, loopVars, execVars, callerVars, runVars, throws>>

EmitAgentEnd ==
  /\ pc = "agent_end"
  /\ streamingMessage' = FALSE
  /\ Emit("finish")
  /\ UNCHANGED <<messages, isStreaming, pendingToolCalls, errorMessage,
                 activeRun, queueVars, turnVars, toolVars, loopVars, execVars,
                 callerVars, runVars>>

(* handleRunFailure: a failure message no message_end announces, and an     *)
(* agent_end of its own.  Should a listener throw again, prompt() rejects,  *)
(* but the run is finished all the same.                                    *)
FailRun(next) ==
  /\ pc = "run_failure"
  /\ messages' = Append(messages,
       Assistant(0, IF activeRun = "aborted" THEN "aborted" ELSE "error", 0))
  /\ errorMessage' = TRUE
  /\ streamingMessage' = FALSE
  /\ pc' = next
  /\ UNCHANGED <<isStreaming, pendingToolCalls, activeRun, queueVars, turnVars,
                 toolVars, loopVars, execVars, callerVars, runVars, throws>>

FailWithoutFinally == FailRun("idle")                            \* mutant
HandleRunFailure == FailRun("finish")

PendingAfterRun == {}

(* finishRun; the locals of the loop die with the run.                      *)
FinishRun ==
  /\ pc = "finish"
  /\ isStreaming' = FALSE /\ streamingMessage' = FALSE
  /\ pendingToolCalls' = PendingAfterRun
  /\ activeRun' = "none" /\ pc' = "idle"
  /\ context' = <<>> /\ newMessages' = <<>>
  /\ prompts' = <<>> /\ pendingMessages' = <<>>
  /\ skipInitialSteeringPoll' = FALSE
  /\ toolCalls' = 0 /\ prepared' = 0 /\ runnableCalls' = <<>>
  /\ current' = 0 /\ toolResults' = <<>>
  /\ base' = 0 /\ resetInRun' = FALSE
  /\ UNCHANGED <<messages, errorMessage, queueVars, turn, execVars, callerVars,
                 throws>>

-----------------------------------------------------------------------------
(* Tools, running on their own *)

(* The run that started call c is still the active one.                     *)
OfActiveRun(c) == c[1] = turn /\ pc \in ToolPCs \cup {"run_failure"}

(* onUpdate(partial): the update goes to the listeners of whatever run is   *)
(* active; without one processEvents throws, and the rejection is kept in   *)
(* updateEvents.                                                            *)
ToolUpdate(c) ==
  /\ c \in running
  /\ \/ /\ activeRun # "none"
        /\ late' = IF OfActiveRun(c) THEN late ELSE late \cup {c}
        /\ \/ UNCHANGED <<tainted, throws>>
           \/ /\ throws < MaxThrows /\ throws' = throws + 1
              /\ tainted' = tainted \cup {c}
     \/ /\ activeRun = "none"
        /\ tainted' = tainted \cup {c}
        /\ UNCHANGED <<late, throws>>
  /\ UNCHANGED <<agentVars, queueVars, turnVars, toolVars, loopVars, running,
                 callerVars, runVars, pc>>

(* The tool returns or throws: either way its call has an outcome.          *)
ToolSettles(c) ==
  /\ c \in running
  /\ running' = running \ {c}
  /\ UNCHANGED <<agentVars, queueVars, turnVars, toolVars, loopVars, tainted,
                 late, callerVars, runVars, pc, throws>>

-----------------------------------------------------------------------------
Callers == Prompt \/ Continue \/ Steer \/ FollowUp \/ Abort \/ ClearAllQueues
             \/ Reset

Responds == \E stop \in {"stop", "error", "aborted"}, n \in 0..MaxCalls :
              StreamEnd(stop, n)

Loop == EmitAgentStart \/ EmitRunTurnStart \/ EmitPromptStart \/ EmitPromptEnd
          \/ InitialPoll \/ EmitTurnStart \/ EmitInjectStart \/ EmitInjectEnd
          \/ Request \/ Responds \/ EmitFailedTurnEnd
          \/ EmitToolStart \/ PrepareToolCall \/ ExecuteTools \/ AwaitTool
          \/ EmitToolEnd \/ EmitResultStart \/ EmitResultEnd \/ EmitTurnEnd
          \/ PollSteering \/ PollFollowUp \/ EmitAgentEnd
          \/ HandleRunFailure \/ FinishRun

Tools == \E c \in running : ToolUpdate(c) \/ ToolSettles(c)

Next == Callers \/ Loop \/ StreamUpdate \/ Tools

Spec == Init /\ [][Next]_vars

(* The event loop resumes every await that is settled, a response stream    *)
(* ends (the providers end it on abort and on error too), and a tool that   *)
(* runs settles.                                                            *)
Fairness ==
  /\ WF_vars(Loop)
  /\ \A c \in (1..ToolTurns) \X (1..MaxCalls) : WF_vars(ToolSettles(c))

FairSpec == Spec /\ Fairness

-----------------------------------------------------------------------------
(* Properties *)

UserMessages == [role : {"user"}, id : Nat]
AssistantMessages ==
  [role : {"assistant"}, turn : Nat,
   stopReason : {"partial", "stop", "error", "aborted"}, calls : Nat]
ToolResults == [role : {"toolResult"}, turn : Nat, call : Nat]
Messages == UserMessages \cup AssistantMessages \cup ToolResults
Calls == Nat \X (Nat \ {0})

AgentTypeOK ==
  /\ messages \in Seq(Messages) /\ pendingToolCalls \subseteq Calls
  /\ isStreaming \in BOOLEAN /\ streamingMessage \in BOOLEAN
  /\ errorMessage \in BOOLEAN /\ activeRun \in {"none", "live", "aborted"}
QueueTypeOK == steeringQueue \in Seq(Nat) /\ followUpQueue \in Seq(Nat)
TurnTypeOK ==
  /\ prompts \in Seq(Nat) /\ pendingMessages \in Seq(Nat)
  /\ skipInitialSteeringPoll \in BOOLEAN
ToolTypeOK ==
  /\ toolCalls \in Nat /\ prepared \in Nat /\ current \in Nat
  /\ runnableCalls \in Seq(Nat \ {0}) /\ toolResults \in Seq(Messages)
LoopTypeOK ==
  /\ context \in Seq(Messages) /\ newMessages \in Seq(Messages)
  /\ turn \in Nat
ExecTypeOK ==
  running \subseteq Calls /\ tainted \subseteq Calls /\ late \subseteq Calls
CallerTypeOK ==
  /\ nextId \in Nat /\ via \in Seq({"prompt", "steer", "followUp"})
  /\ discarded \subseteq Nat /\ resets \in Nat /\ continues \in Nat
RunTypeOK == base \in Nat /\ resetInRun \in BOOLEAN
StepTypeOK == pc \in PCs /\ throws \in Nat

(* Every variable has its type: in particular tool calls are counted from 1 *)
(* and queues hold ids of user messages.                                    *)
TypeOK == AgentTypeOK /\ QueueTypeOK /\ TurnTypeOK /\ ToolTypeOK /\ LoopTypeOK
            /\ ExecTypeOK /\ CallerTypeOK /\ RunTypeOK /\ StepTypeOK

(* Whatever ended the run, an agent without one says it is idle: callers    *)
(* decide from isStreaming and pendingToolCalls whether to prompt or steer. *)
IdleIsClean ==
  /\ activeRun = "none" <=> pc = "idle"
  /\ activeRun = "none" =>
       ~isStreaming /\ ~streamingMessage /\ pendingToolCalls = {}

(* The loop's private context and the agent's transcript are kept by two    *)
(* different pieces of code (runLoop and processEvents); whenever the model *)
(* is asked, they hold the same messages in the same order.                 *)
ContextInSync == pc = "request" /\ ~resetInRun => context = messages

(* agent_end reports exactly the messages the run added to the transcript.  *)
AgentEndReport ==
  pc = "agent_end" /\ ~resetInRun =>
    messages = SubSeq(messages, 1, base) \o newMessages

(* Every tool call of a response has exactly one result before the next     *)
(* message that is not a result, unless the run failed right there: a       *)
(* provider rejects a transcript with an unanswered call.                   *)
Answers(m, lo, hi) ==
  /\ hi + 1 - lo = m.calls
  /\ {<<messages[k].turn, messages[k].call>> : k \in lo..hi}
       = {m.turn} \X (1..m.calls)
CallsAnswered ==
  \A i, j \in DOMAIN messages :
    LET m == messages[i] IN
    /\ i < j /\ m.role = "assistant" /\ ~Failed(m) /\ m.calls > 0
    /\ messages[j].role # "toolResult"
    /\ \A k \in i+1 .. j-1 : messages[k].role = "toolResult"
    => Failed(messages[j]) \/ Answers(m, i + 1, j - 1)

(* A user message the agent accepted is in one place: a queue, the loop's   *)
(* hands or the transcript.  Only an exception loses one.                   *)
Occurrences(m, ids) == {k \in DOMAIN ids : ids[k] = m}
Places(m) ==
  (({"steering"} \X Occurrences(m, steeringQueue))
    \cup ({"followUp"} \X Occurrences(m, followUpQueue))
    \cup ({"prompts"} \X Occurrences(m, prompts))
    \cup ({"pending"} \X Occurrences(m, pendingMessages))
    \cup ({"messages"} \X {k \in DOMAIN messages :
                             messages[k] = User(m)}))
NothingLostOrDoubled ==
  \A m \in 1 .. nextId-1 : m \notin discarded =>
    /\ \A p, q \in Places(m) : p = q
    /\ throws = 0 => Places(m) # {}

(* How queued messages enter the transcript.  Those that came the same way  *)
(* come in the order they were queued; one at a time, the model answers     *)
(* every steering message before it sees the next one, also when continue() *)
(* made the first one the prompt; and a follow-up is delivered only where   *)
(* the agent would otherwise stop, not between results and their response.  *)
Steered(k) == messages[k].role = "user" /\ via[messages[k].id] = "steer"
OneSteeringPerTurn ==
  SteeringMode = "one-at-a-time" =>
    \A i, j \in DOMAIN messages :
      i < j /\ Steered(i) /\ Steered(j) =>
        \E k \in i+1 .. j-1 : messages[k].role = "assistant"
DeliveredInOrder ==
  \A i, j \in DOMAIN messages :
    /\ i < j /\ messages[i].role = "user" /\ messages[j].role = "user"
    /\ via[messages[i].id] = via[messages[j].id]
    => messages[i].id < messages[j].id
FollowUpsWhenStopped ==
  \A k \in 2 .. Len(messages) :
    messages[k].role = "user" /\ via[messages[k].id] = "followUp" =>
      LET before == messages[k-1] IN
      \/ before.role = "user" /\ via[before.id] = "followUp"
      \/ before.role = "assistant" /\ (Failed(before) \/ before.calls = 0)
DeliveredInTurn == OneSteeringPerTurn /\ DeliveredInOrder /\ FollowUpsWhenStopped

(* An idle agent is idle in every flag and, unless something threw, has no  *)
(* tool left running, whose effects would race with the next run's: no      *)
(* update reaches the listeners of another run ("`agent_end` is the final   *)
(* emitted event for a run", agent.ts:213).                                 *)
IdleIsQuiet ==
  IdleIsClean /\ (throws = 0 => late = {} /\ (activeRun = "none" => running = {}))

(* Every run ends, whatever the model answers, a listener throws or a tool  *)
(* reports: waitForIdle() and prompt() return.                              *)
RunEnds == activeRun # "none" ~> activeRun = "none"
=============================================================================
