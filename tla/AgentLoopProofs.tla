--------------------------- MODULE AgentLoopProofs ---------------------------
(* What holds of AgentLoop for every value of its constants.                *)
EXTENDS AgentLoop, SequenceTheorems, TLAPS

(* What the control point says of the data: a loop that takes the head of a *)
(* sequence has one, and the call whose outcome is emitted is a call.       *)
Control ==
  /\ IdleIsClean
  /\ pc \in {"prompt_start", "prompt_end"} => prompts # <<>>
  /\ pc \in {"inject_start", "inject_end"} => pendingMessages # <<>>
  /\ pc \in {"tool_execute", "tool_await"} => runnableCalls # <<>>
  /\ pc = "streaming" => context # <<>>

-----------------------------------------------------------------------------
(* Lemmas about messages and queues *)

LEMMA UserType == \A m \in Nat : User(m) \in Messages
BY DEF User, UserMessages, Messages

LEMMA UsersType == \A ids \in Seq(Nat) : Users(ids) \in Seq(Messages)
BY UserType DEF Users

LEMMA AssistantType ==
  \A t, n \in Nat, stop \in {"partial", "stop", "error", "aborted"} :
    Assistant(t, stop, n) \in Messages
BY DEF Assistant, AssistantMessages, Messages

LEMMA ToolResultType == \A t, i \in Nat : ToolResult(t, i) \in Messages
BY DEF ToolResult, ToolResults, Messages

LEMMA DrainTypes ==
  \A queue \in Seq(Nat) : \A mode :
    Drained(queue, mode) \in Seq(Nat) /\ Kept(queue, mode) \in Seq(Nat)
BY DEF Drained, Kept

LEMMA PollTypes ==
  QueueTypeOK => /\ SteeringPoll.out \in Seq(Nat)
                 /\ SteeringPoll.kept \in Seq(Nat)
BY DrainTypes DEF QueueTypeOK, SteeringPoll

LEMMA EnqueueType ==
  \A queue \in Seq(Nat), m \in Nat : Enqueue(queue, m) \in Seq(Nat)
BY DEF Enqueue

-----------------------------------------------------------------------------
(* Type correctness *)

LEMMA Frames ==
  /\ AgentTypeOK /\ UNCHANGED agentVars => AgentTypeOK'
  /\ QueueTypeOK /\ UNCHANGED queueVars => QueueTypeOK'
  /\ TurnTypeOK /\ UNCHANGED turnVars => TurnTypeOK'
  /\ ToolTypeOK /\ UNCHANGED toolVars => ToolTypeOK'
  /\ LoopTypeOK /\ UNCHANGED loopVars => LoopTypeOK'
  /\ ExecTypeOK /\ UNCHANGED execVars => ExecTypeOK'
  /\ CallerTypeOK /\ UNCHANGED callerVars => CallerTypeOK'
  /\ RunTypeOK /\ UNCHANGED runVars => RunTypeOK'
BY DEF AgentTypeOK, QueueTypeOK, TurnTypeOK, ToolTypeOK, LoopTypeOK,
  ExecTypeOK, CallerTypeOK, RunTypeOK, agentVars, queueVars, turnVars,
  toolVars, loopVars, execVars, callerVars, runVars

(* Emit keeps the types of what it changes when both targets are steps.     *)
LEMMA EmitType ==
  \A next \in PCs : StepTypeOK /\ Emit(next) => StepTypeOK'
BY DEF StepTypeOK, Emit, PCs, LoopPCs, ToolPCs

LEMMA BeginRunType ==
  ASSUME NEW ids \in Seq(Nat), NEW skip \in BOOLEAN, TypeOK, BeginRun(ids, skip)
  PROVE  AgentTypeOK' /\ TurnTypeOK' /\ ToolTypeOK' /\ LoopTypeOK'
           /\ ExecTypeOK' /\ RunTypeOK' /\ StepTypeOK'
<1>1. Users(ids) \in Seq(Messages)
  BY UsersType
<1>2. AgentTypeOK' /\ TurnTypeOK'
  BY Zenon, EmptySeq DEF BeginRun, TypeOK, AgentTypeOK, TurnTypeOK
<1>3. LoopTypeOK'
  BY <1>1 DEF BeginRun, ReportPrompts, TypeOK, AgentTypeOK, LoopTypeOK
<1>4. RunTypeOK'
  BY Zenon, LenProperties DEF BeginRun, TypeOK, AgentTypeOK, RunTypeOK
<1>5. StepTypeOK'
  BY DEF BeginRun, TypeOK, StepTypeOK, PCs, LoopPCs
<1> QED
  BY <1>2, <1>3, <1>4, <1>5, Frames DEF BeginRun, TypeOK

LEMMA QueuedType ==
  TypeOK => Queued \subseteq Nat /\ Delivered \subseteq Nat
<1>1. TypeOK => Queued \subseteq Nat
  BY DEF TypeOK, QueueTypeOK, Queued
<1>2. ASSUME TypeOK, NEW k \in DOMAIN messages, messages[k].role = "user"
      PROVE  messages[k].id \in Nat
  <2>1. messages[k] \in Messages
    BY <1>2 DEF TypeOK, AgentTypeOK
  <2> QED
    BY <1>2, <2>1 DEF Messages, UserMessages, AssistantMessages, ToolResults
<1> QED
  BY <1>1, <1>2 DEF Delivered

LEMMA TypeStep == ASSUME TypeOK, Control, [Next]_vars PROVE TypeOK'
<1> USE Frames DEF TypeOK
<1>1. CASE Prompt
  <2>1. Users(<<nextId>>) \in Seq(Messages) /\ <<nextId>> \in Seq(Nat)
    <3>1. <<nextId>> \in Seq(Nat)
      BY DEF CallerTypeOK
    <3> QED
      BY <3>1, UsersType
  <2>2. CallerTypeOK'
    BY <1>1 DEF Prompt, Accept, CallerTypeOK
  <2> QED
    BY <1>1, <2>1, <2>2, BeginRunType DEF Prompt
<1>2. CASE Continue
  <2>1. CallerTypeOK'
    BY <1>2 DEF Continue, CallerTypeOK
  <2>2. QueueTypeOK'
    BY <1>2, DrainTypes DEF Continue, QueueTypeOK
  <2>3. PICK ids \in Seq(Nat), skip \in BOOLEAN : BeginRun(ids, skip)
    <3>1. <<>> \in Seq(Nat)
      OBVIOUS
    <3>2. \A mode : /\ Drained(steeringQueue, mode) \in Seq(Nat)
                    /\ Drained(followUpQueue, mode) \in Seq(Nat)
      BY DrainTypes DEF QueueTypeOK
    <3> QED
      BY Zenon, <1>2, <3>1, <3>2 DEF Continue
  <2> QED
    BY <2>1, <2>2, <2>3, BeginRunType
<1>3. CASE Steer
  BY <1>3, EnqueueType DEF Steer, Accept, QueueTypeOK, CallerTypeOK,
    StepTypeOK
<1>4. CASE FollowUp
  BY <1>4, EnqueueType DEF FollowUp, Accept, QueueTypeOK, CallerTypeOK,
    StepTypeOK
<1>5. CASE Abort
  BY <1>5 DEF Abort, AgentTypeOK, StepTypeOK
<1>6. CASE ClearAllQueues
  <2>1. CallerTypeOK'
    <3>1. Queued \subseteq Nat /\ Delivered \subseteq Nat
      BY Zenon, QueuedType
    <3>2. resets' \in Nat
      BY <1>6 DEF ClearAllQueues, CallerTypeOK
    <3>3. discarded' \subseteq Nat
      BY Zenon, <1>6, <3>1 DEF ClearAllQueues, CallerTypeOK
    <3> QED
      BY Zenon, <1>6, <3>2, <3>3 DEF ClearAllQueues, CallerTypeOK
  <2> QED
    BY <1>6, <2>1 DEF ClearAllQueues, QueueTypeOK, StepTypeOK
<1>7. CASE Reset
  <2>1. CallerTypeOK'
    <3>1. Queued \subseteq Nat /\ Delivered \subseteq Nat
      BY Zenon, QueuedType
    <3>2. resets' \in Nat
      BY <1>7 DEF Reset, CallerTypeOK
    <3>3. discarded' \subseteq Nat
      BY Zenon, <1>7, <3>1 DEF Reset, CallerTypeOK
    <3> QED
      BY Zenon, <1>7, <3>2, <3>3 DEF Reset, CallerTypeOK
  <2>2. AgentTypeOK' /\ QueueTypeOK'
    BY Zenon, <1>7, EmptySeq DEF Reset, AgentTypeOK, QueueTypeOK
  <2>3. RunTypeOK'
    BY <1>7 DEF Reset, RunTypeOK
  <2> QED
    BY <1>7, <2>1, <2>2, <2>3 DEF Reset, StepTypeOK
<1>8. CASE EmitAgentStart
  BY <1>8, EmitType DEF EmitAgentStart, PCs, LoopPCs, ToolPCs
<1>9. CASE EmitRunTurnStart
  BY <1>9, EmitType DEF EmitRunTurnStart, PCs, LoopPCs, ToolPCs
<1>10. CASE EmitPromptStart
  BY <1>10, EmitType DEF EmitPromptStart, AgentTypeOK, PCs, LoopPCs, ToolPCs
<1>11. CASE EmitPromptEnd
  <2>1. prompts # <<>> /\ Head(prompts) \in Nat /\ Tail(prompts) \in Seq(Nat)
    BY <1>11 DEF EmitPromptEnd, Control, TurnTypeOK
  <2>2. AgentTypeOK'
    <3>1. messages' \in Seq(Messages)
      BY <1>11, <2>1, UserType DEF EmitPromptEnd, AgentTypeOK
    <3> QED
      BY Zenon, <1>11, <3>1 DEF EmitPromptEnd, AgentTypeOK
  <2>3. TurnTypeOK'
    BY <1>11, <2>1 DEF EmitPromptEnd, TurnTypeOK
  <2>4. StepTypeOK'
    BY <1>11, EmitType DEF EmitPromptEnd, PCs, LoopPCs
  <2> QED
    BY <1>11, <2>2, <2>3, <2>4 DEF EmitPromptEnd
<1>12. CASE InitialPoll
  BY <1>12, PollTypes DEF InitialPoll, Inject, QueueTypeOK, TurnTypeOK,
    StepTypeOK, PCs, LoopPCs, ToolPCs
<1>13. CASE EmitTurnStart
  BY <1>13, EmitType DEF EmitTurnStart, Inject, PCs, LoopPCs, ToolPCs
<1>14. CASE EmitInjectStart
  BY <1>14, EmitType DEF EmitInjectStart, AgentTypeOK, PCs, LoopPCs, ToolPCs
<1>15. CASE EmitInjectEnd
  <2>1. /\ pendingMessages # <<>> /\ Head(pendingMessages) \in Nat
        /\ Tail(pendingMessages) \in Seq(Nat)
    BY <1>15 DEF EmitInjectEnd, Control, TurnTypeOK
  <2>2. AgentTypeOK' /\ LoopTypeOK'
    <3>1. /\ messages' \in Seq(Messages) /\ context' \in Seq(Messages)
          /\ newMessages' \in Seq(Messages)
      BY <1>15, <2>1, UserType DEF EmitInjectEnd, AgentTypeOK, LoopTypeOK
    <3> QED
      BY Zenon, <1>15, <3>1 DEF EmitInjectEnd, AgentTypeOK, LoopTypeOK
  <2>3. TurnTypeOK'
    BY <1>15, <2>1 DEF EmitInjectEnd, TurnTypeOK
  <2>4. StepTypeOK'
    BY <1>15, EmitType DEF EmitInjectEnd, PCs, LoopPCs
  <2> QED
    BY <1>15, <2>2, <2>3, <2>4 DEF EmitInjectEnd
<1>16. CASE Request
  <2>1. LoopTypeOK'
    BY <1>16, AssistantType DEF Request, LoopTypeOK
  <2>2. AgentTypeOK'
    BY <1>16 DEF Request, AgentTypeOK
  <2>3. StepTypeOK'
    BY <1>16, EmitType DEF Request, StepTypeOK, PCs, LoopPCs
  <2> QED
    BY <1>16, <2>1, <2>2, <2>3 DEF Request
<1>17. CASE Responds
  <2>1. PICK stop \in {"stop", "error", "aborted"}, n \in 0..MaxCalls :
          StreamEnd(stop, n)
    BY <1>17 DEF Responds
  <2>2. n \in Nat /\ Assistant(turn, stop, n) \in Messages
    BY AssistantType DEF LoopTypeOK
  <2>3. AgentTypeOK'
    <3>1. messages' \in Seq(Messages)
      BY <2>1, <2>2 DEF StreamEnd, AgentTypeOK
    <3> QED
      BY Zenon, <2>1, <3>1 DEF StreamEnd, AgentTypeOK
  <2>4. LoopTypeOK'
    <3>1. /\ newMessages' = Append(newMessages, Assistant(turn, stop, n))
          /\ context' = [context EXCEPT ![Len(context)] =
                                  Assistant(turn, stop, n)]
      BY Zenon, <2>1 DEF StreamEnd
    <3>2. context # <<>>
      BY Zenon, <2>1 DEF StreamEnd, Control
    <3>3. context' \in Seq(Messages)
      BY <2>2, <3>1, <3>2 DEF LoopTypeOK
    <3>4. newMessages' \in Seq(Messages)
      BY <2>2, <3>1 DEF LoopTypeOK
    <3> QED
      BY Zenon, <2>1, <3>3, <3>4 DEF StreamEnd, LoopTypeOK
  <2>5. ToolTypeOK'
    BY <2>1, <2>2 DEF StreamEnd, ToolTypeOK
  <2>6. StepTypeOK'
    <3>1. \E next \in PCs : Emit(next)
      BY <2>1 DEF StreamEnd, PCs, LoopPCs, ToolPCs
    <3> QED
      BY <3>1, EmitType
  <2> QED
    BY <2>1, <2>3, <2>4, <2>5, <2>6 DEF StreamEnd
<1>18. CASE EmitFailedTurnEnd
  BY <1>18, EmitType DEF EmitFailedTurnEnd, AgentTypeOK, PCs, LoopPCs,
    ToolPCs
<1>19. CASE EmitToolStart
  BY <1>19, EmitType DEF EmitToolStart, NextCall, Calls, AgentTypeOK,
    LoopTypeOK, ToolTypeOK, PCs, LoopPCs, ToolPCs
<1>20. CASE PrepareToolCall
  <2>1. ToolTypeOK'
    <3>1. prepared + 1 \in Nat \ {0} /\ prepared + 1 \in Nat
      BY DEF ToolTypeOK
    <3>2. Append(runnableCalls, prepared + 1) \in Seq(Nat \ {0})
      BY <3>1 DEF ToolTypeOK
    <3> QED
      BY Zenon, <1>20, <3>1, <3>2 DEF PrepareToolCall, ToolTypeOK, toolVars
  <2>2. StepTypeOK'
    BY <1>20 DEF PrepareToolCall, StepTypeOK, PCs, LoopPCs, ToolPCs
  <2> QED
    BY <1>20, <2>1, <2>2 DEF PrepareToolCall
<1>21. CASE ExecuteTools
  <2>1. ExecTypeOK'
    <3>1. /\ turn \in Nat /\ runnableCalls \in Seq(Nat \ {0}) /\ running \subseteq Calls
          /\ tainted \subseteq Calls /\ late \subseteq Calls
      BY Zenon DEF ExecTypeOK, ToolTypeOK, LoopTypeOK
    <3>2. \A k \in DOMAIN runnableCalls : <<turn, runnableCalls[k]>> \in Calls
      BY ONLY <3>1 DEF Calls
    <3>3. /\ running' = running \cup {<<turn, runnableCalls[k]>> : k \in DOMAIN runnableCalls}
          /\ tainted' = tainted /\ late' = late
      BY Zenon, <1>21 DEF ExecuteTools
    <3>4. running' \subseteq Calls
      BY ONLY <3>1, <3>2, <3>3
    <3> QED
      BY ONLY Zenon, <3>1, <3>3, <3>4 DEF ExecTypeOK
  <2>2. StepTypeOK'
    BY <1>21 DEF ExecuteTools, StepTypeOK, PCs, LoopPCs, ToolPCs
  <2> QED
    BY <1>21, <2>1, <2>2 DEF ExecuteTools
<1>22. CASE AwaitTool
  <2>1. ToolTypeOK'
    <3>1. runnableCalls # <<>>
      BY <1>22 DEF AwaitTool, Control
    <3>2. /\ Head(runnableCalls) \in Nat
          /\ Tail(runnableCalls) \in Seq(Nat \ {0})
      BY <3>1 DEF ToolTypeOK
    <3> QED
      BY Zenon, <1>22, <3>2 DEF AwaitTool, ToolTypeOK
  <2>2. StepTypeOK'
    BY <1>22, EmitType DEF AwaitTool, StepTypeOK, PCs, LoopPCs, ToolPCs
  <2> QED
    BY <1>22, <2>1, <2>2 DEF AwaitTool
<1>23. CASE EmitToolEnd
  BY <1>23, EmitType DEF EmitToolEnd, StillPending, AgentTypeOK, PCs,
    LoopPCs, ToolPCs
<1>24. CASE EmitResultStart
  BY <1>24, EmitType DEF EmitResultStart, AgentTypeOK, PCs, LoopPCs, ToolPCs
<1>25. CASE EmitResultEnd
  <2>1. ToolResult(turn, current) \in Messages
    BY ToolResultType DEF LoopTypeOK, ToolTypeOK
  <2>2. AgentTypeOK' /\ ToolTypeOK'
    <3>1. messages' \in Seq(Messages) /\ toolResults' \in Seq(Messages)
      BY <1>25, <2>1 DEF EmitResultEnd, AgentTypeOK, ToolTypeOK
    <3> QED
      BY Zenon, <1>25, <3>1 DEF EmitResultEnd, AgentTypeOK, ToolTypeOK
  <2>3. AfterOutcome \in PCs
    BY DEF AfterOutcome, PCs, LoopPCs, ToolPCs
  <2>4. StepTypeOK'
    BY <1>25, <2>3, EmitType DEF EmitResultEnd
  <2> QED
    BY <1>25, <2>2, <2>4 DEF EmitResultEnd
<1>26. CASE EmitTurnEnd
  BY <1>26, EmitType DEF EmitTurnEnd, ContextWithResults, ToolTypeOK,
    LoopTypeOK, PCs, LoopPCs, ToolPCs
<1>27. CASE PollSteering
  BY <1>27, PollTypes DEF PollSteering, GoesOn, QueueTypeOK, TurnTypeOK,
    StepTypeOK, PCs, LoopPCs, ToolPCs
<1>28. CASE PollFollowUp
  BY <1>28, DrainTypes DEF PollFollowUp, QueueTypeOK, TurnTypeOK,
    StepTypeOK, PCs, LoopPCs, ToolPCs
<1>29. CASE EmitAgentEnd
  BY <1>29, EmitType DEF EmitAgentEnd, AgentTypeOK, PCs, LoopPCs, ToolPCs
<1>30. CASE HandleRunFailure
  <2>1. AgentTypeOK'
    <3>1. messages' \in Seq(Messages)
      BY <1>30, AssistantType DEF HandleRunFailure, FailRun, AgentTypeOK
    <3> QED
      BY Zenon, <1>30, <3>1 DEF HandleRunFailure, FailRun, AgentTypeOK
  <2> QED
    BY <1>30, <2>1
    DEF HandleRunFailure, FailRun, StepTypeOK, PCs, LoopPCs
<1>31. CASE FinishRun
  <2>1. AgentTypeOK' /\ TurnTypeOK'
    BY Zenon, <1>31, EmptySeq
    DEF FinishRun, PendingAfterRun, AgentTypeOK, TurnTypeOK
  <2>2. ToolTypeOK' /\ LoopTypeOK' /\ RunTypeOK'
    <3>1. 0 \in Nat
      OBVIOUS
    <3> QED
      BY Zenon, <1>31, <3>1, EmptySeq
      DEF FinishRun, ToolTypeOK, LoopTypeOK, RunTypeOK
  <2> QED
    BY <1>31, <2>1, <2>2 DEF FinishRun, StepTypeOK, PCs
<1>32. CASE StreamUpdate
  BY <1>32, EmitType DEF StreamUpdate, AgentTypeOK, PCs, LoopPCs, ToolPCs
<1>33. CASE Tools
  BY <1>33 DEF Tools, ToolUpdate, ToolSettles, ExecTypeOK, StepTypeOK
<1>34. CASE UNCHANGED vars
  BY <1>34 DEF vars, StepTypeOK
<1> QED
  BY <1>1, <1>2, <1>3, <1>4, <1>5, <1>6, <1>7, <1>8, <1>9, <1>10,
    <1>11, <1>12, <1>13, <1>14, <1>15, <1>16, <1>17, <1>18, <1>19, <1>20,
    <1>21, <1>22, <1>23, <1>24, <1>25, <1>26, <1>27, <1>28, <1>29, <1>30,
    <1>31, <1>32, <1>33, <1>34 DEF Next, Callers, Loop

-----------------------------------------------------------------------------
(* Lemmas about steps *)

(* The steps that leave the loop's data alone: those of callers and tools   *)
(* that do not touch the loop, and the emissions that only move it on.      *)
Bystander == Steer \/ FollowUp \/ Abort \/ ClearAllQueues \/ Tools
               \/ UNCHANGED vars
March == EmitAgentStart \/ EmitRunTurnStart \/ EmitPromptStart \/ EmitTurnStart
           \/ EmitInjectStart \/ StreamUpdate \/ EmitFailedTurnEnd
           \/ EmitToolStart \/ ExecuteTools \/ EmitToolEnd \/ EmitResultStart
           \/ EmitAgentEnd
Work == EmitPromptEnd \/ InitialPoll \/ EmitInjectEnd \/ Request \/ Responds
          \/ PrepareToolCall \/ AwaitTool \/ EmitResultEnd \/ EmitTurnEnd
          \/ PollSteering \/ PollFollowUp \/ HandleRunFailure \/ FinishRun

LEMMA StepCases ==
  [Next]_vars <=> Bystander \/ March \/ Work \/ Prompt \/ Continue \/ Reset
BY Zenon DEF Next, Callers, Loop, Bystander, March, Work

loopData == <<messages, turnVars, toolVars, loopVars, runVars>>

LEMMA BystanderKeeps == Bystander => UNCHANGED <<loopData, pc>>
<1>1. CASE Steer \/ FollowUp \/ Abort \/ ClearAllQueues
  BY Zenon, <1>1 DEF Steer, FollowUp, Abort, ClearAllQueues, loopData, agentVars
<1>2. CASE Tools \/ UNCHANGED vars
  BY Zenon, <1>2 DEF Tools, ToolUpdate, ToolSettles, vars, loopData, agentVars
<1> QED
  BY <1>1, <1>2 DEF Bystander

LEMMA MarchKeeps ==
  March => /\ UNCHANGED <<loopData, queueVars, callerVars>>
           /\ \/ pc' = "run_failure" /\ throws' = throws + 1
              \/ throws' = throws /\
                 \/ pc = "agent_start" /\ pc' = "run_turn_start"
                 \/ /\ pc = "run_turn_start"
                    /\ pc' = IF prompts = <<>> THEN "initial_poll" ELSE "prompt_start"
                 \/ pc = "prompt_start" /\ pc' = "prompt_end"
                 \/ pc = "turn_start" /\ pc' = Inject(pendingMessages)
                 \/ pc = "inject_start" /\ pc' = "inject_end"
                 \/ pc = "streaming" /\ pc' = "streaming"
                 \/ pc = "failed_turn_end" /\ pc' = "agent_end"
                 \/ pc = "tool_start" /\ pc' = "tool_prepare"
                 \/ pc = "tool_execute" /\ pc' = "tool_await"
                 \/ pc = "tool_end" /\ pc' = "result_start"
                 \/ pc = "result_start" /\ pc' = "result_end"
                 \/ pc = "agent_end" /\ pc' = "finish"
<1>1. CASE EmitAgentStart \/ EmitRunTurnStart \/ EmitPromptStart \/ EmitTurnStart
  BY Zenon, <1>1 DEF EmitAgentStart, EmitRunTurnStart, EmitPromptStart,
    EmitTurnStart, Emit, loopData, agentVars
<1>2. CASE EmitInjectStart \/ StreamUpdate \/ EmitFailedTurnEnd \/ EmitToolStart
  BY Zenon, <1>2 DEF EmitInjectStart, StreamUpdate, EmitFailedTurnEnd,
    EmitToolStart, Emit, loopData, agentVars
<1>3. CASE ExecuteTools \/ EmitToolEnd \/ EmitResultStart \/ EmitAgentEnd
  BY Zenon, <1>3 DEF ExecuteTools, EmitToolEnd, EmitResultStart, EmitAgentEnd,
    Emit, loopData, agentVars
<1> QED
  BY <1>1, <1>2, <1>3 DEF March

-----------------------------------------------------------------------------
(* The control point and the data *)

LEMMA AfterTail ==
  ASSUME NEW S, NEW s \in Seq(S), s # <<>>, Len(s) # 1
  PROVE  Tail(s) # <<>>
<1>1. Len(s) \in Nat \ {0} /\ Len(Tail(s)) = Len(s) - 1
  BY HeadTailProperties, EmptySeq
<1>2. Len(<<>>) = 0
  OBVIOUS
<1>3. ASSUME Tail(s) = <<>> PROVE FALSE
  <2>1. Len(Tail(s)) = 0
    BY Zenon, <1>2, <1>3
  <2> QED
    BY <2>1, <1>1
<1> QED
  BY <1>3

LEMMA ControlStep == ASSUME TypeOK, Control, [Next]_vars PROVE Control'
<1> USE DEF Control, IdleIsClean
<1>1. CASE Prompt
  BY Zenon, <1>1 DEF Prompt, Prompt, BeginRun, agentVars, turnVars,
    toolVars, loopVars
<1>2. CASE Continue
  <2>1. PICK ids, skip : BeginRun(ids, skip)
    BY Zenon, <1>2 DEF Continue
  <2> QED
    BY Zenon, <2>1 DEF BeginRun
<1>3. CASE Steer
  BY Zenon, <1>3 DEF Steer, agentVars, turnVars, toolVars, loopVars
<1>4. CASE FollowUp
  BY Zenon, <1>4 DEF FollowUp, agentVars, turnVars, toolVars, loopVars
<1>5. CASE Abort
  BY Zenon, <1>5 DEF Abort, agentVars, turnVars, toolVars, loopVars
<1>6. CASE ClearAllQueues
  BY Zenon, <1>6 DEF ClearAllQueues, agentVars, turnVars, toolVars, loopVars
<1>7. CASE Reset
  BY Zenon, <1>7 DEF Reset, agentVars, turnVars, toolVars, loopVars
<1>8. CASE EmitAgentStart
  BY Zenon, <1>8 DEF EmitAgentStart, Emit, agentVars, turnVars, toolVars,
    loopVars
<1>9. CASE EmitRunTurnStart
  BY Zenon, <1>9 DEF EmitRunTurnStart, Emit, agentVars, turnVars, toolVars,
    loopVars
<1>10. CASE EmitPromptStart
  BY Zenon, <1>10 DEF EmitPromptStart, Emit, agentVars, turnVars, toolVars,
    loopVars
<1>11. CASE EmitPromptEnd
  <2>1. Len(prompts) # 1 => Tail(prompts) # <<>>
    BY <1>11, AfterTail DEF EmitPromptEnd, TypeOK, TurnTypeOK
  <2> QED
    BY Zenon, <1>11, <2>1 DEF EmitPromptEnd, Emit, toolVars, loopVars
<1>12. CASE InitialPoll
  BY Zenon, <1>12 DEF InitialPoll, Inject, agentVars, turnVars, toolVars,
    loopVars
<1>13. CASE EmitTurnStart
  BY Zenon, <1>13 DEF EmitTurnStart, Emit, Inject, agentVars, turnVars,
    toolVars, loopVars
<1>14. CASE EmitInjectStart
  BY Zenon, <1>14 DEF EmitInjectStart, Emit, agentVars, turnVars, toolVars,
    loopVars
<1>15. CASE EmitInjectEnd
  <2>1. Len(pendingMessages) # 1 => Tail(pendingMessages) # <<>>
    BY <1>15, AfterTail DEF EmitInjectEnd, TypeOK, TurnTypeOK
  <2> QED
    BY Zenon, <1>15, <2>1 DEF EmitInjectEnd, Emit, toolVars
<1>16. CASE Request
  <2>1. Append(context, Assistant(turn', "partial", 0)) # <<>>
    <3>1. turn' \in Nat
      BY <1>16 DEF Request, TypeOK, LoopTypeOK
    <3> QED
      BY <3>1, AssistantType, AppendProperties DEF TypeOK, LoopTypeOK
  <2> QED
    BY Zenon, <1>16, <2>1 DEF Request, Emit, turnVars, toolVars
<1>17. CASE Responds
  <2>1. PICK stop, n : StreamEnd(stop, n)
    BY Zenon, <1>17 DEF Responds
  <2> QED
    BY Zenon, <2>1 DEF StreamEnd, Emit, turnVars
<1>18. CASE EmitFailedTurnEnd
  BY Zenon, <1>18 DEF EmitFailedTurnEnd, Emit, agentVars, turnVars,
    toolVars, loopVars
<1>19. CASE EmitToolStart
  BY Zenon, <1>19 DEF EmitToolStart, Emit, agentVars, turnVars, toolVars,
    loopVars
<1>20. CASE PrepareToolCall
  <2>1. Append(runnableCalls, prepared + 1) # <<>>
    BY DEF TypeOK, ToolTypeOK
  <2> QED
    BY Zenon, <1>20, <2>1
    DEF PrepareToolCall, agentVars, turnVars, toolVars, loopVars
<1>21. CASE ExecuteTools
  BY Zenon, <1>21 DEF ExecuteTools, agentVars, turnVars, toolVars, loopVars
<1>22. CASE AwaitTool
  BY Zenon, <1>22 DEF AwaitTool, Emit, agentVars, turnVars, toolVars,
    loopVars
<1>23. CASE EmitToolEnd
  BY Zenon, <1>23 DEF EmitToolEnd, Emit, agentVars, turnVars, toolVars,
    loopVars
<1>24. CASE EmitResultStart
  BY Zenon, <1>24 DEF EmitResultStart, Emit, agentVars, turnVars, toolVars,
    loopVars
<1>25. CASE EmitResultEnd
  BY Zenon, <1>25 DEF EmitResultEnd, Emit, AfterOutcome, agentVars,
    turnVars, toolVars, loopVars
<1>26. CASE EmitTurnEnd
  BY Zenon, <1>26 DEF EmitTurnEnd, Emit, agentVars, turnVars, toolVars,
    loopVars
<1>27. CASE PollSteering
  BY Zenon, <1>27 DEF PollSteering, agentVars, turnVars, toolVars, loopVars
<1>28. CASE PollFollowUp
  BY Zenon, <1>28 DEF PollFollowUp, agentVars, turnVars, toolVars, loopVars
<1>29. CASE EmitAgentEnd
  BY Zenon, <1>29 DEF EmitAgentEnd, Emit, agentVars, turnVars, toolVars,
    loopVars
<1>30. CASE HandleRunFailure
  BY Zenon, <1>30 DEF HandleRunFailure, FailRun, agentVars, turnVars,
    toolVars, loopVars
<1>31. CASE FinishRun
  BY Zenon, <1>31 DEF FinishRun, PendingAfterRun, agentVars, turnVars,
    toolVars, loopVars
<1>32. CASE StreamUpdate
  BY Zenon, <1>32 DEF StreamUpdate, Emit, agentVars, turnVars, toolVars,
    loopVars
<1>33. CASE Tools
  <2>1. PICK c : ToolUpdate(c) \/ ToolSettles(c)
    BY Zenon, <1>33 DEF Tools
  <2>2. CASE ToolUpdate(c)
    BY Zenon, <2>2 DEF ToolUpdate, agentVars, turnVars, toolVars, loopVars
  <2>3. CASE ToolSettles(c)
    BY Zenon, <2>3 DEF ToolSettles, agentVars, turnVars, toolVars, loopVars
  <2> QED
    BY <2>1, <2>2, <2>3
<1>34. CASE UNCHANGED vars
  BY Zenon, <1>34 DEF vars, agentVars, turnVars, toolVars, loopVars
<1> QED
  BY <1>1, <1>2, <1>3, <1>4, <1>5, <1>6, <1>7, <1>8, <1>9, <1>10,
    <1>11, <1>12, <1>13, <1>14, <1>15, <1>16, <1>17, <1>18, <1>19, <1>20,
    <1>21, <1>22, <1>23, <1>24, <1>25, <1>26, <1>27, <1>28, <1>29, <1>30,
    <1>31, <1>32, <1>33, <1>34 DEF Next, Callers, Loop

-----------------------------------------------------------------------------
(* The loop's context and the transcript *)

StartPCs == {"agent_start", "run_turn_start", "prompt_start", "prompt_end"}
TurnPCs == {"initial_poll", "turn_start", "inject_start", "inject_end",
            "request", "poll_steering", "poll_followUp", "failed_turn_end",
            "agent_end"}

(* What the context lacks, or has ahead, at every point of a run that was   *)
(* not reset: the prompts are in the context before they are in the         *)
(* transcript, the results of a turn after.                                 *)
Sync ==
  ~resetInRun =>
    /\ pc \in StartPCs => context = messages \o Users(prompts)
    /\ pc \in TurnPCs => context = messages
    /\ pc = "streaming" =>
         \E partial \in Messages : context = Append(messages, partial)
    /\ pc \in ToolPCs \cup {"turn_end"} => messages = context \o toolResults

(* The first prompt moves from the front of what is left to the end of what *)
(* was announced.                                                           *)
LEMMA AnnounceHead ==
  ASSUME NEW s \in Seq(Messages), NEW ids \in Seq(Nat), ids # <<>>
  PROVE  s \o Users(ids) = Append(s, User(Head(ids))) \o Users(Tail(ids))
<1> DEFINE m == User(Head(ids))
<1>1. Head(ids) \in Nat /\ Tail(ids) \in Seq(Nat) /\ m \in Messages
  BY HeadTailProperties, UserType
<1>2. Users(ids) = <<m>> \o Users(Tail(ids))
  BY <1>1, UserType DEF Users
<1>3. Append(s, m) = s \o <<m>> /\ <<m>> \in Seq(Messages)
  BY <1>1, AppendIsConcat
<1>4. Users(Tail(ids)) \in Seq(Messages)
  BY <1>1, UsersType
<1>5. (s \o <<m>>) \o Users(Tail(ids)) = s \o (<<m>> \o Users(Tail(ids)))
  BY <1>3, <1>4, ConcatAssociative
<1> QED
  BY Zenon, <1>2, <1>3, <1>5

LEMMA NoUsers ==
  ASSUME NEW s \in Seq(Messages), NEW ids \in Seq(Nat), ids = <<>>
  PROVE  s \o Users(ids) = s
<1>1. Users(ids) = <<>>
  BY DEF Users
<1> QED
  BY <1>1, ConcatEmptySeq

LEMMA TailOfOne ==
  ASSUME NEW ids \in Seq(Nat), Len(ids) = 1
  PROVE  Tail(ids) = <<>>
<1>0. Len(<<>>) = 0 /\ 0 # 1
  OBVIOUS
<1>1. ids # <<>>
  BY Zenon, <1>0
<1>2. Tail(ids) \in Seq(Nat) /\ Len(Tail(ids)) = 0
  BY <1>1, HeadTailProperties
<1> QED
  BY <1>2, EmptySeq

LEMMA ReplaceLast ==
  ASSUME NEW s \in Seq(Messages), NEW p \in Messages, NEW m \in Messages
  PROVE  [Append(s, p) EXCEPT ![Len(Append(s, p))] = m] = Append(s, m)
<1> DEFINE a == Append(s, p)
           r == [a EXCEPT ![Len(a)] = m]
<1>1. a \in Seq(Messages) /\ Len(a) = Len(s) + 1 /\ Len(s) \in Nat
  BY AppendProperties, LenProperties
<1>2. \A i \in 1..Len(s) : a[i] = s[i]
  BY AppendProperties
<1>3. /\ r \in Seq(Messages) /\ Len(r) = Len(a)
      /\ \A i \in 1..Len(a) : r[i] = IF i = Len(a) THEN m ELSE a[i]
  <2>1. Len(a) \in 1..Len(a)
    BY <1>1
  <2> HIDE DEF a
  <2> QED
    BY <1>1, <2>1, ExceptSeq
<1>4. /\ Append(s, m) \in Seq(Messages) /\ Len(Append(s, m)) = Len(a)
      /\ \A i \in 1..Len(s) : Append(s, m)[i] = s[i]
      /\ Append(s, m)[Len(s) + 1] = m
  BY <1>1, AppendProperties
<1>5. \A i \in 1..Len(r) : r[i] = Append(s, m)[i]
  BY <1>1, <1>2, <1>3, <1>4
<1> QED
  BY <1>3, <1>4, <1>5, SeqEqual

LEMMA AppendToConcat ==
  ASSUME NEW s \in Seq(Messages), NEW t \in Seq(Messages), NEW m \in Messages
  PROVE  s \o Append(t, m) = Append(s \o t, m)
OBVIOUS

LEMMA SyncStep ==
  ASSUME TypeOK, Control, Sync, [Next]_vars
  PROVE  Sync'
<1> USE DEF Sync, StartPCs, TurnPCs, ToolPCs
<1>1. CASE Bystander
  BY Zenon, <1>1, BystanderKeeps DEF loopData, turnVars, toolVars, loopVars,
    runVars
<1>2. CASE March
  <2>1. prompts = <<>> => messages \o Users(prompts) = messages
    BY NoUsers DEF TypeOK, AgentTypeOK, TurnTypeOK
  <2> QED
    BY Zenon, <1>2, <2>1, MarchKeeps
    DEF Inject, loopData, turnVars, toolVars, loopVars, runVars
<1>3. CASE Prompt
  BY Zenon, <1>3 DEF Prompt, BeginRun
<1>4. CASE Continue
  <2>1. PICK ids, skip : BeginRun(ids, skip)
    BY Zenon, <1>4 DEF Continue
  <2> QED
    BY Zenon, <2>1 DEF BeginRun
<1>5. CASE Reset
  <2>1. CASE activeRun = "none"
    BY Zenon, <1>5, <2>1 DEF Reset, Control, IdleIsClean
  <2>2. CASE activeRun # "none"
    BY Zenon, <1>5, <2>2 DEF Reset
  <2> QED
    BY <2>1, <2>2
<1>6. CASE InitialPoll \/ PrepareToolCall \/ AwaitTool \/ PollSteering
        \/ PollFollowUp
  BY Zenon, <1>6 DEF InitialPoll, PrepareToolCall, AwaitTool, PollSteering,
    PollFollowUp, Emit, Inject, agentVars, turnVars, toolVars, loopVars, runVars
<1>7. CASE EmitPromptEnd
  <2> DEFINE next == Append(messages, User(Head(prompts)))
  <2>1. /\ messages \in Seq(Messages) /\ next \in Seq(Messages)
        /\ prompts \in Seq(Nat) /\ prompts # <<>> /\ Tail(prompts) \in Seq(Nat)
    BY <1>7, UserType
    DEF EmitPromptEnd, TypeOK, AgentTypeOK, TurnTypeOK, Control
  <2>2. messages \o Users(prompts) = next \o Users(Tail(prompts))
    BY <2>1, AnnounceHead
  <2>3. Len(prompts) = 1 => next \o Users(Tail(prompts)) = next
    BY <2>1, TailOfOne, NoUsers
  <2> QED
    BY Zenon, <1>7, <2>2, <2>3
    DEF EmitPromptEnd, Emit, toolVars, loopVars, runVars
<1>8. CASE EmitInjectEnd
  BY Zenon, <1>8 DEF EmitInjectEnd, Emit, toolVars, runVars
<1>9. CASE Request
  <2>1. Assistant(turn', "partial", 0) \in Messages
    <3>1. turn' \in Nat /\ 0 \in Nat
      BY <1>9 DEF Request, TypeOK, LoopTypeOK
    <3> QED
      BY <3>1, AssistantType
  <2> QED
    BY Zenon, <1>9, <2>1 DEF Request, Emit, turnVars, toolVars, runVars
<1>10. CASE Responds
  <2>1. PICK stop \in {"stop", "error", "aborted"}, n \in 0..MaxCalls :
          StreamEnd(stop, n)
    BY <1>10 DEF Responds
  <2> DEFINE m == Assistant(turn, stop, n)
  <2>2. m \in Messages /\ messages \in Seq(Messages)
    BY AssistantType DEF TypeOK, LoopTypeOK, AgentTypeOK
  <2>3. ASSUME ~resetInRun
        PROVE  context' = Append(messages, m)
    <3>1. PICK p \in Messages : context = Append(messages, p)
      BY Zenon, <2>1, <2>3 DEF StreamEnd
    <3>2. context' = [context EXCEPT ![Len(context)] = m]
      BY Zenon, <2>1 DEF StreamEnd
    <3>3. [Append(messages, p) EXCEPT ![Len(Append(messages, p))] = m]
            = Append(messages, m)
      BY <2>2, ReplaceLast
    <3> QED
      BY Zenon, <3>1, <3>2, <3>3
  <2>4. Append(messages, m) \o <<>> = Append(messages, m)
    BY <2>2, AppendProperties, ConcatEmptySeq
  <2>5. /\ messages' = Append(messages, m) /\ toolResults' = <<>>
        /\ resetInRun' = resetInRun
        /\ pc' \in {"failed_turn_end", "tool_start", "turn_end", "run_failure"}
    BY Zenon, <2>1 DEF StreamEnd, Emit, runVars
  <2> QED
    BY Zenon, <2>3, <2>4, <2>5
<1>11. CASE EmitResultEnd
  <2> DEFINE m == ToolResult(turn, current)
  <2>1. /\ m \in Messages /\ context \in Seq(Messages)
        /\ toolResults \in Seq(Messages)
    BY ToolResultType DEF TypeOK, LoopTypeOK, ToolTypeOK
  <2>2. context \o Append(toolResults, m) = Append(context \o toolResults, m)
    BY <2>1, AppendToConcat
  <2> QED
    BY Zenon, <1>11, <2>2
    DEF EmitResultEnd, AfterOutcome, Emit, turnVars, loopVars, runVars
<1>12. CASE EmitTurnEnd
  BY Zenon, <1>12
  DEF EmitTurnEnd, ContextWithResults, Emit, agentVars, turnVars, runVars
<1>13. CASE HandleRunFailure \/ FinishRun
  BY Zenon, <1>13 DEF HandleRunFailure, FailRun, FinishRun
<1> QED
  BY <1>1, <1>2, <1>3, <1>4, <1>5, <1>6, <1>7, <1>8, <1>9, <1>10, <1>11,
    <1>12, <1>13, StepCases DEF Work

-----------------------------------------------------------------------------
(* The report of a run *)

(* What the run reports is what it added: the context is the transcript     *)
(* the run began with followed by newMessages, except while a response is   *)
(* streaming, when the context holds the partial message ahead of both.     *)
RunPCs == StartPCs \cup TurnPCs \cup ToolPCs \cup {"turn_end", "streaming"}
Before == SubSeq(messages, 1, base)
Report ==
  ~resetInRun /\ pc \in RunPCs =>
    /\ base <= Len(messages)
    /\ pc = "streaming" => messages = Before \o newMessages
    /\ pc # "streaming" => context = Before \o newMessages

LEMMA PrefixOfAppend ==
  ASSUME NEW s \in Seq(Messages), NEW m \in Messages, NEW n \in Nat, n <= Len(s)
  PROVE  /\ SubSeq(Append(s, m), 1, n) = SubSeq(s, 1, n)
         /\ SubSeq(s, 1, n) \in Seq(Messages)
         /\ n <= Len(Append(s, m))
<1>1. SubSeq(s, 1, n) \in Seq(Messages) /\ Len(SubSeq(s, 1, n)) = n
  BY SubSeqProperties, ElementOfSeq, LenProperties
<1>2. /\ Append(s, m) \in Seq(Messages) /\ Len(Append(s, m)) = Len(s) + 1
      /\ Len(s) \in Nat
      /\ \A i \in 1..Len(s) : Append(s, m)[i] = s[i]
  BY AppendProperties, LenProperties
<1>3. /\ SubSeq(Append(s, m), 1, n) \in Seq(Messages)
      /\ Len(SubSeq(Append(s, m), 1, n)) = n
      /\ \A i \in 1..n : SubSeq(Append(s, m), 1, n)[i] = Append(s, m)[i]
  <2> DEFINE a == Append(s, m)
  <2>1. \A i \in 1..n : a[i] \in Messages
    BY <1>2, ElementOfSeq
  <2> HIDE DEF a
  <2> QED
    BY <2>1, SubSeqProperties
<1>4. \A i \in 1..n : SubSeq(s, 1, n)[i] = s[i]
  BY SubSeqProperties, ElementOfSeq, LenProperties
<1>5. \A i \in 1..n : SubSeq(Append(s, m), 1, n)[i] = SubSeq(s, 1, n)[i]
  BY <1>2, <1>3, <1>4
<1> QED
  BY <1>1, <1>2, <1>3, <1>5, SeqEqual

LEMMA BeforeKept ==
  ASSUME TypeOK, base <= Len(messages), base' = base,
         NEW m \in Messages, messages' = Append(messages, m)
  PROVE  Before' = Before /\ Before \in Seq(Messages) /\ base' <= Len(messages')
BY PrefixOfAppend DEF TypeOK, AgentTypeOK, RunTypeOK, Before

LEMMA BeginRunReport ==
  ASSUME TypeOK, NEW ids, NEW skip, BeginRun(ids, skip)
  PROVE  Report'
<1>1. base' = Len(messages) /\ messages' = messages /\ newMessages' = Users(ids)
      /\ context' = messages \o Users(ids) /\ pc' = "agent_start"
  BY Zenon DEF BeginRun, ReportPrompts
<1>2. Before' = messages /\ base' <= Len(messages')
  BY <1>1, SubSeqFull, LenProperties DEF Before, TypeOK, AgentTypeOK
<1> QED
  BY <1>1, <1>2 DEF Report

LEMMA ReportStep ==
  ASSUME TypeOK, TypeOK', Control, Sync, Report, [Next]_vars
  PROVE  Report'
<1> USE DEF RunPCs, StartPCs, TurnPCs, ToolPCs
<1>1. CASE Bystander
  BY Zenon, <1>1, BystanderKeeps
  DEF Report, Before, loopData, loopVars, runVars
<1>2. CASE March
  BY Zenon, <1>2, MarchKeeps
  DEF Report, Before, loopData, loopVars, runVars, Inject
<1>3. CASE Prompt
  BY <1>3, BeginRunReport DEF Prompt
<1>4. CASE Continue
  <2>1. PICK ids, skip : BeginRun(ids, skip)
    BY Zenon, <1>4 DEF Continue
  <2> QED
    BY <2>1, BeginRunReport
<1>5. CASE Reset
  BY Zenon, <1>5 DEF Reset, Report, Control, IdleIsClean
<1>6. CASE EmitPromptEnd
  <2>1. User(Head(prompts)) \in Messages
    BY <1>6, UserType DEF EmitPromptEnd, Control, TypeOK, TurnTypeOK
  <2>2. messages' = Append(messages, User(Head(prompts))) /\ base' = base
    BY <1>6 DEF EmitPromptEnd, runVars
  <2> QED
    BY Zenon, <1>6, <2>1, <2>2, BeforeKept
    DEF EmitPromptEnd, Emit, Report, loopVars, runVars
<1>7. CASE InitialPoll \/ PrepareToolCall \/ AwaitTool \/ PollSteering
        \/ PollFollowUp
  BY Zenon, <1>7 DEF InitialPoll, PrepareToolCall, AwaitTool, PollSteering,
    PollFollowUp, Emit, Inject, Report, Before, loopVars, runVars, agentVars
<1>8. CASE EmitInjectEnd
  <2> DEFINE m == User(Head(pendingMessages))
  <2>1. m \in Messages
    BY <1>8, UserType DEF EmitInjectEnd, Control, TypeOK, TurnTypeOK
  <2>2. /\ messages' = Append(messages, m) /\ base' = base
        /\ context' = Append(context, m) /\ newMessages' = Append(newMessages, m)
        /\ resetInRun' = resetInRun /\ pc = "inject_end"
        /\ pc' \in {"request", "inject_start", "run_failure"}
    BY Zenon, <1>8 DEF EmitInjectEnd, Emit, runVars
  <2>3. ASSUME ~resetInRun
        PROVE  Append(context, m) = Before \o Append(newMessages, m)
    <3>1. Before \in Seq(Messages) /\ newMessages \in Seq(Messages)
      BY <2>1, <2>2, <2>3, BeforeKept DEF Report, TypeOK, LoopTypeOK
    <3> QED
      BY Zenon, <2>1, <2>2, <2>3, <3>1, AppendToConcat DEF Report
  <2> QED
    BY Zenon, <2>1, <2>2, <2>3, BeforeKept DEF Report
<1>9. CASE Request
  BY Zenon, <1>9 DEF Request, Emit, Report, Before, Sync, runVars
<1>10. CASE Responds
  <2>1. PICK stop \in {"stop", "error", "aborted"}, n \in 0..MaxCalls :
          StreamEnd(stop, n)
    BY <1>10 DEF Responds
  <2> DEFINE m == Assistant(turn, stop, n)
  <2>2. m \in Messages
    BY AssistantType DEF TypeOK, LoopTypeOK
  <2>3. /\ messages' = Append(messages, m) /\ base' = base
        /\ newMessages' = Append(newMessages, m) /\ pc = "streaming"
        /\ resetInRun' = resetInRun /\ toolResults' = <<>>
        /\ pc' \in {"failed_turn_end", "tool_start", "turn_end", "run_failure"}
    BY Zenon, <2>1 DEF StreamEnd, Emit, runVars
  <2>4. ASSUME ~resetInRun
        PROVE  Append(messages, m) = Before \o Append(newMessages, m)
    <3>1. Before \in Seq(Messages) /\ newMessages \in Seq(Messages)
      BY <2>2, <2>3, <2>4, BeforeKept DEF Report, TypeOK, LoopTypeOK
    <3>2. messages = Before \o newMessages
      BY Zenon, <2>3, <2>4 DEF Report
    <3>3. Before \o Append(newMessages, m) = Append(Before \o newMessages, m)
      BY ONLY Zenon, <2>2, <3>1, AppendToConcat
    <3> QED
      BY ONLY Zenon, <3>2, <3>3
  <2>5. Sync'
    BY <1>10, SyncStep, StepCases DEF Work
  <2>6. ASSUME ~resetInRun, pc' # "run_failure"
        PROVE  context' = Append(messages, m)
    <3>1. context' \in Seq(Messages)
      BY DEF TypeOK, LoopTypeOK
    <3>2. context' = messages' \/ messages' = context' \o toolResults'
      BY Zenon, <2>3, <2>5, <2>6 DEF Sync
    <3> QED
      BY Zenon, <2>3, <3>1, <3>2, ConcatEmptySeq
  <2> QED
    BY Zenon, <2>2, <2>3, <2>4, <2>6, BeforeKept DEF Report
<1>11. CASE EmitResultEnd
  <2>1. ToolResult(turn, current) \in Messages
    BY ToolResultType DEF TypeOK, LoopTypeOK, ToolTypeOK
  <2>2. messages' = Append(messages, ToolResult(turn, current)) /\ base' = base
    BY <1>11 DEF EmitResultEnd, runVars
  <2> QED
    BY Zenon, <1>11, <2>1, <2>2, BeforeKept
    DEF EmitResultEnd, AfterOutcome, Emit, Report, loopVars, runVars
<1>12. CASE EmitTurnEnd
  <2>1. /\ Before \in Seq(Messages) \/ resetInRun
        /\ newMessages \in Seq(Messages) /\ toolResults \in Seq(Messages)
    <3>1. messages \in Seq(Messages)
      BY DEF TypeOK, AgentTypeOK
    <3>2. \A i \in 1..Len(messages) : messages[i] \in Messages
      BY <3>1, ElementOfSeq
    <3> QED
      BY <1>12, <3>1, <3>2, SubSeqProperties, LenProperties
      DEF EmitTurnEnd, Before, Report, TypeOK, LoopTypeOK, ToolTypeOK, RunTypeOK
  <2>2. ~resetInRun =>
          (Before \o newMessages) \o toolResults
            = Before \o (newMessages \o toolResults)
    BY <2>1, ConcatAssociative
  <2> QED
    BY Zenon, <1>12, <2>2 DEF EmitTurnEnd, ContextWithResults, Emit, Report,
      Before, agentVars, runVars
<1>13. CASE HandleRunFailure \/ FinishRun
  BY Zenon, <1>13 DEF HandleRunFailure, FailRun, FinishRun, Report
<1> QED
  BY <1>1, <1>2, <1>3, <1>4, <1>5, <1>6, <1>7, <1>8, <1>9, <1>10, <1>11,
    <1>12, <1>13, StepCases DEF Work

-----------------------------------------------------------------------------
(* The calls of a message *)

LEMMA RangeOfAppend ==
  ASSUME NEW S, NEW s \in Seq(S), NEW e \in S
  PROVE  Range(Append(s, e)) = Range(s) \cup {e}
<1> DEFINE t == Append(s, e)
<1>1. /\ Len(t) = Len(s) + 1 /\ Len(s) \in Nat
      /\ \A i \in 1..Len(s) : t[i] = s[i]
      /\ t[Len(s) + 1] = e
      /\ DOMAIN t = 1..Len(t) /\ DOMAIN s = 1..Len(s)
  BY AppendProperties, LenProperties
<1> HIDE DEF t
<1>2. DOMAIN t = DOMAIN s \cup {Len(s) + 1}
  BY <1>1
<1> QED
  BY <1>1, <1>2 DEF Range, t

LEMMA RangeOfHeadTail ==
  ASSUME NEW S, NEW s \in Seq(S), s # <<>>
  PROVE  /\ Range(s) = {Head(s)} \cup Range(Tail(s))
         /\ Head(s) \in S /\ Tail(s) \in Seq(S) /\ Len(s) = Len(Tail(s)) + 1
<1> DEFINE t == Tail(s)
<1>1. /\ Head(s) \in S /\ t \in Seq(S) /\ Len(t) = Len(s) - 1
      /\ \A i \in 1..Len(t) : t[i] = s[i + 1]
      /\ Len(s) \in Nat \ {0} /\ Head(s) = s[1]
      /\ DOMAIN t = 1..Len(t) /\ DOMAIN s = 1..Len(s)
  BY HeadTailProperties, LenProperties, EmptySeq
<1> HIDE DEF t
<1>2. ASSUME NEW x \in Range(s) PROVE x = Head(s) \/ x \in Range(t)
  <2>1. PICK i \in 1..Len(s) : x = s[i]
    BY <1>1 DEF Range
  <2>2. i # 1 => i - 1 \in 1..Len(t) /\ x = t[i - 1]
    BY <1>1, <2>1
  <2> QED
    BY <1>1, <2>1, <2>2 DEF Range
<1>3. ASSUME NEW x \in Range(t) PROVE x \in Range(s)
  <2>1. PICK i \in 1..Len(t) : x = t[i]
    BY <1>1, <1>3 DEF Range
  <2>2. i + 1 \in 1..Len(s) /\ x = s[i + 1]
    BY <1>1, <2>1
  <2> QED
    BY <1>1, <2>2 DEF Range
<1>4. Head(s) \in Range(s)
  BY <1>1 DEF Range
<1> QED
  BY <1>1, <1>2, <1>3, <1>4 DEF t

(* Where the calls of the current message are while they are executed: each *)
(* of those prepared has a result, waits to run, or is being reported.      *)
InTools == pc \in ToolPCs \cup {"turn_end"}
Emitting == pc \in {"tool_end", "result_start", "result_end"}
Answered == {toolResults[k].call : k \in DOMAIN toolResults}
Tooling ==
  InTools =>
    /\ prepared <= toolCalls
    /\ pc \in {"tool_start", "tool_prepare"} => prepared < toolCalls
    /\ \A k \in DOMAIN toolResults :
         toolResults[k] = ToolResult(turn, toolResults[k].call)
    /\ ~Emitting => prepared = Len(toolResults) + Len(runnableCalls)
    /\ Emitting => prepared = Len(toolResults) + Len(runnableCalls) + 1
    /\ ~Emitting => 1..prepared = Answered \cup Range(runnableCalls)
    /\ Emitting => 1..prepared = Answered \cup Range(runnableCalls) \cup {current}
    /\ pc = "turn_end" => prepared = toolCalls /\ runnableCalls = <<>>

LEMMA ToolingStep ==
  ASSUME TypeOK, Control, Tooling, [Next]_vars
  PROVE  Tooling'
<1> USE DEF InTools, Emitting, ToolPCs
<1>1. CASE Bystander
  BY Zenon, <1>1, BystanderKeeps
  DEF Tooling, Answered, loopData, toolVars, loopVars
<1>2. CASE March
  BY Zenon, <1>2, MarchKeeps
  DEF Tooling, Answered, loopData, toolVars, loopVars, Inject
<1>3. CASE Prompt \/ Continue
  BY Zenon, <1>3 DEF Prompt, Continue, BeginRun, Tooling
<1>4. CASE Reset
  BY Zenon, <1>4 DEF Reset, Tooling, Answered, toolVars, loopVars
<1>5. CASE EmitPromptEnd \/ InitialPoll \/ EmitInjectEnd \/ Request
        \/ EmitTurnEnd \/ PollSteering \/ PollFollowUp \/ HandleRunFailure
        \/ FinishRun
  BY Zenon, <1>5 DEF EmitPromptEnd, InitialPoll, EmitInjectEnd, Request,
    EmitTurnEnd, PollSteering, PollFollowUp, HandleRunFailure, FailRun,
    FinishRun, Emit, Inject, Tooling
<1>6. CASE Responds
  <2>1. PICK stop \in {"stop", "error", "aborted"}, n \in 0..MaxCalls :
          StreamEnd(stop, n)
    BY <1>6 DEF Responds
  <2>2. /\ toolCalls' = n /\ prepared' = 0 /\ runnableCalls' = <<>>
        /\ toolResults' = <<>>
        /\ \/ pc' = "tool_start" /\ n > 0
           \/ pc' = "turn_end" /\ ~(n > 0)
           \/ pc' \in {"failed_turn_end", "run_failure"}
    <3>1. ~Failed(Assistant(turn, stop, n)) =>
            Failed(Assistant(turn, stop, n)) = FALSE
      OBVIOUS
    <3> QED
      BY Zenon, <2>1 DEF StreamEnd, Emit
  <2>3. n \in Nat
    OBVIOUS
  <2> QED
    BY <2>2, <2>3 DEF Tooling, Answered, Range
<1>7. CASE PrepareToolCall
  <2>1. /\ prepared < toolCalls /\ pc = "tool_prepare" /\ prepared' = prepared + 1
        /\ toolCalls' = toolCalls /\ toolResults' = toolResults /\ turn' = turn
        /\ prepared \in Nat /\ toolCalls \in Nat /\ Tooling
        /\ Len(toolResults) \in Nat /\ Len(runnableCalls) \in Nat
    BY <1>7, LenProperties
    DEF PrepareToolCall, Tooling, loopVars, TypeOK, ToolTypeOK
  <2>2. 1..prepared' = 1..prepared \cup {prepared + 1} /\ prepared' <= toolCalls
    BY <2>1
  <2>3. CASE current' = prepared + 1 /\ pc' = "tool_end" /\ UNCHANGED runnableCalls
    BY <2>1, <2>2, <2>3 DEF Tooling, Answered
  <2>4. CASE /\ runnableCalls' = Append(runnableCalls, prepared + 1)
             /\ pc' = IF KeepsPreparing(prepared') THEN "tool_start"
                      ELSE "tool_execute"
    <3>1. prepared + 1 \in Nat \ {0} /\ runnableCalls \in Seq(Nat \ {0})
      BY <2>1 DEF TypeOK, ToolTypeOK
    <3>2. /\ Range(runnableCalls') = Range(runnableCalls) \cup {prepared + 1}
          /\ Len(runnableCalls') = Len(runnableCalls) + 1
      BY <2>4, <3>1, RangeOfAppend, AppendProperties
    <3>3. /\ pc' \in {"tool_start", "tool_execute"}
          /\ pc' = "tool_start" => prepared' < toolCalls
      BY <2>1, <2>4 DEF KeepsPreparing
    <3> QED
      BY <2>1, <2>2, <3>2, <3>3 DEF Tooling, Answered
  <2> QED
    BY <1>7, <2>3, <2>4 DEF PrepareToolCall
<1>8. CASE AwaitTool
  <2>1. CASE pc' = "run_failure"
    BY <2>1 DEF Tooling
  <2>2. CASE pc' # "run_failure"
    <3>1. /\ current' = Head(runnableCalls) /\ runnableCalls' = Tail(runnableCalls)
          /\ pc' = "tool_end" /\ pc = "tool_await"
          /\ UNCHANGED <<toolCalls, prepared, toolResults, turn>>
      BY Zenon, <1>8, <2>2 DEF AwaitTool, Emit, loopVars
    <3>2. runnableCalls \in Seq(Nat \ {0}) /\ runnableCalls # <<>>
      BY <3>1 DEF TypeOK, ToolTypeOK, Control
    <3>3. /\ Range(runnableCalls) = {current'} \cup Range(runnableCalls')
          /\ Len(runnableCalls) = Len(runnableCalls') + 1
          /\ Len(runnableCalls') \in Nat
      BY <3>1, <3>2, RangeOfHeadTail, LenProperties
    <3>4. Len(toolResults) \in Nat
      BY LenProperties DEF TypeOK, ToolTypeOK
    <3> QED
      BY <3>1, <3>3, <3>4 DEF Tooling, Answered
  <2> QED
    BY <2>1, <2>2
<1>9. CASE EmitResultEnd
  <2> DEFINE m == ToolResult(turn, current)
  <2>1. CASE pc' = "run_failure"
    BY <2>1 DEF Tooling
  <2>2. CASE pc' # "run_failure"
    <3>1. /\ toolResults' = Append(toolResults, m) /\ pc' = AfterOutcome
          /\ pc = "result_end"
          /\ UNCHANGED <<toolCalls, prepared, runnableCalls, turn>>
      BY Zenon, <1>9, <2>2 DEF EmitResultEnd, Emit, loopVars
    <3>2. m \in Messages /\ toolResults \in Seq(Messages)
      BY ToolResultType DEF TypeOK, LoopTypeOK, ToolTypeOK
    <3>3. /\ Len(toolResults') = Len(toolResults) + 1
          /\ Len(toolResults) \in Nat /\ Len(runnableCalls) \in Nat
          /\ DOMAIN toolResults = 1..Len(toolResults)
          /\ DOMAIN toolResults' = DOMAIN toolResults \cup {Len(toolResults) + 1}
          /\ \A k \in DOMAIN toolResults : toolResults'[k] = toolResults[k]
          /\ toolResults'[Len(toolResults) + 1] = m
      BY <3>1, <3>2, AppendProperties, LenProperties DEF TypeOK, ToolTypeOK
    <3>4. m.call = current /\ m = ToolResult(turn, m.call)
      BY DEF ToolResult
    <3>5. Answered' = Answered \cup {current}
      BY <3>3, <3>4 DEF Answered
    <3>6. \A k \in DOMAIN toolResults' :
            toolResults'[k] = ToolResult(turn, toolResults'[k].call)
      BY <3>1, <3>3, <3>4 DEF Tooling
    <3>7. /\ pc' \in {"tool_start", "turn_end", "tool_execute", "tool_await"}
          /\ pc' = "tool_start" => prepared < toolCalls
          /\ pc' = "turn_end" => ~(prepared < toolCalls) /\ runnableCalls = <<>>
      BY Zenon, <3>1 DEF AfterOutcome
    <3>8. prepared \in Nat /\ toolCalls \in Nat
      BY DEF TypeOK, ToolTypeOK
    <3> QED
      BY <3>1, <3>3, <3>5, <3>6, <3>7, <3>8 DEF Tooling
  <2> QED
    BY <2>1, <2>2
<1> QED
  BY <1>1, <1>2, <1>3, <1>4, <1>5, <1>6, <1>7, <1>8, <1>9, StepCases DEF Work

-----------------------------------------------------------------------------
(* Calls and their results *)

(* A response with calls and nothing but results after it: either the tools *)
(* are at work on it, and the results so far are those of the turn, or it   *)
(* is answered, or the run has failed.                                      *)
Open(i) ==
  /\ messages[i].role = "assistant" /\ ~Failed(messages[i])
  /\ messages[i].calls > 0
  /\ \A k \in i+1 .. Len(messages) : messages[k].role = "toolResult"
Unanswered ==
  \A i \in DOMAIN messages : Open(i) =>
    /\ InTools => /\ messages[i].turn = turn /\ messages[i].calls = toolCalls
                  /\ Len(messages) = i + Len(toolResults)
                  /\ \A k \in DOMAIN toolResults : messages[i + k] = toolResults[k]
    /\ ~InTools => pc = "run_failure" \/ Answers(messages[i], i + 1, Len(messages))

LEMMA AssistantFields ==
  \A t, stop, n : /\ Assistant(t, stop, n).role = "assistant"
                  /\ Assistant(t, stop, n).turn = t
                  /\ Assistant(t, stop, n).calls = n
                  /\ Failed(Assistant(t, stop, n)) <=> stop \in {"error", "aborted"}
BY DEF Assistant, Failed

LEMMA ResultFields ==
  \A t, c : /\ ToolResult(t, c).role = "toolResult"
            /\ ToolResult(t, c).turn = t /\ ToolResult(t, c).call = c
BY DEF ToolResult

LEMMA UserFields == \A id : User(id).role = "user" /\ User(id).id = id
BY DEF User

LEMMA EmptyRange == Range(<<>>) = {} /\ Len(<<>>) = 0
BY DEF Range

LEMMA Appended ==
  ASSUME TypeOK, NEW m \in Messages, messages' = Append(messages, m)
  PROVE  /\ Len(messages) \in Nat /\ DOMAIN messages = 1..Len(messages)
         /\ Len(messages') = Len(messages) + 1
         /\ DOMAIN messages' = 1..Len(messages')
         /\ \A i \in 1..Len(messages) : messages'[i] = messages[i]
         /\ messages'[Len(messages) + 1] = m
BY AppendProperties, LenProperties DEF TypeOK, AgentTypeOK

(* A message that is neither a result nor an answer with calls leaves       *)
(* nothing open.                                                            *)
LEMMA ClosedByAppend ==
  ASSUME TypeOK, NEW m \in Messages, messages' = Append(messages, m),
         m.role # "toolResult", Failed(m) \/ m.role = "user" \/ m.calls = 0
  PROVE  Unanswered'
<1> SUFFICES ASSUME NEW i \in DOMAIN messages', Open(i)'
             PROVE  FALSE
  BY DEF Unanswered
<1>1. i \in 1..Len(messages) + 1 /\ Len(messages) \in Nat
      /\ messages'[Len(messages) + 1] = m
  BY Appended
<1>2. i # Len(messages) + 1 => Len(messages) + 1 \in i+1 .. Len(messages')
  BY <1>1, Appended
<1>3. i = Len(messages) + 1
  BY <1>1, <1>2 DEF Open
<1> QED
  BY <1>1, <1>3 DEF Open, Failed

LEMMA OpenAgain ==
  ASSUME TypeOK, NEW m \in Messages, messages' = Append(messages, m),
         m.role = "toolResult", NEW i \in DOMAIN messages', Open(i)'
  PROVE  i \in DOMAIN messages /\ Open(i) /\ messages'[i] = messages[i]
<1>1. i \in 1..Len(messages) /\ messages'[i] = messages[i]
  BY Appended DEF Open
<1>2. \A k \in i+1 .. Len(messages) : k \in i+1 .. Len(messages')
                                      /\ messages'[k] = messages[k]
  BY <1>1, Appended
<1> QED
  BY <1>1, <1>2, Appended DEF Open, Failed

LEMMA SameMessages ==
  ASSUME messages' = messages
  PROVE  /\ \A i : Open(i)' <=> Open(i)
         /\ \A m, lo, hi : Answers(m, lo, hi)' <=> Answers(m, lo, hi)
BY DEF Open, Failed, Answers

LEMMA UnansweredKept ==
  ASSUME Unanswered, messages' = messages,
         \/ InTools /\ InTools' /\ UNCHANGED <<turn, toolCalls, toolResults>>
         \/ ~InTools /\ ~InTools' /\ (pc = "run_failure" => pc' = pc)
         \/ pc' = "run_failure"
  PROVE  Unanswered'
BY Zenon, SameMessages DEF Unanswered, InTools, ToolPCs

LEMMA UnansweredStep ==
  ASSUME TypeOK, Control, Tooling, Unanswered, [Next]_vars
  PROVE  Unanswered'
<1> USE DEF InTools, ToolPCs
<1>1. CASE Bystander
  BY Zenon, <1>1, BystanderKeeps, UnansweredKept
  DEF loopData, toolVars, loopVars
<1>2. CASE March
  BY Zenon, <1>2, MarchKeeps, UnansweredKept
  DEF loopData, toolVars, loopVars, Inject
<1>3. CASE Prompt \/ Continue
  <2>1. messages' = messages /\ pc = "idle" /\ pc' = "agent_start"
    BY Zenon, <1>3 DEF Prompt, Continue, BeginRun, Control, IdleIsClean
  <2> QED
    BY <2>1, UnansweredKept
<1>4. CASE Reset
  BY <1>4 DEF Reset, Unanswered
<1>5. CASE InitialPoll \/ Request \/ PollSteering \/ PollFollowUp \/ FinishRun
  BY Zenon, <1>5, UnansweredKept DEF InitialPoll, Request, PollSteering,
    PollFollowUp, FinishRun, Emit, Inject, agentVars
<1>6. CASE PrepareToolCall \/ AwaitTool
  BY Zenon, <1>6, UnansweredKept DEF PrepareToolCall, AwaitTool, Emit,
    agentVars, loopVars
<1>7. CASE EmitPromptEnd \/ EmitInjectEnd
  <2>1. PICK m \in Messages : messages' = Append(messages, m) /\ m.role = "user"
    <3>2. \A id : User(id).role = "user"
      BY Zenon, UserFields
    <3>3. CASE EmitPromptEnd
      <4>1. Head(prompts) \in Nat
        BY <3>3 DEF EmitPromptEnd, Control, TypeOK, TurnTypeOK
      <4> QED
        BY <3>2, <3>3, <4>1, UserType DEF EmitPromptEnd
    <3>4. CASE EmitInjectEnd
      <4>1. Head(pendingMessages) \in Nat
        BY <3>4 DEF EmitInjectEnd, Control, TypeOK, TurnTypeOK
      <4> QED
        BY <3>2, <3>4, <4>1, UserType DEF EmitInjectEnd
    <3> QED
      BY <1>7, <3>3, <3>4
  <2> QED
    BY <2>1, ClosedByAppend
<1>8. CASE Responds
  <2>1. PICK stop \in {"stop", "error", "aborted"}, n \in 0..MaxCalls :
          StreamEnd(stop, n)
    BY <1>8 DEF Responds
  <2> DEFINE m == Assistant(turn, stop, n)
  <2>2. /\ m \in Messages /\ m.role = "assistant" /\ m.turn = turn
        /\ m.calls = n /\ n \in Nat
    BY AssistantType, AssistantFields DEF TypeOK, LoopTypeOK
  <2>3. /\ messages' = Append(messages, m) /\ turn' = turn
        /\ toolResults' = <<>> /\ toolCalls' = n
        /\ pc' \in {"failed_turn_end", "tool_start", "turn_end", "run_failure"}
        /\ pc' = "failed_turn_end" => Failed(m)
    <3> HIDE DEF m
    <3> QED
      BY Zenon, <2>1 DEF StreamEnd, Emit, m
  <2>4. CASE Failed(m) \/ n = 0
    BY <2>2, <2>3, <2>4, ClosedByAppend
  <2>5. CASE ~Failed(m) /\ n # 0
    <3> HIDE DEF m
    <3>1. ASSUME NEW i \in DOMAIN messages', Open(i)'
          PROVE  i = Len(messages) + 1
      <4>1. i \in 1..Len(messages) + 1 /\ Len(messages) \in Nat
            /\ messages'[Len(messages) + 1] = m
        BY <2>2, <2>3, Appended
      <4>2. i # Len(messages) + 1 => Len(messages) + 1 \in i+1 .. Len(messages')
        BY <2>2, <2>3, <4>1, Appended
      <4> QED
        BY <2>2, <3>1, <4>1, <4>2 DEF Open
    <3>2. messages'[Len(messages) + 1] = m /\ Len(messages) \in Nat
          /\ Len(messages') = Len(messages) + 1
      BY <2>2, <2>3, Appended
    <3> QED
      BY <2>2, <2>3, <2>5, <3>1, <3>2 DEF Unanswered
  <2> QED
    BY <2>2, <2>4, <2>5
<1>9. CASE EmitResultEnd
  <2> DEFINE m == ToolResult(turn, current)
  <2>1. m \in Messages /\ m.role = "toolResult"
    BY ToolResultType DEF ToolResult, TypeOK, LoopTypeOK, ToolTypeOK
  <2>2. /\ messages' = Append(messages, m) /\ toolResults' = Append(toolResults, m)
        /\ UNCHANGED <<turn, toolCalls>> /\ pc = "result_end"
        /\ pc' \in {"tool_start", "turn_end", "tool_execute", "tool_await",
                    "run_failure"}
    BY Zenon, <1>9 DEF EmitResultEnd, Emit, AfterOutcome, loopVars
  <2> HIDE DEF m
  <2>3. toolResults \in Seq(Messages)
    BY DEF TypeOK, ToolTypeOK
  <2>4. /\ Len(toolResults') = Len(toolResults) + 1 /\ Len(toolResults) \in Nat
        /\ DOMAIN toolResults = 1..Len(toolResults)
        /\ DOMAIN toolResults' = 1..Len(toolResults) + 1
        /\ \A k \in 1..Len(toolResults) : toolResults'[k] = toolResults[k]
        /\ toolResults'[Len(toolResults) + 1] = m
    BY <2>1, <2>2, <2>3, AppendProperties, LenProperties
  <2>5. ASSUME NEW i \in DOMAIN messages', Open(i)'
        PROVE  /\ messages'[i].turn = turn' /\ messages'[i].calls = toolCalls'
               /\ Len(messages') = i + Len(toolResults')
               /\ \A k \in DOMAIN toolResults' :
                    messages'[i + k] = toolResults'[k]
    <3>1. i \in DOMAIN messages /\ Open(i) /\ messages'[i] = messages[i]
      BY <2>1, <2>2, <2>5, OpenAgain
    <3>2. /\ messages[i].turn = turn /\ messages[i].calls = toolCalls
          /\ Len(messages) = i + Len(toolResults)
          /\ \A k \in DOMAIN toolResults : messages[i + k] = toolResults[k]
      BY <2>2, <3>1 DEF Unanswered
    <3>3. /\ Len(messages') = Len(messages) + 1 /\ i \in Nat \ {0}
          /\ \A k \in 1..Len(messages) : messages'[k] = messages[k]
          /\ messages'[Len(messages) + 1] = m
      BY <2>1, <2>2, <3>1, Appended
    <3>4. \A k \in 1..Len(toolResults) : i + k \in 1..Len(messages)
      BY <2>4, <3>2, <3>3
    <3>5. \A k \in 1..Len(toolResults) : messages'[i + k] = toolResults'[k]
      BY <2>4, <3>2, <3>3, <3>4
    <3>6. messages'[i + (Len(toolResults) + 1)] = toolResults'[Len(toolResults) + 1]
      BY <2>4, <3>2, <3>3
    <3>7. ASSUME NEW k \in DOMAIN toolResults'
          PROVE  k \in 1..Len(toolResults) \/ k = Len(toolResults) + 1
      BY <2>4
    <3> QED
      BY <2>2, <2>4, <3>1, <3>2, <3>3, <3>5, <3>6, <3>7
  <2> QED
    BY <2>2, <2>5 DEF Unanswered
<1>10. CASE EmitTurnEnd
  <2>1. /\ messages' = messages /\ turn' = turn /\ pc = "turn_end"
        /\ pc' \in {"poll_steering", "run_failure"}
    BY Zenon, <1>10 DEF EmitTurnEnd, Emit, agentVars
  <2>2. ASSUME NEW i \in DOMAIN messages, Open(i)
        PROVE  Answers(messages[i], i + 1, Len(messages))
    <3>1. /\ messages[i].turn = turn /\ messages[i].calls = toolCalls
          /\ Len(messages) = i + Len(toolResults)
          /\ \A k \in DOMAIN toolResults : messages[i + k] = toolResults[k]
      BY <2>1, <2>2 DEF Unanswered
    <3>2. /\ prepared = toolCalls /\ prepared = Len(toolResults) + Len(runnableCalls)
          /\ runnableCalls = <<>>
          /\ 1..prepared = Answered \cup Range(runnableCalls)
          /\ \A k \in DOMAIN toolResults :
               toolResults[k] = ToolResult(turn, toolResults[k].call)
      BY <2>1 DEF Tooling, Emitting
    <3>3. Len(toolResults) \in Nat /\ DOMAIN toolResults = 1..Len(toolResults)
          /\ i \in Nat \ {0}
      BY LenProperties DEF TypeOK, ToolTypeOK, AgentTypeOK
    <3>4. toolCalls = Len(toolResults) /\ 1..toolCalls = Answered
      <4>1. Len(runnableCalls) = 0 /\ Range(runnableCalls) = {}
        BY Zenon, <3>2, EmptyRange
      <4>2. 1..prepared = Answered
        BY Zenon, <3>2, <4>1
      <4>3. prepared = Len(toolResults) /\ toolCalls = prepared
        BY <3>2, <3>3, <4>1
      <4> QED
        BY Zenon, <4>2, <4>3
    <3>5. {<<messages[k].turn, messages[k].call>> : k \in i+1 .. Len(messages)}
            = {turn} \X Answered
      <4>1. \A k \in DOMAIN toolResults :
              messages[i + k] = ToolResult(turn, toolResults[k].call)
        BY <3>1, <3>2
      <4>2. ASSUME NEW k \in DOMAIN toolResults
            PROVE  /\ messages[i + k].turn = turn
                   /\ messages[i + k].call = toolResults[k].call
        <5> DEFINE c == toolResults[k].call
                   m == messages[i + k]
        <5>1. m = ToolResult(turn, c)
          BY <4>1
        <5> HIDE DEF m, c
        <5>2. m.turn = turn /\ m.call = c
          BY <5>1 DEF ToolResult
        <5> QED
          BY <5>2 DEF m, c
      <4>3. ASSUME NEW k \in i+1 .. Len(messages)
            PROVE  k - i \in DOMAIN toolResults /\ i + (k - i) = k
        BY <3>1, <3>3
      <4>4. ASSUME NEW k \in DOMAIN toolResults
            PROVE  i + k \in i+1 .. Len(messages)
        BY <3>1, <3>3
      <4>5. ASSUME NEW k \in i+1 .. Len(messages)
            PROVE  <<messages[k].turn, messages[k].call>> \in {turn} \X Answered
        BY <4>2, <4>3 DEF Answered
      <4>6. ASSUME NEW c \in Answered
            PROVE  \E k \in i+1 .. Len(messages) :
                     <<messages[k].turn, messages[k].call>> = <<turn, c>>
        <5>1. PICK k \in DOMAIN toolResults : c = toolResults[k].call
          BY DEF Answered
        <5> QED
          BY <4>2, <4>4, <5>1
      <4> QED
        BY <4>5, <4>6
    <3> QED
      BY <3>1, <3>3, <3>4, <3>5 DEF Answers
  <2> QED
    BY Zenon, <2>1, <2>2, SameMessages DEF Unanswered
<1>11. CASE HandleRunFailure
  <2>1. PICK m \in Messages : messages' = Append(messages, m)
                                /\ m.role = "assistant" /\ Failed(m)
    <3> DEFINE stop == IF activeRun = "aborted" THEN "aborted" ELSE "error"
               m == Assistant(0, stop, 0)
    <3>1. stop \in {"error", "aborted"}
      OBVIOUS
    <3>2. m \in Messages
      BY <3>1, AssistantType
    <3>3. messages' = Append(messages, m)
      BY <1>11 DEF HandleRunFailure, FailRun
    <3>4. m.role = "assistant" /\ Failed(m)
      BY <3>1, AssistantFields
    <3> HIDE DEF m
    <3> QED
      BY <3>2, <3>3, <3>4
  <2> QED
    BY <2>1, ClosedByAppend
<1> QED
  BY <1>1, <1>2, <1>3, <1>4, <1>5, <1>6, <1>7, <1>8, <1>9, <1>10, <1>11,
    StepCases DEF Work

-----------------------------------------------------------------------------
(* Every call is answered *)

(* A message may follow an open response only if it is one of its results,  *)
(* the results are complete or the message is a failure.                    *)
LEMMA AnsweredByAppend ==
  ASSUME TypeOK, CallsAnswered, NEW m \in Messages,
         messages' = Append(messages, m),
         \/ m.role = "toolResult" \/ Failed(m)
         \/ \A i \in DOMAIN messages : Open(i) =>
              Answers(messages[i], i + 1, Len(messages))
  PROVE  CallsAnswered'
<1>1. /\ Len(messages) \in Nat /\ DOMAIN messages = 1..Len(messages)
      /\ DOMAIN messages' = 1..Len(messages) + 1
      /\ \A i \in 1..Len(messages) : messages'[i] = messages[i]
      /\ messages'[Len(messages) + 1] = m
  BY Appended
<1>2. ASSUME NEW e, NEW lo \in 1..Len(messages) + 1, NEW hi \in 0..Len(messages)
      PROVE  Answers(e, lo, hi)' <=> Answers(e, lo, hi)
  <2>1. ASSUME NEW k \in lo..hi
        PROVE  messages'[k] = messages[k]
    BY <1>1
  <2> QED
    BY <2>1 DEF Answers
<1> SUFFICES ASSUME NEW i \in DOMAIN messages', NEW j \in DOMAIN messages',
                    i < j, messages'[i].role = "assistant", ~Failed(messages'[i]),
                    messages'[i].calls > 0, messages'[j].role # "toolResult",
                    \A k \in i+1 .. j-1 : messages'[k].role = "toolResult",
                    ~Failed(messages'[j])
             PROVE  Answers(messages[i], i + 1, j - 1)'
  BY Zenon DEF CallsAnswered, Failed
<1>3. /\ i \in 1..Len(messages) /\ messages'[i] = messages[i]
      /\ \A k \in i+1 .. j-1 : messages'[k] = messages[k]
      /\ i + 1 \in 1..Len(messages) + 1 /\ j - 1 \in 0..Len(messages)
  BY <1>1
<1>4. Answers(messages[i], i + 1, j - 1)
  <2>1. CASE j = Len(messages) + 1
    <3>1. j - 1 = Len(messages) /\ messages'[j] = m
      BY <1>1, <2>1
    <3>2. Open(i)
      BY <1>3, <3>1 DEF Open
    <3> QED
      BY <1>1, <1>3, <3>1, <3>2
  <2>2. CASE j # Len(messages) + 1
    <3>1. j \in 1..Len(messages) /\ messages'[j] = messages[j]
      BY <1>1, <2>2
    <3> QED
      BY <1>1, <1>3, <3>1 DEF CallsAnswered
  <2> QED
    BY <2>1, <2>2
<1> QED
  BY Zenon, <1>2, <1>3, <1>4

LEMMA CallsAnsweredStep ==
  ASSUME TypeOK, Control, Unanswered, CallsAnswered, [Next]_vars
  PROVE  CallsAnswered'
<1> USE DEF InTools, ToolPCs
<1>1. ASSUME messages' = messages
      PROVE  CallsAnswered'
  BY <1>1, SameMessages DEF CallsAnswered, Failed
<1>2. CASE Bystander \/ March
  BY Zenon, <1>1, <1>2, BystanderKeeps, MarchKeeps DEF loopData
<1>3. CASE Prompt \/ Continue
  BY Zenon, <1>1, <1>3 DEF Prompt, Continue, BeginRun
<1>4. CASE Reset
  BY <1>4 DEF Reset, CallsAnswered
<1>5. CASE InitialPoll \/ Request \/ PollSteering \/ PollFollowUp \/ FinishRun
        \/ PrepareToolCall \/ AwaitTool \/ EmitTurnEnd
  BY Zenon, <1>1, <1>5 DEF InitialPoll, Request, PollSteering, PollFollowUp,
    FinishRun, PrepareToolCall, AwaitTool, EmitTurnEnd, agentVars
<1>6. CASE EmitPromptEnd
  <2>1. /\ pc = "prompt_end" /\ User(Head(prompts)) \in Messages
        /\ messages' = Append(messages, User(Head(prompts)))
    BY <1>6, UserType DEF EmitPromptEnd, Control, TypeOK, TurnTypeOK
  <2> QED
    BY <2>1, AnsweredByAppend DEF Unanswered
<1>7. CASE EmitInjectEnd
  <2>1. /\ pc = "inject_end" /\ User(Head(pendingMessages)) \in Messages
        /\ messages' = Append(messages, User(Head(pendingMessages)))
    BY <1>7, UserType DEF EmitInjectEnd, Control, TypeOK, TurnTypeOK
  <2> QED
    BY <2>1, AnsweredByAppend DEF Unanswered
<1>8. CASE Responds
  <2>1. PICK stop \in {"stop", "error", "aborted"}, n \in 0..MaxCalls :
          StreamEnd(stop, n)
    BY <1>8 DEF Responds
  <2>2. /\ pc = "streaming" /\ Assistant(turn, stop, n) \in Messages
        /\ messages' = Append(messages, Assistant(turn, stop, n))
    BY <2>1, AssistantType DEF StreamEnd, TypeOK, LoopTypeOK
  <2> QED
    BY <2>2, AnsweredByAppend DEF Unanswered
<1>9. CASE EmitResultEnd
  <2>1. /\ ToolResult(turn, current) \in Messages
        /\ messages' = Append(messages, ToolResult(turn, current))
    BY <1>9, ToolResultType DEF EmitResultEnd, TypeOK, LoopTypeOK, ToolTypeOK
  <2> QED
    BY <2>1, ResultFields, AnsweredByAppend
<1>10. CASE HandleRunFailure
  <2>1. PICK stop \in {"error", "aborted"} :
          messages' = Append(messages, Assistant(0, stop, 0))
    BY <1>10 DEF HandleRunFailure, FailRun
  <2>2. Assistant(0, stop, 0) \in Messages /\ Failed(Assistant(0, stop, 0))
    BY AssistantType, AssistantFields
  <2> QED
    BY <2>1, <2>2, AnsweredByAppend
<1> QED
  BY <1>2, <1>3, <1>4, <1>5, <1>6, <1>7, <1>8, <1>9, <1>10, StepCases DEF Work

-----------------------------------------------------------------------------
(* While nothing has thrown, the tools that run are calls of the current    *)
(* message that the loop still waits for.                                   *)
Quiet ==
  throws = 0 =>
    /\ late = {} /\ tainted = {} /\ pc # "run_failure"
    /\ pc \in ToolPCs => running \subseteq {turn} \X Range(runnableCalls)
    /\ pc \notin ToolPCs => running = {}

LEMMA EmitThrows ==
  ASSUME TypeOK, NEW next, Emit(next), throws' = 0
  PROVE  throws = 0 /\ pc' = next
BY DEF Emit, TypeOK, StepTypeOK

LEMMA QuietStep ==
  ASSUME TypeOK, Control, Tooling, Quiet, [Next]_vars
  PROVE  Quiet'
<1> USE DEF ToolPCs
<1>0. throws \in Nat
  BY DEF TypeOK, StepTypeOK
<1>1. CASE Steer \/ FollowUp \/ Abort \/ ClearAllQueues \/ UNCHANGED vars
  BY Zenon, <1>1 DEF Steer, FollowUp, Abort, ClearAllQueues, vars, Quiet,
    toolVars, loopVars, execVars
<1>2. CASE Tools
  <2>1. PICK c \in running : ToolUpdate(c) \/ ToolSettles(c)
    BY Zenon, <1>2 DEF Tools
  <2>2. CASE ToolUpdate(c)
    <3> SUFFICES ASSUME throws' = 0 PROVE Quiet'
      BY DEF Quiet
    <3>1. throws = 0 /\ throws' = throws
      BY <1>0, <2>2 DEF ToolUpdate
    <3>2. pc \in ToolPCs /\ c[1] = turn
      BY <2>1, <3>1 DEF Quiet
    <3>3. activeRun # "none" /\ OfActiveRun(c)
      BY <3>2 DEF Control, IdleIsClean, OfActiveRun
    <3>4. late' = late /\ tainted' = tainted
      <4>1. ~(throws < MaxThrows /\ throws' = throws + 1)
        BY <1>0, <3>1
      <4> QED
        BY Zenon, <2>2, <3>3, <4>1 DEF ToolUpdate
    <3> QED
      BY Zenon, <2>2, <3>1, <3>4 DEF ToolUpdate, Quiet, toolVars, loopVars
  <2>3. CASE ToolSettles(c)
    BY Zenon, <2>3 DEF ToolSettles, Quiet, toolVars, loopVars
  <2> QED
    BY <2>1, <2>2, <2>3
<1>3. CASE ExecuteTools
  <2>1. running' \subseteq running \cup ({turn} \X Range(runnableCalls))
    BY <1>3 DEF ExecuteTools, Range
  <2> QED
    BY Zenon, <1>3, <2>1 DEF ExecuteTools, Quiet, toolVars, loopVars
<1>4. CASE March /\ ~ExecuteTools
  <2>1. UNCHANGED execVars
    BY Zenon, <1>4 DEF March, EmitAgentStart, EmitRunTurnStart, EmitPromptStart,
      EmitTurnStart, EmitInjectStart, StreamUpdate, EmitFailedTurnEnd,
      EmitToolStart, EmitToolEnd, EmitResultStart, EmitAgentEnd
  <2>2. throws + 1 # 0
    BY <1>0
  <2> QED
    BY Zenon, <1>4, <2>1, <2>2, MarchKeeps
    DEF Quiet, loopData, toolVars, loopVars, execVars, Inject
<1>5. CASE Prompt \/ Continue
  <2>1. PICK ids, skip : BeginRun(ids, skip)
    BY Zenon, <1>5 DEF Prompt, Continue
  <2>2. pc = "idle"
    BY Zenon, <1>5 DEF Prompt, Continue, Control, IdleIsClean
  <2> QED
    BY Zenon, <2>1, <2>2 DEF BeginRun, Quiet, execVars
<1>6. CASE Reset
  BY Zenon, <1>6 DEF Reset, Quiet, toolVars, loopVars, execVars
<1>7. CASE InitialPoll \/ PollSteering \/ PollFollowUp \/ HandleRunFailure
        \/ FinishRun
  BY Zenon, <1>7 DEF InitialPoll, PollSteering, PollFollowUp, HandleRunFailure,
    FailRun, FinishRun, Inject, Quiet, execVars
<1>13. CASE EmitPromptEnd \/ EmitInjectEnd \/ EmitTurnEnd
  <2>1. throws + 1 # 0
    BY <1>0
  <2> QED
    BY Zenon, <1>13, <2>1 DEF EmitPromptEnd, EmitInjectEnd, EmitTurnEnd, Emit,
      Quiet, execVars
<1>8. CASE Request
  <2> SUFFICES ASSUME throws' = 0 PROVE Quiet'
    BY DEF Quiet
  <2>1. throws = 0 /\ pc' = "streaming"
    BY <1>0, <1>8, EmitThrows DEF Request
  <2> QED
    BY Zenon, <1>8, <2>1 DEF Request, Quiet, execVars
<1>9. CASE Responds
  <2> SUFFICES ASSUME throws' = 0 PROVE Quiet'
    BY DEF Quiet
  <2>1. PICK stop, n : StreamEnd(stop, n)
    BY Zenon, <1>9 DEF Responds
  <2>2. /\ throws = 0 /\ pc = "streaming" /\ UNCHANGED execVars
        /\ pc' \in {"failed_turn_end", "tool_start", "turn_end"}
    <3>1. throws' # throws + 1
      BY <1>0
    <3> QED
      BY Zenon, <2>1, <3>1 DEF StreamEnd, Emit
  <2> QED
    BY Zenon, <2>2 DEF Quiet, execVars
<1>10. CASE PrepareToolCall
  <2>1. Range(runnableCalls) \subseteq Range(runnableCalls')
    <3>1. prepared + 1 \in Nat \ {0} /\ runnableCalls \in Seq(Nat \ {0})
      BY DEF TypeOK, ToolTypeOK
    <3>2. Range(Append(runnableCalls, prepared + 1))
            = Range(runnableCalls) \cup {prepared + 1}
      BY <3>1, RangeOfAppend
    <3> QED
      BY Zenon, <1>10, <3>2 DEF PrepareToolCall
  <2> QED
    BY Zenon, <1>10, <2>1 DEF PrepareToolCall, Quiet, loopVars, execVars
<1>11. CASE AwaitTool
  <2> SUFFICES ASSUME throws' = 0 PROVE Quiet'
    BY DEF Quiet
  <2>1. throws = 0
    BY Zenon, <1>11, EmitThrows DEF AwaitTool
  <2>2. /\ pc = "tool_await" /\ pc' = "tool_end" /\ UNCHANGED <<execVars, turn>>
        /\ <<turn, Head(runnableCalls)>> \notin running
        /\ runnableCalls' = Tail(runnableCalls)
    BY Zenon, <1>11, <2>1, EmitThrows
    DEF AwaitTool, Settled, Quiet, loopVars
  <2>3. Range(runnableCalls) = {Head(runnableCalls)} \cup Range(runnableCalls')
    BY <2>2, RangeOfHeadTail DEF TypeOK, ToolTypeOK, Control
  <2>4. running \subseteq {turn} \X Range(runnableCalls)
    BY Zenon, <2>1, <2>2 DEF Quiet
  <2>5. running' \subseteq {turn'} \X Range(runnableCalls')
    BY <2>2, <2>3, <2>4 DEF execVars
  <2> QED
    BY Zenon, <2>1, <2>2, <2>5 DEF Quiet, execVars
<1>12. CASE EmitResultEnd
  <2> SUFFICES ASSUME throws' = 0 PROVE Quiet'
    BY DEF Quiet
  <2>1. /\ throws = 0 /\ pc = "result_end" /\ pc' = AfterOutcome
        /\ UNCHANGED <<execVars, turn, runnableCalls>>
    BY Zenon, <1>12, EmitThrows DEF EmitResultEnd, loopVars
  <2>2. running \subseteq {turn} \X Range(runnableCalls)
    BY Zenon, <2>1 DEF Quiet
  <2>3. /\ pc' \in {"tool_start", "turn_end", "tool_execute", "tool_await"}
        /\ pc' = "turn_end" => runnableCalls = <<>>
    BY Zenon, <2>1 DEF AfterOutcome
  <2>4. runnableCalls = <<>> => running = {}
    BY <2>2, EmptyRange
  <2> QED
    BY Zenon, <2>1, <2>2, <2>3, <2>4 DEF Quiet, execVars
<1> QED
  BY <1>1, <1>2, <1>3, <1>4, <1>5, <1>6, <1>7, <1>8, <1>9, <1>10, <1>11,
    <1>12, <1>13, StepCases DEF Work, Bystander, March

LEMMA QuietWhenIdle == Control /\ Quiet => IdleIsQuiet
BY DEF Control, Quiet, IdleIsQuiet, IdleIsClean, ToolPCs

-----------------------------------------------------------------------------
(* What the loop has in its hands *)

(* Where the loop holds messages in its hands: prompts while a run starts,  *)
(* pending messages while a turn does, and only an exception leaves any.    *)
Hands ==
  /\ prompts # <<>> => pc \in StartPCs \cup {"run_failure", "finish"}
  /\ pendingMessages # <<>> =>
       pc \in {"turn_start", "inject_start", "inject_end", "run_failure", "finish"}
  /\ throws = 0 /\ pc = "finish" => prompts = <<>> /\ pendingMessages = <<>>
  /\ prompts = <<>> \/ pendingMessages = <<>>

LEMMA HandsStep ==
  ASSUME TypeOK, Control, Quiet, Hands, [Next]_vars
  PROVE  Hands'
<1> USE DEF StartPCs, Hands
<1>0. throws \in Nat /\ throws + 1 # 0
  BY DEF TypeOK, StepTypeOK
<1>1. CASE Bystander
  <2>1. throws' = 0 => throws = 0
    BY <1>0, <1>1 DEF Bystander, Steer, FollowUp, Abort, ClearAllQueues, Tools,
      ToolUpdate, ToolSettles, vars
  <2> QED
    BY Zenon, <1>1, <2>1, BystanderKeeps DEF loopData, turnVars
<1>2. CASE March
  BY Zenon, <1>0, <1>2, MarchKeeps DEF loopData, turnVars, Inject
<1>3. CASE Prompt \/ Continue
  <2>1. PICK ids, skip : BeginRun(ids, skip)
    BY Zenon, <1>3 DEF Prompt, Continue
  <2> QED
    BY Zenon, <2>1 DEF BeginRun
<1>4. CASE Reset
  BY Zenon, <1>4 DEF Reset, turnVars
<1>5. CASE EmitPromptEnd
  <2>1. Len(prompts) = 1 => Tail(prompts) = <<>>
    BY TailOfOne DEF TypeOK, TurnTypeOK
  <2>2. prompts # <<>>
    BY <1>5 DEF EmitPromptEnd, Control
  <2> QED
    BY Zenon, <1>0, <1>5, <2>1, <2>2 DEF EmitPromptEnd, Emit
<1>6. CASE EmitInjectEnd
  <2>1. Len(pendingMessages) = 1 => Tail(pendingMessages) = <<>>
    BY TailOfOne DEF TypeOK, TurnTypeOK
  <2>2. pendingMessages # <<>>
    BY <1>6 DEF EmitInjectEnd, Control
  <2> QED
    BY Zenon, <1>0, <1>6, <2>1, <2>2 DEF EmitInjectEnd, Emit
<1>7. CASE InitialPoll \/ PollSteering \/ PollFollowUp
  BY Zenon, <1>7 DEF InitialPoll, PollSteering, PollFollowUp, Inject, GoesOn
<1>8. CASE Request \/ PrepareToolCall \/ AwaitTool \/ EmitResultEnd
        \/ EmitTurnEnd
  BY Zenon, <1>8 DEF Request, PrepareToolCall, AwaitTool, EmitResultEnd,
    EmitTurnEnd, Emit, AfterOutcome, turnVars
<1>9. CASE Responds
  BY Zenon, <1>9 DEF Responds, StreamEnd, Emit, turnVars
<1>10. CASE HandleRunFailure \/ FinishRun
  BY Zenon, <1>10 DEF HandleRunFailure, FailRun, FinishRun, Quiet, turnVars
<1> QED
  BY <1>1, <1>2, <1>3, <1>4, <1>5, <1>6, <1>7, <1>8, <1>9, <1>10,
    StepCases DEF Work

-----------------------------------------------------------------------------
(* The order of messages *)

Ascending(s) == \A i, j \in DOMAIN s : i < j => s[i] < s[j]

LEMMA AscendingAppend ==
  ASSUME NEW s \in Seq(Nat), NEW m \in Nat, Ascending(s),
         \A x \in Range(s) : x < m
  PROVE  Ascending(Append(s, m))
<1>1. /\ DOMAIN s = 1..Len(s) /\ Len(s) \in Nat
      /\ \A i \in 1..Len(s) : Append(s, m)[i] = s[i]
      /\ Append(s, m)[Len(s) + 1] = m
      /\ DOMAIN Append(s, m) = 1..Len(s) + 1
  BY AppendProperties, LenProperties
<1> SUFFICES ASSUME NEW i \in 1..Len(s) + 1, NEW j \in 1..Len(s) + 1, i < j
             PROVE  Append(s, m)[i] < Append(s, m)[j]
  BY <1>1 DEF Ascending
<1>2. i \in 1..Len(s) /\ s[i] \in Range(s)
  BY <1>1 DEF Range
<1>3. CASE j = Len(s) + 1
  BY <1>1, <1>2, <1>3
<1>4. CASE j # Len(s) + 1
  BY <1>1, <1>2, <1>4 DEF Ascending
<1> QED
  BY <1>3, <1>4

LEMMA AscendingTail ==
  ASSUME NEW s \in Seq(Nat), s # <<>>, Ascending(s)
  PROVE  /\ Ascending(Tail(s))
         /\ \A x \in Range(Tail(s)) : Head(s) < x
<1> DEFINE t == Tail(s)
<1>1. /\ t \in Seq(Nat) /\ Len(t) = Len(s) - 1 /\ Len(s) \in Nat \ {0}
      /\ \A i \in 1..Len(t) : t[i] = s[i + 1]
      /\ DOMAIN s = 1..Len(s) /\ DOMAIN t = 1..Len(t) /\ Head(s) = s[1]
  BY HeadTailProperties, LenProperties, EmptySeq
<1> HIDE DEF t
<1>2. \A i \in 1..Len(t) : i + 1 \in 1..Len(s) /\ 1 \in 1..Len(s) /\ 1 < i + 1
  BY <1>1
<1>3. \A i, j \in 1..Len(t) : i < j => i + 1 < j + 1
  BY <1>1
<1>4. Ascending(t)
  BY <1>1, <1>2, <1>3 DEF Ascending
<1>5. \A i \in 1..Len(t) : s[1] < t[i]
  BY <1>1, <1>2 DEF Ascending
<1> QED
  BY <1>1, <1>4, <1>5 DEF Range, t

(* A drain takes a prefix of the queue.                                     *)
LEMMA DrainSplits ==
  ASSUME NEW q \in Seq(Nat), NEW mode, Ascending(q)
  PROVE  /\ Drained(q, mode) \in Seq(Nat) /\ Kept(q, mode) \in Seq(Nat)
         /\ Ascending(Drained(q, mode)) /\ Ascending(Kept(q, mode))
         /\ Range(q) = Range(Drained(q, mode)) \cup Range(Kept(q, mode))
         /\ \A a \in Range(Drained(q, mode)), b \in Range(Kept(q, mode)) : a < b
<1>0. Range(<<>>) = {} /\ Ascending(<<>>) /\ <<>> \in Seq(Nat)
  BY EmptyRange DEF Ascending
<1>1. CASE mode = "all" \/ q = <<>>
  <2>1. Drained(q, mode) = q /\ Kept(q, mode) = <<>>
    BY <1>1 DEF Drained, Kept
  <2> QED
    BY <1>0, <2>1
<1>2. CASE ~(mode = "all" \/ q = <<>>)
  <2>1. Drained(q, mode) = <<Head(q)>> /\ Kept(q, mode) = Tail(q)
    BY <1>2 DEF Drained, Kept
  <2>2. /\ Range(q) = {Head(q)} \cup Range(Tail(q))
        /\ Head(q) \in Nat /\ Tail(q) \in Seq(Nat)
    BY <1>2, RangeOfHeadTail
  <2>3. /\ Ascending(Tail(q)) /\ \A x \in Range(Tail(q)) : Head(q) < x
    BY <1>2, AscendingTail
  <2>4. Range(<<Head(q)>>) = {Head(q)} /\ Ascending(<<Head(q)>>)
        /\ <<Head(q)>> \in Seq(Nat)
    BY <2>2 DEF Range, Ascending
  <2> QED
    BY <2>1, <2>2, <2>3, <2>4
<1> QED
  BY <1>1, <1>2

LEMMA DeliveredByAppend ==
  ASSUME TypeOK, NEW m \in Messages, messages' = Append(messages, m)
  PROVE  Delivered' = IF m.role = "user" THEN Delivered \cup {m.id} ELSE Delivered
<1>1. /\ Len(messages) \in Nat /\ DOMAIN messages = 1..Len(messages)
      /\ DOMAIN messages' = 1..Len(messages) + 1
      /\ \A i \in 1..Len(messages) : messages'[i] = messages[i]
      /\ messages'[Len(messages) + 1] = m
  BY Appended
<1>2. \A d : d \in Delivered' <=>
        \E k \in 1..Len(messages) + 1 : messages'[k].role = "user" /\ d = messages'[k].id
  BY <1>1 DEF Delivered
<1>3. \A d : d \in Delivered <=>
        \E k \in 1..Len(messages) : messages[k].role = "user" /\ d = messages[k].id
  BY <1>1 DEF Delivered
<1>4. \A d : d \in Delivered' <=> d \in Delivered \/ (m.role = "user" /\ d = m.id)
  BY <1>1, <1>2, <1>3
<1> QED
  BY <1>4

(* The last message is in order if it comes after those of its kind.        *)
LEMMA InOrderByAppend ==
  ASSUME TypeOK, DeliveredInOrder, NEW m \in Messages,
         messages' = Append(messages, m), via' = via,
         m.role = "user" => \A d \in Delivered : via[d] = via[m.id] => d < m.id
  PROVE  DeliveredInOrder'
<1>1. /\ Len(messages) \in Nat /\ DOMAIN messages = 1..Len(messages)
      /\ DOMAIN messages' = 1..Len(messages) + 1
      /\ \A i \in 1..Len(messages) : messages'[i] = messages[i]
      /\ messages'[Len(messages) + 1] = m
  BY Appended
<1> SUFFICES ASSUME NEW i \in DOMAIN messages', NEW j \in DOMAIN messages',
                    i < j, messages'[i].role = "user", messages'[j].role = "user",
                    via[messages'[i].id] = via[messages'[j].id]
             PROVE  messages'[i].id < messages'[j].id
  BY DEF DeliveredInOrder
<1>2. i \in DOMAIN messages /\ messages'[i] = messages[i]
      /\ messages[i].id \in Delivered
  BY <1>1 DEF Delivered
<1>3. CASE j = Len(messages) + 1
  BY <1>1, <1>2, <1>3
<1>4. CASE j # Len(messages) + 1
  <2>1. j \in DOMAIN messages /\ messages'[j] = messages[j]
    BY <1>1, <1>4
  <2> QED
    BY <1>2, <2>1 DEF DeliveredInOrder
<1> QED
  BY <1>3, <1>4

-----------------------------------------------------------------------------
(* The order of what is queued, handed on and delivered *)

(* Every accepted message the agent still has comes after those of its kind *)
(* that are further along: delivered, in the loop's hands, queued.          *)
Handed == Range(prompts) \cup Range(pendingMessages)
InOrder(A, B) == \A a \in A, b \in B : via[a] = via[b] => a < b
Alike(s) == \A a, b \in Range(s) : via[a] = via[b]
Known ==
  /\ nextId = Len(via) + 1
  /\ Delivered \cup Handed \cup Queued \subseteq DOMAIN via
Sorted ==
  /\ \A m \in Range(steeringQueue) : via[m] = "steer"
  /\ \A m \in Range(followUpQueue) : via[m] = "followUp"
  /\ Ascending(steeringQueue) /\ Ascending(followUpQueue)
  /\ Ascending(prompts) /\ Ascending(pendingMessages)
  /\ Alike(prompts) /\ Alike(pendingMessages)
Flow ==
  /\ DeliveredInOrder
  /\ InOrder(Delivered, Handed \cup Queued)
  /\ InOrder(Handed, Queued)
Ordered == Known /\ Sorted /\ Flow

Held == Delivered \cup Handed \cup Queued

LEMMA QueuedIs ==
  /\ Queued = Range(steeringQueue) \cup Range(followUpQueue)
  /\ Queued' = Range(steeringQueue') \cup Range(followUpQueue')
BY DEF Queued, Range

LEMMA EmptyIsSorted == Range(<<>>) = {} /\ Ascending(<<>>)
BY DEF Range, Ascending

(* Nothing goes out of order when messages only disappear.                  *)
LEMMA OrderedLess ==
  ASSUME Ordered, via' = via, nextId' = nextId, DeliveredInOrder',
         Delivered' \subseteq Delivered,
         prompts' \in {prompts, <<>>}, pendingMessages' \in {pendingMessages, <<>>},
         steeringQueue' \in {steeringQueue, <<>>},
         followUpQueue' \in {followUpQueue, <<>>}
  PROVE  Ordered'
<1>1. /\ Range(prompts') \subseteq Range(prompts)
      /\ Range(pendingMessages') \subseteq Range(pendingMessages)
      /\ Range(steeringQueue') \subseteq Range(steeringQueue)
      /\ Range(followUpQueue') \subseteq Range(followUpQueue)
  BY EmptyIsSorted
<1>2. /\ Ascending(prompts') /\ Ascending(pendingMessages')
      /\ Ascending(steeringQueue') /\ Ascending(followUpQueue')
  BY EmptyIsSorted DEF Ordered, Sorted
<1>3. Handed' \subseteq Handed /\ Queued' \subseteq Queued
  BY Zenon, <1>1, QueuedIs DEF Handed
<1>4. Known'
  BY Zenon, <1>3 DEF Ordered, Known
<1>5. Sorted'
  BY Zenon, <1>1, <1>2 DEF Ordered, Sorted, Alike
<1>6. Flow'
  BY Zenon, <1>3 DEF Ordered, Flow, InOrder
<1> QED
  BY <1>4, <1>5, <1>6 DEF Ordered

LEMMA SameUsers ==
  ASSUME messages' = messages, via' = via
  PROVE  /\ Delivered' = Delivered
         /\ DeliveredInOrder => DeliveredInOrder'
BY DEF Delivered, DeliveredInOrder

LEMMA OrderedSame ==
  ASSUME Ordered, messages' = messages, UNCHANGED <<via, nextId>>,
         UNCHANGED <<prompts, pendingMessages, queueVars>>
  PROVE  Ordered' /\ Held' = Held
<1>1. Ordered'
  BY Zenon, OrderedLess, SameUsers DEF Ordered, Flow, queueVars
<1>2. Held' = Held
  BY Zenon, SameUsers, QueuedIs DEF Held, Handed, queueVars
<1> QED
  BY <1>1, <1>2

(* Draining a queue takes messages into empty hands.                        *)
LEMMA OrderedDrain ==
  ASSUME TypeOK, Ordered, messages' = messages, UNCHANGED <<via, nextId>>,
         prompts = <<>>, pendingMessages = <<>>,
         NEW mode, NEW out,
         \/ /\ out = Drained(steeringQueue, mode)
            /\ steeringQueue' = Kept(steeringQueue, mode)
            /\ followUpQueue' = followUpQueue
         \/ /\ out = Drained(followUpQueue, mode)
            /\ followUpQueue' = Kept(followUpQueue, mode)
            /\ steeringQueue' = steeringQueue,
         \/ prompts' = out /\ pendingMessages' = <<>>
         \/ pendingMessages' = out /\ prompts' = <<>>
  PROVE  Ordered' /\ Held' = Held
<1>1. /\ steeringQueue \in Seq(Nat) /\ followUpQueue \in Seq(Nat)
      /\ Ascending(steeringQueue) /\ Ascending(followUpQueue)
  BY DEF TypeOK, QueueTypeOK, Ordered, Sorted
<1> DEFINE FromSteering ==
             /\ out = Drained(steeringQueue, mode)
             /\ steeringQueue' = Kept(steeringQueue, mode)
             /\ followUpQueue' = followUpQueue
           FromFollowUp ==
             /\ out = Drained(followUpQueue, mode)
             /\ followUpQueue' = Kept(followUpQueue, mode)
             /\ steeringQueue' = steeringQueue
<1>2. FromSteering =>
        /\ Ascending(out) /\ Ascending(steeringQueue')
        /\ Range(steeringQueue) = Range(out) \cup Range(steeringQueue')
        /\ \A a \in Range(out), b \in Range(steeringQueue') : a < b
  BY <1>1, DrainSplits
<1>3. FromFollowUp =>
        /\ Ascending(out) /\ Ascending(followUpQueue')
        /\ Range(followUpQueue) = Range(out) \cup Range(followUpQueue')
        /\ \A a \in Range(out), b \in Range(followUpQueue') : a < b
  BY <1>1, DrainSplits
<1>4. FromSteering \/ FromFollowUp
  OBVIOUS
<1> HIDE DEF FromSteering, FromFollowUp
<1>10. FromSteering => followUpQueue' = followUpQueue
  BY DEF FromSteering
<1>11. FromFollowUp => steeringQueue' = steeringQueue
  BY DEF FromFollowUp
<1>12. /\ Ascending(out) /\ Ascending(steeringQueue') /\ Ascending(followUpQueue')
       /\ Range(steeringQueue') \subseteq Range(steeringQueue)
       /\ Range(followUpQueue') \subseteq Range(followUpQueue)
       /\ Queued = Range(out) \cup Queued'
  BY <1>1, <1>2, <1>3, <1>4, <1>10, <1>11, QueuedIs
<1>13. Handed' = Range(out) /\ Handed = {}
  BY EmptyIsSorted DEF Handed
<1>5. /\ \A a, b \in Range(out) : via[a] = via[b]
      /\ \A a \in Range(out), b \in Queued' : via[a] = via[b] => a < b
  <2>0. /\ \A m \in Range(steeringQueue) : via[m] = "steer"
        /\ \A m \in Range(followUpQueue) : via[m] = "followUp"
    BY DEF Ordered, Sorted
  <2>1. CASE FromSteering
    BY <1>2, <1>10, <2>0, <2>1, QueuedIs
  <2>2. CASE FromFollowUp
    BY <1>3, <1>11, <2>0, <2>2, QueuedIs
  <2> QED
    BY <1>4, <2>1, <2>2
<1>6. Delivered' = Delivered /\ DeliveredInOrder'
  BY SameUsers DEF Ordered, Flow
<1>7. Known'
  BY <1>12, <1>13, <1>6 DEF Ordered, Known
<1>8. Sorted'
  <2>1. Ascending(prompts') /\ Ascending(pendingMessages')
        /\ Alike(prompts)' /\ Alike(pendingMessages)'
    BY Zenon, <1>12, <1>5, EmptyIsSorted DEF Alike
  <2> QED
    BY Zenon, <1>12, <2>1 DEF Ordered, Sorted
<1>9. Flow'
  BY Zenon, <1>12, <1>13, <1>5, <1>6 DEF Ordered, Flow, InOrder
<1>14. Held' = Held
  BY Zenon, <1>6, <1>12, <1>13 DEF Held
<1> QED
  BY <1>7, <1>8, <1>9, <1>14 DEF Ordered

(* A message goes from the loop's hands to the end of the transcript.       *)
LEMMA OrderedDeliver ==
  ASSUME TypeOK, Ordered, UNCHANGED <<via, nextId, queueVars>>,
         NEW s \in Seq(Nat), s # <<>>, messages' = Append(messages, User(Head(s))),
         \/ /\ s = prompts /\ prompts' = Tail(s)
            /\ pendingMessages = <<>> /\ pendingMessages' = <<>>
         \/ /\ s = pendingMessages /\ pendingMessages' = Tail(s)
            /\ prompts = <<>> /\ prompts' = <<>>
  PROVE  Ordered' /\ Held' = Held
<1> DEFINE m == Head(s)
<1>1. m \in Nat /\ Range(s) = {m} \cup Range(Tail(s)) /\ Tail(s) \in Seq(Nat)
  BY RangeOfHeadTail
<1>2. Handed = Range(s) /\ Handed' = Range(Tail(s)) /\ Queued' = Queued
  BY EmptyIsSorted, QueuedIs DEF Handed, queueVars
<1>3. Ascending(Tail(s)) /\ \A x \in Range(Tail(s)) : m < x
  BY AscendingTail DEF Ordered, Sorted
<1>4. Delivered' = Delivered \cup {m}
  BY <1>1, UserType, UserFields, DeliveredByAppend
<1>5. DeliveredInOrder'
  <2>1. \A d \in Delivered : via[d] = via[m] => d < m
    BY Zenon, <1>1, <1>2 DEF Ordered, Flow, InOrder
  <2> QED
    BY <1>1, <2>1, UserType, UserFields, InOrderByAppend DEF Ordered, Flow
<1> HIDE DEF m
<1>6. Known'
  BY Zenon, <1>1, <1>2, <1>4 DEF Ordered, Known
<1>7. Sorted'
  <2>1. /\ Ascending(prompts') /\ Ascending(pendingMessages')
        /\ Range(prompts') \subseteq Range(prompts)
        /\ Range(pendingMessages') \subseteq Range(pendingMessages)
    BY Zenon, <1>1, <1>3, EmptyIsSorted
  <2> QED
    BY Zenon, <2>1 DEF Ordered, Sorted, Alike, queueVars
<1>8. Flow'
  <2>1. InOrder(Delivered, Handed \cup Queued)'
    BY Zenon, <1>1, <1>2, <1>3, <1>4 DEF Ordered, Flow, InOrder
  <2>2. InOrder(Handed, Queued)'
    BY Zenon, <1>1, <1>2 DEF Ordered, Flow, InOrder
  <2> QED
    BY Zenon, <1>5, <2>1, <2>2 DEF Flow
<1>9. Held' = Held
  BY <1>1, <1>2, <1>4 DEF Held
<1> QED
  BY <1>6, <1>7, <1>8, <1>9 DEF Ordered

(* A new message is later than every other.                                 *)
LEMMA Accepted ==
  ASSUME TypeOK, Known, NEW how \in {"prompt", "steer", "followUp"}, Accept(how)
  PROVE  /\ nextId \in Nat /\ nextId' = Len(via') + 1
         /\ DOMAIN via' = DOMAIN via \cup {nextId}
         /\ \A m \in DOMAIN via : m < nextId /\ via'[m] = via[m]
         /\ via'[nextId] = how
<1>1. /\ via \in Seq({"prompt", "steer", "followUp"}) /\ nextId \in Nat
      /\ nextId = Len(via) + 1
  BY DEF TypeOK, CallerTypeOK, Known
<1>2. via' = Append(via, how) /\ nextId' = nextId + 1
  BY DEF Accept
<1>3. /\ Len(via') = Len(via) + 1 /\ DOMAIN via' = 1..Len(via) + 1
      /\ DOMAIN via = 1..Len(via) /\ Len(via) \in Nat
      /\ \A i \in 1..Len(via) : via'[i] = via[i]
      /\ via'[Len(via) + 1] = how
  BY <1>1, <1>2, AppendProperties, LenProperties
<1> QED
  BY <1>1, <1>2, <1>3

LEMMA AcceptedOrder ==
  ASSUME TypeOK, Ordered, NEW how \in {"prompt", "steer", "followUp"},
         Accept(how), messages' = messages
  PROVE  Delivered' = Delivered /\ DeliveredInOrder'
<1>1. Delivered' = Delivered
  BY DEF Delivered
<1>2. \A m \in Delivered : via'[m] = via[m]
  BY Zenon, Accepted DEF Ordered, Known
<1>3. \A k \in DOMAIN messages : messages[k].role = "user" => messages[k].id \in Delivered
  BY DEF Delivered
<1> QED
  BY <1>1, <1>2, <1>3 DEF Ordered, Flow, DeliveredInOrder

LEMMA OrderedPrompt ==
  ASSUME TypeOK, Ordered, Accept("prompt"), messages' = messages,
         prompts = <<>>, pendingMessages = <<>>, pendingMessages' = <<>>,
         prompts' = <<nextId>>, UNCHANGED queueVars
  PROVE  Ordered' /\ Held' = Held \cup {nextId}
<1>1. /\ nextId \in Nat /\ nextId' = Len(via') + 1
      /\ DOMAIN via' = DOMAIN via \cup {nextId}
      /\ \A m \in DOMAIN via : m < nextId /\ via'[m] = via[m]
      /\ via'[nextId] = "prompt"
  BY Accepted DEF Ordered
<1>2. Delivered' = Delivered /\ DeliveredInOrder'
  BY AcceptedOrder
<1>3. /\ Range(prompts') = {nextId} /\ Ascending(prompts') /\ Handed' = {nextId}
  BY <1>1, EmptyIsSorted DEF Range, Ascending, Handed
<1>4. Queued' = Queued /\ Queued \subseteq DOMAIN via /\ Delivered \subseteq DOMAIN via
  BY Zenon, QueuedIs DEF queueVars, Ordered, Known
<1>5. /\ \A m \in Range(steeringQueue) : via'[m] = "steer"
      /\ \A m \in Range(followUpQueue) : via'[m] = "followUp"
  BY Zenon, <1>1, <1>4, QueuedIs DEF Ordered, Sorted
<1>6. Known'
  BY <1>1, <1>2, <1>3, <1>4 DEF Known
<1>7. Sorted'
  BY Zenon, <1>3, <1>5, EmptyIsSorted DEF Ordered, Sorted, Alike, queueVars
<1>8. Flow'
  <2>1. InOrder(Handed, Queued)'
    <3>1. \A b \in Queued' : via'[b] # "prompt"
      BY <1>4, <1>5, QueuedIs
    <3>2. \A a \in Handed' : via'[a] = "prompt"
      BY <1>1, <1>3
    <3> QED
      BY <3>1, <3>2 DEF InOrder
  <2>2. InOrder(Delivered, Handed \cup Queued)'
    <3>1. \A a \in Delivered, b \in Queued : via[a] = via[b] => a < b
      BY Zenon DEF Ordered, Flow, InOrder
    <3>2. \A a \in Delivered, b \in Queued : via'[a] = via'[b] => a < b
      BY <1>1, <1>4, <3>1
    <3>3. \A a \in Delivered : a < nextId
      BY <1>1, <1>4
    <3> QED
      BY <1>2, <1>3, <1>4, <3>2, <3>3 DEF InOrder
  <2> QED
    BY Zenon, <1>2, <2>1, <2>2 DEF Flow
<1>9. Held' = Held \cup {nextId}
  <2>1. Handed = {}
    BY EmptyIsSorted DEF Handed
  <2> QED
    BY <1>2, <1>3, <1>4, <2>1 DEF Held
<1> QED
  BY <1>6, <1>7, <1>8, <1>9 DEF Ordered

LEMMA OrderedEnqueue ==
  ASSUME TypeOK, Ordered, messages' = messages,
         UNCHANGED <<prompts, pendingMessages>>,
         \/ /\ Accept("steer") /\ steeringQueue' = Enqueue(steeringQueue, nextId)
            /\ followUpQueue' = followUpQueue
         \/ /\ Accept("followUp") /\ followUpQueue' = Enqueue(followUpQueue, nextId)
            /\ steeringQueue' = steeringQueue
  PROVE  Ordered' /\ Held' = Held \cup {nextId}
<1>1. /\ nextId \in Nat /\ nextId' = Len(via') + 1
      /\ DOMAIN via' = DOMAIN via \cup {nextId}
      /\ \A m \in DOMAIN via : m < nextId /\ via'[m] = via[m]
  BY Zenon, Accepted DEF Ordered
<1>2. Delivered' = Delivered /\ DeliveredInOrder'
  BY AcceptedOrder
<1>3. /\ Queued \subseteq DOMAIN via /\ Delivered \subseteq DOMAIN via
      /\ Handed \subseteq DOMAIN via /\ Handed' = Handed
  BY Zenon DEF Ordered, Known, Handed
<1>4. steeringQueue \in Seq(Nat) /\ followUpQueue \in Seq(Nat)
  BY DEF TypeOK, QueueTypeOK
<1>5. \A q \in Seq(Nat) : Ascending(q) /\ Range(q) \subseteq DOMAIN via =>
        /\ Ascending(Enqueue(q, nextId))
        /\ Range(Enqueue(q, nextId)) = Range(q) \cup {nextId}
  BY <1>1, AscendingAppend, RangeOfAppend DEF Enqueue
<1>6. /\ Range(steeringQueue) \subseteq DOMAIN via
      /\ Range(followUpQueue) \subseteq DOMAIN via
  BY Zenon, <1>3, QueuedIs
<1>7. /\ Ascending(steeringQueue') /\ Ascending(followUpQueue')
      /\ Queued' = Queued \cup {nextId}
  <2>1. Ascending(steeringQueue) /\ Ascending(followUpQueue)
    BY DEF Ordered, Sorted
  <2> QED
    BY <1>4, <1>5, <1>6, <2>1, QueuedIs
<1>8. /\ \A m \in Range(steeringQueue') : via'[m] = "steer"
      /\ \A m \in Range(followUpQueue') : via'[m] = "followUp"
  <2>1. /\ \A m \in Range(steeringQueue) : via'[m] = "steer"
        /\ \A m \in Range(followUpQueue) : via'[m] = "followUp"
    BY Zenon, <1>1, <1>6 DEF Ordered, Sorted
  <2>2. Accept("steer") => via'[nextId] = "steer"
    BY Zenon, Accepted DEF Ordered
  <2>3. Accept("followUp") => via'[nextId] = "followUp"
    BY Zenon, Accepted DEF Ordered
  <2>4. /\ Ascending(steeringQueue) /\ Ascending(followUpQueue)
    BY DEF Ordered, Sorted
  <2> QED
    BY Zenon, <1>4, <1>5, <1>6, <2>1, <2>2, <2>3, <2>4
<1>9. Known'
  BY <1>1, <1>2, <1>3, <1>7 DEF Known
<1>10. Sorted'
  <2>1. Alike(prompts)' /\ Alike(pendingMessages)'
    <3>1. /\ Range(prompts) \subseteq DOMAIN via
          /\ Range(pendingMessages) \subseteq DOMAIN via
      BY Zenon, <1>3 DEF Handed
    <3>2. /\ \A a \in Range(prompts) : via'[a] = via[a]
          /\ \A a \in Range(pendingMessages) : via'[a] = via[a]
      BY Zenon, <1>1, <3>1
    <3>3. Alike(prompts) /\ Alike(pendingMessages)
      BY DEF Ordered, Sorted
    <3> QED
      BY <3>2, <3>3 DEF Alike
  <2> QED
    BY Zenon, <1>7, <1>8, <2>1 DEF Ordered, Sorted
<1>11. Flow'
  <2>1. InOrder(Delivered, Handed \cup Queued)'
    <3>1. InOrder(Delivered, Handed \cup Queued)
      BY Zenon DEF Ordered, Flow
    <3>2. ASSUME NEW a \in Delivered', NEW b \in (Handed \cup Queued)', via'[a] = via'[b]
          PROVE  a < b
      <4>1. a \in Delivered /\ a \in DOMAIN via /\ via'[a] = via[a] /\ a < nextId
        BY ONLY Zenon, <1>1, <1>2, <1>3, <3>2
      <4>2. CASE b = nextId
        BY ONLY Zenon, <4>1, <4>2
      <4>3. CASE b # nextId
        <5>1. b \in Handed \cup Queued /\ b \in DOMAIN via /\ via'[b] = via[b]
          BY ONLY Zenon, <1>1, <1>3, <1>7, <3>2, <4>3
        <5> QED
          BY ONLY Zenon, <3>1, <3>2, <4>1, <5>1 DEF InOrder
      <4> QED
        BY ONLY Zenon, <4>2, <4>3
    <3> QED
      BY ONLY Zenon, <3>2 DEF InOrder
  <2>2. InOrder(Handed, Queued)'
    BY Zenon, <1>1, <1>3, <1>7 DEF Ordered, Flow, InOrder
  <2> QED
    BY Zenon, <1>2, <2>1, <2>2 DEF Flow
<1>12. Held' = Held \cup {nextId}
  BY <1>2, <1>3, <1>7 DEF Held
<1> QED
  BY <1>9, <1>10, <1>11, <1>12 DEF Ordered

-----------------------------------------------------------------------------
(* Nothing is lost, nothing is doubled *)

(* Unless something threw, every accepted message is somewhere, or it was   *)
(* discarded on purpose.                                                    *)
Accounted == throws = 0 => 1..nextId-1 \subseteq discarded \cup Held

LEMMA ThrowsGrow == TypeOK /\ [Next]_vars => throws' = throws \/ throws' = throws + 1
<1>1. Bystander => throws' = throws \/ throws' = throws + 1
  BY Zenon DEF Bystander, Steer, FollowUp, Abort, ClearAllQueues, Tools,
    ToolUpdate, ToolSettles, vars
<1>2. Prompt \/ Continue \/ Reset => throws' = throws
  BY Zenon DEF Prompt, Continue, BeginRun, Reset
<1>3. Work => throws' = throws \/ throws' = throws + 1
  BY Zenon DEF Work, EmitPromptEnd, InitialPoll, EmitInjectEnd, Request,
    Responds, StreamEnd, PrepareToolCall, AwaitTool, EmitResultEnd,
    EmitTurnEnd, PollSteering, PollFollowUp, HandleRunFailure, FailRun,
    FinishRun, Emit
<1> QED
  BY Zenon, <1>1, <1>2, <1>3, MarchKeeps, StepCases

LEMMA AccountedKept ==
  ASSUME TypeOK, Accounted, [Next]_vars, nextId' = nextId,
         discarded \cup Held \subseteq discarded' \cup Held'
  PROVE  Accounted'
BY ThrowsGrow DEF Accounted, TypeOK, StepTypeOK

LEMMA AccountedNew ==
  ASSUME TypeOK, Accounted, [Next]_vars, nextId' = nextId + 1,
         discarded' = discarded, Held' = Held \cup {nextId}
  PROVE  Accounted'
<1>1. nextId \in Nat /\ 1..nextId'-1 \subseteq (1..nextId-1) \cup {nextId}
  BY DEF TypeOK, CallerTypeOK
<1> QED
  BY <1>1, ThrowsGrow DEF Accounted, TypeOK, StepTypeOK

LEMMA OrderedStep ==
  ASSUME TypeOK, Control, Quiet, Hands, Ordered, Accounted, [Next]_vars
  PROVE  Ordered' /\ Accounted'
<1>0. DeliveredInOrder
  BY DEF Ordered, Flow
<1>1. ASSUME messages' = messages, UNCHANGED <<via, nextId, discarded>>,
             UNCHANGED <<prompts, pendingMessages, queueVars>>
      PROVE  Ordered' /\ Accounted'
  BY <1>1, OrderedSame, AccountedKept
<1>2. CASE Steer \/ FollowUp
  <2>1. Ordered' /\ Held' = Held \cup {nextId}
    BY Zenon, <1>2, OrderedEnqueue DEF Steer, FollowUp, agentVars, turnVars
  <2>2. nextId' = nextId + 1 /\ discarded' = discarded
    BY Zenon, <1>2 DEF Steer, FollowUp, Accept
  <2> QED
    BY <2>1, <2>2, AccountedNew
<1>3. CASE ClearAllQueues
  <2>1. /\ messages' = messages /\ UNCHANGED <<via, nextId, prompts, pendingMessages>>
        /\ steeringQueue' = <<>> /\ followUpQueue' = <<>>
        /\ discarded' = discarded \cup Queued
    BY Zenon, <1>3 DEF ClearAllQueues, agentVars, turnVars
  <2>2. Delivered' = Delivered /\ DeliveredInOrder' /\ Handed' = Handed
    BY Zenon, <1>0, <2>1, SameUsers DEF Handed
  <2>3. Ordered'
    BY <2>1, <2>2, OrderedLess
  <2> QED
    BY <2>1, <2>2, <2>3, AccountedKept DEF Held
<1>4. CASE Abort \/ Tools \/ UNCHANGED vars
  BY Zenon, <1>1, <1>4 DEF Abort, Tools, ToolUpdate, ToolSettles, vars,
    agentVars, turnVars, callerVars
<1>5. CASE March
  BY Zenon, <1>1, <1>5, MarchKeeps DEF loopData, turnVars, callerVars
<1>6. CASE Prompt
  <2>1. /\ Accept("prompt") /\ messages' = messages /\ UNCHANGED queueVars
        /\ prompts' = <<nextId>> /\ pendingMessages' = <<>>
        /\ nextId' = nextId + 1 /\ discarded' = discarded
    BY Zenon, <1>6 DEF Prompt, BeginRun, Accept
  <2>2. prompts = <<>> /\ pendingMessages = <<>>
    BY Zenon, <1>6 DEF Prompt, Control, IdleIsClean, Hands, StartPCs
  <2>3. Ordered' /\ Held' = Held \cup {nextId}
    BY <2>1, <2>2, OrderedPrompt
  <2> QED
    BY <2>1, <2>3, AccountedNew
<1>7. CASE Continue
  <2>1. /\ messages' = messages /\ UNCHANGED <<via, nextId, discarded>>
        /\ pendingMessages' = <<>>
        /\ \/ /\ prompts' = Drained(steeringQueue, SteeringMode)
              /\ steeringQueue' = Kept(steeringQueue, SteeringMode)
              /\ followUpQueue' = followUpQueue
           \/ /\ prompts' = Drained(followUpQueue, FollowUpMode)
              /\ followUpQueue' = Kept(followUpQueue, FollowUpMode)
              /\ steeringQueue' = steeringQueue
           \/ prompts' = <<>> /\ UNCHANGED queueVars
    BY Zenon, <1>7 DEF Continue, BeginRun
  <2>2. prompts = <<>> /\ pendingMessages = <<>>
    BY Zenon, <1>7 DEF Continue, Control, IdleIsClean, Hands, StartPCs
  <2>3. Ordered' /\ Held' = Held
    BY Zenon, <2>1, <2>2, OrderedDrain, OrderedSame
  <2> QED
    BY <2>1, <2>3, AccountedKept
<1>8. CASE Reset
  <2>1. /\ messages' = <<>> /\ UNCHANGED <<via, nextId, prompts, pendingMessages>>
        /\ steeringQueue' = <<>> /\ followUpQueue' = <<>>
        /\ discarded' = discarded \cup Queued \cup Delivered
    BY Zenon, <1>8 DEF Reset, turnVars
  <2>2. Delivered' = {} /\ DeliveredInOrder' /\ Handed' = Handed
    BY <2>1 DEF Delivered, DeliveredInOrder, Handed
  <2>3. Ordered'
    BY <2>1, <2>2, OrderedLess
  <2> QED
    BY <2>1, <2>2, <2>3, AccountedKept DEF Held
<1>9. CASE EmitPromptEnd
  <2>1. prompts \in Seq(Nat) /\ prompts # <<>> /\ pendingMessages = <<>>
    BY <1>9 DEF EmitPromptEnd, TypeOK, TurnTypeOK, Control, Hands
  <2>2. /\ messages' = Append(messages, User(Head(prompts)))
        /\ prompts' = Tail(prompts) /\ pendingMessages' = <<>>
        /\ UNCHANGED <<via, nextId, queueVars, discarded>>
    BY Zenon, <1>9, <2>1 DEF EmitPromptEnd, callerVars
  <2> QED
    BY <2>1, <2>2, OrderedDeliver, AccountedKept
<1>10. CASE EmitInjectEnd
  <2>1. pendingMessages \in Seq(Nat) /\ pendingMessages # <<>> /\ prompts = <<>>
    BY <1>10 DEF EmitInjectEnd, TypeOK, TurnTypeOK, Control, Hands
  <2>2. /\ messages' = Append(messages, User(Head(pendingMessages)))
        /\ pendingMessages' = Tail(pendingMessages) /\ prompts' = <<>>
        /\ UNCHANGED <<via, nextId, queueVars, discarded>>
    BY Zenon, <1>10, <2>1 DEF EmitInjectEnd, callerVars
  <2> QED
    BY <2>1, <2>2, OrderedDeliver, AccountedKept
<1>11. CASE InitialPoll \/ PollSteering
  <2>1. prompts = <<>> /\ pendingMessages = <<>>
    BY Zenon, <1>11 DEF InitialPoll, PollSteering, Hands, StartPCs
  <2>2. /\ messages' = messages /\ UNCHANGED <<via, nextId, discarded, prompts>>
        /\ pendingMessages' = SteeringPoll.out
        /\ steeringQueue' = SteeringPoll.kept /\ followUpQueue' = followUpQueue
    BY Zenon, <1>11 DEF InitialPoll, PollSteering, agentVars, callerVars
  <2>3. CASE skipInitialSteeringPoll
    BY <1>1, <2>1, <2>2, <2>3 DEF SteeringPoll, queueVars
  <2>4. CASE ~skipInitialSteeringPoll
    <3>1. /\ pendingMessages' = Drained(steeringQueue, SteeringMode)
          /\ steeringQueue' = Kept(steeringQueue, SteeringMode)
      BY <2>2, <2>4 DEF SteeringPoll
    <3> QED
      BY <2>1, <2>2, <3>1, OrderedDrain, AccountedKept
  <2> QED
    BY <2>3, <2>4
<1>12. CASE PollFollowUp
  <2>1. prompts = <<>> /\ pendingMessages = <<>>
    BY Zenon, <1>12 DEF PollFollowUp, Hands, StartPCs
  <2>2. /\ messages' = messages /\ UNCHANGED <<via, nextId, discarded, prompts>>
        /\ pendingMessages' = Drained(followUpQueue, FollowUpMode)
        /\ followUpQueue' = Kept(followUpQueue, FollowUpMode)
        /\ steeringQueue' = steeringQueue
    BY Zenon, <1>12 DEF PollFollowUp, agentVars, callerVars
  <2> QED
    BY <2>1, <2>2, OrderedDrain, AccountedKept
<1>13. CASE Request \/ PrepareToolCall \/ AwaitTool \/ EmitTurnEnd
  BY Zenon, <1>1, <1>13 DEF Request, PrepareToolCall, AwaitTool, EmitTurnEnd,
    agentVars, turnVars, callerVars
<1>14. CASE Responds \/ EmitResultEnd \/ HandleRunFailure
  <2>1. PICK m \in Messages : messages' = Append(messages, m) /\ m.role # "user"
    <3>1. CASE Responds
      BY <3>1, AssistantType, AssistantFields
      DEF Responds, StreamEnd, TypeOK, LoopTypeOK
    <3>2. CASE EmitResultEnd
      BY <3>2, ToolResultType, ResultFields
      DEF EmitResultEnd, TypeOK, LoopTypeOK, ToolTypeOK
    <3>3. CASE HandleRunFailure
      <4>1. PICK stop \in {"error", "aborted"} :
              messages' = Append(messages, Assistant(0, stop, 0))
        BY <3>3 DEF HandleRunFailure, FailRun
      <4> QED
        BY <4>1, AssistantType, AssistantFields
    <3> QED
      BY <1>14, <3>1, <3>2, <3>3
  <2>2. UNCHANGED <<via, nextId, discarded, prompts, pendingMessages, queueVars>>
    BY Zenon, <1>14 DEF Responds, StreamEnd, EmitResultEnd, HandleRunFailure,
      FailRun, turnVars, callerVars
  <2>3. Delivered' = Delivered /\ DeliveredInOrder'
    BY <1>0, <2>1, <2>2, DeliveredByAppend, InOrderByAppend
  <2>4. Ordered'
    BY <2>2, <2>3, OrderedLess DEF queueVars
  <2>5. Held' = Held
    BY Zenon, <2>2, <2>3, QueuedIs DEF Held, Handed, queueVars
  <2> QED
    BY <2>2, <2>4, <2>5, AccountedKept
<1>15. CASE FinishRun
  <2>1. /\ messages' = messages /\ UNCHANGED <<via, nextId, discarded, queueVars>>
        /\ prompts' = <<>> /\ pendingMessages' = <<>> /\ throws' = throws
        /\ pc = "finish"
    BY Zenon, <1>15 DEF FinishRun, callerVars
  <2>2. Delivered' = Delivered /\ DeliveredInOrder'
    BY <1>0, <2>1, SameUsers
  <2>3. Ordered'
    BY <2>1, <2>2, OrderedLess DEF queueVars
  <2>4. throws = 0 => Held' = Held
    BY Zenon, <2>1, <2>2, QueuedIs DEF Hands, Held, Handed, queueVars
  <2> QED
    BY <2>1, <2>3, <2>4 DEF Accounted
<1> QED
  BY <1>2, <1>3, <1>4, <1>5, <1>6, <1>7, <1>8, <1>9, <1>10, <1>11, <1>12,
    <1>13, <1>14, <1>15, StepCases DEF Work, Bystander

(* The places of a message are one: in each sequence it is once, and in two *)
(* of them it would come before itself.                                     *)
LEMMA OnePlace ==
  ASSUME TypeOK, Hands, Ordered, Accounted
  PROVE  NothingLostOrDoubled
<1> SUFFICES ASSUME NEW m \in 1..nextId-1, m \notin discarded
             PROVE  /\ \A p, q \in Places(m) : p = q
                    /\ throws = 0 => Places(m) # {}
  BY DEF NothingLostOrDoubled
<1>0. m \in Nat
  BY DEF TypeOK, CallerTypeOK
<1> DEFINE At(s) == Occurrences(m, s)
           Said == {k \in DOMAIN messages : messages[k] = User(m)}
<1>1. ASSUME NEW s \in Seq(Nat), Ascending(s), NEW j \in At(s), NEW k \in At(s)
      PROVE  j = k
  <2>1. /\ j \in Nat /\ k \in Nat /\ s[j] = m /\ s[k] = m
        /\ j \in DOMAIN s /\ k \in DOMAIN s
    BY LenProperties DEF Occurrences
  <2>2. ~(j < k) /\ ~(k < j)
    BY <1>0, <1>1, <2>1 DEF Ascending
  <2> QED
    BY <2>1, <2>2
<1>2. ASSUME NEW s, NEW k \in At(s) PROVE m \in Range(s)
  BY DEF Occurrences, Range
<1>3. ASSUME NEW j \in Said, NEW k \in Said PROVE j = k /\ m \in Delivered
  <2>1. /\ j \in Nat /\ k \in Nat
        /\ messages[j].role = "user" /\ messages[j].id = m
        /\ messages[k].role = "user" /\ messages[k].id = m
    BY LenProperties, UserFields DEF TypeOK, AgentTypeOK
  <2>2. ~(j < k) /\ ~(k < j)
    BY <1>0, <2>1 DEF Ordered, Flow, DeliveredInOrder
  <2>3. m \in Delivered
    BY <2>1 DEF Delivered
  <2> QED
    BY <2>1, <2>2, <2>3
<1>4. /\ steeringQueue \in Seq(Nat) /\ followUpQueue \in Seq(Nat)
      /\ prompts \in Seq(Nat) /\ pendingMessages \in Seq(Nat)
      /\ Ascending(steeringQueue) /\ Ascending(followUpQueue)
      /\ Ascending(prompts) /\ Ascending(pendingMessages)
  BY DEF TypeOK, QueueTypeOK, TurnTypeOK, Ordered, Sorted
<1>5. ~(m < m)
  BY <1>0
<1>6. /\ ~(m \in Delivered /\ m \in Handed \cup Queued)
      /\ ~(m \in Handed /\ m \in Queued)
  BY Zenon, <1>5 DEF Ordered, Flow, InOrder
<1>7. ~(m \in Range(steeringQueue) /\ m \in Range(followUpQueue))
  BY DEF Ordered, Sorted
<1>8. ~(m \in Range(prompts) /\ m \in Range(pendingMessages))
  BY EmptyIsSorted DEF Hands
<1> DEFINE P == At(prompts)
           N == At(pendingMessages)
           S == At(steeringQueue)
           F == At(followUpQueue)
<1>9. /\ S # {} => m \in Queued /\ m \in Range(steeringQueue)
      /\ F # {} => m \in Queued /\ m \in Range(followUpQueue)
      /\ P # {} => m \in Handed /\ m \in Range(prompts)
      /\ N # {} => m \in Handed /\ m \in Range(pendingMessages)
      /\ Said # {} => m \in Delivered
  <2> HIDE DEF At, Said
  <2> QED
    BY <1>2, <1>3, QueuedIs DEF Handed
<1>10. /\ \A j, k \in S : j = k
       /\ \A j, k \in F : j = k
       /\ \A j, k \in P : j = k
       /\ \A j, k \in N : j = k
       /\ \A j, k \in Said : j = k
  <2> HIDE DEF At, Said
  <2> QED
    BY <1>1, <1>3, <1>4
<1>11. Places(m) = ({"steering"} \X S) \cup ({"followUp"} \X F)
                     \cup ({"prompts"} \X P) \cup ({"pending"} \X N)
                     \cup ({"messages"} \X Said)
  BY Zenon DEF Places
<1>12. ASSUME throws = 0 PROVE Places(m) # {}
  <2>1. m \in Delivered \cup Handed \cup Queued
    BY <1>12 DEF Accounted, Held
  <2>2. m \in Delivered => Said # {}
    <3>1. ASSUME NEW k \in DOMAIN messages, messages[k].role = "user",
                 messages[k].id = m
          PROVE  messages[k] = User(m)
      <4>1. messages[k] \in Messages
        BY DEF TypeOK, AgentTypeOK
      <4> QED
        BY <3>1, <4>1
        DEF Messages, UserMessages, AssistantMessages, ToolResults, User
    <3> QED
      BY <3>1 DEF Delivered
  <2>3. /\ m \in Range(steeringQueue) => S # {}
        /\ m \in Range(followUpQueue) => F # {}
        /\ m \in Range(prompts) => P # {}
        /\ m \in Range(pendingMessages) => N # {}
    BY DEF Range, Occurrences
  <2>4. S # {} \/ F # {} \/ P # {} \/ N # {} \/ Said # {}
    BY Zenon, <2>1, <2>2, <2>3, QueuedIs DEF Handed
  <2> HIDE DEF S, F, P, N, Said
  <2>5. ASSUME NEW t, NEW X, X # {} PROVE {t} \X X # {}
    <3>1. PICK x \in X : TRUE
      BY <2>5
    <3>2. <<t, x>> \in {t} \X X
      OBVIOUS
    <3> QED
      BY <3>2
  <2> SUFFICES ASSUME Places(m) = {} PROVE FALSE
    OBVIOUS
  <2>6. /\ {"steering"} \X S = {} /\ {"followUp"} \X F = {}
        /\ {"prompts"} \X P = {} /\ {"pending"} \X N = {}
        /\ {"messages"} \X Said = {}
    BY <1>11
  <2> QED
    BY <2>4, <2>5, <2>6
<1>13. \A p, q \in Places(m) : p = q
  <2> HIDE DEF S, F, P, N, Said
  <2>1. /\ ~(S # {} /\ F # {}) /\ ~(S # {} /\ P # {}) /\ ~(S # {} /\ N # {})
        /\ ~(F # {} /\ P # {}) /\ ~(F # {} /\ N # {}) /\ ~(P # {} /\ N # {})
        /\ ~(Said # {} /\ (S # {} \/ F # {} \/ P # {} \/ N # {}))
    BY Zenon, <1>6, <1>7, <1>8, <1>9
  <2> QED
    BY <1>10, <1>11, <2>1
<1> QED
  BY <1>12, <1>13

-----------------------------------------------------------------------------
(* Turns *)

(* A steering message the model has not answered yet.                       *)
Fresh == \E i \in DOMAIN messages :
           /\ Steered(i)
           /\ \A k \in i+1 .. Len(messages) : messages[k].role # "assistant"
Has(s, how) == \E m \in Range(s) : via[m] = how
FreshPCs == {"initial_poll", "turn_start", "inject_start", "inject_end",
             "request", "streaming", "run_failure"}
InjectPCs == {"turn_start", "inject_start", "inject_end"}

(* One at a time, the loop has a steering message in its hands only while   *)
(* no other is fresh, and it is the only one it has.                        *)
OneByOne ==
  SteeringMode = "one-at-a-time" =>
    /\ pc \in StartPCs => /\ ~Fresh
                          /\ skipInitialSteeringPoll => Len(prompts) <= 1
                          /\ ~skipInitialSteeringPoll => ~Has(prompts, "steer")
    /\ pc = "initial_poll" /\ Fresh => skipInitialSteeringPoll
    /\ pc \in InjectPCs /\ Has(pendingMessages, "steer") =>
         Len(pendingMessages) = 1 /\ ~Fresh
    /\ Fresh => pc \in FreshPCs

(* Where the transcript may stop, and so take a follow-up.                  *)
AtStop ==
  messages # <<>> =>
    LET last == messages[Len(messages)] IN
    \/ last.role = "user" /\ via[last.id] = "followUp"
    \/ last.role = "assistant" /\ (Failed(last) \/ last.calls = 0)
Stopped ==
  /\ pc \in {"turn_end", "poll_steering"} /\ toolCalls = 0 => AtStop
  /\ pc = "poll_followUp" => AtStop
  /\ pc \in InjectPCs /\ Has(pendingMessages, "followUp") => AtStop
  /\ pc \in StartPCs /\ Has(prompts, "followUp") => AtStop

InTurn == OneByOne /\ Stopped /\ OneSteeringPerTurn /\ FollowUpsWhenStopped

LEMMA ViaKept ==
  ASSUME TypeOK, Known, [Next]_vars
  PROVE  \A m \in DOMAIN via : via'[m] = via[m]
<1>1. CASE via' = via
  BY <1>1
<1>2. CASE Accept("prompt") \/ Accept("steer") \/ Accept("followUp")
  BY <1>2, Accepted
<1>3. Bystander \/ March \/ Work \/ Prompt \/ Continue \/ Reset
  BY StepCases
<1>4. Bystander => via' = via \/ Accept("steer") \/ Accept("followUp")
  BY Zenon DEF Bystander, Steer, FollowUp, Abort, ClearAllQueues, Tools,
    ToolUpdate, ToolSettles, vars, callerVars
<1>5. March => via' = via
  BY Zenon, MarchKeeps DEF callerVars
<1>6. Prompt \/ Continue \/ Reset => via' = via \/ Accept("prompt")
  BY Zenon DEF Prompt, Continue, Reset
<1>7. Work => via' = via
  BY Zenon DEF Work, EmitPromptEnd, InitialPoll, EmitInjectEnd, Request,
    Responds, StreamEnd, PrepareToolCall, AwaitTool, EmitResultEnd,
    EmitTurnEnd, PollSteering, PollFollowUp, HandleRunFailure, FailRun,
    FinishRun, callerVars
<1> QED
  BY <1>1, <1>2, <1>3, <1>4, <1>5, <1>6, <1>7

(* What was said before stays said the same way.                            *)
LEMMA SaidKept ==
  ASSUME TypeOK, Known, \A m \in DOMAIN via : via'[m] = via[m],
         NEW k \in DOMAIN messages, NEW k2 \in DOMAIN messages',
         messages'[k2] = messages[k]
  PROVE  /\ Steered(k2)' <=> Steered(k)
         /\ messages[k].role = "user" => via'[messages[k].id] = via[messages[k].id]
<1>1. messages[k].role = "user" => messages[k].id \in DOMAIN via
  BY DEF Known, Delivered
<1> QED
  BY <1>1 DEF Steered

LEMMA TranscriptKept ==
  ASSUME TypeOK, Known, \A m \in DOMAIN via : via'[m] = via[m],
         messages' = messages
  PROVE  /\ Fresh' <=> Fresh
         /\ AtStop' <=> AtStop
         /\ OneSteeringPerTurn => OneSteeringPerTurn'
         /\ FollowUpsWhenStopped => FollowUpsWhenStopped'
<1>1. \A k \in DOMAIN messages : Steered(k)' <=> Steered(k)
  BY SaidKept
<1>2. \A k \in DOMAIN messages : messages[k].role = "user" =>
        via'[messages[k].id] = via[messages[k].id]
  BY SaidKept
<1>3. Fresh' <=> Fresh
  BY Zenon, <1>1 DEF Fresh
<1>4. AtStop' <=> AtStop
  <2>1. messages # <<>> => Len(messages) \in DOMAIN messages
    BY EmptySeq, LenProperties DEF TypeOK, AgentTypeOK
  <2> QED
    BY Zenon, <1>2, <2>1 DEF AtStop, Failed
<1>5. OneSteeringPerTurn => OneSteeringPerTurn'
  BY Zenon, <1>1 DEF OneSteeringPerTurn
<1>6. FollowUpsWhenStopped => FollowUpsWhenStopped'
  <2>1. \A k \in 2 .. Len(messages) : k \in DOMAIN messages /\ k-1 \in DOMAIN messages
    BY LenProperties DEF TypeOK, AgentTypeOK
  <2> QED
    BY Zenon, <1>2, <2>1 DEF FollowUpsWhenStopped, Failed
<1> QED
  BY <1>3, <1>4, <1>5, <1>6

(* What a message at the end of the transcript changes.                     *)
LEMMA TranscriptGrows ==
  ASSUME TypeOK, Known, via' = via, NEW m \in Messages,
         messages' = Append(messages, m)
  PROVE  /\ m.role = "assistant" => ~Fresh'
         /\ Fresh' => Fresh \/ (m.role = "user" /\ via[m.id] = "steer")
         /\ AtStop' <=> \/ m.role = "user" /\ via[m.id] = "followUp"
                        \/ m.role = "assistant" /\ (Failed(m) \/ m.calls = 0)
         /\ OneSteeringPerTurn /\ (SteeringMode = "one-at-a-time" /\ m.role = "user"
              /\ via[m.id] = "steer" => ~Fresh) => OneSteeringPerTurn'
         /\ FollowUpsWhenStopped /\ (m.role = "user" /\ via[m.id] = "followUp"
              => AtStop) => FollowUpsWhenStopped'
<1>0. PICK n : n = Len(messages)
  OBVIOUS
<1>1. /\ n = Len(messages) /\ n \in Nat /\ DOMAIN messages = 1..n /\ DOMAIN messages' = 1..n+1
      /\ Len(messages') = n + 1
      /\ \A i \in 1..n : messages'[i] = messages[i]
      /\ messages'[n + 1] = m
  BY <1>0, Appended
<1>2. messages' # <<>>
  BY AppendProperties DEF TypeOK, AgentTypeOK
<1>3. \A k \in 1..n : Steered(k)' <=> Steered(k)
  BY <1>1 DEF Steered
<1>4. Steered(n + 1)' <=> m.role = "user" /\ via[m.id] = "steer"
  BY <1>1 DEF Steered
<1>5. m.role = "assistant" => ~Fresh'
  <2> SUFFICES ASSUME m.role = "assistant", NEW i \in 1..n+1, Steered(i)',
                      \A k \in i+1 .. n+1 : messages'[k].role # "assistant"
               PROVE  FALSE
    BY <1>1 DEF Fresh
  <2>1. i # n + 1
    BY <1>4
  <2>2. n + 1 \in i+1 .. n+1
    BY <1>1, <2>1
  <2> QED
    BY <1>1, <2>2
<1>6. Fresh' => Fresh \/ (m.role = "user" /\ via[m.id] = "steer")
  <2> SUFFICES ASSUME NEW i \in 1..n+1, Steered(i)', ~Steered(n + 1)',
                      \A k \in i+1 .. n+1 : messages'[k].role # "assistant"
               PROVE  Fresh
    BY <1>1, <1>4 DEF Fresh
  <2>1. i \in 1..n
    BY <1>1
  <2>2. \A k \in i+1 .. n : k \in i+1 .. n+1 /\ messages'[k] = messages[k]
    BY <1>1
  <2> QED
    BY <1>1, <1>3, <2>1, <2>2 DEF Fresh
<1>7. AtStop' <=> \/ m.role = "user" /\ via[m.id] = "followUp"
                  \/ m.role = "assistant" /\ (Failed(m) \/ m.calls = 0)
  BY <1>1, <1>2 DEF AtStop, Failed
<1>8. ASSUME OneSteeringPerTurn, SteeringMode = "one-at-a-time" /\ m.role = "user"
                /\ via[m.id] = "steer" => ~Fresh
      PROVE  OneSteeringPerTurn'
  <2> SUFFICES ASSUME SteeringMode = "one-at-a-time",
                      NEW i \in 1..n+1, NEW j \in 1..n+1, i < j,
                      Steered(i)', Steered(j)'
               PROVE  \E k \in i+1 .. j-1 : messages'[k].role = "assistant"
    BY <1>1 DEF OneSteeringPerTurn
  <2>1. i \in 1..n /\ Steered(i)
    BY <1>1, <1>3
  <2>2. CASE j = n + 1
    <3>1. ~Fresh
      BY <1>4, <1>8, <2>2
    <3>2. PICK k \in i+1 .. n : messages[k].role = "assistant"
      BY <1>1, <2>1, <3>1 DEF Fresh
    <3>3. k \in i+1 .. j-1 /\ messages'[k] = messages[k]
      BY <1>1, <2>1, <2>2
    <3> QED
      BY <3>2, <3>3
  <2>3. CASE j # n + 1
    <3>1. j \in 1..n /\ Steered(j)
      BY <1>1, <1>3, <2>3
    <3>2. PICK k \in i+1 .. j-1 : messages[k].role = "assistant"
      BY <1>1, <1>8, <2>1, <3>1 DEF OneSteeringPerTurn
    <3>3. messages'[k] = messages[k]
      BY <1>1, <2>1, <3>1
    <3> QED
      BY <3>2, <3>3
  <2> QED
    BY <2>2, <2>3
<1>9. ASSUME FollowUpsWhenStopped, m.role = "user" /\ via[m.id] = "followUp" => AtStop
      PROVE  FollowUpsWhenStopped'
  <2> SUFFICES ASSUME NEW k \in 2 .. n+1, messages'[k].role = "user",
                      via[messages'[k].id] = "followUp"
               PROVE  LET before == messages'[k-1] IN
                      \/ before.role = "user" /\ via[before.id] = "followUp"
                      \/ before.role = "assistant"
                           /\ (Failed(before) \/ before.calls = 0)
    BY <1>1 DEF FollowUpsWhenStopped, Failed
  <2>1. k - 1 \in 1..n /\ messages'[k-1] = messages[k-1]
    BY <1>1
  <2>2. CASE k = n + 1
    <3>1. AtStop /\ messages # <<>> /\ k - 1 = n
      <4>1. n # 0
        BY <2>1
      <4> QED
        BY <1>1, <1>9, <2>2, <4>1, EmptyRange
    <3> QED
      BY <1>1, <2>1, <3>1 DEF AtStop
  <2>3. CASE k # n + 1
    <3>1. k \in 2..n /\ messages'[k] = messages[k]
      BY <1>1, <2>3
    <3> QED
      BY <1>1, <1>9, <2>1, <3>1 DEF FollowUpsWhenStopped
  <2> QED
    BY <2>2, <2>3
<1> QED
  BY <1>5, <1>6, <1>7, <1>8, <1>9

-----------------------------------------------------------------------------
(* Turns, step by step *)

LEMMA HandsKept ==
  ASSUME Known, \A m \in DOMAIN via : via'[m] = via[m],
         UNCHANGED <<prompts, pendingMessages>>
  PROVE  \A how : /\ Has(prompts, how)' <=> Has(prompts, how)
                  /\ Has(pendingMessages, how)' <=> Has(pendingMessages, how)
<1>1. \A m \in Range(prompts) \cup Range(pendingMessages) : via'[m] = via[m]
  BY Zenon DEF Known, Handed
<1> QED
  BY <1>1 DEF Has

(* The steps that say nothing and leave the loop's hands alone.             *)
LEMMA InTurnKept ==
  ASSUME TypeOK, Ordered, InTurn, [Next]_vars, messages' = messages,
         UNCHANGED <<turnVars, toolCalls>>,
         \/ pc' = pc
         \/ pc' = "run_failure"
         \/ pc \in StartPCs /\ pc' \in StartPCs \cup {"initial_poll"}
         \/ pc \in InjectPCs /\ pc' \in InjectPCs \cup {"request"}
         \/ pc = "request" /\ pc' = "streaming"
         \/ pc = "turn_end" /\ pc' = "poll_steering"
         \/ /\ pc \notin FreshPCs
            /\ pc' \notin StartPCs \cup InjectPCs
                            \cup {"turn_end", "poll_steering", "poll_followUp"}
  PROVE  InTurn'
<1>1. \A m \in DOMAIN via : via'[m] = via[m]
  BY ViaKept DEF Ordered
<1>2. /\ Fresh' <=> Fresh
      /\ AtStop' <=> AtStop
      /\ OneSteeringPerTurn' /\ FollowUpsWhenStopped'
  BY <1>1, TranscriptKept DEF Ordered, InTurn
<1>3. \A how : /\ Has(prompts, how)' <=> Has(prompts, how)
               /\ Has(pendingMessages, how)' <=> Has(pendingMessages, how)
  BY <1>1, HandsKept DEF Ordered, turnVars
<1> USE DEF StartPCs, InjectPCs, FreshPCs
<1>4. OneByOne'
  BY Zenon, <1>2, <1>3 DEF InTurn, OneByOne, turnVars
<1>5. Stopped'
  BY Zenon, <1>2, <1>3 DEF InTurn, Stopped, turnVars
<1> QED
  BY <1>2, <1>4, <1>5 DEF InTurn

(* What a drain hands out: messages of the queue, one of them if one at a   *)
(* time.                                                                    *)
LEMMA DrainHands ==
  ASSUME NEW q \in Seq(Nat), NEW mode
  PROVE  /\ Range(Drained(q, mode)) \subseteq Range(q)
         /\ mode = "one-at-a-time" => Len(Drained(q, mode)) <= 1
         /\ mode = "one-at-a-time" /\ Drained(q, mode) # <<>> =>
              Len(Drained(q, mode)) = 1
<1>1. CASE mode = "all" \/ q = <<>>
  <2>1. Drained(q, mode) = q /\ (mode = "one-at-a-time" => q = <<>>)
    BY <1>1 DEF Drained
  <2> QED
    BY <2>1, EmptyRange
<1>2. CASE ~(mode = "all" \/ q = <<>>)
  <2>1. Drained(q, mode) = <<Head(q)>>
    BY <1>2 DEF Drained
  <2>2. Range(<<Head(q)>>) = {Head(q)} /\ Len(<<Head(q)>>) = 1
    BY DEF Range
  <2>3. Range(q) = {Head(q)} \cup Range(Tail(q))
    BY <1>2, RangeOfHeadTail
  <2> QED
    BY <2>1, <2>2, <2>3
<1> QED
  BY <1>1, <1>2

LEMMA InTurnStep ==
  ASSUME TypeOK, Control, Tooling, Unanswered, Hands, Ordered, InTurn,
         [Next]_vars
  PROVE  InTurn'
<1> USE DEF StartPCs, InjectPCs, FreshPCs
<1>0. \A m \in DOMAIN via : via'[m] = via[m]
  BY ViaKept DEF Ordered
<1>1. CASE Bystander
  BY Zenon, <1>1, BystanderKeeps, InTurnKept DEF loopData, toolVars
<1>2. CASE March
  <2>1. messages' = messages /\ UNCHANGED <<turnVars, toolCalls>>
    BY Zenon, <1>2, MarchKeeps DEF loopData, toolVars
  <2> QED
    BY Zenon, <1>2, <2>1, MarchKeeps, InTurnKept DEF Inject
<1>3. CASE Request \/ PrepareToolCall \/ AwaitTool \/ EmitTurnEnd
  BY Zenon, <1>3, InTurnKept DEF Request, PrepareToolCall, AwaitTool,
    EmitTurnEnd, Emit, agentVars, toolVars
<1>4. ASSUME messages' = messages
      PROVE  /\ Fresh' <=> Fresh
             /\ AtStop' <=> AtStop
             /\ OneSteeringPerTurn' /\ FollowUpsWhenStopped'
  BY <1>0, <1>4, TranscriptKept DEF Ordered, InTurn
<1>5. CASE Prompt
  <2>1. /\ messages' = messages /\ prompts' = <<nextId>> /\ pc' = "agent_start"
        /\ skipInitialSteeringPoll' = FALSE /\ Accept("prompt") /\ pc = "idle"
    BY Zenon, <1>5 DEF Prompt, BeginRun, Control, IdleIsClean
  <2>2. via'[nextId] = "prompt" /\ Range(prompts') = {nextId}
    BY <2>1, Accepted DEF Ordered, Range
  <2>3. ~Has(prompts, "steer")' /\ ~Has(prompts, "followUp")'
    BY <2>2 DEF Has
  <2>4. OneByOne'
    BY Zenon, <1>4, <2>1, <2>3 DEF OneByOne, InTurn
  <2>5. Stopped'
    BY Zenon, <2>1, <2>3 DEF Stopped
  <2> QED
    BY <1>4, <2>1, <2>4, <2>5 DEF InTurn
<1>6. CASE Continue
  <2>1. /\ messages' = messages /\ via' = via /\ pc' = "agent_start"
        /\ pc = "idle" /\ messages # <<>>
        /\ \/ /\ messages[Len(messages)].role = "assistant"
              /\ prompts' = Drained(steeringQueue, SteeringMode)
              /\ skipInitialSteeringPoll' = TRUE
           \/ /\ messages[Len(messages)].role = "assistant"
              /\ prompts' = Drained(followUpQueue, FollowUpMode)
              /\ skipInitialSteeringPoll' = FALSE
           \/ /\ prompts' = <<>>
              /\ skipInitialSteeringPoll' = FALSE
    BY Zenon, <1>6 DEF Continue, BeginRun, Control, IdleIsClean
  <2>2. /\ steeringQueue \in Seq(Nat) /\ followUpQueue \in Seq(Nat)
        /\ \A m \in Range(steeringQueue) : via[m] = "steer"
        /\ \A m \in Range(followUpQueue) : via[m] = "followUp"
    BY DEF TypeOK, QueueTypeOK, Ordered, Sorted
  <2>3. messages[Len(messages)].role = "assistant" => AtStop
    <3> DEFINE n == Len(messages)
    <3>1. n \in Nat /\ DOMAIN messages = 1..n /\ n # 0
      BY <2>1, EmptySeq, LenProperties DEF TypeOK, AgentTypeOK
    <3>2. ASSUME messages[n].role = "assistant", ~Failed(messages[n]),
                 messages[n].calls > 0
          PROVE  FALSE
      <4>1. Open(n)
        BY <3>1, <3>2 DEF Open
      <4>2. Answers(messages[n], n + 1, n)
        BY <2>1, <3>1, <4>1 DEF Unanswered, InTools, ToolPCs
      <4>3. n + 1 - (n + 1) = messages[n].calls
        BY <3>1, <4>2 DEF Answers
      <4> QED
        BY <3>1, <3>2, <4>3
    <3>3. messages[n] \in Messages
      BY <3>1 DEF TypeOK, AgentTypeOK
    <3>4. messages[n].role = "assistant" => messages[n].calls \in Nat
      BY <3>3 DEF Messages, UserMessages, AssistantMessages, ToolResults
    <3> HIDE DEF n
    <3>5. messages[n].role = "assistant" =>
            Failed(messages[n]) \/ messages[n].calls = 0
      BY <3>2, <3>4
    <3> QED
      BY <3>5 DEF AtStop, n
  <2>4. OneByOne'
    <3> SUFFICES ASSUME SteeringMode = "one-at-a-time"
                 PROVE  /\ ~Fresh
                        /\ skipInitialSteeringPoll' => Len(prompts') <= 1
                        /\ ~skipInitialSteeringPoll' => ~Has(prompts, "steer")'
      BY Zenon, <1>4, <2>1 DEF OneByOne
    <3>1. ~Fresh
      BY Zenon, <2>1 DEF InTurn, OneByOne
    <3>2. Has(prompts, "steer")' <=> \E m \in Range(prompts') : via[m] = "steer"
      BY <2>1 DEF Has
    <3> QED
      BY <2>1, <2>2, <3>1, <3>2, DrainHands, EmptyRange
  <2>5. Stopped'
    <3>1. Has(prompts, "followUp")' => AtStop
      <4>1. Has(prompts, "followUp")' <=> \E m \in Range(prompts') : via[m] = "followUp"
        BY <2>1 DEF Has
      <4> QED
        BY <2>1, <2>3, <4>1, EmptyRange
    <3> QED
      BY Zenon, <1>4, <2>1, <3>1 DEF Stopped
  <2> QED
    BY <1>4, <2>1, <2>4, <2>5 DEF InTurn
<1>7. CASE Reset
  <2>1. messages' = <<>>
    BY Zenon, <1>7 DEF Reset
  <2>2. /\ ~Fresh' /\ AtStop' /\ OneSteeringPerTurn'
    BY <2>1 DEF Fresh, AtStop, OneSteeringPerTurn
  <2>3. FollowUpsWhenStopped'
    BY <2>1 DEF FollowUpsWhenStopped
  <2>4. /\ Has(prompts, "steer")' <=> Has(prompts, "steer")
        /\ UNCHANGED <<pc, turnVars>>
        /\ Has(pendingMessages, "steer")' <=> Has(pendingMessages, "steer")
    BY Zenon, <1>0, <1>7, HandsKept DEF Reset, turnVars, Ordered
  <2>5. OneByOne'
    BY Zenon, <2>2, <2>4 DEF InTurn, OneByOne, turnVars
  <2>6. Stopped'
    BY Zenon, <2>2 DEF Stopped
  <2> QED
    BY <2>2, <2>3, <2>5, <2>6 DEF InTurn
<1>8. CASE EmitPromptEnd
  <2> DEFINE m == User(Head(prompts))
  <2>1. /\ prompts \in Seq(Nat) /\ prompts # <<>> /\ Head(prompts) \in Nat
        /\ Range(prompts) = {Head(prompts)} \cup Range(Tail(prompts))
        /\ Len(prompts) = 1 => Tail(prompts) = <<>>
        /\ Len(prompts) <= 1 => Len(prompts) = 1
        /\ Len(prompts) = Len(Tail(prompts)) + 1 /\ Len(Tail(prompts)) \in Nat
    <3>1. prompts \in Seq(Nat) /\ prompts # <<>>
      BY <1>8 DEF EmitPromptEnd, TypeOK, TurnTypeOK, Control
    <3>2. Len(prompts) \in Nat \ {0} /\ Len(Tail(prompts)) \in Nat
      BY <3>1, EmptySeq, HeadTailProperties, LenProperties
    <3>3. /\ Head(prompts) \in Nat /\ Len(prompts) = Len(Tail(prompts)) + 1
          /\ Range(prompts) = {Head(prompts)} \cup Range(Tail(prompts))
      BY <3>1, <3>2, RangeOfHeadTail, HeadTailProperties
    <3>4. Len(prompts) <= 1 => Len(prompts) = 1
      BY <3>2
    <3>5. Len(prompts) = 1 => Tail(prompts) = <<>>
      BY <3>1, TailOfOne
    <3> QED
      BY <3>1, <3>2, <3>3, <3>4, <3>5
  <2>2. /\ messages' = Append(messages, m) /\ prompts' = Tail(prompts)
        /\ pc = "prompt_end" /\ via' = via
        /\ skipInitialSteeringPoll' = skipInitialSteeringPoll
        /\ \/ pc' = "run_failure"
           \/ pc' = IF Len(prompts) = 1 THEN "initial_poll" ELSE "prompt_start"
    BY Zenon, <1>8 DEF EmitPromptEnd, Emit, callerVars
  <2>3. m \in Messages /\ m.role = "user" /\ m.id = Head(prompts)
    BY <2>1, UserType, UserFields
  <2>4. \A a \in Range(prompts) : via[a] = via[Head(prompts)]
    BY <2>1 DEF Ordered, Sorted, Alike
  <2>5. /\ Has(prompts, "followUp")' => via[Head(prompts)] = "followUp"
        /\ Has(prompts, "steer")' => Has(prompts, "steer")
        /\ via[Head(prompts)] = "steer" => Has(prompts, "steer")
        /\ via[Head(prompts)] = "followUp" => Has(prompts, "followUp")
    BY Zenon, <2>1, <2>2, <2>4 DEF Has
  <2>6. SteeringMode = "one-at-a-time" =>
          /\ ~Fresh
          /\ skipInitialSteeringPoll => Len(prompts) = 1
          /\ ~skipInitialSteeringPoll => ~Has(prompts, "steer")
    BY Zenon, <2>1, <2>2 DEF InTurn, OneByOne
  <2> HIDE DEF m
  <2>7. /\ Fresh' => Fresh \/ via[Head(prompts)] = "steer"
        /\ AtStop' <=> via[Head(prompts)] = "followUp"
    BY <2>2, <2>3, TranscriptGrows DEF Ordered
  <2>8. OneSteeringPerTurn'
    BY <2>2, <2>3, <2>6, TranscriptGrows DEF Ordered, InTurn
  <2>9. FollowUpsWhenStopped'
    <3>1. via[Head(prompts)] = "followUp" => AtStop
      BY <2>2, <2>5 DEF InTurn, Stopped
    <3> QED
      BY <2>2, <2>3, <3>1, TranscriptGrows DEF Ordered, InTurn
  <2>10. OneByOne'
    <3> SUFFICES ASSUME SteeringMode = "one-at-a-time" PROVE OneByOne'
      BY DEF OneByOne
    <3>1. CASE pc' = "run_failure"
      BY Zenon, <3>1 DEF OneByOne
    <3>2. CASE Len(prompts) = 1 /\ pc' = "initial_poll"
      BY Zenon, <2>2, <2>5, <2>6, <2>7, <3>2 DEF OneByOne
    <3>3. CASE Len(prompts) # 1 /\ pc' = "prompt_start"
      BY Zenon, <2>2, <2>5, <2>6, <2>7, <3>3 DEF OneByOne
    <3> QED
      BY Zenon, <2>2, <3>1, <3>2, <3>3
  <2>11. Stopped'
    BY Zenon, <2>2, <2>5, <2>7 DEF Stopped
  <2> QED
    BY <2>8, <2>9, <2>10, <2>11 DEF InTurn
<1>9. CASE EmitInjectEnd
  <2> DEFINE m == User(Head(pendingMessages))
  <2>1. /\ pendingMessages \in Seq(Nat) /\ pendingMessages # <<>>
        /\ Head(pendingMessages) \in Nat
        /\ Range(pendingMessages)
             = {Head(pendingMessages)} \cup Range(Tail(pendingMessages))
        /\ Len(pendingMessages) = 1 => Tail(pendingMessages) = <<>>
    <3>1. pendingMessages \in Seq(Nat) /\ pendingMessages # <<>>
      BY <1>9 DEF EmitInjectEnd, TypeOK, TurnTypeOK, Control
    <3> QED
      BY <3>1, RangeOfHeadTail, TailOfOne
  <2>2. /\ messages' = Append(messages, m) /\ pendingMessages' = Tail(pendingMessages)
        /\ pc = "inject_end" /\ via' = via
        /\ \/ pc' = "run_failure"
           \/ pc' = IF Len(pendingMessages) = 1 THEN "request" ELSE "inject_start"
    BY Zenon, <1>9 DEF EmitInjectEnd, Emit, callerVars
  <2>3. m \in Messages /\ m.role = "user" /\ m.id = Head(pendingMessages)
    BY <2>1, UserType, UserFields
  <2>4. \A a \in Range(pendingMessages) : via[a] = via[Head(pendingMessages)]
    BY <2>1 DEF Ordered, Sorted, Alike
  <2>5. /\ Has(pendingMessages, "followUp")' => via[Head(pendingMessages)] = "followUp"
        /\ Has(pendingMessages, "steer")' => Has(pendingMessages, "steer")
        /\ via[Head(pendingMessages)] = "steer" => Has(pendingMessages, "steer")
        /\ via[Head(pendingMessages)] = "followUp" => Has(pendingMessages, "followUp")
    BY Zenon, <2>1, <2>2, <2>4 DEF Has
  <2>6. SteeringMode = "one-at-a-time" /\ Has(pendingMessages, "steer") =>
          ~Fresh /\ Len(pendingMessages) = 1
    BY Zenon, <2>2 DEF InTurn, OneByOne
  <2> HIDE DEF m
  <2>7. /\ Fresh' => Fresh \/ via[Head(pendingMessages)] = "steer"
        /\ AtStop' <=> via[Head(pendingMessages)] = "followUp"
    BY <2>2, <2>3, TranscriptGrows DEF Ordered
  <2>8. OneSteeringPerTurn'
    BY <2>2, <2>3, <2>5, <2>6, TranscriptGrows DEF Ordered, InTurn
  <2>9. FollowUpsWhenStopped'
    <3>1. via[Head(pendingMessages)] = "followUp" => AtStop
      BY <2>2, <2>5 DEF InTurn, Stopped
    <3> QED
      BY <2>2, <2>3, <3>1, TranscriptGrows DEF Ordered, InTurn
  <2>10. OneByOne'
    BY Zenon, <2>2, <2>5, <2>6 DEF OneByOne
  <2>11. Stopped'
    BY Zenon, <2>2, <2>5, <2>7 DEF Stopped
  <2> QED
    BY <2>8, <2>9, <2>10, <2>11 DEF InTurn
<1>10. CASE InitialPoll \/ PollSteering
  <2>1. /\ messages' = messages /\ via' = via /\ toolCalls' = toolCalls
        /\ pendingMessages' = SteeringPoll.out
        /\ \/ pc = "initial_poll" /\ pc' = Inject(pendingMessages')
           \/ /\ pc = "poll_steering"
              /\ pc' = IF GoesOn(pendingMessages') THEN "turn_start" ELSE "poll_followUp"
    BY Zenon, <1>10 DEF InitialPoll, PollSteering, agentVars, toolVars, callerVars
  <2>2. /\ steeringQueue \in Seq(Nat)
        /\ \A a \in Range(steeringQueue) : via[a] = "steer"
    BY DEF TypeOK, QueueTypeOK, Ordered, Sorted
  <2>3. /\ \A a \in Range(pendingMessages') : via[a] = "steer"
        /\ SteeringMode = "one-at-a-time" =>
             \/ pendingMessages' = <<>>
             \/ Len(pendingMessages') = 1 /\ ~skipInitialSteeringPoll
    BY <2>1, <2>2, DrainHands, EmptyRange DEF SteeringPoll
  <2>4. ~Has(pendingMessages, "followUp")'
    BY <2>1, <2>3 DEF Has
  <2>5. pendingMessages' = <<>> => ~Has(pendingMessages, "steer")'
    BY EmptyRange DEF Has
  <2>6. /\ pc' \in {"inject_start", "request", "turn_start", "poll_followUp"}
        /\ pc' = "poll_followUp" => pc = "poll_steering" /\ ~(toolCalls > 0)
    BY Zenon, <2>1 DEF Inject, GoesOn
  <2>7. SteeringMode = "one-at-a-time" =>
          /\ Fresh => pc = "initial_poll" /\ skipInitialSteeringPoll
    BY Zenon, <2>1 DEF InTurn, OneByOne
  <2>8. pc = "initial_poll" => pc' \in {"inject_start", "request"}
    BY Zenon, <2>1 DEF Inject
  <2>9. OneByOne'
    BY Zenon, <1>4, <2>1, <2>3, <2>5, <2>6, <2>7, <2>8 DEF OneByOne
  <2>10. toolCalls \in Nat
    BY DEF TypeOK, ToolTypeOK
  <2>11. ~(toolCalls > 0) => toolCalls = 0
    BY <2>10
  <2>12. Stopped'
    BY Zenon, <1>4, <2>1, <2>4, <2>6, <2>11 DEF Stopped, InTurn
  <2> QED
    BY <1>4, <2>1, <2>9, <2>12 DEF InTurn
<1>11. CASE PollFollowUp
  <2>1. /\ messages' = messages /\ via' = via /\ pc = "poll_followUp"
        /\ pendingMessages' = Drained(followUpQueue, FollowUpMode)
        /\ pc' \in {"turn_start", "agent_end"}
    BY Zenon, <1>11 DEF PollFollowUp, agentVars, callerVars
  <2>2. /\ followUpQueue \in Seq(Nat)
        /\ \A a \in Range(followUpQueue) : via[a] = "followUp"
    BY DEF TypeOK, QueueTypeOK, Ordered, Sorted
  <2>3. ~Has(pendingMessages, "steer")'
    BY <2>1, <2>2, DrainHands DEF Has
  <2>4. OneByOne'
    BY Zenon, <1>4, <2>1, <2>3 DEF OneByOne, InTurn
  <2>5. Stopped'
    BY Zenon, <1>4, <2>1 DEF Stopped, InTurn
  <2> QED
    BY <1>4, <2>1, <2>4, <2>5 DEF InTurn
<1>12. CASE Responds
  <2>1. PICK stop \in {"stop", "error", "aborted"}, n \in 0..MaxCalls :
          StreamEnd(stop, n)
    BY <1>12 DEF Responds
  <2> DEFINE m == Assistant(turn, stop, n)
  <2>2. m \in Messages /\ m.role = "assistant" /\ m.calls = n
    BY AssistantType, AssistantFields DEF TypeOK, LoopTypeOK
  <2> HIDE DEF m
  <2>3. /\ messages' = Append(messages, m) /\ via' = via /\ toolCalls' = n
        /\ pc' \in {"failed_turn_end", "tool_start", "turn_end", "run_failure"}
    BY Zenon, <2>1 DEF StreamEnd, Emit, callerVars, m
  <2>4. /\ ~Fresh' /\ OneSteeringPerTurn' /\ FollowUpsWhenStopped'
        /\ n = 0 => AtStop'
    BY <2>2, <2>3, TranscriptGrows DEF Ordered, InTurn
  <2>5. OneByOne' /\ Stopped'
    BY Zenon, <2>3, <2>4, ToolingStep DEF OneByOne, Stopped
  <2> QED
    BY <2>4, <2>5 DEF InTurn
<1>13. CASE EmitResultEnd
  <2> DEFINE m == ToolResult(turn, current)
  <2>1. m \in Messages /\ m.role = "toolResult"
    BY ToolResultType, ResultFields DEF TypeOK, LoopTypeOK, ToolTypeOK
  <2> HIDE DEF m
  <2>2. /\ messages' = Append(messages, m) /\ via' = via /\ pc = "result_end"
        /\ toolCalls' = toolCalls
        /\ pc' \in {"tool_start", "turn_end", "tool_execute", "tool_await",
                     "run_failure"}
    BY Zenon, <1>13 DEF EmitResultEnd, Emit, AfterOutcome, callerVars, m
  <2>3. /\ Fresh' => Fresh
        /\ OneSteeringPerTurn' /\ FollowUpsWhenStopped'
    BY <2>1, <2>2, TranscriptGrows DEF Ordered, InTurn
  <2>4. toolCalls # 0
    <3>1. /\ prepared <= toolCalls
          /\ prepared = Len(toolResults) + Len(runnableCalls) + 1
      BY <2>2 DEF Tooling, InTools, ToolPCs, Emitting
    <3>2. Len(toolResults) \in Nat /\ Len(runnableCalls) \in Nat /\ toolCalls \in Nat
      BY LenProperties DEF TypeOK, ToolTypeOK
    <3> QED
      BY <3>1, <3>2
  <2>5. OneByOne' /\ Stopped'
    BY Zenon, <2>2, <2>3, <2>4 DEF OneByOne, Stopped, InTurn
  <2> QED
    BY <2>3, <2>5 DEF InTurn
<1>14. CASE HandleRunFailure
  <2>1. PICK stop \in {"error", "aborted"} :
          messages' = Append(messages, Assistant(0, stop, 0))
    BY <1>14 DEF HandleRunFailure, FailRun
  <2> DEFINE m == Assistant(0, stop, 0)
  <2>2. m \in Messages /\ m.role = "assistant"
    BY AssistantType, AssistantFields
  <2> HIDE DEF m
  <2>3. messages' = Append(messages, m) /\ via' = via /\ pc' = "finish"
    BY Zenon, <1>14, <2>1 DEF HandleRunFailure, FailRun, callerVars, m
  <2>4. ~Fresh' /\ OneSteeringPerTurn' /\ FollowUpsWhenStopped'
    BY <2>2, <2>3, TranscriptGrows DEF Ordered, InTurn
  <2>5. OneByOne' /\ Stopped'
    BY Zenon, <2>3, <2>4 DEF OneByOne, Stopped
  <2> QED
    BY <2>4, <2>5 DEF InTurn
<1>15. CASE FinishRun
  <2>1. messages' = messages /\ pc = "finish" /\ pc' = "idle"
    BY Zenon, <1>15 DEF FinishRun
  <2>2. OneByOne' /\ Stopped'
    BY Zenon, <1>4, <2>1 DEF OneByOne, Stopped, InTurn
  <2> QED
    BY <1>4, <2>1, <2>2 DEF InTurn
<1> QED
  BY <1>1, <1>2, <1>3, <1>5, <1>6, <1>7, <1>8, <1>9, <1>10, <1>11, <1>12,
    <1>13, <1>14, <1>15, StepCases DEF Work

-----------------------------------------------------------------------------
(* Theorems *)

IInv == /\ TypeOK /\ Control /\ Sync /\ Report
        /\ Tooling /\ Unanswered /\ CallsAnswered
        /\ Quiet /\ Hands /\ Ordered /\ Accounted /\ InTurn

LEMMA InitInv == Init => IInv
<1> SUFFICES ASSUME Init PROVE IInv
  OBVIOUS
<1>1. TypeOK
  <2>1. 0 \in Nat /\ 1 \in Nat
    OBVIOUS
  <2> QED
    BY Zenon, <2>1, EmptySeq
    DEF Init, TypeOK, AgentTypeOK, QueueTypeOK, TurnTypeOK, ToolTypeOK,
      LoopTypeOK, ExecTypeOK, CallerTypeOK, RunTypeOK, StepTypeOK, PCs
<1>2. Control
  BY DEF Init, Control, IdleIsClean
<1>3. Sync /\ Report
  BY DEF Init, Sync, Report, RunPCs, StartPCs, TurnPCs, ToolPCs
<1>4. Tooling /\ Unanswered /\ CallsAnswered
  BY DEF Init, Tooling, InTools, ToolPCs, Unanswered, CallsAnswered
<1>5. Quiet /\ Hands
  BY DEF Init, Quiet, Hands, ToolPCs
<1>6. Ordered
  <2>1. Queued = {} /\ Handed = {} /\ Delivered = {}
    BY QueuedIs, EmptyRange DEF Init, Handed, Delivered
  <2>2. Known
    BY <2>1, EmptyRange DEF Init, Known
  <2>3. Sorted
    BY EmptyRange DEF Init, Sorted, Ascending, Alike
  <2>4. Flow
    BY <2>1 DEF Init, Flow, InOrder, DeliveredInOrder
  <2> QED
    BY <2>2, <2>3, <2>4 DEF Ordered
<1>7. Accounted
  BY DEF Init, Accounted
<1>8. InTurn
  BY DEF Init, InTurn, OneByOne, Stopped, OneSteeringPerTurn,
    FollowUpsWhenStopped, Fresh, StartPCs, InjectPCs, FreshPCs
<1> QED
  BY <1>1, <1>2, <1>3, <1>4, <1>5, <1>6, <1>7, <1>8 DEF IInv

LEMMA NextInv == IInv /\ [Next]_vars => IInv'
<1> SUFFICES ASSUME IInv, [Next]_vars PROVE IInv'
  OBVIOUS
<1> USE DEF IInv
<1>1. TypeOK' /\ Control' /\ Sync'
  BY TypeStep, ControlStep, SyncStep
<1>2. Report'
  BY <1>1, ReportStep
<1>3. Tooling' /\ Unanswered' /\ CallsAnswered'
  BY ToolingStep, UnansweredStep, CallsAnsweredStep
<1>4. Quiet' /\ Hands'
  BY QuietStep, HandsStep
<1>5. Ordered' /\ Accounted' /\ InTurn'
  BY OrderedStep, InTurnStep
<1> QED
  BY <1>1, <1>2, <1>3, <1>4, <1>5

THEOREM Invariance == Spec => []IInv
BY InitInv, NextInv, PTL DEF Spec

(* Whatever the callers, the model, the tools and the listeners do, every   *)
(* variable of the agent and of its loop keeps its type.                    *)
THEOREM TypeCorrect == Spec => []TypeOK
<1>1. IInv => TypeOK
  BY DEF IInv
<1> QED
  BY <1>1, Invariance, PTL

(* An agent without a run reports itself idle, also after a run that failed. *)
THEOREM IdleCorrect == Spec => []IdleIsClean
<1>1. IInv => IdleIsClean
  BY DEF IInv, Control
<1> QED
  BY <1>1, Invariance, PTL

(* The model is always asked about exactly the transcript the agent keeps.  *)
THEOREM ContextCorrect == Spec => []ContextInSync
<1>1. IInv => ContextInSync
  BY Zenon DEF IInv, Sync, TurnPCs, ContextInSync
<1> QED
  BY <1>1, Invariance, PTL

(* agent_end reports exactly the messages the run added to the transcript:  *)
(* none is missing, none is from an earlier run, none is doubled.           *)
THEOREM ReportCorrect == Spec => []AgentEndReport
<1>1. IInv => AgentEndReport
  BY Zenon DEF IInv, Sync, Report, RunPCs, TurnPCs, Before, AgentEndReport
<1> QED
  BY <1>1, Invariance, PTL

(* Whatever the model asks for, and whether its tools run, are refused or   *)
(* fail, each of its calls has one result before the next message: no       *)
(* transcript a provider would reject is ever built.                        *)
THEOREM AnswersCorrect == Spec => []CallsAnswered
<1>1. IInv => CallsAnswered
  BY DEF IInv
<1> QED
  BY <1>1, Invariance, PTL

(* When no listener has thrown, an agent that is idle has no tool running,  *)
(* and no tool ever reports into a run that is not its own.                 *)
THEOREM QuietCorrect == Spec => []IdleIsQuiet
<1>1. IInv => IdleIsQuiet
  BY QuietWhenIdle DEF IInv
<1> QED
  BY <1>1, Invariance, PTL

(* For queues of any length and in either mode: a message the agent took is *)
(* in one place, once, and only an exception or a reset makes it disappear. *)
THEOREM NothingLost == Spec => []NothingLostOrDoubled
<1>1. IInv => NothingLostOrDoubled
  BY OnePlace DEF IInv
<1> QED
  BY <1>1, Invariance, PTL

(* For every history of calls: messages of a kind are delivered in the      *)
(* order they were queued, steering one at a time is answered in between,   *)
(* and a follow-up comes only where the agent would have stopped.           *)
THEOREM DeliveryCorrect == Spec => []DeliveredInTurn
<1>1. IInv => DeliveredInTurn
  BY DEF IInv, InTurn, Ordered, Flow, DeliveredInTurn
<1> QED
  BY <1>1, Invariance, PTL
=============================================================================
