------------------------- MODULE AgentSessionProofs -------------------------
(* AgentSession, for any number of callers and retries, within any bounds    *)
(* and wherever a run throws: that a retry is awaited, that the session holds *)
(* what the agent emitted in the order of emission, that an overflow is      *)
(* recovered from once, that the copies of the queues are the queues, and    *)
(* that a retry goes on while its promise is pending.                        *)
(*                                                                           *)
(* Every step is brought down to the one thing it does to the variables an   *)
(* invariant is about (Emission and the like), and the invariant is shown of *)
(* those: the steps of the agent, of timers and of callers are then one case. *)
EXTENDS AgentSession, SequenceTheorems, FiniteSetTheorems, WellFoundedInduction,
        TLAPS

Msgs == [kind : Replies \cup {"user", "result", "bash", "summary", "agent_end"},
         n : Nat, big : BOOLEAN]
UserMsgs == {m \in Msgs : m.kind = "user"}

HasError(q) == \E i \in DOMAIN q : q[i].kind = "error"

(* What the steps that emit need to be known of what they emit.              *)
Typed ==
  /\ made \in Nat
  /\ retryPromise \in BOOLEAN /\ released \in BOOLEAN
  /\ agentEventQueue \in Seq(Msgs)
  /\ steering \in Seq(UserMsgs) /\ followUp \in Seq(UserMsgs)
  /\ lastAssistant \in Msgs \cup {None}

(* The handler takes an event off the queue only after its await: the event  *)
(* is still there.                                                           *)
InHand == handler = "extensions" => agentEventQueue # <<>>

IInv == Typed /\ InHand /\ RetryIsAwaited

-----------------------------------------------------------------------------
(* Queues and what is emitted from them *)

LEMMA Errors ==
  ASSUME NEW q \in Seq(Msgs), NEW ms \in Seq(Msgs)
  PROVE  /\ q \o ms \in Seq(Msgs)
         /\ HasError(q \o ms) <=> HasError(q) \/ HasError(ms)
         /\ q # <<>> => q \o ms # <<>>
<1>1. q \o ms \in Seq(Msgs) /\ (q # <<>> => q \o ms # <<>>)
  BY ConcatProperties
<1>2. HasError(q) \/ HasError(ms) => HasError(q \o ms)
  <2>1. ASSUME NEW i \in DOMAIN q, q[i].kind = "error" PROVE HasError(q \o ms)
    BY <2>1, ConcatProperties DEF HasError
  <2>2. ASSUME NEW i \in DOMAIN ms, ms[i].kind = "error" PROVE HasError(q \o ms)
    <3>1. i + Len(q) \in DOMAIN (q \o ms) /\ (q \o ms)[i + Len(q)] = ms[i]
      BY ConcatProperties
    <3> QED BY <2>2, <3>1 DEF HasError
  <2> QED BY <2>1, <2>2 DEF HasError
<1>3. HasError(q \o ms) => HasError(q) \/ HasError(ms)
  <2> SUFFICES ASSUME NEW i \in DOMAIN (q \o ms), (q \o ms)[i].kind = "error"
               PROVE  HasError(q) \/ HasError(ms)
    BY DEF HasError
  <2>1. CASE i <= Len(q)
    BY <2>1, ConcatProperties DEF HasError
  <2>2. CASE i > Len(q)
    <3>1. i - Len(q) \in DOMAIN ms /\ (q \o ms)[i] = ms[i - Len(q)]
      BY <2>2, ConcatProperties
    <3> QED BY <3>1 DEF HasError
  <2> QED BY <2>1, <2>2
<1> QED BY <1>1, <1>2, <1>3

LEMMA HeadAndTail ==
  ASSUME NEW q \in Seq(Msgs), q # <<>>
  PROVE  /\ Head(q) \in Msgs /\ Tail(q) \in Seq(Msgs)
         /\ Head(q).kind = "error" \/ HasError(Tail(q)) => HasError(q)
<1>1. Head(q) \in Msgs /\ Tail(q) \in Seq(Msgs)
  BY HeadTailProperties
<1>2. Head(q).kind = "error" => HasError(q)
  BY DEF HasError
<1>3. ASSUME NEW i \in DOMAIN Tail(q), Tail(q)[i].kind = "error"
      PROVE  HasError(q)
  <2>1. i + 1 \in DOMAIN q /\ q[i + 1] = Tail(q)[i]
    BY HeadTailProperties
  <2> QED BY <1>3, <2>1 DEF HasError
<1> QED BY <1>1, <1>2, <1>3 DEF HasError

LEMMA NoErrors ==
  ASSUME NEW q \in Seq(Msgs), \A i \in DOMAIN q : q[i].kind # "error"
  PROVE  ~HasError(q)
BY DEF HasError

LEMMA OneMessage ==
  ASSUME NEW m \in Msgs, m.kind # "error"
  PROVE  <<m>> \in Seq(Msgs) /\ ~HasError(<<m>>)
BY DEF HasError

LEMMA MessageType ==
  ASSUME NEW k \in Replies \cup {"user", "result", "bash"},
         NEW b \in BOOLEAN, made \in Nat
  PROVE  /\ Made(k, b) \in Msgs /\ Made(k, b).kind = k
BY DEF Made, Message, Msgs

LEMMA AnswerMade ==
  ASSUME NEW size \in Sizes
  PROVE  \E k \in {"answer", "overlong"}, b \in BOOLEAN : AnswerOf(size) = Made(k, b)
BY Zenon DEF AnswerOf

(* What a poll hands over is user messages.                                  *)
LEMMA DrainedUsers ==
  ASSUME NEW q \in Seq(UserMsgs)
  PROVE  /\ Drained(q) \in Seq(Msgs) /\ ~HasError(Drained(q))
         /\ q # <<>> => /\ Tail(q) \in Seq(UserMsgs)
                        /\ Head(q) \in Msgs /\ Head(q).kind = "user"
<1>1. CASE q = <<>>
  BY <1>1 DEF Drained, HasError
<1>2. CASE q # <<>>
  <2>1. Head(q) \in UserMsgs /\ Tail(q) \in Seq(UserMsgs)
    BY <1>2, HeadTailProperties
  <2>2. Drained(q) = <<Head(q)>> /\ Head(q) \in Msgs /\ Head(q).kind = "user"
    BY <1>2, <2>1 DEF Drained, UserMsgs
  <2>3. ~HasError(<<Head(q)>>)
    BY <2>2 DEF HasError
  <2> QED BY <2>1, <2>2, <2>3
<1> QED BY <1>1, <1>2

-----------------------------------------------------------------------------
(* A step that emits ms and lets go of nothing: a failure among ms has to    *)
(* come with the promise.                                                    *)

LEMMA GrowthKeeps ==
  ASSUME IInv, agentEventQueue' \in Seq(Msgs),
         agentEventQueue # <<>> => agentEventQueue' # <<>>,
         HasError(agentEventQueue') => HasError(agentEventQueue) \/ retryPromise',
         retryPromise' \in BOOLEAN, retryPromise => retryPromise',
         UNCHANGED <<handling, released>>,
         made' \in Nat, steering' \in Seq(UserMsgs), followUp' \in Seq(UserMsgs)
  PROVE  IInv'
<1> USE DEF handling
<1>1. Typed' /\ InHand'
  BY DEF IInv, Typed, InHand
<1>2. RetryIsAwaited'
  BY Zenon DEF IInv, RetryIsAwaited, RetryAhead, HasError
<1> QED BY <1>1, <1>2 DEF IInv

LEMMA EmissionKeeps ==
  ASSUME IInv, NEW ms \in Seq(Msgs),
         agentEventQueue' = agentEventQueue \o ms,
         HasError(ms) => retryPromise',
         retryPromise' \in BOOLEAN, retryPromise => retryPromise',
         UNCHANGED <<handling, released>>,
         made' \in Nat, steering' \in Seq(UserMsgs), followUp' \in Seq(UserMsgs)
  PROVE  IInv'
BY Errors, GrowthKeeps DEF IInv, Typed

LEMMA QuietKeeps ==
  ASSUME IInv, agentEventQueue' = agentEventQueue,
         retryPromise' \in BOOLEAN, retryPromise => retryPromise',
         UNCHANGED <<handling, released>>,
         made' \in Nat, steering' \in Seq(UserMsgs), followUp' \in Seq(UserMsgs)
  PROVE  IInv'
<1>1. <<>> \in Seq(Msgs) /\ ~HasError(<<>>)
  BY DEF HasError
<1>2. agentEventQueue' = agentEventQueue \o <<>>
  BY DEF IInv, Typed
<1> QED BY <1>1, <1>2, EmissionKeeps

(* The end of a run: what it appends last, and agent_end.                    *)
LEMMA EndKeeps ==
  ASSUME IInv, NEW k \in Replies, NEW b \in BOOLEAN, NEW j, End(<<Made(k, b)>>, j),
         k = "error" => j = "error",
         UNCHANGED <<handling, released>>,
         made' \in Nat, steering' \in Seq(UserMsgs), followUp' \in Seq(UserMsgs)
  PROVE  IInv'
<1> DEFINE m == <<Made(k, b)>>
           e == <<AgentEnd>>
<1>1. m \in Seq(Msgs) /\ (HasError(m) => k = "error")
  BY MessageType, OneMessage DEF IInv, Typed
<1>2. AgentEnd \in Msgs /\ AgentEnd.kind # "error"
  BY DEF AgentEnd, Message, Msgs
<1>3. e \in Seq(Msgs) /\ ~HasError(e)
  BY <1>2, OneMessage
<1>4. agentEventQueue' = (agentEventQueue \o m) \o e
  BY Zenon DEF End
<1>5. retryPromise' = (retryPromise \/ j = "error")
  BY Zenon DEF End, CreateRetryPromise
<1> HIDE DEF m, e
<1>6. /\ agentEventQueue' \in Seq(Msgs)
      /\ agentEventQueue # <<>> => agentEventQueue' # <<>>
      /\ HasError(agentEventQueue') => HasError(agentEventQueue) \/ k = "error"
  BY <1>1, <1>3, <1>4, Errors DEF IInv, Typed
<1>7. retryPromise' \in BOOLEAN /\ (retryPromise => retryPromise')
  BY <1>5 DEF IInv, Typed
<1> QED BY <1>5, <1>6, <1>7, GrowthKeeps

-----------------------------------------------------------------------------
(* The steps of the agent *)

LEMMA AgentStepKeeps == ASSUME IInv, AgentStep PROVE IInv'
<1> USE DEF queues, retry, handling
<1>0. Typed
  BY DEF IInv
<1>1. CASE RespondWithCall
  <2> DEFINE m == Made("call", FALSE)
  <2>0. m \in Msgs /\ m.kind = "call"
    BY <1>0, MessageType DEF Replies, Typed
  <2>1. made' \in Nat
    BY <1>0, <1>1 DEF RespondWithCall, Typed
  <2>2. <<m>> \in Seq(Msgs) /\ ~HasError(<<m>>)
    BY <2>0, OneMessage
  <2>3. agentEventQueue' = agentEventQueue \o <<m>>
    BY <1>1 DEF RespondWithCall, EmitMessages
  <2> QED
    BY <1>0, <1>1, <2>1, <2>2, <2>3, EmissionKeeps DEF RespondWithCall, Typed
<1>2. CASE FinishTools
  <2> DEFINE m == Made("result", FALSE)
             ms == <<m>> \o Drained(steering)
  <2>0. m \in Msgs /\ m.kind = "result"
    BY <1>0, MessageType DEF Typed
  <2>1. made' \in Nat
    BY <1>0, <1>2 DEF FinishTools, Typed
  <2>2. <<m>> \in Seq(Msgs) /\ ~HasError(<<m>>)
    BY <2>0, OneMessage
  <2>3. ms \in Seq(Msgs) /\ ~HasError(ms)
    BY <1>0, <2>2, DrainedUsers, Errors DEF Typed
  <2>4. steering' \in Seq(UserMsgs)
    BY <1>0, <1>2, DrainedUsers DEF FinishTools, Typed
  <2>5. agentEventQueue' = agentEventQueue \o ms
    BY <1>2 DEF FinishTools, EmitMessages
  <2> QED
    BY <1>0, <1>2, <2>1, <2>3, <2>4, <2>5, EmissionKeeps DEF FinishTools, Typed
<1>3. ASSUME NEW size \in Sizes, RespondWithAnswer(size) PROVE IInv'
  <2> DEFINE m == AnswerOf(size)
  <2>0. PICK k \in {"answer", "overlong"}, b \in BOOLEAN : m = Made(k, b)
    BY AnswerMade
  <2>1. m \in Msgs /\ m.kind = k /\ made' \in Nat
    BY <1>0, <1>3, <2>0, MessageType DEF Replies, RespondWithAnswer, Typed
  <2>2. UNCHANGED <<handling, released>>
    BY <1>3 DEF RespondWithAnswer
  <2>3. CASE steering # <<>> \/ followUp # <<>>
    <3> DEFINE q == IF steering # <<>> THEN steering ELSE followUp
               ms == <<m, Head(q)>>
    <3>1. Head(q) \in Msgs /\ Head(q).kind = "user"
      BY <1>0, <2>3, DrainedUsers DEF Typed
    <3>2. ms \in Seq(Msgs) /\ ~HasError(ms)
      BY <2>1, <3>1 DEF HasError
    <3>3. agentEventQueue' = agentEventQueue \o ms /\ UNCHANGED retryPromise
      BY <1>3, <2>3 DEF RespondWithAnswer, EmitMessages
    <3>4. steering' \in Seq(UserMsgs) /\ followUp' \in Seq(UserMsgs)
      BY <1>0, <1>3, <2>3, DrainedUsers DEF RespondWithAnswer, Typed
    <3> QED
      BY <1>0, <2>1, <2>2, <3>2, <3>3, <3>4, EmissionKeeps DEF Typed
  <2>4. CASE steering = <<>> /\ followUp = <<>>
    <3>1. End(<<m>>, "answer") /\ UNCHANGED <<steering, followUp>>
      BY <1>3, <2>4 DEF RespondWithAnswer
    <3> QED
      BY <1>0, <2>0, <2>1, <2>2, <3>1, EndKeeps DEF Replies, Typed
  <2> QED BY <2>3, <2>4
<1>4. ASSUME NEW kind \in {"error", "failed", "overflow", "aborted"}, RespondWithFailure(kind)
      PROVE  IInv'
  <2>1. kind \in Replies /\ made' \in Nat
    BY <1>0, <1>4 DEF Replies, RespondWithFailure, Typed
  <2>2. /\ End(<<Made(kind, FALSE)>>, kind)
        /\ UNCHANGED <<handling, released, steering, followUp>>
    BY <1>4 DEF RespondWithFailure
  <2> QED BY <1>0, <2>1, <2>2, EndKeeps DEF Typed
<1> QED BY <1>1, <1>2, <1>3, <1>4 DEF AgentStep

LEMMA ThrowKeeps ==
  ASSUME IInv, NEW kind \in {"error", "failed"}, Throw(kind) PROVE IInv'
<1> USE DEF queues, handling
<1>1. AgentEnd \in Msgs /\ AgentEnd.kind = "agent_end"
  BY DEF AgentEnd, Message, Msgs
<1>2. <<AgentEnd>> \in Seq(Msgs) /\ ~HasError(<<AgentEnd>>)
  BY <1>1, OneMessage
<1>3. agentEventQueue' = agentEventQueue \o <<AgentEnd>>
  BY <1>1, AppendIsConcat DEF Throw, IInv, Typed
<1>4. retryPromise' \in BOOLEAN /\ (retryPromise => retryPromise')
  BY DEF Throw, CreateRetryPromise, IInv, Typed
<1>5. /\ made' \in Nat /\ UNCHANGED <<handling, released, steering, followUp>>
  BY DEF Throw, IInv, Typed
<1>6. steering' \in Seq(UserMsgs) /\ followUp' \in Seq(UserMsgs)
  BY <1>5 DEF IInv, Typed
<1> QED BY <1>2, <1>3, <1>4, <1>5, <1>6, EmissionKeeps

-----------------------------------------------------------------------------
(* The handler.  It moves a failure from the queue to _lastAssistantMessage, *)
(* and from there into a sleep or out of sight.                              *)

LEMMA HandlerKeeps ==
  ASSUME IInv, BeginEvent \/ FinishMessage \/ FinishAgentEnd \/ SleepOver
  PROVE  IInv'
<1> USE DEF queues, retry, handling, agent
<1>0. Typed /\ InHand /\ RetryIsAwaited
  BY DEF IInv
<1>1. CASE BeginEvent
  <2>1. /\ UNCHANGED <<made, retryPromise, released, agentEventQueue, steering,
                       followUp, lastAssistant>>
        /\ handler' = "extensions" /\ agentEventQueue # <<>>
    BY <1>1, Zenon DEF BeginEvent
  <2>2. Typed' /\ InHand'
    BY <1>0, <2>1 DEF Typed, InHand
  <2>3. RetryIsAwaited'
    BY <1>0, <2>1 DEF RetryIsAwaited, RetryAhead
  <2> QED BY <2>2, <2>3 DEF IInv
<1>2. CASE FinishMessage
  <2> DEFINE e == Head(agentEventQueue)
  <2>1. /\ UNCHANGED <<made, retryPromise, released, steering, followUp>>
        /\ handler' = "ready" /\ handler = "extensions"
        /\ agentEventQueue' = Tail(agentEventQueue)
        /\ lastAssistant' = e \/ lastAssistant' = lastAssistant
    BY <1>2, Zenon DEF FinishMessage, Persist
  <2>2. agentEventQueue # <<>>
    BY <1>0, <2>1 DEF InHand
  <2>3. /\ e \in Msgs /\ Tail(agentEventQueue) \in Seq(Msgs)
        /\ e.kind = "error" \/ HasError(Tail(agentEventQueue))
             => HasError(agentEventQueue)
    BY <1>0, <2>2, HeadAndTail DEF Typed
  <2>4. Typed' /\ InHand'
    BY <1>0, <2>1, <2>3 DEF Typed, InHand
  <2>5. RetryIsAwaited'
    BY <1>0, <2>1, <2>3, Zenon DEF RetryIsAwaited, RetryAhead, HasError
  <2> QED BY <2>4, <2>5 DEF IInv
<1>3. CASE FinishAgentEnd
  <2>1. /\ UNCHANGED <<made, steering, followUp>>
        /\ handler = "extensions"
        /\ agentEventQueue' = Tail(agentEventQueue)
        /\ lastAssistant' = None
    BY <1>3, Zenon DEF FinishAgentEnd
  <2>2. agentEventQueue # <<>>
    BY <1>0, <2>1 DEF InHand
  <2>3. /\ Tail(agentEventQueue) \in Seq(Msgs)
        /\ HasError(Tail(agentEventQueue)) => HasError(agentEventQueue)
    BY <1>0, <2>2, HeadAndTail DEF Typed
  <2>4. None.kind # "error" /\ lastAssistant'.kind # "error"
    BY <2>1 DEF None, Message
  <2>5. CASE handler' = "ready" /\ UNCHANGED <<retryPromise, released>>
    <3>1. Typed' /\ InHand'
      BY <1>0, <2>1, <2>3, <2>5 DEF Typed, InHand
    <3>2. RetryIsAwaited'
      BY <1>0, <2>1, <2>3, <2>4, <2>5, Zenon
         DEF RetryIsAwaited, RetryAhead, HasError
    <3> QED BY <3>1, <3>2 DEF IInv
  <2>6. CASE SleepBeforeRetry(lastAssistant)
    <3>1. handler' = "sleeping" /\ retryPromise' = TRUE /\ UNCHANGED released
      BY <2>6, Zenon DEF SleepBeforeRetry
    <3>2. Typed' /\ InHand'
      BY <1>0, <2>1, <2>3, <3>1 DEF Typed, InHand
    <3> QED BY <3>1, <3>2 DEF IInv, RetryIsAwaited
  <2>7. CASE GiveUp(lastAssistant, Tail(agentEventQueue), None)
    <3>1. /\ handler' = "ready" /\ retryPromise' = FALSE
          /\ released' = (released \/ RetryAhead(Tail(agentEventQueue), None))
      BY <2>7, Zenon DEF GiveUp, ResolveRetry
    <3>2. Typed' /\ InHand'
      BY <1>0, <2>1, <2>3, <3>1 DEF Typed, InHand
    <3>3. RetryIsAwaited'
      BY <2>1, <2>4, <3>1, Zenon DEF RetryIsAwaited, RetryAhead
    <3> QED BY <3>2, <3>3 DEF IInv
  <2> QED BY <1>3, <2>5, <2>6, <2>7, Zenon DEF FinishAgentEnd
<1>4. CASE SleepOver
  <2>1. /\ UNCHANGED <<made, retryPromise, released, agentEventQueue, steering,
                       followUp, lastAssistant>>
        /\ handler' = "ready"
    BY <1>4, Zenon DEF SleepOver
  <2>2. Typed' /\ InHand'
    BY <1>0, <2>1 DEF Typed, InHand
  <2>3. RetryIsAwaited'
    BY <1>0, <2>1 DEF RetryIsAwaited, RetryAhead
  <2> QED BY <2>2, <2>3 DEF IInv
<1> QED BY <1>1, <1>2, <1>3, <1>4

(* abort() resolves the promise; what is still ahead is then on record.      *)
LEMMA AbortKeeps == ASSUME IInv, Abort PROVE IInv'
<1>1. /\ UNCHANGED <<made, steering, followUp, agentEventQueue, lastAssistant>>
      /\ handler' = "ready" \/ (handler' = handler /\ handler # "sleeping")
      /\ ResolveRetry(agentEventQueue, lastAssistant)
  <2>1. /\ UNCHANGED <<made, steering, followUp, agentEventQueue, lastAssistant>>
        /\ \/ GiveUp(handled, agentEventQueue, lastAssistant)
           \/ /\ handler # "sleeping"
              /\ ResolveRetry(agentEventQueue, lastAssistant)
              /\ UNCHANGED handler
    BY Zenon DEF Abort, queues
  <2> QED BY <2>1, Zenon DEF GiveUp
<1>2. /\ retryPromise' = FALSE
      /\ released' = (released \/ RetryAhead(agentEventQueue, lastAssistant))
  BY <1>1, Zenon DEF ResolveRetry
<1>3. Typed' /\ InHand'
  BY <1>1, <1>2 DEF IInv, Typed, InHand
<1>4. RetryIsAwaited'
  BY <1>1, <1>2, Zenon DEF RetryIsAwaited, RetryAhead
<1> QED BY <1>3, <1>4 DEF IInv

-----------------------------------------------------------------------------
(* The callers, the timers and the compaction *)

LEMMA StartKeeps ==
  ASSUME IInv, NEW prompts \in Seq(Msgs), ~HasError(prompts), NEW o,
         Start(prompts, o), UNCHANGED <<retryPromise, handling, released>>,
         made' \in Nat
  PROVE  IInv'
<1> DEFINE ms == prompts \o Drained(steering)
<1>0. Typed
  BY DEF IInv
<1>1. ms \in Seq(Msgs) /\ ~HasError(ms)
  BY <1>0, DrainedUsers, Errors DEF Typed
<1>2. agentEventQueue' = agentEventQueue \o ms
  BY Zenon DEF Start, EmitMessages
<1>3. steering' \in Seq(UserMsgs) /\ followUp' \in Seq(UserMsgs)
  BY <1>0, DrainedUsers DEF Start, Typed
<1>4. retryPromise' \in BOOLEAN /\ (retryPromise => retryPromise')
  BY <1>0 DEF Typed
<1> HIDE DEF ms
<1> QED BY <1>1, <1>2, <1>3, <1>4, EmissionKeeps

LEMMA StartFromQueueKeeps ==
  ASSUME IInv, StartFromQueue,
         UNCHANGED <<retryPromise, handling, released, made>>
  PROVE  IInv'
<1>0. Typed
  BY DEF IInv
<1>1. ASSUME NEW q \in Seq(UserMsgs), q # <<>>,
             EmitMessages(Drained(q)),
             steering' \in Seq(UserMsgs), followUp' \in Seq(UserMsgs)
      PROVE  IInv'
  <2>1. agentEventQueue' = agentEventQueue \o Drained(q)
    BY <1>1, Zenon DEF EmitMessages
  <2>2. Drained(q) \in Seq(Msgs) /\ ~HasError(Drained(q))
    BY DrainedUsers
  <2> QED BY <1>0, <1>1, <2>1, <2>2, EmissionKeeps DEF Typed
<1>2. CASE steering # <<>>
  BY <1>0, <1>1, <1>2, DrainedUsers DEF StartFromQueue, Typed
<1>3. CASE steering = <<>>
  BY <1>0, <1>1, <1>3, DrainedUsers DEF StartFromQueue, Typed
<1> QED BY <1>2, <1>3

LEMMA OthersKeep ==
  ASSUME IInv,
         \/ TimerFires \/ QueueSteer \/ QueueFollowUp \/ ClearQueue
         \/ RecordBashResult
         \/ \E a \in Actors : CompactionStep(a)
         \/ \E c \in Callers : Prompt(c) \/ CallerStep(c)
         \/ UNCHANGED vars
  PROVE  IInv'
<1> USE DEF queues, retry, agent
<1>0. Typed
  BY DEF IInv
<1>1. CASE TimerFires
  <2>1. UNCHANGED <<retryPromise, handling, released, made>>
    BY <1>1, Zenon DEF TimerFires
  <2>2. CASE Start(<<>>, "none")
    <3>1. <<>> \in Seq(Msgs) /\ ~HasError(<<>>)
      BY DEF HasError
    <3> QED BY <1>0, <2>1, <2>2, <3>1, StartKeeps DEF Typed
  <2>3. CASE StartFromQueue
    BY <2>1, <2>3, StartFromQueueKeeps
  <2>4. CASE UNCHANGED agent
    BY <1>0, <2>1, <2>4, QuietKeeps DEF Typed
  <2> QED BY <1>1, <2>2, <2>3, <2>4, Zenon DEF TimerFires
<1>2. CASE QueueSteer \/ QueueFollowUp
  <2>1. /\ UNCHANGED <<retryPromise, handling, released, agentEventQueue>>
        /\ made' = made + 1
        /\ \/ steering' = Append(steering, Made("user", FALSE)) /\ UNCHANGED followUp
           \/ followUp' = Append(followUp, Made("user", FALSE)) /\ UNCHANGED steering
    BY <1>2, Zenon DEF QueueSteer, QueueFollowUp
  <2>2. Made("user", FALSE) \in UserMsgs
    BY <1>0, MessageType DEF Typed, UserMsgs
  <2>3. \A q \in Seq(UserMsgs) : Append(q, Made("user", FALSE)) \in Seq(UserMsgs)
    BY <2>2, AppendProperties
  <2>4. steering' \in Seq(UserMsgs) /\ followUp' \in Seq(UserMsgs)
    BY <1>0, <2>1, <2>3, Zenon DEF Typed
  <2> QED BY <1>0, <2>1, <2>4, QuietKeeps DEF Typed
<1>3. CASE ClearQueue
  <2>1. /\ UNCHANGED <<retryPromise, handling, released, agentEventQueue, made>>
        /\ steering' = <<>> /\ followUp' = <<>>
    BY <1>3, Zenon DEF ClearQueue
  <2> QED BY <1>0, <2>1, QuietKeeps, EmptySeq DEF Typed
<1>4. CASE RecordBashResult
  <2>1. /\ UNCHANGED <<retryPromise, handling, released, agentEventQueue, steering,
                       followUp>>
        /\ made' = made + 1
    BY <1>4, Zenon DEF RecordBashResult
  <2> QED BY <1>0, <2>1, QuietKeeps DEF Typed
<1>5. ASSUME NEW a \in Actors, CompactionStep(a) PROVE IInv'
  <2>1. UNCHANGED <<retryPromise, handling, released, agentEventQueue, steering,
                    followUp>>
    BY <1>5, Zenon DEF CompactionStep, CompactionPrepared, CompactionSaved,
                       CompactionDone, CompactionFails
  <2>2. made' = made \/ made' = made + 1
    BY <1>5, Zenon DEF CompactionStep, CompactionPrepared, CompactionSaved,
                       CompactionDone, CompactionFails
  <2> QED BY <1>0, <2>1, <2>2, QuietKeeps DEF Typed
<1>6. ASSUME NEW c \in Callers, Prompt(c) PROVE IInv'
  <2>1. UNCHANGED <<retryPromise, handling, released, agentEventQueue, steering,
                    followUp, made>>
    BY <1>6, Zenon DEF Prompt
  <2> QED BY <1>0, <2>1, QuietKeeps DEF Typed
<1>7. ASSUME NEW c \in Callers, Send(c) PROVE IInv'
  <2> DEFINE m == Made("user", FALSE)
  <2>1. UNCHANGED <<retryPromise, handling, released>>
    BY <1>7, Zenon DEF Send
  <2>2. CASE Start(<<m>>, c) /\ made' = made + 1
    <3>1. m \in Msgs /\ m.kind = "user"
      BY <1>0, MessageType DEF Typed
    <3>2. <<m>> \in Seq(Msgs) /\ ~HasError(<<m>>)
      BY <3>1, OneMessage
    <3>3. made' \in Nat
      BY <1>0, <2>2 DEF Typed
    <3> HIDE DEF m
    <3> QED BY <2>1, <2>2, <3>2, <3>3, StartKeeps
  <2>3. CASE UNCHANGED <<agent, made>>
    BY <1>0, <2>1, <2>3, QuietKeeps DEF Typed
  <2> QED BY <1>7, <2>2, <2>3, Zenon DEF Send
<1>8. ASSUME NEW c \in Callers, Return(c) PROVE IInv'
  <2>1. UNCHANGED <<retryPromise, handling, released, agentEventQueue, steering,
                    followUp, made>>
    BY <1>8, Zenon DEF Return
  <2> QED BY <1>0, <2>1, QuietKeeps DEF Typed
<1>9. CASE UNCHANGED vars
  <2>1. UNCHANGED <<retryPromise, handling, released, agentEventQueue, steering,
                    followUp, made>>
    BY <1>9, Zenon DEF vars
  <2> QED BY <1>0, <2>1, QuietKeeps DEF Typed
<1> QED BY <1>1, <1>2, <1>3, <1>4, <1>5, <1>6, <1>7, <1>8, <1>9 DEF CallerStep

-----------------------------------------------------------------------------
LEMMA InitInv == Init => IInv
<1> SUFFICES ASSUME Init PROVE IInv
  OBVIOUS
<1>1. None.kind # "error"
  BY DEF None, Message
<1>2. Typed /\ InHand
  BY EmptySeq, Zenon DEF Init, Typed, InHand
<1>3. RetryIsAwaited
  BY <1>1 DEF Init, RetryIsAwaited, RetryAhead
<1> QED BY <1>2, <1>3 DEF IInv

LEMMA NextInv == IInv /\ [Next]_vars => IInv'
BY AgentStepKeeps, ThrowKeeps, HandlerKeeps, AbortKeeps, OthersKeep, Zenon
   DEF Next, SessionStep

(* While a failed answer is still to be retried the promise that prompt()    *)
(* waits for is pending, unless it was resolved early (agent-session.ts      *)
(* 438-443): for any callers, retries and bounds, and wherever a run throws. *)
THEOREM RetryAwaited == Spec => []RetryIsAwaited
<1>1. IInv => RetryIsAwaited
  BY DEF IInv
<1> QED BY <1>1, InitInv, NextInv, PTL DEF Spec

-----------------------------------------------------------------------------
(* What is kept of a sequence of entries                                     *)

Kept(s, k) == {i \in 1..k : FromAgent(s[i])}

LEMMA RankType ==
  ASSUME NEW s, NEW k \in Nat
  PROVE  /\ IsFiniteSet(Kept(s, k))
         /\ Rank(s, k) = Cardinality(Kept(s, k))
         /\ Rank(s, k) \in 0..k
<1>1. IsFiniteSet(1..k) /\ Cardinality(1..k) = k
  BY FS_Interval
<1>2. Kept(s, k) \in SUBSET (1..k)
  BY DEF Kept
<1>3. /\ IsFiniteSet(Kept(s, k)) /\ Cardinality(Kept(s, k)) \in Nat
      /\ Cardinality(Kept(s, k)) <= k
  BY <1>1, <1>2, FS_Subset, FS_CardinalityType
<1> QED BY <1>3 DEF Rank, Kept

LEMMA RankOfKept ==
  ASSUME NEW s, NEW n \in Nat, NEW k \in 1..n, FromAgent(s[k])
  PROVE  Rank(s, k) \in 1..Rank(s, n)
<1>1. Kept(s, k) \in SUBSET Kept(s, n)
  BY DEF Kept
<1>2. Rank(s, k) <= Rank(s, n)
  BY <1>1, RankType, FS_Subset
<1>3. k \in Kept(s, k)
  BY DEF Kept
<1>4. Rank(s, k) # 0
  BY <1>3, RankType, FS_EmptySet
<1> QED BY <1>2, <1>4, RankType

LEMMA RankOfPrefix ==
  ASSUME NEW S, NEW s \in Seq(S), NEW t \in Seq(S), NEW k \in 0..Len(s)
  PROVE  Rank(s \o t, k) = Rank(s, k)
<1>1. \A i \in 1..k : (s \o t)[i] = s[i]
  BY ConcatProperties, LenProperties
<1>2. Kept(s \o t, k) = Kept(s, k)
  BY <1>1 DEF Kept
<1> QED BY <1>2, RankType, LenProperties

LEMMA RankOfSuffix ==
  ASSUME NEW S, NEW s \in Seq(S), NEW t \in Seq(S),
         NEW j \in Len(s)..(Len(s) + Len(t))
  PROVE  Rank(s \o t, j) = Rank(s, Len(s)) + Rank(t, j - Len(s))
<1> PICK n \in Nat : n = Len(s)
  BY LenProperties
<1> PICK k \in 0..Len(t) : k = j - n
  <2>1. j - n \in 0..Len(t)
    BY LenProperties
  <2> QED BY <2>1
<1>a. j = n + k
  BY LenProperties
<1> DEFINE A == Kept(s, n)
           B == {i \in (n + 1)..(n + k) : FromAgent(t[i - n])}
           f == [i \in Kept(t, k) |-> i + n]
<1>0. k \in Nat /\ Len(t) \in Nat
  BY LenProperties
<1>1. \A i \in 1..(n + k) : (s \o t)[i] = IF i <= n THEN s[i] ELSE t[i - n]
  BY <1>0, ConcatProperties
<1>2. Kept(s \o t, n + k) = A \cup B /\ A \cap B = {}
  BY <1>0, <1>1 DEF Kept
<1>3. f \in Bijection(Kept(t, k), B)
  <2>1. f \in [Kept(t, k) -> B]
    BY <1>0 DEF Kept
  <2>2. \A b \in B : b - n \in Kept(t, k) /\ f[b - n] = b
    BY <1>0 DEF Kept
  <2>3. \A a, b \in Kept(t, k) : f[a] = f[b] => a = b
    BY <1>0 DEF Kept
  <2> HIDE DEF f, B
  <2> QED BY <2>1, <2>2, <2>3 DEF Bijection, Injection, Surjection, IsInjective
<1>4. IsFiniteSet(B) /\ Cardinality(B) = Cardinality(Kept(t, k))
  <2> HIDE DEF f, B
  <2> QED BY <1>0, <1>3, RankType, FS_Bijection DEF ExistsBijection
<1>5. IsFiniteSet(A) /\ Cardinality(A) \in Nat
  BY RankType
<1>6. Cardinality(A \cup B) = Cardinality(A) + Cardinality(B)
  <2>1. A \cap B = {} /\ Cardinality(B) \in Nat
    BY <1>2, <1>4, FS_CardinalityType
  <2> HIDE DEF A, B
  <2>2. Cardinality(A \cup B) = Cardinality(A) + Cardinality(B) - Cardinality(A \cap B)
    BY <1>4, <1>5, FS_Union
  <2>3. Cardinality(A \cap B) = 0
    BY <2>1, FS_EmptySet, Zenon
  <2> QED BY <1>5, <2>1, <2>2, <2>3
<1>7. n + k \in Nat
  BY <1>0
<1> HIDE DEF B
<1> QED BY <1>0, <1>a, <1>2, <1>4, <1>6, <1>7, RankType

-----------------------------------------------------------------------------
(* How a filtered sequence grows, and what may be put in or left out         *)

LEMMA FilterOfConcat ==
  ASSUME NEW S, NEW s \in Seq(S), NEW t \in Seq(S), NEW T, NEW e \in Seq(T), NEW f \in Seq(T),
         FilteredTo(s, e), FilteredTo(t, f)
  PROVE  FilteredTo(s \o t, e \o f)
<1> PICK n \in Nat : n = Len(s)
  BY LenProperties
<1> PICK m \in Nat : m = Len(t)
  BY LenProperties
<1>1. s \o t \in Seq(S) /\ Len(s \o t) = n + m /\ DOMAIN (s \o t) = 1..(n + m)
  BY ConcatProperties, LenProperties
<1>2. Len(e) = Rank(s, n) /\ Len(f) = Rank(t, m)
  BY DEF FilteredTo
<1>3. Len(e \o f) = Rank(s \o t, n + m)
  <2>1. (n + m) \in Len(s)..(Len(s) + Len(t)) /\ (n + m) - Len(s) = m
    OBVIOUS
  <2>2. Rank(s \o t, n + m) = Rank(s, n) + Rank(t, m)
    BY <2>1, RankOfSuffix
  <2>3. Len(e \o f) = Len(e) + Len(f)
    BY ConcatProperties
  <2> QED BY <1>2, <2>2, <2>3
<1>4. ASSUME NEW k \in 1..(n + m), FromAgent((s \o t)[k])
      PROVE  (e \o f)[Rank(s \o t, k)] = (s \o t)[k]
  <2>1. CASE k <= n
    <3>1. (s \o t)[k] = s[k] /\ Rank(s \o t, k) = Rank(s, k) /\ k \in DOMAIN s
      BY <2>1, RankOfPrefix, ConcatProperties, LenProperties
    <3>2. Rank(s, k) \in 1..Len(e)
      BY <1>2, <1>4, <2>1, <3>1, RankOfKept
    <3>3. (e \o f)[Rank(s, k)] = e[Rank(s, k)]
      BY <3>2, ConcatProperties, LenProperties
    <3> QED BY <1>4, <3>1, <3>3 DEF FilteredTo
  <2>2. CASE k > n
    <3> PICK j \in 1..m : k = n + j
      <4>1. k - n \in 1..m /\ k = n + (k - n)
        BY <2>2
      <4> QED BY <4>1
    <3>0. (s \o t)[k] = t[j] /\ j \in DOMAIN t
      BY ConcatProperties, LenProperties
    <3>1. Rank(s \o t, k) = Rank(s, n) + Rank(t, j)
      <4>1. (n + j) \in Len(s)..(Len(s) + Len(t)) /\ (n + j) - Len(s) = j
        OBVIOUS
      <4>2. Rank(s \o t, n + j) = Rank(s, n) + Rank(t, (n + j) - Len(s))
        BY <4>1, RankOfSuffix, Zenon
      <4> QED BY <4>1, <4>2
    <3>2. Rank(t, j) \in 1..Len(f)
      BY <1>2, <1>4, <3>0, RankOfKept
    <3>3. (e \o f)[Rank(s, n) + Rank(t, j)] = f[Rank(t, j)]
      BY <1>2, <3>2, ConcatProperties, LenProperties
    <3> QED BY <1>4, <3>0, <3>1, <3>3 DEF FilteredTo
  <2>3. k <= n \/ k > n
    OBVIOUS
  <2> QED BY <2>1, <2>2, <2>3, Zenon
<1> QED BY <1>1, <1>3, <1>4 DEF FilteredTo

(* Entries that are not the agent's may be put in anywhere, and left out.    *)
LEMMA FilterIgnores ==
  ASSUME NEW S, NEW s \in Seq(S), NEW b \in Seq(S), NEW t \in Seq(S), NEW e,
         \A i \in DOMAIN b : ~FromAgent(b[i])
  PROVE  FilteredTo((s \o b) \o t, e) <=> FilteredTo(s \o t, e)
<1> PICK n \in Nat : n = Len(s)
  BY LenProperties
<1> PICK l \in Nat : l = Len(b)
  BY LenProperties
<1> PICK m \in Nat : m = Len(t)
  BY LenProperties
<1> DEFINE sb == s \o b
           st == s \o t
           sbt == sb \o t
<1>1. /\ sb \in Seq(S) /\ Len(sb) = n + l /\ DOMAIN b = 1..l /\ DOMAIN s = 1..n
      /\ st \in Seq(S) /\ Len(st) = n + m /\ DOMAIN st = 1..(n + m)
      /\ sbt \in Seq(S) /\ Len(sbt) = n + l + m /\ DOMAIN sbt = 1..(n + l + m)
  BY ConcatProperties, LenProperties
<1>2. Rank(b, l) = 0
  <2>1. Kept(b, l) = {}
    BY <1>1 DEF Kept
  <2> QED BY <2>1, RankType, FS_EmptySet
<1>3. Rank(sb, n + l) = Rank(s, n)
  <2>1. Rank(sb, n + l) = Rank(s, n) + Rank(b, l)
    BY RankOfSuffix
  <2>2. Rank(s, n) \in Nat
    BY RankType
  <2> QED BY <1>2, <2>1, <2>2
<1>4. \A j \in 0..m : Rank(sbt, n + l + j) = Rank(st, n + j)
  <2> TAKE j \in 0..m
  <2>1. Rank(sbt, n + l + j) = Rank(sb, n + l) + Rank(t, j)
    <3> HIDE DEF sb
    <3>1. (n + l + j) \in Len(sb)..(Len(sb) + Len(t))
      BY <1>1
    <3>2. (n + l + j) - Len(sb) = j
      BY <1>1
    <3>3. n + l = Len(sb) /\ sb \in Seq(S)
      BY <1>1
    <3>4. Rank(sb \o t, n + l + j) = Rank(sb, Len(sb)) + Rank(t, (n + l + j) - Len(sb))
      BY ONLY <3>1, <3>3, RankOfSuffix, t \in Seq(S)
    <3> QED BY <3>2, <3>3, <3>4
  <2>2. Rank(st, n + j) = Rank(s, n) + Rank(t, j)
    BY RankOfSuffix
  <2> QED BY <1>3, <2>1, <2>2
<1>5. \A k \in 1..n : sbt[k] = s[k] /\ st[k] = s[k]
                      /\ Rank(sbt, k) = Rank(st, k)
  <2>1. \A k \in 0..n : Rank(sbt, k) = Rank(sb, k)
    <3> HIDE DEF sb
    <3> QED BY <1>1, RankOfPrefix
  <2>2. \A k \in 0..n : Rank(sb, k) = Rank(s, k) /\ Rank(st, k) = Rank(s, k)
    BY <1>1, RankOfPrefix
  <2>3. \A k \in 1..n : sb[k] = s[k] /\ st[k] = s[k]
    BY ConcatProperties
  <2>4. \A k \in 1..n : sbt[k] = sb[k]
    BY <1>1, ConcatProperties
  <2> QED BY <2>1, <2>2, <2>3, <2>4
<1>6. \A k \in (n + 1)..(n + l) : ~FromAgent(sbt[k])
  <2> TAKE k \in (n + 1)..(n + l)
  <2>1. sbt[k] = sb[k]
    BY <1>1, ConcatProperties
  <2>2. sb[k] = b[k - n] /\ k - n \in DOMAIN b
    BY <1>1, ConcatProperties
  <2> QED BY <2>1, <2>2
<1>7. \A j \in 1..m : sbt[n + l + j] = t[j] /\ st[n + j] = t[j]
  <2>1. \A j \in 1..m : st[n + j] = t[j]
    BY ConcatProperties
  <2>2. \A j \in 1..m : sbt[n + l + j] = t[j]
    BY <1>1, ConcatProperties
  <2> QED BY <2>1, <2>2
<1>8. Rank(sbt, n + l + m) = Rank(st, n + m)
  BY <1>4
<1> HIDE DEF sb, st, sbt
<1>9. ASSUME FilteredTo(st, e) PROVE FilteredTo(sbt, e)
  <2> SUFFICES ASSUME NEW k \in 1..(n + l + m), FromAgent(sbt[k])
               PROVE  e[Rank(sbt, k)] = sbt[k]
    BY <1>1, <1>8, <1>9 DEF FilteredTo
  <2>1. CASE k <= n
    <3>1. k \in 1..n /\ k \in 1..(n + m)
      BY <2>1
    <3> QED BY <1>1, <1>5, <1>9, <3>1 DEF FilteredTo
  <2>2. CASE k \in (n + 1)..(n + l)
    BY <1>6, <2>2
  <2>3. CASE k > n + l
    <3>1. k - (n + l) \in 1..m /\ k = n + l + (k - (n + l))
      BY <2>3
    <3> PICK j \in 1..m : k = n + l + j
      BY <3>1
    <3>2. st[n + j] = sbt[k]
      BY <1>7
    <3>3. n + j \in 1..(n + m)
      OBVIOUS
    <3>4. Rank(sbt, n + l + j) = Rank(st, n + j)
      BY <1>4
    <3>5. e[Rank(st, n + j)] = st[n + j]
      BY <1>1, <1>9, <3>2, <3>3 DEF FilteredTo
    <3> QED BY <3>2, <3>4, <3>5
  <2> QED BY <2>1, <2>2, <2>3
<1>10. ASSUME FilteredTo(sbt, e) PROVE FilteredTo(st, e)
  <2> SUFFICES ASSUME NEW k \in 1..(n + m), FromAgent(st[k])
               PROVE  e[Rank(st, k)] = st[k]
    BY <1>1, <1>8, <1>10 DEF FilteredTo
  <2>1. CASE k <= n
    <3>1. k \in 1..n /\ k \in 1..(n + l + m)
      BY <2>1
    <3> QED BY <1>1, <1>5, <1>10, <3>1 DEF FilteredTo
  <2>2. CASE k > n
    <3>1. k - n \in 1..m /\ k = n + (k - n)
      BY <2>2
    <3> PICK j \in 1..m : k = n + j
      BY <3>1
    <3>2. /\ sbt[n + l + j] = st[k] /\ Rank(sbt, n + l + j) = Rank(st, k)
          /\ n + l + j \in 1..(n + l + m)
      BY <1>4, <1>7
    <3> QED BY <1>1, <1>10, <3>2 DEF FilteredTo
  <2> QED BY <2>1, <2>2
<1> QED BY <1>9, <1>10 DEF sbt, sb, st

(* Messages of the agent alone are what they are filtered to.                *)
LEMMA FilterOfMessages ==
  ASSUME NEW S, NEW ms \in Seq(S), \A i \in DOMAIN ms : FromAgent(ms[i])
  PROVE  FilteredTo(ms, ms)
<1> PICK n \in Nat : n = Len(ms)
  BY LenProperties
<1>1. DOMAIN ms = 1..n
  BY LenProperties
<1>2. \A k \in 0..n : Rank(ms, k) = k
  <2> TAKE k \in 0..n
  <2>1. Kept(ms, k) = 1..k
    BY <1>1 DEF Kept
  <2> QED BY <2>1, RankType, FS_Interval
<1> QED BY <1>1, <1>2 DEF FilteredTo

-----------------------------------------------------------------------------
(* What a step of the agent, a timer or a caller emits: at most one message  *)
(* of its own, at most one that it takes off a queue, and the end of a run.  *)

Kinds == Replies \cup {"user", "result"}

Own(fresh) ==
  \/ fresh = <<>> /\ made' \in {made, made + 1}
  \/ /\ made' = made + 1
     /\ \E kind \in Kinds, big \in BOOLEAN : fresh = <<Made(kind, big)>>

Polled(ms) ==
  \/ ms = <<>> /\ UNCHANGED <<steering, followUp>>
  \/ /\ steering # <<>>
     /\ ms = <<Head(steering)>>
     /\ steering' = Tail(steering)
     /\ UNCHANGED followUp
  \/ /\ followUp # <<>>
     /\ ms = <<Head(followUp)>>
     /\ followUp' = Tail(followUp)
     /\ UNCHANGED steering

kept == <<session, steeringMessages, followUpMessages, handler, pendingBash,
          compacting, overflowRecoveryAttempted>>

Emission ==
  \E fresh, ms, ends \in Seq(Msgs) :
    /\ Own(fresh) /\ Polled(ms) /\ ends \in {<<>>, <<AgentEnd>>}
    /\ agentEventQueue' = (agentEventQueue \o (fresh \o ms)) \o ends
    /\ emitted' = emitted \o (fresh \o ms)
    /\ UNCHANGED kept

Quiet == UNCHANGED <<kept, steering, followUp, agentEventQueue, emitted, made>>

LEMMA EndType == AgentEnd \in Msgs /\ <<AgentEnd>> \in Seq(Msgs) /\ <<>> \in Seq(Msgs)
<1>1. AgentEnd \in Msgs
  BY DEF AgentEnd, Message, Msgs
<1> QED BY <1>1

LEMMA PairOf ==
  ASSUME NEW x \in Msgs, NEW y \in Msgs
  PROVE  <<x>> \o <<y>> = <<x, y>>
<1>1. <<x>> \in Seq(Msgs) /\ <<y>> \in Seq(Msgs) /\ <<x, y>> \in Seq(Msgs)
  OBVIOUS
<1>2. Len(<<x>> \o <<y>>) = 2 /\ Len(<<x, y>>) = 2
  BY <1>1, ConcatProperties
<1>3. \A i \in 1..2 : (<<x>> \o <<y>>)[i] = <<x, y>>[i]
  <2>1. (<<x>> \o <<y>>)[1] = x
    BY <1>1, ConcatProperties
  <2>2. (<<x>> \o <<y>>)[2] = y
    BY <1>1, ConcatProperties
  <2> QED BY <2>1, <2>2
<1> QED BY <1>1, <1>2, <1>3, ConcatProperties, SeqEqual

LEMMA OwnType ==
  ASSUME Typed, NEW kind \in Kinds, NEW big \in BOOLEAN, made' = made + 1
  PROVE  <<Made(kind, big)>> \in Seq(Msgs) /\ Own(<<Made(kind, big)>>)
<1>1. Made(kind, big) \in Msgs
  BY MessageType DEF Typed, Kinds
<1>2. <<Made(kind, big)>> \in Seq(Msgs)
  BY <1>1
<1>3. Own(<<Made(kind, big)>>)
  BY Zenon DEF Own
<1> QED BY <1>2, <1>3

(* A poll for steering messages.                                             *)
LEMMA DrainedPolls ==
  ASSUME Typed, UNCHANGED followUp,
         steering' = IF steering = <<>> THEN <<>> ELSE Tail(steering)
  PROVE  Drained(steering) \in Seq(Msgs) /\ Polled(Drained(steering))
<1>1. Drained(steering) \in Seq(Msgs)
  BY DrainedUsers DEF Typed
<1>2. Polled(Drained(steering))
  BY DEF Polled, Drained
<1> QED BY <1>1, <1>2

LEMMA EmissionOf ==
  ASSUME Typed, NEW fresh \in Seq(Msgs), NEW ms \in Seq(Msgs), Own(fresh), Polled(ms),
         agentEventQueue' = agentEventQueue \o (fresh \o ms),
         emitted' = emitted \o (fresh \o ms), UNCHANGED kept
  PROVE  Emission
<1>1. fresh \o ms \in Seq(Msgs)
  BY ConcatProperties
<1>2. agentEventQueue \o (fresh \o ms) \in Seq(Msgs)
  BY <1>1, ConcatProperties DEF Typed
<1>3. agentEventQueue' = (agentEventQueue \o (fresh \o ms)) \o <<>>
  BY <1>2, ConcatEmptySeq
<1> QED BY <1>3, EndType, Zenon DEF Emission

LEMMA EmissionAtEnd ==
  ASSUME Typed, NEW kind \in Replies, NEW big \in BOOLEAN, NEW k,
         End(<<Made(kind, big)>>, k), made' = made + 1,
         UNCHANGED <<kept, steering, followUp>>
  PROVE  Emission
<1> DEFINE m == <<Made(kind, big)>>
<1>1. m \in Seq(Msgs) /\ Own(m)
  BY OwnType DEF Kinds
<1>2. /\ agentEventQueue' = (agentEventQueue \o m) \o <<AgentEnd>>
      /\ emitted' = emitted \o m
  BY Zenon DEF End
<1>3. Polled(<<>>)
  BY DEF Polled
<1>4. m \o <<>> = m
  BY <1>1, ConcatEmptySeq
<1> HIDE DEF m
<1> QED BY <1>1, <1>2, <1>3, <1>4, EndType, Zenon DEF Emission

LEMMA AgentEmits == ASSUME Typed, AgentStep PROVE Emission
<1> USE DEF queues, retry, handling
<1>1. CASE RespondWithCall
  <2> DEFINE m == <<Made("call", FALSE)>>
  <2>1. /\ agentEventQueue' = agentEventQueue \o m /\ emitted' = emitted \o m
        /\ made' = made + 1 /\ UNCHANGED <<kept, steering, followUp>>
    BY <1>1, Zenon DEF RespondWithCall, EmitMessages, kept
  <2>2. m \in Seq(Msgs) /\ Own(m)
    BY <2>1, OwnType DEF Kinds, Replies
  <2>3. m \o <<>> = m /\ Polled(<<>>)
    BY <2>1, <2>2, ConcatEmptySeq DEF Polled
  <2> HIDE DEF m
  <2> QED BY <2>1, <2>2, <2>3, EmissionOf, EndType
<1>2. CASE FinishTools
  <2> DEFINE m == <<Made("result", FALSE)>>
             ms == Drained(steering)
  <2>1. /\ agentEventQueue' = agentEventQueue \o (m \o ms)
        /\ emitted' = emitted \o (m \o ms)
        /\ made' = made + 1 /\ UNCHANGED <<kept, followUp>>
        /\ steering' = IF steering = <<>> THEN <<>> ELSE Tail(steering)
    BY <1>2, Zenon DEF FinishTools, EmitMessages, kept
  <2>2. m \in Seq(Msgs) /\ Own(m)
    BY <2>1, OwnType DEF Kinds, Replies
  <2>3. ms \in Seq(Msgs) /\ Polled(ms)
    BY <2>1, DrainedPolls
  <2> HIDE DEF m, ms
  <2> QED BY <2>1, <2>2, <2>3, EmissionOf
<1>3. ASSUME NEW size \in Sizes, RespondWithAnswer(size) PROVE Emission
  <2>0. PICK k \in {"answer", "overlong"}, b \in BOOLEAN : AnswerOf(size) = Made(k, b)
    BY AnswerMade
  <2> DEFINE m == <<Made(k, b)>>
  <2>1. made' = made + 1 /\ UNCHANGED kept
    BY <1>3, Zenon DEF RespondWithAnswer, kept
  <2>2. m \in Seq(Msgs) /\ Own(m)
    BY <2>1, OwnType DEF Kinds, Replies
  <2>3. ASSUME NEW q \in Seq(UserMsgs), q # <<>>,
               EmitMessages(<<Made(k, b), Head(q)>>), Polled(<<Head(q)>>)
        PROVE  Emission
    <3>1. Head(q) \in Msgs
      BY <2>3, DrainedUsers
    <3>2. <<Head(q)>> \in Seq(Msgs) /\ m \o <<Head(q)>> = <<Made(k, b), Head(q)>>
      <4>1. Made(k, b) \in Msgs
        BY MessageType DEF Typed, Replies
      <4> QED BY <3>1, <4>1, PairOf
    <3>3. /\ agentEventQueue' = agentEventQueue \o (m \o <<Head(q)>>)
          /\ emitted' = emitted \o (m \o <<Head(q)>>)
      BY <2>3, <3>2, Zenon DEF EmitMessages
    <3> HIDE DEF m
    <3> QED BY <2>1, <2>2, <2>3, <3>2, <3>3, EmissionOf
  <2>4. CASE steering # <<>>
    <3>1. EmitMessages(<<Made(k, b), Head(steering)>>) /\ Polled(<<Head(steering)>>)
      BY <1>3, <2>0, <2>4, Zenon DEF RespondWithAnswer, Polled
    <3> QED BY <2>3, <2>4, <3>1 DEF Typed
  <2>5. CASE steering = <<>> /\ followUp # <<>>
    <3>1. EmitMessages(<<Made(k, b), Head(followUp)>>) /\ Polled(<<Head(followUp)>>)
      BY <1>3, <2>0, <2>5, Zenon DEF RespondWithAnswer, Polled
    <3> QED BY <2>3, <2>5, <3>1 DEF Typed
  <2>6. CASE steering = <<>> /\ followUp = <<>>
    <3>1. End(m, "answer") /\ UNCHANGED <<steering, followUp>>
      BY <1>3, <2>0, <2>6, Zenon DEF RespondWithAnswer
    <3> QED BY <2>1, <3>1, EmissionAtEnd DEF Replies
  <2> QED BY <2>4, <2>5, <2>6
<1>4. ASSUME NEW kind \in {"error", "failed", "overflow", "aborted"}, RespondWithFailure(kind)
      PROVE  Emission
  <2>1. /\ End(<<Made(kind, FALSE)>>, kind) /\ made' = made + 1
        /\ UNCHANGED <<kept, steering, followUp>>
    BY <1>4, Zenon DEF RespondWithFailure, kept
  <2> QED BY <2>1, EmissionAtEnd DEF Replies
<1> QED BY <1>1, <1>2, <1>3, <1>4 DEF AgentStep

LEMMA ThrowEmits ==
  ASSUME Typed, emitted \in Seq(Msgs), NEW kind, Throw(kind)
  PROVE  Emission
<1> USE DEF queues, handling
<1>1. /\ agentEventQueue' = Append(agentEventQueue, AgentEnd)
      /\ made' = made + 1 /\ UNCHANGED <<kept, steering, followUp, emitted>>
  BY Zenon DEF Throw, kept
<1>2. <<>> \o <<>> = <<>>
  OBVIOUS
<1>3. agentEventQueue' = (agentEventQueue \o <<>>) \o <<AgentEnd>>
  BY <1>1, EndType, AppendIsConcat, ConcatEmptySeq DEF Typed
<1>4. emitted' = emitted \o <<>>
  BY <1>1, ConcatEmptySeq
<1>5. Own(<<>>) /\ Polled(<<>>)
  BY <1>1 DEF Own, Polled
<1> QED BY <1>1, <1>2, <1>3, <1>4, <1>5, EndType, Zenon DEF Emission

LEMMA StartEmits ==
  ASSUME Typed, NEW prompts \in Seq(Msgs), Own(prompts), NEW o, Start(prompts, o),
         UNCHANGED kept
  PROVE  Emission
<1> DEFINE ms == Drained(steering)
<1>1. /\ agentEventQueue' = agentEventQueue \o (prompts \o ms)
      /\ emitted' = emitted \o (prompts \o ms)
      /\ UNCHANGED followUp
      /\ steering' = IF steering = <<>> THEN <<>> ELSE Tail(steering)
  BY Zenon DEF Start, EmitMessages
<1>2. ms \in Seq(Msgs) /\ Polled(ms)
  BY <1>1, DrainedPolls
<1> HIDE DEF ms
<1> QED BY <1>1, <1>2, EmissionOf

LEMMA StartFromQueueEmits ==
  ASSUME Typed, StartFromQueue, UNCHANGED <<kept, made>>
  PROVE  Emission
<1>1. ASSUME NEW q \in Seq(UserMsgs), q # <<>>, EmitMessages(Drained(q)),
             Polled(<<Head(q)>>)
      PROVE  Emission
  <2>1. Drained(q) = <<Head(q)>> /\ Drained(q) \in Seq(Msgs)
    BY <1>1, DrainedUsers DEF Drained
  <2>2. <<>> \o Drained(q) = Drained(q)
    BY <2>1, ConcatEmptySeq
  <2>3. /\ agentEventQueue' = agentEventQueue \o (<<>> \o Drained(q))
        /\ emitted' = emitted \o (<<>> \o Drained(q))
    BY <1>1, <2>2, Zenon DEF EmitMessages
  <2>4. Own(<<>>) /\ Polled(Drained(q))
    BY <1>1, <2>1 DEF Own
  <2> QED BY <2>1, <2>3, <2>4, EmissionOf, EndType
<1>2. CASE steering # <<>>
  <2>1. EmitMessages(Drained(steering)) /\ Polled(<<Head(steering)>>)
    BY <1>2, Zenon DEF StartFromQueue, Polled
  <2> QED BY <1>1, <1>2, <2>1 DEF Typed
<1>3. CASE steering = <<>>
  <2>1. /\ followUp # <<>> /\ EmitMessages(Drained(followUp))
        /\ Polled(<<Head(followUp)>>)
    BY <1>3, Zenon DEF StartFromQueue, Polled
  <2> QED BY <1>1, <2>1 DEF Typed
<1> QED BY <1>2, <1>3

LEMMA TimerEmits == ASSUME Typed, TimerFires PROVE Emission \/ Quiet
<1> USE DEF handling, retry
<1>1. UNCHANGED <<kept, made>>
  BY Zenon DEF TimerFires, kept
<1>2. CASE Start(<<>>, "none")
  <2>1. Own(<<>>)
    BY <1>1 DEF Own
  <2> QED BY <1>1, <1>2, <2>1, StartEmits, EndType
<1>3. CASE StartFromQueue
  BY <1>1, <1>3, StartFromQueueEmits
<1>4. CASE UNCHANGED agent
  BY <1>1, <1>4 DEF agent, Quiet
<1> QED BY <1>2, <1>3, <1>4, Zenon DEF TimerFires

LEMMA SendEmits == ASSUME Typed, NEW c, Send(c) PROVE Emission \/ Quiet
<1> USE DEF handling, retry
<1>1. UNCHANGED kept
  BY Zenon DEF Send, kept
<1>2. CASE Start(<<Made("user", FALSE)>>, c) /\ made' = made + 1
  <2> DEFINE m == <<Made("user", FALSE)>>
  <2>1. m \in Seq(Msgs) /\ Own(m)
    BY <1>2, OwnType DEF Kinds
  <2> HIDE DEF m
  <2> QED BY <1>1, <1>2, <2>1, StartEmits DEF m
<1>3. CASE UNCHANGED <<agent, made>>
  BY <1>1, <1>3 DEF agent, Quiet
<1> QED BY <1>2, <1>3, Zenon DEF Send

-----------------------------------------------------------------------------
(* What is stored, and the compactions under way                             *)

Reasons == {"none", "overflow", "threshold"}
Summaries == [kind : {"compaction"}, n : Nat, first : Nat, reason : Reasons,
              early : BOOLEAN, back : BOOLEAN]
Entries == Msgs \cup Summaries
BashMsgs == {m \in Msgs : m.kind = "bash"}
Compactions == [reason : Reasons, first : Nat, saved : BOOLEAN, early : BOOLEAN]

Stored ==
  /\ session \in Seq(Entries)
  /\ emitted \in Seq(Msgs)
  /\ pendingBash \in Seq(BashMsgs)
  /\ compacting \in [Actors -> Compactions]

LEMMA MsgsAreEntries ==
  /\ \A q \in Seq(Msgs) : q \in Seq(Entries)
  /\ \A q \in Seq(BashMsgs) : q \in Seq(Entries) /\ q \in Seq(Msgs)
<1>1. Msgs \subseteq Entries /\ BashMsgs \subseteq Entries /\ BashMsgs \subseteq Msgs
  BY DEF Entries, BashMsgs
<1> QED BY <1>1, SeqMonotonic

(* A set of numbers has a first one, and a set of positions a last one.      *)
LEMMA Smallest ==
  ASSUME NEW A \in SUBSET Nat, A # {}
  PROVE  \E k \in A : \A l \in A : k <= l
<1>1. PICK k \in A : \A l \in A : ~(<<l, k>> \in OpToRel(<, Nat))
  BY NatLessThanWellFounded, WFMin
<1>2. \A l \in A : k <= l
  <2> TAKE l \in A
  <2>1. l < k => <<l, k>> \in OpToRel(<, Nat)
    BY DEF OpToRel
  <2>2. ~(l < k)
    BY <1>1, <2>1, Zenon
  <2> QED BY <2>2
<1> QED BY <1>2

LEMMA HasLast ==
  ASSUME NEW n \in Nat, NEW A \in SUBSET (1..n), A # {}
  PROVE  \E i \in A : \A j \in A : j <= i
<1> DEFINE U == {k \in Nat : \A j \in A : j <= k}
<1>1. n \in U /\ U \subseteq Nat
  OBVIOUS
<1>2. PICK k \in U : \A l \in U : k <= l
  <2> HIDE DEF U
  <2> QED BY <1>1, Smallest, Zenon
<1>3. k \in A
  <2> SUFFICES ASSUME k \notin A PROVE FALSE
    OBVIOUS
  <2>1. \A j \in A : j <= k - 1
    OBVIOUS
  <2> PICK j \in A : TRUE
    OBVIOUS
  <2>2. k - 1 \in U
    BY <2>1
  <2> QED BY <1>2, <2>2
<1> QED BY <1>3

LEMMA LatestIsEntry ==
  ASSUME NEW s \in Seq(Entries), LatestCompaction(s) # 0
  PROVE  LatestCompaction(s) \in DOMAIN s /\ s[LatestCompaction(s)] \in Summaries
<1> DEFINE all == {i \in DOMAIN s : s[i].kind = "compaction"}
<1>1. all # {} /\ LatestCompaction(s) = CHOOSE i \in all : \A j \in all : j <= i
  BY DEF LatestCompaction
<1>2. \E i \in all : \A j \in all : j <= i
  <2>1. all \in SUBSET (1..Len(s)) /\ Len(s) \in Nat
    BY LenProperties
  <2> QED BY <1>1, <2>1, HasLast
<1>3. LatestCompaction(s) \in all
  BY <1>1, <1>2
<1>4. \A e \in Entries : e.kind = "compaction" => e \in Summaries
  BY DEF Entries, Msgs, Replies
<1> QED BY <1>3, <1>4

LEMMA CutPointType ==
  ASSUME NEW s \in Seq(Entries)
  PROVE  CutPoints(s) \subseteq Nat
<1> PICK c : c = LatestCompaction(s)
  OBVIOUS
<1>1. (IF c = 0 THEN 1 ELSE s[c].first) \in Nat
  BY LatestIsEntry DEF Summaries
<1>2. Len(s) \in Nat
  BY LenProperties
<1> QED BY <1>1, <1>2 DEF CutPoints

LEMMA BeginType ==
  ASSUME compacting \in [Actors -> Compactions], NEW a \in Actors,
         NEW reason \in {"overflow", "threshold"}, BeginCompaction(a, reason)
  PROVE  compacting' \in [Actors -> Compactions]
<1>1. NotCompacting \in Compactions
  BY DEF NotCompacting, Compactions, Reasons
<1>2. [NotCompacting EXCEPT !.reason = reason,
                            !.early = a # "handler" /\ Behind] \in Compactions
  BY DEF NotCompacting, Compactions, Reasons, Behind
<1> QED BY <1>2 DEF BeginCompaction

LEMMA CheckType ==
  ASSUME compacting \in [Actors -> Compactions], NEW a \in Actors,
         NEW m, NEW skip, NEW ms, NEW behind, CheckCompaction(a, m, skip, ms, behind)
  PROVE  compacting' \in [Actors -> Compactions]
<1>1. \/ \E reason \in {"overflow", "threshold"} : BeginCompaction(a, reason)
      \/ UNCHANGED compacting
  BY Zenon DEF CheckCompaction
<1> QED BY <1>1, BeginType

LEMMA ResetType ==
  ASSUME compacting \in [Actors -> Compactions], ResetRecovery
  PROVE  compacting' \in [Actors -> Compactions]
BY DEF ResetRecovery, Compactions

LEMMA HandlerIsActor == "handler" \in Actors /\ Callers \subseteq Actors
BY DEF Actors

-----------------------------------------------------------------------------
(* The steps that are not of the agent, as far as they touch what is stored  *)

stores == <<session, agentEventQueue, emitted, pendingBash>>

Hearing ==   \* a message is persisted
  /\ handler = "extensions"
  /\ session' = Append(session, Head(agentEventQueue))
  /\ agentEventQueue' = Tail(agentEventQueue)
  /\ UNCHANGED <<emitted, pendingBash>>
  /\ ResetRecovery \/ UNCHANGED compacting

Closing ==   \* the end of a run is handled
  /\ handler = "extensions"
  /\ Head(agentEventQueue).kind = "agent_end"
  /\ agentEventQueue' = Tail(agentEventQueue)
  /\ UNCHANGED <<session, emitted, pendingBash>>

Checks ==
  \/ UNCHANGED compacting
  \/ \E a \in Actors : \E m, skip, ms, behind : CheckCompaction(a, m, skip, ms, behind)

Recording ==   \* a bash result, at once or later, or those that waited
  /\ UNCHANGED <<agentEventQueue, emitted>>
  /\ \/ /\ session' = session \o pendingBash
        /\ pendingBash' = <<>>
     \/ /\ \/ /\ session' = Append(session, Made("bash", FALSE))
              /\ UNCHANGED pendingBash
           \/ /\ pendingBash' = Append(pendingBash, Made("bash", FALSE))
              /\ UNCHANGED session
        /\ UNCHANGED compacting

(* A summary is appended, whether or not it brings an answer back.           *)
Summarized(c) ==
  \E back \in BOOLEAN : session' = Append(session, Compacted(made + 1, c, back))

LEMMA SavedSummarizes ==
  ASSUME NEW a \in Actors, CompactionSaved(a)
  PROVE  Summarized(compacting[a])
<1> PICK back : back = BringsBack(messages')
  OBVIOUS
<1>1. back \in BOOLEAN
  BY DEF BringsBack
<1>2. session' = Append(session, Compacted(made + 1, compacting[a], back))
  BY Zenon DEF CompactionSaved
<1> QED BY <1>1, <1>2 DEF Summarized

Compacting(a) ==
  /\ UNCHANGED <<agentEventQueue, emitted, pendingBash>>
  /\ \/ /\ compacting' = [compacting EXCEPT ![a] = NotCompacting]
        /\ UNCHANGED session
     \/ /\ \E first \in CutPoints(session) :
             compacting' = [compacting EXCEPT ![a].first = first]
        /\ UNCHANGED session
     \/ /\ Summarized(compacting[a])
        /\ compacting' = [compacting EXCEPT ![a].saved = TRUE]

LEMMA StepsOfStores ==
  ASSUME Typed, emitted \in Seq(Msgs), [Next]_vars
  PROVE  \/ Emission
         \/ Hearing
         \/ Closing /\ Checks
         \/ Recording /\ Checks
         \/ \E a \in Actors : Compacting(a)
         \/ UNCHANGED stores /\ (Checks \/ ResetRecovery)
<1> USE DEF stores, queues, agent, retry, handling, Checks
<1>0. Quiet => UNCHANGED stores /\ UNCHANGED compacting
  BY Zenon DEF Quiet, kept
<1>1. CASE AgentStep
  BY <1>1, AgentEmits
<1>2. ASSUME NEW kind \in {"error", "failed"}, Throw(kind) PROVE Emission
  BY <1>2, ThrowEmits
<1>3. CASE SessionStep
  <2>1. CASE BeginEvent
    BY <2>1, Zenon DEF BeginEvent
  <2>2. CASE FinishMessage
    BY <2>2, Zenon DEF FinishMessage, Persist, Hearing
  <2>3. CASE FinishAgentEnd
    <3>1. Closing
      BY <2>3, Zenon DEF FinishAgentEnd, Closing
    <3>2. Checks
      BY <2>3, HandlerIsActor, Zenon DEF FinishAgentEnd, SleepBeforeRetry, GiveUp
    <3> QED BY <3>1, <3>2
  <2>4. CASE SleepOver
    BY <2>4, Zenon DEF SleepOver
  <2>5. CASE TimerFires
    BY <1>0, <2>5, TimerEmits
  <2> QED BY <1>3, <2>1, <2>2, <2>3, <2>4, <2>5 DEF SessionStep
<1>4. ASSUME NEW a \in Actors, CompactionStep(a)
      PROVE  Compacting(a) \/ (UNCHANGED stores /\ UNCHANGED compacting)
  <2>1. CASE CompactionPrepared(a)
    BY <2>1, Zenon DEF CompactionPrepared, Compacting
  <2>2. CASE CompactionSaved(a)
    BY <2>2, SavedSummarizes, Zenon DEF CompactionSaved, Compacting
  <2>3. CASE CompactionDone(a)
    BY <2>3, Zenon DEF CompactionDone, Compacting
  <2>4. CASE CompactionFails(a)
    BY <2>4, Zenon DEF CompactionFails, Compacting
  <2> QED BY <1>4, <2>1, <2>2, <2>3, <2>4, Zenon DEF CompactionStep
<1>5. ASSUME NEW c \in Callers, Prompt(c) PROVE Recording /\ Checks
  <2>1. Recording
    BY <1>5, Zenon DEF Prompt, Recording, Flushed
  <2>2. Checks
    BY <1>5, HandlerIsActor, Zenon DEF Prompt
  <2> QED BY <2>1, <2>2
<1>6. ASSUME NEW c \in Callers, Send(c)
      PROVE  Emission \/ (UNCHANGED stores /\ UNCHANGED compacting)
  BY <1>0, <1>6, SendEmits
<1>7. CASE \/ \E c \in Callers : Return(c)
           \/ QueueSteer \/ QueueFollowUp \/ ClearQueue \/ UNCHANGED vars
  BY <1>7, Zenon DEF Return, QueueSteer, QueueFollowUp, ClearQueue, vars
<1>8. CASE Abort
  <2>1. UNCHANGED stores
    BY <1>8, Zenon DEF Abort
  <2>2. Checks
    BY <1>8, HandlerIsActor, Zenon DEF Abort, GiveUp
  <2> QED BY <2>1, <2>2
<1>9. CASE RecordBashResult
  <2>1. Recording
    BY <1>9, Zenon DEF RecordBashResult, Recording
  <2>2. Checks
    BY <1>9, Zenon DEF RecordBashResult
  <2> QED BY <2>1, <2>2
<1> QED
  BY <1>1, <1>2, <1>3, <1>4, <1>5, <1>6, <1>7, <1>8, <1>9, Zenon
     DEF Next, CallerStep

SInv == Stored /\ PersistedInOrder

(* What an emission adds is the agent's, and of the right type.              *)
LEMMA EmittedType ==
  ASSUME Typed, NEW fresh \in Seq(Msgs), NEW ms \in Seq(Msgs), Own(fresh), Polled(ms)
  PROVE  /\ fresh \o ms \in Seq(Msgs)
         /\ \A i \in DOMAIN (fresh \o ms) : FromAgent((fresh \o ms)[i])
<1>1. fresh \o ms \in Seq(Msgs)
  BY ConcatProperties
<1>2. \A i \in DOMAIN fresh : FromAgent(fresh[i])
  <2>1. CASE fresh = <<>>
    BY <2>1
  <2>2. CASE \E kind \in Kinds, big \in BOOLEAN : fresh = <<Made(kind, big)>>
    <3> PICK kind \in Kinds, big \in BOOLEAN : fresh = <<Made(kind, big)>>
      BY <2>2
    <3>1. Made(kind, big).kind = kind /\ kind \notin {"compaction", "bash", "agent_end"}
      BY MessageType DEF Typed, Kinds, Replies
    <3> HIDE DEF Made
    <3> QED BY <3>1 DEF FromAgent
  <2> QED BY <2>1, <2>2 DEF Own
<1>3. \A i \in DOMAIN ms : FromAgent(ms[i])
  <2>1. CASE ms = <<>>
    BY <2>1
  <2>2. ASSUME NEW q \in Seq(UserMsgs), q # <<>>, ms = <<Head(q)>>
        PROVE  \A i \in DOMAIN ms : FromAgent(ms[i])
    <3>1. Head(q).kind = "user"
      BY <2>2, DrainedUsers
    <3> QED BY <2>2, <3>1 DEF FromAgent
  <2> QED BY <2>1, <2>2 DEF Polled, Typed
<1>4. ASSUME NEW i \in DOMAIN (fresh \o ms) PROVE FromAgent((fresh \o ms)[i])
  <2>1. i \in 1..(Len(fresh) + Len(ms))
    BY <1>1, ConcatProperties, LenProperties
  <2>2. CASE i <= Len(fresh)
    BY <1>2, <2>1, <2>2, ConcatProperties, LenProperties
  <2>3. CASE i > Len(fresh)
    <3>1. i - Len(fresh) \in DOMAIN ms
      BY <2>1, <2>3, LenProperties
    <3> QED BY <1>3, <2>1, <2>3, <3>1, ConcatProperties, LenProperties
  <2>4. i <= Len(fresh) \/ i > Len(fresh)
    BY <2>1, LenProperties
  <2> QED BY <2>2, <2>3, <2>4
<1> QED BY <1>1, <1>4

LEMMA EntriesJoin ==
  \A s, t, u \in Seq(Entries) : (s \o t) \o u = s \o (t \o u)
<1> TAKE s, t, u \in Seq(Entries)
<1> QED BY ConcatAssociative

(* Messages of the agent at the end of the queue, and what is not a message. *)
LEMMA GrowthPersists ==
  ASSUME Typed, SInv, NEW new \in Seq(Msgs), NEW ends \in Seq(Msgs),
         \A i \in DOMAIN new : FromAgent(new[i]),
         \A i \in DOMAIN ends : ~FromAgent(ends[i]),
         agentEventQueue' = (agentEventQueue \o new) \o ends,
         emitted' = emitted \o new,
         UNCHANGED kept
  PROVE  SInv'
<1>2. UNCHANGED <<session, pendingBash, compacting>>
  BY DEF kept
<1>3. Stored'
  BY <1>2, ConcatProperties DEF SInv, Stored
<1>4. /\ session \in Seq(Entries) /\ agentEventQueue \in Seq(Entries)
      /\ new \in Seq(Entries) /\ ends \in Seq(Entries) /\ emitted \in Seq(Msgs)
      /\ <<>> \in Seq(Entries)
  BY MsgsAreEntries, EmptySeq DEF SInv, Stored, Typed
<1>5. FilteredTo(session \o agentEventQueue, emitted)
  BY DEF SInv, PersistedInOrder
<1>6. FilteredTo(new, new)
  BY FilterOfMessages
<1>7. session \o agentEventQueue \in Seq(Entries)
  BY <1>4, ConcatProperties
<1>8. FilteredTo((session \o agentEventQueue) \o new, emitted \o new)
  BY <1>4, <1>5, <1>6, <1>7, FilterOfConcat
<1>10. PICK all : all = (session \o agentEventQueue) \o new
  OBVIOUS
<1>11. all \in Seq(Entries)
  BY <1>4, <1>7, <1>10, ConcatProperties
<1>12. FilteredTo(all \o <<>>, emitted \o new)
  BY <1>8, <1>10, <1>11, ConcatEmptySeq
<1>13. FilteredTo((all \o ends) \o <<>>, emitted \o new)
  BY <1>4, <1>11, <1>12, FilterIgnores
<1>14. all \o ends \in Seq(Entries)
  BY <1>4, <1>11, ConcatProperties
<1>15. FilteredTo(all \o ends, emitted \o new)
  BY <1>13, <1>14, ConcatEmptySeq
<1>16. all \o ends = session \o ((agentEventQueue \o new) \o ends)
  <2>1. session \in Seq(Entries)
    BY <1>4
  <2>2. \A t, u \in Seq(Entries) : (session \o t) \o u = session \o (t \o u)
    BY ONLY <2>1, EntriesJoin, Zenon
  <2>3. new \in Seq(Entries) /\ ends \in Seq(Entries) /\ agentEventQueue \in Seq(Entries)
    BY <1>4
  <2>4. agentEventQueue \o new \in Seq(Entries)
    BY ONLY <2>3, ConcatProperties
  <2>5. (session \o agentEventQueue) \o new = session \o (agentEventQueue \o new)
    BY ONLY <2>2, <2>3, Zenon
  <2>6. (session \o (agentEventQueue \o new)) \o ends = session \o ((agentEventQueue \o new) \o ends)
    BY ONLY <2>2, <2>3, <2>4, Zenon
  <2> QED BY ONLY <1>10, <2>5, <2>6, Zenon
<1>17. PersistedInOrder'
  BY <1>2, <1>15, <1>16 DEF PersistedInOrder
<1> QED BY <1>3, <1>17 DEF SInv

LEMMA EmissionPersists ==
  ASSUME Typed, SInv, Emission
  PROVE  SInv'
<1> PICK fresh \in Seq(Msgs), ms \in Seq(Msgs), ends \in Seq(Msgs) :
      /\ Own(fresh) /\ Polled(ms) /\ ends \in {<<>>, <<AgentEnd>>}
      /\ agentEventQueue' = (agentEventQueue \o (fresh \o ms)) \o ends
      /\ emitted' = emitted \o (fresh \o ms)
      /\ UNCHANGED kept
  BY Zenon DEF Emission
<1>1. /\ fresh \o ms \in Seq(Msgs)
      /\ \A i \in DOMAIN (fresh \o ms) : FromAgent((fresh \o ms)[i])
  BY EmittedType
<1>2. \A i \in DOMAIN ends : ~FromAgent(ends[i])
  BY DEF FromAgent, AgentEnd, Message
<1> QED BY <1>1, <1>2, GrowthPersists, Zenon

LEMMA HeadApart ==
  ASSUME NEW S, NEW q \in Seq(S), q # <<>>
  PROVE  <<Head(q)>> \o Tail(q) = q
<1>1. /\ Head(q) \in S /\ Tail(q) \in Seq(S) /\ Len(Tail(q)) = Len(q) - 1
      /\ \A i \in 1..Len(Tail(q)) : Tail(q)[i] = q[i + 1]
  BY HeadTailProperties
<1>2. <<Head(q)>> \in Seq(S) /\ Head(q) = q[1] /\ Len(q) \in Nat /\ Len(q) > 0
  BY <1>1, LenProperties
<1>3. /\ <<Head(q)>> \o Tail(q) \in Seq(S)
      /\ Len(<<Head(q)>> \o Tail(q)) = Len(q)
      /\ \A i \in 1..Len(q) : (<<Head(q)>> \o Tail(q))[i] = q[i]
  BY <1>1, <1>2, ConcatProperties
<1> QED BY <1>3, SeqEqual

(* An entry that is not the agent's is put between the session and the queue,*)
(* or left out of it.                                                        *)
LEMMA OtherEntries ==
  ASSUME Typed, SInv, NEW b \in Seq(Entries), \A i \in DOMAIN b : ~FromAgent(b[i]),
         session' = session \o b, UNCHANGED <<agentEventQueue, emitted>>
  PROVE  PersistedInOrder' /\ session' \in Seq(Entries)
<1>1. session \in Seq(Entries) /\ agentEventQueue \in Seq(Entries)
  BY MsgsAreEntries DEF SInv, Stored, Typed
<1>2. FilteredTo((session \o b) \o agentEventQueue, emitted)
  BY <1>1, FilterIgnores DEF SInv, PersistedInOrder
<1> QED BY <1>1, <1>2, ConcatProperties DEF PersistedInOrder

LEMMA HandlingPersists ==
  ASSUME Typed, InHand, SInv, Hearing \/ (Closing /\ Checks)
  PROVE  SInv'
<1> PICK e : e = Head(agentEventQueue)
  OBVIOUS
<1> PICK q : q = Tail(agentEventQueue)
  OBVIOUS
<1>1. agentEventQueue # <<>>
  BY DEF InHand, Hearing, Closing
<1>2. e \in Msgs /\ q \in Seq(Msgs) /\ <<e>> \o q = agentEventQueue
  BY <1>1, HeadTailProperties, HeadApart DEF Typed
<1>3. /\ session \in Seq(Entries) /\ q \in Seq(Entries) /\ e \in Entries
      /\ <<e>> \in Seq(Entries)
  BY <1>2, MsgsAreEntries DEF SInv, Stored, Entries
<1>4. (session \o <<e>>) \o q = session \o agentEventQueue
  BY <1>2, <1>3, ConcatAssociative
<1>5. FilteredTo((session \o <<e>>) \o q, emitted)
  BY <1>4 DEF SInv, PersistedInOrder
<1>6. CASE Hearing
  <2>1. session' = session \o <<e>> /\ agentEventQueue' = q /\ UNCHANGED emitted
    BY <1>3, <1>6, AppendIsConcat DEF Hearing
  <2>2. PersistedInOrder'
    BY <1>5, <2>1 DEF PersistedInOrder
  <2>3. compacting' \in [Actors -> Compactions]
    BY <1>6, ResetType DEF Hearing, SInv, Stored
  <2>4. session' \in Seq(Entries)
    BY <1>3, <2>1, ConcatProperties
  <2> QED BY <1>6, <2>2, <2>3, <2>4 DEF SInv, Stored, Hearing
<1>7. CASE Closing /\ Checks
  <2>1. /\ session' = session /\ agentEventQueue' = q /\ e.kind = "agent_end"
        /\ UNCHANGED <<emitted, pendingBash>>
    BY <1>7 DEF Closing
  <2>2. \A i \in DOMAIN <<e>> : ~FromAgent(<<e>>[i])
    BY <2>1 DEF FromAgent
  <2>3. FilteredTo(session \o q, emitted)
    BY <1>3, <1>5, <2>2, FilterIgnores
  <2>4. compacting' \in [Actors -> Compactions]
    BY <1>7, CheckType DEF Checks, SInv, Stored
  <2> QED BY <2>1, <2>3, <2>4 DEF SInv, Stored, PersistedInOrder
<1> QED BY <1>6, <1>7

LEMMA RecordingPersists ==
  ASSUME Typed, SInv, Recording, Checks
  PROVE  SInv'
<1>0. /\ session \in Seq(Entries) /\ emitted \in Seq(Msgs)
      /\ pendingBash \in Seq(BashMsgs) /\ compacting \in [Actors -> Compactions]
  BY DEF SInv, Stored
<1>1. compacting' \in [Actors -> Compactions]
  BY <1>0, CheckType DEF Checks
<1> PICK m : m = Made("bash", FALSE)
  OBVIOUS
<1>2. m \in BashMsgs /\ m \in Entries /\ ~FromAgent(m)
  BY MessageType DEF Typed, BashMsgs, Entries, FromAgent
<1>3. CASE session' = session \o pendingBash /\ pendingBash' = <<>>
  <2>1. \A i \in DOMAIN pendingBash : ~FromAgent(pendingBash[i])
    BY <1>0, ElementOfSeq, LenProperties DEF BashMsgs, FromAgent
  <2>2. PersistedInOrder' /\ session' \in Seq(Entries)
    BY <1>0, <1>3, <2>1, OtherEntries, MsgsAreEntries DEF Recording
  <2>3. <<>> \in Seq(BashMsgs)
    BY EmptySeq
  <2> QED BY <1>0, <1>1, <1>3, <2>2, <2>3 DEF SInv, Stored, Recording
<1>4. CASE session' = Append(session, m) /\ UNCHANGED pendingBash
  <2>1. session' = session \o <<m>>
    BY <1>0, <1>2, <1>4, AppendIsConcat, Zenon
  <2>2. <<m>> \in Seq(Entries) /\ \A i \in DOMAIN <<m>> : ~FromAgent(<<m>>[i])
    <3> HIDE DEF Made
    <3>1. ASSUME NEW x \in Entries, ~FromAgent(x)
          PROVE  <<x>> \in Seq(Entries) /\ \A i \in DOMAIN <<x>> : ~FromAgent(<<x>>[i])
      BY <3>1
    <3> QED BY <1>2, <3>1, Zenon
  <2>3. PersistedInOrder' /\ session' \in Seq(Entries)
    BY <2>1, <2>2, OtherEntries DEF Recording
  <2> QED BY <1>0, <1>1, <1>4, <2>3 DEF SInv, Stored, Recording
<1>5. CASE pendingBash' = Append(pendingBash, m) /\ UNCHANGED session
  <2>1. pendingBash' \in Seq(BashMsgs)
    BY <1>0, <1>2, <1>5, AppendProperties
  <2> QED
    BY <1>0, <1>1, <1>5, <2>1 DEF SInv, Stored, Recording, PersistedInOrder
<1> QED BY <1>3, <1>4, <1>5 DEF Recording

LEMMA CompactingPersists ==
  ASSUME Typed, SInv, NEW a \in Actors, Compacting(a)
  PROVE  SInv'
<1>0. session \in Seq(Entries) /\ compacting \in [Actors -> Compactions]
  BY DEF SInv, Stored
<1>1. UNCHANGED <<agentEventQueue, emitted, pendingBash>>
  BY DEF Compacting
<1>2. CASE UNCHANGED session
  <2>1. NotCompacting \in Compactions
    BY DEF NotCompacting, Compactions, Reasons
  <2>2. CutPoints(session) \subseteq Nat
    BY <1>0, CutPointType
  <2>3. \A first \in Nat :
          [compacting EXCEPT ![a].first = first] \in [Actors -> Compactions]
    BY <1>0 DEF Compactions
  <2>4. [compacting EXCEPT ![a].saved = TRUE] \in [Actors -> Compactions]
    BY <1>0 DEF Compactions
  <2>5. compacting' \in [Actors -> Compactions]
    BY <1>0, <2>1, <2>2, <2>3, <2>4 DEF Compacting
  <2> QED BY <1>1, <1>2, <2>5 DEF SInv, Stored, PersistedInOrder
<1>3. CASE /\ Summarized(compacting[a])
           /\ compacting' = [compacting EXCEPT ![a].saved = TRUE]
  <2> PICK back \in BOOLEAN :
        session' = Append(session, Compacted(made + 1, compacting[a], back))
    BY <1>3 DEF Summarized
  <2> PICK e : e = Compacted(made + 1, compacting[a], back)
    OBVIOUS
  <2>1. e \in Summaries /\ e.kind = "compaction"
    BY <1>0 DEF Compacted, Summaries, Compactions, Typed
  <2>2. e \in Entries /\ <<e>> \in Seq(Entries) /\ session' = session \o <<e>>
    BY <1>0, <1>3, <2>1, AppendIsConcat DEF Entries
  <2>3. \A i \in DOMAIN <<e>> : ~FromAgent(<<e>>[i])
    BY <2>1 DEF FromAgent
  <2>4. PersistedInOrder' /\ session' \in Seq(Entries)
    BY <1>1, <2>2, <2>3, OtherEntries
  <2>5. compacting' \in [Actors -> Compactions]
    BY <1>0, <1>3 DEF Compactions
  <2> QED BY <1>1, <2>4, <2>5 DEF SInv, Stored
<1> QED BY <1>2, <1>3 DEF Compacting

LEMMA SInit == Init => SInv
<1> SUFFICES ASSUME Init PROVE SInv
  OBVIOUS
<1>1. NotCompacting \in Compactions
  BY DEF NotCompacting, Compactions, Reasons
<1>2. Stored
  BY <1>1, EmptySeq DEF Init, Stored
<1>3. session = <<>> /\ agentEventQueue = <<>> /\ emitted = <<>>
  BY DEF Init
<1>4. session \o agentEventQueue = <<>>
  BY <1>3
<1>5. FilteredTo(<<>>, <<>>)
  <2>1. <<>> \in Seq(Msgs) /\ \A i \in DOMAIN <<>> : FromAgent(<<>>[i])
    BY EmptySeq
  <2> QED BY <2>1, FilterOfMessages
<1> QED BY <1>2, <1>3, <1>4, <1>5 DEF SInv, PersistedInOrder

LEMMA SNext == IInv /\ SInv /\ [Next]_vars => SInv'
<1> SUFFICES ASSUME IInv, SInv, [Next]_vars PROVE SInv'
  OBVIOUS
<1>1. Typed /\ InHand /\ emitted \in Seq(Msgs)
  BY DEF IInv, SInv, Stored
<1>2. CASE UNCHANGED stores /\ (Checks \/ ResetRecovery)
  <2>1. compacting' \in [Actors -> Compactions]
    BY <1>2, CheckType, ResetType DEF Checks, SInv, Stored
  <2> QED BY <1>2, <2>1 DEF stores, SInv, Stored, PersistedInOrder
<1> QED
  BY <1>1, <1>2, StepsOfStores, EmissionPersists, HandlingPersists,
     RecordingPersists, CompactingPersists, Zenon

(* The session and the events it has still to handle hold the messages the   *)
(* agent emitted, each once and in that order, whatever callers, retries and *)
(* compactions put between them (agent-session.ts 437-452 and 513-531).      *)
THEOREM Persisted == Spec => []PersistedInOrder
<1>1. IInv /\ SInv => PersistedInOrder
  BY DEF SInv
<1>2. Init => IInv /\ SInv
  BY InitInv, SInit
<1>3. (IInv /\ SInv) /\ [Next]_vars => (IInv /\ SInv)'
  BY NextInv, SNext
<1> QED BY <1>1, <1>2, <1>3, PTL DEF Spec

-----------------------------------------------------------------------------
(* Recovery from an overflow                                                 *)

Resets == {"user", "call", "answer", "overlong", "aborted"}

(* A recovery since which the flag was not reset.                            *)
Open(s) ==
  \E i \in DOMAIN s :
    Recovery(s[i]) /\ \A k \in (i + 1)..Len(s) : s[k].kind \notin Resets

Once(s) ==
  \A i, j \in DOMAIN s :
    i < j /\ Recovery(s[i]) /\ Recovery(s[j])
    => \E k \in (i + 1)..(j - 1) : s[k].kind \in Resets

(* A recovery under way that will be on record.                              *)
Pending(a) ==
  compacting[a].reason = "overflow" /\ ~compacting[a].early /\ ~compacting[a].saved

(* The flag was reset for a user message that is not persisted yet.          *)
ResetAhead == handler = "extensions" /\ Head(agentEventQueue).kind = "user"

RInv ==
  /\ Once(session)
  /\ Open(session) => overflowRecoveryAttempted \/ ResetAhead
  /\ \A a \in Actors : Pending(a) => overflowRecoveryAttempted /\ ~Open(session)
  /\ \A a, b \in Actors : Pending(a) /\ Pending(b) => a = b
  /\ compacting["handler"] # NotCompacting => handler # "extensions"

LEMMA OthersOnRecord ==
  ASSUME NEW s \in Seq(Entries), NEW b \in Seq(Entries),
         \A i \in DOMAIN b : ~Recovery(b[i])
  PROVE  /\ Once(s) => Once(s \o b)
         /\ Open(s \o b) => Open(s) /\ \A i \in DOMAIN b : b[i].kind \notin Resets
<1> PICK n \in Nat : n = Len(s)
  BY LenProperties
<1> PICK m \in Nat : m = Len(b)
  BY LenProperties
<1> PICK sb : sb = s \o b
  OBVIOUS
<1>1. Len(sb) = n + m /\ DOMAIN sb = 1..(n + m) /\ DOMAIN s = 1..n /\ DOMAIN b = 1..m
  BY ConcatProperties, LenProperties
<1>2. \A i \in 1..n : sb[i] = s[i]
  BY ConcatProperties
<1>3. \A i \in 1..m : sb[n + i] = b[i]
  BY ConcatProperties
<1>4. \A i \in 1..(n + m) : Recovery(sb[i]) => i \in 1..n
  <2> SUFFICES ASSUME NEW i \in 1..(n + m), i > n PROVE ~Recovery(sb[i])
    OBVIOUS
  <2>1. i - n \in 1..m /\ n + (i - n) = i
    OBVIOUS
  <2>2. sb[i] = b[i - n]
    BY <1>3, <2>1
  <2> QED BY <1>1, <2>1, <2>2
<1>5. ASSUME Once(s) PROVE Once(sb)
  <2> SUFFICES ASSUME NEW i \in 1..(n + m), NEW j \in 1..(n + m), i < j,
                      Recovery(sb[i]), Recovery(sb[j])
               PROVE  \E k \in (i + 1)..(j - 1) : sb[k].kind \in Resets
    BY <1>1 DEF Once
  <2>1. i \in 1..n /\ j \in 1..n /\ sb[i] = s[i] /\ sb[j] = s[j]
    BY <1>2, <1>4
  <2>2. PICK k \in (i + 1)..(j - 1) : s[k].kind \in Resets
    BY <1>1, <1>5, <2>1 DEF Once
  <2>3. sb[k] = s[k]
    BY <1>2, <2>1
  <2> QED BY <2>2, <2>3
<1>6. ASSUME Open(sb)
      PROVE  Open(s) /\ \A i \in 1..m : b[i].kind \notin Resets
  <2>1. PICK i \in 1..(n + m) :
          Recovery(sb[i]) /\ \A k \in (i + 1)..(n + m) : sb[k].kind \notin Resets
    BY <1>1, <1>6 DEF Open
  <2>2. i \in 1..n /\ sb[i] = s[i]
    BY <1>2, <1>4, <2>1
  <2>3. \A k \in (i + 1)..n : s[k].kind \notin Resets
    BY <1>2, <2>1, <2>2
  <2>4. \A k \in 1..m : n + k \in (i + 1)..(n + m) /\ sb[n + k] = b[k]
    BY <1>3, <2>2
  <2>5. \A k \in 1..m : b[k].kind \notin Resets
    BY <2>1, <2>4
  <2>6. Open(s)
    BY <1>1, <2>1, <2>2, <2>3 DEF Open
  <2> QED BY <2>5, <2>6
<1> QED BY <1>1, <1>5, <1>6

LEMMA OneMore ==
  ASSUME NEW s \in Seq(Entries), NEW e \in Entries, Once(s), ~Open(s)
  PROVE  Once(Append(s, e))
<1> PICK n \in Nat : n = Len(s)
  BY LenProperties
<1> PICK se : se = Append(s, e)
  OBVIOUS
<1>1. /\ Len(se) = n + 1 /\ DOMAIN se = 1..(n + 1) /\ DOMAIN s = 1..n
      /\ \A i \in 1..n : se[i] = s[i]
  BY AppendProperties, LenProperties
<1> SUFFICES ASSUME NEW i \in 1..(n + 1), NEW j \in 1..(n + 1), i < j,
                    Recovery(se[i]), Recovery(se[j])
             PROVE  \E k \in (i + 1)..(j - 1) : se[k].kind \in Resets
  BY <1>1 DEF Once
<1>2. i \in 1..n /\ se[i] = s[i]
  BY <1>1
<1>3. CASE j \in 1..n
  <2>1. PICK k \in (i + 1)..(j - 1) : s[k].kind \in Resets
    BY <1>1, <1>2, <1>3 DEF Once
  <2> QED BY <1>1, <1>2, <1>3, <2>1
<1>4. CASE j = n + 1
  <2>1. PICK k \in (i + 1)..n : s[k].kind \in Resets
    BY <1>1, <1>2 DEF Open
  <2> QED BY <1>1, <1>2, <1>4, <2>1
<1> QED BY <1>3, <1>4

(* Entries that are no recoveries change nothing unless they reset the flag. *)
LEMMA RecordsKeep ==
  ASSUME NEW b \in Seq(Entries), session \in Seq(Entries), session' = session \o b,
         \A i \in DOMAIN b : ~Recovery(b[i])
  PROVE  /\ Once(session) => Once(session')
         /\ Open(session') => Open(session)
         /\ Open(session') => \A i \in DOMAIN b : b[i].kind \notin Resets
<1>1. /\ Once(session) => Once(session \o b)
      /\ Open(session \o b) =>
           Open(session) /\ \A i \in DOMAIN b : b[i].kind \notin Resets
  BY OthersOnRecord
<1> QED BY <1>1

-----------------------------------------------------------------------------
(* The steps, as far as they touch a recovery                                *)

recovery == <<overflowRecoveryAttempted, compacting>>

(* A recovery begins, or a compaction over the threshold.                    *)
Begins(a) ==
  \/ /\ ~overflowRecoveryAttempted
     /\ overflowRecoveryAttempted'
     /\ BeginCompaction(a, "overflow")
  \/ /\ UNCHANGED overflowRecoveryAttempted
     /\ BeginCompaction(a, "threshold")
  \/ UNCHANGED recovery

LEMMA CheckBegins ==
  ASSUME NEW a, NEW m, NEW skip, NEW ms, NEW behind,
         CheckCompaction(a, m, skip, ms, behind)
  PROVE  Begins(a)
BY Zenon DEF CheckCompaction, Begins, recovery

Starting ==     \* an event is given to the extensions
  /\ ~HandlerBusy
  /\ handler' = "extensions"
  /\ UNCHANGED <<session, agentEventQueue>>
  /\ IF Head(agentEventQueue).kind = "user"
     THEN ResetRecovery ELSE UNCHANGED recovery

Finishing ==    \* its message is persisted
  LET e == Head(agentEventQueue) IN
  /\ handler = "extensions"
  /\ handler' = "ready"
  /\ session' = Append(session, e)
  /\ IF IsAssistant(e) /\ ~IsError(e)
     THEN ResetRecovery ELSE UNCHANGED recovery

HandlerChecks ==     \* the end of a run, or an abort during the sleep
  /\ UNCHANGED session
  /\ \/ handler = "sleeping"
     \/ handler = "extensions" /\ Head(agentEventQueue).kind = "agent_end"
  /\ \/ handler' = "ready" /\ Begins("handler")
     \/ handler' \in {"ready", "sleeping"} /\ UNCHANGED recovery

CallerChecks(c) ==
  /\ UNCHANGED <<handler, agentEventQueue>>
  /\ session' = session \o pendingBash
  /\ Begins(c)

Compresses(a) ==
  /\ UNCHANGED <<handler, agentEventQueue, overflowRecoveryAttempted>>
  /\ compacting[a] # NotCompacting
  /\ \/ /\ UNCHANGED session
        /\ \/ compacting' = [compacting EXCEPT ![a] = NotCompacting]
           \/ \E first \in CutPoints(session) :
                compacting' = [compacting EXCEPT ![a].first = first]
     \/ /\ ~compacting[a].saved
        /\ Summarized(compacting[a])
        /\ compacting' = [compacting EXCEPT ![a].saved = TRUE]

LEMMA StepsOfRecovery ==
  ASSUME Typed, Stored, [Next]_vars
  PROVE  \/ Emission
         \/ Starting
         \/ Finishing
         \/ HandlerChecks
         \/ \E c \in Callers : CallerChecks(c)
         \/ \E a \in Actors : Compresses(a)
         \/ /\ UNCHANGED <<handler, agentEventQueue, recovery>>
            /\ \/ UNCHANGED session
               \/ session' = Append(session, Made("bash", FALSE))
         \/ /\ handler = "sleeping" /\ handler' = "ready"
            /\ UNCHANGED <<session, agentEventQueue, recovery>>
<1> USE DEF queues, agent, retry, handling, recovery
<1>0. Quiet => UNCHANGED <<handler, agentEventQueue, recovery, session>>
  BY Zenon DEF Quiet, kept
<1>1. CASE AgentStep
  BY <1>1, AgentEmits
<1>2. ASSUME NEW kind \in {"error", "failed"}, Throw(kind) PROVE Emission
  BY <1>2, ThrowEmits DEF Stored
<1>3. CASE BeginEvent
  BY <1>3, Zenon DEF BeginEvent, Starting
<1>4. CASE FinishMessage
  <2>1. /\ handler = "extensions" /\ handler' = "ready"
        /\ Persist(Head(agentEventQueue))
    BY <1>4, Zenon DEF FinishMessage
  <2> QED BY <2>1, Zenon DEF Persist, Finishing
<1>5. CASE FinishAgentEnd
  <2>1. /\ UNCHANGED session
        /\ handler = "extensions" /\ Head(agentEventQueue).kind = "agent_end"
    BY <1>5, Zenon DEF FinishAgentEnd
  <2>2. \/ handler' = "ready" /\ Begins("handler")
        \/ handler' \in {"ready", "sleeping"} /\ UNCHANGED recovery
    <3>1. ASSUME NEW m, NEW events, NEW last, GiveUp(m, events, last)
          PROVE  handler' = "ready" /\ Begins("handler")
      BY <3>1, CheckBegins, Zenon DEF GiveUp
    <3>2. \/ handler' \in {"ready", "sleeping"} /\ UNCHANGED recovery
          \/ \E m, events, last : GiveUp(m, events, last)
      BY <1>5, Zenon DEF FinishAgentEnd, SleepBeforeRetry
    <3> QED BY <3>1, <3>2
  <2> QED BY <2>1, <2>2 DEF HandlerChecks
<1>6. CASE SleepOver
  BY <1>6, Zenon DEF SleepOver
<1>7. CASE TimerFires
  BY <1>0, <1>7, TimerEmits
<1>8. ASSUME NEW a \in Actors, CompactionStep(a)
      PROVE  \/ Compresses(a)
             \/ UNCHANGED <<handler, agentEventQueue, recovery, session>>
  <2>1. CASE CompactionPrepared(a)
    BY <2>1, Zenon DEF CompactionPrepared, Compresses
  <2>2. CASE CompactionSaved(a)
    <3>1. compacting[a].first # 0 /\ NotCompacting.first = 0
      BY <2>2, Zenon DEF CompactionSaved, NotCompacting
    <3>2. compacting[a] # NotCompacting
      BY <3>1
    <3> QED BY <2>2, <3>2, SavedSummarizes, Zenon DEF CompactionSaved, Compresses
  <2>3. CASE CompactionDone(a)
    <3>1. compacting[a].saved /\ NotCompacting.saved = FALSE
      BY <2>3, Zenon DEF CompactionDone, NotCompacting
    <3>2. compacting[a] # NotCompacting
      BY <3>1
    <3> QED BY <2>3, <3>2, Zenon DEF CompactionDone, Compresses
  <2>4. CASE CompactionFails(a)
    BY <2>4, Zenon DEF CompactionFails, Compresses
  <2> QED BY <1>8, <2>1, <2>2, <2>3, <2>4, Zenon DEF CompactionStep
<1>9. ASSUME NEW c \in Callers, Prompt(c) PROVE CallerChecks(c)
  <2>1. UNCHANGED <<handler, agentEventQueue>> /\ session' = session \o pendingBash
    BY <1>9, Zenon DEF Prompt, Flushed
  <2>2. Begins(c)
    <3>1. \/ UNCHANGED recovery
          \/ \E m, skip, ms, behind : CheckCompaction(c, m, skip, ms, behind)
      BY <1>9, Zenon DEF Prompt
    <3> QED BY <3>1, CheckBegins, Zenon DEF Begins
  <2> QED BY <2>1, <2>2 DEF CallerChecks
<1>10. ASSUME NEW c \in Callers, Send(c)
       PROVE  Emission \/ UNCHANGED <<handler, agentEventQueue, recovery, session>>
  BY <1>0, <1>10, SendEmits
<1>11. CASE \/ \E c \in Callers : Return(c)
            \/ QueueSteer \/ QueueFollowUp \/ ClearQueue \/ UNCHANGED vars
  BY <1>11, Zenon DEF Return, QueueSteer, QueueFollowUp, ClearQueue, vars
<1>12. CASE Abort
  <2>1. UNCHANGED <<session, agentEventQueue>>
    BY <1>12, Zenon DEF Abort
  <2>2. CASE handler = "sleeping" /\ GiveUp(handled, agentEventQueue, lastAssistant)
    <3>1. handler' = "ready" /\ Begins("handler")
      BY <2>2, CheckBegins, Zenon DEF GiveUp
    <3> QED BY <2>1, <2>2, <3>1 DEF HandlerChecks
  <2>3. CASE UNCHANGED <<handler, recovery>>
    BY <2>1, <2>3
  <2> QED BY <1>12, <2>2, <2>3, Zenon DEF Abort
<1>13. CASE RecordBashResult
  BY <1>13, Zenon DEF RecordBashResult
<1> QED
  BY <1>1, <1>2, <1>3, <1>4, <1>5, <1>6, <1>7, <1>8, <1>9, <1>10, <1>11, <1>12,
     <1>13, Zenon DEF Next, SessionStep, CallerStep

LEMMA ResetEndsPending ==
  ASSUME Stored, compacting["handler"] = NotCompacting, ResetRecovery
  PROVE  \A a \in Actors : ~Pending(a)'
<1> SUFFICES ASSUME NEW a \in Actors PROVE ~Pending(a)'
  OBVIOUS
<1>1. compacting \in [Actors -> Compactions]
  BY DEF Stored
<1>2. compacting'[a] = IF a # "handler" /\ compacting[a].reason = "overflow"
                       THEN [compacting[a] EXCEPT !.early = TRUE] ELSE compacting[a]
  BY DEF ResetRecovery
<1>3. NotCompacting.reason # "overflow"
  BY DEF NotCompacting
<1> QED BY <1>1, <1>2, <1>3 DEF Pending, Compactions

(* A recovery that begins is the only one, unless it is early.               *)
LEMMA BeginKeeps ==
  ASSUME Stored, RInv, NEW a \in Actors, Begins(a),
         a # "handler" => (ResetAhead => Behind),
         a = "handler" => ~ResetAhead,
         Open(session') => Open(session)
  PROVE  /\ overflowRecoveryAttempted => overflowRecoveryAttempted'
         /\ \A b \in Actors :
              Pending(b)' => overflowRecoveryAttempted' /\ ~Open(session')
         /\ \A b, c \in Actors : Pending(b)' /\ Pending(c)' => b = c
<1> USE DEF recovery
<1>0. compacting \in [Actors -> Compactions]
  BY DEF Stored
<1>1. CASE UNCHANGED recovery
  <2>1. \A b : Pending(b)' <=> Pending(b)
    BY <1>1 DEF Pending
  <2> QED BY <1>1, <2>1 DEF RInv
<1>2. ASSUME NEW reason, BeginCompaction(a, reason)
      PROVE  /\ \A b \in Actors : b # a => (Pending(b)' <=> Pending(b))
             /\ compacting'[a].reason = reason
             /\ compacting'[a].early = (a # "handler" /\ Behind)
  BY <1>0, <1>2 DEF BeginCompaction, Pending, NotCompacting, Behind
<1>3. CASE UNCHANGED overflowRecoveryAttempted /\ BeginCompaction(a, "threshold")
  <2>1. ~Pending(a)'
    BY <1>2, <1>3 DEF Pending
  <2> QED BY <1>2, <1>3, <2>1 DEF RInv
<1>4. CASE /\ ~overflowRecoveryAttempted /\ overflowRecoveryAttempted'
           /\ BeginCompaction(a, "overflow")
  <2>1. \A b \in Actors : ~Pending(b)
    BY <1>4 DEF RInv
  <2>2. Pending(a)' => ~ResetAhead
    BY <1>2, <1>4 DEF Pending
  <2>3. Pending(a)' => ~Open(session')
    BY <1>4, <2>2 DEF RInv
  <2> QED BY <1>2, <1>4, <2>1, <2>3
<1> QED BY <1>1, <1>3, <1>4 DEF Begins

LEMMA NotRecoveries ==
  /\ \A e \in Msgs : ~Recovery(e)
  /\ \A q \in Seq(Msgs) : \A i \in DOMAIN q : ~Recovery(q[i])
<1>1. \A e \in Msgs : ~Recovery(e)
  BY DEF Msgs, Recovery, IsMessage, Replies
<1> QED BY <1>1, ElementOfSeq, LenProperties

LEMMA FinishingRecovers ==
  ASSUME Typed, InHand, Stored, RInv, Finishing
  PROVE  RInv'
<1> PICK e : e = Head(agentEventQueue)
  OBVIOUS
<1>1. e \in Msgs
  BY HeadTailProperties DEF Typed, InHand, Finishing
<1>2. /\ handler = "extensions" /\ handler' = "ready" /\ session' = Append(session, e)
      /\ IF IsAssistant(e) /\ ~IsError(e)
         THEN ResetRecovery ELSE UNCHANGED recovery
  BY DEF Finishing
<1>3. session \in Seq(Entries) /\ e \in Entries /\ <<e>> \in Seq(Entries)
  BY <1>1 DEF Stored, Entries
<1>4. session' = session \o <<e>>
  BY <1>2, <1>3, AppendIsConcat
<1>5. \A i \in DOMAIN <<e>> : ~Recovery(<<e>>[i])
  BY <1>1, NotRecoveries
<1>6. /\ Once(session) => Once(session')
      /\ Open(session') => Open(session)
      /\ Open(session') => \A i \in DOMAIN <<e>> : <<e>>[i].kind \notin Resets
  BY <1>3, <1>4, <1>5, RecordsKeep
<1>7. Open(session') => e.kind \notin Resets
  BY <1>6
<1>8. compacting["handler"] = NotCompacting
  BY <1>2 DEF RInv
<1>9. ~ResetAhead' /\ handler' # "extensions"
  BY <1>2 DEF ResetAhead
<1>10. CASE IsAssistant(e) /\ ~IsError(e)
  <2>1. e.kind \in Resets
    BY <1>10 DEF IsAssistant, IsError, Replies, Resets
  <2>2. \A a \in Actors : ~Pending(a)'
    BY <1>2, <1>8, <1>10, ResetEndsPending
  <2> QED BY <1>6, <1>7, <1>9, <2>1, <2>2 DEF RInv
<1>11. CASE UNCHANGED recovery
  <2>1. \A a : Pending(a)' <=> Pending(a)
    BY <1>11 DEF Pending, recovery
  <2>2. ResetAhead => e.kind = "user"
    BY DEF ResetAhead
  <2>3. Open(session') => overflowRecoveryAttempted'
    BY <1>6, <1>7, <1>11, <2>2 DEF RInv, recovery, Resets
  <2> QED BY <1>6, <1>9, <1>11, <2>1, <2>3 DEF RInv, recovery
<1> QED BY <1>2, <1>10, <1>11

LEMMA StartingRecovers ==
  ASSUME Stored, RInv, Starting
  PROVE  RInv'
<1>1. /\ handler = "ready" /\ handler' = "extensions" /\ compacting["handler"] = NotCompacting
      /\ UNCHANGED <<session, agentEventQueue>>
  BY DEF Starting, HandlerBusy
<1>2. ~ResetAhead
  BY <1>1 DEF ResetAhead
<1>3. CASE Head(agentEventQueue).kind = "user" /\ ResetRecovery
  <2>1. ResetAhead'
    BY <1>1, <1>3 DEF ResetAhead
  <2>2. \A a \in Actors : ~Pending(a)'
    BY <1>1, <1>3, ResetEndsPending
  <2>3. compacting'["handler"] = NotCompacting
    BY <1>1, <1>3, HandlerIsActor DEF ResetRecovery
  <2> QED BY <1>1, <2>1, <2>2, <2>3 DEF RInv
<1>4. CASE UNCHANGED recovery
  <2>1. \A a : Pending(a)' <=> Pending(a)
    BY <1>4 DEF Pending, recovery
  <2> QED BY <1>1, <1>2, <1>4, <2>1 DEF RInv, recovery
<1> QED BY <1>3, <1>4 DEF Starting

LEMMA HandlerRecovers ==
  ASSUME Stored, RInv, HandlerChecks
  PROVE  RInv'
<1>1. UNCHANGED session /\ ~ResetAhead /\ handler' # "extensions" /\ ~ResetAhead'
  BY DEF HandlerChecks, ResetAhead
<1>2. Begins("handler")
  BY DEF HandlerChecks, Begins
<1>3. /\ overflowRecoveryAttempted => overflowRecoveryAttempted'
      /\ \A b \in Actors :
           Pending(b)' => overflowRecoveryAttempted' /\ ~Open(session')
      /\ \A b, c \in Actors : Pending(b)' /\ Pending(c)' => b = c
  BY <1>1, <1>2, BeginKeeps, HandlerIsActor
<1> QED BY <1>1, <1>3 DEF RInv

LEMMA CallerRecovers ==
  ASSUME Typed, InHand, Stored, RInv, NEW c \in Callers, CallerChecks(c)
  PROVE  RInv'
<1>1. UNCHANGED <<handler, agentEventQueue>> /\ session' = session \o pendingBash /\ Begins(c)
  BY DEF CallerChecks
<1>2. session \in Seq(Entries) /\ pendingBash \in Seq(Entries) /\ pendingBash \in Seq(Msgs)
  BY MsgsAreEntries DEF Stored
<1>3. \A i \in DOMAIN pendingBash : ~Recovery(pendingBash[i])
  BY <1>2, NotRecoveries
<1>4. (Once(session) => Once(session')) /\ (Open(session') => Open(session))
  BY <1>1, <1>2, <1>3, RecordsKeep
<1>5. ResetAhead => Behind
  <2> SUFFICES ASSUME ResetAhead PROVE Behind
    OBVIOUS
  <2>1. 1 \in DOMAIN agentEventQueue /\ Head(agentEventQueue) = agentEventQueue[1]
    BY LenProperties DEF InHand, ResetAhead, Typed
  <2> QED BY <2>1 DEF ResetAhead, Behind
<1>6. c # "handler" /\ c \in Actors
  BY SessionAssumption DEF Actors
<1>7. /\ overflowRecoveryAttempted => overflowRecoveryAttempted'
      /\ \A a \in Actors :
           Pending(a)' => overflowRecoveryAttempted' /\ ~Open(session')
      /\ \A a, b \in Actors : Pending(a)' /\ Pending(b)' => a = b
  BY <1>1, <1>4, <1>5, <1>6, BeginKeeps
<1>8. compacting'["handler"] = compacting["handler"]
  BY <1>1, <1>6, HandlerIsActor DEF Begins, BeginCompaction, recovery, Stored
<1>9. ResetAhead' <=> ResetAhead
  BY <1>1 DEF ResetAhead
<1> QED BY <1>1, <1>4, <1>7, <1>8, <1>9 DEF RInv

LEMMA CompressRecovers ==
  ASSUME Typed, Stored, RInv, NEW a \in Actors, Compresses(a)
  PROVE  RInv'
<1> PICK c : c = compacting[a]
  OBVIOUS
<1>0. /\ compacting \in [Actors -> Compactions] /\ session \in Seq(Entries)
      /\ c \in Compactions
  BY DEF Stored
<1>1. /\ UNCHANGED <<handler, agentEventQueue, overflowRecoveryAttempted>>
      /\ c # NotCompacting
  BY DEF Compresses
<1>2. ResetAhead' <=> ResetAhead
  BY <1>1 DEF ResetAhead
<1>3. compacting'["handler"] # NotCompacting => handler' # "extensions"
  <2>1. compacting["handler"] = NotCompacting => compacting'["handler"] = NotCompacting
    BY <1>0, <1>1, HandlerIsActor DEF Compresses
  <2> QED BY <1>1, <2>1 DEF RInv
<1>4. \A b \in Actors : Pending(b)' => Pending(b)
  <2>1. NotCompacting.reason # "overflow"
    BY DEF NotCompacting
  <2> QED BY <1>0, <2>1 DEF Compresses, Pending, Compactions
<1>5. CASE UNCHANGED session
  BY <1>1, <1>2, <1>3, <1>4, <1>5 DEF RInv
<1>6. CASE /\ ~c.saved
           /\ Summarized(c)
           /\ compacting' = [compacting EXCEPT ![a].saved = TRUE]
  <2> PICK back \in BOOLEAN : session' = Append(session, Compacted(made + 1, c, back))
    BY <1>6 DEF Summarized
  <2> PICK e : e = Compacted(made + 1, c, back)
    OBVIOUS
  <2>1. e \in Entries /\ e.kind = "compaction" /\ (Recovery(e) => Pending(a))
    BY <1>0, <1>6 DEF Compacted, Recovery, IsMessage, Pending, Entries, Summaries,
                      Compactions, Typed
  <2>2. session' = session \o <<e>> /\ <<e>> \in Seq(Entries)
    BY <1>0, <1>6, <2>1, AppendIsConcat
  <2>3. ~Pending(a)'
    BY <1>0, <1>6 DEF Pending, Compactions
  <2>4. CASE ~Recovery(e)
    <3>1. \A i \in DOMAIN <<e>> : ~Recovery(<<e>>[i])
      BY <2>4
    <3>2. (Once(session) => Once(session')) /\ (Open(session') => Open(session))
      BY <1>0, <2>2, <3>1, RecordsKeep
    <3> QED BY <1>1, <1>2, <1>3, <1>4, <3>2 DEF RInv
  <2>5. CASE Recovery(e)
    <3>1. Pending(a) /\ ~Open(session) /\ overflowRecoveryAttempted
      BY <2>1, <2>5 DEF RInv
    <3>2. Once(session')
      BY <1>0, <1>6, <2>1, <3>1, OneMore DEF RInv
    <3>3. \A b \in Actors : ~Pending(b)'
      BY <1>4, <2>3, <3>1 DEF RInv
    <3> QED BY <1>1, <1>3, <3>1, <3>2, <3>3 DEF RInv
  <2> QED BY <2>4, <2>5
<1> QED BY <1>5, <1>6 DEF Compresses

LEMMA EmissionRecovers ==
  ASSUME Typed, InHand, RInv, Emission
  PROVE  RInv'
<1> PICK fresh \in Seq(Msgs), ms \in Seq(Msgs), ends \in Seq(Msgs) :
      /\ agentEventQueue' = (agentEventQueue \o (fresh \o ms)) \o ends
      /\ UNCHANGED kept
  BY Zenon DEF Emission
<1>1. UNCHANGED <<session, handler, compacting, overflowRecoveryAttempted>>
  BY DEF kept
<1>2. agentEventQueue # <<>> => Head(agentEventQueue') = Head(agentEventQueue)
  <2> SUFFICES ASSUME agentEventQueue # <<>>
               PROVE  Head(agentEventQueue') = Head(agentEventQueue)
    OBVIOUS
  <2> PICK q \in Seq(Msgs) : q = agentEventQueue \o (fresh \o ms)
    BY ConcatProperties DEF Typed
  <2>1. q # <<>> /\ Head(q) = Head(agentEventQueue)
    BY ConcatProperties, LenProperties DEF Typed
  <2>2. Head(q \o ends) = Head(q)
    BY <2>1, ConcatProperties, LenProperties
  <2> QED BY <2>1, <2>2
<1>3. ResetAhead' <=> ResetAhead
  BY <1>1, <1>2 DEF ResetAhead, InHand
<1>4. \A a : Pending(a)' <=> Pending(a)
  BY <1>1 DEF Pending
<1> QED BY <1>1, <1>3, <1>4 DEF RInv

LEMMA RInit == Init => RInv
<1> SUFFICES ASSUME Init PROVE RInv
  OBVIOUS
<1>1. \A a \in Actors : ~Pending(a)
  BY DEF Init, Pending, NotCompacting
<1>2. session = <<>> /\ ~Open(session) /\ Once(session)
  BY DEF Init, Open, Once
<1>3. handler # "extensions"
  BY DEF Init
<1> QED BY <1>1, <1>2, <1>3 DEF RInv

LEMMA RNext == IInv /\ SInv /\ RInv /\ [Next]_vars => RInv'
<1> SUFFICES ASSUME IInv, SInv, RInv, [Next]_vars PROVE RInv'
  OBVIOUS
<1>1. Typed /\ InHand /\ Stored
  BY DEF IInv, SInv
<1>2. CASE /\ UNCHANGED <<handler, agentEventQueue, recovery>>
           /\ \/ UNCHANGED session
              \/ session' = Append(session, Made("bash", FALSE))
  <2>1. (\A a : Pending(a)' <=> Pending(a)) /\ (ResetAhead' <=> ResetAhead)
    BY <1>2 DEF Pending, ResetAhead, recovery
  <2>2. (Once(session) => Once(session')) /\ (Open(session') => Open(session))
    <3>1. CASE UNCHANGED session
      BY <3>1
    <3>2. CASE session' = Append(session, Made("bash", FALSE))
      <4>1. Made("bash", FALSE) \in Msgs
        BY <1>1, MessageType DEF Typed
      <4>2. ASSUME NEW e \in Msgs, session' = Append(session, e)
            PROVE  (Once(session) => Once(session')) /\ (Open(session') => Open(session))
        <5>1. session \in Seq(Entries) /\ <<e>> \in Seq(Entries) /\ session' = session \o <<e>>
          BY <1>1, <4>2, AppendIsConcat DEF Entries, Stored
        <5>2. \A i \in DOMAIN <<e>> : ~Recovery(<<e>>[i])
          BY NotRecoveries
        <5> QED BY <5>1, <5>2, RecordsKeep
      <4> QED BY <3>2, <4>1, <4>2, Zenon
    <3> QED BY <1>2, <3>1, <3>2
  <2> QED BY <1>2, <2>1, <2>2 DEF RInv, recovery
<1>3. CASE /\ handler = "sleeping" /\ handler' = "ready"
           /\ UNCHANGED <<session, agentEventQueue, recovery>>
  <2>1. (\A a : Pending(a)' <=> Pending(a)) /\ ~ResetAhead'  /\ ~ResetAhead
    BY <1>3 DEF Pending, ResetAhead, recovery
  <2> QED BY <1>3, <2>1 DEF RInv, recovery
<1> QED
  BY <1>1, <1>2, <1>3, StepsOfRecovery, EmissionRecovers, StartingRecovers,
     FinishingRecovers, HandlerRecovers, CallerRecovers, CompressRecovers, Zenon

(* Between two recoveries from an overflow on record there is a user message *)
(* or a successful answer, unless prompt() began one of them while the        *)
(* session was behind (agent-session.ts 1766-1779).                          *)
THEOREM RecoveredOnce == Spec => []RecoversOnce
<1>1. IInv /\ SInv /\ RInv => RecoversOnce
  BY DEF RInv, Once, RecoversOnce, Resets
<1>2. Init => IInv /\ SInv /\ RInv
  BY InitInv, SInit, RInit
<1>3. (IInv /\ SInv /\ RInv) /\ [Next]_vars => (IInv /\ SInv /\ RInv)'
  BY NextInv, SNext, RNext
<1> QED BY <1>1, <1>2, <1>3, PTL DEF Spec

-----------------------------------------------------------------------------
(* The elements of a queue                                                   *)

LEMMA SetOfConcat ==
  ASSUME NEW S, NEW s \in Seq(S), NEW t \in Seq(S)
  PROVE  ToSet(s \o t) = ToSet(s) \cup ToSet(t)
<1> PICK n \in Nat : n = Len(s)
  BY LenProperties
<1> PICK m \in Nat : m = Len(t)
  BY LenProperties
<1>1. DOMAIN s = 1..n /\ DOMAIN t = 1..m /\ DOMAIN (s \o t) = 1..(n + m)
  BY ConcatProperties, LenProperties
<1>2. \A i \in 1..n : (s \o t)[i] = s[i]
  BY ConcatProperties
<1>3. ASSUME NEW i \in 1..m PROVE n + i \in 1..(n + m) /\ (s \o t)[n + i] = t[i]
  BY ConcatProperties
<1>4. ASSUME NEW x \in ToSet(s) PROVE x \in ToSet(s \o t)
  BY <1>1, <1>2 DEF ToSet
<1>5. ASSUME NEW x \in ToSet(t) PROVE x \in ToSet(s \o t)
  <2> PICK i \in 1..m : x = t[i]
    BY <1>1 DEF ToSet
  <2> QED BY <1>1, <1>3 DEF ToSet
<1>6. ASSUME NEW x \in ToSet(s \o t) PROVE x \in ToSet(s) \/ x \in ToSet(t)
  <2> PICK i \in 1..(n + m) : x = (s \o t)[i]
    BY <1>1 DEF ToSet
  <2>1. CASE i <= n
    BY <1>1, <1>2, <2>1 DEF ToSet
  <2>2. CASE i > n
    <3>1. i - n \in 1..m /\ n + (i - n) = i
      BY <2>2
    <3> QED BY <1>1, <1>3, <3>1 DEF ToSet
  <2> QED BY <2>1, <2>2
<1> QED BY <1>4, <1>5, <1>6

LEMMA SetOfOne == \A x : ToSet(<<x>>) = {x}
BY DEF ToSet

LEMMA SetOfNone == ToSet(<<>>) = {} /\ IsInjective(<<>>)
BY DEF ToSet, IsInjective

LEMMA SetOfTail ==
  ASSUME NEW S, NEW q \in Seq(S), q # <<>>
  PROVE  /\ ToSet(q) = {Head(q)} \cup ToSet(Tail(q))
         /\ IsInjective(q) => IsInjective(Tail(q)) /\ Head(q) \notin ToSet(Tail(q))
<1> PICK n \in Nat : n = Len(q)
  BY LenProperties
<1>1. /\ n > 0 /\ Head(q) = q[1] /\ DOMAIN q = 1..n /\ DOMAIN Tail(q) = 1..(n - 1)
      /\ \A i \in 1..(n - 1) : Tail(q)[i] = q[i + 1]
  BY HeadTailProperties, LenProperties
<1>2. ToSet(q) = {Head(q)} \cup ToSet(Tail(q))
  <2>1. ASSUME NEW x \in ToSet(q) PROVE x = Head(q) \/ x \in ToSet(Tail(q))
    <3> PICK i \in 1..n : x = q[i]
      BY <1>1 DEF ToSet
    <3>1. CASE i = 1
      BY <1>1, <3>1
    <3>2. CASE i > 1
      <4>1. i - 1 \in 1..(n - 1) /\ (i - 1) + 1 = i
        BY <3>2
      <4> QED BY <1>1, <4>1 DEF ToSet
    <3> QED BY <3>1, <3>2
  <2>2. ASSUME NEW x \in ToSet(Tail(q)) PROVE x \in ToSet(q)
    <3> PICK i \in 1..(n - 1) : x = Tail(q)[i]
      BY <1>1 DEF ToSet
    <3>1. i + 1 \in 1..n
      BY <1>1
    <3> QED BY <1>1, <3>1 DEF ToSet
  <2>3. Head(q) \in ToSet(q)
    BY <1>1 DEF ToSet
  <2> QED BY <2>1, <2>2, <2>3
<1>3. ASSUME IsInjective(q)
      PROVE  IsInjective(Tail(q)) /\ Head(q) \notin ToSet(Tail(q))
  <2>1. \A i, j \in 1..n : q[i] = q[j] => i = j
    BY <1>1, <1>3 DEF IsInjective
  <2>2. \A i \in 1..(n - 1) : i + 1 \in 1..n /\ i + 1 # 1
    BY <1>1
  <2>3. \A i, j \in 1..(n - 1) : i + 1 = j + 1 => i = j
    OBVIOUS
  <2>4. IsInjective(Tail(q))
    BY <1>1, <2>1, <2>2, <2>3 DEF IsInjective
  <2>5. Head(q) \notin ToSet(Tail(q))
    BY <1>1, <2>1, <2>2 DEF ToSet
  <2> QED BY <2>4, <2>5
<1> QED BY <1>2, <1>3

LEMMA SetOfAppend ==
  ASSUME NEW S, NEW q \in Seq(S), NEW m \in S
  PROVE  /\ ToSet(Append(q, m)) = ToSet(q) \cup {m}
         /\ IsInjective(q) /\ m \notin ToSet(q) => IsInjective(Append(q, m))
<1> PICK n \in Nat : n = Len(q)
  BY LenProperties
<1> PICK r : r = Append(q, m)
  OBVIOUS
<1>1. /\ DOMAIN q = 1..n /\ DOMAIN r = 1..(n + 1) /\ r[n + 1] = m
      /\ \A i \in 1..n : r[i] = q[i]
  BY AppendProperties, LenProperties
<1>2. ToSet(r) = ToSet(q) \cup {m}
  BY <1>1 DEF ToSet
<1>3. ASSUME IsInjective(q), m \notin ToSet(q) PROVE IsInjective(r)
  <2> SUFFICES ASSUME NEW i \in 1..(n + 1), NEW j \in 1..(n + 1), r[i] = r[j]
               PROVE  i = j
    BY <1>1 DEF IsInjective
  <2>1. CASE i \in 1..n /\ j \in 1..n
    BY <1>1, <1>3, <2>1 DEF IsInjective
  <2>2. CASE i = n + 1 /\ j = n + 1
    BY <2>2
  <2>3. CASE i = n + 1 /\ j \in 1..n
    BY <1>1, <1>3, <2>3 DEF ToSet
  <2>4. CASE j = n + 1 /\ i \in 1..n
    BY <1>1, <1>3, <2>4 DEF ToSet
  <2> QED BY <2>1, <2>2, <2>3, <2>4
<1> QED BY <1>2, <1>3

(* indexOf and splice.                                                       *)
LEMMA SetWithoutFirst ==
  ASSUME NEW S, NEW q \in Seq(S), IsInjective(q), NEW m
  PROVE  /\ RemoveFirst(q, m) \in Seq(S)
         /\ IsInjective(RemoveFirst(q, m))
         /\ ToSet(RemoveFirst(q, m)) = ToSet(q) \ {m}
<1> PICK n \in Nat : n = Len(q)
  BY LenProperties
<1>0. DOMAIN q = 1..n /\ \A i \in 1..n : q[i] \in S
  BY LenProperties, ElementOfSeq
<1>1. CASE m \notin ToSet(q)
  <2>1. ~ \E i \in 1..Len(q) : q[i] = m
    BY <1>0, <1>1 DEF ToSet
  <2>2. RemoveFirst(q, m) = q
    BY <2>1, Zenon DEF RemoveFirst
  <2> QED BY <1>1, <2>2
<1>2. CASE m \in ToSet(q)
  <2> PICK k \in 1..n : q[k] = m
    BY <1>0, <1>2 DEF ToSet
  <2>1. \A i \in 1..n : q[i] = m <=> i = k
    BY <1>0 DEF IsInjective
  <2>2. SelectInSeq(q, LAMBDA v : v = m) = k
    <3> DEFINE I == {i \in 1..Len(q) : q[i] = m}
    <3>1. I = {k}
      BY <2>1
    <3>2. Min(I) = k
      BY <3>1 DEF Min
    <3> QED BY <3>1, <3>2 DEF SelectInSeq
  <2> DEFINE a == SubSeq(q, 1, k - 1)
             b == SubSeq(q, k + 1, n)
             r == a \o b
  <2>3. RemoveFirst(q, m) = r
    BY <2>2 DEF RemoveFirst, RemoveAt
  <2>4. /\ a \in Seq(S) /\ Len(a) = k - 1
        /\ \A i \in 1..(k - 1) : a[i] = q[i]
    BY <1>0, SubSeqProperties
  <2>5. /\ b \in Seq(S) /\ Len(b) = n - k
        /\ \A i \in 1..(n - k) : b[i] = q[k + i]
    <3>1. \A i \in (k + 1)..n : q[i] \in S
      BY <1>0
    <3>2. /\ b \in Seq(S) /\ Len(b) = IF k + 1 <= n THEN n - (k + 1) + 1 ELSE 0
          /\ \A i \in 1..(n - (k + 1) + 1) : b[i] = q[(k + 1) + i - 1]
      BY <3>1, SubSeqProperties
    <3>3. n - (k + 1) + 1 = n - k /\ \A i \in 1..(n - k) : (k + 1) + i - 1 = k + i
      OBVIOUS
    <3> QED BY <3>2, <3>3
  <2> HIDE DEF a, b
  <2>6. /\ r \in Seq(S) /\ DOMAIN r = 1..(n - 1)
        /\ \A i \in 1..(n - 1) : r[i] = IF i <= k - 1 THEN a[i] ELSE b[i - (k - 1)]
    <3>0. /\ r \in Seq(S) /\ Len(r) = Len(a) + Len(b)
          /\ \A i \in 1..(Len(a) + Len(b)) :
               r[i] = IF i <= Len(a) THEN a[i] ELSE b[i - Len(a)]
      BY <2>4, <2>5, ConcatProperties, Zenon
    <3>1. /\ r \in Seq(S) /\ Len(r) = (k - 1) + (n - k)
          /\ \A i \in 1..((k - 1) + (n - k)) :
               r[i] = IF i <= k - 1 THEN a[i] ELSE b[i - (k - 1)]
      <4> HIDE DEF r
      <4> QED BY <2>4, <2>5, <3>0
    <3>2. (k - 1) + (n - k) = n - 1
      OBVIOUS
    <3> HIDE DEF r
    <3> QED BY <3>1, <3>2, LenProperties
  <2>7. \A i \in 1..(n - 1) : r[i] = IF i < k THEN q[i] ELSE q[i + 1]
    <3> TAKE i \in 1..(n - 1)
    <3>1. CASE i < k
      BY <2>4, <2>6, <3>1
    <3>2. CASE i >= k
      <4>1. i - (k - 1) \in 1..(n - k) /\ k + (i - (k - 1)) = i + 1
        BY <3>2
      <4> QED BY <2>5, <2>6, <3>2, <4>1
    <3>3. i < k \/ i >= k
      OBVIOUS
    <3> QED BY <3>1, <3>2, <3>3, Zenon
  <2> HIDE DEF r
  <2>8. IsInjective(r)
    <3> SUFFICES ASSUME NEW i \in 1..(n - 1), NEW j \in 1..(n - 1), r[i] = r[j]
                 PROVE  i = j
      BY <2>6 DEF IsInjective
    <3> DEFINE at(l) == IF l < k THEN l ELSE l + 1
    <3>1. at(i) \in 1..n /\ at(j) \in 1..n /\ r[i] = q[at(i)] /\ r[j] = q[at(j)]
      BY <2>7
    <3>2. at(i) = at(j)
      BY <1>0, <3>1 DEF IsInjective
    <3> QED BY <3>2
  <2>9. ToSet(r) = ToSet(q) \ {m}
    <3>1. ASSUME NEW x \in ToSet(r) PROVE x \in ToSet(q) /\ x # m
      <4> PICK i \in 1..(n - 1) : x = r[i]
        BY <2>6 DEF ToSet
      <4> PICK j \in 1..n : j = IF i < k THEN i ELSE i + 1
        OBVIOUS
      <4>1. x = q[j] /\ j # k
        BY <2>7
      <4> QED BY <1>0, <2>1, <4>1 DEF ToSet
    <3>2. ASSUME NEW x \in ToSet(q), x # m PROVE x \in ToSet(r)
      <4> PICK i \in 1..n : x = q[i] /\ i # k
        BY <1>0, <3>2 DEF ToSet
      <4>1. CASE i < k
        <5>1. i \in 1..(n - 1) /\ r[i] = x
          BY <2>7, <4>1
        <5> QED BY <2>6, <5>1 DEF ToSet
      <4>2. CASE i > k
        <5>1. i - 1 \in 1..(n - 1) /\ ~(i - 1 < k) /\ (i - 1) + 1 = i
          BY <4>2
        <5>2. r[i - 1] = x
          BY <2>7, <5>1
        <5> QED BY <2>6, <5>1, <5>2 DEF ToSet
      <4> QED BY <4>1, <4>2
    <3> QED BY <3>1, <3>2
  <2> QED BY <2>3, <2>6, <2>8, <2>9
<1> QED BY <1>1, <1>2

-----------------------------------------------------------------------------
(* The queues and their copies                                               *)

(* No message is in two places it could be taken from, or to come.           *)
Apart ==
  /\ steeringMessages \in Seq(UserMsgs) /\ followUpMessages \in Seq(UserMsgs)
  /\ IsInjective(steering) /\ IsInjective(followUp)
  /\ IsInjective(steeringMessages) /\ IsInjective(followUpMessages)
  /\ ToSet(steering) \cap ToSet(followUp) = {}
  /\ ToSet(steeringMessages) \cap ToSet(followUpMessages) = {}
  /\ (ToSet(steering) \cup ToSet(followUp)) \cap ToSet(agentEventQueue) = {}

Known ==
  \A m \in ToSet(steering) \cup ToSet(followUp) \cup ToSet(agentEventQueue)
             \cup ToSet(steeringMessages) \cup ToSet(followUpMessages) :
    m.n <= made

(* A user message given to the extensions is no longer shown as queued.      *)
Announced ==
  ResetAhead => Head(agentEventQueue) \notin
                  ToSet(steeringMessages) \cup ToSet(followUpMessages)

Agree ==
  /\ ToSet(steering) \subseteq ToSet(steeringMessages)
  /\ ToSet(followUp) \subseteq ToSet(followUpMessages)
  /\ ToSet(steeringMessages) \subseteq ToSet(steering) \cup ToSet(agentEventQueue)
  /\ ToSet(followUpMessages) \subseteq ToSet(followUp) \cup ToSet(agentEventQueue)

QInv == Apart /\ Known /\ Announced /\ Agree

LEMMA AgreeMeans == Agree => QueuesAgree
<1>1. \A m : m \in ToSet(agentEventQueue) => InFlight(m)
  BY DEF ToSet, InFlight
<1> QED BY <1>1 DEF Agree, QueuesAgree

-----------------------------------------------------------------------------
copies == <<steeringMessages, followUpMessages>>

Beginning ==     \* the start of a user message
  LET e == Head(agentEventQueue) IN
  /\ UNCHANGED <<steering, followUp, agentEventQueue, made>>
  /\ agentEventQueue # <<>>
  /\ handler' = "extensions"
  /\ \/ /\ e.kind = "user"
        /\ IF Contains(steeringMessages, e)
           THEN /\ steeringMessages' = RemoveFirst(steeringMessages, e)
                /\ UNCHANGED followUpMessages
           ELSE /\ followUpMessages' = RemoveFirst(followUpMessages, e)
                /\ UNCHANGED steeringMessages
     \/ e.kind # "user" /\ UNCHANGED copies

Taking ==        \* an event is handled
  /\ UNCHANGED <<steering, followUp, copies, made>>
  /\ handler = "extensions"
  /\ handler' # "extensions"
  /\ agentEventQueue' = Tail(agentEventQueue)

Queueing ==
  LET m == Made("user", FALSE) IN
  /\ UNCHANGED <<agentEventQueue, handler>>
  /\ made' = made + 1
  /\ \/ /\ steering' = Append(steering, m)
        /\ steeringMessages' = Append(steeringMessages, m)
        /\ UNCHANGED <<followUp, followUpMessages>>
     \/ /\ followUp' = Append(followUp, m)
        /\ followUpMessages' = Append(followUpMessages, m)
        /\ UNCHANGED <<steering, steeringMessages>>

Clearing ==
  /\ UNCHANGED <<agentEventQueue, handler, made>>
  /\ steering' = <<>> /\ followUp' = <<>>
  /\ steeringMessages' = <<>> /\ followUpMessages' = <<>>

Passing ==       \* nothing is queued, delivered or shown
  /\ UNCHANGED <<steering, followUp, agentEventQueue, copies>>
  /\ made' \in {made, made + 1}
  /\ handler' = handler \/ handler' # "extensions"

LEMMA StepsOfQueues ==
  ASSUME Typed, Stored, [Next]_vars
  PROVE  Emission \/ Beginning \/ Taking \/ Queueing \/ Clearing \/ Passing
<1> USE DEF queues, agent, retry, handling, copies
<1>0. Quiet => Passing
  BY Zenon DEF Quiet, kept, Passing
<1>1. CASE AgentStep
  BY <1>1, AgentEmits
<1>2. ASSUME NEW kind \in {"error", "failed"}, Throw(kind) PROVE Emission
  BY <1>2, ThrowEmits DEF Stored
<1>3. CASE BeginEvent
  BY <1>3, Zenon DEF BeginEvent, Beginning
<1>4. CASE FinishMessage
  BY <1>4 DEF FinishMessage, Taking
<1>5. CASE FinishAgentEnd
  <2>1. /\ UNCHANGED <<steering, followUp, copies, made>>
        /\ handler = "extensions" /\ agentEventQueue' = Tail(agentEventQueue)
    BY <1>5, Zenon DEF FinishAgentEnd
  <2>2. handler' \in {"ready", "sleeping"}
    BY <1>5, Zenon DEF FinishAgentEnd, SleepBeforeRetry, GiveUp
  <2> QED BY <2>1, <2>2 DEF Taking
<1>6. CASE SleepOver
  <2>1. handler' = "ready" /\ UNCHANGED <<queues, agentEventQueue, made>>
    BY <1>6, Zenon DEF SleepOver
  <2> QED BY <2>1 DEF Passing
<1>7. CASE TimerFires
  BY <1>0, <1>7, TimerEmits
<1>8. ASSUME NEW a \in Actors, CompactionStep(a) PROVE Passing
  <2>1. /\ UNCHANGED <<handler, queues, agentEventQueue>>
        /\ made' = made \/ made' = made + 1
    <3>1. CASE CompactionPrepared(a)
      BY <3>1, Zenon DEF CompactionPrepared
    <3>2. CASE CompactionSaved(a)
      BY <3>2, Zenon DEF CompactionSaved
    <3>3. CASE CompactionDone(a)
      BY <3>3, Zenon DEF CompactionDone
    <3>4. CASE CompactionFails(a)
      BY <3>4, Zenon DEF CompactionFails
    <3> QED BY <1>8, <3>1, <3>2, <3>3, <3>4, Zenon DEF CompactionStep
  <2> QED BY <2>1 DEF Passing
<1>9. ASSUME NEW c \in Callers, Prompt(c) PROVE Passing
  <2>1. UNCHANGED <<handler, queues, agentEventQueue, made>>
    BY <1>9, Zenon DEF Prompt
  <2> QED BY <2>1 DEF Passing
<1>10. ASSUME NEW c \in Callers, Send(c) PROVE Emission \/ Passing
  BY <1>0, <1>10, SendEmits
<1>11. CASE (\E c \in Callers : Return(c)) \/ UNCHANGED vars
  <2>1. UNCHANGED <<handler, queues, agentEventQueue, made>>
    BY <1>11, Zenon DEF Return, vars
  <2> QED BY <2>1 DEF Passing
<1>12. CASE QueueSteer \/ QueueFollowUp
  BY <1>12, Zenon DEF QueueSteer, QueueFollowUp, Queueing
<1>13. CASE ClearQueue
  BY <1>13, Zenon DEF ClearQueue, Clearing
<1>14. CASE Abort
  <2>1. UNCHANGED <<queues, agentEventQueue, made>>
    BY <1>14, Zenon DEF Abort
  <2>2. handler' = "ready" \/ handler' = handler
    BY <1>14, Zenon DEF Abort, GiveUp
  <2> QED BY <2>1, <2>2 DEF Passing
<1>15. CASE RecordBashResult
  <2>1. UNCHANGED <<handler, queues, agentEventQueue>> /\ made' = made + 1
    BY <1>15, Zenon DEF RecordBashResult
  <2> QED BY <2>1 DEF Passing
<1> QED
  BY <1>1, <1>2, <1>3, <1>4, <1>5, <1>6, <1>7, <1>8, <1>9, <1>10, <1>11, <1>12,
     <1>13, <1>14, <1>15, Zenon DEF Next, SessionStep, CallerStep

-----------------------------------------------------------------------------
LEMMA SetOfGrowth ==
  ASSUME NEW q \in Seq(Msgs), NEW f \in Seq(Msgs), NEW s \in Seq(Msgs),
         NEW t \in Seq(Msgs)
  PROVE  ToSet((q \o (f \o s)) \o t) = ToSet(q) \cup ToSet(f) \cup ToSet(s) \cup ToSet(t)
<1>1. \A a, b \in Seq(Msgs) :
        a \o b \in Seq(Msgs) /\ ToSet(a \o b) = ToSet(a) \cup ToSet(b)
  BY SetOfConcat, ConcatProperties
<1> DEFINE p == f \o s
           r == q \o p
<1>2. p \in Seq(Msgs) /\ ToSet(p) = ToSet(f) \cup ToSet(s)
  BY <1>1, Zenon
<1>3. r \in Seq(Msgs) /\ ToSet(r) = ToSet(q) \cup ToSet(p)
  <2> HIDE DEF p
  <2> QED BY <1>1, <1>2, Zenon
<1>4. ToSet(r \o t) = ToSet(r) \cup ToSet(t)
  <2> HIDE DEF p, r
  <2> QED BY <1>1, <1>3, Zenon
<1> HIDE DEF p, r
<1>5. ToSet(r \o t) = ToSet(q) \cup ToSet(f) \cup ToSet(s) \cup ToSet(t)
  BY <1>2, <1>3, <1>4
<1> QED BY <1>5 DEF p, r

LEMMA HeadOfGrowth ==
  ASSUME NEW q \in Seq(Msgs), q # <<>>, NEW s \in Seq(Msgs), NEW t \in Seq(Msgs)
  PROVE  Head((q \o s) \o t) = Head(q)
<1> PICK r \in Seq(Msgs) : r = q \o s
  BY ConcatProperties
<1>1. r # <<>> /\ Head(r) = Head(q)
  BY ConcatProperties, LenProperties
<1>2. Head(r \o t) = Head(r)
  BY <1>1, ConcatProperties, LenProperties
<1> QED BY <1>1, <1>2

LEMMA BeginningAgrees ==
  ASSUME Typed, QInv, Beginning
  PROVE  QInv'
<1> PICK e : e = Head(agentEventQueue)
  OBVIOUS
<1>1. e \in Msgs /\ e \in ToSet(agentEventQueue)
  BY HeadTailProperties, SetOfTail DEF Beginning, Typed
<1>2. UNCHANGED <<steering, followUp, agentEventQueue, made>> /\ handler' = "extensions"
  BY DEF Beginning
<1>3. e \notin ToSet(steering) /\ e \notin ToSet(followUp)
  BY <1>1 DEF QInv, Apart
<1>4. CASE e.kind # "user" /\ UNCHANGED copies
  BY <1>2, <1>4 DEF QInv, Apart, Known, Announced, Agree, ResetAhead, copies
<1>5. CASE /\ e.kind = "user"
           /\ \/ /\ Contains(steeringMessages, e)
                 /\ steeringMessages' = RemoveFirst(steeringMessages, e)
                 /\ UNCHANGED followUpMessages
              \/ /\ ~Contains(steeringMessages, e)
                 /\ followUpMessages' = RemoveFirst(followUpMessages, e)
                 /\ UNCHANGED steeringMessages
  <2>0. Contains(steeringMessages, e) <=> e \in ToSet(steeringMessages)
    BY LenProperties DEF Contains, ToSet, QInv, Apart
  <2>1. /\ steeringMessages' \in Seq(UserMsgs) /\ followUpMessages' \in Seq(UserMsgs)
        /\ IsInjective(steeringMessages') /\ IsInjective(followUpMessages')
        /\ ToSet(steeringMessages') = ToSet(steeringMessages) \ {e}
        /\ ToSet(followUpMessages') = ToSet(followUpMessages) \ {e}
    <3>1. CASE Contains(steeringMessages, e)
      BY <1>5, <2>0, <3>1, SetWithoutFirst DEF QInv, Apart
    <3>2. CASE ~Contains(steeringMessages, e)
      BY <1>5, <2>0, <3>2, SetWithoutFirst DEF QInv, Apart
    <3> QED BY <3>1, <3>2
  <2>2. Apart'
    BY <1>2, <2>1 DEF QInv, Apart
  <2>3. Known'
    BY <1>2, <2>1 DEF QInv, Known
  <2>4. Announced'
    BY <1>2, <2>1 DEF Announced
  <2>5. Agree'
    BY <1>2, <1>3, <2>1 DEF QInv, Agree
  <2> QED BY <2>2, <2>3, <2>4, <2>5 DEF QInv
<1> QED BY <1>4, <1>5 DEF Beginning

LEMMA TakingAgrees ==
  ASSUME Typed, InHand, QInv, Taking
  PROVE  QInv'
<1> PICK e : e = Head(agentEventQueue)
  OBVIOUS
<1>1. UNCHANGED <<steering, followUp, copies, made>> /\ ~ResetAhead'
  BY DEF Taking, ResetAhead
<1>2. ToSet(agentEventQueue) = {e} \cup ToSet(agentEventQueue')
  BY SetOfTail DEF Taking, InHand, Typed
<1>3. e \notin ToSet(steeringMessages) \cup ToSet(followUpMessages)
  <2>1. CASE e.kind = "user"
    BY <2>1 DEF QInv, Announced, ResetAhead, Taking
  <2>2. CASE e.kind # "user"
    <3>1. \A m \in ToSet(steeringMessages) \cup ToSet(followUpMessages) : m.kind = "user"
      BY LenProperties, ElementOfSeq DEF ToSet, QInv, Apart, UserMsgs
    <3> QED BY <2>2, <3>1
  <2> QED BY <2>1, <2>2
<1>4. Apart'
  BY <1>1, <1>2 DEF QInv, Apart, copies
<1>5. Known'
  BY <1>1, <1>2 DEF QInv, Known, copies
<1>6. Announced'
  BY <1>1 DEF Announced
<1>7. Agree'
  BY <1>1, <1>2, <1>3 DEF QInv, Agree, copies
<1> QED BY <1>4, <1>5, <1>6, <1>7 DEF QInv

(* A message just made is in no queue.                                       *)
LEMMA Unmade ==
  ASSUME Typed, QInv
  PROVE  \A x \in ToSet(steering) \cup ToSet(followUp) \cup ToSet(agentEventQueue)
                \cup ToSet(steeringMessages) \cup ToSet(followUpMessages) :
           x.n \in Nat /\ x.n <= made /\ x.n # made + 1
<1> TAKE x \in ToSet(steering) \cup ToSet(followUp) \cup ToSet(agentEventQueue)
                \cup ToSet(steeringMessages) \cup ToSet(followUpMessages)
<1>1. ASSUME NEW q \in Seq(Msgs) PROVE \A y \in ToSet(q) : y \in Msgs
  BY LenProperties, ElementOfSeq DEF ToSet
<1>2. ASSUME NEW q \in Seq(UserMsgs) PROVE \A y \in ToSet(q) : y \in Msgs
  <2>1. \A y \in ToSet(q) : y \in UserMsgs
    BY LenProperties, ElementOfSeq DEF ToSet
  <2> QED BY <2>1 DEF UserMsgs
<1>3. /\ \A y \in ToSet(steering) \cup ToSet(followUp) : y \in Msgs
      /\ \A y \in ToSet(agentEventQueue) : y \in Msgs
  BY <1>1, <1>2 DEF Typed
<1>4. \A y \in ToSet(steeringMessages) \cup ToSet(followUpMessages) : y \in Msgs
  BY <1>2 DEF QInv, Apart
<1>5. x \in Msgs
  BY <1>3, <1>4
<1>6. x.n \in Nat /\ x.n <= made /\ made \in Nat
  BY <1>5 DEF Msgs, QInv, Known, Typed
<1> QED BY <1>6

LEMMA QueueingAgrees ==
  ASSUME Typed, InHand, QInv, Queueing
  PROVE  QInv'
<1> PICK m : m = Made("user", FALSE)
  OBVIOUS
<1>1. m \in UserMsgs /\ m.n = made + 1 /\ made \in Nat
  BY MessageType DEF Typed, UserMsgs, Made, Message
<1>2. /\ m \notin ToSet(steering) /\ m \notin ToSet(followUp)
      /\ m \notin ToSet(agentEventQueue)
      /\ m \notin ToSet(steeringMessages) /\ m \notin ToSet(followUpMessages)
  BY <1>1, Unmade
<1>3. /\ UNCHANGED <<agentEventQueue, handler>> /\ made' = made + 1
      /\ ResetAhead' <=> ResetAhead
  BY DEF Queueing, ResetAhead
<1>4. ASSUME NEW q \in Seq(UserMsgs)
      PROVE  /\ Append(q, m) \in Seq(UserMsgs)
             /\ ToSet(Append(q, m)) = ToSet(q) \cup {m}
             /\ IsInjective(q) /\ m \notin ToSet(q) => IsInjective(Append(q, m))
  <2>1. Append(q, m) \in Seq(UserMsgs)
    BY ONLY <1>1, q \in Seq(UserMsgs), AppendProperties
  <2>2. /\ ToSet(Append(q, m)) = ToSet(q) \cup {m}
        /\ IsInjective(q) /\ m \notin ToSet(q) => IsInjective(Append(q, m))
    BY ONLY <1>1, q \in Seq(UserMsgs), SetOfAppend, Zenon
  <2> QED BY ONLY <2>1, <2>2
<1>5. ResetAhead => Head(agentEventQueue) # m
  <2>1. ResetAhead => Head(agentEventQueue) \in ToSet(agentEventQueue)
    BY SetOfTail DEF Typed, InHand, ResetAhead
  <2> QED BY <1>2, <2>1
<1>6. \A x \in ToSet(steering) \cup ToSet(followUp) \cup ToSet(agentEventQueue)
                \cup ToSet(steeringMessages) \cup ToSet(followUpMessages) \cup {m} :
        x.n <= made'
  <2> PICK k \in Nat : k = made + 1
    BY <1>1
  <2>1. made' = k
    BY <1>3
  <2>2. m.n = k
    BY <1>1
  <2>3. k <= k
    OBVIOUS
  <2>4. made' = made + 1 /\ m.n <= made'
    BY <2>1, <2>2, <2>3
  <2>5. \A x \in ToSet(steering) \cup ToSet(followUp) \cup ToSet(agentEventQueue)
                  \cup ToSet(steeringMessages) \cup ToSet(followUpMessages) :
          x.n <= made'
    <3> TAKE x \in ToSet(steering) \cup ToSet(followUp) \cup ToSet(agentEventQueue)
                  \cup ToSet(steeringMessages) \cup ToSet(followUpMessages)
    <3> PICK number : number = x.n
      OBVIOUS
    <3>1. number \in Nat /\ number <= made
      BY Unmade
    <3>2. number <= made + 1
      BY <1>1, <3>1
    <3> QED BY <2>4, <3>2
  <2> QED BY <2>4, <2>5
<1>7. CASE /\ steering' = Append(steering, m)
           /\ steeringMessages' = Append(steeringMessages, m)
           /\ UNCHANGED <<followUp, followUpMessages>>
  <2>0. /\ ToSet(steering') = ToSet(steering) \cup {m} /\ IsInjective(steering')
        /\ ToSet(steeringMessages') = ToSet(steeringMessages) \cup {m}
        /\ IsInjective(steeringMessages') /\ steeringMessages' \in Seq(UserMsgs)
    BY <1>2, <1>4, <1>7 DEF QInv, Apart, Typed
  <2>1. Apart'
    BY <1>2, <1>3, <1>7, <2>0 DEF QInv, Apart
  <2>2. Known'
    BY <1>3, <1>6, <1>7, <2>0 DEF Known
  <2>3. Announced'
    BY <1>3, <1>5, <1>7, <2>0 DEF QInv, Announced
  <2>4. Agree'
    BY <1>3, <1>7, <2>0 DEF QInv, Agree
  <2> QED BY <2>1, <2>2, <2>3, <2>4 DEF QInv
<1>8. CASE /\ followUp' = Append(followUp, m)
           /\ followUpMessages' = Append(followUpMessages, m)
           /\ UNCHANGED <<steering, steeringMessages>>
  <2>0. /\ ToSet(followUp') = ToSet(followUp) \cup {m} /\ IsInjective(followUp')
        /\ ToSet(followUpMessages') = ToSet(followUpMessages) \cup {m}
        /\ IsInjective(followUpMessages') /\ followUpMessages' \in Seq(UserMsgs)
    BY <1>2, <1>4, <1>8 DEF QInv, Apart, Typed
  <2>1. Apart'
    BY <1>2, <1>3, <1>8, <2>0 DEF QInv, Apart
  <2>2. Known'
    BY <1>3, <1>6, <1>8, <2>0 DEF Known
  <2>3. Announced'
    BY <1>3, <1>5, <1>8, <2>0 DEF QInv, Announced
  <2>4. Agree'
    BY <1>3, <1>8, <2>0 DEF QInv, Agree
  <2> QED BY <2>1, <2>2, <2>3, <2>4 DEF QInv
<1> QED BY <1>7, <1>8 DEF Queueing

LEMMA ClearingAgrees ==
  ASSUME Typed, QInv, Clearing
  PROVE  QInv'
<1>1. /\ UNCHANGED <<agentEventQueue, handler, made>>
      /\ ToSet(steering') = {} /\ ToSet(followUp') = {}
      /\ ToSet(steeringMessages') = {} /\ ToSet(followUpMessages') = {}
      /\ IsInjective(steering') /\ IsInjective(followUp')
      /\ IsInjective(steeringMessages') /\ IsInjective(followUpMessages')
      /\ steeringMessages' \in Seq(UserMsgs) /\ followUpMessages' \in Seq(UserMsgs)
  BY SetOfNone DEF Clearing
<1>2. Apart'
  BY <1>1 DEF Apart
<1>3. Known'
  BY <1>1 DEF QInv, Known
<1>4. Announced'
  BY <1>1 DEF Announced
<1>5. Agree'
  BY <1>1 DEF Agree
<1> QED BY <1>2, <1>3, <1>4, <1>5 DEF QInv

LEMMA PassingAgrees ==
  ASSUME Typed, QInv, Passing
  PROVE  QInv'
<1>1. /\ UNCHANGED <<steering, followUp, agentEventQueue, copies>>
      /\ ResetAhead' => ResetAhead
  BY DEF Passing, ResetAhead
<1>2. Apart' /\ Agree' /\ Announced'
  BY <1>1 DEF QInv, Apart, Agree, Announced, copies
<1>3. made \in Nat /\ made' \in {made, made + 1}
  BY DEF Passing, Typed
<1>4. Known'
  BY <1>1, <1>3, Unmade DEF Known, copies
<1> QED BY <1>2, <1>4 DEF QInv

LEMMA EmissionAgrees ==
  ASSUME Typed, InHand, QInv, Emission
  PROVE  QInv'
<1> PICK fresh \in Seq(Msgs), ms \in Seq(Msgs), ends \in Seq(Msgs) :
      /\ Own(fresh) /\ Polled(ms) /\ ends \in {<<>>, <<AgentEnd>>}
      /\ agentEventQueue' = (agentEventQueue \o (fresh \o ms)) \o ends
      /\ UNCHANGED kept
  BY Zenon DEF Emission
<1>1. UNCHANGED <<handler, copies>>
  BY DEF kept, copies
<1>2. ToSet(agentEventQueue') = ToSet(agentEventQueue)
        \cup ToSet(fresh) \cup ToSet(ms) \cup ToSet(ends)
  BY SetOfGrowth DEF Typed
<1>3. made \in Nat /\ made' \in {made, made + 1}
  BY DEF Own, Typed
<1>4. \A x \in ToSet(fresh) : x.n = made + 1 /\ made' = made + 1
  <2>1. CASE fresh = <<>>
    BY <2>1, SetOfNone
  <2>2. ASSUME NEW kind \in Kinds, NEW big \in BOOLEAN, fresh = <<Made(kind, big)>>,
               made' = made + 1
        PROVE  \A x \in ToSet(fresh) : x.n = made + 1
    BY <2>2, SetOfOne DEF Made, Message
  <2> QED BY <2>1, <2>2 DEF Own
<1>5. \A x \in ToSet(ends) : x.n = 0 /\ x.kind = "agent_end"
  BY SetOfNone, SetOfOne DEF AgentEnd, Message
<1>6. /\ \A x \in ToSet(steering) \cup ToSet(followUp) : x.kind = "user"
      /\ ToSet(fresh) \cap (ToSet(steering) \cup ToSet(followUp)) = {}
      /\ ToSet(ends) \cap (ToSet(steering) \cup ToSet(followUp)) = {}
  <2>1. \A x \in ToSet(steering) \cup ToSet(followUp) : x.kind = "user"
    BY LenProperties, ElementOfSeq DEF ToSet, Typed, UserMsgs
  <2>2. ToSet(fresh) \cap (ToSet(steering) \cup ToSet(followUp)) = {}
    BY <1>4, Unmade
  <2> QED BY <1>5, <2>1, <2>2
<1>7. /\ ToSet(steering) = ToSet(steering') \cup (ToSet(ms) \cap ToSet(steering))
      /\ ToSet(followUp) = ToSet(followUp') \cup (ToSet(ms) \cap ToSet(followUp))
      /\ ToSet(ms) \cap (ToSet(steering') \cup ToSet(followUp')) = {}
      /\ ToSet(ms) \subseteq ToSet(steering) \cup ToSet(followUp)
      /\ IsInjective(steering') /\ IsInjective(followUp')
  <2>1. CASE ms = <<>> /\ UNCHANGED <<steering, followUp>>
    BY <2>1, SetOfNone DEF QInv, Apart
  <2>2. CASE /\ steering # <<>> /\ ms = <<Head(steering)>>
             /\ steering' = Tail(steering) /\ UNCHANGED followUp
    <3>1. /\ ToSet(steering) = {Head(steering)} \cup ToSet(steering')
          /\ IsInjective(steering') /\ Head(steering) \notin ToSet(steering')
          /\ ToSet(ms) = {Head(steering)}
      BY <2>2, SetOfTail, SetOfOne DEF Typed, QInv, Apart
    <3> QED BY <2>2, <3>1 DEF QInv, Apart
  <2>3. CASE /\ followUp # <<>> /\ ms = <<Head(followUp)>>
             /\ followUp' = Tail(followUp) /\ UNCHANGED steering
    <3>1. /\ ToSet(followUp) = {Head(followUp)} \cup ToSet(followUp')
          /\ IsInjective(followUp') /\ Head(followUp) \notin ToSet(followUp')
          /\ ToSet(ms) = {Head(followUp)}
      BY <2>3, SetOfTail, SetOfOne DEF Typed, QInv, Apart
    <3> QED BY <2>3, <3>1 DEF QInv, Apart
  <2> QED BY <2>1, <2>2, <2>3 DEF Polled
<1>8. Apart'
  BY <1>1, <1>2, <1>6, <1>7 DEF QInv, Apart, copies
<1>9. Known'
  <2> SUFFICES ASSUME NEW x, x \in ToSet(steering') \cup ToSet(followUp')
                        \cup ToSet(agentEventQueue') \cup ToSet(steeringMessages')
                        \cup ToSet(followUpMessages')
               PROVE  x.n <= made'
    BY DEF Known
  <2>1. \/ x \in ToSet(steering) \cup ToSet(followUp) \cup ToSet(agentEventQueue)
                \cup ToSet(steeringMessages) \cup ToSet(followUpMessages)
        \/ x \in ToSet(fresh) \/ x \in ToSet(ends)
    BY <1>1, <1>2, <1>7 DEF copies
  <2>2. \/ x.n \in Nat /\ x.n <= made
        \/ x.n = made + 1 /\ made' = made + 1
        \/ x.n = 0
    BY <1>4, <1>5, <2>1, Unmade
  <2> QED BY <1>3, <2>2
<1>10. Announced'
  <2>1. (ResetAhead' <=> ResetAhead)
        /\ (ResetAhead => Head(agentEventQueue') = Head(agentEventQueue))
    <3>1. agentEventQueue # <<>> => Head(agentEventQueue') = Head(agentEventQueue)
      BY HeadOfGrowth, ConcatProperties DEF Typed
    <3> QED BY <1>1, <3>1 DEF ResetAhead, InHand
  <2> QED BY <1>1, <2>1 DEF QInv, Announced, copies
<1>11. Agree'
  BY <1>1, <1>2, <1>7 DEF QInv, Agree, copies
<1> QED BY <1>8, <1>9, <1>10, <1>11 DEF QInv

LEMMA QInit == Init => QInv
<1> SUFFICES ASSUME Init PROVE QInv
  OBVIOUS
<1>1. /\ ToSet(steering) = {} /\ ToSet(followUp) = {} /\ ToSet(agentEventQueue) = {}
      /\ ToSet(steeringMessages) = {} /\ ToSet(followUpMessages) = {}
      /\ IsInjective(steering) /\ IsInjective(followUp)
      /\ IsInjective(steeringMessages) /\ IsInjective(followUpMessages)
      /\ steeringMessages \in Seq(UserMsgs) /\ followUpMessages \in Seq(UserMsgs)
  BY SetOfNone DEF Init
<1> QED BY <1>1 DEF QInv, Apart, Known, Announced, Agree

LEMMA QNext == IInv /\ SInv /\ QInv /\ [Next]_vars => QInv'
<1> SUFFICES ASSUME IInv, SInv, QInv, [Next]_vars PROVE QInv'
  OBVIOUS
<1>1. Typed /\ InHand /\ Stored
  BY DEF IInv, SInv
<1> QED
  BY <1>1, StepsOfQueues, EmissionAgrees, BeginningAgrees, TakingAgrees,
     QueueingAgrees, ClearingAgrees, PassingAgrees, Zenon

(* The queues the user is shown are the agent's, but for messages that were  *)
(* delivered and are not handled yet (agent-session.ts 487-505, 1174-1207,    *)
(* 1314-1322): for any number of them queued, drained and cleared.           *)
THEOREM QueuesCorrect == Spec => []QueuesAgree
<1>1. IInv /\ SInv /\ QInv => QueuesAgree
  BY AgreeMeans DEF QInv
<1>2. Init => IInv /\ SInv /\ QInv
  BY InitInv, SInit, QInit
<1>3. (IInv /\ SInv /\ QInv) /\ [Next]_vars => (IInv /\ SInv /\ QInv)'
  BY NextInv, SNext, QNext
<1> QED BY <1>1, <1>2, <1>3, PTL DEF Spec

-----------------------------------------------------------------------------
(* A retry is under way while its promise is pending                         *)

Runs == [phase : {"idle", "respond", "tools"}, aborted : BOOLEAN,
         owner : Callers \cup {"none"}, answered : BOOLEAN]

(* What was emitted before the i-th event that waits; the handler has noted  *)
(* what was before the first.                                                *)
Prior(q, last, i) == IF i = 1 THEN last ELSE q[i - 1]

(* Before the i-th event an answer was emitted, and no run has ended since.  *)
Answered(q, last, i) ==
  \E j \in 1..i : /\ IsAssistant(Prior(q, last, j))
                  /\ \A k \in j..(i - 1) : q[k].kind # "agent_end"

(* The end of a run follows an answer, and follows a failed one at once.     *)
EndsFollow(q, last) ==
  /\ \A i \in 1..Len(q) : q[i].kind = "agent_end" => Answered(q, last, i)
  /\ \A i \in 1..Len(q) :
       Prior(q, last, i).kind = "error" => q[i].kind = "agent_end"
AnsweredLast(q, last) == Answered(q, last, Len(q) + 1)
FailedLast(q, last) == q # <<>> /\ Prior(q, last, Len(q)).kind = "error"
FailsAtOnce(q, last) == Prior(q, last, Len(q) + 1).kind = "error"

(* A transcript that the model may be asked to go on with.                   *)
Asks(ms) == ms # <<>> /\ ~EndsInAssistant(ms)

Edited == raced \/ Revived \/ unanswered

LTyped == messages \in Seq(Msgs) /\ run \in Runs /\ timers \in Nat

(* A run that was answered has its answer among the events, or noted; the    *)
(* last event of an agent that is idle is the end of a run.                  *)
Events ==
  /\ EndsFollow(agentEventQueue, lastAssistant)
  /\ ~FailsAtOnce(agentEventQueue, lastAssistant)
  /\ run.answered => AnsweredLast(agentEventQueue, lastAssistant)
  /\ run.phase = "tools" => run.answered
  /\ ~IsStreaming /\ agentEventQueue # <<>> => Last(agentEventQueue).kind = "agent_end"

(* A failed answer that is not handled yet is the last of the transcript, if *)
(* anything, and the transcript goes on without it.                          *)
Transcript ==
  /\ run.phase = "respond" => Asks(messages)
  /\ ~IsStreaming /\ FailedLast(agentEventQueue, lastAssistant)
       => Asks(StripLastAssistant(messages))
  /\ ~IsStreaming /\ agentEventQueue = <<>> /\ retryPromise
       => Asks(messages) /\ (handler = "sleeping" \/ timers > 0)

LInv == LTyped /\ (~Edited => Events /\ Transcript)

LEMMA ProgressMeans == Typed /\ LInv => RetryInProgress
<1> SUFFICES ASSUME Typed, LInv, retryPromise, ~Edited, ~IsStreaming
             PROVE  \/ handler # "ready" \/ timers > 0
                    \/ \E i \in DOMAIN agentEventQueue :
                         agentEventQueue[i].kind = "agent_end"
  BY DEF RetryInProgress, UnderWay, Edited
<1>1. CASE agentEventQueue = <<>>
  BY <1>1 DEF LInv, Transcript
<1>2. CASE agentEventQueue # <<>>
  <2>1. Last(agentEventQueue).kind = "agent_end"
    BY <1>2 DEF LInv, Events
  <2>2. Len(agentEventQueue) \in DOMAIN agentEventQueue
    BY <1>2 DEF Typed
  <2> QED BY <2>1, <2>2 DEF Last
<1> QED BY <1>1, <1>2

-----------------------------------------------------------------------------
(* Events that join the queue and leave it *)

(* What was answered before, or is answered by the last event, is answered   *)
(* after the events ms.                                                      *)
LEMMA AnswersStay ==
  ASSUME NEW q \in Seq(Msgs), NEW ms \in Seq(Msgs), NEW l
  PROVE  LET p == q \o ms
         IN  /\ p \in Seq(Msgs) /\ Len(p) = Len(q) + Len(ms)
             /\ \A i \in 1..(Len(q) + 1) :
                  Prior(p, l, i) = Prior(q, l, i) /\ (Answered(q, l, i) => Answered(p, l, i))
             /\ (\A i \in DOMAIN ms : ms[i].kind # "agent_end") /\ AnsweredLast(q, l)
                  => AnsweredLast(p, l)
             /\ ms # <<>> /\ IsAssistant(Last(ms)) => AnsweredLast(p, l)
<1> PICK n \in Nat : n = Len(q)
  BY LenProperties
<1> PICK k \in Nat : k = Len(ms)
  BY LenProperties
<1> PICK p : p = q \o ms
  OBVIOUS
<1>1. /\ p \in Seq(Msgs) /\ Len(p) = n + k
      /\ \A i \in 1..n : p[i] = q[i]
      /\ \A i \in (n + 1)..(n + k) : p[i] = ms[i - n] /\ i - n \in DOMAIN ms
  BY ConcatProperties
<1>2. \A i \in 1..(n + 1) : Prior(p, l, i) = Prior(q, l, i)
  BY <1>1 DEF Prior
<1>3. ASSUME NEW i \in 1..(n + 1), Answered(q, l, i) PROVE Answered(p, l, i)
  <2>1. PICK j \in 1..i : /\ IsAssistant(Prior(q, l, j))
                          /\ \A h \in j..(i - 1) : q[h].kind # "agent_end"
    BY <1>3 DEF Answered
  <2>2. IsAssistant(Prior(p, l, j))
    BY <1>2, <2>1
  <2>3. \A h \in j..(i - 1) : p[h].kind # "agent_end"
    BY <1>1, <2>1
  <2> QED BY <2>1, <2>2, <2>3 DEF Answered
<1>4. ASSUME \A i \in DOMAIN ms : ms[i].kind # "agent_end", AnsweredLast(q, l)
      PROVE  AnsweredLast(p, l)
  <2>1. PICK j \in 1..(n + 1) : /\ IsAssistant(Prior(q, l, j))
                                /\ \A h \in j..n : q[h].kind # "agent_end"
    BY <1>4 DEF AnsweredLast, Answered
  <2>2. IsAssistant(Prior(p, l, j))
    BY <1>2, <2>1
  <2>3. ASSUME NEW h \in j..(n + k) PROVE p[h].kind # "agent_end"
    <3>1. CASE h <= n
      BY <1>1, <2>1, <3>1
    <3>2. CASE h > n
      BY <1>1, <1>4, <3>2
    <3> QED BY <3>1, <3>2
  <2>4. j \in 1..((n + k) + 1) /\ ((n + k) + 1) - 1 = n + k
    OBVIOUS
  <2> QED BY <1>1, <2>2, <2>3, <2>4 DEF AnsweredLast, Answered
<1>5. ASSUME ms # <<>>, IsAssistant(Last(ms)) PROVE AnsweredLast(p, l)
  <2>1. k # 0
    BY <1>5, EmptySeq
  <2>2. Prior(p, l, (n + k) + 1) = ms[k]
    BY <1>1, <2>1 DEF Prior
  <2>3. IsAssistant(Prior(p, l, (n + k) + 1))
    BY <1>5, <2>2 DEF Last
  <2>4. \A h \in ((n + k) + 1)..(((n + k) + 1) - 1) : p[h].kind # "agent_end"
    OBVIOUS
  <2>5. (n + k) + 1 \in 1..((n + k) + 1)
    OBVIOUS
  <2> QED BY <1>1, <2>3, <2>4, <2>5 DEF AnsweredLast, Answered
<1> QED BY <1>1, <1>2, <1>3, <1>4, <1>5

(* A run goes on: what it emits is not its end, and is not a failure.        *)
LEMMA PriorOfConcat ==
  ASSUME NEW q \in Seq(Msgs), NEW ms \in Seq(Msgs), NEW l, EndsFollow(q, l),
         ~FailsAtOnce(q, l),
         \A i \in DOMAIN ms : ms[i].kind \notin {"agent_end", "error"}
  PROVE  EndsFollow(q \o ms, l) /\ ~FailsAtOnce(q \o ms, l)
<1>0. \A i \in 1..(Len(q) + 1) :
        /\ Prior(q \o ms, l, i) = Prior(q, l, i)
        /\ Answered(q, l, i) => Answered(q \o ms, l, i)
  BY ONLY AnswersStay, q \in Seq(Msgs), ms \in Seq(Msgs)
<1> PICK n \in Nat : n = Len(q)
  BY LenProperties
<1> PICK k \in Nat : k = Len(ms)
  BY LenProperties
<1> PICK p : p = q \o ms
  OBVIOUS
<1>1. /\ p \in Seq(Msgs) /\ Len(p) = n + k
      /\ \A i \in 1..n : p[i] = q[i]
      /\ \A i \in (n + 1)..(n + k) : p[i] = ms[i - n] /\ i - n \in DOMAIN ms
  BY ConcatProperties
<1>2. \A i \in 1..(n + 1) :
        Prior(p, l, i) = Prior(q, l, i) /\ (Answered(q, l, i) => Answered(p, l, i))
  BY <1>0
<1>3. ASSUME NEW i \in 1..(n + k), p[i].kind = "agent_end" PROVE Answered(p, l, i)
  <2>1. i \in 1..n
    <3>1. ASSUME i \in (n + 1)..(n + k) PROVE FALSE
      BY ONLY <1>1, <1>3, <3>1,
              \A j \in DOMAIN ms : ms[j].kind \notin {"agent_end", "error"}
    <3>2. i \in 1..n \/ i \in (n + 1)..(n + k)
      BY ONLY i \in 1..(n + k), n \in Nat, k \in Nat
    <3> QED BY ONLY <3>1, <3>2
  <2>2. q[i].kind = "agent_end"
    BY <1>1, <1>3, <2>1
  <2>3. Answered(q, l, i)
    BY <2>1, <2>2 DEF EndsFollow
  <2> QED BY <1>2, <2>1, <2>3
<1>4. ASSUME NEW i \in 1..((n + k) + 1), Prior(p, l, i).kind = "error"
      PROVE  i \in 1..n /\ p[i].kind = "agent_end"
  <2>1. i <= n + 1
    <3> SUFFICES ASSUME i > n + 1 PROVE FALSE
      OBVIOUS
    <3>1. i - 1 \in (n + 1)..(n + k)
      OBVIOUS
    <3>2. Prior(p, l, i) = p[i - 1]
      BY DEF Prior
    <3>3. p[i - 1].kind \notin {"agent_end", "error"}
      BY ONLY <1>1, <3>1,
              \A j \in DOMAIN ms : ms[j].kind \notin {"agent_end", "error"}
    <3> QED BY <1>4, <3>2, <3>3
  <2>2. Prior(q, l, i).kind = "error"
    BY <1>2, <1>4, <2>1
  <2>3. i # n + 1
    BY <2>2 DEF FailsAtOnce
  <2>4. i \in 1..n
    BY <2>1, <2>3
  <2>5. q[i].kind = "agent_end"
    BY <2>2, <2>4 DEF EndsFollow
  <2> QED BY <1>1, <2>4, <2>5
<1>5. EndsFollow(p, l)
  BY <1>1, <1>3, <1>4 DEF EndsFollow
<1>6. ~FailsAtOnce(p, l)
  <2>1. (n + k) + 1 \in 1..((n + k) + 1) /\ (n + k) + 1 \notin 1..n
    OBVIOUS
  <2> QED BY <1>1, <1>4, <2>1 DEF FailsAtOnce
<1> QED BY <1>5, <1>6

(* A run ends, with the event of its last answer or without.                 *)
LEMMA PriorOfEnd ==
  ASSUME NEW q \in Seq(Msgs), NEW ms \in Seq(Msgs), NEW l, EndsFollow(q, l),
         ~FailsAtOnce(q, l), AnsweredLast(q \o ms, l),
         ms = <<>> \/ \E m \in Msgs : ms = <<m>> /\ m.kind # "agent_end"
  PROVE  LET p == (q \o ms) \o <<AgentEnd>>
         IN  /\ p \in Seq(Msgs) /\ p # <<>> /\ Last(p).kind = "agent_end"
             /\ EndsFollow(p, l)
             /\ ~FailsAtOnce(p, l)
             /\ ms = <<>> => ~FailedLast(p, l)
<1>a. \A i \in 1..(Len(q) + 1) :
        /\ Prior(q \o ms, l, i) = Prior(q, l, i)
        /\ Answered(q, l, i) => Answered(q \o ms, l, i)
  BY ONLY AnswersStay, q \in Seq(Msgs), ms \in Seq(Msgs)
<1> PICK n \in Nat : n = Len(q)
  BY LenProperties
<1> PICK r \in Seq(Msgs) : r = q \o ms
  BY AnswersStay
<1> PICK n1 \in Nat : n1 = Len(r)
  BY LenProperties
<1>0. /\ n1 \in {n, n + 1}
      /\ \A i \in 1..n : r[i] = q[i]
      /\ n1 = n + 1 => r[n1].kind # "agent_end"
      /\ ms = <<>> => n1 = n
  BY ConcatProperties
<1>1. \A i \in 1..(n + 1) :
        Prior(r, l, i) = Prior(q, l, i) /\ (Answered(q, l, i) => Answered(r, l, i))
  BY <1>a
<1> PICK p : p = r \o <<AgentEnd>>
  OBVIOUS
<1>2. /\ p \in Seq(Msgs) /\ Len(p) = n1 + 1
      /\ \A i \in 1..n1 : p[i] = r[i]
      /\ p[n1 + 1] = AgentEnd
  BY EndType, ConcatProperties
<1>3. \A i \in 1..(n1 + 1) :
        Prior(p, l, i) = Prior(r, l, i) /\ (Answered(r, l, i) => Answered(p, l, i))
  <2>1. <<AgentEnd>> \in Seq(Msgs)
    BY EndType
  <2>2. \A i \in 1..(Len(r) + 1) :
          /\ Prior(r \o <<AgentEnd>>, l, i) = Prior(r, l, i)
          /\ Answered(r, l, i) => Answered(r \o <<AgentEnd>>, l, i)
    BY ONLY AnswersStay, <2>1, r \in Seq(Msgs)
  <2> QED BY <2>2
<1>4. AgentEnd.kind = "agent_end"
  BY DEF AgentEnd, Message
<1>5. ASSUME NEW i \in 1..(n1 + 1), p[i].kind = "agent_end" PROVE Answered(p, l, i)
  <2>1. CASE i = n1 + 1
    BY <1>3, <2>1 DEF AnsweredLast
  <2>2. CASE i # n1 + 1
    <3>1. i \in 1..n /\ q[i].kind = "agent_end"
      BY <1>0, <1>2, <1>5, <2>2
    <3>2. Answered(q, l, i)
      BY <3>1 DEF EndsFollow
    <3>3. Answered(r, l, i)
      BY <1>1, <3>1, <3>2
    <3> QED BY <1>3, <3>3
  <2> QED BY <2>1, <2>2
<1>6. ASSUME NEW i \in 1..n1, Prior(p, l, i).kind = "error" PROVE p[i].kind = "agent_end"
  <2>1. i \in 1..(n + 1) /\ i \in 1..(n1 + 1)
    BY <1>0
  <2>2. Prior(q, l, i).kind = "error"
    BY <1>1, <1>3, <1>6, <2>1
  <2>3. i # n + 1
    BY <2>2 DEF FailsAtOnce
  <2>4. i \in 1..n /\ q[i].kind = "agent_end"
    BY <2>1, <2>2, <2>3 DEF EndsFollow
  <2> QED BY <1>0, <1>2, <2>4
<1>7. EndsFollow(p, l)
  <2>1. \A i \in 1..(n1 + 1) : Prior(p, l, i).kind = "error" => p[i].kind = "agent_end"
    <3> TAKE i \in 1..(n1 + 1)
    <3>1. CASE i = n1 + 1
      BY <1>2, <1>4, <3>1
    <3>2. CASE i \in 1..n1
      BY <1>6, <3>2
    <3> QED BY <3>1, <3>2
  <2> QED BY <1>2, <1>5, <2>1 DEF EndsFollow
<1>8. p # <<>> /\ Last(p) = AgentEnd
  BY <1>2, EmptySeq DEF Last
<1>9. ~FailsAtOnce(p, l)
  <2>1. Prior(p, l, (n1 + 1) + 1) = AgentEnd
    BY <1>2 DEF Prior
  <2> QED BY <1>2, <1>4, <2>1 DEF FailsAtOnce
<1>10. ms = <<>> => ~FailedLast(p, l)
  <2> SUFFICES ASSUME ms = <<>> PROVE Prior(p, l, n1 + 1).kind # "error"
    BY <1>2 DEF FailedLast
  <2>1. n1 = n /\ n1 + 1 \in 1..(n + 1) /\ n1 + 1 \in 1..(n1 + 1)
    BY <1>0
  <2>2. Prior(p, l, n1 + 1) = Prior(q, l, n + 1)
    BY <1>1, <1>3, <2>1
  <2> QED BY <2>2 DEF FailsAtOnce
<1> QED BY <1>2, <1>4, <1>7, <1>8, <1>9, <1>10

(* The handler notes an answer as it takes it off the queue, and forgets it  *)
(* at the end of the run.                                                    *)
Notes(e, l, k) ==
  /\ IsAssistant(e) => k = e
  /\ e.kind = "agent_end" => k = None
  /\ ~IsAssistant(e) /\ e.kind # "agent_end" => k = l

LEMMA PriorOfTail ==
  ASSUME NEW q \in Seq(Msgs), q # <<>>, NEW l, NEW k, EndsFollow(q, l),
         ~FailsAtOnce(q, l), Notes(Head(q), l, k)
  PROVE  /\ Tail(q) \in Seq(Msgs)
         /\ EndsFollow(Tail(q), k)
         /\ ~FailsAtOnce(Tail(q), k)
         /\ AnsweredLast(q, l) => AnsweredLast(Tail(q), k)
         /\ Tail(q) # <<>> => Last(Tail(q)) = Last(q)
         /\ FailedLast(Tail(q), k) => FailedLast(q, l)
         /\ Tail(q) = <<>> => Last(q) = Head(q) /\ Len(q) = 1
<1> PICK n \in Nat : n = Len(q)
  BY LenProperties
<1> PICK t : t = Tail(q)
  OBVIOUS
<1>1. /\ n # 0 /\ t \in Seq(Msgs) /\ Len(t) = n - 1
      /\ \A i \in 1..(n - 1) : t[i] = q[i + 1]
      /\ Head(q) = q[1]
  BY HeadTailProperties
<1>2. \A i \in 2..n : Prior(t, k, i) = Prior(q, l, i + 1)
  BY <1>1 DEF Prior
<1>3. Prior(t, k, 1) = k /\ Prior(q, l, 1) = l /\ Prior(q, l, 2) = q[1]
  BY DEF Prior
<1>4. ASSUME NEW i \in 1..n, Answered(q, l, i + 1) PROVE Answered(t, k, i)
  <2>1. PICK j \in 1..(i + 1) : /\ IsAssistant(Prior(q, l, j))
                                /\ \A h \in j..i : q[h].kind # "agent_end"
    BY <1>4 DEF Answered
  <2>2. CASE j >= 3
    <3>1. j - 1 \in 2..n /\ j - 1 \in 1..i
      BY <2>2
    <3>2. Prior(t, k, j - 1) = Prior(q, l, j)
      BY <1>2, <3>1
    <3>3. \A h \in (j - 1)..(i - 1) : t[h].kind # "agent_end"
      <4> TAKE h \in (j - 1)..(i - 1)
      <4>1. h \in 1..(n - 1) /\ h + 1 \in j..i
        BY <2>2
      <4> QED BY <1>1, <2>1, <4>1
    <3>4. IsAssistant(Prior(t, k, j - 1))
      BY <2>1, <3>2
    <3> QED BY <3>1, <3>3, <3>4 DEF Answered
  <2>3. CASE j <= 2
    <3>1. IsAssistant(k)
      <4>1. CASE j = 2
        BY <1>1, <1>3, <2>1, <4>1 DEF Notes
      <4>2. CASE j = 1
        <5>1. 1 \in j..i
          BY <4>2
        <5> QED BY <1>1, <1>3, <2>1, <4>2, <5>1 DEF Notes
      <4> QED BY <2>3, <4>1, <4>2
    <3>2. \A h \in 1..(i - 1) : t[h].kind # "agent_end"
      <4> TAKE h \in 1..(i - 1)
      <4>1. h \in 1..(n - 1) /\ h + 1 \in j..i
        BY <2>3
      <4> QED BY <1>1, <2>1, <4>1
    <3>3. 1 \in 1..i
      OBVIOUS
    <3> QED BY <1>3, <3>1, <3>2, <3>3 DEF Answered
  <2> QED BY <2>2, <2>3
<1>5. ASSUME NEW i \in 1..n, Prior(t, k, i).kind = "error"
      PROVE  Prior(q, l, i + 1).kind = "error"
  <2>1. CASE i # 1
    BY <1>2, <1>5, <2>1
  <2>2. CASE i = 1
    <3>1. k.kind = "error"
      BY <1>3, <1>5, <2>2
    <3>2. ~(q[1].kind = "agent_end")
      BY <1>1, <3>1 DEF Notes, None, Message
    <3>3. l.kind # "error"
      BY <1>1, <1>3, <3>2 DEF EndsFollow
    <3>4. k = q[1]
      BY <1>1, <3>1, <3>2, <3>3 DEF Notes
    <3> QED BY <1>3, <2>2, <3>1, <3>4
  <2> QED BY <2>1, <2>2
<1>6. EndsFollow(t, k)
  <2>1. ASSUME NEW i \in 1..(n - 1) PROVE
          /\ t[i].kind = "agent_end" => Answered(t, k, i)
          /\ Prior(t, k, i).kind = "error" => t[i].kind = "agent_end"
    <3>1. i \in 1..n /\ i + 1 \in 1..n /\ t[i] = q[i + 1]
      BY <1>1
    <3>2. q[i + 1].kind = "agent_end" => Answered(q, l, i + 1)
      BY <3>1 DEF EndsFollow
    <3>3. Prior(q, l, i + 1).kind = "error" => q[i + 1].kind = "agent_end"
      BY <3>1 DEF EndsFollow
    <3> QED BY <1>4, <1>5, <3>1, <3>2, <3>3
  <2> QED BY <1>1, <2>1 DEF EndsFollow
<1>7. ~FailsAtOnce(t, k)
  <2>1. (n - 1) + 1 = n /\ n \in 1..n
    BY <1>1
  <2> QED BY <1>1, <1>5, <2>1 DEF FailsAtOnce
<1>8. AnsweredLast(q, l) => AnsweredLast(t, k)
  <2>1. (n - 1) + 1 = n /\ n \in 1..n
    BY <1>1
  <2> QED BY <1>1, <1>4, <2>1 DEF AnsweredLast
<1>9. t # <<>> => Last(t) = Last(q) /\ n >= 2
  BY <1>1 DEF Last
<1>10. ASSUME FailedLast(t, k) PROVE FailedLast(q, l)
  <2>1. n >= 2 /\ Prior(t, k, n - 1).kind = "error"
    BY <1>1, <1>9, <1>10 DEF FailedLast
  <2>2. n - 1 \in 1..n /\ (n - 1) + 1 = n
    BY <2>1
  <2>3. Prior(q, l, n).kind = "error"
    BY <1>5, <2>1, <2>2
  <2> QED BY <2>3 DEF FailedLast
<1>11. t = <<>> => n = 1
  <2>1. t = <<>> => Len(t) = 0
    <3>1. Len(<<>>) = 0
      OBVIOUS
    <3> QED BY <3>1, Zenon
  <2> QED BY <1>1, <2>1
<1> QED BY <1>1, <1>6, <1>7, <1>8, <1>9, <1>10, <1>11 DEF Last

-----------------------------------------------------------------------------
(* Transcripts that grow and lose a failed answer *)

LEMMA StripIsShorter ==
  ASSUME NEW s \in Seq(Msgs)
  PROVE  /\ StripLastAssistant(s) \in Seq(Msgs)
         /\ Asks(s) => StripLastAssistant(s) = s
<1>1. s # <<>> => WithoutLast(s) \in Seq(Msgs)
  <2> SUFFICES ASSUME s # <<>> PROVE WithoutLast(s) \in Seq(Msgs)
    OBVIOUS
  <2>1. Len(s) - 1 \in 0..Len(s) /\ Len(s) \in Nat
    BY EmptySeq, LenProperties
  <2> QED BY <2>1, SubSeqProperties DEF WithoutLast
<1> QED BY <1>1 DEF StripLastAssistant, EndsInAssistant, Asks

LEMMA AsksAfter ==
  ASSUME NEW s \in Seq(Msgs), NEW t \in Seq(Msgs), t # <<>>, ~IsAssistant(Last(t))
  PROVE  Asks(s \o t)
<1>1. Len(t) # 0 /\ Len(t) \in Nat /\ Len(s) \in Nat
  BY EmptySeq, LenProperties
<1>2. s \o t # <<>> /\ Len(s \o t) = Len(s) + Len(t)
  BY <1>1, ConcatProperties
<1>3. Last(s \o t) = Last(t)
  BY <1>1, <1>2, ConcatProperties DEF Last
<1> QED BY <1>2, <1>3 DEF Asks, EndsInAssistant

LEMMA StripAfter ==
  ASSUME NEW s \in Seq(Msgs), NEW m \in Msgs, IsAssistant(m)
  PROVE  StripLastAssistant(s \o <<m>>) = s
<1> PICK n \in Nat : n = Len(s)
  BY LenProperties
<1> PICK t : t = s \o <<m>>
  OBVIOUS
<1>1. /\ t \in Seq(Msgs) /\ Len(t) = n + 1 /\ t[n + 1] = m
      /\ \A i \in 1..n : t[i] = s[i]
  BY ConcatProperties
<1>2. t # <<>> /\ Last(t) = m
  BY <1>1 DEF Last
<1>3. WithoutLast(t) = s
  <2>1. n \in 0..Len(t) /\ (n + 1) - 1 = n
    BY <1>1
  <2>2. /\ SubSeq(t, 1, n) \in Seq(Msgs) /\ Len(SubSeq(t, 1, n)) = n
        /\ \A i \in 1..n : SubSeq(t, 1, n)[i] = t[i]
    BY <1>1, <2>1
  <2>3. SubSeq(t, 1, n) = s
    BY <1>1, <2>2, SeqEqual
  <2> QED BY <1>1, <2>1, <2>3 DEF WithoutLast
<1> QED BY <1>2, <1>3 DEF StripLastAssistant, EndsInAssistant

(* What is asked of s, with a failed answer at its end or without, is asked  *)
(* of t.                                                                     *)
Mends(s, t) ==
  /\ Asks(s) => Asks(t)
  /\ Asks(StripLastAssistant(s)) => Asks(StripLastAssistant(t))

LEMMA StripMends ==
  ASSUME NEW s \in Seq(Msgs)
  PROVE  Mends(s, s) /\ Mends(s, StripLastAssistant(s))
BY StripIsShorter DEF Mends

LEMMA BashMends ==
  ASSUME NEW s \in Seq(Msgs), NEW b \in Seq(BashMsgs)
  PROVE  /\ s \o b \in Seq(Msgs)
         /\ Mends(s, s \o b) /\ Mends(s, StripLastAssistant(s \o b))
<1>1. b \in Seq(Msgs) /\ s \o b \in Seq(Msgs)
  BY MsgsAreEntries, ConcatProperties
<1>2. CASE b = <<>>
  BY <1>1, <1>2, ConcatEmptySeq, StripMends
<1>3. CASE b # <<>>
  <2>1. Last(b) \in BashMsgs
    BY <1>3, LenProperties, EmptySeq DEF Last
  <2>2. ~IsAssistant(Last(b))
    BY <2>1 DEF BashMsgs, IsAssistant, Replies
  <2>3. Asks(s \o b)
    BY <1>1, <1>3, <2>2, AsksAfter
  <2> QED BY <1>1, <2>3, StripIsShorter DEF Mends
<1> QED BY <1>2, <1>3

-----------------------------------------------------------------------------
(* The steps, by what they do to the events and the transcript               *)

(* A run goes on, or starts: it asks the model next, or runs a tool.         *)
Going(ms) ==
  /\ messages' = messages \o ms
  /\ agentEventQueue' = agentEventQueue \o ms
  /\ UNCHANGED <<lastAssistant, session, raced, unanswered>>
  /\ run' \in Runs /\ timers' \in Nat
  /\ run'.answered => run.answered \/ AnsweredLast(agentEventQueue', lastAssistant)
  /\ \/ run'.phase = "respond" /\ Asks(messages \o ms)
     \/ run'.phase = "tools" /\ run'.answered

LEMMA GoingProgresses ==
  ASSUME Typed, LInv, NEW ms \in Seq(Msgs), Going(ms),
         \A i \in DOMAIN ms : ms[i].kind \notin {"agent_end", "error"}
  PROVE  LInv'
<1>1. LTyped'
  BY ConcatProperties DEF Going, LInv, LTyped
<1>2. Edited' <=> Edited
  BY DEF Going, Edited, Revived
<1> SUFFICES ASSUME ~Edited PROVE Events' /\ Transcript'
  BY <1>1, <1>2 DEF LInv
<1>3. Events
  BY DEF LInv
<1>4. /\ EndsFollow(agentEventQueue', lastAssistant')
      /\ ~FailsAtOnce(agentEventQueue', lastAssistant')
  BY <1>3, PriorOfConcat DEF Going, Typed, Events
<1>5. AnsweredLast(agentEventQueue, lastAssistant)
        => AnsweredLast(agentEventQueue', lastAssistant)
  BY AnswersStay DEF Going, Typed
<1>6. run'.answered => AnsweredLast(agentEventQueue', lastAssistant')
  BY <1>3, <1>5 DEF Going, Events
<1>7. run'.phase # "idle" /\ (run'.phase = "tools" => run'.answered)
  BY DEF Going
<1>8. Events'
  BY <1>4, <1>6, <1>7 DEF Events, IsStreaming
<1>9. Transcript'
  BY <1>7 DEF Going, Transcript, IsStreaming
<1> QED BY <1>8, <1>9

(* The last answer of a run, whose event may be missing, and its end.        *)
Ending(m, ms) ==
  /\ messages' = messages \o <<m>>
  /\ agentEventQueue' = (agentEventQueue \o ms) \o <<AgentEnd>>
  /\ UNCHANGED <<lastAssistant, session, raced, timers>>
  /\ run' = NoRun
  /\ IsAssistant(m)
  /\ unanswered => unanswered'
  /\ \/ run.phase = "respond" /\ ms = <<m>>
     \/ ms = <<>> /\ run.phase \in {"respond", "tools"} /\ (~unanswered' => run.answered)

LEMMA EndingProgresses ==
  ASSUME Typed, LInv, NEW m \in Msgs, NEW ms \in Seq(Msgs), Ending(m, ms)
  PROVE  LInv'
<1>1. m.kind # "agent_end" /\ IsAssistant(m)
  BY DEF Ending, IsAssistant, Replies
<1>2. LTyped'
  <2>1. <<m>> \in Seq(Msgs)
    OBVIOUS
  <2>2. NoRun \in Runs
    BY DEF NoRun, Runs
  <2> QED BY <2>1, <2>2, ConcatProperties DEF Ending, LInv, LTyped
<1>3. Edited => Edited'
  BY DEF Ending, Edited, Revived
<1> SUFFICES ASSUME ~Edited' PROVE Events' /\ Transcript'
  BY <1>2 DEF LInv
<1>4. Events /\ Transcript
  BY <1>3 DEF LInv
<1> PICK q : q = agentEventQueue
  OBVIOUS
<1> PICK l : l = lastAssistant
  OBVIOUS
<1>5. AnsweredLast(q \o ms, l)
  <2>1. CASE ms = <<m>>
    <3>1. Last(ms) = m /\ ms # <<>>
      BY <2>1 DEF Last
    <3> QED BY <1>1, <3>1, AnswersStay DEF Typed
  <2>2. CASE ms = <<>> /\ (~unanswered' => run.answered)
    <3>1. run.answered
      BY <2>2 DEF Edited
    <3>2. AnsweredLast(q, l)
      BY <1>4, <3>1 DEF Events
    <3>3. q \o ms = q
      BY <2>2, ConcatEmptySeq DEF Typed
    <3> QED BY <3>2, <3>3
  <2> QED BY <2>1, <2>2 DEF Ending
<1>6. /\ agentEventQueue' \in Seq(Msgs) /\ agentEventQueue' # <<>>
      /\ Last(agentEventQueue').kind = "agent_end"
      /\ EndsFollow(agentEventQueue', lastAssistant')
      /\ ~FailsAtOnce(agentEventQueue', lastAssistant')
      /\ ms = <<>> => ~FailedLast(agentEventQueue', lastAssistant')
  <2>1. agentEventQueue' = (q \o ms) \o <<AgentEnd>> /\ lastAssistant' = l
    BY DEF Ending
  <2>2. EndsFollow(q, l) /\ ~FailsAtOnce(q, l) /\ q \in Seq(Msgs)
    BY <1>4 DEF Events, Typed
  <2>3. ms = <<>> \/ \E x \in Msgs : ms = <<x>> /\ x.kind # "agent_end"
    BY <1>1 DEF Ending
  <2> QED BY ONLY <1>5, <2>1, <2>2, <2>3, PriorOfEnd
<1>7. run'.phase = "idle" /\ ~run'.answered
  BY DEF Ending, NoRun
<1>8. Events'
  BY <1>6, <1>7 DEF Events, IsStreaming
<1>9. StripLastAssistant(messages') = messages
  BY <1>1, StripAfter DEF Ending, LInv, LTyped
<1>10. run.phase = "respond" => Asks(messages)
  BY <1>4 DEF Transcript
<1>11. ms = <<>> \/ run.phase = "respond"
  BY DEF Ending
<1>12. Transcript'
  BY <1>6, <1>7, <1>9, <1>10, <1>11 DEF Transcript
<1> QED BY <1>8, <1>12

(* The handler is done with an event.                                        *)
Handling ==
  /\ agentEventQueue # <<>>
  /\ agentEventQueue' = Tail(agentEventQueue)
  /\ Notes(Head(agentEventQueue), lastAssistant, lastAssistant')
  /\ UNCHANGED <<run, timers>>
  /\ Edited => Edited'
  /\ messages' \in {messages, StripLastAssistant(messages)}
  /\ Head(agentEventQueue).kind = "agent_end" /\ retryPromise'
       => \/ lastAssistant = None
          \/ /\ handler' = "sleeping"
             /\ lastAssistant.kind = "error"
             /\ messages' = StripLastAssistant(messages)

LEMMA HandlingProgresses == ASSUME Typed, LInv, Handling PROVE LInv'
<1> DEFINE q == agentEventQueue
<1>1. LTyped'
  BY StripIsShorter DEF Handling, LInv, LTyped
<1> SUFFICES ASSUME ~Edited' PROVE Events' /\ Transcript'
  BY <1>1 DEF LInv
<1>2. Events /\ Transcript
  BY DEF Handling, LInv
<1>3. /\ EndsFollow(q', lastAssistant')
      /\ ~FailsAtOnce(q', lastAssistant')
      /\ AnsweredLast(q, lastAssistant) => AnsweredLast(q', lastAssistant')
      /\ q' # <<>> => Last(q') = Last(q)
      /\ FailedLast(q', lastAssistant') => FailedLast(q, lastAssistant)
      /\ q' = <<>> => Last(q) = Head(q) /\ Len(q) = 1
  BY <1>2, PriorOfTail DEF Handling, Typed, Events
<1>4. Events'
  BY <1>2, <1>3 DEF Handling, Events, IsStreaming
<1>5. Mends(messages, messages')
  BY StripMends DEF Handling, LInv, LTyped
<1>6. run.phase = "respond" => Asks(messages')
  BY <1>2, <1>5 DEF Transcript, Mends
<1>7. ~IsStreaming /\ FailedLast(q', lastAssistant') => Asks(StripLastAssistant(messages'))
  BY <1>2, <1>3, <1>5 DEF Transcript, Mends
<1>8. ASSUME ~IsStreaming, q' = <<>>, retryPromise'
      PROVE  Asks(messages') /\ handler' = "sleeping"
  <2>1. Head(q).kind = "agent_end" /\ Len(q) = 1 /\ q # <<>>
    BY <1>2, <1>3, <1>8 DEF Handling, Events
  <2>2. IsAssistant(lastAssistant)
    <3>1. Head(q) = q[1] /\ 1 \in 1..Len(q)
      BY <2>1 DEF Typed
    <3>2. Answered(q, lastAssistant, 1)
      BY <1>2, <2>1, <3>1 DEF Events, EndsFollow
    <3> QED BY <3>2 DEF Answered, Prior
  <2>3. lastAssistant # None
    BY <2>2 DEF IsAssistant, Replies, None, Message
  <2>4. /\ handler' = "sleeping" /\ lastAssistant.kind = "error"
        /\ messages' = StripLastAssistant(messages)
    BY <1>8, <2>1, <2>3 DEF Handling
  <2>5. FailedLast(q, lastAssistant)
    BY <2>1, <2>4 DEF FailedLast, Prior
  <2> QED BY <1>2, <1>8, <2>4, <2>5 DEF Transcript
<1>9. Transcript'
  BY <1>6, <1>7, <1>8 DEF Handling, Transcript, IsStreaming
<1> QED BY <1>4, <1>9

(* Nothing is emitted or handled.  The transcript is edited so that it is as *)
(* good as before, or shown anew.                                            *)
Editing ==
  /\ UNCHANGED <<agentEventQueue, lastAssistant>>
  /\ run' \in Runs /\ run'.phase = run.phase /\ run'.answered = run.answered
  /\ timers' \in Nat
  /\ messages' \in Seq(Msgs)
  /\ Edited => Edited'
  /\ retryPromise' => /\ retryPromise
                      /\ handler = "sleeping" => handler' = "sleeping" \/ timers' > 0
                      /\ timers > 0 => timers' > 0 \/ ~Asks(messages) \/ IsStreaming
  /\ \/ Mends(messages, messages')
     \/ Edited'
     \/ Asks(messages')
     \/ run.phase = "tools"
     \/ ~IsStreaming /\ agentEventQueue = <<>> /\ ~retryPromise

LEMMA EditingProgresses == ASSUME Typed, LInv, Editing PROVE LInv'
<1>1. LTyped'
  BY DEF Editing, LTyped
<1> SUFFICES ASSUME ~Edited' PROVE Events' /\ Transcript'
  BY <1>1 DEF LInv
<1>2. Events /\ Transcript
  BY DEF Editing, LInv
<1>3. Events'
  BY <1>2 DEF Editing, Events, IsStreaming
<1>4. Asks(messages') => Asks(StripLastAssistant(messages'))
  BY StripIsShorter DEF Editing
<1>5. run.phase = "respond" => Asks(messages')
  BY <1>2 DEF Transcript, Editing, Mends, IsStreaming
<1>6. ~IsStreaming /\ FailedLast(agentEventQueue, lastAssistant)
        => Asks(StripLastAssistant(messages'))
  BY <1>2, <1>4 DEF Transcript, Editing, Mends, IsStreaming, FailedLast
<1>7. ASSUME ~IsStreaming, agentEventQueue = <<>>, retryPromise'
      PROVE  Asks(messages') /\ (handler' = "sleeping" \/ timers' > 0)
  <2>1. retryPromise /\ Asks(messages) /\ (handler = "sleeping" \/ timers > 0)
    BY <1>2, <1>7 DEF Transcript, Editing
  <2>2. handler' = "sleeping" \/ timers' > 0
    BY <1>7, <2>1 DEF Editing
  <2>3. Asks(messages')
    BY <1>7, <2>1 DEF Editing, Mends, IsStreaming
  <2> QED BY <2>2, <2>3
<1>8. Transcript'
  BY <1>5, <1>6, <1>7 DEF Editing, Transcript, IsStreaming
<1> QED BY <1>3, <1>8

-----------------------------------------------------------------------------
(* The steps of the agent, and those that start it *)

LEMMA GoesOn ==
  ASSUME Typed, LInv, NEW ms \in Seq(Msgs),
         ms # <<>>, ~IsAssistant(Last(ms)), EmitMessages(ms),
         \A i \in DOMAIN ms : ms[i].kind \notin {"agent_end", "error"},
         UNCHANGED <<lastAssistant, session, raced, unanswered>>,
         run' \in Runs, run'.phase = "respond", timers' \in Nat,
         run'.answered => run.answered \/ AnsweredLast(agentEventQueue', lastAssistant)
  PROVE  LInv'
<1>1. Asks(messages \o ms)
  BY AsksAfter DEF LInv, LTyped
<1>2. Going(ms)
  BY <1>1 DEF Going, EmitMessages
<1> QED BY <1>2, GoingProgresses

LEMMA DrainedEnds ==
  ASSUME NEW q \in Seq(UserMsgs)
  PROVE  /\ Drained(q) \in Seq(Msgs)
         /\ \A i \in DOMAIN Drained(q) : Drained(q)[i].kind = "user"
         /\ q # <<>> => Drained(q) # <<>>
<1>1. CASE q = <<>>
  BY <1>1 DEF Drained
<1>2. CASE q # <<>>
  BY <1>2, DrainedUsers DEF Drained
<1> QED BY <1>1, <1>2

LEMMA PromptedBy ==
  ASSUME NEW ms \in Seq(Msgs), NEW q \in Seq(UserMsgs),
         \A i \in DOMAIN ms : ms[i].kind \in {"user", "result"}
  PROVE  LET all == ms \o Drained(q)
         IN  /\ all \in Seq(Msgs)
             /\ \A i \in DOMAIN all : all[i].kind \in {"user", "result"}
             /\ all = <<>> => ms = <<>>
<1> PICK d \in Seq(Msgs) : d = Drained(q)
  BY DrainedEnds
<1> PICK all : all = ms \o d
  OBVIOUS
<1>1. /\ all \in Seq(Msgs) /\ Len(all) = Len(ms) + Len(d)
      /\ \A i \in 1..Len(ms) : all[i] = ms[i]
      /\ \A i \in (Len(ms) + 1)..(Len(ms) + Len(d)) :
           all[i] = d[i - Len(ms)] /\ i - Len(ms) \in DOMAIN d
  BY ConcatProperties, LenProperties
<1>2. \A i \in DOMAIN d : d[i].kind = "user"
  BY DrainedEnds
<1>3. ASSUME NEW i \in DOMAIN all PROVE all[i].kind \in {"user", "result"}
  <2>1. i \in 1..(Len(ms) + Len(d)) /\ Len(ms) \in Nat /\ Len(d) \in Nat
    BY <1>1, LenProperties
  <2>2. CASE i <= Len(ms)
    BY <1>1, <2>1, <2>2
  <2>3. CASE i > Len(ms)
    BY <1>1, <1>2, <2>1, <2>3
  <2> QED BY <2>1, <2>2, <2>3
<1>4. all = <<>> => ms = <<>>
  <2> SUFFICES ASSUME ms # <<>> PROVE all # <<>>
    OBVIOUS
  <2> QED BY <1>1, Errors
<1> QED BY <1>1, <1>3, <1>4

LEMMA OnePrompt ==
  ASSUME NEW m \in Msgs, m.kind \in {"user", "result"}
  PROVE  /\ <<m>> \in Seq(Msgs) /\ <<m>> # <<>>
         /\ \A i \in DOMAIN <<m>> : <<m>>[i].kind \in {"user", "result"}
OBVIOUS

LEMMA NotAnswers ==
  ASSUME NEW ms \in Seq(Msgs), ms # <<>>,
         \A i \in DOMAIN ms : ms[i].kind \in {"user", "result"}
  PROVE  /\ ~IsAssistant(Last(ms))
         /\ \A i \in DOMAIN ms : ms[i].kind \notin {"agent_end", "error"}
<1>1. Len(ms) \in DOMAIN ms
  OBVIOUS
<1> QED BY <1>1 DEF Last, IsAssistant, Replies

LEMMA AgentProgresses == ASSUME Typed, LInv, AgentStep PROVE LInv'
<1> USE DEF queues, retry, handling
<1>0. run \in Runs /\ timers \in Nat /\ steering \in Seq(UserMsgs)
      /\ followUp \in Seq(UserMsgs) /\ made \in Nat
  BY DEF Typed, LInv, LTyped
<1>1. CASE RespondWithCall
  <2> DEFINE m == Made("call", FALSE)
  <2>1. m \in Msgs /\ m.kind = "call"
    BY <1>0, MessageType DEF Replies
  <2>2. /\ EmitMessages(<<m>>)
        /\ UNCHANGED <<lastAssistant, session, raced, unanswered, timers>>
        /\ run' = [run EXCEPT !.phase = "tools", !.answered = TRUE]
    BY <1>1, Zenon DEF RespondWithCall
  <2> HIDE DEF m
  <2>3. run' \in Runs /\ run'.phase = "tools" /\ run'.answered
    BY <1>0, <2>2 DEF Runs
  <2>4. <<m>> \in Seq(Msgs) /\ <<m>> # <<>> /\ Last(<<m>>) = m
        /\ \A i \in DOMAIN <<m>> : <<m>>[i].kind \notin {"agent_end", "error"}
    BY <2>1 DEF Last
  <2>5. AnsweredLast(agentEventQueue', lastAssistant)
    BY <2>1, <2>2, <2>4, AnswersStay DEF Typed, EmitMessages, IsAssistant, Replies
  <2>6. Going(<<m>>)
    BY <1>0, <2>2, <2>3, <2>5 DEF Going, EmitMessages
  <2> QED BY <2>4, <2>6, GoingProgresses
<1>2. CASE FinishTools
  <2> DEFINE m == <<Made("result", FALSE)>>
             ms == m \o Drained(steering)
  <2>1. m \in Seq(Msgs) /\ m # <<>> /\ \A i \in DOMAIN m : m[i].kind \in {"user", "result"}
    BY <1>0, MessageType, OnePrompt
  <2>2. /\ EmitMessages(ms)
        /\ UNCHANGED <<lastAssistant, session, raced, unanswered, timers>>
        /\ run' = [run EXCEPT !.phase = "respond"]
    BY <1>2, Zenon DEF FinishTools
  <2>3. run' \in Runs /\ run'.phase = "respond" /\ run'.answered = run.answered
    BY <1>0, <2>2 DEF Runs
  <2> HIDE DEF m
  <2>4. ms \in Seq(Msgs) /\ ms # <<>> /\ \A i \in DOMAIN ms : ms[i].kind \in {"user", "result"}
    BY <1>0, <2>1, PromptedBy
  <2> HIDE DEF ms
  <2>5. ~IsAssistant(Last(ms)) /\ \A i \in DOMAIN ms : ms[i].kind \notin {"agent_end", "error"}
    BY <2>4, NotAnswers
  <2> QED BY <1>0, <2>2, <2>3, <2>4, <2>5, GoesOn
<1>3. ASSUME NEW size \in Sizes, RespondWithAnswer(size) PROVE LInv'
  <2>0. PICK k \in {"answer", "overlong"}, b \in BOOLEAN : AnswerOf(size) = Made(k, b)
    BY AnswerMade
  <2> DEFINE m == AnswerOf(size)
  <2>1. m \in Msgs /\ m.kind = k
    BY <1>0, <2>0, MessageType DEF Replies
  <2>2. UNCHANGED <<lastAssistant, session, raced, unanswered, timers>> /\ run.phase = "respond"
    BY <1>3, Zenon DEF RespondWithAnswer
  <2>3. CASE steering # <<>> \/ followUp # <<>>
    <3> DEFINE q == IF steering # <<>> THEN steering ELSE followUp
               ms == <<m, Head(q)>>
    <3>1. Head(q) \in Msgs /\ Head(q).kind = "user"
      BY <1>0, <2>3, DrainedUsers
    <3>2. EmitMessages(ms) /\ run' = [run EXCEPT !.answered = TRUE]
      BY <1>3, <2>3 DEF RespondWithAnswer
    <3>3. PICK u : u = Head(q)
      OBVIOUS
    <3>4. ms = <<m, u>> /\ u \in Msgs /\ u.kind = "user"
      BY <3>1, <3>3
    <3>5. run' \in Runs /\ run'.phase = "respond"
      BY <1>0, <2>2, <3>2 DEF Runs
    <3> HIDE DEF m, ms
    <3>6. /\ ms \in Seq(Msgs) /\ ms # <<>> /\ ~IsAssistant(Last(ms))
          /\ \A i \in DOMAIN ms : ms[i].kind \notin {"agent_end", "error"}
      BY <2>1, <3>4 DEF Last, IsAssistant, Replies
    <3>7. AnsweredLast(agentEventQueue', lastAssistant)
      <4> PICK p : p = agentEventQueue \o <<m>>
        OBVIOUS
      <4>1. <<m>> \in Seq(Msgs) /\ <<m>> # <<>> /\ IsAssistant(Last(<<m>>))
        BY <2>1 DEF Last, IsAssistant, Replies
      <4>2. p \in Seq(Msgs) /\ AnsweredLast(p, lastAssistant)
        BY <4>1, AnswersStay DEF Typed
      <4>3. <<u>> \in Seq(Msgs) /\ \A i \in DOMAIN <<u>> : <<u>>[i].kind # "agent_end"
        BY <3>4
      <4>4. AnsweredLast(p \o <<u>>, lastAssistant)
        BY <4>2, <4>3, AnswersStay
      <4>5. <<m>> \o <<u>> = ms
        BY <2>1, <3>4, PairOf
      <4>6. p \o <<u>> = agentEventQueue \o (<<m>> \o <<u>>)
        BY <4>1, <4>3, ConcatAssociative DEF Typed
      <4> QED BY <3>2, <4>4, <4>5, <4>6 DEF EmitMessages
    <3> QED BY <1>0, <2>2, <3>2, <3>5, <3>6, <3>7, GoesOn
  <2>4. CASE steering = <<>> /\ followUp = <<>>
    <3>1. End(<<m>>, "answer")
      BY <1>3, <2>4 DEF RespondWithAnswer
    <3>2. messages' = messages \o <<m>> /\ run' = NoRun
          /\ agentEventQueue' = (agentEventQueue \o <<m>>) \o <<AgentEnd>>
      BY <3>1, Zenon DEF End, RunFinished
    <3> HIDE DEF m
    <3>3. Ending(m, <<m>>) /\ <<m>> \in Seq(Msgs)
      BY <2>1, <2>2, <3>2 DEF Ending, IsAssistant, Replies
    <3> QED BY <2>1, <3>3, EndingProgresses
  <2> QED BY <2>3, <2>4
<1>4. ASSUME NEW kind \in {"error", "failed", "overflow", "aborted"}, RespondWithFailure(kind)
      PROVE  LInv'
  <2> DEFINE m == Made(kind, FALSE)
  <2>1. m \in Msgs /\ m.kind = kind
    BY <1>0, MessageType DEF Replies
  <2>2. /\ UNCHANGED <<lastAssistant, session, raced, unanswered, timers>>
        /\ run.phase = "respond" /\ End(<<m>>, kind)
    BY <1>4, Zenon DEF RespondWithFailure
  <2>3. messages' = messages \o <<m>> /\ run' = NoRun
        /\ agentEventQueue' = (agentEventQueue \o <<m>>) \o <<AgentEnd>>
    BY <2>2, Zenon DEF End, RunFinished
  <2> HIDE DEF m
  <2>4. Ending(m, <<m>>) /\ <<m>> \in Seq(Msgs)
    BY <2>1, <2>2, <2>3 DEF Ending, IsAssistant, Replies
  <2> QED BY <2>1, <2>4, EndingProgresses
<1> QED BY <1>1, <1>2, <1>3, <1>4 DEF AgentStep

(* A run that throws.                                                        *)
LEMMA ThrowProgresses ==
  ASSUME Typed, LInv, NEW kind \in {"error", "failed"}, Throw(kind)
  PROVE  LInv'
<1> PICK seen : seen = IF run.aborted THEN "aborted" ELSE kind
  OBVIOUS
<1> PICK m : m = Made(seen, FALSE)
  OBVIOUS
<1>1. m \in Msgs /\ m.kind \in {"error", "failed", "aborted"}
  BY MessageType DEF Typed, Replies
<1>2. /\ run.phase \in ThrowPhases /\ messages' = Append(messages, m)
      /\ agentEventQueue' = Append(agentEventQueue, AgentEnd)
      /\ run' = NoRun /\ UNCHANGED <<lastAssistant, session, raced, timers>>
      /\ unanswered' = (unanswered \/ ~run.answered)
  BY Zenon DEF Throw, RunFinished, handling
<1>3. run.phase \in {"respond", "tools"}
  BY <1>2, SessionAssumption
<1>4. Ending(m, <<>>)
  <2>1. messages' = messages \o <<m>>
    BY <1>1, <1>2, AppendIsConcat DEF LInv, LTyped
  <2>2. agentEventQueue' = (agentEventQueue \o <<>>) \o <<AgentEnd>>
    BY <1>2, EndType, AppendIsConcat, ConcatEmptySeq DEF Typed
  <2> QED BY <1>1, <1>2, <1>3, <2>1, <2>2 DEF Ending, IsAssistant, Replies
<1> QED BY <1>1, <1>4, EndType, EndingProgresses

LEMMA StartProgresses ==
  ASSUME Typed, LInv, NEW ms \in Seq(Msgs), NEW o \in Callers \cup {"none"},
         Start(ms, o), UNCHANGED <<lastAssistant, session, raced, unanswered>>, timers' \in Nat,
         \A i \in DOMAIN ms : ms[i].kind \in {"user", "result"},
         ms = <<>> => Asks(messages)
  PROVE  LInv'
<1> DEFINE all == ms \o Drained(steering)
<1>1. /\ all \in Seq(Msgs) /\ \A i \in DOMAIN all : all[i].kind \in {"user", "result"}
      /\ all = <<>> => ms = <<>>
  BY PromptedBy DEF Typed
<1>2. run' = StartedBy(o) /\ EmitMessages(all)
  BY Zenon DEF Start
<1>3. run' \in Runs /\ run'.phase = "respond" /\ ~run'.answered
  BY <1>2 DEF Runs, StartedBy, NoRun
<1> HIDE DEF all
<1>4. CASE all # <<>>
  BY <1>1, <1>2, <1>3, <1>4, NotAnswers, GoesOn
<1>5. CASE all = <<>>
  <2>1. messages \o all = messages
    BY <1>5, ConcatEmptySeq DEF LInv, LTyped
  <2>2. Going(all)
    BY <1>1, <1>2, <1>3, <1>5, <2>1 DEF Going, EmitMessages
  <2>3. \A i \in DOMAIN all : all[i].kind \notin {"agent_end", "error"}
    BY <1>1
  <2> QED BY <1>1, <2>2, <2>3, GoingProgresses
<1> QED BY <1>4, <1>5

LEMMA StartFromQueueProgresses ==
  ASSUME Typed, LInv, StartFromQueue, UNCHANGED <<lastAssistant, session, raced, unanswered>>,
         timers' \in Nat
  PROVE  LInv'
<1>1. PICK q \in Seq(UserMsgs) : q # <<>> /\ EmitMessages(Drained(q))
  BY DEF StartFromQueue, Typed
<1>2. run' \in Runs /\ run'.phase = "respond" /\ ~run'.answered
  <2>1. run' = StartedBy("none")
    BY Zenon DEF StartFromQueue
  <2> QED BY <2>1 DEF Runs, StartedBy, NoRun
<1> DEFINE ms == Drained(q)
<1>3. /\ ms \in Seq(Msgs) /\ ms # <<>>
      /\ \A i \in DOMAIN ms : ms[i].kind \in {"user", "result"}
  BY <1>1, DrainedEnds
<1>4. EmitMessages(ms)
  BY <1>1
<1> HIDE DEF ms
<1> QED BY <1>2, <1>3, <1>4, NotAnswers, GoesOn

(* A timer starts the agent, unless it runs, or was left nothing to answer.  *)
LEMMA TimerProgresses == ASSUME Typed, LInv, TimerFires PROVE LInv'
<1> USE DEF handling, retry, agent
<1>1. /\ UNCHANGED <<lastAssistant, session, raced, unanswered, retryPromise, handler>>
      /\ timers' = timers - 1 /\ timers > 0
  BY Zenon DEF TimerFires
<1>2. timers' \in Nat
  BY <1>1 DEF LInv, LTyped
<1>3. CASE messages # <<>> /\ ~EndsInAssistant(messages) /\ Start(<<>>, "none")
  <2> PICK e \in Seq(Msgs) : e = <<>>
    BY EndType
  <2>1. Start(e, "none") /\ \A i \in DOMAIN e : e[i].kind \in {"user", "result"}
    BY <1>3
  <2> QED BY <1>1, <1>2, <1>3, <2>1, StartProgresses DEF Asks
<1>4. CASE StartFromQueue
  BY <1>1, <1>2, <1>4, StartFromQueueProgresses
<1>5. CASE /\ IsStreaming \/ messages = <<>> \/ EndsInAssistant(messages)
           /\ UNCHANGED agent
  <2>1. ~Asks(messages) \/ IsStreaming
    BY <1>5 DEF Asks
  <2>2. UNCHANGED <<messages, run, agentEventQueue>>
    BY <1>5
  <2>3. Editing
    BY <1>1, <1>2, <2>1, <2>2 DEF Editing, LInv, LTyped, Mends, Edited, Revived
  <2> QED BY <2>3, EditingProgresses
<1> QED BY <1>3, <1>4, <1>5, Zenon DEF TimerFires

(* The session's entries are never taken back.                               *)
LEMMA RevivedStays ==
  ASSUME Stored, NEW t \in Seq(Entries), session' = session \o t
  PROVE  Revived => Revived'
<1> SUFFICES ASSUME NEW i \in DOMAIN session,
                    session[i].kind = "compaction", session[i].back
             PROVE  Revived'
  BY DEF Revived
<1>1. i \in DOMAIN session' /\ session'[i] = session[i]
  BY ConcatProperties DEF Stored
<1> QED BY <1>1 DEF Revived

LEMMA SessionGrows ==
  ASSUME Stored, NEW e \in Entries, session' = Append(session, e)
  PROVE  Revived => Revived'
<1>1. session' = session \o <<e>> /\ <<e>> \in Seq(Entries)
  BY AppendIsConcat DEF Stored
<1> QED BY <1>1, RevivedStays

-----------------------------------------------------------------------------
(* The steps of the handler *)

(* What a check of compaction leaves of the transcript.                      *)
LEMMA CheckEdits ==
  ASSUME NEW a, NEW m, NEW skip, NEW ms, NEW behind,
         CheckCompaction(a, m, skip, ms, behind)
  PROVE  messages' \in {ms, StripLastAssistant(ms)} /\ (raced => raced')
BY Zenon DEF CheckCompaction

LEMMA GiveUpEdits ==
  ASSUME NEW m, NEW events, NEW last, GiveUp(m, events, last)
  PROVE  /\ messages' \in {messages, StripLastAssistant(messages)}
         /\ retryPromise' = FALSE /\ (raced => raced')
BY CheckEdits, Zenon DEF GiveUp, ResolveRetry

LEMMA HandlerProgresses ==
  ASSUME Typed, InHand, Stored, LInv, BeginEvent \/ FinishMessage \/ FinishAgentEnd \/ SleepOver
  PROVE  LInv'
<1> USE DEF queues, retry, handling, agent
<1>0. run \in Runs /\ timers \in Nat /\ messages \in Seq(Msgs)
  BY DEF LInv, LTyped
<1>1. CASE BeginEvent
  <2>1. /\ UNCHANGED <<agentEventQueue, lastAssistant, run, timers, messages, raced,
                       unanswered, session, retryPromise>>
        /\ ~HandlerBusy
    BY <1>1, Zenon DEF BeginEvent
  <2>2. Editing
    BY <1>0, <2>1, StripMends DEF Editing, Edited, Revived, HandlerBusy
  <2> QED BY <2>2, EditingProgresses
<1>2. CASE FinishMessage
  <2> DEFINE e == Head(agentEventQueue)
  <2>1. /\ UNCHANGED <<run, timers, messages, raced, retryPromise>>
        /\ handler = "extensions" /\ e.kind # "agent_end"
        /\ agentEventQueue' = Tail(agentEventQueue)
        /\ session' = Append(session, e)
        /\ lastAssistant' = IF IsAssistant(e) THEN e ELSE lastAssistant
        /\ UNCHANGED unanswered
    BY <1>2, Zenon DEF FinishMessage, Persist
  <2>2. agentEventQueue # <<>> /\ e \in Entries
    BY <2>1, HeadAndTail DEF InHand, Typed, Entries
  <2>3. Revived => Revived'
    BY <2>1, <2>2, SessionGrows
  <2>4. Handling
    BY <2>1, <2>2, <2>3 DEF Handling, Edited, Notes
  <2> QED BY <2>4, HandlingProgresses
<1>3. CASE FinishAgentEnd
  <2>1. /\ UNCHANGED <<run, timers, session, unanswered>> /\ lastAssistant' = None
        /\ handler = "extensions" /\ Head(agentEventQueue).kind = "agent_end"
        /\ agentEventQueue' = Tail(agentEventQueue)
    BY <1>3, Zenon DEF FinishAgentEnd
  <2>2. agentEventQueue # <<>> /\ ~IsAssistant(Head(agentEventQueue))
    BY <2>1 DEF InHand, IsAssistant, Replies
  <2>5. /\ messages' \in {messages, StripLastAssistant(messages)}
        /\ raced => raced'
        /\ retryPromise' => \/ lastAssistant = None
                            \/ /\ handler' = "sleeping" /\ lastAssistant.kind = "error"
                               /\ messages' = StripLastAssistant(messages)
    <3>1. CASE lastAssistant.kind = "error" /\ SleepBeforeRetry(lastAssistant)
      BY <3>1, Zenon DEF SleepBeforeRetry
    <3>2. CASE GiveUp(lastAssistant, Tail(agentEventQueue), None)
      BY <3>2, GiveUpEdits
    <3>3. CASE lastAssistant = None /\ UNCHANGED <<messages, raced>>
      BY <3>3
    <3> QED BY <1>3, <3>1, <3>2, <3>3, Zenon DEF FinishAgentEnd
  <2>6. Handling
    BY <2>1, <2>2, <2>5 DEF Handling, Edited, Revived, Notes
  <2> QED BY <2>6, HandlingProgresses
<1>4. CASE SleepOver
  <2>1. /\ UNCHANGED <<agentEventQueue, lastAssistant, run, messages, raced,
                       unanswered, session, retryPromise>>
        /\ timers' = timers + 1
    BY <1>4, Zenon DEF SleepOver
  <2>2. timers' \in Nat /\ timers' > 0
    BY <1>0, <2>1
  <2>3. Editing
    BY <1>0, <2>1, <2>2, StripMends DEF Editing, Edited, Revived
  <2> QED BY <2>3, EditingProgresses
<1> QED BY <1>1, <1>2, <1>3, <1>4

-----------------------------------------------------------------------------
(* The steps of callers and compactions *)

progress == <<agentEventQueue, lastAssistant, run, retryPromise, timers, handler,
              unanswered>>

LEMMA QuietProgresses ==
  ASSUME Typed, Stored, LInv,
         \/ QueueSteer \/ QueueFollowUp \/ ClearQueue \/ UNCHANGED vars
         \/ \E c \in Callers : Return(c)
         \/ \E a \in Actors : CompactionPrepared(a) \/ CompactionFails(a)
  PROVE  LInv'
<1>1. UNCHANGED <<progress, messages, raced, session>>
  BY Zenon DEF QueueSteer, QueueFollowUp, ClearQueue, vars, Return, progress,
               CompactionPrepared, CompactionFails, agent, retry, handling
<1>2. Editing
  BY <1>1, StripMends DEF Editing, progress, Edited, Revived, LInv, LTyped
<1> QED BY <1>2, EditingProgresses

(* The failure that was recovered from leaves the transcript.                *)
LEMMA DoneProgresses ==
  ASSUME Typed, Stored, LInv, NEW a \in Actors, CompactionDone(a)
  PROVE  LInv'
<1>1. /\ UNCHANGED <<run, agentEventQueue, lastAssistant, handler, retryPromise,
                     raced, unanswered, session>>
      /\ timers' \in {timers, timers + 1}
      /\ messages' \in {messages, StripLastAssistant(messages)}
  <2>1. /\ UNCHANGED <<run, agentEventQueue, lastAssistant, handler, retryPromise,
                       raced, unanswered, session>>
        /\ timers' \in {timers, timers + 1}
        /\ messages' = IF compacting[a].reason = "overflow" /\ messages # <<>>
                          /\ IsError(Last(messages))
                       THEN WithoutLast(messages) ELSE messages
    BY Zenon DEF CompactionDone, retry, handling
  <2>2. messages # <<>> /\ IsError(Last(messages))
          => StripLastAssistant(messages) = WithoutLast(messages)
    BY DEF StripLastAssistant, EndsInAssistant, IsError, IsAssistant, Replies
  <2> QED BY <2>1, <2>2
<1>2. messages' \in Seq(Msgs) /\ Mends(messages, messages')
  BY <1>1, StripIsShorter, StripMends DEF LInv, LTyped
<1>3. Editing
  BY <1>1, <1>2 DEF Editing, Edited, Revived, LInv, LTyped
<1> QED BY <1>3, EditingProgresses

LEMMA AbortProgresses == ASSUME Typed, Stored, LInv, Abort PROVE LInv'
<1>1. /\ UNCHANGED <<agentEventQueue, lastAssistant, session, timers, unanswered>>
      /\ run' = IF IsStreaming THEN [run EXCEPT !.aborted = TRUE] ELSE run
      /\ retryPromise' = FALSE
      /\ messages' \in {messages, StripLastAssistant(messages)} /\ (raced => raced')
  <2>1. \/ GiveUp(handled, agentEventQueue, lastAssistant)
        \/ /\ ResolveRetry(agentEventQueue, lastAssistant)
           /\ UNCHANGED <<messages, raced>>
    BY Zenon DEF Abort
  <2>2. /\ retryPromise' = FALSE
        /\ messages' \in {messages, StripLastAssistant(messages)} /\ (raced => raced')
    <3>1. CASE GiveUp(handled, agentEventQueue, lastAssistant)
      BY <3>1, GiveUpEdits, Zenon
    <3>2. CASE /\ ResolveRetry(agentEventQueue, lastAssistant)
               /\ UNCHANGED <<messages, raced>>
      <4>1. retryPromise' = FALSE
        BY <3>2, Zenon DEF ResolveRetry
      <4> QED BY <3>2, <4>1
    <3> QED BY <2>1, <3>1, <3>2
  <2>3. UNCHANGED <<agentEventQueue, lastAssistant, session, timers, unanswered>>
    BY Zenon DEF Abort
  <2>4. run' = IF IsStreaming THEN [run EXCEPT !.aborted = TRUE] ELSE run
    BY Zenon DEF Abort
  <2> QED BY <2>2, <2>3, <2>4
<1>2. run' \in Runs /\ run'.phase = run.phase /\ run'.answered = run.answered
  BY <1>1 DEF LInv, LTyped, Runs
<1>3. messages' \in Seq(Msgs) /\ Mends(messages, messages')
  BY <1>1, StripIsShorter, StripMends DEF LInv, LTyped
<1>4. Editing
  BY <1>1, <1>2, <1>3 DEF Editing, Edited, Revived, LInv, LTyped
<1> QED BY <1>4, EditingProgresses

LEMMA PromptProgresses ==
  ASSUME Typed, Stored, LInv, NEW c \in Callers, Prompt(c)
  PROVE  LInv'
<1> DEFINE ms == messages \o pendingBash
<1>1. /\ UNCHANGED progress
      /\ session' = session \o pendingBash
      /\ messages' \in {ms, StripLastAssistant(ms)} /\ (raced => raced')
  <2>1. /\ UNCHANGED progress
        /\ session' = session \o pendingBash
        /\ \/ messages' = ms /\ raced' = (raced \/ (pendingBash # <<>> /\ Behind))
           \/ \E m, behind : CheckCompaction(c, m, FALSE, ms, behind)
    BY Zenon DEF Prompt, Flushed, progress, handling, retry
  <2> HIDE DEF ms
  <2> QED BY <2>1, CheckEdits
<1>2. ms \in Seq(Msgs) /\ Mends(messages, ms) /\ Mends(messages, StripLastAssistant(ms))
  BY BashMends DEF LInv, LTyped, Stored
<1>3. StripLastAssistant(ms) \in Seq(Msgs)
  BY <1>2, StripIsShorter
<1>4. Revived => Revived'
  BY <1>1, MsgsAreEntries, RevivedStays DEF Stored
<1> HIDE DEF ms
<1>5. Editing
  BY <1>1, <1>2, <1>3, <1>4 DEF Editing, progress, Edited, LInv, LTyped
<1> QED BY <1>5, EditingProgresses

LEMMA BashProgresses ==
  ASSUME Typed, Stored, LInv, RecordBashResult
  PROVE  LInv'
<1> DEFINE m == Made("bash", FALSE)
<1>1. m \in Msgs /\ m.kind = "bash"
  BY MessageType DEF Typed
<1>2. m \in BashMsgs /\ m \in Entries
  BY <1>1 DEF BashMsgs, Entries
<1>3. /\ UNCHANGED progress
      /\ raced => raced'
      /\ \/ messages' = messages /\ session' = session
         \/ messages' = Append(messages, m) /\ session' = Append(session, m)
  <2>1. UNCHANGED progress
    BY Zenon DEF RecordBashResult, progress, handling, retry
  <2>2. \/ messages' = messages /\ session' = session /\ raced' = raced
        \/ /\ messages' = Append(messages, m) /\ session' = Append(session, m)
           /\ raced' = (raced \/ Behind)
    BY Zenon DEF RecordBashResult
  <2> HIDE DEF m
  <2>3. raced => raced'
    BY <2>2, Zenon
  <2>4. \/ messages' = messages /\ session' = session
        \/ messages' = Append(messages, m) /\ session' = Append(session, m)
    BY <2>2, Zenon
  <2> QED BY <2>1, <2>3, <2>4
<1> HIDE DEF m
<1>4. /\ Append(messages, m) \in Seq(Msgs) /\ Mends(messages, Append(messages, m))
  <2>1. <<m>> \in Seq(BashMsgs)
    BY <1>2
  <2>2. messages \o <<m>> = Append(messages, m)
    BY <1>1, AppendIsConcat DEF LInv, LTyped
  <2> QED BY <2>1, <2>2, BashMends DEF LInv, LTyped
<1>5. Revived => Revived'
  BY <1>2, <1>3, SessionGrows DEF Revived
<1>6. Editing
  BY <1>3, <1>4, <1>5, StripMends DEF Editing, progress, Edited, LInv, LTyped
<1> QED BY <1>6, EditingProgresses

LEMMA SendProgresses ==
  ASSUME Typed, Stored, LInv, NEW c \in Callers, Send(c)
  PROVE  LInv'
<1>1. UNCHANGED <<lastAssistant, session, raced, unanswered, timers, retryPromise, handler>>
  BY Zenon DEF Send, handling, retry
<1>2. CASE Start(<<Made("user", FALSE)>>, c)
  <2> PICK m : m = Made("user", FALSE)
    OBVIOUS
  <2>1. m \in Msgs /\ m.kind = "user"
    BY MessageType DEF Typed
  <2>2. /\ <<m>> \in Seq(Msgs) /\ <<m>> # <<>> /\ Start(<<m>>, c)
        /\ \A i \in DOMAIN <<m>> : <<m>>[i].kind \in {"user", "result"}
    BY <1>2, <2>1, OnePrompt
  <2>3. PICK ms \in Seq(Msgs) : ms = <<m>>
    BY <2>2
  <2>4. timers' \in Nat
    BY <1>1 DEF LInv, LTyped
  <2> QED BY <1>1, <2>2, <2>3, <2>4, StartProgresses
<1>3. CASE UNCHANGED agent
  <2>1. Editing
    BY <1>1, <1>3, StripMends DEF agent, Editing, Edited, Revived, LInv, LTyped
  <2> QED BY <2>1, EditingProgresses
<1> QED BY <1>2, <1>3, Zenon DEF Send

-----------------------------------------------------------------------------
(* What the model is shown of a session that was just compacted              *)

(* The messages of the first i entries, from those of the first i - 1.       *)
Collected(s, f, i) ==
  IF i = 0 THEN <<>>
  ELSE IF IsMessage(s[i]) THEN Append(f[i - 1], s[i]) ELSE f[i - 1]

Collects(s, f, n) ==
  \A i \in 0..n : f[i] = Collected(s, f, i)

LEMMA CollectExists ==
  ASSUME NEW s, NEW n \in Nat
  PROVE  \E f : f = [i \in 0..n |-> Collected(s, f, i)]
<1> DEFINE A == {k \in 0..n : \A f : ~Collects(s, f, k)}
<1>1. A = {}
  <2> SUFFICES ASSUME A # {} PROVE FALSE
    OBVIOUS
  <2>1. PICK k \in A : \A l \in A : k <= l
    <3>1. A \in SUBSET Nat
      OBVIOUS
    <3> HIDE DEF A
    <3> QED BY <3>1, Smallest, Zenon
  <2>2. k \in 0..n /\ \A f : ~Collects(s, f, k)
    OBVIOUS
  <2>3. k # 0
    <3> SUFFICES ASSUME k = 0 PROVE FALSE
      OBVIOUS
    <3> PICK e : e = <<>>
      OBVIOUS
    <3> PICK f : f = [i \in 0..0 |-> e]
      OBVIOUS
    <3>1. Collects(s, f, 0)
      BY DEF Collects, Collected
    <3> QED BY <2>2, <3>1
  <2>4. k - 1 \in 0..n /\ k - 1 \notin A
    <3>1. k - 1 \in 0..n /\ ~(k <= k - 1)
      BY <2>2, <2>3
    <3> HIDE DEF A
    <3> QED BY <2>1, <3>1, Zenon
  <2>5. PICK f : Collects(s, f, k - 1)
    BY <2>4
  <2> PICK g : g = [i \in 0..k |-> IF i # k THEN f[i]
                                   ELSE IF IsMessage(s[k]) THEN Append(f[k - 1], s[k])
                                   ELSE f[k - 1]]
    OBVIOUS
  <2>6. Collects(s, g, k)
    <3> SUFFICES ASSUME NEW i \in 0..k
                 PROVE  g[i] = Collected(s, g, i)
      BY DEF Collects
    <3>1. i # 0 => i - 1 \in 0..k /\ i - 1 # k /\ g[i - 1] = f[i - 1]
      BY <2>2
    <3>2. CASE i = k
      BY <2>3, <3>1, <3>2 DEF Collected
    <3>3. CASE i # k
      <4>1. i \in 0..(k - 1) /\ g[i] = f[i]
        BY <2>2, <3>3
      <4>2. f[i] = Collected(s, f, i)
        BY <2>5, <4>1 DEF Collects
      <4> QED BY <3>1, <4>1, <4>2 DEF Collected
    <3> QED BY <3>2, <3>3
  <2> QED BY <2>2, <2>6
<1>2. PICK f : Collects(s, f, n)
  <2>1. n \in 0..n
    OBVIOUS
  <2> QED BY <1>1, <2>1
<1> DEFINE g == [i \in 0..n |-> f[i]]
<1>3. Collects(s, g, n)
  <2> SUFFICES ASSUME NEW i \in 0..n
               PROVE  g[i] = Collected(s, g, i)
    BY DEF Collects
  <2>1. g[i] = f[i] /\ (i # 0 => i - 1 \in 0..n /\ g[i - 1] = f[i - 1])
    OBVIOUS
  <2> HIDE DEF g
  <2> QED BY <1>2, <2>1 DEF Collects, Collected
<1>4. g = [i \in 0..n |-> g[i]]
  OBVIOUS
<1> HIDE DEF g
<1> QED BY <1>3, <1>4 DEF Collects

LEMMA MessagesTyped ==
  ASSUME NEW s \in Seq(Entries)
  PROVE  MessagesOf(s) \in Seq(Msgs)
<1> PICK n \in Nat : n = Len(s)
  BY LenProperties
<1>1. PICK t : t = CHOOSE f : f = [i \in 0..n |-> Collected(s, f, i)]
  OBVIOUS
<1>2. MessagesOf(s) = t[n]
  BY <1>1, Zenon DEF MessagesOf, Collected
<1>3. t = [i \in 0..n |-> Collected(s, t, i)]
  <2>1. \E f : f = [i \in 0..n |-> Collected(s, f, i)]
    BY CollectExists, Zenon
  <2> QED BY <1>1, <2>1, Zenon
<1>4. \A i \in 0..n : t[i] = Collected(s, t, i)
  BY <1>3
<1> DEFINE A == {i \in 0..n : t[i] \notin Seq(Msgs)}
<1>5. A = {}
  <2> SUFFICES ASSUME A # {} PROVE FALSE
    OBVIOUS
  <2>1. PICK k \in A : \A l \in A : k <= l
    <3>1. A \in SUBSET Nat
      OBVIOUS
    <3> HIDE DEF A
    <3> QED BY <3>1, Smallest, Zenon
  <2>2. k \in 0..n /\ t[k] \notin Seq(Msgs)
    OBVIOUS
  <2>3. k # 0
    <3>1. 0 \in 0..n
      OBVIOUS
    <3>2. t[0] = <<>>
      BY <1>4, <3>1, Zenon DEF Collected
    <3> QED BY <2>2, <3>2, EmptySeq
  <2>4. k - 1 \in 0..n /\ ~(k <= k - 1)
    BY <2>2, <2>3
  <2>5. t[k - 1] \in Seq(Msgs)
    <3>1. k - 1 \notin A
      <4> HIDE DEF A
      <4> QED BY <2>1, <2>4, Zenon
    <3> QED BY <2>4, <3>1
  <2>6. IsMessage(s[k]) => s[k] \in Msgs
    <3>1. s[k] \in Entries
      BY <2>2, <2>3
    <3> QED BY <3>1 DEF IsMessage, Entries, Summaries
  <2>7. t[k] = IF IsMessage(s[k]) THEN Append(t[k - 1], s[k]) ELSE t[k - 1]
    BY <1>4, <2>2, <2>3 DEF Collected
  <2>8. IsMessage(s[k]) => Append(t[k - 1], s[k]) \in Seq(Msgs)
    BY <2>5, <2>6, AppendProperties
  <2> QED BY <2>2, <2>5, <2>7, <2>8
<1> QED BY <1>2, <1>5

LEMMA LatestIsLast ==
  ASSUME NEW s \in Seq(Entries), NEW e \in Summaries
  PROVE  LatestCompaction(Append(s, e)) = Len(s) + 1
<1> PICK n \in Nat : n = Len(s)
  BY LenProperties
<1> PICK t : t = Append(s, e)
  OBVIOUS
<1>1. DOMAIN t = 1..(n + 1) /\ t[n + 1] = e /\ e.kind = "compaction"
  <2>1. e \in Entries
    BY DEF Entries
  <2> QED BY <2>1, AppendProperties, LenProperties DEF Summaries
<1> DEFINE all == {i \in DOMAIN t : t[i].kind = "compaction"}
<1>2. n + 1 \in all /\ \A j \in all : j <= n + 1 /\ j \in Nat
  BY <1>1
<1>3. LatestCompaction(t) = CHOOSE i \in all : \A j \in all : j <= i
  BY <1>2 DEF LatestCompaction
<1> HIDE DEF all
<1>4. (CHOOSE i \in all : \A j \in all : j <= i) = n + 1
  <2> PICK c : c = CHOOSE i \in all : \A j \in all : j <= i
    OBVIOUS
  <2>1. c \in all /\ \A j \in all : j <= c
    BY <1>2
  <2> QED BY <1>2, <2>1
<1> QED BY <1>3, <1>4

(* The summary, what was kept and nothing more.                              *)
LEMMA ShownTyped ==
  ASSUME NEW s \in Seq(Entries), NEW e \in Summaries, e.first # 0
  PROVE  Shown(Append(s, e)) \in Seq(Msgs) /\ Shown(Append(s, e)) # <<>>
<1> PICK n \in Nat : n = Len(s)
  BY LenProperties
<1> PICK t : t = Append(s, e)
  OBVIOUS
<1>1. /\ t \in Seq(Entries) /\ Len(t) = n + 1 /\ t[n + 1] = e
      /\ \A i \in 1..n : t[i] = s[i] /\ s[i] \in Entries
      /\ LatestCompaction(t) = n + 1 /\ n + 1 # 0
  <2>1. e \in Entries
    BY DEF Entries
  <2> QED BY <2>1, LatestIsLast, AppendProperties, LenProperties
<1> DEFINE summary == Message("summary", e.n, FALSE)
           middle == MessagesOf(SubSeq(t, e.first, n))
<1>2. Shown(t) = (<<summary>> \o middle) \o SubSeq(t, n + 2, n + 1)
  <2>1. Shown(t) = (<<Message("summary", t[n + 1].n, FALSE)>>
                     \o MessagesOf(SubSeq(t, t[n + 1].first, (n + 1) - 1)))
                     \o SubSeq(t, (n + 1) + 1, Len(t))
    BY <1>1, Zenon DEF Shown, BuildSessionContext
  <2>2. (n + 1) - 1 = n /\ (n + 1) + 1 = n + 2
    OBVIOUS
  <2> QED BY <1>1, <2>1, <2>2, Zenon
<1>3. <<summary>> \in Seq(Msgs) /\ <<summary>> # <<>>
  <2>1. summary \in Msgs
    BY DEF Message, Msgs, Summaries
  <2> HIDE DEF summary
  <2> QED BY <2>1
<1>4. middle \in Seq(Msgs)
  <2>1. e.first \in Int /\ n \in Int /\ \A i \in e.first..n : t[i] \in Entries
    BY <1>1 DEF Summaries
  <2>2. SubSeq(t, e.first, n) \in Seq(Entries)
    BY <2>1, SubSeqProperties
  <2> QED BY <2>2, MessagesTyped
<1>5. SubSeq(t, n + 2, n + 1) = <<>>
  BY SubSeqEmpty
<1> HIDE DEF summary, middle
<1>6. <<summary>> \o middle \in Seq(Msgs) /\ <<summary>> \o middle # <<>>
  <2>1. Len(<<summary>> \o middle) = 1 + Len(middle) /\ Len(middle) \in Nat
    BY <1>3, <1>4, ConcatProperties
  <2>2. Len(<<summary>> \o middle) # 0 /\ <<summary>> \o middle \in Seq(Msgs)
    BY <1>3, <1>4, <2>1, ConcatProperties
  <2> QED BY <2>2, EmptySeq
<1>7. Shown(t) = <<summary>> \o middle
  BY <1>2, <1>5, <1>6, ConcatEmptySeq
<1> QED BY <1>6, <1>7

LEMMA AppendedLast ==
  ASSUME NEW s \in Seq(Entries), NEW x \in Entries
  PROVE  Len(s) + 1 \in DOMAIN Append(s, x) /\ Append(s, x)[Len(s) + 1] = x
BY AppendProperties, LenProperties

(* The transcript of a compacted session does not end in an answer, unless   *)
(* nothing depends on it or the summary says so.                             *)
LEMMA SavedProgresses ==
  ASSUME Typed, Stored, LInv, NEW a \in Actors, CompactionSaved(a)
  PROVE  LInv'
<1> PICK c \in Compactions : c = compacting[a]
  BY DEF Stored
<1> PICK back \in BOOLEAN : back = BringsBack(messages')
  BY DEF BringsBack
<1> DEFINE e(b) == Compacted(made + 1, c, b)
<1>1. /\ UNCHANGED progress /\ c.first # 0
      /\ messages' = Shown(Append(session, e(FALSE)))
      /\ session' = Append(session, e(back))
      /\ raced' = (raced \/ Behind)
  BY Zenon DEF CompactionSaved, progress, handling, retry
<1>2. \A b \in BOOLEAN : e(b) \in Summaries /\ e(b).first = c.first
                         /\ e(b).back = b /\ e(b).kind = "compaction"
  BY DEF Typed, Compacted, Compactions, Summaries
<1> HIDE DEF e
<1>3. messages' \in Seq(Msgs) /\ messages' # <<>>
  BY <1>1, <1>2, ShownTyped DEF Stored
<1>4. Edited => Edited'
  <2>1. e(back) \in Entries
    BY <1>2 DEF Entries
  <2>2. Revived => Revived'
    BY <1>1, <2>1, SessionGrows
  <2>3. unanswered' = unanswered
    BY <1>1 DEF progress
  <2> QED BY <1>1, <2>2, <2>3, Zenon DEF Edited
<1>5. back => Revived'
  <2> PICK n \in Nat : n = Len(session)
    BY LenProperties DEF Stored
  <2>1. e(back) \in Entries
    BY <1>2 DEF Entries
  <2>2. n + 1 \in DOMAIN session' /\ session'[n + 1] = e(back)
    <3>1. Append(session, e(back))[n + 1] = e(back)
      BY <2>1, AppendedLast DEF Stored
    <3>2. n + 1 \in DOMAIN Append(session, e(back))
      BY <2>1, AppendedLast DEF Stored
    <3> QED BY <1>1, <3>1, <3>2, Zenon
  <2> QED BY <1>2, <2>2 DEF Revived
<1>6. \/ Edited'
      \/ Asks(messages')
      \/ run.phase = "tools"
      \/ ~IsStreaming /\ agentEventQueue = <<>> /\ ~retryPromise
  BY <1>3, <1>5 DEF BringsBack, Asks, Edited
<1>7. Editing
  BY <1>1, <1>3, <1>4, <1>6 DEF Editing, progress, LInv, LTyped
<1> QED BY <1>7, EditingProgresses

-----------------------------------------------------------------------------
LEMMA LInit == Init => LInv
<1> SUFFICES ASSUME Init PROVE LInv
  OBVIOUS
<1>1. LTyped
  BY EndType DEF Init, LTyped, Runs, NoRun
<1>2. /\ ~IsStreaming /\ agentEventQueue = <<>> /\ retryPromise = FALSE
      /\ run.phase = "idle" /\ ~run.answered /\ lastAssistant = None
  BY DEF Init, IsStreaming, NoRun
<1>3. EndsFollow(agentEventQueue, lastAssistant)
  BY <1>2 DEF EndsFollow
<1>4. ~FailsAtOnce(agentEventQueue, lastAssistant)
  BY <1>2 DEF FailsAtOnce, Prior, None, Message
<1> QED BY <1>1, <1>2, <1>3, <1>4 DEF LInv, Events, Transcript, FailedLast

LEMMA LNext ==
  ASSUME IInv, SInv, LInv, [Next]_vars
  PROVE  LInv'
<1>1. Typed /\ InHand /\ Stored
  BY DEF IInv, SInv
<1>2. CASE AgentStep
  BY <1>1, <1>2, AgentProgresses
<1>3. ASSUME NEW kind \in {"error", "failed"}, Throw(kind) PROVE LInv'
  BY <1>1, <1>3, ThrowProgresses
<1>4. CASE SessionStep
  BY <1>1, <1>4, HandlerProgresses, TimerProgresses DEF SessionStep
<1>5. ASSUME NEW a \in Actors, CompactionStep(a) PROVE LInv'
  BY <1>1, <1>5, QuietProgresses, SavedProgresses, DoneProgresses DEF CompactionStep
<1>6. ASSUME NEW c \in Callers, Prompt(c) \/ CallerStep(c) PROVE LInv'
  BY <1>1, <1>6, PromptProgresses, SendProgresses, QuietProgresses DEF CallerStep
<1>7. CASE QueueSteer \/ QueueFollowUp \/ ClearQueue \/ UNCHANGED vars
  BY <1>1, <1>7, QuietProgresses
<1>8. CASE Abort \/ RecordBashResult
  BY <1>1, <1>8, AbortProgresses, BashProgresses
<1> QED BY <1>2, <1>3, <1>4, <1>5, <1>6, <1>7, <1>8, Zenon DEF Next

(* While the promise that prompt() waits for is pending, something is under  *)
(* way that resolves it (agent-session.ts 2485-2487), for any callers,       *)
(* retries and bounds and wherever runs throw, but for the transcripts that  *)
(* were edited and the runs that were never answered, which it names.        *)
THEOREM RetryProgresses == Spec => []RetryInProgress
<1>1. IInv /\ SInv /\ LInv => RetryInProgress
  BY ProgressMeans DEF IInv
<1>2. Init => IInv /\ SInv /\ LInv
  BY InitInv, SInit, LInit
<1>3. (IInv /\ SInv /\ LInv) /\ [Next]_vars => (IInv /\ SInv /\ LInv)'
  BY NextInv, SNext, LNext
<1> QED BY <1>1, <1>2, <1>3, PTL DEF Spec
=============================================================================
