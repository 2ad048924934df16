------------------------------ MODULE BotProofs ------------------------------
(***************************************************************************)
(* The conversation queue, the two bots that use it and the event files.    *)
(*                                                                          *)
(* The queue implements a serial executor, for any tasks: the flag and the  *)
(* suspended activation come and go together (OneActivation).               *)
(*                                                                          *)
(* The Feishu bot, for any messages, time to live, size of the filter and   *)
(* bounds: a conversation is served by a serial executor that only a crash  *)
(* empties, and the filter lets no message through again before its time.   *)
(*                                                                          *)
(* A channel of mom, for any messages, events, bounds and texts: only       *)
(* events of the scheduler ever wait, and no more than the bound; what was  *)
(* said before a run is in its context; a message is told to the model once,*)
(* but what Slack delivers again, and what an unknown user said.            *)
(*                                                                          *)
(* An event file of mom, for any contents and bounds: unless a change of it *)
(* crossed the handling of an earlier one, what may still fire is what the  *)
(* file calls for; an event is executed once and in time.                   *)
(***************************************************************************)
EXTENDS FeishuBot, SlackChannel, SlackEvents, SequenceTheorems, FiniteSetTheorems, TLAPS

-----------------------------------------------------------------------------
(* The conversation queue.                                                  *)
IInv == TypeOK /\ OneActivation /\ NeverStalls

(* What enqueue() and the `finally' of processNext() have in common: called *)
(* with a queue of tasks and a flag that tells whether an activation is     *)
(* left, processNext() keeps the flag true to the activations.              *)
LEMMA ProcessNextKeeps ==
  ASSUME NEW q \in Seq(Tasks), NEW busy \in BOOLEAN, NEW others,
         IF busy THEN \E u \in Tasks : others = {u} ELSE others = {},
         ProcessNext(q, busy, others)
  PROVE  /\ tasks' \in Seq(Tasks) /\ processing' \in BOOLEAN
         /\ others \subseteq activations' /\ activations' \subseteq Tasks
         /\ OneActivation' /\ NeverStalls'
<1>1. CASE busy \/ q = <<>>
  <2>1. tasks' = q /\ processing' = busy /\ activations' = others
    BY <1>1, Zenon DEF ProcessNext
  <2> QED BY <1>1, <2>1 DEF OneActivation, NeverStalls
<1>2. CASE ~(busy \/ q = <<>>)
  <2>1. /\ tasks' = Tail(q) /\ processing' = TRUE
        /\ activations' = others \cup {Head(q)}
    BY <1>2, Zenon DEF ProcessNext
  <2>2. Head(q) \in Tasks /\ Tail(q) \in Seq(Tasks)
    BY <1>2, SMT
  <2>3. others = {}
    BY <1>2
  <2> QED BY <2>1, <2>2, <2>3 DEF OneActivation, NeverStalls
<1> QED BY <1>1, <1>2

(* The invariant holds at the start ...                                     *)
LEMMA InitKeeps == Init => IInv
<1> SUFFICES ASSUME Init PROVE IInv
  OBVIOUS
<1>1. TypeOK
  <2>1. <<>> \in Seq(Tasks)
    OBVIOUS
  <2> QED BY <2>1, Zenon DEF Init, TypeOK
<1>2. OneActivation /\ NeverStalls
  BY Zenon DEF Init, OneActivation, NeverStalls
<1> QED BY <1>1, <1>2, Zenon DEF IInv

(* ... and every step of the queue keeps it.                                *)
LEMMA StepKeeps == ASSUME IInv, [Next]_vars PROVE IInv'
<1> USE DEF IInv
<1>1. ASSUME NEW t \in Tasks, Enqueue(t) PROVE IInv'
  <2>1. Append(tasks, t) \in Seq(Tasks)
    BY SMT DEF TypeOK
  <2>2. ProcessNext(Append(tasks, t), processing, activations)
    BY <1>1, Zenon DEF Enqueue
  <2>3. /\ tasks' \in Seq(Tasks) /\ processing' \in BOOLEAN
        /\ activations \subseteq activations' /\ activations' \subseteq Tasks
        /\ OneActivation' /\ NeverStalls'
    BY <2>1, <2>2, ProcessNextKeeps, Zenon DEF TypeOK, OneActivation
  <2>4. settled' \subseteq activations' /\ enqueued' \subseteq Tasks
    BY <1>1, <2>3 DEF Enqueue, TypeOK
  <2> QED BY <2>3, <2>4 DEF TypeOK
<1>2. ASSUME NEW t \in Tasks, Settle(t) PROVE IInv'
  BY <1>2, SMT DEF Settle, TypeOK, OneActivation, NeverStalls
<1>3. ASSUME NEW t \in Tasks, Resume(t) PROVE IInv'
  <2>1. activations \ {t} = {} /\ settled \ {t} = {}
    BY <1>3 DEF Resume, TypeOK, OneActivation
  <2>2. ProcessNext(tasks, FALSE, activations \ {t})
    BY <1>3, Zenon DEF Resume
  <2>3. /\ tasks' \in Seq(Tasks) /\ processing' \in BOOLEAN
        /\ activations' \subseteq Tasks /\ OneActivation' /\ NeverStalls'
    BY <2>1, <2>2, ProcessNextKeeps, Zenon DEF TypeOK
  <2>4. settled' \subseteq activations' /\ enqueued' \subseteq Tasks
    BY <1>3, <2>1 DEF Resume, TypeOK
  <2> QED BY <2>3, <2>4 DEF TypeOK
<1>4. CASE Clear
  BY <1>4, SMT DEF Clear, TypeOK, OneActivation, NeverStalls
<1>5. CASE UNCHANGED vars
  BY <1>5, SMT DEF vars, TypeOK, OneActivation, NeverStalls
<1> QED BY <1>1, <1>2, <1>3, <1>4, <1>5, Zenon DEF Next

(* The invariant holds in every reachable state of the queue.               *)
THEOREM Invariance == Spec => []IInv
BY InitKeeps, StepKeeps, PTL DEF Spec

(* Whatever waits has an activation that will start it.                     *)
THEOREM NoStall == Spec => []NeverStalls
BY Invariance, PTL DEF IInv

(* Refinement, step by step: enqueue() is a Submit, the resumption of an    *)
(* activation a Finish, clear() a Discard, and a promise that settles a     *)
(* stutter.                                                                 *)
LEMMA StepRefines ==
  ASSUME IInv, [Next]_vars
  PROVE  [Abstract!Next]_(Abstract!vars)
<1> USE DEF IInv
<1>1. ASSUME NEW t \in Tasks, Enqueue(t) PROVE Abstract!Submit(t)
  <2>1. ProcessNext(Append(tasks, t), processing, activations)
    BY <1>1, Zenon DEF Enqueue
  <2>2. CASE processing
    <3>1. activations # {}
      BY <2>2 DEF OneActivation
    <3>2. tasks' = Append(tasks, t) /\ activations' = activations
      BY <2>1, <2>2, Zenon DEF ProcessNext
    <3> QED BY <3>1, <3>2, Zenon DEF Abstract!Submit
  <2>3. CASE ~processing
    <3>1. activations = {} /\ tasks = <<>>
      BY <2>3, Zenon DEF OneActivation, NeverStalls
    <3>2. /\ Append(tasks, t) # <<>> /\ Head(Append(tasks, t)) = t
          /\ Tail(Append(tasks, t)) = <<>>
      BY <3>1, SMT
    <3>3. tasks' = <<>> /\ activations' = {} \cup {t}
      BY <2>1, <2>3, <3>1, <3>2, Zenon DEF ProcessNext
    <3>4. tasks' = tasks /\ activations' = {t}
      BY <3>1, <3>3
    <3> QED BY <3>1, <3>4, Zenon DEF Abstract!Submit
  <2> QED BY <2>2, <2>3
<1>2. ASSUME NEW t \in Tasks, Settle(t) PROVE UNCHANGED Abstract!vars
  BY <1>2, Zenon DEF Settle, Abstract!vars
<1>3. ASSUME NEW t \in Tasks, Resume(t) PROVE Abstract!Finish
  <2>1. activations # {} /\ activations \ {t} = {}
    BY <1>3 DEF Resume, TypeOK, OneActivation
  <2>2. ProcessNext(tasks, FALSE, {})
    BY <1>3, <2>1, Zenon DEF Resume
  <2>3. CASE tasks = <<>>
    BY <2>1, <2>2, <2>3, Zenon DEF ProcessNext, Abstract!Finish
  <2>4. CASE tasks # <<>>
    <3>1. tasks' = Tail(tasks) /\ activations' = {Head(tasks)}
      BY <2>2, <2>4 DEF ProcessNext
    <3> QED BY <2>1, <2>4, <3>1, Zenon DEF Abstract!Finish
  <2> QED BY <2>3, <2>4
<1>4. CASE Clear
  BY <1>4, Zenon DEF Clear, Abstract!Next, Abstract!Discard
<1>5. CASE UNCHANGED vars
  BY <1>5, Zenon DEF vars, Abstract!vars
<1> QED
  BY <1>1, <1>2, <1>3, <1>4, <1>5, Zenon DEF Next, Abstract!Next

(* The queue implements a serial executor.                                  *)
THEOREM Refinement == Spec => ImplementsSerialExecutor
<1>1. Init => Abstract!Init
  BY Zenon DEF Init, Abstract!Init
<1> QED BY <1>1, StepRefines, Invariance, PTL
        DEF Spec, ImplementsSerialExecutor, Abstract!Spec

-----------------------------------------------------------------------------
(* The conversation queue inside the bot.                                   *)
QueueInv == IInv /\ crashes \in Nat

(* To the queue a step of the bot is a step of its own, or a crash.         *)
LEMMA BotStep ==
  ASSUME [BotNext]_botVars
  PROVE  \/ [Next]_vars /\ (crashes' = crashes)
         \/ Crash
<1>1. ASSUME NEW m \in Messages \cup Strangers, Deliver(m) PROVE UNCHANGED <<vars, crashes>>
  BY <1>1, Zenon DEF Deliver, vars
<1>2. ASSUME NEW t \in Tasks, LogLands(t) PROVE UNCHANGED <<vars, crashes>>
  BY <1>2, Zenon DEF LogLands, vars
<1>3. ASSUME NEW t \in Tasks, LogFails(t) PROVE UNCHANGED <<vars, crashes>>
  BY <1>3, Zenon DEF LogFails, vars
<1>4. ASSUME NEW t \in Tasks, GoesOn(t) PROVE Next /\ UNCHANGED crashes
  BY <1>4, Zenon DEF GoesOn, Next
<1>5. ASSUME NEW t \in Tasks, Runs(t) PROVE Next /\ UNCHANGED crashes
  BY <1>5, Zenon DEF Runs, Next
<1>6. CASE Tick
  BY <1>6, Zenon DEF Tick, vars
<1>7. CASE UNCHANGED botVars
  BY <1>7, Zenon DEF botVars, vars
<1> QED BY <1>1, <1>2, <1>3, <1>4, <1>5, <1>6, <1>7, Zenon DEF BotNext

LEMMA CrashKeeps == ASSUME QueueInv, Crash PROVE QueueInv' /\ crashes' > crashes
<1>1. /\ tasks' = <<>> /\ processing' = FALSE /\ activations' = {} /\ settled' = {}
      /\ enqueued' = enqueued /\ crashes' = crashes + 1
  BY Zenon DEF Crash
<1>2. <<>> \in Seq(Tasks)
  OBVIOUS
<1>3. IInv'
  BY <1>1, <1>2, Zenon DEF QueueInv, IInv, TypeOK, OneActivation, NeverStalls
<1> QED BY <1>1, <1>3, SMT DEF QueueInv

LEMMA QueueInvariance == BotSpec => []QueueInv
<1>1. BotInit => QueueInv
  BY InitKeeps, SMT DEF BotInit, QueueInv
<1>2. ASSUME QueueInv, [BotNext]_botVars PROVE QueueInv'
  <2>1. CASE [Next]_vars /\ (crashes' = crashes)
    BY <1>2, <2>1, StepKeeps, Zenon DEF QueueInv
  <2>2. CASE Crash
    BY <1>2, <2>2, CrashKeeps, Zenon
  <2> QED BY <1>2, <2>1, <2>2, BotStep, Zenon
<1> QED BY <1>1, <1>2, PTL DEF BotSpec

(* The conversation is served by a serial executor, whatever is delivered   *)
(* or redelivered, logged late or not at all; a crash empties it.           *)
THEOREM Serial == BotSpec => ServesInTurn
<1>1. ASSUME QueueInv, [BotNext]_botVars
      PROVE  [Abstract!Next \/ (crashes' > crashes /\ Emptied)]_<<tasks, activations>>
  <2>1. CASE [Next]_vars /\ (crashes' = crashes)
    <3>1. [Abstract!Next]_(Abstract!vars)
      BY <1>1, <2>1, StepRefines, Zenon DEF QueueInv
    <3> QED BY <3>1, Zenon DEF Abstract!vars
  <2>2. CASE Crash
    <3>1. crashes' > crashes
      BY <1>1, <2>2, CrashKeeps, Zenon
    <3> QED BY <2>2, <3>1, Zenon DEF Crash, Emptied
  <2> QED BY <1>1, <2>1, <2>2, BotStep, Zenon
<1> QED BY <1>1, QueueInvariance, PTL DEF BotSpec, ServesInTurn

-----------------------------------------------------------------------------
(* The filter.  What it remembers are the latest entries of the history,    *)
(* and what it has forgotten since the process started is old or            *)
(* outnumbered: the invariant that makes NoEarlyReplay inductive.           *)
Keys == Messages \cup Strangers
Forgotten == Len(handled) - Len(marks)
FilterTypeOK ==
  /\ clock \in Nat /\ crashes \in Nat
  /\ marks \in Seq([key : Keys, at : Nat])
  /\ handled \in Seq([key : Keys, at : Nat, life : Nat])
  /\ Len(marks) <= MaxMarks /\ Len(marks) <= Len(handled)
MarksAreTheLatest ==
  \A k \in 1..Len(marks) : /\ handled[Forgotten + k].key = marks[k].key
                           /\ handled[Forgotten + k].at = marks[k].at
HistoryIsPast == \A i \in 1..Len(handled) : handled[i].life <= crashes
ForgottenRightly ==
  \A i \in 1..Forgotten : \/ handled[i].life < crashes
                          \/ clock - handled[i].at > Ttl
                          \/ Len(handled) - i >= MaxMarks
FilterInv ==
  FilterTypeOK /\ MarksAreTheLatest /\ HistoryIsPast /\ ForgottenRightly /\ NoEarlyReplay

(* Marked() appends the new mark and drops the oldest if it must: n of them *)
(* go.                                                                      *)
LEMMA MarkedShape ==
  ASSUME NEW q \in Seq([key : Keys, at : Nat]), Len(q) <= MaxMarks,
         NEW m \in Keys, clock \in Nat
  PROVE  \E n \in 0..Len(q) :
           /\ Marked(q, m) \in Seq([key : Keys, at : Nat])
           /\ Len(Marked(q, m)) = Len(q) + 1 - n
           /\ Len(Marked(q, m)) <= MaxMarks
           /\ n > 0 => Len(q) + 1 - n >= MaxMarks
           /\ \A k \in 1..Len(q) - n : Marked(q, m)[k] = q[k + n]
           /\ Marked(q, m)[Len(q) + 1 - n] = [key |-> m, at |-> clock]
<1> DEFINE r == [key |-> m, at |-> clock]
           all == Append(q, r)
<1>1. r \in [key : Keys, at : Nat]
  OBVIOUS
<1> HIDE DEF r
<1>2. /\ all \in Seq([key : Keys, at : Nat]) /\ Len(all) = Len(q) + 1
      /\ \A k \in 1..Len(q) : all[k] = q[k]
      /\ all[Len(q) + 1] = r
  BY <1>1, AppendProperties
<1> HIDE DEF all
<1>3. Marked(q, m) = IF Len(all) > MaxMarks THEN Tail(all) ELSE all
  BY Zenon DEF Marked, all, r
<1>4. CASE Len(all) > MaxMarks
  <2>1. all # <<>>
    BY <1>2, SMT
  <2>2. /\ Tail(all) \in Seq([key : Keys, at : Nat]) /\ Len(Tail(all)) = Len(all) - 1
        /\ \A k \in 1..Len(Tail(all)) : Tail(all)[k] = all[k + 1]
    BY <1>2, <2>1, HeadTailProperties
  <2>3. Len(q) \in Nat /\ Len(q) >= 1 /\ Len(q) = MaxMarks
    BY <1>2, <1>4, BotAssumption, SMT
  <2>4. Marked(q, m) = Tail(all)
    BY <1>3, <1>4
  <2>5. 1 \in 0..Len(q)
    BY <2>3
  <2>6. \A k \in 1..Len(q) - 1 : Marked(q, m)[k] = q[k + 1]
    <3> SUFFICES ASSUME NEW k \in 1..Len(q) - 1
                 PROVE  Marked(q, m)[k] = q[k + 1]
      OBVIOUS
    <3>1. k \in 1..Len(Tail(all)) /\ k + 1 \in 1..Len(q)
      BY ONLY <1>2, <2>2, <2>3, k \in 1..Len(q) - 1, SMT
    <3>2. Tail(all)[k] = all[k + 1] /\ all[k + 1] = q[k + 1]
      BY ONLY <1>2, <2>2, <3>1, Zenon
    <3> QED BY ONLY <2>4, <3>2, Zenon
  <2>7. Marked(q, m)[Len(q) + 1 - 1] = r
    BY <1>2, <2>2, <2>3, <2>4, SMT
  <2>8. /\ Len(Marked(q, m)) = Len(q) + 1 - 1 /\ Len(Marked(q, m)) <= MaxMarks
        /\ Len(q) + 1 - 1 >= MaxMarks
    BY <1>2, <2>2, <2>3, <2>4, BotAssumption, SMT
  <2> QED BY <2>2, <2>4, <2>5, <2>6, <2>7, <2>8, Zenon DEF r
<1>5. CASE ~(Len(all) > MaxMarks)
  <2>1. Marked(q, m) = all
    BY <1>3, <1>5
  <2>2. Len(q) \in Nat /\ 0 \in 0..Len(q) /\ Len(all) <= MaxMarks
    BY <1>2, <1>5, BotAssumption, SMT
  <2>3. /\ Len(Marked(q, m)) = Len(q) + 1 - 0 /\ ~(0 > 0)
        /\ Marked(q, m)[Len(q) + 1 - 0] = r
        /\ \A k \in 1..Len(q) - 0 : Marked(q, m)[k] = q[k + 0]
    BY <1>2, <2>1, <2>2, SMT
  <2> QED BY <1>2, <2>1, <2>2, <2>3, Zenon DEF r
<1> QED BY <1>4, <1>5

(* A delivery keeps the invariant.  A duplicate only prunes.  A message     *)
(* that passes has no mark left, so that its earlier entries in the history *)
(* are forgotten or just pruned, and either way it may pass.                *)
LEMMA DeliverKeeps ==
  ASSUME FilterInv, NEW m \in Keys, Deliver(m)
  PROVE  FilterInv'
<1>types. /\ clock \in Nat /\ crashes \in Nat
      /\ marks \in Seq([key : Keys, at : Nat])
      /\ handled \in Seq([key : Keys, at : Nat, life : Nat])
      /\ Len(marks) <= MaxMarks /\ Len(marks) <= Len(handled)
      /\ MaxMarks \in Nat /\ Ttl \in Nat
  BY BotAssumption, Zenon DEF FilterInv, FilterTypeOK
<1>1. PICK k \in 0..Len(marks) :
        LET left == SubSeq(marks, k + 1, Len(marks)) IN
        /\ Prunes(k)
        /\ IF Known(left, m)
           THEN marks' = left /\ UNCHANGED <<appending, handled>>
           ELSE /\ marks' = Marked(left, m)
                /\ handled' = Append(handled, [key |-> m, at |-> clock, life |-> crashes])
                /\ appending' = IF m \in Messages THEN appending \cup {Attempt(m)}
                                ELSE appending
  BY Zenon DEF Deliver
<1>2. UNCHANGED <<clock, crashes>>
  BY Zenon DEF Deliver
<1>inv. MarksAreTheLatest /\ HistoryIsPast /\ ForgottenRightly /\ NoEarlyReplay
  BY Zenon DEF FilterInv
<1> DEFINE left == SubSeq(marks, k + 1, Len(marks))
<1>3. /\ left \in Seq([key : Keys, at : Nat]) /\ Len(left) = Len(marks) - k
      /\ \A j \in 1..Len(left) : left[j] = marks[k + j]
  <2>1. k \in Nat /\ Len(marks) \in Nat /\ k <= Len(marks)
    BY <1>types, SMT
  <2>2. \A j \in k + 1 .. Len(marks) : marks[j] \in [key : Keys, at : Nat]
    <3> SUFFICES ASSUME NEW j \in k + 1 .. Len(marks)
                 PROVE  marks[j] \in [key : Keys, at : Nat]
      OBVIOUS
    <3>1. j \in 1..Len(marks)
      BY <2>1, SMT
    <3> QED BY <1>types, <3>1, ElementOfSeq
  <2> QED BY <2>1, <2>2, SubSeqProperties, SMT
<1>4. \A j \in 1..k : clock - marks[j].at > Ttl
  BY <1>1, Zenon DEF Prunes, Old
<1>5. /\ Len(marks) \in Nat /\ Len(marks) <= MaxMarks /\ MaxMarks \in Nat
      /\ k \in Nat /\ k <= Len(marks) /\ Len(left) = Len(marks) - k
      /\ Forgotten \in Nat /\ Len(handled) = Forgotten + Len(marks)
      /\ Forgotten' = Len(handled') - Len(marks')
  BY <1>types, <1>3, SMT DEF Forgotten
<1>left. \A j \in 1..Len(left) : left[j] = marks[k + j]
  BY <1>3
<1> HIDE DEF left
<1>6. CASE Known(left, m)
  <2>1. marks' = left /\ handled' = handled
    BY <1>1, <1>6, Zenon DEF left
  <2>2. Forgotten' = Forgotten + k
    <3>1. Len(handled') = Len(handled) /\ Len(marks') = Len(marks) - k
      BY <1>3, <2>1
    <3> QED BY <1>5, <3>1, SMT
  <2>3. FilterTypeOK'
    BY <1>types, <1>2, <1>3, <1>5, <2>1, SMT DEF FilterTypeOK
  <2>4. MarksAreTheLatest'
    <3> SUFFICES ASSUME NEW j \in 1..Len(left)
                 PROVE  /\ handled[Forgotten + k + j].key = left[j].key
                        /\ handled[Forgotten + k + j].at = left[j].at
      BY <2>1, <2>2 DEF MarksAreTheLatest
    <3>1. k + j \in 1..Len(marks) /\ Forgotten + k + j = Forgotten + (k + j)
      BY <1>5, SMT
    <3> QED BY <1>inv, <1>left, <3>1, Zenon DEF MarksAreTheLatest
  <2>5. HistoryIsPast'
    BY <1>inv, <1>2, <2>1, Zenon DEF HistoryIsPast
  <2>6. ForgottenRightly'
    <3> SUFFICES ASSUME NEW i \in 1..Forgotten + k
                 PROVE  \/ handled[i].life < crashes
                        \/ clock - handled[i].at > Ttl
                        \/ Len(handled) - i >= MaxMarks
      BY <1>2, <2>1, <2>2, Zenon DEF ForgottenRightly
    <3>1. CASE i \in 1..Forgotten
      BY <1>inv, <3>1, Zenon DEF ForgottenRightly
    <3>2. CASE i \notin 1..Forgotten
      <4>1. /\ i - Forgotten \in 1..k /\ i - Forgotten \in 1..Len(marks)
            /\ i = Forgotten + (i - Forgotten)
        BY <1>5, <3>2, SMT
      <4>2. handled[i].at = marks[i - Forgotten].at
        BY <1>inv, <4>1 DEF MarksAreTheLatest
      <4> QED BY <1>4, <4>1, <4>2
    <3> QED BY <3>1, <3>2
  <2>7. NoEarlyReplay'
    BY <1>inv, <2>1, Zenon DEF NoEarlyReplay
  <2> QED BY <2>3, <2>4, <2>5, <2>6, <2>7, Zenon DEF FilterInv
<1>7. CASE ~Known(left, m)
  <2> DEFINE new == [key |-> m, at |-> clock, life |-> crashes]
             mark == [key |-> m, at |-> clock]
  <2>1. marks' = Marked(left, m) /\ handled' = Append(handled, new)
    BY <1>1, <1>7, Zenon DEF left
  <2>2. PICK n \in 0..Len(left) :
          /\ marks' \in Seq([key : Keys, at : Nat])
          /\ Len(marks') = Len(left) + 1 - n /\ Len(marks') <= MaxMarks
          /\ n > 0 => Len(left) + 1 - n >= MaxMarks
          /\ \A j \in 1..Len(left) - n : marks'[j] = left[j + n]
          /\ marks'[Len(left) + 1 - n] = mark
    <3>1. Len(left) <= MaxMarks
      BY <1>5, SMT
    <3> QED BY <1>types, <1>3, <2>1, <3>1, MarkedShape, Zenon
  <2>3. new \in [key : Keys, at : Nat, life : Nat]
    BY <1>types
  <2>4. /\ handled' \in Seq([key : Keys, at : Nat, life : Nat])
        /\ Len(handled') = Len(handled) + 1
        /\ \A i \in 1..Len(handled) : handled'[i] = handled[i]
        /\ handled'[Len(handled) + 1] = new
    BY <1>types, <2>1, <2>3, AppendProperties
  <2>5. new.key = m /\ new.at = clock /\ new.life = crashes /\ mark.key = m /\ mark.at = clock
    OBVIOUS
  <2> HIDE DEF new, mark
  <2>6. n \in Nat /\ n <= Len(left) /\ Len(left) \in Nat
    BY <1>5, SMT
  <2>7. Forgotten' = Forgotten + k + n
    BY <1>5, <2>2, <2>4, <2>6, SMT
  <2>8. FilterTypeOK'
    <3>1. Len(marks') <= Len(handled')
      BY <1>5, <2>2, <2>4, <2>6, SMT
    <3> QED BY <1>types, <1>2, <2>2, <2>4, <3>1, Zenon DEF FilterTypeOK
  <2>9. MarksAreTheLatest'
    <3> SUFFICES ASSUME NEW j \in 1..Len(marks')
                 PROVE  /\ handled'[Forgotten' + j].key = marks'[j].key
                        /\ handled'[Forgotten' + j].at = marks'[j].at
      BY DEF MarksAreTheLatest
    <3>1. CASE j <= Len(left) - n
      <4>1. marks'[j] = marks[k + j + n] /\ k + j + n \in 1..Len(marks)
        <5>1. /\ j \in 1..Len(left) - n /\ j + n \in 1..Len(left)
              /\ k + (j + n) = k + j + n /\ k + j + n \in 1..Len(marks)
          BY <1>5, <2>6, <3>1, SMT
        <5> QED BY <1>left, <2>2, <5>1
      <4>2. /\ handled'[Forgotten' + j] = handled[Forgotten + (k + j + n)]
        <5>1. /\ Forgotten' + j = Forgotten + (k + j + n)
              /\ Forgotten + (k + j + n) \in 1..Len(handled)
          BY <1>5, <2>6, <2>7, <3>1, SMT
        <5> QED BY <2>4, <5>1
      <4> QED BY <1>inv, <4>1, <4>2 DEF MarksAreTheLatest
    <3>2. CASE ~(j <= Len(left) - n)
      <4>1. j = Len(left) + 1 - n /\ Forgotten' + j = Len(handled) + 1
        <5>1. Len(marks') = Len(left) + 1 - n
          BY <2>2
        <5> QED BY <1>5, <2>6, <2>7, <3>2, <5>1, SMT
      <4> QED BY <2>2, <2>4, <2>5, <4>1
    <3> QED BY <3>1, <3>2
  <2>10. HistoryIsPast'
    <3> SUFFICES ASSUME NEW i \in 1..Len(handled) + 1
                 PROVE  handled'[i].life <= crashes
      BY <1>2, <2>4, Zenon DEF HistoryIsPast
    <3>1. CASE i \in 1..Len(handled)
      BY <1>inv, <2>4, <3>1, Zenon DEF HistoryIsPast
    <3>2. CASE i \notin 1..Len(handled)
      <4>1. i = Len(handled) + 1
        BY <1>5, <3>2, SMT
      <4> QED BY <1>types, <2>4, <2>5, <4>1, SMT
    <3> QED BY <3>1, <3>2
  <2>11. ForgottenRightly'
    <3> SUFFICES ASSUME NEW i \in 1..Forgotten'
                 PROVE  \/ handled'[i].life < crashes'
                        \/ clock' - handled'[i].at > Ttl
                        \/ Len(handled') - i >= MaxMarks
      BY DEF ForgottenRightly
    <3>1. i \in 1..Len(handled) /\ handled'[i] = handled[i]
      <4>1. i \in 1..Len(handled)
        BY <1>5, <2>6, <2>7, SMT
      <4> QED BY <2>4, <4>1
    <3>2. CASE i <= Forgotten
      <4>1. i \in 1..Forgotten
        BY <1>5, <3>1, <3>2, SMT
      <4>2. \/ handled[i].life < crashes
            \/ clock - handled[i].at > Ttl
            \/ Len(handled) - i >= MaxMarks
        BY <1>inv, <4>1, Zenon DEF ForgottenRightly
      <4>3. Len(handled) - i >= MaxMarks => Len(handled') - i >= MaxMarks
        BY <1>5, <2>4, <4>1, SMT
      <4> QED BY <1>2, <3>1, <4>2, <4>3, Zenon
    <3>3. CASE i > Forgotten /\ i <= Forgotten + k
      <4>1. i - Forgotten \in 1..k /\ i - Forgotten \in 1..Len(marks)
            /\ i = Forgotten + (i - Forgotten)
        BY <1>5, <3>1, <3>3, SMT
      <4>2. handled[i].at = marks[i - Forgotten].at
        BY <1>inv, <4>1 DEF MarksAreTheLatest
      <4> QED BY <1>2, <1>4, <3>1, <4>1, <4>2
    <3>4. CASE i > Forgotten + k
      <4>1. n > 0 /\ Len(left) + 1 - n >= MaxMarks /\ i <= Forgotten + k + n
        BY <1>5, <2>2, <2>6, <2>7, <3>1, <3>4, SMT
      <4>2. Len(handled) + 1 - i >= Len(left) + 1 - n
        BY <1>5, <2>6, <3>1, <4>1, SMT
      <4> QED BY <1>5, <2>4, <2>6, <3>1, <4>1, <4>2, SMT
    <3> QED BY <1>5, <3>1, <3>2, <3>3, <3>4, SMT
  <2>12. NoEarlyReplay'
    <3> SUFFICES ASSUME NEW i \in 1..Len(handled'), NEW j \in 1..Len(handled'),
                        i < j, handled'[i].key = handled'[j].key
                 PROVE  \/ handled'[i].life < handled'[j].life
                        \/ handled'[j].at - handled'[i].at > Ttl
                        \/ j - i > MaxMarks
      <4>1. DOMAIN handled' = 1..Len(handled')
        BY <2>4
      <4> QED BY <4>1 DEF NoEarlyReplay
    <3>1. i \in 1..Len(handled) /\ handled'[i] = handled[i]
      <4>1. Len(handled') = Len(handled) + 1
        BY <2>4
      <4>2. i \in 1..Len(handled)
        BY <1>5, <4>1, SMT
      <4> QED BY <2>4, <4>2
    <3>2. CASE j \in 1..Len(handled)
      <4>1. DOMAIN handled = 1..Len(handled)
        BY <1>types
      <4> QED BY <1>inv, <2>4, <3>1, <3>2, <4>1 DEF NoEarlyReplay
    <3>3. CASE j = Len(handled) + 1
      <4>1. handled'[j] = new /\ handled[i].key = m
        BY <2>4, <2>5, <3>1, <3>3
      <4>2. CASE i <= Forgotten
        <5>1. i \in 1..Forgotten
          BY <1>5, <3>1, <4>2, SMT
        <5>2. \/ handled[i].life < crashes
              \/ clock - handled[i].at > Ttl
              \/ Len(handled) - i >= MaxMarks
          BY <1>inv, <5>1 DEF ForgottenRightly
        <5>3. handled'[i] = handled[i] /\ handled'[j].life = crashes /\ handled'[j].at = clock
          BY <2>5, <3>1, <4>1, Zenon
        <5>4. Len(handled) - i >= MaxMarks => j - i > MaxMarks
          BY <1>5, <3>1, <3>3, SMT
        <5> QED BY <5>2, <5>3, <5>4, Zenon
      <4>3. CASE i > Forgotten
        <5>1. /\ i - Forgotten \in 1..Len(marks) /\ i = Forgotten + (i - Forgotten)
          BY <1>5, <3>1, <4>3, SMTT(30)
        <5>2. /\ marks[i - Forgotten].key = m
              /\ handled[i].at = marks[i - Forgotten].at
          BY <1>inv, <4>1, <5>1 DEF MarksAreTheLatest
        <5>3. CASE i - Forgotten <= k
          <6>1. i - Forgotten \in 1..k
            BY <1>5, <5>1, <5>3, SMT
          <6> QED BY <1>4, <2>5, <3>1, <4>1, <5>2, <6>1
        <5>4. CASE i - Forgotten > k
          <6>1. /\ i - Forgotten - k \in 1..Len(left)
                /\ i - Forgotten = k + (i - Forgotten - k)
            BY <1>5, <5>1, <5>4, SMT
          <6>2. left[i - Forgotten - k].key = m
            BY <1>3, <5>2, <6>1
          <6>3. DOMAIN left = 1..Len(left)
            BY <1>3
          <6> QED BY <1>7, <6>1, <6>2, <6>3 DEF Known
        <5> QED BY <1>5, <5>1, <5>3, <5>4, SMT
      <4> QED BY <1>5, <3>1, <4>2, <4>3, SMT
    <3>4. j \in 1..Len(handled) \/ j = Len(handled) + 1
      <4>1. Len(handled') = Len(handled) + 1
        BY <2>4
      <4> QED BY <1>5, <4>1, SMT
    <3> QED BY <3>2, <3>3, <3>4, Zenon
  <2> QED BY <2>8, <2>9, <2>10, <2>11, <2>12, Zenon DEF FilterInv
<1> QED BY <1>6, <1>7

(* Time makes more of the history old; a crash makes all of it the history  *)
(* of an earlier life.                                                      *)
LEMMA OthersKeep ==
  ASSUME FilterInv, [BotNext]_botVars, ~ \E m \in Keys : Deliver(m)
  PROVE  FilterInv'
<1> DEFINE filterVars == <<clock, crashes, marks, handled>>
<1>types. /\ clock \in Nat /\ crashes \in Nat
          /\ marks \in Seq([key : Keys, at : Nat])
          /\ handled \in Seq([key : Keys, at : Nat, life : Nat])
          /\ Len(marks) <= MaxMarks /\ Len(marks) <= Len(handled)
          /\ MaxMarks \in Nat /\ Ttl \in Nat
  BY BotAssumption, Zenon DEF FilterInv, FilterTypeOK
<1>inv. MarksAreTheLatest /\ HistoryIsPast /\ ForgottenRightly /\ NoEarlyReplay
  BY Zenon DEF FilterInv
<1>1. CASE UNCHANGED filterVars
  BY <1>1, Zenon DEF FilterInv, FilterTypeOK, MarksAreTheLatest, HistoryIsPast,
                     ForgottenRightly, Forgotten, NoEarlyReplay
<1>2. CASE Tick
  <2>1. clock' = clock + 1 /\ UNCHANGED <<crashes, marks, handled>>
    BY <1>2, Zenon DEF Tick
  <2>2. FilterTypeOK'
    <3>1. clock' \in Nat
      BY <1>types, <2>1, SMT
    <3> QED BY <1>types, <2>1, <3>1, Zenon DEF FilterTypeOK
  <2>3. MarksAreTheLatest' /\ HistoryIsPast' /\ NoEarlyReplay'
    BY <1>inv, <2>1, Zenon DEF MarksAreTheLatest, HistoryIsPast, NoEarlyReplay, Forgotten
  <2>4. ForgottenRightly'
    <3> SUFFICES ASSUME NEW i \in 1..Forgotten, clock - handled[i].at > Ttl
                 PROVE  clock' - handled[i].at > Ttl
      BY <1>inv, <2>1, Zenon DEF ForgottenRightly, Forgotten
    <3>1. Len(handled) \in Nat /\ i \in 1..Len(handled)
      <4>1. Len(handled) \in Nat
        BY <1>types
      <4>2. Len(marks) \in Nat
        BY <1>types
      <4> QED BY ONLY <4>1, <4>2, i \in 1..Forgotten, SMT DEF Forgotten
    <3>2. handled[i].at \in Nat
      <4>1. handled[i] \in [key : Keys, at : Nat, life : Nat]
        BY <1>types, <3>1, ElementOfSeq
      <4> QED BY <4>1
    <3>3. clock \in Nat /\ Ttl \in Nat /\ clock' = clock + 1
      BY <1>types, <2>1, BotAssumption
    <3> QED BY ONLY <3>2, <3>3, clock - handled[i].at > Ttl, SMT
  <2> QED BY <2>2, <2>3, <2>4, Zenon DEF FilterInv
<1>3. CASE Crash
  <2>1. crashes' = crashes + 1 /\ marks' = <<>> /\ UNCHANGED <<clock, handled>>
    BY <1>3, Zenon DEF Crash
  <2>2. Len(marks') = 0 /\ marks' \in Seq([key : Keys, at : Nat]) /\ Len(handled) \in Nat
    BY <1>types, <2>1
  <2>3. FilterTypeOK' /\ MarksAreTheLatest' /\ NoEarlyReplay'
    <3>1. crashes' \in Nat /\ 0 <= MaxMarks /\ 0 <= Len(handled)
      BY <1>types, <2>1, <2>2, SMT
    <3>2. ~ \E k \in 1..0 : TRUE
      OBVIOUS
    <3> QED BY <1>types, <1>inv, <2>1, <2>2, <3>1, <3>2, Zenon
            DEF FilterTypeOK, MarksAreTheLatest, NoEarlyReplay
  <2>4. \A i \in 1..Len(handled) : handled'[i].life < crashes'
    <3> SUFFICES ASSUME NEW i \in 1..Len(handled) PROVE handled[i].life < crashes + 1
      BY <2>1
    <3>1. handled[i] \in [key : Keys, at : Nat, life : Nat] /\ handled[i].life <= crashes
      BY <1>types, <1>inv, ElementOfSeq DEF HistoryIsPast
    <3>2. handled[i].life \in Nat /\ handled[i].life <= crashes
      BY <3>1
    <3> QED BY <1>types, <3>2, SMT
  <2>5. HistoryIsPast'
    <3> SUFFICES ASSUME NEW i \in 1..Len(handled) PROVE handled[i].life <= crashes'
      BY <2>1, Zenon DEF HistoryIsPast
    <3>1. handled[i] \in [key : Keys, at : Nat, life : Nat] /\ handled[i].life <= crashes
      BY <1>types, <1>inv, ElementOfSeq DEF HistoryIsPast
    <3>2. handled[i].life \in Nat /\ handled[i].life <= crashes
      BY <3>1
    <3> QED BY <1>types, <2>1, <3>2, SMT
  <2>6. ForgottenRightly'
    <3>1. Forgotten' = Len(handled)
      BY <2>1, <2>2, SMT DEF Forgotten
    <3> QED BY <2>1, <2>4, <3>1, Zenon DEF ForgottenRightly
  <2> QED BY <2>3, <2>5, <2>6, Zenon DEF FilterInv
<1>4. \/ UNCHANGED filterVars \/ Tick \/ Crash
  <2>1. ASSUME NEW t \in Tasks, LogLands(t) \/ LogFails(t) \/ GoesOn(t) \/ Runs(t)
        PROVE  UNCHANGED filterVars
    BY <2>1, Zenon DEF LogLands, LogFails, GoesOn, Runs
  <2>2. ASSUME UNCHANGED botVars PROVE UNCHANGED filterVars
    BY <2>2, Zenon DEF botVars
  <2> QED BY <2>1, <2>2, Zenon DEF BotNext, Keys
<1> QED BY <1>1, <1>2, <1>3, <1>4, Zenon

(* No message passes the filter twice, except after a restart, after its    *)
(* time to live, or after as many others as the filter can hold.            *)
THEOREM NoReplay == BotSpec => []NoEarlyReplay
<1>1. BotInit => FilterInv
  <2> SUFFICES ASSUME BotInit PROVE FilterInv
    OBVIOUS
  <2>1. clock = 0 /\ crashes = 0 /\ marks = <<>> /\ handled = <<>>
    BY Zenon DEF BotInit
  <2>2. /\ Len(marks) = 0 /\ Len(handled) = 0 /\ 0 <= MaxMarks
        /\ marks \in Seq([key : Keys, at : Nat])
        /\ handled \in Seq([key : Keys, at : Nat, life : Nat])
    BY <2>1, BotAssumption, SMT
  <2>3. 1..0 = {} /\ Forgotten = 0 /\ DOMAIN handled = {}
    BY <2>1, <2>2, SMT DEF Forgotten
  <2>4. FilterTypeOK
    BY <2>1, <2>2, SMT DEF FilterTypeOK
  <2> QED BY <2>2, <2>3, <2>4, Zenon
          DEF FilterInv, MarksAreTheLatest, HistoryIsPast, ForgottenRightly, NoEarlyReplay
<1>2. ASSUME FilterInv, [BotNext]_botVars PROVE FilterInv'
  BY <1>2, DeliverKeeps, OthersKeep, Zenon
<1>3. FilterInv => NoEarlyReplay
  BY Zenon DEF FilterInv
<1> QED BY <1>1, <1>2, <1>3, PTL DEF BotSpec

-----------------------------------------------------------------------------
(* A channel of mom.                                                        *)

(* The handler's flag agrees with the queue's, and a queue that is not      *)
(* processing is empty: the handler sets its flag before its first await,   *)
(* in the step in which the queue starts it, and resets it in the step in   *)
(* which the queue goes on.                                                 *)
ChannelInv ==
  /\ tasks \in Seq(Tasks) /\ processing \in BOOLEAN /\ activations \subseteq Tasks
  /\ OneActivation /\ NeverStalls /\ FlagsAgree /\ WaitingAreEvents

LEMMA TasksOf == Mentions \subseteq Tasks
BY ChannelAssumption

(* A task is started at once, or it is an event and joins the queue.        *)
LEMMA TaskJoins ==
  ASSUME ChannelInv, NEW t \in Tasks,
         processing => t \in Events /\ Len(tasks) < MaxWaiting,
         ProcessNext(Append(tasks, t), processing, activations), BeginsIfStarted
  PROVE  ChannelInv'
<1>types. tasks \in Seq(Tasks) /\ processing \in BOOLEAN /\ OneActivation /\ NeverStalls
          /\ running = processing /\ MaxWaiting \in Nat
  BY ChannelAssumption, Zenon DEF ChannelInv, FlagsAgree
<1>1. /\ Append(tasks, t) \in Seq(Tasks) /\ Append(tasks, t) # <<>>
      /\ Len(Append(tasks, t)) = Len(tasks) + 1
      /\ \A k \in 1..Len(tasks) : Append(tasks, t)[k] = tasks[k]
      /\ Append(tasks, t)[Len(tasks) + 1] = t
  BY <1>types, AppendProperties
<1>2. /\ tasks' \in Seq(Tasks) /\ processing' \in BOOLEAN /\ activations' \subseteq Tasks
      /\ OneActivation' /\ NeverStalls'
  BY <1>types, <1>1, ProcessNextKeeps, Zenon DEF OneActivation
<1>3. CASE processing
  <2>1. tasks' = Append(tasks, t) /\ processing' = TRUE /\ activations' = activations
    BY <1>3, Zenon DEF ProcessNext
  <2>2. FlagsAgree'
    BY <1>types, <1>3, <2>1, Zenon DEF BeginsIfStarted, handlerVars, FlagsAgree
  <2>3. Len(tasks') <= MaxWaiting
    BY <1>types, <1>1, <1>3, <2>1, SMT
  <2>4. \A k \in DOMAIN tasks' : tasks'[k] \in Events
    <3> SUFFICES ASSUME NEW k \in 1..Len(tasks) + 1 PROVE tasks'[k] \in Events
      BY <1>1, <2>1
    <3>1. CASE k \in 1..Len(tasks)
      BY <1>types, <1>1, <2>1, <3>1 DEF ChannelInv, WaitingAreEvents
    <3>2. CASE k \notin 1..Len(tasks)
      <4>1. k = Len(tasks) + 1
        BY <1>types, <3>2, SMT
      <4> QED BY <1>1, <1>3, <2>1, <4>1
    <3> QED BY <3>1, <3>2
  <2> QED BY <1>2, <2>2, <2>3, <2>4, Zenon DEF ChannelInv, WaitingAreEvents
<1>4. CASE ~processing
  <2>1. tasks = <<>> /\ activations = {}
    BY <1>types, <1>4, Zenon DEF OneActivation, NeverStalls
  <2>2. /\ tasks' = Tail(Append(tasks, t)) /\ processing' = TRUE
        /\ activations' = activations \cup {Head(Append(tasks, t))}
    BY <1>1, <1>4, Zenon DEF ProcessNext
  <2>3. tasks' = <<>>
    BY <2>1, <2>2, SMT
  <2>4. activations' # activations
    BY <2>1, <2>2
  <2>5. FlagsAgree'
    BY <2>2, <2>4, Zenon DEF BeginsIfStarted, Begins, FlagsAgree
  <2>6. Len(tasks') <= MaxWaiting /\ DOMAIN tasks' = {}
    BY <1>types, <2>3, SMT
  <2> QED BY <1>2, <2>5, <2>6, Zenon DEF ChannelInv, WaitingAreEvents
<1> QED BY <1>types, <1>3, <1>4

(* The queue goes on with its next task, or rests with both flags down.     *)
LEMMA TaskEnds ==
  ASSUME ChannelInv, NEW t \in Tasks, Ends(t)
  PROVE  ChannelInv'
<1>types. tasks \in Seq(Tasks) /\ OneActivation /\ t \in activations
  BY Zenon DEF ChannelInv, Ends
<1>1. activations \ {t} = {}
  BY <1>types DEF OneActivation
<1>2. ProcessNext(tasks, FALSE, {})
  BY <1>1, Zenon DEF Ends
<1>3. /\ tasks' \in Seq(Tasks) /\ processing' \in BOOLEAN /\ activations' \subseteq Tasks
      /\ OneActivation' /\ NeverStalls'
  BY <1>types, <1>2, ProcessNextKeeps, Zenon
<1>4. CASE tasks = <<>>
  <2>1. tasks' = tasks /\ processing' = FALSE /\ running' = FALSE
    BY <1>2, <1>4, Zenon DEF ProcessNext, Ends
  <2> QED BY <1>3, <2>1, Zenon DEF ChannelInv, FlagsAgree, WaitingAreEvents
<1>5. CASE tasks # <<>>
  <2>1. tasks' = Tail(tasks) /\ processing' = TRUE /\ running' = TRUE
    BY <1>2, <1>5, Zenon DEF ProcessNext, Ends, Begins
  <2>2. /\ Len(tasks') = Len(tasks) - 1
        /\ \A k \in 1..Len(tasks') : tasks'[k] = tasks[k + 1]
    BY <1>types, <1>5, <2>1, HeadTailProperties
  <2>3. Len(tasks) \in Nat /\ Len(tasks) <= MaxWaiting
    BY <1>types, Zenon, LenProperties DEF ChannelInv, WaitingAreEvents
  <2>4. Len(tasks') <= MaxWaiting
    BY <2>2, <2>3, ChannelAssumption, SMT
  <2>5. \A k \in DOMAIN tasks' : tasks'[k] \in Events
    <3> SUFFICES ASSUME NEW k \in 1..Len(tasks') PROVE tasks'[k] \in Events
      BY <1>3
    <3>1. k + 1 \in 1..Len(tasks)
      BY <2>2, <2>3, SMT
    <3>2. k + 1 \in DOMAIN tasks
      BY <1>types, <3>1
    <3> QED BY <2>2, <3>2 DEF ChannelInv, WaitingAreEvents
  <2> QED BY <1>3, <2>1, <2>4, <2>5, Zenon DEF ChannelInv, FlagsAgree, WaitingAreEvents
<1> QED BY <1>4, <1>5

LEMMA ChannelStepKeeps == ASSUME ChannelInv, [ChannelNext]_channelVars PROVE ChannelInv'
<1> DEFINE Same == UNCHANGED vars /\ UNCHANGED running
<1>1. ASSUME Same PROVE ChannelInv'
  BY <1>1, Zenon DEF vars, ChannelInv, OneActivation, NeverStalls, FlagsAgree,
                     WaitingAreEvents
<1>2. ASSUME NEW m \in Mentions, Mention(m) PROVE ChannelInv'
  <2>1. CASE running
    BY <1>1, <1>2, <2>1, Zenon DEF Mention, handlerVars
  <2>2. CASE ~running
    <3>1. ProcessNext(Append(tasks, m), processing, activations) /\ BeginsIfStarted
      BY <1>2, <2>2, Zenon DEF Mention
    <3>2. ~processing
      BY <2>2, Zenon DEF ChannelInv, FlagsAgree
    <3> QED BY <3>1, <3>2, TasksOf, TaskJoins
  <2> QED BY <2>1, <2>2
<1>3. ASSUME NEW m \in Chatter, Hears(m) PROVE ChannelInv'
  BY <1>1, <1>3, Zenon DEF Hears, handlerVars
<1>4. ASSUME NEW e \in Events, EnqueueEvent(e) PROVE ChannelInv'
  <2>1. CASE Len(tasks) >= MaxWaiting
    BY <1>1, <1>4, <2>1, Zenon DEF EnqueueEvent, handlerVars
  <2>2. CASE ~(Len(tasks) >= MaxWaiting)
    <3>1. ProcessNext(Append(tasks, e), processing, activations) /\ BeginsIfStarted
      BY <1>4, <2>2, Zenon DEF EnqueueEvent, Enqueue
    <3>2. Len(tasks) \in Nat
      BY LenProperties DEF ChannelInv
    <3>3. e \in Tasks /\ Len(tasks) < MaxWaiting
      BY <2>2, <3>2, ChannelAssumption, SMT
    <3> QED BY <3>1, <3>3, TaskJoins
  <2> QED BY <2>1, <2>2
<1>5. ASSUME NEW t \in Tasks, Syncs(t) \/ Prompts(t) \/ Answers(t) PROVE ChannelInv'
  BY <1>1, <1>5, Zenon DEF Syncs, Prompts, Answers
<1>6. ASSUME NEW t \in Tasks, Ends(t) PROVE ChannelInv'
  BY <1>6, TaskEnds
<1>7. ASSUME NEW m \in StopMessages, Stop(m) PROVE ChannelInv'
  BY <1>1, <1>7, Zenon DEF Stop, handlerVars
<1>8. CASE UNCHANGED channelVars
  BY <1>1, <1>8, Zenon DEF channelVars, vars, handlerVars
<1> QED BY <1>2, <1>3, <1>4, <1>5, <1>6, <1>7, <1>8, Zenon DEF ChannelNext, RunOf

LEMMA ChannelStarts == ChannelInit => ChannelInv
<1> SUFFICES ASSUME ChannelInit PROVE ChannelInv
  OBVIOUS
<1>1. tasks = <<>> /\ processing = FALSE /\ activations = {} /\ running = FALSE
  BY Zenon DEF ChannelInit, Init
<1>2. tasks \in Seq(Tasks) /\ Len(tasks) <= MaxWaiting /\ DOMAIN tasks = {}
  BY <1>1, ChannelAssumption, SMT
<1> QED BY <1>1, <1>2, Zenon
        DEF ChannelInv, OneActivation, NeverStalls, FlagsAgree, WaitingAreEvents

(* Only events of the scheduler wait, and no more than enqueueEvent() lets. *)
THEOREM OnlyEventsWait == ChannelSpec => []WaitingAreEvents
<1>1. ChannelInv => WaitingAreEvents
  BY Zenon DEF ChannelInv
<1> QED BY <1>1, ChannelStarts, ChannelStepKeeps, PTL DEF ChannelSpec

-----------------------------------------------------------------------------
(* What the run has told the model so far: after syncLogToSessionManager()  *)
(* all of the log but the message of the run, after prompt() that too.      *)
Counts == synced \in [ChannelMessages -> Nat] /\ prompted \in [ChannelMessages -> Nat]
ContextInv ==
  /\ ChannelInv /\ Counts /\ heard \subseteq log /\ log \subseteq ChannelMessages
  /\ phase = "synced" => \A t \in activations : \A m \in heard \ {t} : Text(m) \in Told
  /\ ContextIsComplete

LEMMA MessagesOf ==
  /\ Mentions \subseteq ChannelMessages /\ Chatter \subseteq ChannelMessages
  /\ StopMessages \subseteq ChannelMessages /\ Tasks \subseteq ChannelMessages
BY ChannelAssumption DEF ChannelMessages

LEMMA ToldGrows ==
  ASSUME \A m \in ChannelMessages : synced[m] > 0 => synced'[m] > 0,
         \A m \in ChannelMessages : prompted[m] > 0 => prompted'[m] > 0
  PROVE  Told \subseteq Told'
<1>1. Told = {Text(m) : m \in {n \in ChannelMessages : synced[n] > 0}}
               \cup {PromptText(m) : m \in {n \in ChannelMessages : prompted[n] > 0}}
  BY Zenon DEF Told, Said
<1>2. Told' = {Text(m) : m \in {n \in ChannelMessages : synced'[n] > 0}}
               \cup {PromptText(m) : m \in {n \in ChannelMessages : prompted'[n] > 0}}
  BY Zenon DEF Told, Said
<1> QED BY <1>1, <1>2

(* What a run copies from the log is new to the session.                    *)
LEMMA NewIsNew ==
  ASSUME NEW S
  PROVE  /\ NewIn(S) \subseteq S /\ \A m \in NewIn(S) : Text(m) \notin Told
         /\ \A m \in S : Text(m) \in Told \/ \E n \in NewIn(S) : Text(n) = Text(m)
<1>1. \A x \in Said(S) : FirstWith(x, S) \in S /\ Text(FirstWith(x, S)) = x
  <2> TAKE x \in Said(S)
  <2>1. \E m \in S : Text(m) = x
    BY Zenon DEF Said
  <2> QED BY <2>1, Zenon DEF FirstWith
<1>2. \A m \in S : Text(m) \in Said(S)
  BY Zenon DEF Said
<1> QED BY <1>1, <1>2, Zenon DEF NewIn

(* The texts of the log that are new to the session are in it afterwards.   *)
LEMMA SyncTellsAll ==
  ASSUME Counts, NEW S, S \subseteq ChannelMessages, synced' = Added(S), prompted' = prompted
  PROVE  Counts' /\ Told \subseteq Told' /\ \A m \in S : Text(m) \in Told'
<1>1. \A m \in ChannelMessages :
        synced'[m] = synced[m] + (IF m \in NewIn(S) THEN 1 ELSE 0) /\ synced[m] \in Nat
  BY Zenon DEF Added, Counts
<1>2. \A m \in ChannelMessages : synced'[m] \in Nat
  BY <1>1
<1>3. Counts'
  BY <1>2, Zenon DEF Counts, Added
<1>4. Told \subseteq Told'
  <2>1. \A m \in ChannelMessages : synced[m] > 0 => synced'[m] > 0
    BY <1>1
  <2> QED BY <2>1, ToldGrows
<1>5. ASSUME NEW m \in S PROVE Text(m) \in Told'
  <2>1. CASE Text(m) \in Told
    BY <1>4, <2>1
  <2>2. CASE \E n \in NewIn(S) : Text(n) = Text(m)
    <3> PICK n \in NewIn(S) : Text(n) = Text(m)
      BY <2>2
    <3>1. n \in ChannelMessages
      BY NewIsNew
    <3>2. synced'[n] > 0
      BY <1>1, <3>1
    <3> QED BY <3>1, <3>2, Zenon DEF Told, Said
  <2> QED BY <2>1, <2>2, NewIsNew, Zenon
<1> QED BY <1>3, <1>4, <1>5

LEMMA PromptTells ==
  ASSUME Counts, NEW t \in Tasks, prompted' = [prompted EXCEPT ![t] = @ + 1], synced' = synced
  PROVE  Counts' /\ Told \subseteq Told' /\ prompted'[t] = prompted[t] + 1
         /\ \A m \in ChannelMessages \ {t} : prompted'[m] = prompted[m]
<1>1. t \in ChannelMessages
  BY MessagesOf
<1>2. /\ prompted[t] \in Nat /\ prompted'[t] = prompted[t] + 1
      /\ \A m \in ChannelMessages \ {t} : prompted'[m] = prompted[m]
  BY <1>1, Zenon DEF Counts
<1>3. Counts'
  <2>1. prompted[t] + 1 \in Nat
    BY <1>2
  <2> QED BY <2>1, Zenon DEF Counts
<1>4. \A m \in ChannelMessages : prompted[m] > 0 => prompted'[m] > 0
  <2> SUFFICES ASSUME NEW m \in ChannelMessages, prompted[m] > 0 PROVE prompted'[m] > 0
    OBVIOUS
  <2> QED BY <1>2
<1>5. Told \subseteq Told'
  BY <1>4, ToldGrows
<1> QED BY <1>2, <1>3, <1>5

(* A run that begins, and one that does not, start from what is in the log. *)
LEMMA BeginKeeps ==
  ASSUME ContextInv, ChannelInv', log \subseteq log', log' \subseteq ChannelMessages,
         UNCHANGED context,
         \/ Begins
         \/ UNCHANGED <<phase, heard, activations>>
         \/ phase' = "none" /\ heard' = heard
  PROVE  ContextInv'
<1>1. Counts' /\ Told' = Told /\ prompted' = prompted
  BY Zenon DEF ContextInv, Counts, Told, Said, context
<1>2. CASE Begins
  BY <1>1, <1>2, Zenon DEF Begins, ContextInv, ContextIsComplete
<1>3. CASE UNCHANGED <<phase, heard, activations>>
  BY <1>1, <1>3, Zenon DEF ContextInv, ContextIsComplete
<1>4. CASE phase' = "none" /\ heard' = heard
  BY <1>1, <1>4, Zenon DEF ContextInv, ContextIsComplete
<1> QED BY <1>2, <1>3, <1>4

LEMMA LogGrows ==
  ASSUME ContextInv, NEW m \in ChannelMessages, log' = log \cup {m}
  PROVE  log \subseteq log' /\ log' \subseteq ChannelMessages
BY Zenon DEF ContextInv

LEMMA ContextStepKeeps == ASSUME ContextInv, [ChannelNext]_channelVars PROVE ContextInv'
<1>1. ChannelInv' /\ log \subseteq log /\ log \subseteq ChannelMessages
  BY ChannelStepKeeps, Zenon DEF ContextInv
<1>2. ASSUME NEW m \in Mentions, Mention(m) PROVE ContextInv'
  BY <1>1, <1>2, MessagesOf, LogGrows, BeginKeeps, Zenon
     DEF Mention, Logged, BeginsIfStarted, handlerVars, vars
<1>3. ASSUME NEW m \in Chatter, Hears(m) PROVE ContextInv'
  BY <1>1, <1>3, MessagesOf, LogGrows, BeginKeeps, Zenon DEF Hears, Logged, handlerVars, vars
<1>4. ASSUME NEW e \in Events, EnqueueEvent(e) PROVE ContextInv'
  BY <1>1, <1>4, BeginKeeps, Zenon DEF EnqueueEvent, BeginsIfStarted, handlerVars, vars
<1>5. ASSUME NEW t \in Tasks, Syncs(t) PROVE ContextInv'
  <2>1. /\ activations = {t} /\ activations' = activations /\ heard' = heard /\ log' = log
        /\ phase' = "synced" /\ synced' = Added(log \ {t}) /\ prompted' = prompted
    BY <1>5, Zenon DEF Syncs, vars, ContextInv, ChannelInv, OneActivation
  <2>2. Counts' /\ \A m \in log \ {t} : Text(m) \in Told'
    BY <2>1, SyncTellsAll DEF ContextInv
  <2>3. heard' \ {t} \subseteq log \ {t} /\ heard' \subseteq log' /\ log' \subseteq ChannelMessages
    BY <2>1 DEF ContextInv
  <2> QED BY <1>1, <2>1, <2>2, <2>3 DEF ContextInv, ContextIsComplete
<1>6. ASSUME NEW t \in Tasks, Prompts(t) PROVE ContextInv'
  <2>1. /\ phase = "synced" /\ phase' = "prompting" /\ prompted' = [prompted EXCEPT ![t] = @ + 1]
        /\ t \in activations /\ heard' = heard /\ log' = log /\ synced' = synced
    BY <1>6, Zenon DEF Prompts
  <2>2. /\ Counts' /\ Told \subseteq Told' /\ prompted'[t] = prompted[t] + 1
        /\ prompted[t] \in Nat
    BY <2>1, PromptTells, MessagesOf DEF ContextInv, Counts
  <2>3. \A m \in heard : m = t \/ Text(m) \in Told'
    BY <2>1, <2>2 DEF ContextInv
  <2>4. prompted'[t] > 0
    BY <2>2
  <2> QED BY <1>1, <2>1, <2>2, <2>3, <2>4 DEF ContextInv, ContextIsComplete
<1>7. ASSUME NEW t \in Tasks, Answers(t) PROVE ContextInv'
  <2>1. Told' = Told /\ UNCHANGED <<synced, prompted, log, heard>> /\ phase' = "replying"
    BY <1>7, Zenon DEF Answers, context, Told, Said
  <2> QED BY <1>1, <2>1 DEF ContextInv, ContextIsComplete, Counts
<1>8. ASSUME NEW t \in Tasks, Ends(t) PROVE ContextInv'
  BY <1>1, <1>8, BeginKeeps, Zenon DEF Ends
<1>9. ASSUME NEW m \in StopMessages, Stop(m) PROVE ContextInv'
  BY <1>1, <1>9, MessagesOf, LogGrows, BeginKeeps, Zenon DEF Stop, Logged, handlerVars, vars
<1>10. CASE UNCHANGED channelVars
  BY <1>1, <1>10, BeginKeeps, Zenon DEF channelVars, vars, handlerVars
<1> QED BY <1>2, <1>3, <1>4, <1>5, <1>6, <1>7, <1>8, <1>9, <1>10, Zenon
        DEF ChannelNext, RunOf

LEMMA ContextStarts == ChannelInit => ContextInv
<1> SUFFICES ASSUME ChannelInit PROVE ContextInv
  OBVIOUS
<1>1. ChannelInv
  BY ChannelStarts
<1>2. phase = "none" /\ heard = {} /\ log = {}
  BY Zenon DEF ChannelInit
<1>3. Counts
  BY DEF ChannelInit, Counts
<1> QED BY <1>1, <1>2, <1>3 DEF ContextInv, ContextIsComplete

(* What anybody said before a run began is in the context when the model is *)
(* asked.                                                                   *)
THEOREM NobodyIsIgnored == ChannelSpec => []ContextIsComplete
<1>1. ContextInv => ContextIsComplete
  BY Zenon DEF ContextInv
<1> QED BY <1>1, ContextStarts, ContextStepKeeps, PTL DEF ChannelSpec

-----------------------------------------------------------------------------
(* Nothing is told twice.  What waits are distinct events that were never   *)
(* prompted, events are never in the log, and what was told was logged or   *)
(* enqueued: so a message that is new to the log, or an event that is new   *)
(* to the queue, is new to the context.  A run that is still to prompt its  *)
(* message counts as one that has.                                          *)
OnlyHeard ==
  /\ log \cap Events = {} /\ activations \ Events \subseteq log
  /\ \A m \in ChannelMessages : synced[m] > 0 => m \in log
  /\ \A m \in ChannelMessages : prompted[m] > 0 => m \in log \cup Events
OnlyEnqueued ==
  /\ \A m \in ChannelMessages : prompted[m] > 0 => m \in enqueued /\ m \in Tasks
  /\ activations \subseteq enqueued
  /\ \A k \in 1..Len(tasks) : tasks[k] \in enqueued
WaitingAreNew ==
  /\ \A k \in 1..Len(tasks) : tasks[k] \notin activations /\ prompted[tasks[k]] = 0
  /\ \A j, k \in 1..Len(tasks) : tasks[j] = tasks[k] => j = k

Ahead(m) == IF m \in activations /\ phase \in {"opening", "synced"} THEN 1 ELSE 0
CountsOf(m, s, p) ==
  /\ s <= 1 /\ p + Ahead(m) <= 1 + redelivered
  /\ m \notin Unknown => s + p + Ahead(m) <= 1 + redelivered
ToldInv ==
  /\ ContextInv /\ redelivered \in Nat /\ OnlyHeard /\ OnlyEnqueued /\ WaitingAreNew
  /\ \A m \in ChannelMessages : CountsOf(m, synced[m], prompted[m])

LEMMA HowTasksJoin ==
  ASSUME ChannelInv, NEW t \in Tasks, ProcessNext(Append(tasks, t), processing, activations)
  PROVE  \/ /\ processing /\ tasks' = Append(tasks, t) /\ activations' = activations
         \/ /\ tasks = <<>> /\ tasks' = <<>> /\ activations = {} /\ activations' = {t}
<1>1. CASE processing
  BY <1>1, Zenon DEF ProcessNext
<1>2. CASE ~processing
  <2>1. tasks = <<>> /\ activations = {} /\ Append(<<>>, t) # <<>>
        /\ Head(Append(<<>>, t)) = t /\ Tail(Append(<<>>, t)) = <<>>
    BY <1>2, SMT DEF ChannelInv, OneActivation, NeverStalls
  <2> QED BY <1>2, <2>1 DEF ProcessNext
<1> QED BY <1>1, <1>2

LEMMA HowTasksEnd ==
  ASSUME ChannelInv, NEW t \in Tasks, Ends(t)
  PROVE  \/ /\ tasks = <<>> /\ tasks' = <<>> /\ activations' = {} /\ phase' = "none"
         \/ /\ tasks # <<>> /\ tasks' = Tail(tasks) /\ activations' = {Head(tasks)}
<1>1. ProcessNext(tasks, FALSE, {})
  <2>1. activations \ {t} = {}
    BY DEF ChannelInv, OneActivation, Ends
  <2> QED BY <2>1, Zenon DEF Ends
<1> QED BY <1>1, Zenon DEF ProcessNext, Ends

(* A step that leaves the queue and the context alone.                      *)
LEMMA NothingTold ==
  ASSUME ToldInv, ContextInv', UNCHANGED <<tasks, activations, enqueued, synced, prompted>>,
         log \subseteq log', log' \cap Events = {}, redelivered' \in Nat,
         redelivered' >= redelivered,
         phase' \in {"opening", "synced"} => phase \in {"opening", "synced"}
  PROVE  ToldInv'
<1>1. OnlyHeard'
  BY DEF ToldInv, OnlyHeard
<1>2. OnlyEnqueued' /\ WaitingAreNew'
  BY Zenon DEF ToldInv, OnlyEnqueued, WaitingAreNew
<1>3. ASSUME NEW m \in ChannelMessages PROVE CountsOf(m, synced[m], prompted[m])'
  <2>1. /\ CountsOf(m, synced[m], prompted[m]) /\ synced[m] \in Nat /\ prompted[m] \in Nat
        /\ redelivered \in Nat
    BY DEF ToldInv, ContextInv, Counts
  <2>2. Ahead(m)' \in {0, 1} /\ Ahead(m) \in {0, 1} /\ Ahead(m)' <= Ahead(m)
    BY DEF Ahead
  <2>3. synced'[m] = synced[m] /\ prompted'[m] = prompted[m]
    OBVIOUS
  <2> QED BY ONLY <2>1, <2>2, <2>3, redelivered' \in Nat, redelivered' >= redelivered
          DEF CountsOf
<1> QED BY <1>1, <1>2, <1>3, Zenon DEF ToldInv

(* A message that the context does not have joins the queue.                *)
LEMMA NewcomerJoins ==
  ASSUME ToldInv, ContextInv', NEW t \in Tasks,
         ProcessNext(Append(tasks, t), processing, activations), BeginsIfStarted,
         enqueued' = enqueued \cup {t}, UNCHANGED <<synced, prompted>>,
         redelivered' \in {redelivered, redelivered + 1},
         log \subseteq log', log' \cap Events = {}, t \in Events \cup log',
         processing => t \notin enqueued,
         redelivered' = redelivered => synced[t] = 0 /\ prompted[t] = 0
  PROVE  ToldInv'
<1>types. /\ ChannelInv /\ tasks \in Seq(Tasks) /\ redelivered \in Nat /\ redelivered' \in Nat
          /\ t \in ChannelMessages
  BY MessagesOf DEF ToldInv, ContextInv, ChannelInv
<1>1. CASE processing /\ tasks' = Append(tasks, t) /\ activations' = activations
  <2>1. /\ Len(tasks') = Len(tasks) + 1 /\ tasks'[Len(tasks) + 1] = t
        /\ \A k \in 1..Len(tasks) : tasks'[k] = tasks[k]
    BY <1>types, <1>1, AppendProperties
  <2>2. \A k \in 1..Len(tasks') : k \in 1..Len(tasks) \/ k = Len(tasks) + 1
    <3>1. Len(tasks) \in Nat
      BY <1>types, LenProperties
    <3> QED BY <2>1, <3>1, SMT
  <2>3. OnlyHeard'
    BY <1>1 DEF ToldInv, OnlyHeard
  <2>4. OnlyEnqueued'
    <3>1. \A k \in 1..Len(tasks') : tasks'[k] \in enqueued'
      BY <2>1, <2>2, Zenon DEF ToldInv, OnlyEnqueued
    <3>2. /\ \A m \in ChannelMessages : prompted'[m] > 0 => m \in enqueued' /\ m \in Tasks
          /\ activations' \subseteq enqueued'
      BY <1>1 DEF ToldInv, OnlyEnqueued
    <3> QED BY <3>1, <3>2, Zenon DEF OnlyEnqueued
  <2>5. t \notin activations /\ \A k \in 1..Len(tasks) : tasks[k] # t
    BY <1>1 DEF ToldInv, OnlyEnqueued
  <2>6. prompted[t] = 0
    <3>1. ~(prompted[t] > 0) /\ prompted[t] \in Nat
      BY <1>types, <1>1 DEF ToldInv, OnlyEnqueued, ContextInv, Counts
    <3> QED BY <3>1
  <2>7. WaitingAreNew'
    <3>1. \A k \in 1..Len(tasks') : tasks'[k] \notin activations' /\ prompted'[tasks'[k]] = 0
      <4>1. \A k \in 1..Len(tasks) : tasks[k] \notin activations /\ prompted[tasks[k]] = 0
        BY Zenon DEF ToldInv, WaitingAreNew
      <4>2. prompted' = prompted /\ activations' = activations
        BY <1>1
      <4> QED BY ONLY <2>1, <2>2, <2>5, <2>6, <4>1, <4>2
    <3>2. \A j, k \in 1..Len(tasks') : tasks'[j] = tasks'[k] => j = k
      <4>1. \A j, k \in 1..Len(tasks) : tasks[j] = tasks[k] => j = k
        BY Zenon DEF ToldInv, WaitingAreNew
      <4> QED BY <2>1, <2>2, <2>5, <4>1
    <3> QED BY <3>1, <3>2, Zenon DEF WaitingAreNew
  <2>8. ASSUME NEW m \in ChannelMessages PROVE CountsOf(m, synced[m], prompted[m])'
    <3>1. /\ CountsOf(m, synced[m], prompted[m]) /\ synced[m] \in Nat /\ prompted[m] \in Nat
      BY DEF ToldInv, ContextInv, Counts
    <3>2. Ahead(m)' = Ahead(m) /\ Ahead(m) \in {0, 1}
      BY <1>1 DEF Ahead, BeginsIfStarted, handlerVars
    <3>3. synced'[m] = synced[m] /\ prompted'[m] = prompted[m]
      OBVIOUS
    <3> QED BY ONLY <1>types, <3>1, <3>2, <3>3, redelivered' \in {redelivered, redelivered + 1}
            DEF CountsOf
  <2> QED BY <1>types, <2>3, <2>4, <2>7, <2>8, Zenon DEF ToldInv
<1>2. CASE tasks' = <<>> /\ activations = {} /\ activations' = {t}
  <2>1. \A k : k \notin 1..Len(tasks')
    BY <1>2, SMT
  <2>2. OnlyHeard'
    BY <1>2 DEF ToldInv, OnlyHeard
  <2>3. OnlyEnqueued'
    BY <1>2, <2>1 DEF ToldInv, OnlyEnqueued
  <2>4. WaitingAreNew'
    BY <2>1, Zenon DEF WaitingAreNew
  <2>5. ASSUME NEW m \in ChannelMessages PROVE CountsOf(m, synced[m], prompted[m])'
    <3>1. /\ CountsOf(m, synced[m], prompted[m]) /\ synced[m] \in Nat /\ prompted[m] \in Nat
      BY DEF ToldInv, ContextInv, Counts
    <3>2. /\ Ahead(m) = 0 /\ Ahead(m)' \in {0, 1} /\ (m # t => Ahead(m)' = 0)
      BY <1>2 DEF Ahead
    <3>3. synced'[m] = synced[m] /\ prompted'[m] = prompted[m]
      OBVIOUS
    <3>4. CASE redelivered' = redelivered
      <4>1. m = t => synced[m] = 0 /\ prompted[m] = 0
        BY <3>4
      <4>2. CASE m = t
        BY ONLY <1>types, <3>2, <3>3, <3>4, <4>1, <4>2 DEF CountsOf
      <4>3. CASE m # t
        BY ONLY <1>types, <3>1, <3>2, <3>3, <3>4, <4>3 DEF CountsOf
      <4> QED BY <4>2, <4>3
    <3>5. CASE redelivered' = redelivered + 1
      BY ONLY <1>types, <3>1, <3>2, <3>3, <3>5 DEF CountsOf
    <3> QED BY <3>4, <3>5
  <2> QED BY <1>types, <2>2, <2>3, <2>4, <2>5, Zenon DEF ToldInv
<1> QED BY <1>types, <1>1, <1>2, HowTasksJoin, Zenon

(* The first of those that wait is as new as they all are.                  *)
LEMMA NextBegins ==
  ASSUME ToldInv, ContextInv', NEW t \in Tasks, Ends(t)
  PROVE  ToldInv'
<1>types. /\ ChannelInv /\ tasks \in Seq(Tasks) /\ Len(tasks) \in Nat /\ redelivered \in Nat
  BY LenProperties DEF ToldInv, ContextInv, ChannelInv
<1>1. UNCHANGED <<log, synced, prompted, redelivered, enqueued>>
  BY Zenon DEF Ends, context
<1>2. CASE tasks = <<>> /\ tasks' = <<>> /\ activations' = {} /\ phase' = "none"
  <2>1. \A k : k \notin 1..Len(tasks')
    BY <1>2, SMT
  <2>2. OnlyHeard' /\ OnlyEnqueued' /\ WaitingAreNew'
    BY <1>1, <1>2, <2>1 DEF ToldInv, OnlyHeard, OnlyEnqueued, WaitingAreNew
  <2>3. ASSUME NEW m \in ChannelMessages PROVE CountsOf(m, synced[m], prompted[m])'
    <3>1. /\ CountsOf(m, synced[m], prompted[m]) /\ synced[m] \in Nat /\ prompted[m] \in Nat
      BY DEF ToldInv, ContextInv, Counts
    <3>2. Ahead(m)' = 0 /\ Ahead(m) \in {0, 1}
      BY <1>2 DEF Ahead
    <3> QED BY ONLY <1>types, <1>1, <3>1, <3>2 DEF CountsOf
  <2> QED BY <1>types, <1>1, <2>2, <2>3, Zenon DEF ToldInv
<1>3. CASE tasks # <<>> /\ tasks' = Tail(tasks) /\ activations' = {Head(tasks)}
  <2>1. /\ Len(tasks') = Len(tasks) - 1 /\ Head(tasks) = tasks[1]
        /\ \A k \in 1..Len(tasks') : tasks'[k] = tasks[k + 1]
    BY <1>types, <1>3, HeadTailProperties
  <2>2. 1 \in 1..Len(tasks)
    BY <1>types, <1>3, SMT
  <2>3. \A k \in 1..Len(tasks') : k + 1 \in 1..Len(tasks) /\ k + 1 # 1
    BY <1>types, <2>1, SMT
  <2>4. /\ tasks[1] \in enqueued /\ prompted[tasks[1]] = 0 /\ tasks[1] \in Events
        /\ tasks[1] \in ChannelMessages
    BY <1>types, <2>2, MessagesOf
       DEF ToldInv, OnlyEnqueued, WaitingAreNew, ChannelInv, WaitingAreEvents
  <2>5. synced[tasks[1]] = 0
    <3>1. ~(synced[tasks[1]] > 0) /\ synced[tasks[1]] \in Nat
      BY <2>4 DEF ToldInv, OnlyHeard, ContextInv, Counts
    <3> QED BY <3>1
  <2>6. OnlyHeard'
    BY <1>1, <1>3, <2>1, <2>4 DEF ToldInv, OnlyHeard
  <2>7. OnlyEnqueued'
    <3>1. \A k \in 1..Len(tasks') : tasks'[k] \in enqueued'
      BY <1>1, <2>1, <2>3, Zenon DEF ToldInv, OnlyEnqueued
    <3> QED BY <1>1, <1>3, <2>1, <2>4, <3>1 DEF ToldInv, OnlyEnqueued
  <2>8. \A k \in 1..Len(tasks') : tasks'[k] \notin activations' /\ prompted'[tasks'[k]] = 0
    <3> SUFFICES ASSUME NEW k \in 1..Len(tasks')
                 PROVE  tasks[k + 1] # tasks[1] /\ prompted[tasks[k + 1]] = 0
      BY <1>1, <1>3, <2>1
    <3> QED BY <2>2, <2>3 DEF ToldInv, WaitingAreNew
  <2>9. \A j, k \in 1..Len(tasks') : tasks'[j] = tasks'[k] => j = k
    <3> SUFFICES ASSUME NEW j \in 1..Len(tasks'), NEW k \in 1..Len(tasks'),
                        tasks[j + 1] = tasks[k + 1]
                 PROVE  j = k
      BY <2>1
    <3>1. j + 1 = k + 1
      BY <2>3, Zenon DEF ToldInv, WaitingAreNew
    <3> QED BY <3>1, SMT
  <2>10. ASSUME NEW m \in ChannelMessages PROVE CountsOf(m, synced[m], prompted[m])'
    <3>1. /\ CountsOf(m, synced[m], prompted[m]) /\ synced[m] \in Nat /\ prompted[m] \in Nat
      BY DEF ToldInv, ContextInv, Counts
    <3>2. Ahead(m)' \in {0, 1} /\ (m # tasks[1] => Ahead(m)' = 0) /\ Ahead(m) \in {0, 1}
      BY <1>3, <2>1 DEF Ahead
    <3> QED BY ONLY <1>types, <1>1, <2>4, <2>5, <3>1, <3>2 DEF CountsOf
  <2> QED BY <1>types, <1>1, <2>6, <2>7, <2>8, <2>9, <2>10, Zenon DEF ToldInv, WaitingAreNew
<1> QED BY <1>types, <1>2, <1>3, HowTasksEnd, Zenon

(* Copying from the log tells what is new, and not the message of the run.  *)
LEMMA SyncTells ==
  ASSUME ToldInv, ContextInv', NEW t \in Tasks, Syncs(t)
  PROVE  ToldInv'
<1> PICK S : S = NewIn(log \ {t})
  OBVIOUS
<1>types. ChannelInv /\ redelivered \in Nat /\ log \subseteq ChannelMessages
  BY DEF ToldInv, ContextInv
<1>1. /\ activations = {t} /\ phase = "opening" /\ phase' = "synced"
      /\ UNCHANGED <<tasks, activations, enqueued, log, redelivered, prompted>>
      /\ synced' = Added(log \ {t})
  BY <1>types, Zenon DEF Syncs, vars, ChannelInv, OneActivation
<1>2. S \subseteq log \ {t} /\ \A m \in S : Text(m) \notin Told
  BY NewIsNew
<1>3. \A m \in ChannelMessages :
        synced'[m] = synced[m] + (IF m \in S THEN 1 ELSE 0) /\ synced[m] \in Nat
                       /\ prompted[m] \in Nat
  BY <1>1, Zenon DEF Added, ToldInv, ContextInv, Counts
<1>4. OnlyHeard'
  <2>1. ASSUME NEW m \in ChannelMessages, synced'[m] > 0 PROVE m \in log
    <3>1. synced[m] > 0 \/ m \in S
      BY <1>3, <2>1
    <3> QED BY <1>2, <3>1 DEF ToldInv, OnlyHeard
  <2> QED BY <1>1, <2>1 DEF ToldInv, OnlyHeard
<1>5. OnlyEnqueued' /\ WaitingAreNew'
  BY <1>1, Zenon DEF ToldInv, OnlyEnqueued, WaitingAreNew
<1>6. ASSUME NEW m \in ChannelMessages PROVE CountsOf(m, synced[m], prompted[m])'
  <2>1. /\ CountsOf(m, synced[m], prompted[m]) /\ synced[m] \in Nat /\ prompted[m] \in Nat
        /\ prompted'[m] = prompted[m] /\ redelivered' = redelivered
    BY <1>1, <1>3 DEF ToldInv
  <2>2. Ahead(m)' = Ahead(m) /\ Ahead(m) \in {0, 1} /\ (m # t => Ahead(m) = 0)
    BY <1>1 DEF Ahead
  <2>3. CASE m \in S
    <3>1. Text(m) \notin Told /\ m # t
      BY <1>2, <2>3
    <3>2. ~(synced[m] > 0)
      BY <3>1, Zenon DEF Told, Said
    <3>3. ~(prompted[m] > 0) \/ m \in Unknown
      <4> SUFFICES ASSUME prompted[m] > 0, m \notin Unknown PROVE FALSE
        OBVIOUS
      <4>1. PromptText(m) \in Told
        BY Zenon DEF Told
      <4>2. m \in Tasks
        BY DEF ToldInv, OnlyEnqueued
      <4> QED BY <3>1, <4>1, <4>2, Zenon DEF Unknown
    <3>4. synced'[m] = 1 /\ synced[m] = 0
      <4>1. synced'[m] = synced[m] + 1
        BY <1>3, <2>3
      <4> QED BY ONLY <2>1, <3>2, <4>1
    <3>5. m \notin Unknown => prompted[m] = 0
      BY <2>1, <3>3
    <3> QED BY ONLY <1>types, <2>1, <2>2, <3>1, <3>4, <3>5 DEF CountsOf
  <2>4. CASE m \notin S
    <3>1. synced'[m] = synced[m]
      BY <1>3, <2>1, <2>4
    <3> QED BY ONLY <1>types, <2>1, <2>2, <3>1 DEF CountsOf
  <2> QED BY <2>3, <2>4
<1> QED BY <1>types, <1>1, <1>4, <1>5, <1>6, Zenon DEF ToldInv

LEMMA ToldStepKeeps == ASSUME ToldInv, [ChannelNext]_channelVars PROVE ToldInv'
<1>types. /\ ChannelInv /\ redelivered \in Nat /\ ContextInv'
          /\ log \cap Events = {} /\ redelivered + 1 \in Nat
          /\ redelivered >= redelivered /\ redelivered + 1 >= redelivered
  <2>1. redelivered \in Nat /\ ContextInv
    BY DEF ToldInv
  <2>2. ContextInv'
    BY <2>1, ContextStepKeeps
  <2>3. ChannelInv
    BY <2>1, Zenon DEF ContextInv
  <2> QED BY <2>1, <2>2, <2>3, SMT DEF ToldInv, OnlyHeard
<1>log. ASSUME NEW m \in Mentions \cup Chatter \cup StopMessages, Logged(m)
        PROVE  /\ log \subseteq log' /\ log' \cap Events = {} /\ m \in log'
               /\ redelivered' \in Nat /\ redelivered' >= redelivered
               /\ redelivered' \in {redelivered, redelivered + 1}
               /\ redelivered' = redelivered => m \notin log
  <2>1. m \notin Events
    BY ChannelAssumption
  <2>2. log' = log \cup {m}
    BY <1>log, Zenon DEF Logged
  <2>3. \/ m \notin log /\ redelivered' = redelivered
        \/ redelivered' = redelivered + 1
    BY <1>log, Zenon DEF Logged
  <2>4. redelivered + 1 # redelivered
    BY <1>types, SMT
  <2> QED BY <1>types, <2>1, <2>2, <2>3, <2>4
<1>1. ASSUME NEW m \in Mentions, Mention(m) PROVE ToldInv'
  <2>1. Logged(m) /\ UNCHANGED <<synced, prompted>>
    BY <1>1, Zenon DEF Mention, context
  <2>2. CASE running
    BY <1>1, <1>types, <1>log, <2>1, <2>2, NothingTold, Zenon DEF Mention, vars, handlerVars
  <2>3. CASE ~running
    <3>1. /\ ProcessNext(Append(tasks, m), processing, activations) /\ BeginsIfStarted
          /\ enqueued' = enqueued \cup {m}
      BY <1>1, <2>3, Zenon DEF Mention
    <3>2. ~processing /\ m \in Tasks /\ m \in ChannelMessages /\ m \notin Events
      BY <1>types, <2>3, TasksOf, MessagesOf, ChannelAssumption DEF ChannelInv, FlagsAgree
    <3>3. ASSUME m \notin log PROVE synced[m] = 0 /\ prompted[m] = 0
      <4>1. ~(synced[m] > 0) /\ ~(prompted[m] > 0)
        BY <3>2, <3>3 DEF ToldInv, OnlyHeard
      <4>2. synced[m] \in Nat /\ prompted[m] \in Nat
        BY <3>2 DEF ToldInv, ContextInv, Counts
      <4> QED BY <4>1, <4>2
    <3> QED BY <1>types, <1>log, <2>1, <3>1, <3>2, <3>3, NewcomerJoins
  <2> QED BY <2>2, <2>3
<1>2. ASSUME NEW m \in Chatter, Hears(m) PROVE ToldInv'
  BY <1>2, <1>types, <1>log, NothingTold, Zenon DEF Hears, vars, handlerVars, context
<1>3. ASSUME NEW e \in Events, EnqueueEvent(e) PROVE ToldInv'
  <2>1. UNCHANGED <<log, synced, prompted, redelivered>> /\ e \notin enqueued
    BY <1>3, Zenon DEF EnqueueEvent, context
  <2>2. log \subseteq log' /\ log' \cap Events = {}
    BY <1>types, <2>1
  <2>3. CASE Len(tasks) >= MaxWaiting
    BY <1>3, <1>types, <2>1, <2>2, <2>3, NothingTold, Zenon
       DEF EnqueueEvent, vars, handlerVars
  <2>4. CASE ~(Len(tasks) >= MaxWaiting)
    <3>1. /\ ProcessNext(Append(tasks, e), processing, activations) /\ BeginsIfStarted
          /\ enqueued' = enqueued \cup {e}
      BY <1>3, <2>4, Zenon DEF EnqueueEvent, Enqueue
    <3>2. e \in Tasks /\ e \in ChannelMessages
      BY ChannelAssumption, MessagesOf
    <3>3. ~(synced[e] > 0) /\ ~(prompted[e] > 0) /\ synced[e] \in Nat /\ prompted[e] \in Nat
      BY <1>types, <2>1, <3>2 DEF ToldInv, OnlyHeard, OnlyEnqueued, ContextInv, Counts
    <3>4. synced[e] = 0 /\ prompted[e] = 0
      BY <3>3
    <3> QED BY <1>types, <2>1, <2>2, <3>1, <3>2, <3>4, NewcomerJoins
  <2> QED BY <2>3, <2>4
<1>4. ASSUME NEW t \in Tasks, Syncs(t) PROVE ToldInv'
  BY <1>4, <1>types, SyncTells
<1>5. ASSUME NEW t \in Tasks, Prompts(t) PROVE ToldInv'
  <2>1. /\ activations = {t} /\ phase = "synced" /\ phase' = "prompting"
        /\ prompted' = [prompted EXCEPT ![t] = @ + 1]
        /\ UNCHANGED <<tasks, activations, enqueued, log, redelivered, synced>>
    BY <1>5, <1>types, Zenon DEF Prompts, vars, ChannelInv, OneActivation
  <2>2. /\ prompted'[t] = prompted[t] + 1 /\ prompted[t] \in Nat /\ t \in ChannelMessages
        /\ \A m \in ChannelMessages \ {t} : prompted'[m] = prompted[m]
    BY <2>1, PromptTells, MessagesOf DEF ToldInv, ContextInv, Counts
  <2>3. OnlyHeard'
    BY <2>1, <2>2 DEF ToldInv, OnlyHeard
  <2>4. OnlyEnqueued'
    BY <2>1, <2>2 DEF ToldInv, OnlyEnqueued
  <2>5. WaitingAreNew'
    <3>1. \A k \in 1..Len(tasks) : tasks[k] \in ChannelMessages \ {t}
      BY <1>types, <2>1, MessagesOf DEF ToldInv, WaitingAreNew, ChannelInv
    <3>2. \A k \in 1..Len(tasks) : prompted'[tasks[k]] = prompted[tasks[k]]
      BY <2>2, <3>1
    <3> QED BY <2>1, <3>2, Zenon DEF ToldInv, WaitingAreNew
  <2>6. ASSUME NEW m \in ChannelMessages PROVE CountsOf(m, synced[m], prompted[m])'
    <3>1. /\ CountsOf(m, synced[m], prompted[m]) /\ synced[m] \in Nat /\ prompted[m] \in Nat
      BY DEF ToldInv, ContextInv, Counts
    <3>2. Ahead(m)' = 0 /\ Ahead(m) \in {0, 1} /\ (m = t => Ahead(m) = 1)
      BY <2>1 DEF Ahead
    <3>3. CASE m = t
      BY ONLY <1>types, <2>1, <2>2, <3>1, <3>2, <3>3 DEF CountsOf
    <3>4. CASE m # t
      <4>1. prompted'[m] = prompted[m]
        BY <2>2, <3>4
      <4> QED BY ONLY <1>types, <2>1, <3>1, <3>2, <4>1 DEF CountsOf
    <3> QED BY <3>3, <3>4
  <2> QED BY <1>types, <2>1, <2>3, <2>4, <2>5, <2>6, Zenon DEF ToldInv
<1>6. ASSUME NEW t \in Tasks, Answers(t) PROVE ToldInv'
  <2>1. /\ phase' = "replying" /\ phase' \notin {"opening", "synced"}
        /\ UNCHANGED <<tasks, activations, enqueued, log, synced, prompted, redelivered>>
    BY <1>6, SMT DEF Answers, vars, context
  <2>2. log \subseteq log'
    BY <2>1
  <2> QED BY <1>types, <2>1, <2>2, NothingTold, Zenon
<1>7. ASSUME NEW t \in Tasks, Ends(t) PROVE ToldInv'
  BY <1>7, <1>types, NextBegins
<1>8. ASSUME NEW m \in StopMessages, Stop(m) PROVE ToldInv'
  BY <1>8, <1>types, <1>log, NothingTold, Zenon DEF Stop, vars, handlerVars, context
<1>9. CASE UNCHANGED channelVars
  <2>1. UNCHANGED <<tasks, activations, enqueued, log, synced, prompted, redelivered, phase>>
    BY <1>9, Zenon DEF channelVars, vars, handlerVars, context
  <2>2. log \subseteq log'
    BY <2>1
  <2> QED BY <1>types, <2>1, <2>2, NothingTold, Zenon
<1> QED BY <1>1, <1>2, <1>3, <1>4, <1>5, <1>6, <1>7, <1>8, <1>9, Zenon
        DEF ChannelNext, RunOf

(* A message is told to the model once, prompted or copied from the log, in *)
(* whichever order the two would come: but what Slack delivers again may be *)
(* prompted again, and what an unknown user said is copied besides.         *)
THEOREM EachMessageOnce == ChannelSpec => []ToldOnce
<1>1. ChannelInit => ToldInv
  <2> SUFFICES ASSUME ChannelInit PROVE ToldInv
    OBVIOUS
  <2>1. /\ ContextInv /\ tasks = <<>> /\ activations = {} /\ log = {} /\ redelivered = 0
    BY ContextStarts, Zenon DEF ChannelInit, Init
  <2>2. \A k : k \notin 1..Len(tasks)
    BY <2>1, SMT
  <2>3. \A m \in ChannelMessages : synced[m] = 0 /\ prompted[m] = 0
    BY Zenon DEF ChannelInit
  <2>4. \A m \in ChannelMessages : CountsOf(m, synced[m], prompted[m])
    BY <2>1, <2>3 DEF CountsOf, Ahead
  <2> QED BY <2>1, <2>2, <2>3, <2>4 DEF ToldInv, OnlyHeard, OnlyEnqueued, WaitingAreNew
<1>2. ToldInv => ToldOnce
  <2> SUFFICES ASSUME ToldInv, NEW m \in ChannelMessages
               PROVE  /\ synced[m] <= 1 /\ prompted[m] <= 1 + redelivered
                      /\ m \notin Unknown => synced[m] + prompted[m] <= 1 + redelivered
    BY DEF ToldOnce
  <2>1. /\ CountsOf(m, synced[m], prompted[m]) /\ synced[m] \in Nat /\ prompted[m] \in Nat
        /\ redelivered \in Nat
    BY DEF ToldInv, ContextInv, Counts
  <2>2. Ahead(m) \in {0, 1}
    BY DEF Ahead
  <2> QED BY ONLY <2>1, <2>2 DEF CountsOf
<1> QED BY <1>1, <1>2, ToldStepKeeps, PTL DEF ChannelSpec

-----------------------------------------------------------------------------
(* An event file of mom and its watcher.                                    *)
(* The invariant.                                                           *)

Unrun(v) == v \in Once => runs[v] = 0
InTime(s) == Kind(s.v) = "one-shot" => s.due = At(s.v) \/ TooFar(s)
Files == [of : Versions, whole : BOOLEAN, mtime : Nat]
Call(h) == h = [n |-> h.n, tries |-> h.tries, got |-> h.got]

Typed ==
  /\ disk # NoFile => disk \in Files
  /\ now \in Nat
  /\ written \subseteq Versions
  /\ runs \in [Versions -> 0..2]
  /\ \A h \in reading : Call(h)

(* A process that is down has nothing in memory, and nothing is reported to  *)
(* one that does not watch yet.                                              *)
Off ==
  /\ ~up => ~watching /\ reading = {}
  /\ ~watching => ~pending /\ live = {}

(* As long as no change crossed a call, one call or one timer is all there   *)
(* is, the maps know the timer, and what was read is still on disk or a      *)
(* change of it is yet to be handled.                                        *)
AsOnDisk == (live = {} /\ CalledFor = {}) \/ \E s : live = {s} /\ CalledFor = {s.v}
OneTimer == live = {} \/ \E s : live = {s} /\ s.n \in {timer, cron} /\ known
Calm ==
  ~crossed =>
    /\ reading = {} \/ \E h : reading = {h}
    /\ OneTimer
    /\ reading # {} => live = {}
    /\ ~pending => \A h \in reading : h.got # NoFile => OnDisk(h.got)
    /\ up /\ ~pending /\ reading = {} => AsOnDisk

(* What was executed is on disk no more and will not come back.              *)
Spent ==
  /\ \A v \in Versions \ written : runs[v] = 0
  /\ disk # NoFile => disk.of \in written /\ Unrun(disk.of)
  /\ \A h \in reading : h.got # NoFile =>
       h.got \in written /\ (~crossed => Unrun(h.got))
  /\ \A s \in live : s.v \in written /\ InTime(s) /\ (~crossed => Unrun(s.v))

EventsInv == Typed /\ Off /\ Calm /\ Spent

-----------------------------------------------------------------------------
(* Steps                                                                       *)

LEMMA InitHolds == EventsInit => EventsInv
<1> SUFFICES ASSUME EventsInit PROVE EventsInv
  OBVIOUS
<1>1. Typed
  BY DEF EventsInit, Typed
<1>2. Off
  BY DEF EventsInit, Off
<1>3. Calm
  BY DEF EventsInit, Calm, OneTimer, AsOnDisk, CalledFor
<1>4. Spent
  BY DEF EventsInit, Spent
<1> QED BY <1>1, <1>2, <1>3, <1>4 DEF EventsInv

LEMMA QuietStep ==
  ASSUME EventsInv, TimePasses \/ Watches \/ UNCHANGED eventVars
  PROVE  EventsInv'
<1> USE DEF TimePasses, Watches, eventVars, memory, world
<1>1. Typed'
  BY DEF EventsInv, Typed, Call, Files
<1>2. Off'
  BY DEF EventsInv, Off
<1>3. Calm'
  BY DEF EventsInv, Calm, OneTimer, AsOnDisk, CalledFor, OnDisk
<1>4. Spent'
  BY DEF EventsInv, Spent, InTime, Unrun
<1> QED BY <1>1, <1>2, <1>3, <1>4 DEF EventsInv

(* A change of the file is reported, crosses the start, or meets nobody.     *)
LEMMA ChangeStep ==
  ASSUME EventsInv, Reported, UNCHANGED <<memory, now, up, watching, startTime, runs>>,
         disk' # NoFile => disk' \in Files /\ disk'.of \in written' /\ Unrun(disk'.of),
         written \subseteq written', written' \subseteq Versions
  PROVE  EventsInv'
<1>1. Typed'
  BY DEF EventsInv, Typed, Call, Files, memory
<1>2. Off'
  BY DEF EventsInv, Off, memory, Reported
<1>3. Calm'
  <2> SUFFICES ASSUME ~crossed' PROVE Calm'
    BY DEF Calm
  <2>1. ~crossed /\ (up => pending')
    BY DEF Reported
  <2>2. pending \/ pending' \/ reading = {}
    BY <2>1 DEF EventsInv, Off
  <2> QED BY <2>1, <2>2 DEF EventsInv, Calm, Off, OneTimer, AsOnDisk, memory
<1>4. Spent'
  <2>1. \A v : Unrun(v)' <=> Unrun(v)
    BY DEF Unrun
  <2>2. \A v \in Versions \ written' : runs'[v] = 0
    BY DEF EventsInv, Spent
  <2>3. (disk # NoFile => disk.of \in written /\ Unrun(disk.of))'
    <3> SUFFICES ASSUME disk' # NoFile PROVE disk'.of \in written' /\ Unrun(disk.of)'
      OBVIOUS
    <3> PICK v : v = disk'.of
      OBVIOUS
    <3>1. v \in written' /\ Unrun(v) /\ runs' = runs
      OBVIOUS
    <3>2. v \in Once => runs'[v] = 0
      BY <3>1 DEF Unrun
    <3> QED BY <3>1, <3>2 DEF Unrun
  <2>4. ~crossed' => ~crossed
    BY DEF Reported
  <2>5. \A h \in reading' : h.got # NoFile =>
          h.got \in written' /\ (~crossed' => Unrun(h.got)')
    BY <2>1, <2>4 DEF EventsInv, Spent, memory
  <2>6. \A x \in live' : x.v \in written' /\ InTime(x)' /\ (~crossed' => Unrun(x.v)')
    BY <2>1, <2>4 DEF EventsInv, Spent, memory, InTime
  <2> QED BY <2>2, <2>3, <2>5, <2>6, Zenon DEF Spent
<1> QED BY <1>1, <1>2, <1>3, <1>4 DEF EventsInv

LEMMA WriterStep ==
  ASSUME EventsInv,
         \/ \E v \in Versions, whole \in BOOLEAN : Writes(v, whole)
         \/ Completes
         \/ Removes
  PROVE  EventsInv'
<1>1. ASSUME NEW v \in Versions, NEW whole \in BOOLEAN, Writes(v, whole) PROVE EventsInv'
  <2>1. /\ Reported /\ UNCHANGED <<memory, now, up, watching, startTime, runs>>
        /\ disk' = [of |-> v, whole |-> whole, mtime |-> now]
        /\ v \notin written /\ written' = written \cup {v}
    BY <1>1 DEF Writes, File
  <2>2. disk' \in Files /\ disk'.of = v
    BY <2>1 DEF Files, EventsInv, Typed
  <2>3. Unrun(v)
    BY <2>1 DEF EventsInv, Spent, Unrun
  <2>4. written \subseteq written' /\ written' \subseteq Versions /\ v \in written'
    BY <2>1 DEF EventsInv, Typed
  <2> QED BY <2>1, <2>2, <2>3, <2>4, ChangeStep
<1>2. CASE Completes
  <2>1. /\ Reported /\ UNCHANGED <<memory, now, up, watching, startTime, runs, written>>
        /\ disk # NoFile /\ disk' = [of |-> disk.of, whole |-> TRUE, mtime |-> now]
    BY <1>2 DEF Completes, File, world
  <2>2. disk.of \in Versions /\ disk.of \in written /\ Unrun(disk.of) /\ now \in Nat
    BY <2>1 DEF EventsInv, Typed, Files, Spent
  <2>3. disk' \in Files /\ disk'.of = disk.of
    BY <2>1, <2>2 DEF Files
  <2>4. written \subseteq written' /\ written' \subseteq Versions
    BY <2>1 DEF EventsInv, Typed
  <2> QED BY <2>1, <2>2, <2>3, <2>4, ChangeStep
<1>3. CASE Removes
  <2>1. /\ Reported /\ UNCHANGED <<memory, now, up, watching, startTime, runs, written>>
        /\ disk' = NoFile
    BY <1>3 DEF Removes
  <2>2. written \subseteq written' /\ written' \subseteq Versions
    BY <2>1 DEF EventsInv, Typed
  <2> QED BY <2>1, <2>2, ChangeStep
<1> QED BY <1>1, <1>2, <1>3

LEMMA StartsStep ==
  ASSUME EventsInv, Starts
  PROVE  EventsInv'
<1>1. ~up /\ reading = {} /\ live = {} /\ ~pending
  BY DEF Starts, EventsInv, Off
<1>2. /\ up' = TRUE /\ crossed' = FALSE /\ UNCHANGED <<disk, pending, known, live, timer, cron,
                                                      now, watching, written, runs>>
      /\ reading' = IF disk = NoFile THEN {} ELSE {[n |-> Unused, tries |-> 0, got |-> NoFile]}
  BY DEF Starts, HandleFile
<1> PICK unused : unused = Unused
  OBVIOUS
<1>3. \A h \in reading' : disk # NoFile /\ h = [n |-> unused, tries |-> 0, got |-> NoFile]
  BY <1>2
<1>4. \A h \in reading' : h.got = NoFile /\ Call(h)
  BY <1>3 DEF Call
<1>5. Typed'
  BY <1>2, <1>4 DEF EventsInv, Typed, Call, Files
<1>6. Off'
  BY <1>1, <1>2 DEF EventsInv, Off
<1>7. Calm'
  <2>1. reading' = {} \/ \E h : reading' = {h}
    BY <1>2
  <2>2. reading' = {} => disk' = NoFile
    BY <1>2
  <2>3. live' = {}
    BY <1>1, <1>2
  <2>4. reading' = {} => AsOnDisk'
    BY <2>2, <2>3 DEF AsOnDisk, CalledFor
  <2> QED BY <1>4, <2>1, <2>3, <2>4 DEF Calm, OneTimer
<1>8. Spent'
  BY <1>1, <1>2, <1>4 DEF EventsInv, Spent, Unrun
<1> QED BY <1>5, <1>6, <1>7, <1>8 DEF EventsInv

LEMMA StopsStep ==
  ASSUME EventsInv, Stops
  PROVE  EventsInv'
<1>1. Typed'
  BY DEF Stops, EventsInv, Typed, Call, Files
<1>2. Off'
  BY DEF Stops, Off
<1>3. Calm'
  BY DEF Stops, Calm, OneTimer
<1>4. Spent'
  BY DEF Stops, EventsInv, Spent, Unrun
<1> QED BY <1>1, <1>2, <1>3, <1>4 DEF EventsInv

(* A change is handled: what was scheduled is cancelled and the file read.   *)
LEMMA HandleStep ==
  ASSUME EventsInv, HandleFileChange
  PROVE  EventsInv'
<1> PICK unused : unused = Unused
  OBVIOUS
<1> PICK call : call = [n |-> unused, tries |-> 0, got |-> NoFile]
  OBVIOUS
<1>1. /\ watching /\ pending /\ pending' = FALSE
      /\ crossed' = (crossed \/ reading # {})
      /\ UNCHANGED <<disk, now, up, watching, written, runs>>
      /\ known => live' = Cancelled
      /\ ~known => live' = live
      /\ disk = NoFile => reading' = reading
      /\ disk # NoFile => reading' = reading \cup {call}
  BY DEF HandleFileChange, CancelScheduled, HandleFile, world
<1>2. call.got = NoFile /\ Call(call)
  BY DEF Call
<1>3. live' \subseteq live
  BY <1>1 DEF Cancelled
<1>4. reading' \subseteq reading \cup {call}
  BY <1>1
<1>5. Typed'
  BY <1>1, <1>2, <1>4 DEF EventsInv, Typed, Call, Files
<1>6. Off'
  BY <1>1 DEF EventsInv, Off
<1>7. Calm'
  <2> SUFFICES ASSUME ~crossed' PROVE Calm'
    BY DEF Calm
  <2>1. ~crossed /\ reading = {}
    BY <1>1
  <2>2. OneTimer
    BY <2>1 DEF EventsInv, Calm
  <2>3. live' = {}
    <3>1. CASE live = {}
      BY <1>3, <3>1
    <3>2. CASE \E x : live = {x} /\ x.n \in {timer, cron} /\ known
      BY <1>1, <3>2 DEF Cancelled
    <3> QED BY <2>2, <3>1, <3>2 DEF OneTimer
  <2>4. reading' = {} \/ reading' = {call}
    BY <1>1, <2>1
  <2>5. reading' = {} => disk' = NoFile
    BY <1>1
  <2>6. reading' = {} => AsOnDisk'
    BY <2>3, <2>5 DEF AsOnDisk, CalledFor
  <2>7. \A h \in reading' : h.got = NoFile
    BY <1>2, <2>4
  <2> QED BY <2>3, <2>4, <2>6, <2>7 DEF Calm, OneTimer
<1>8. Spent'
  <2>1. ~crossed' => ~crossed
    BY <1>1
  <2> QED BY <1>1, <1>2, <1>3, <1>4, <2>1 DEF EventsInv, Spent, InTime, Unrun
<1> QED BY <1>5, <1>6, <1>7, <1>8 DEF EventsInv

LEMMA ReadsStep ==
  ASSUME EventsInv, NEW h \in reading, Reads(h)
  PROVE  EventsInv'
<1> PICK g : g = IF Parsed THEN [h EXCEPT !.got = disk.of] ELSE [h EXCEPT !.tries = @ + 1]
  OBVIOUS
<1>1. /\ h.got = NoFile /\ reading' = (reading \ {h}) \cup {g}
      /\ UNCHANGED <<disk, pending, known, live, timer, cron, world, runs, crossed>>
  BY DEF Reads
<1>2. Call(h)
  BY DEF EventsInv, Typed
<1>3. Call(g) /\ (g.got # NoFile => OnDisk(g.got))
  <2>1. CASE Parsed
    <3>1. g = [n |-> h.n, tries |-> h.tries, got |-> disk.of] /\ disk # NoFile
      BY <1>2, <2>1 DEF Call, Parsed
    <3> QED BY ONLY <3>1 DEF Call, OnDisk
  <2>2. CASE ~Parsed
    <3>1. g = [n |-> h.n, tries |-> h.tries + 1, got |-> h.got]
      BY <1>2, <2>2 DEF Call
    <3> QED BY ONLY <3>1, <1>1 DEF Call
  <2> QED BY <2>1, <2>2
<1>4. \A k \in reading' : k = g \/ k \in reading
  BY <1>1
<1>5. Typed'
  BY <1>1, <1>3, <1>4 DEF EventsInv, Typed, Call, Files, world
<1>6. Off'
  BY <1>1 DEF EventsInv, Off, world
<1>7. Calm'
  <2> SUFFICES ASSUME ~crossed' PROVE Calm'
    BY DEF Calm
  <2>1. ~crossed /\ reading = {h} /\ reading' = {g}
    BY <1>1 DEF EventsInv, Calm
  <2>2. OneTimer'
    BY <1>1, <2>1 DEF EventsInv, Calm, OneTimer
  <2>3. live' = {}
    BY <1>1, <2>1 DEF EventsInv, Calm
  <2>4. \A k \in reading' : k.got # NoFile => OnDisk(k.got)'
    BY <1>1, <1>3, <2>1 DEF OnDisk
  <2> QED BY <2>1, <2>2, <2>3, <2>4 DEF Calm
<1>8. Spent'
  <2>1. g.got # NoFile => g.got \in written /\ Unrun(g.got)
    BY <1>3 DEF OnDisk, EventsInv, Spent
  <2> QED BY <1>1, <1>4, <2>1 DEF EventsInv, Spent, InTime, Unrun, world
<1> QED BY <1>5, <1>6, <1>7, <1>8 DEF EventsInv

(* A call ends with the file deleted: nothing is left that could run again.  *)
LEMMA DeletedStep ==
  ASSUME EventsInv, DeleteFile, UNCHANGED <<world, crossed>>,
         reading' \subseteq reading, live' \subseteq live,
         ~crossed => reading' = {} /\ live' = {},
         NEW v \in written, runs' = runs \/ runs' = Executed(v), watching
  PROVE  EventsInv'
<1>1. /\ disk' = NoFile /\ UNCHANGED <<now, up, watching, written, crossed>>
      /\ pending' = (pending \/ disk # NoFile)
  BY DEF DeleteFile, world
<1>2. /\ runs' \in [Versions -> 0..2]
      /\ \A w \in Versions : w # v => runs'[w] = runs[w]
  BY DEF EventsInv, Typed, Executed
<1>3. Typed'
  BY <1>1, <1>2 DEF EventsInv, Typed
<1>4. Off'
  BY <1>1 DEF EventsInv, Off
<1>5. Calm'
  BY <1>1 DEF Calm, OneTimer, AsOnDisk, CalledFor
<1>6. Spent'
  BY <1>1, <1>2 DEF EventsInv, Spent, InTime, Typed
<1> QED BY <1>3, <1>4, <1>5, <1>6 DEF EventsInv

(* A call ends with a timer or a job, which is what the file asks for.       *)
LEMMA ScheduledStep ==
  ASSUME EventsInv, NEW h \in reading, h.got # NoFile, watching,
         Kind(h.got) \in {"one-shot", "periodic"},
         NEW due, Kind(h.got) = "one-shot" => due = At(h.got) \/ At(h.got) - due > MaxDelay,
         reading' = reading \ {h}, known' = TRUE, timer' = h.n \/ cron' = h.n,
         live' = live \cup {[n |-> h.n, v |-> h.got, due |-> due]},
         UNCHANGED <<disk, pending, world, runs, crossed>>
  PROVE  EventsInv'
<1> PICK x : x = [n |-> h.n, v |-> h.got, due |-> due]
  OBVIOUS
<1>1. x.n = h.n /\ x.v = h.got /\ x.due = due /\ live' = live \cup {x}
  OBVIOUS
<1>2. Typed'
  BY DEF EventsInv, Typed, Call, Files, world
<1>3. Off'
  BY DEF EventsInv, Off, world
<1>4. Calm'
  <2> SUFFICES ASSUME ~crossed' PROVE Calm'
    BY DEF Calm
  <2>1. ~crossed /\ reading' = {} /\ live' = {x}
    BY <1>1 DEF EventsInv, Calm
  <2>2. OneTimer'
    BY <1>1, <2>1 DEF OneTimer
  <2>3. ~pending' => AsOnDisk'
    <3> SUFFICES ASSUME ~pending PROVE AsOnDisk'
      OBVIOUS
    <3>1. OnDisk(h.got)
      BY <2>1 DEF EventsInv, Calm
    <3>2. CalledFor' = {x.v}
      BY <1>1, <3>1 DEF CalledFor, OnDisk
    <3> QED BY <2>1, <3>2 DEF AsOnDisk
  <2> QED BY <2>1, <2>2, <2>3 DEF Calm
<1>5. Spent'
  <2>1. x.v \in written /\ InTime(x) /\ (~crossed => Unrun(x.v))
    BY <1>1 DEF EventsInv, Spent, InTime, TooFar
  <2> QED BY <1>1, <2>1 DEF EventsInv, Spent, InTime, Unrun, world
<1> QED BY <1>2, <1>3, <1>4, <1>5 DEF EventsInv

(* When nothing crossed it, the call that ends was the only one, and nothing *)
(* was scheduled beside it.                                                  *)
LEMMA Alone ==
  ASSUME EventsInv, ~crossed, NEW h \in reading
  PROVE  reading \ {h} = {} /\ live = {}
BY DEF EventsInv, Calm

LEMMA GivesUpStep ==
  ASSUME EventsInv, NEW h \in reading, GivesUp(h)
  PROVE  EventsInv'
<1>1. /\ watching /\ DeleteFile /\ reading' = reading \ {h}
      /\ UNCHANGED <<live, world, crossed, runs>>
  BY DEF GivesUp
<1>2. ~crossed => reading' = {} /\ live' = {}
  BY <1>1, Alone
<1>3. Typed'
  BY <1>1 DEF EventsInv, Typed, DeleteFile, world
<1>4. Off'
  BY <1>1 DEF EventsInv, Off, DeleteFile, world
<1>5. Calm'
  BY <1>1, <1>2 DEF Calm, OneTimer, AsOnDisk, CalledFor, DeleteFile
<1>6. Spent'
  BY <1>1 DEF EventsInv, Spent, InTime, DeleteFile, world, Unrun
<1> QED BY <1>3, <1>4, <1>5, <1>6 DEF EventsInv

LEMMA ImmediateStep ==
  ASSUME EventsInv, NEW h \in reading, HandleImmediate(h)
  PROVE  EventsInv'
<1>1. /\ h.got # NoFile /\ watching /\ reading' = reading \ {h}
      /\ UNCHANGED <<world, crossed, live, timer, cron>>
  BY DEF HandleImmediate, Got
<1>2. ~crossed => reading' = {} /\ live' = {}
  BY <1>1, Alone
<1>3. h.got \in written
  BY <1>1 DEF EventsInv, Spent
<1>4. CASE disk = NoFile
  <2>1. known' = TRUE /\ UNCHANGED <<disk, pending, runs>>
    BY <1>4 DEF HandleImmediate
  <2>2. Typed'
    BY <1>1, <2>1 DEF EventsInv, Typed, Files, world
  <2>3. Off'
    BY <1>1, <2>1 DEF EventsInv, Off, world
  <2>4. Calm'
    BY <1>1, <1>2, <1>4, <2>1 DEF Calm, OneTimer, AsOnDisk, CalledFor
  <2>5. Spent'
    BY <1>1, <2>1 DEF EventsInv, Spent, InTime, world, Unrun
  <2> QED BY <2>2, <2>3, <2>4, <2>5 DEF EventsInv
<1>5. CASE disk # NoFile
  <2>1. DeleteFile /\ (runs' = runs \/ runs' = Executed(h.got))
    BY <1>5 DEF HandleImmediate
  <2> QED BY <1>1, <1>2, <1>3, <2>1, DeletedStep
<1> QED BY <1>4, <1>5

LEMMA OneShotStep ==
  ASSUME EventsInv, NEW h \in reading, HandleOneShot(h)
  PROVE  EventsInv'
<1>1. /\ h.got # NoFile /\ Kind(h.got) = "one-shot" /\ watching /\ reading' = reading \ {h}
      /\ UNCHANGED <<world, crossed, cron, runs>>
  BY DEF HandleOneShot, Got
<1>2. h.got \in written /\ h.got \in Versions
  BY <1>1 DEF EventsInv, Spent, Typed
<1>3. CASE At(h.got) <= now
  <2>1. DeleteFile /\ UNCHANGED <<live, timer>>
    BY <1>3 DEF HandleOneShot
  <2>2. ~crossed => reading' = {} /\ live' = {}
    BY <1>1, <2>1, Alone
  <2> QED BY <1>1, <1>2, <2>1, <2>2, DeletedStep
<1>4. CASE ~(At(h.got) <= now)
  <2>1. /\ known' = TRUE /\ timer' = h.n /\ UNCHANGED <<disk, pending>>
        /\ live' = live \cup {[n |-> h.n, v |-> h.got, due |-> Due(h.got)]}
    BY <1>4 DEF HandleOneShot
  <2>2. Due(h.got) = At(h.got) \/ At(h.got) - Due(h.got) > MaxDelay
    <3>1. At(h.got) \in Int /\ MaxDelay \in Int /\ now \in Nat
      BY <1>2, EventsAssumption DEF EventsInv, Typed
    <3> QED BY <3>1 DEF Due
  <2> QED BY <1>1, <2>1, <2>2, ScheduledStep
<1> QED BY <1>3, <1>4

LEMMA PeriodicStep ==
  ASSUME EventsInv, NEW h \in reading, HandlePeriodic(h)
  PROVE  EventsInv'
<1>1. /\ h.got # NoFile /\ Kind(h.got) = "periodic" /\ watching /\ reading' = reading \ {h}
      /\ UNCHANGED <<world, crossed, disk, pending, timer, runs>>
      /\ known' = TRUE /\ cron' = h.n
      /\ live' = live \cup {[n |-> h.n, v |-> h.got, due |-> 0]}
  BY DEF HandlePeriodic, Got
<1> QED BY <1>1, ScheduledStep

LEMMA FiresStep ==
  ASSUME EventsInv, NEW x \in live, Fires(x)
  PROVE  EventsInv'
<1>1. /\ live' = live \ {x} /\ runs' = Executed(x.v) /\ DeleteFile
      /\ UNCHANGED <<reading, world, crossed>>
  BY DEF Fires
<1>2. ~crossed => reading' = {} /\ live' = {}
  BY <1>1 DEF EventsInv, Calm, OneTimer
<1>3. watching /\ x.v \in written
  BY DEF EventsInv, Off, Spent
<1> QED BY <1>1, <1>2, <1>3, DeletedStep

LEMMA RepeatsStep ==
  ASSUME EventsInv, NEW x \in live, Repeats(x)
  PROVE  EventsInv'
<1>1. /\ Kind(x.v) = "periodic" /\ runs' = Executed(x.v)
      /\ UNCHANGED <<disk, pending, memory, world, crossed>>
  BY DEF Repeats
<1>2. x.v \in written /\ x.v \notin Once
  BY <1>1 DEF EventsInv, Spent, Once
<1>3. /\ runs' \in [Versions -> 0..2]
      /\ \A w \in Versions : w # x.v => runs'[w] = runs[w]
  <2>1. PICK v \in Versions : v = x.v
    BY <1>2 DEF EventsInv, Typed
  <2>2. runs' = [runs EXCEPT ![v] = IF runs[v] < 2 THEN runs[v] + 1 ELSE 2]
    BY <1>1, <2>1 DEF Executed
  <2>3. runs \in [Versions -> 0..2]
    BY DEF EventsInv, Typed
  <2> QED BY ONLY <2>1, <2>2, <2>3
<1>4. \A w \in Once : runs'[w] = runs[w]
  BY <1>2, <1>3 DEF Once
<1>5. \A w : Unrun(w) => Unrun(w)'
  BY <1>4 DEF Unrun
<1>6. Typed'
  BY <1>1, <1>3 DEF EventsInv, Typed, Files, memory, world
<1>7. Off'
  BY <1>1 DEF EventsInv, Off, memory, world
<1>8. Calm'
  BY <1>1 DEF EventsInv, Calm, OneTimer, AsOnDisk, CalledFor, OnDisk, memory, world
<1>9. Spent'
  <2>1. \A v \in Versions \ written' : runs'[v] = 0
    BY <1>1, <1>2, <1>3 DEF EventsInv, Spent, world
  <2>2. (disk # NoFile => disk.of \in written /\ Unrun(disk.of))'
    <3>1. disk' # NoFile => disk.of \in written' /\ Unrun(disk.of)
      BY <1>1 DEF EventsInv, Spent, world
    <3>2. Unrun(disk.of) => Unrun(disk.of)'
      BY <1>1, <1>4 DEF Unrun
    <3> QED BY <1>1, <3>1, <3>2
  <2>3. \A h \in reading' : h.got # NoFile =>
          h.got \in written' /\ (~crossed' => Unrun(h.got)')
    BY <1>1, <1>5 DEF EventsInv, Spent, memory, world
  <2>4. \A y \in live' : y.v \in written' /\ InTime(y)' /\ (~crossed' => Unrun(y.v)')
    BY <1>1, <1>5 DEF EventsInv, Spent, InTime, memory, world
  <2> QED BY <2>1, <2>2, <2>3, <2>4, Zenon DEF Spent
<1> QED BY <1>6, <1>7, <1>8, <1>9 DEF EventsInv

LEMMA StepHolds == EventsInv /\ [EventsNext]_eventVars => EventsInv'
BY QuietStep, WriterStep, StartsStep, StopsStep, HandleStep, ReadsStep, GivesUpStep,
   ImmediateStep, OneShotStep, PeriodicStep, FiresStep, RepeatsStep, Zenon
   DEF EventsNext, Handler, Timeout

(* Where a file is, whom it was handed to and what it was run for agree.     *)
THEOREM EventInvariance == EventsSpec => []EventsInv
<1> QED BY InitHolds, StepHolds, PTL DEF EventsSpec

-----------------------------------------------------------------------------
(* Results                                                                     *)

(* When nothing is left to handle, what can fire is what the file calls for. *)
LEMMA Scheduled == EventsInv => ScheduledAsOnDisk
<1> SUFFICES ASSUME EventsInv, watching, ~pending, reading = {}, ~crossed
             PROVE  {x.v : x \in live} = CalledFor /\ Cardinality(live) <= 1
  BY DEF ScheduledAsOnDisk
<1>1. AsOnDisk
  BY DEF EventsInv, Off, Calm
<1>2. CASE live = {} /\ CalledFor = {}
  BY <1>2, FS_EmptySet
<1>3. CASE \E x : live = {x} /\ CalledFor = {x.v}
  <2>1. PICK x : live = {x} /\ CalledFor = {x.v}
    BY <1>3
  <2>2. Cardinality(live) = 1
    BY <2>1, FS_Singleton
  <2> QED BY <2>1, <2>2
<1> QED BY <1>1, <1>2, <1>3 DEF AsOnDisk

(* An execution is the first of its event and not too early.                 *)
LEMMA Execution ==
  ASSUME EventsInv, [EventsNext]_eventVars, NEW v \in Once, runs'[v] > runs[v]
  PROVE  /\ runs[v] = 0 \/ crossed
         /\ Kind(v) = "one-shot" =>
              now >= At(v) \/ \E s \in live : s.v = v /\ TooFar(s)
<1>0. v \in Versions /\ runs[v] \in Nat
  BY DEF Once, EventsInv, Typed
<1>1. runs' # runs
  BY <1>0
<1>2. ASSUME NEW w, runs' = Executed(w) PROVE w = v
  BY <1>0, <1>2 DEF Executed, EventsInv, Typed
<1>3. CASE \E h \in reading : HandleImmediate(h)
  <2>1. PICK h \in reading : HandleImmediate(h)
    BY <1>3
  <2>2. runs' = runs \/ runs' = Executed(h.got)
    BY <2>1 DEF HandleImmediate
  <2>3. h.got = v
    BY <1>1, <1>2, <2>2, Zenon
  <2>4. h.got # NoFile /\ Kind(h.got) = "immediate"
    BY <2>1 DEF HandleImmediate, Got
  <2>5. ~crossed => runs[v] = 0
    BY <2>3, <2>4 DEF EventsInv, Spent, Unrun
  <2> QED BY <2>3, <2>4, <2>5
<1>4. CASE \E x \in live : Fires(x)
  <2>1. PICK x \in live : Fires(x)
    BY <1>4
  <2>2. runs' = Executed(x.v) /\ now >= x.due
    BY <2>1 DEF Fires
  <2>3. x.v = v
    BY <1>2, <2>2, Zenon
  <2>4. InTime(x) /\ (~crossed => Unrun(v))
    BY <2>3 DEF EventsInv, Spent
  <2> QED BY <2>2, <2>3, <2>4 DEF InTime, Unrun
<1>5. CASE \E x \in live : Repeats(x)
  <2>1. PICK x \in live : Kind(x.v) = "periodic" /\ runs' = Executed(x.v)
    BY <1>5 DEF Repeats
  <2>2. x.v = v
    BY <1>2, <2>1, Zenon
  <2> QED BY <2>1, <2>2 DEF Once
<1>6. \/ \E h \in reading : HandleImmediate(h)
      \/ \E x \in live : Fires(x)
      \/ \E x \in live : Repeats(x)
  <2> SUFFICES ASSUME \A h \in reading : ~HandleImmediate(h),
                      \A x \in live : ~Fires(x) /\ ~Repeats(x)
               PROVE  runs' = runs
    BY <1>1
  <2>1. CASE UNCHANGED eventVars
    BY <2>1 DEF eventVars
  <2>2. CASE \E w \in Versions, whole \in BOOLEAN : Writes(w, whole)
    BY <2>2 DEF Writes
  <2>3. CASE Completes \/ Removes \/ TimePasses \/ Starts \/ Watches \/ Stops \/ HandleFileChange
    BY <2>3 DEF Completes, Removes, TimePasses, Starts, Watches, Stops, HandleFileChange
  <2>4. CASE \E h \in reading : Reads(h) \/ GivesUp(h) \/ HandleOneShot(h) \/ HandlePeriodic(h)
    BY <2>4 DEF Reads, GivesUp, HandleOneShot, HandlePeriodic
  <2> QED BY <2>1, <2>2, <2>3, <2>4, Zenon DEF EventsNext, Handler, Timeout
<1> QED BY <1>3, <1>4, <1>5, <1>6

(* What may still fire is what the file calls for, and only once, unless a   *)
(* change was handled while a call of handleFile() was in flight.            *)
THEOREM FollowsTheFile == EventsSpec => []ScheduledAsOnDisk
<1> QED BY EventInvariance, Scheduled, PTL

(* An immediate event or a one-shot is executed once and not before its      *)
(* time, through half-written files, restarts and removals.                  *)
THEOREM OnceInTime == EventsSpec => RunOnceInTime
<1>1. EventsInv /\ [EventsNext]_eventVars =>
        [\A v \in Once : runs'[v] > runs[v] =>
           /\ runs[v] = 0 \/ crossed
           /\ Kind(v) = "one-shot" =>
                now >= At(v) \/ \E s \in live : s.v = v /\ TooFar(s)]_eventVars
  BY Execution, Zenon
<1> QED BY <1>1, EventInvariance, PTL DEF EventsSpec, RunOnceInTime
=============================================================================
