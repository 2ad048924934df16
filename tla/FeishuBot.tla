----------------------------- MODULE FeishuBot -----------------------------
(***************************************************************************)
(* feishu/src/feishu.ts, handleEvent: what the bot does with a delivery of  *)
(* the Feishu server, up to the conversation queue that runs it (module     *)
(* ConversationQueue, whose actions are taken as they are).                 *)
(*                                                                          *)
(* The server delivers a message once or more: after a timeout, after a     *)
(* reconnection, after a restart of the bot.  processedMessageKeys, a map   *)
(* in insertion order that forgets by age and by size, filters the          *)
(* duplicates.  It is shared by all conversations; the module follows the   *)
(* messages of one, and Strangers stand for those of the others.            *)
(***************************************************************************)
EXTENDS ConversationQueue, FiniteSets

CONSTANTS
  Messages,        \* messages of the conversation, addressed to the bot
  Strangers,       \* messages of other conversations
  Ttl,             \* FeishuBotApp.processedMessageTtlMs
  MaxMarks,        \* FeishuBotApp.processedMessageMax
  MaxDeliveries,   \* bound: deliveries of the server
  MaxTime,         \* bound: readings of Date.now()
  MaxCrashes,      \* bound: crashes of the process
  MaxFailures      \* bound: log appends that fail

ASSUME BotAssumption ==
  /\ Messages \cap Strangers = {}
  /\ Tasks = Messages \X (1..MaxDeliveries)
  /\ MaxMarks \in Nat \ {0} /\ Ttl \in Nat /\ MaxDeliveries \in Nat

VARIABLES
  clock,           \* Date.now()
  marks,           \* processedMessageKeys: [key, at], in insertion order
  delivered,       \* deliveries so far
  appending,       \* tasks whose handler awaits logMessage()
  appended,        \* those of them whose line is in the file
  crashes,         \* crashes so far
  failures,        \* failed appends so far
  refused,         \* tasks given up because their append failed
  lost,            \* tasks a crash took with it
  handled          \* history: deliveries that passed the filter, [key, at, life]

botVars == <<vars, clock, marks, delivered, appending, appended, crashes,
             failures, refused, lost, handled>>

BotInit ==
  /\ Init
  /\ clock = 0 /\ marks = <<>> /\ handled = <<>>
  /\ delivered = 0 /\ appending = {} /\ appended = {} /\ refused = {} /\ lost = {}
  /\ crashes = 0 /\ failures = 0

-----------------------------------------------------------------------------
(* The filter.  pruneProcessedMessages() walks the map from its oldest      *)
(* entry and stops at the first one that is young enough: k go.             *)
Old(mark) == clock - mark.at > Ttl
Prunes(k) ==
  /\ k <= Len(marks) /\ \A j \in 1..k : Old(marks[j])
  /\ k < Len(marks) => ~Old(marks[k + 1])

Known(q, m) == \E k \in DOMAIN q : q[k].key = m
(* markIfDuplicate() for a key that what is left, q, does not have.         *)
MarkedFull(q, m) ==                                              \* mutant
  LET all == Append(q, [key |-> m, at |-> clock])
  IN IF Len(all) >= MaxMarks THEN Tail(all) ELSE all
Marked(q, m) ==
  LET all == Append(q, [key |-> m, at |-> clock])
  IN IF Len(all) > MaxMarks THEN Tail(all) ELSE all

Attempt(m) == <<m, delivered + 1>>

(* handleEvent() up to its first await.  A message of this conversation     *)
(* goes on to the log; what becomes of a stranger is not followed.          *)
Deliver(m) ==
  /\ delivered < MaxDeliveries /\ delivered' = delivered + 1
  /\ \E k \in 0..Len(marks) :
       LET left == SubSeq(marks, k + 1, Len(marks)) IN
       /\ Prunes(k)
       /\ IF Known(left, m)
          THEN marks' = left /\ UNCHANGED <<appending, handled>>
          ELSE /\ marks' = Marked(left, m)
               /\ handled' = Append(handled, [key |-> m, at |-> clock, life |-> crashes])
               /\ appending' = IF m \in Messages THEN appending \cup {Attempt(m)}
                              ELSE appending
  /\ UNCHANGED <<vars, clock, appended, crashes, failures, refused, lost>>

(* appendFile() reaches the file.  Appends of several messages are in       *)
(* flight at once and land in any order.                                    *)
LogLands(t) ==
  /\ t \in appending \ appended
  /\ appended' = appended \cup {t}
  /\ UNCHANGED <<vars, clock, marks, delivered, appending, crashes, failures,
                 refused, lost, handled>>

(* ... or rejects: the catch of handleEvent() reports it and that is all.   *)
LogFails(t) ==
  /\ t \in appending \ appended /\ failures < MaxFailures
  /\ failures' = failures + 1
  /\ appending' = appending \ {t} /\ refused' = refused \cup {t}
  /\ UNCHANGED <<vars, clock, marks, delivered, appended, crashes, lost, handled>>

(* The rest of handleEvent().                                               *)
GoesOnWithoutQueue(t) ==                                         \* mutant
  /\ t \in appended
  /\ IF processing THEN UNCHANGED vars ELSE Enqueue(t)
  /\ appending' = appending \ {t} /\ appended' = appended \ {t}
  /\ UNCHANGED <<clock, marks, delivered, crashes, failures, refused, lost, handled>>
GoesOn(t) ==
  /\ t \in appended
  /\ Enqueue(t)
  /\ appending' = appending \ {t} /\ appended' = appended \ {t}
  /\ UNCHANGED <<clock, marks, delivered, crashes, failures, refused, lost, handled>>

(* The run of a message ends, with an answer or with an error, and the      *)
(* queue goes on with the next.                                             *)
Runs(t) ==
  /\ Settle(t) \/ Resume(t)
  /\ UNCHANGED <<clock, marks, delivered, appending, appended, crashes,
                 failures, refused, lost, handled>>

Tick ==
  /\ clock < MaxTime /\ clock' = clock + 1
  /\ UNCHANGED <<vars, marks, delivered, appending, appended, crashes,
                 failures, refused, lost, handled>>

(* The process ends and is started again.  The log and what the server      *)
(* knows stay; the filter and the queues are new.                           *)
Crash ==
  /\ crashes < MaxCrashes /\ crashes' = crashes + 1
  /\ lost' = lost \cup appending \cup activations \cup {tasks[k] : k \in DOMAIN tasks}
  /\ marks' = <<>> /\ appending' = {} /\ appended' = {}
  /\ tasks' = <<>> /\ processing' = FALSE /\ activations' = {} /\ settled' = {}
  /\ UNCHANGED <<enqueued, clock, delivered, failures, refused, handled>>

BotNext ==
  \/ \E m \in Messages \cup Strangers : Deliver(m)
  \/ \E t \in Tasks : LogLands(t) \/ LogFails(t) \/ GoesOn(t) \/ Runs(t)
  \/ Tick \/ Crash

BotSpec == BotInit /\ [][BotNext]_botVars

(* File operations complete, promises that settled resume their awaiter,    *)
(* and a run ends (the executor's own promise: module FeishuReply).         *)
BotFairness ==
  \A t \in Tasks : /\ WF_botVars(LogLands(t) \/ LogFails(t))
                   /\ WF_botVars(GoesOn(t))
                   /\ WF_botVars(Runs(t))
BotFairSpec == BotSpec /\ BotFairness

-----------------------------------------------------------------------------
(* A message is passed on a second time only if the process was restarted,  *)
(* if more than Ttl went by, or if MaxMarks other messages came in between. *)
(* The pruning that stops at the first young entry, the eviction of the     *)
(* oldest and the mark that is set before the first await must all be right *)
(* for it.                                                                  *)
NoEarlyReplay ==
  \A i, j \in DOMAIN handled :
    i < j /\ handled[i].key = handled[j].key =>
      \/ handled[i].life < handled[j].life
      \/ handled[j].at - handled[i].at > Ttl
      \/ j - i > MaxMarks

(* Whatever is delivered, logged late, failing or cut off by a crash, the   *)
(* conversation is served by a serial executor that a crash empties.        *)
Emptied == activations' = {} /\ tasks' = <<>>
ServesInTurn == [][Abstract!Next \/ (crashes' > crashes /\ Emptied)]_<<tasks, activations>>

(* A message that passed the filter is run to its end, unless its log line  *)
(* could not be written or the process crashed.  In the first case the mark *)
(* stays: a redelivery is dropped as a duplicate of a message that was      *)
(* never run.                                                               *)
Served(t) == t \in enqueued /\ t \notin activations /\ ~Waits(t)
EveryMessageIsServed ==
  \A t \in Tasks : t \in appending ~> Served(t) \/ t \in refused \cup lost

=============================================================================
