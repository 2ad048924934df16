---------------------------- MODULE FeishuReply ----------------------------
(***************************************************************************)
(* The answer to one Feishu message: PiFeishuExecutor.run (feishu/src/      *)
(* pi.ts) with its working pulse, its stream updater, the card session of   *)
(* FeishuOpenApiClient and the wrapper of FeishuBotApp around them.         *)
(*                                                                          *)
(* Three chains of promises run side by side.  The run itself (pc); the     *)
(* pulse, which keeps a "thinking" card and a typing reaction alive; and    *)
(* the stream, which writes the partial answer into the card.  A card has a *)
(* queue of its own for the writes to it, and every write a sequence number *)
(* the server wants to see grow.  A request to the server does what it      *)
(* asks, or is refused, or does it and loses its response.                  *)
(*                                                                          *)
(* A text is a sequence of tokens, compared and merged as the code compares *)
(* and merges strings.                                                      *)
(***************************************************************************)
EXTENDS Naturals, Sequences, SequencesExt

CONSTANTS
  Tokens,          \* what texts are made of
  Script,          \* what the model writes if nothing stops it: a list of texts
  Again,           \* what it writes when asked again for a text
  Separator, Thinking, Notice,   \* tokens: join of texts, placeholder, our own words
  ChunkLength,     \* MAX_TEXT_LENGTH
  MaxUpdates,      \* streamMaxUpdates
  MaxTicks,        \* bound: firings of the pulse's timers
  MaxFailures      \* bound: requests that are refused or lose their response

(* The model never writes the placeholder of a card itself.                 *)
ASSUME ReplyAssumption ==
  /\ Script \in Seq(Seq(Tokens)) /\ Again \in Seq(Seq(Tokens))
  /\ <<>> \notin ToSet(Script) \cup ToSet(Again)
  /\ {Separator, Notice} \subseteq Tokens /\ Thinking \notin Tokens
  /\ ChunkLength \in Nat

VARIABLES
  pc,              \* where run() is
  job,             \* the reply() it awaits: [chunks, at, card, put, then]
  said,            \* texts of the assistant in this prompt
  asked,           \* prompts sent so far
  files,           \* the answer names files to send
  busy,            \* run() rejects: the wrapper will say so
  pend, last, sent,   \* pendingText, lastSentText, sentCount of the updater
  chain,           \* the updater's chain: texts to be sent, the head on its way
  stage,           \* where the head of the chain is
  pulses,          \* the pulse's chain: setWorking arguments, the head on its way
  work,            \* the two requests of setWorking: card and reaction
  ticks, closed,   \* firings so far; the pulse's flag
  session,         \* cardKitStreamBySource: the card of the message, or 0
  typing,          \* typingReactionBySource has the message
  chat,            \* messages in the chat: see Card and Plain
  reaction,        \* the typing reaction is on the message
  failures,
  told,            \* history: texts whose reply() succeeded
  orphans          \* history: cards the client lost sight of

runVars == <<pc, job, said, asked, files, busy>>
streamVars == <<pend, last, sent, chain, stage>>
pulseVars == <<pulses, work, ticks, closed>>
clientVars == <<session, typing>>
serverVars == <<chat, reaction, failures>>
history == <<told, orphans>>
vars == <<runVars, streamVars, pulseVars, clientVars, serverVars, history>>

-----------------------------------------------------------------------------
(* Texts *)
Includes(s, t) == \E k \in 0..(Len(s) - Len(t)) : SubSeq(s, k + 1, k + Len(t)) = t
Overlaps(p, n) ==
  {o \in 1..Len(n) : o <= Len(p) /\ SubSeq(p, Len(p) - o + 1, Len(p)) = SubSeq(n, 1, o)}
MergeReplaces(p, n) == IF n = <<>> THEN p ELSE n                 \* mutant
MergeStreamingText(p, n) ==
  CASE n = <<>> -> p
    [] n # <<>> /\ (p = <<>> \/ Includes(n, p)) -> n
    [] OTHER -> IF Includes(p, n) THEN p
                ELSE p \o SubSeq(n, Max(Overlaps(p, n) \cup {0}) + 1, Len(n))

Joined == FlattenSeq([k \in 1..Len(said) |->
                        IF k = 1 THEN said[k] ELSE <<Separator>> \o said[k]])
Chunks(t) == IF Len(t) <= ChunkLength THEN <<t>>
             ELSE <<SubSeq(t, 1, ChunkLength), SubSeq(t, ChunkLength + 1, Len(t))>>

(* A message of the chat.  For a card: the text, mode and sequence the      *)
(* server has, what the client believes the text and sequence are, the      *)
(* promises queued on it, and the number of the write that is in flight.    *)
Card == [text |-> <<Thinking>>, open |-> TRUE, seq |-> 1,
         known |-> <<Thinking>>, number |-> 1, links |-> <<>>, put |-> 0]
Plain(t) == [text |-> t, open |-> FALSE, seq |-> 0,
             known |-> t, number |-> 0, links |-> <<>>, put |-> 0]
BaseText(c) == IF c.known = <<Thinking>> THEN <<>> ELSE c.known

(* How a request ends. *)
Outcomes == {"ok", "refused", "unheard"}
Ends(o) == /\ o \in Outcomes
           /\ failures' = IF o = "ok" THEN failures ELSE failures + 1
           /\ failures' <= MaxFailures

Init ==
  /\ pc = "waiting" /\ job = [chunks |-> <<>>, at |-> 0, card |-> 0, put |-> 0, then |-> "stop"]
  /\ said = <<>> /\ asked = 0 /\ files \in BOOLEAN /\ busy = FALSE
  /\ pend = <<>> /\ last = <<>> /\ sent = 0 /\ chain = <<>> /\ stage = "idle"
  /\ pulses = <<TRUE>> /\ work = [card |-> "idle", typing |-> "idle"]
  /\ ticks = 0 /\ closed = FALSE
  /\ session = 0 /\ typing = FALSE /\ chat = <<>> /\ reaction = FALSE
  /\ failures = 0 /\ told = <<>> /\ orphans = {}

-----------------------------------------------------------------------------
(* ensureCardKitSession(), for the pulse and for the stream.                *)
(* From here on the run has looked for the card it is to close.             *)
Answered == pc \notin {"waiting", "opening", "prompting", "flushing"}

(* The card that request o made, if it made one, and the map's new entry.   *)
CardMade(o, c) ==
  /\ chat' = IF o = "refused" THEN chat ELSE Append(chat, c)
  /\ session' = IF o = "ok" THEN Len(chat) + 1 ELSE session
  /\ orphans' = orphans \cup (IF o = "ok" /\ session # 0 THEN {session} ELSE {})
                        \cup (IF o = "ok" /\ Answered THEN {Len(chat) + 1} ELSE {})

-----------------------------------------------------------------------------
(* The pulse: startWorkingPulse() and setWorking().                         *)
Tick ==
  /\ ticks < MaxTicks /\ ~closed
  /\ ticks' = ticks + 1 /\ pulses' = Append(pulses, TRUE)
  /\ UNCHANGED <<runVars, streamVars, work, closed, clientVars, serverVars, history>>

WorkingStarts ==
  /\ pulses # <<>> /\ work = [card |-> "idle", typing |-> "idle"]
  /\ IF closed /\ Head(pulses) THEN pulses' = Tail(pulses) /\ UNCHANGED <<work, typing>>
     ELSE IF Head(pulses) THEN
       /\ work' = [card |-> IF session = 0 THEN "creating" ELSE "done",
                   typing |-> IF typing THEN "done" ELSE "creating"]
       /\ UNCHANGED <<pulses, typing>>
     ELSE /\ work' = [card |-> "done", typing |-> IF typing THEN "deleting" ELSE "done"]
          /\ typing' = FALSE
          /\ UNCHANGED pulses
  /\ UNCHANGED <<runVars, streamVars, ticks, closed, session, serverVars, history>>

PulseCard(o) ==
  /\ work.card = "creating" /\ Ends(o) /\ CardMade(o, Card)
  /\ work' = [work EXCEPT !.card = "done"]
  /\ UNCHANGED <<runVars, streamVars, pulses, ticks, closed, typing, reaction, told>>

Reacts(o) ==
  /\ work.typing \in {"creating", "deleting"} /\ Ends(o)
  /\ work' = [work EXCEPT !.typing = "done"]
  /\ reaction' = IF o = "refused" THEN reaction ELSE work.typing = "creating"
  /\ typing' = (typing \/ (work.typing = "creating" /\ o = "ok"))
  /\ UNCHANGED <<runVars, streamVars, pulses, ticks, closed, session, chat, history>>

WorkingEnds ==
  /\ work = [card |-> "done", typing |-> "done"]
  /\ work' = [card |-> "idle", typing |-> "idle"] /\ pulses' = Tail(pulses)
  /\ UNCHANGED <<runVars, streamVars, ticks, closed, clientVars, serverVars, history>>

-----------------------------------------------------------------------------
(* The stream: createStreamUpdater() and sendStreamingReplace().            *)

(* push() of the text of the last message; shouldSendNow() also depends on  *)
(* the time and on where sentences end, hence the choice.                   *)
Push(text) ==
  LET base == IF pend # <<>> THEN pend ELSE last
      merged == MergeStreamingText(base, text)
  IN IF merged \in {last, pend} THEN UNCHANGED <<pend, last, sent, chain>>
     ELSE \/ pend' = merged /\ UNCHANGED <<last, sent, chain>>
          \/ /\ sent < MaxUpdates
             /\ pend' = <<>> /\ last' = merged /\ sent' = sent + 1
             /\ chain' = Append(chain, merged)

(* updateCardKitSession(): the text joins the card's queue, unless it says  *)
(* nothing new.  Closing a card does the same with the final text.          *)
WithLink(c, by, text) ==
  LET merged == MergeStreamingText(BaseText(c), text)
  IN IF merged = BaseText(c) THEN c
     ELSE [c EXCEPT !.links = Append(@, [by |-> by, text |-> merged])]
Linked(i, by) == \E k \in DOMAIN chat[i].links : chat[i].links[k].by = by

StreamStarts ==
  /\ chain # <<>> /\ stage = "idle"
  /\ IF session = 0 THEN stage' = "creating" /\ UNCHANGED chat
     ELSE /\ stage' = "updating"
          /\ chat' = [chat EXCEPT ![session] = WithLink(@, "stream", Head(chain))]
  /\ UNCHANGED <<runVars, pend, last, sent, chain, pulseVars, clientVars,
                 reaction, failures, history>>

StreamCard(o) ==
  /\ stage = "creating" /\ Ends(o)
  /\ CardMade(o, IF o = "ok" THEN WithLink(Card, "stream", Head(chain)) ELSE Card)
  /\ stage' = IF o = "ok" THEN "updating" ELSE "posting"
  /\ UNCHANGED <<runVars, pend, last, sent, chain, pulseVars, typing, reaction, told>>

(* Without a card the partial text is a message of its own.                 *)
StreamPosts(o) ==
  /\ stage = "posting" /\ Ends(o)
  /\ chat' = IF o = "refused" THEN chat ELSE Append(chat, Plain(Head(chain)))
  /\ stage' = "updating"
  /\ UNCHANGED <<runVars, pend, last, sent, chain, pulseVars, clientVars, reaction, history>>

StreamEnds ==
  /\ stage = "updating" /\ \A i \in DOMAIN chat : ~Linked(i, "stream")
  /\ stage' = "idle" /\ chain' = Tail(chain)
  /\ UNCHANGED <<runVars, pend, last, sent, pulseVars, clientVars, serverVars, history>>

-----------------------------------------------------------------------------
(* The queue of a card.  The head of it merges its text with what the card  *)
(* has by then and sends the result under the next sequence number; the     *)
(* server refuses a number that does not grow.  A write that fails rejects  *)
(* every promise that is queued behind it.                                  *)
NextText(c) == MergeStreamingText(BaseText(c), Head(c.links).text)
Queued(c) ==
  IF NextText(c) = c.known THEN [c EXCEPT !.links = Tail(@)]
  ELSE [c EXCEPT !.put = c.number + 1]
PutStarts(i) ==
  /\ chat[i].links # <<>> /\ chat[i].put = 0
  /\ chat' = [chat EXCEPT ![i] = Queued(@)]
  /\ UNCHANGED <<runVars, streamVars, pulseVars, clientVars, reaction, failures, history>>

WrittenEarly(c, o) ==                                            \* mutant
  LET done == o # "refused" /\ c.put > c.seq
      written == [c EXCEPT !.known = NextText(c), !.links = Tail(@), !.put = 0]
  IN IF done THEN [written EXCEPT !.text = NextText(c), !.seq = c.put, !.number = c.put]
     ELSE written
WrittenAgain(c, o) ==                                            \* mutant
  LET done == o # "refused" /\ c.put > c.seq
      onServer == IF done THEN [c EXCEPT !.text = NextText(c), !.seq = c.put] ELSE c
  IN IF done /\ o = "ok"
     THEN [onServer EXCEPT !.known = NextText(c), !.number = c.put,
                           !.links = Tail(@), !.put = 0]
     ELSE [onServer EXCEPT !.put = 0]
Written(c, o) ==
  LET done == o # "refused" /\ c.put > c.seq
      onServer == IF done THEN [c EXCEPT !.text = NextText(c), !.seq = c.put] ELSE c
  IN IF done /\ o = "ok"
     THEN [onServer EXCEPT !.known = NextText(c), !.number = c.put,
                           !.links = Tail(@), !.put = 0]
     ELSE [onServer EXCEPT !.links = <<>>, !.put = 0]
Fails(c, o) == o # "ok" \/ c.put <= c.seq

(* closeCardKitSession() is over, one way or the other: the map forgets the *)
(* message, whichever card it has for it by now.  Failed, the whole reply   *)
(* is sent as messages.                                                     *)
ForgetCard ==
  /\ session' = 0
  /\ orphans' = orphans \cup ({session} \ {0, job.card})
GivesUpTheCard == ForgetCard /\ pc' = "posting" /\ job' = [job EXCEPT !.card = 0]

(* A failed write ends the closing of the card that awaits it: see Closes.  *)
PutEnds(i, o) ==
  /\ chat[i].put > 0 /\ Ends(o)
  /\ chat' = [chat EXCEPT ![i] = Written(@, o)]
  /\ IF pc = "closing" /\ job.card = i /\ Fails(chat[i], o)
     THEN GivesUpTheCard ELSE UNCHANGED <<pc, job, session, orphans>>
  /\ UNCHANGED <<said, asked, files, busy, streamVars, pulseVars, typing, reaction, told>>

-----------------------------------------------------------------------------
(* The run: PiFeishuExecutor.run().                                         *)

(* reply(): closes the card of the message with the first chunk if there is *)
(* one, and sends what is left as messages.  `seen' is the chat before it,  *)
(* and `then' where the run goes on: "failed" marks the reply of the catch, *)
(* whose failure run() rejects with, and "done" the wrapper's own, whose    *)
(* failure nobody hears of.                                                 *)
Words == << <<Notice>> >>
ReplyBeside(seen, chunks, then) ==                               \* mutant
  /\ job' = [chunks |-> chunks, at |-> 1, card |-> session, put |-> 0, then |-> then]
  /\ IF session = 0 \/ chunks = Words THEN pc' = "posting" /\ chat' = seen
     ELSE /\ pc' = "closing"
          /\ chat' = [seen EXCEPT ![session] = WithLink(@, "run", chunks[1])]
Reply(seen, chunks, then) ==
  /\ job' = [chunks |-> chunks, at |-> 1, card |-> session, put |-> 0, then |-> then]
  /\ IF session = 0 THEN pc' = "posting" /\ chat' = seen
     ELSE /\ pc' = "closing"
          /\ chat' = [seen EXCEPT ![session] = WithLink(@, "run", chunks[1])]
(* reply() rejects: run() replies with the error, and only once.            *)
Throws(seen) ==
  CASE job.then = "failed" -> /\ busy' = TRUE /\ pc' = "stopping" /\ chat' = seen
                              /\ UNCHANGED job
    [] job.then = "done"   -> pc' = "done" /\ chat' = seen /\ UNCHANGED <<job, busy>>
    [] OTHER               -> Reply(seen, Words, "failed") /\ UNCHANGED busy

(* awaitInitialSend() gives up after a while; the first link of the pulse's *)
(* chain has at least begun by then.                                        *)
Begun == pulses # <<>> => work # [card |-> "idle", typing |-> "idle"]
Opens ==
  /\ pc = "waiting" /\ Begun /\ pc' = "opening"
  /\ UNCHANGED <<job, said, asked, files, busy, streamVars, pulseVars, clientVars,
                 serverVars, history>>

(* getOrCreateSession(), rotateSessionIfNeeded() and the start of prompt(). *)
SessionReady ==
  /\ pc = "opening" /\ pc' = "prompting" /\ asked' = 1
  /\ UNCHANGED <<job, said, files, busy, streamVars, pulseVars, clientVars,
                 serverVars, history>>
(* Both may reject, prompt() only before the model was asked: what goes     *)
(* wrong later ends as a message of the session.                            *)
RunFails ==
  /\ pc \in {"opening", "prompting"} /\ said = <<>> /\ Reply(chat, Words, "failed")
  /\ UNCHANGED <<said, asked, files, busy, streamVars, pulseVars, clientVars,
                 reaction, failures, history>>

(* One more token of the model's, and the message_update that reports it.   *)
Longer(s) ==
  LET n == Len(said)
  IN IF n > 0 /\ Len(said[n]) < Len(s[n])
     THEN [said EXCEPT ![n] = SubSeq(s[n], 1, Len(@) + 1)]
     ELSE Append(said, <<s[n + 1][1]>>)
Speaks ==
  LET s == IF asked = 1 THEN Script ELSE Again
  IN /\ pc = "prompting" /\ said # s
     /\ said' = Longer(s) /\ Push(Last(said'))
     /\ UNCHANGED <<pc, job, asked, files, busy, stage, pulseVars, clientVars,
                    serverVars, history>>

(* What is done with the answer once prompt() is over.                      *)
Decide ==
  CASE Joined # <<>> -> Reply(chat, Chunks(Joined), "files") /\ UNCHANGED <<said, asked>>
    [] Joined = <<>> /\ files ->
         /\ pc' = "files" /\ UNCHANGED <<job, said, asked, chat>>
    [] OTHER ->
         IF asked = 1 THEN /\ pc' = "prompting" /\ asked' = 2 /\ said' = <<>>
                           /\ UNCHANGED <<job, chat>>
         ELSE Reply(chat, Words, "stopping") /\ UNCHANGED <<said, asked>>

(* The model is done, or was stopped with what it had written.              *)
PromptEnds ==
  /\ pc = "prompting" /\ asked = 1 /\ pc' = "flushing"
  /\ IF pend \notin {<<>>, last} /\ sent < MaxUpdates
     THEN /\ pend' = <<>> /\ last' = pend /\ sent' = sent + 1
          /\ chain' = Append(chain, pend)
     ELSE UNCHANGED <<pend, last, sent, chain>>
  /\ UNCHANGED <<job, said, asked, files, busy, stage, pulseVars, clientVars,
                 serverVars, history>>
Flushed ==
  /\ pc = "flushing" /\ chain = <<>>
  /\ Decide
  /\ UNCHANGED <<files, busy, streamVars, pulseVars, clientVars, reaction,
                 failures, history>>
(* Nobody flushes the stream of the second prompt.                          *)
SecondPromptEnds ==
  /\ pc = "prompting" /\ asked = 2
  /\ Decide
  /\ UNCHANGED <<files, busy, streamVars, pulseVars, clientVars, reaction,
                 failures, history>>

(* The card has the text; now it stops streaming.                           *)
Closes ==
  /\ pc = "closing" /\ chat[job.card].links = <<>>
  /\ pc' = "patching" /\ job' = [job EXCEPT !.put = chat[job.card].number + 1]
  /\ UNCHANGED <<said, asked, files, busy, streamVars, pulseVars, clientVars,
                 serverVars, history>>

Moves(at) == CASE at <= Len(job.chunks) -> "posting"
               [] at > Len(job.chunks) /\ job.then = "failed" -> "stopping"
               [] OTHER -> job.then
Arrived(at) == IF at > Len(job.chunks) THEN Append(told, job.chunks) ELSE told
PatchEnds(o) ==
  /\ pc = "patching" /\ Ends(o)
  /\ LET c == chat[job.card]
         done == o # "refused" /\ job.put > c.seq
         closedCard == [c EXCEPT !.open = FALSE, !.seq = job.put]
     IN IF done /\ o = "ok"
        THEN /\ chat' = [chat EXCEPT ![job.card] = [closedCard EXCEPT !.number = job.put]]
             /\ ForgetCard /\ job' = [job EXCEPT !.at = 2]
             /\ pc' = Moves(2) /\ told' = Arrived(2)
        ELSE /\ chat' = IF done THEN [chat EXCEPT ![job.card] = closedCard] ELSE chat
             /\ GivesUpTheCard /\ UNCHANGED told
  /\ UNCHANGED <<said, asked, files, busy, streamVars, pulseVars, typing, reaction>>

(* sendCardViaReply() and, if it is refused, sendCardViaCreate().           *)
Posts(o) ==
  /\ pc = "posting" /\ Ends(o)
  /\ LET seen == IF o = "refused" THEN chat ELSE Append(chat, Plain(job.chunks[job.at])) IN
     IF o = "ok"
     THEN /\ chat' = seen /\ job' = [job EXCEPT !.at = @ + 1]
          /\ pc' = Moves(job.at + 1) /\ told' = Arrived(job.at + 1)
          /\ UNCHANGED busy
     ELSE Throws(seen) /\ UNCHANGED told
  /\ UNCHANGED <<said, asked, files, streamVars, pulseVars, clientVars, reaction, orphans>>

(* sendFiles() and what is said of it.                                      *)
Uploads(arrives) ==
  /\ pc = "files"
  /\ CASE ~files -> pc' = "stopping" /\ UNCHANGED <<job, chat>>
       [] files /\ arrives ->
            IF Joined # <<>> THEN pc' = "stopping" /\ UNCHANGED <<job, chat>>
            ELSE Reply(chat, Words, "stopping")
       [] OTHER -> Reply(chat, Words, IF Joined # <<>> THEN "stopping" ELSE "failed")
  /\ UNCHANGED <<said, asked, files, busy, streamVars, pulseVars, clientVars,
                 reaction, failures, history>>

(* workingPulse.stop(): no timer fires any more and what waits in the chain *)
(* is skipped, but for the setWorking(false) at its end.                    *)
StopsIfTyping ==                                                 \* mutant
  /\ pc = "stopping" /\ pc' = "cancelling"
  /\ closed' = TRUE /\ pulses' = IF typing THEN Append(pulses, FALSE) ELSE pulses
  /\ UNCHANGED <<job, said, asked, files, busy, streamVars, work, ticks, clientVars,
                 serverVars, history>>
Stops ==
  /\ pc = "stopping" /\ pc' = "cancelling"
  /\ closed' = TRUE /\ pulses' = Append(pulses, FALSE)
  /\ UNCHANGED <<job, said, asked, files, busy, streamVars, work, ticks, clientVars,
                 serverVars, history>>

(* run() settles; if it rejects, FeishuBotApp says that it is busy.         *)
Settles ==
  /\ pc = "cancelling" /\ pulses = <<>>
  /\ IF busy THEN Reply(chat, Words, "done") ELSE pc' = "done" /\ UNCHANGED <<job, chat>>
  /\ UNCHANGED <<said, asked, files, busy, streamVars, pulseVars, clientVars,
                 reaction, failures, history>>

RunStep ==
  \/ SessionReady \/ RunFails \/ Speaks \/ PromptEnds \/ Flushed \/ SecondPromptEnds
  \/ Closes \/ \E o \in Outcomes : PatchEnds(o) \/ Posts(o)
  \/ \E arrives \in BOOLEAN : Uploads(arrives)
  \/ Opens \/ Stops \/ Settles
PulseStep ==
  \/ WorkingStarts \/ WorkingEnds \/ \E o \in Outcomes : PulseCard(o) \/ Reacts(o)
StreamStep ==
  \/ StreamStarts \/ StreamEnds \/ \E o \in Outcomes : StreamCard(o) \/ StreamPosts(o)
CardStep ==
  \E i \in DOMAIN chat : PutStarts(i) \/ \E o \in Outcomes : PutEnds(i, o)
Next == RunStep \/ PulseStep \/ StreamStep \/ CardStep \/ Tick

Spec == Init /\ [][Next]_vars

(* Requests settle and each chain goes on.  Nothing is assumed of a call of *)
(* session.prompt(), which the run awaits while it is "prompting".          *)
Fairness == /\ WF_vars(pc # "prompting" /\ RunStep) /\ WF_vars(PulseStep)
            /\ WF_vars(StreamStep) /\ WF_vars(CardStep)
FairSpec == Spec /\ Fairness

-----------------------------------------------------------------------------
(* A reply() that succeeded shows its text, whatever the stream, the pulse  *)
(* and lost responses did to the card: every chunk can be read whole in     *)
(* some message of the chat, and stays there.                               *)
FinalTextShown ==
  \A k \in DOMAIN told : \A n \in DOMAIN told[k] :
    \E i \in DOMAIN chat : Includes(chat[i].text, told[k][n])

(* A card never loses text it showed, except the placeholder.               *)
CardTextGrows ==
  [][\A i \in DOMAIN chat :
       chat[i].text = <<Thinking>> \/ Includes(chat'[i].text, chat[i].text)]_vars

(* When all is over the typing reaction is gone, if the server answered     *)
(* every request: the chain puts the removal behind every creation.         *)
Over == pc = "done" /\ chain = <<>> /\ pulses = <<>>
TypingIsCleared == Over /\ failures = 0 => ~reaction

(* A card is left streaming only if the client lost sight of it, if a       *)
(* request failed, or if a second prompt was streamed into it.              *)
OpenCardsAreLost ==
  Over /\ failures = 0 /\ asked < 2 =>
    \A i \in DOMAIN chat : chat[i].open => i \in orphans

(* Every message is answered or given up, and the queue can go on, unless   *)
(* one of the two calls of session.prompt() never returns: whatever the     *)
(* requests, the stream and the pulse do, run() waits for nothing else.     *)
RunSettles == <>(pc = "done") \/ <>[](pc = "prompting")

=============================================================================
