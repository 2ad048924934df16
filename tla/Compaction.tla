----------------------------- MODULE Compaction -----------------------------
(* Compaction of a session (coding-agent/src/core/compaction/compaction.ts and *)
(* buildSessionContext of session-manager.ts).                                 *)
(*                                                                             *)
(* A session is a tree of entries; the path from its root to the current leaf  *)
(* is what matters here. Entries are appended to the path at any time, also    *)
(* while a compaction that was prepared on an earlier path still waits for its *)
(* summaries. Going back in the tree shortens the path: another branch of the  *)
(* tree is the common ancestor followed by entries with other ids.             *)
(*                                                                             *)
(* A summary is abstracted to the set of entries its text was made from: the   *)
(* messages given to the model, and whatever the previous summary was made     *)
(* from when that is given to the model too.                                   *)
EXTENDS Integers, Sequences, FiniteSets

CONSTANTS
  Compactors,       \* what can have a compaction in flight: compact(), the automatic one
  KeepRecent,       \* settings.keepRecentTokens
  Sizes,            \* the token estimates messages of each kind may have
  MaxEntries,       \* bound: entries ever appended
  MaxNavigations    \* bound: moves of the leaf to an ancestor

ASSUME CompactionAssumption ==
  /\ KeepRecent \in Nat \ {0}
  /\ Sizes \in [{"user", "bash", "assistant", "toolResult"} -> SUBSET Nat]
  /\ MaxEntries \in Nat
  /\ MaxNavigations \in Nat

VARIABLES
  path,       \* entries from the root to the leaf
  lastId,     \* id of the entry appended last
  open,       \* the last assistant message may still get tool results
  pending,    \* what each compactor has prepared, or NoPreparation
  navigations

vars == <<path, lastId, open, pending, navigations>>

\* "message" entries by role. "custom" and "compactionSummary" roles are never
\* written as message entries; "summary" stands for branch_summary and
\* custom_message entries, "setting" for the types that carry no message
\* (thinking_level_change, model_change, custom, label, session_info).
MessageKinds == {"user", "bash", "assistant", "toolResult"}
ContextKinds == MessageKinds \cup {"summary"}
Kinds == ContextKinds \cup {"setting", "compaction"}

NoId == 0
Ids == 1..MaxEntries
NoPreparation == [from |-> NoId]

Entry(kind, tokens) ==
  [id |-> lastId + 1, kind |-> kind, tokens |-> tokens,
   firstKept |-> NoId,  \* compaction: firstKeptEntryId
   summarized |-> {},   \* compaction: messages given to its summary requests
   covers |-> {},       \* compaction: entries its summary is made from
   forgetful |-> FALSE, \* compaction: a previous summary was not passed on
   stale |-> FALSE]     \* compaction: the leaf had left the path it was prepared on

IdsOf(p) == {p[i].id : i \in DOMAIN p}
Greatest(S) == CHOOSE x \in S : \A y \in S : y <= x
Least(S) == CHOOSE x \in S : \A y \in S : x <= y
IndexesOf(p, kinds, first, last) == {i \in first..last : p[i].kind \in kinds}
IdsIn(p, kinds, first, last) == {p[i].id : i \in IndexesOf(p, kinds, first, last)}

-----------------------------------------------------------------------------
(* buildSessionContext: the summary of the last compaction, what it kept, and  *)
(* what came after it                                                          *)

LastCompaction(p) ==
  LET all == IndexesOf(p, {"compaction"}, 1, Len(p))
  IN IF all = {} THEN 0 ELSE Greatest(all)

\* Indexes of the entries whose message is in the context.
Shown(p) ==
  LET c == LastCompaction(p)
  IN {i \in IndexesOf(p, ContextKinds, 1, Len(p)) :
        c # 0 /\ i < c => \E k \in 1..i : p[k].id = p[c].firstKept}

ShownIds(p) == {p[i].id : i \in Shown(p)}

-----------------------------------------------------------------------------
(* findCutPoint                                                                *)

AnyMessage(p, start) == IndexesOf(p, ContextKinds, start, Len(p)) \* mutant

ValidCutPoints(p, start) ==
  IndexesOf(p, {"user", "bash", "assistant", "summary"}, start, Len(p))

\* Token estimate of the messages from each index on.
TokensFrom(p) ==
  LET sum[i \in 1..(Len(p) + 1)] ==
        IF i > Len(p) THEN 0
        ELSE sum[i + 1] + (IF p[i].kind \in MessageKinds THEN p[i].tokens ELSE 0)
  IN sum


\* Where walking back from the newest message reaches the budget.
BudgetReached(p, start) ==
  {i \in IndexesOf(p, MessageKinds, start, Len(p)) : TokensFrom(p)[i] >= KeepRecent}

RawCut(p, start) ==
  LET cuts == ValidCutPoints(p, start)
      reached == BudgetReached(p, start)
      after == IF reached = {} THEN {} ELSE {c \in cuts : c >= Greatest(reached)}
  IN IF after = {} THEN Least(cuts) ELSE Least(after)

\* Entries without a message in front of the cut are kept with it.
WithPrecedingSettings(p, start, cut) ==
  Least({i \in start..cut :
           \A j \in i..(cut - 1) : p[j].kind \notin MessageKinds \cup {"compaction"}})

TurnStarts(p, start, cut) == IndexesOf(p, {"user", "bash", "summary"}, start, cut)

\* The index to keep from, and where the turn it splits starts (0: none is split).
FindCutPoint(p, start) ==
  IF ValidCutPoints(p, start) = {} THEN [cut |-> start, turn |-> 0]
  ELSE LET cut == WithPrecedingSettings(p, start, RawCut(p, start))
           turns == TurnStarts(p, start, cut)
       IN [cut |-> cut,
           turn |-> IF p[cut].kind = "user" \/ turns = {} THEN 0 ELSE Greatest(turns)]

-----------------------------------------------------------------------------
(* prepareCompaction and compact                                               *)

AfterCompaction(p) == LastCompaction(p) + 1 \* mutant

\* Where the previous compaction started to keep; without one, the root.
BoundaryStart(p) ==
  LET c == LastCompaction(p)
      kept == {i \in DOMAIN p : c # 0 /\ p[i].id = p[c].firstKept}
  IN IF c = 0 THEN 1 ELSE IF kept = {} THEN c + 1 ELSE Least(kept)

CanPrepare(p) == p # <<>> /\ p[Len(p)].kind # "compaction"


Prepare(p) ==
  LET start == BoundaryStart(p)
      found == FindCutPoint(p, start)
      historyEnd == IF found.turn # 0 THEN found.turn ELSE found.cut
      c == LastCompaction(p)
  IN [from |-> p[Len(p)].id,
      firstKept |-> p[found.cut].id,
      history |-> IdsIn(p, ContextKinds, start, historyEnd - 1),
      turnPrefix |-> IF found.turn = 0 THEN {}
                     ELSE IdsIn(p, ContextKinds, found.turn, found.cut - 1),
      previous |-> IF c = 0 THEN {} ELSE p[c].covers]

SummaryAlone(prep) == prep.history \cup prep.turnPrefix \* mutant

\* What the summary is made from: the previous summary goes into the history
\* summary, which is not asked for when a split turn has no history before it.
Summary(prep) ==
  IF prep.turnPrefix # {} /\ prep.history = {}
  THEN prep.turnPrefix
  ELSE prep.history \cup prep.turnPrefix \cup prep.previous

-----------------------------------------------------------------------------
Init ==
  /\ path = <<>>
  /\ lastId = 0
  /\ open = FALSE
  /\ pending = [c \in Compactors |-> NoPreparation]
  /\ navigations = 0


Push(entry) ==
  /\ lastId < MaxEntries
  /\ path' = Append(path, entry)
  /\ lastId' = lastId + 1

AppendMessage(kind, tokens) ==
  /\ Push(Entry(kind, tokens))
  /\ open' = (kind = "assistant")
  /\ UNCHANGED <<pending, navigations>>

\* Tool results follow the assistant message that called the tools.
AppendToolResult(tokens) ==
  /\ open
  /\ Push(Entry("toolResult", tokens))
  /\ UNCHANGED <<open, pending, navigations>>

AppendSetting ==
  /\ Push(Entry("setting", 0))
  /\ UNCHANGED <<open, pending, navigations>>

\* Back to an ancestor of the leaf; other entries follow there.
Branch(n) ==
  /\ navigations < MaxNavigations
  /\ n < Len(path)
  /\ path' = SubSeq(path, 1, n)
  /\ open' = FALSE
  /\ navigations' = navigations + 1
  /\ UNCHANGED <<lastId, pending>>

StartCompaction(c) ==
  /\ pending[c] = NoPreparation
  /\ CanPrepare(path)
  /\ pending' = [pending EXCEPT ![c] = Prepare(path)]
  /\ UNCHANGED <<path, lastId, open, navigations>>

\* The summaries have arrived: the entry goes to where the leaf is now.
FinishCompaction(c) ==
  LET prep == pending[c]
  IN /\ prep # NoPreparation
     /\ Push([Entry("compaction", 0) EXCEPT
                !.firstKept = prep.firstKept,
                !.summarized = prep.history \cup prep.turnPrefix,
                !.covers = Summary(prep),
                !.forgetful = prep.previous # {} /\ prep.turnPrefix # {} /\ prep.history = {},
                !.stale = prep.from \notin IdsOf(path)])
     /\ pending' = [pending EXCEPT ![c] = NoPreparation]
     /\ UNCHANGED <<open, navigations>>

\* A request for a summary fails or is aborted.
DropCompaction(c) ==
  /\ pending[c] # NoPreparation
  /\ pending' = [pending EXCEPT ![c] = NoPreparation]
  /\ UNCHANGED <<path, lastId, open, navigations>>

Next ==
  \/ \E kind \in MessageKinds \ {"toolResult"} :
       \E tokens \in Sizes[kind] : AppendMessage(kind, tokens)
  \/ \E tokens \in Sizes["toolResult"] : AppendToolResult(tokens)
  \/ AppendMessage("summary", 0)
  \/ AppendSetting
  \/ \E n \in 0..MaxEntries : Branch(n)
  \/ \E c \in Compactors : StartCompaction(c) \/ FinishCompaction(c) \/ DropCompaction(c)

Spec == Init /\ [][Next]_vars

-----------------------------------------------------------------------------
(* Properties                                                                  *)

Compactions(p) == IndexesOf(p, {"compaction"}, 1, Len(p))

\* No compaction on the path was prepared on another one.
Rooted == \A i \in Compactions(path) : ~path[i].stale

\* Where a compaction cuts. A tool result in the context always follows its
\* assistant message there, whatever was appended while summaries were made; what
\* is kept begins on the path before the compaction, unless the user went
\* elsewhere in the tree meanwhile; and it is within the budget except for its
\* first message, unless there was nothing to cut off.
NoOrphanedResult ==
  Rooted =>
    \A i \in Shown(path) : path[i].kind = "toolResult" =>
      \E j \in Shown(path) :
        /\ j < i
        /\ path[j].kind = "assistant"
        /\ \A k \in (j + 1)..(i - 1) :
             path[k].kind \in {"toolResult", "setting", "compaction"}
KeptOnPath ==
  \A i \in Compactions(path) :
    path[i].stale \/ \E k \in 1..(i - 1) : path[k].id = path[i].firstKept
KeptWithinBudget ==
  CanPrepare(path) =>
    LET start == BoundaryStart(path)
        cut == FindCutPoint(path, start).cut
        kept == IndexesOf(path, MessageKinds, cut, Len(path))
    IN \/ kept = {}
       \/ ValidCutPoints(path, start) = {}
       \/ RawCut(path, start) = Least(ValidCutPoints(path, start))
       \/ TokensFrom(path)[Least(kept) + 1] < KeepRecent
CutsWell == NoOrphanedResult /\ KeptOnPath /\ KeptWithinBudget

\* The spans of successive compactions leave no gap: a message is in the context,
\* or some compaction on the path was given it to summarize.
NothingSkipped ==
  Rooted =>
    \A i \in IndexesOf(path, ContextKinds, 1, Len(path)) :
      \/ i \in Shown(path)
      \/ \E c \in Compactions(path) : path[i].id \in path[c].summarized

\* A message is in the context, or the summary in the context is made from it:
\* what earlier compactions summarized reaches the model through the previous
\* summary ("passing the previous summary as iterative context when present").
NothingForgotten ==
  Rooted => IdsIn(path, ContextKinds, 1, Len(path)) \subseteq
              ShownIds(path) \cup UNION {path[c].covers : c \in {LastCompaction(path)} \ {0}}

\* The same as long as no compaction of a split turn without history was made.
ForgetsOnlyAtSplitTurns ==
  (\A c \in Compactions(path) : ~path[c].forgetful) => NothingForgotten

=============================================================================
