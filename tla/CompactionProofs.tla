------------------------- MODULE CompactionProofs -------------------------
(* What is proved of Compaction: whatever the sizes of messages, the budget    *)
(* and the number of compactions in flight, successive compactions leave no    *)
(* gap between the spans they summarize, cut neither between a call and its    *)
(* result nor outside the path, and keep what the budget says.                 *)
(*                                                                             *)
(* The invariant says what a compaction entry means for the path before it: it *)
(* holds for each of them, the earlier ones included, and a path that is       *)
(* shortened keeps it. A compaction under way was prepared on a beginning of   *)
(* the path, or the path has been left for good: ids are never used again.     *)
EXTENDS Compaction, SequenceTheorems, WellFoundedInduction, TLAPS

-----------------------------------------------------------------------------
(* The invariant                                                               *)

Entries == [id : Nat, kind : Kinds, tokens : Nat, firstKept : Nat, summarized : SUBSET Nat,
            covers : SUBSET Nat, forgetful : BOOLEAN, stale : BOOLEAN]
Preparations == [from : Nat \ {0}, firstKept : Nat, history : SUBSET Nat,
                 turnPrefix : SUBSET Nat, previous : SUBSET Nat]
CutKinds == {"user", "bash", "assistant", "summary"}
Behind == {"toolResult", "setting", "compaction"}

(* Every compaction up to an index was prepared on the path.                 *)
RootedTo(p, c) == \A d \in 1..c : p[d].kind = "compaction" => ~p[d].stale
Remembers(p, c) == \A d \in 1..c : p[d].kind = "compaction" => ~p[d].forgetful

(* The compaction c keeps what stands at i.                                  *)
Keeps(p, c, i) == \E k \in 1..i : p[k].id = p[c].firstKept

(* From k on, the first message is none that depends on one before it.       *)
CleanAt(p, c, k) ==
  k = 1 \/ \E r \in k..(c - 1) :
             /\ p[r].kind \in CutKinds
             /\ \A m \in k..(r - 1) : p[m].kind \notin MessageKinds \cup {"compaction"}

(* What was not kept is summarized, by this compaction or an earlier one.    *)
OnThePath(p, c) == p[c].stale \/ \E k \in 1..(c - 1) : p[k].id = p[c].firstKept
Accounted(p, c) ==
  \A i \in 1..(c - 1) : p[i].kind \in ContextKinds /\ ~Keeps(p, c, i) =>
    \E d \in 1..c : p[d].kind = "compaction" /\ p[i].id \in p[d].summarized
Recalled(p, c) ==
  Remembers(p, c) =>
    \A i \in 1..(c - 1) : p[i].kind \in ContextKinds /\ ~Keeps(p, c, i) =>
      p[i].id \in p[c].covers
Clean(p, c) == \A k \in 1..(c - 1) : p[k].id = p[c].firstKept => CleanAt(p, c, k)
CompactionSound(p, c) ==
  /\ OnThePath(p, c)
  /\ RootedTo(p, c) => Accounted(p, c) /\ Recalled(p, c) /\ Clean(p, c)

(* A tool result stands behind the message that called the tool.             *)
Follows(p, j, i) == p[j].kind = "assistant" /\ \A k \in (j + 1)..i : p[k].kind \in Behind
ResultSound(p, i) == \E j \in 1..(i - 1) : Follows(p, j, i)

Rising(p) == \A i, j \in DOMAIN p : i < j => p[i].id < p[j].id
CompactionsSound(p) == \A c \in DOMAIN p : p[c].kind = "compaction" => CompactionSound(p, c)
ResultsSound(p) == \A i \in DOMAIN p : p[i].kind = "toolResult" => ResultSound(p, i)
Sound(p) == Rising(p) /\ CompactionsSound(p) /\ ResultsSound(p)

Typed ==
  /\ path \in Seq(Entries)
  /\ lastId \in Nat
  /\ \A i \in DOMAIN path : path[i].id \in 1..lastId
  /\ open \in BOOLEAN
  /\ pending \in [Compactors -> Preparations \cup {NoPreparation}]

Called(p) == \E j \in DOMAIN p : Follows(p, j, Len(p))

PreparedOn(prep, p, last) ==
  prep # NoPreparation =>
    /\ prep.from \in 1..last
    /\ \A n \in DOMAIN p : p[n].id = prep.from =>
         p[n].kind # "compaction" /\ prep = Prepare(SubSeq(p, 1, n))
AllPrepared == \A c \in Compactors : PreparedOn(pending[c], path, lastId)

IInv == Typed /\ Sound(path) /\ (open => Called(path)) /\ AllPrepared

-----------------------------------------------------------------------------
(* Least and greatest                                                          *)

LEMMA Smallest ==
  ASSUME NEW A \in SUBSET Nat, A # {}
  PROVE  \E k \in A : \A l \in A : k <= l
<1>1. PICK k \in A : \A l \in A : ~(<<l, k>> \in OpToRel(<, Nat))
  BY NatLessThanWellFounded, WFMin
<1>2. \A l \in A : k <= l
  <2> TAKE l \in A
  <2>1. l < k => <<l, k>> \in OpToRel(<, Nat)
    BY DEF OpToRel
  <2>2. ~(l < k)
    BY <1>1, <2>1, Zenon
  <2> QED BY <2>2
<1> QED BY <1>2

LEMMA LeastIs ==
  ASSUME NEW A \in SUBSET Nat, A # {}
  PROVE  Least(A) \in A /\ \A y \in A : Least(A) <= y
<1>1. \E x \in A : \A y \in A : x <= y
  BY Smallest, Zenon
<1> QED BY <1>1, Zenon DEF Least

Bounded(A, n) == \A x \in A : x <= n

LEMMA GreatestIs ==
  ASSUME NEW A \in SUBSET Nat, A # {}, NEW n \in Nat, Bounded(A, n)
  PROVE  Greatest(A) \in A /\ \A y \in A : y <= Greatest(A)
<1> DEFINE B == {b \in Nat : \A x \in A : x <= b}
<1>1. PICK k \in B : \A l \in B : k <= l
  <2>1. B \in SUBSET Nat
    OBVIOUS
  <2>2. n \in B
    BY DEF Bounded
  <2> HIDE DEF B
  <2> QED BY <2>1, <2>2, Smallest
<1>2. k \in Nat /\ \A x \in A : x <= k
  OBVIOUS
<1>3. k \in A
  <2> SUFFICES ASSUME k \notin A PROVE FALSE
    OBVIOUS
  <2>1. \A x \in A : x \in Nat /\ x < k
    BY <1>2
  <2>2. k - 1 \in B
    <3>1. PICK a \in A : a \in Nat /\ a < k
      BY <2>1, Zenon
    <3>2. k - 1 \in Nat
      BY <1>2, <3>1
    <3>3. \A x \in A : x <= k - 1
      BY <1>2, <2>1
    <3> QED BY <3>2, <3>3
  <2>3. k <= k - 1
    <3> HIDE DEF B
    <3> QED BY <1>1, <2>2, Zenon
  <2> QED BY <1>2, <2>3
<1>4. \E x \in A : \A y \in A : y <= x
  BY <1>2, <1>3, Zenon
<1> QED BY <1>4, Zenon DEF Greatest

-----------------------------------------------------------------------------
(* What prepareCompaction finds on a path                                      *)

LEMMA EntryKinds ==
  /\ CutKinds \subseteq ContextKinds
  /\ MessageKinds \subseteq ContextKinds
  /\ "compaction" \notin ContextKinds
  /\ "toolResult" \notin CutKinds
BY DEF CutKinds, ContextKinds, MessageKinds

LEMMA LastCompactionIs ==
  ASSUME NEW p \in Seq(Entries), NEW n \in Nat, n = Len(p), NEW c, c = LastCompaction(p)
  PROVE  /\ c \in 0..n
         /\ c # 0 => p[c].kind = "compaction"
         /\ \A d \in 1..n : p[d].kind = "compaction" => d <= c
<1> PICK all : all = IndexesOf(p, {"compaction"}, 1, n)
  OBVIOUS
<1>1. all = {d \in 1..n : p[d].kind = "compaction"}
  BY DEF IndexesOf
<1>2. CASE all = {}
  <2>1. c = 0
    BY <1>2 DEF LastCompaction
  <2> QED BY <1>1, <1>2, <2>1
<1>3. CASE all # {}
  <2>1. c = Greatest(all)
    BY <1>3 DEF LastCompaction
  <2>2. Greatest(all) \in all /\ \A y \in all : y <= Greatest(all)
    <3>1. all \in SUBSET Nat
      BY <1>1
    <3>2. Bounded(all, n)
      BY <1>1 DEF Bounded
    <3> QED BY <1>3, <3>1, <3>2, GreatestIs, Zenon
  <2>3. c \in all /\ \A y \in all : y <= c
    BY <2>1, <2>2, Zenon
  <2>4. c \in 1..n /\ p[c].kind = "compaction"
    BY <1>1, <2>3, Zenon
  <2>5. \A d \in 1..n : p[d].kind = "compaction" => d <= c
    BY <1>1, <2>3, Zenon
  <2> QED BY <2>4, <2>5
<1> QED BY <1>2, <1>3

(* Before the boundary stands what the last compaction did not keep.         *)
LEMMA BoundaryIs ==
  ASSUME NEW p \in Seq(Entries), NEW n \in Nat, n = Len(p), n # 0,
         p[n].kind # "compaction",
         NEW start, start = BoundaryStart(p), NEW c, c = LastCompaction(p)
  PROVE  /\ start \in 1..n
         /\ c = 0 => start = 1
         /\ c # 0 /\ Keeps(p, c, n) => p[start].id = p[c].firstKept
         /\ c # 0 => \A i \in 1..(start - 1) : ~Keeps(p, c, i)
<1>1. /\ c \in 0..n /\ c # n
      /\ c # 0 => p[c].kind = "compaction"
  <2>1. c \in 0..n /\ (c # 0 => p[c].kind = "compaction")
    BY LastCompactionIs
  <2> QED BY <2>1
<1> PICK kept : kept = {i \in DOMAIN p : c # 0 /\ p[i].id = p[c].firstKept}
  OBVIOUS
<1>2. start = IF c = 0 THEN 1 ELSE IF kept = {} THEN c + 1 ELSE Least(kept)
  BY Zenon DEF BoundaryStart
<1>dom. DOMAIN p = 1..n
  BY LenProperties
<1>3. CASE c = 0
  BY <1>1, <1>2, <1>3
<1>4. CASE c # 0 /\ kept = {}
  <2>1. start = c + 1
    BY <1>2, <1>4
  <2>2. \A i \in 1..n : p[i].id # p[c].firstKept
    BY <1>4, <1>dom
  <2>3. \A i \in 1..n : ~Keeps(p, c, i)
    BY <2>2 DEF Keeps
  <2>4. start \in 1..n /\ n \in 1..n
    BY <1>1, <1>4, <2>1
  <2>5. ~Keeps(p, c, n) /\ \A i \in 1..(start - 1) : ~Keeps(p, c, i)
    BY <2>3, <2>4
  <2> QED BY <1>4, <2>4, <2>5
<1>5. CASE c # 0 /\ kept # {}
  <2>1. start = Least(kept)
    BY <1>2, <1>5
  <2>2. start \in kept /\ \A y \in kept : start <= y
    <3>1. kept \in SUBSET Nat
      BY <1>dom
    <3> QED BY <1>5, <2>1, <3>1, LeastIs
  <2>3. start \in 1..n /\ p[start].id = p[c].firstKept
    BY <1>dom, <2>2
  <2>4. Keeps(p, c, n)
    BY <2>3 DEF Keeps
  <2>5. \A i \in 1..(start - 1) : ~Keeps(p, c, i)
    BY <1>dom, <1>5, <2>2, <2>3 DEF Keeps
  <2> QED BY <1>5, <2>3, <2>4, <2>5
<1> QED BY <1>3, <1>4, <1>5
LEMMA CutsIs ==
  ASSUME NEW p \in Seq(Entries), NEW n \in Nat, n = Len(p), NEW start \in 1..n
  PROVE  ValidCutPoints(p, start) = {i \in start..n : p[i].kind \in CutKinds}
BY DEF ValidCutPoints, IndexesOf, CutKinds

(* The cut point searched for is one.                                        *)
LEMMA RawCutIs ==
  ASSUME NEW p \in Seq(Entries), NEW n \in Nat, n = Len(p), NEW start \in 1..n,
         ValidCutPoints(p, start) # {}, NEW r, r = RawCut(p, start)
  PROVE  /\ r \in start..n /\ p[r].kind \in CutKinds
         /\ \/ r = Least(ValidCutPoints(p, start))
            \/ /\ BudgetReached(p, start) # {}
               /\ r >= Greatest(BudgetReached(p, start))
<1> PICK cuts : cuts = ValidCutPoints(p, start)
  OBVIOUS
<1> PICK reached : reached = BudgetReached(p, start)
  OBVIOUS
<1> PICK g : g = Greatest(reached)
  OBVIOUS
<1> PICK after : after = IF reached = {} THEN {} ELSE {c \in cuts : c >= g}
  OBVIOUS
<1>1. cuts = {i \in start..n : p[i].kind \in CutKinds} /\ cuts \in SUBSET Nat
  <2>1. cuts = {i \in start..n : p[i].kind \in CutKinds}
    BY CutsIs
  <2> QED BY <2>1
<1>2. r = IF after = {} THEN Least(cuts) ELSE Least(after)
  BY Zenon DEF RawCut
<1>3. Least(cuts) \in cuts
  BY <1>1, LeastIs
<1>4. CASE after = {}
  BY <1>1, <1>2, <1>3, <1>4
<1>5. CASE after # {}
  <2>1. reached # {} /\ after = {c \in cuts : c >= g}
    BY <1>5
  <2>2. after \in SUBSET Nat
    BY <1>1, <2>1
  <2>3. Least(after) \in after
    BY <1>5, <2>2, LeastIs
  <2>4. r \in cuts /\ r >= g
    BY <1>2, <1>5, <2>1, <2>3
  <2> QED BY <1>1, <2>1, <2>4
<1> QED BY <1>4, <1>5

(* What is kept begins with something that is no tool result.                *)
CleanFrom(p, start, cut) ==
  \/ cut = start /\ \A i \in start..Len(p) : p[i].kind \notin CutKinds
  \/ \E r \in cut..Len(p) :
       /\ p[r].kind \in CutKinds
       /\ \A m \in cut..(r - 1) : p[m].kind \notin MessageKinds \cup {"compaction"}

LEMMA PrecedingIs ==
  ASSUME NEW p, NEW start \in Nat, NEW r \in Nat, start <= r,
         NEW cut, cut = WithPrecedingSettings(p, start, r)
  PROVE  /\ cut \in start..r
         /\ \A m \in cut..(r - 1) : p[m].kind \notin MessageKinds \cup {"compaction"}
<1> PICK all : all = {i \in start..r :
           \A j \in i..(r - 1) : p[j].kind \notin MessageKinds \cup {"compaction"}}
  OBVIOUS
<1>1. all \in SUBSET Nat /\ r \in all
  OBVIOUS
<1>2. cut = Least(all)
  BY Zenon DEF WithPrecedingSettings
<1>3. cut \in all
  BY <1>1, <1>2, LeastIs
<1> QED BY <1>3

LEMMA FoundIs ==
  ASSUME NEW p \in Seq(Entries), NEW n \in Nat, n = Len(p), NEW start \in 1..n,
         NEW found, found = FindCutPoint(p, start)
  PROVE  /\ found.cut \in start..n
         /\ found.turn = 0 \/ found.turn \in start..found.cut
         /\ CleanFrom(p, start, found.cut)
<1>1. CASE ValidCutPoints(p, start) = {}
  <2>1. found = [cut |-> start, turn |-> 0]
    BY <1>1, Zenon DEF FindCutPoint
  <2>2. \A i \in start..n : p[i].kind \notin CutKinds
    BY <1>1, CutsIs
  <2> QED BY <2>1, <2>2 DEF CleanFrom
<1>2. CASE ValidCutPoints(p, start) # {}
  <2> PICK r : r = RawCut(p, start)
    OBVIOUS
  <2> PICK cut : cut = WithPrecedingSettings(p, start, r)
    OBVIOUS
  <2> PICK turns : turns = TurnStarts(p, start, cut)
    OBVIOUS
  <2>1. found = [cut |-> cut, turn |-> IF p[cut].kind = "user" \/ turns = {} THEN 0
                                       ELSE Greatest(turns)]
    BY <1>2, Zenon DEF FindCutPoint
  <2>2. r \in start..n /\ p[r].kind \in CutKinds
    BY <1>2, RawCutIs
  <2>3. /\ cut \in start..r
        /\ \A m \in cut..(r - 1) : p[m].kind \notin MessageKinds \cup {"compaction"}
    <3>1. r \in Nat /\ start \in Nat /\ start <= r
      BY <2>2
    <3> QED BY <3>1, PrecedingIs, Zenon
  <2>4. turns # {} => Greatest(turns) \in start..cut
    <3>1. turns \in SUBSET (start..cut)
      BY DEF TurnStarts, IndexesOf
    <3>2. turns \in SUBSET Nat /\ cut \in Nat /\ Bounded(turns, cut)
      BY <2>3, <3>1 DEF Bounded
    <3>3. turns # {} => Greatest(turns) \in turns
      BY <3>2, GreatestIs, Zenon
    <3> QED BY <3>1, <3>3
  <2>5. CleanFrom(p, start, cut)
    BY <2>2, <2>3 DEF CleanFrom
  <2> QED BY <2>1, <2>2, <2>3, <2>4, <2>5
<1> QED BY <1>1, <1>2

(* What a compaction that is prepared on a path will say.                    *)
MadeFrom(p, n, c, prep, start, cut) ==
  /\ prep \in Preparations
  /\ prep.from = p[n].id /\ prep.firstKept = p[cut].id
  /\ prep.previous = IF c = 0 THEN {} ELSE p[c].covers
  /\ \A i \in start..(cut - 1) : p[i].kind \in ContextKinds
       => p[i].id \in prep.history \cup prep.turnPrefix
  /\ c = 0 => start = 1
  /\ c # 0 /\ Keeps(p, c, n) => p[start].id = p[c].firstKept
  /\ c # 0 => \A i \in 1..(start - 1) : ~Keeps(p, c, i)
  /\ CleanFrom(p, start, cut)

WellMade(p, n, c, prep) ==
  \E start \in 1..n : \E cut \in start..n : MadeFrom(p, n, c, prep, start, cut)

LEMMA PrepareIs ==
  ASSUME NEW p \in Seq(Entries), NEW n \in Nat, n = Len(p), n # 0,
         p[n].kind # "compaction", p[n].id # 0, NEW c, c = LastCompaction(p),
         NEW prep, prep = Prepare(p)
  PROVE  WellMade(p, n, c, prep)
<1> PICK start : start = BoundaryStart(p)
  OBVIOUS
<1> PICK found : found = FindCutPoint(p, start)
  OBVIOUS
<1> PICK cut : cut = found.cut
  OBVIOUS
<1> PICK turn : turn = found.turn
  OBVIOUS
<1>1. /\ start \in 1..n
      /\ c = 0 => start = 1
      /\ c # 0 /\ Keeps(p, c, n) => p[start].id = p[c].firstKept
      /\ c # 0 => \A i \in 1..(start - 1) : ~Keeps(p, c, i)
  BY BoundaryIs
<1>2. /\ cut \in start..n
      /\ turn = 0 \/ turn \in start..cut
      /\ CleanFrom(p, start, cut)
  BY <1>1, FoundIs
<1> PICK end : end = IF turn # 0 THEN turn ELSE cut
  OBVIOUS
<1>3. prep = [from |-> p[n].id, firstKept |-> p[cut].id,
              history |-> IdsIn(p, ContextKinds, start, end - 1),
              turnPrefix |-> IF turn = 0 THEN {} ELSE IdsIn(p, ContextKinds, turn, cut - 1),
              previous |-> IF c = 0 THEN {} ELSE p[c].covers]
  BY Zenon DEF Prepare
<1>4. \A i \in start..(cut - 1) : p[i].kind \in ContextKinds
        => p[i].id \in prep.history \cup prep.turnPrefix
  <2> TAKE i \in start..(cut - 1)
  <2> HAVE p[i].kind \in ContextKinds
  <2>1. CASE i <= end - 1
    <3>1. p[i].id \in IdsIn(p, ContextKinds, start, end - 1)
      <4>1. i \in start..(end - 1)
        BY <1>1, <1>2, <2>1
      <4> QED BY <4>1 DEF IdsIn, IndexesOf
    <3> QED BY <1>3, <3>1
  <2>2. CASE ~(i <= end - 1)
    <3>1. turn # 0 /\ i \in turn..(cut - 1)
      BY <1>1, <1>2, <2>2
    <3>2. p[i].id \in IdsIn(p, ContextKinds, turn, cut - 1)
      BY <3>1 DEF IdsIn, IndexesOf
    <3> QED BY <1>3, <3>1, <3>2
  <2> QED BY <2>1, <2>2
<1>5. prep \in Preparations
  <2>1. DOMAIN p = 1..n /\ \A i \in 1..n : p[i] \in Entries
    BY ElementOfSeq, LenProperties
  <2>2. \A i \in 1..n : p[i].id \in Nat /\ p[i].covers \in SUBSET Nat
    BY <2>1 DEF Entries
  <2>3. \A kinds : \A a, b \in Nat : 1 <= a /\ b <= n =>
          IdsIn(p, kinds, a, b - 1) \in SUBSET Nat
    BY <2>2 DEF IdsIn, IndexesOf
  <2>4. /\ IdsIn(p, ContextKinds, start, end - 1) \in SUBSET Nat
        /\ turn # 0 => IdsIn(p, ContextKinds, turn, cut - 1) \in SUBSET Nat
    <3>1. end \in Nat /\ end <= n /\ start \in Nat /\ 1 <= start /\ cut \in Nat /\ cut <= n
      BY <1>1, <1>2
    <3>2. turn # 0 => turn \in Nat /\ 1 <= turn
      BY <1>1, <1>2
    <3>3. \A b \in Nat : b <= n => IdsIn(p, ContextKinds, start, b - 1) \in SUBSET Nat
      BY <2>3, <3>1, Zenon
    <3>4. turn # 0 => IdsIn(p, ContextKinds, turn, cut - 1) \in SUBSET Nat
      BY <2>3, <3>1, <3>2, Zenon
    <3> QED BY <3>1, <3>3, <3>4, Zenon
  <2>5. c # 0 => p[c].covers \in SUBSET Nat
    <3>1. c # 0 => c \in 1..n
      <4>1. c \in 0..n
        BY LastCompactionIs, Zenon
      <4> QED BY <4>1
    <3> QED BY <2>2, <3>1, Zenon
  <2>6. p[n].id \in Nat \ {0} /\ p[cut].id \in Nat
    BY <1>1, <1>2, <2>2
  <2> QED BY <1>3, <2>4, <2>5, <2>6 DEF Preparations
<1>6. prep.from = p[n].id /\ prep.firstKept = p[cut].id
      /\ prep.previous = IF c = 0 THEN {} ELSE p[c].covers
  BY <1>3
<1>7. MadeFrom(p, n, c, prep, start, cut)
  BY <1>1, <1>2, <1>4, <1>5, <1>6, Zenon DEF MadeFrom
<1> QED BY <1>1, <1>2, <1>7, Zenon DEF WellMade

-----------------------------------------------------------------------------
(* Paths that begin alike                                                      *)

Agree(p, q, n) == \A i \in 1..n : p[i] = q[i]

LEMMA SameCompaction ==
  ASSUME NEW p, NEW q, NEW c \in Nat, c # 0, Agree(p, q, c), CompactionSound(q, c)
  PROVE  CompactionSound(p, c)
<1>1. \A i \in 1..c : p[i] = q[i]
  BY DEF Agree
<1>2. p[c] = q[c]
  BY <1>1
<1>3. \A i \in 1..(c - 1) : Keeps(p, c, i) <=> Keeps(q, c, i)
  BY <1>1, <1>2 DEF Keeps
<1>4. OnThePath(p, c)
  <2>1. OnThePath(q, c)
    BY DEF CompactionSound
  <2> QED BY <1>1, <1>2, <2>1 DEF OnThePath
<1>5. ASSUME RootedTo(p, c) PROVE Accounted(p, c) /\ Recalled(p, c) /\ Clean(p, c)
  <2>1. RootedTo(q, c)
    BY <1>1, <1>5 DEF RootedTo
  <2>2. Accounted(q, c) /\ Recalled(q, c) /\ Clean(q, c)
    BY <2>1 DEF CompactionSound
  <2>3. Accounted(p, c)
    <3> SUFFICES ASSUME NEW i \in 1..(c - 1), p[i].kind \in ContextKinds, ~Keeps(p, c, i)
                 PROVE  \E d \in 1..c : p[d].kind = "compaction" /\ p[i].id \in p[d].summarized
      BY DEF Accounted
    <3>1. q[i].kind \in ContextKinds /\ ~Keeps(q, c, i) /\ p[i] = q[i]
      BY <1>1, <1>3
    <3>2. PICK d \in 1..c : q[d].kind = "compaction" /\ q[i].id \in q[d].summarized
      BY <2>2, <3>1 DEF Accounted
    <3> QED BY <1>1, <3>1, <3>2
  <2>4. Recalled(p, c)
    <3> SUFFICES ASSUME Remembers(p, c), NEW i \in 1..(c - 1),
                        p[i].kind \in ContextKinds, ~Keeps(p, c, i)
                 PROVE  p[i].id \in p[c].covers
      BY DEF Recalled
    <3>1. Remembers(q, c)
      BY <1>1 DEF Remembers
    <3>2. q[i].kind \in ContextKinds /\ ~Keeps(q, c, i) /\ p[i] = q[i]
      BY <1>1, <1>3
    <3>3. q[i].id \in q[c].covers
      BY <2>2, <3>1, <3>2, Zenon DEF Recalled
    <3> QED BY <1>2, <3>2, <3>3
  <2>5. Clean(p, c)
    <3> SUFFICES ASSUME NEW k \in 1..(c - 1), p[k].id = p[c].firstKept
                 PROVE  CleanAt(p, c, k)
      BY DEF Clean
    <3>1. q[k].id = q[c].firstKept
      BY <1>1, <1>2
    <3>2. CleanAt(q, c, k)
      BY <2>2, <3>1 DEF Clean
    <3> QED BY <1>1, <3>2 DEF CleanAt
  <2> QED BY <2>3, <2>4, <2>5
<1> QED BY <1>4, <1>5 DEF CompactionSound

LEMMA SameResult ==
  ASSUME NEW p, NEW q, NEW i \in Nat, i # 0, Agree(p, q, i), ResultSound(q, i)
  PROVE  ResultSound(p, i)
<1>1. \A k \in 1..i : p[k] = q[k]
  BY DEF Agree
<1>2. PICK j \in 1..(i - 1) : Follows(q, j, i)
  BY DEF ResultSound
<1>3. Follows(p, j, i)
  BY <1>1, <1>2 DEF Follows
<1> QED BY <1>3 DEF ResultSound

(* A path that is shortened stays sound ...                                  *)
LEMMA PrefixSound ==
  ASSUME NEW p \in Seq(Entries), Sound(p), NEW n \in 0..Len(p)
  PROVE  /\ SubSeq(p, 1, n) \in Seq(Entries) /\ Len(SubSeq(p, 1, n)) = n
         /\ Agree(SubSeq(p, 1, n), p, n)
         /\ Sound(SubSeq(p, 1, n))
<1> PICK N \in Nat : N = Len(p)
  BY LenProperties
<1> PICK q : q = SubSeq(p, 1, n)
  OBVIOUS
<1>1. q \in Seq(Entries) /\ Len(q) = n /\ \A i \in 1..n : q[i] = p[i]
  <2>1. \A i \in 1..n : p[i] \in Entries
    BY ElementOfSeq, LenProperties
  <2> QED BY <2>1, SubSeqProperties
<1>2. DOMAIN q = 1..n /\ DOMAIN p = 1..N
  BY <1>1, LenProperties
<1>3. Rising(q)
  BY <1>1, <1>2 DEF Sound, Rising
<1>4. \A i \in 1..n : Agree(q, p, i)
  BY <1>1 DEF Agree
<1>5. CompactionsSound(q)
  <2> SUFFICES ASSUME NEW c \in 1..n, q[c].kind = "compaction" PROVE CompactionSound(q, c)
    BY <1>2 DEF CompactionsSound
  <2>1. CompactionSound(p, c)
    BY <1>1, <1>2 DEF Sound, CompactionsSound
  <2> QED BY <1>4, <2>1, SameCompaction
<1>6. ResultsSound(q)
  <2> SUFFICES ASSUME NEW i \in 1..n, q[i].kind = "toolResult" PROVE ResultSound(q, i)
    BY <1>2 DEF ResultsSound
  <2>1. ResultSound(p, i)
    BY <1>1, <1>2 DEF Sound, ResultsSound
  <2> QED BY <1>4, <2>1, SameResult
<1> QED BY <1>1, <1>3, <1>5, <1>6 DEF Sound, Agree

(* ... and so does one that gets an entry that is sound in its place.        *)
LEMMA AppendSound ==
  ASSUME NEW p \in Seq(Entries), Sound(p), NEW e \in Entries, NEW q, q = Append(p, e),
         NEW n \in Nat, n = Len(p),
         \A i \in 1..n : p[i].id < e.id,
         e.kind = "compaction" => CompactionSound(q, n + 1),
         e.kind = "toolResult" => ResultSound(q, n + 1)
  PROVE  Sound(q)
<1>1. /\ q \in Seq(Entries) /\ Len(q) = n + 1 /\ q[n + 1] = e
      /\ \A i \in 1..n : q[i] = p[i]
  BY AppendProperties
<1>2. DOMAIN q = 1..(n + 1) /\ DOMAIN p = 1..n
  BY <1>1, LenProperties
<1>3. Rising(q)
  <2> SUFFICES ASSUME NEW i \in 1..(n + 1), NEW j \in 1..(n + 1), i < j
               PROVE  q[i].id < q[j].id
    BY <1>2 DEF Rising
  <2>1. CASE j = n + 1
    BY <1>1, <2>1
  <2>2. CASE j # n + 1
    <3>1. i \in 1..n /\ j \in 1..n
      BY <2>2
    <3> QED BY <1>1, <1>2, <3>1 DEF Sound, Rising
  <2> QED BY <2>1, <2>2
<1>4. \A i \in 1..n : Agree(q, p, i)
  BY <1>1 DEF Agree
<1>5. CompactionsSound(q)
  <2> SUFFICES ASSUME NEW c \in 1..(n + 1), q[c].kind = "compaction" PROVE CompactionSound(q, c)
    BY <1>2 DEF CompactionsSound
  <2>1. CASE c = n + 1
    BY <1>1, <2>1
  <2>2. CASE c # n + 1
    <3>1. c \in 1..n
      BY <2>2
    <3>2. CompactionSound(p, c)
      BY <1>1, <1>2, <3>1 DEF Sound, CompactionsSound
    <3> QED BY <1>4, <3>1, <3>2, SameCompaction
  <2> QED BY <2>1, <2>2
<1>6. ResultsSound(q)
  <2> SUFFICES ASSUME NEW i \in 1..(n + 1), q[i].kind = "toolResult" PROVE ResultSound(q, i)
    BY <1>2 DEF ResultsSound
  <2>1. CASE i = n + 1
    BY <1>1, <2>1
  <2>2. CASE i # n + 1
    <3>1. i \in 1..n
      BY <2>2
    <3>2. ResultSound(p, i)
      BY <1>1, <1>2, <3>1 DEF Sound, ResultsSound
    <3> QED BY <1>4, <3>1, <3>2, SameResult
  <2> QED BY <2>1, <2>2
<1> QED BY <1>3, <1>5, <1>6 DEF Sound

-----------------------------------------------------------------------------
(* The entry of a compaction                                                   *)

LastHolds(p, n, c) ==
  /\ c \in 1..n /\ p[c].kind = "compaction"
  /\ \E k \in 1..(c - 1) : p[k].id = p[c].firstKept
  /\ Accounted(p, c) /\ Recalled(p, c) /\ Clean(p, c)

(* What a path has in its last compaction, when all were prepared on it.      *)
LEMMA LastSound ==
  ASSUME NEW p \in Seq(Entries), Sound(p), NEW n \in Nat, n = Len(p),
         NEW c, c = LastCompaction(p), c # 0, RootedTo(p, n)
  PROVE  LastHolds(p, n, c)
<1>1. c \in 1..n /\ p[c].kind = "compaction"
  <2>1. c \in 0..n /\ (c # 0 => p[c].kind = "compaction")
    BY LastCompactionIs
  <2> QED BY <2>1
<1>2. CompactionSound(p, c)
  <2>1. c \in DOMAIN p
    BY <1>1, LenProperties
  <2> QED BY <1>1, <2>1 DEF Sound, CompactionsSound
<1>3. RootedTo(p, c) /\ ~p[c].stale
  BY <1>1 DEF RootedTo
<1>4. OnThePath(p, c) /\ Accounted(p, c) /\ Recalled(p, c) /\ Clean(p, c)
  BY <1>2, <1>3, Zenon DEF CompactionSound
<1>5. \E k \in 1..(c - 1) : p[k].id = p[c].firstKept
  BY <1>3, <1>4, Zenon DEF OnThePath
<1> QED BY <1>1, <1>4, <1>5, Zenon DEF LastHolds

Written(e, prep) ==
  /\ e.kind = "compaction"
  /\ e.firstKept = prep.firstKept
  /\ e.summarized = prep.history \cup prep.turnPrefix
  /\ e.covers = Summary(prep)
  /\ e.forgetful = (prep.previous # {} /\ prep.turnPrefix # {} /\ prep.history = {})

(* A compaction prepared on a beginning of the path is sound at its end.     *)
LEMMA NewCompaction ==
  ASSUME NEW p \in Seq(Entries), Sound(p), NEW N \in Nat, N = Len(p),
         NEW n \in 1..N, p[n].kind # "compaction", p[n].id # 0,
         NEW prep, prep = Prepare(SubSeq(p, 1, n)),
         NEW q, Agree(q, p, N), Written(q[N + 1], prep)
  PROVE  CompactionSound(q, N + 1)
<1> PICK s : s = SubSeq(p, 1, n)
  OBVIOUS
<1> PICK c : c = LastCompaction(s)
  OBVIOUS
<1>1. s \in Seq(Entries) /\ Len(s) = n /\ Agree(s, p, n) /\ Sound(s)
  BY PrefixSound
<1>2. /\ \A i \in 1..n : s[i] = p[i] /\ q[i] = s[i]
      /\ \A i \in 1..N : q[i] = p[i]
  BY <1>1 DEF Agree
<1>3. PICK start \in 1..n : \E x \in start..n : MadeFrom(s, n, c, prep, start, x)
  <2>1. s[n].kind # "compaction" /\ s[n].id # 0 /\ n \in Nat /\ n # 0
    BY <1>2
  <2>2. prep = Prepare(s)
    OBVIOUS
  <2>3. WellMade(s, n, c, prep)
    BY <1>1, <2>1, <2>2, PrepareIs, Zenon
  <2> QED BY <2>3, Zenon DEF WellMade
<1>4. PICK cut \in start..n : MadeFrom(s, n, c, prep, start, cut)
  BY <1>3
<1>5. /\ prep \in Preparations
      /\ prep.firstKept = s[cut].id
      /\ prep.previous = IF c = 0 THEN {} ELSE s[c].covers
      /\ \A i \in start..(cut - 1) : s[i].kind \in ContextKinds
           => s[i].id \in prep.history \cup prep.turnPrefix
      /\ c = 0 => start = 1
      /\ c # 0 /\ Keeps(s, c, n) => s[start].id = s[c].firstKept
      /\ c # 0 => \A i \in 1..(start - 1) : ~Keeps(s, c, i)
      /\ CleanFrom(s, start, cut)
  BY <1>4, Zenon DEF MadeFrom
<1>6. q[N + 1].firstKept = q[cut].id /\ cut \in 1..N
  BY <1>2, <1>5 DEF Written
<1>7. OnThePath(q, N + 1)
  BY <1>6 DEF OnThePath
<1>8. ASSUME NEW i \in 1..N, ~Keeps(q, N + 1, i) PROVE i \in 1..(cut - 1)
  BY <1>6, <1>8 DEF Keeps
<1>9. ASSUME RootedTo(q, N + 1)
      PROVE  Accounted(q, N + 1) /\ Recalled(q, N + 1) /\ Clean(q, N + 1)
  <2>1. RootedTo(s, n)
    BY <1>2, <1>9 DEF RootedTo
  <2>2. ASSUME c # 0
        PROVE  /\ c \in 1..n /\ start \in 1..(c - 1) /\ s[start].id = s[c].firstKept
               /\ Accounted(s, c) /\ Recalled(s, c) /\ Clean(s, c)
    <3>1. /\ c \in 1..n
          /\ \E k \in 1..(c - 1) : s[k].id = s[c].firstKept
          /\ Accounted(s, c) /\ Recalled(s, c) /\ Clean(s, c)
      <4>1. n \in Nat
        OBVIOUS
      <4>2. LastHolds(s, n, c)
        BY <1>1, <2>1, <2>2, <4>1, LastSound, Zenon
      <4> QED BY <4>2, Zenon DEF LastHolds
    <3>2. PICK k \in 1..(c - 1) : s[k].id = s[c].firstKept
      BY <3>1
    <3>3. Keeps(s, c, n) /\ Keeps(s, c, k)
      BY <3>1, <3>2 DEF Keeps
    <3>4. start <= k
      BY <1>5, <2>2, <3>1, <3>2, <3>3
    <3> QED BY <1>5, <2>2, <3>1, <3>2, <3>3, <3>4
  <2>3. ASSUME NEW i \in 1..(start - 1), q[i].kind \in ContextKinds
        PROVE  /\ c # 0 /\ i \in 1..(c - 1)
               /\ s[i] = q[i] /\ s[i].kind \in ContextKinds /\ ~Keeps(s, c, i)
    <3>1. c # 0
      BY <1>5
    <3>2. start \in 1..(c - 1) /\ c \in 1..n
      BY <2>2, <3>1
    <3> QED BY <1>2, <1>5, <2>3, <3>1, <3>2
  <2>4. Accounted(q, N + 1)
    <3> SUFFICES ASSUME NEW i \in 1..N, q[i].kind \in ContextKinds, ~Keeps(q, N + 1, i)
                 PROVE  \E d \in 1..(N + 1) : q[d].kind = "compaction" /\ q[i].id \in q[d].summarized
      BY DEF Accounted
    <3>1. i \in 1..(cut - 1)
      BY <1>8
    <3>2. CASE i \in start..(cut - 1)
      <4>1. s[i] = q[i]
        BY <1>2, <3>1
      <4>2. q[i].id \in prep.history \cup prep.turnPrefix
        BY <1>5, <3>2, <4>1
      <4> QED BY <4>2 DEF Written
    <3>3. CASE i \in 1..(start - 1)
      <4>1. c # 0 /\ i \in 1..(c - 1)
            /\ s[i] = q[i] /\ s[i].kind \in ContextKinds /\ ~Keeps(s, c, i)
        BY <2>3, <3>3
      <4>2. c \in 1..n /\ Accounted(s, c)
        BY <2>2, <4>1
      <4>3. PICK d \in 1..c : s[d].kind = "compaction" /\ s[i].id \in s[d].summarized
        BY <4>1, <4>2 DEF Accounted
      <4>4. d \in 1..(N + 1) /\ q[d] = s[d]
        <5>1. d \in 1..n
          BY <4>2
        <5> QED BY <1>2, <5>1
      <4>5. q[d].kind = "compaction" /\ q[i].id \in q[d].summarized
        BY <4>1, <4>3, <4>4, Zenon
      <4> QED BY <4>4, <4>5, Zenon
    <3> QED BY <3>1, <3>2, <3>3
  <2>5. Recalled(q, N + 1)
    <3> SUFFICES ASSUME Remembers(q, N + 1), NEW i \in 1..N,
                        q[i].kind \in ContextKinds, ~Keeps(q, N + 1, i)
                 PROVE  q[i].id \in q[N + 1].covers
      BY DEF Recalled
    <3>1. i \in 1..(cut - 1)
      BY <1>8
    <3>2. CASE i \in start..(cut - 1)
      <4>1. s[i] = q[i]
        BY <1>2, <3>1
      <4>2. q[i].id \in prep.history \cup prep.turnPrefix
        BY <1>5, <3>2, <4>1
      <4> QED BY <4>2 DEF Written, Summary
    <3>3. CASE i \in 1..(start - 1)
      <4>1. c # 0 /\ i \in 1..(c - 1)
            /\ s[i] = q[i] /\ s[i].kind \in ContextKinds /\ ~Keeps(s, c, i)
        BY <2>3, <3>3
      <4>2. c \in 1..n /\ Recalled(s, c)
        BY <2>2, <4>1
      <4>3. Remembers(s, c)
        BY <1>2, <4>2 DEF Remembers
      <4>4. s[i].id \in s[c].covers
        BY <4>1, <4>2, <4>3 DEF Recalled
      <4>5. q[i].id \in prep.previous
        BY <1>5, <4>1, <4>4
      <4>6. ~q[N + 1].forgetful
        BY DEF Remembers, Written
      <4>7. ~(prep.turnPrefix # {} /\ prep.history = {})
        BY <4>5, <4>6 DEF Written
      <4> QED BY <4>5, <4>7 DEF Written, Summary
    <3> QED BY <3>1, <3>2, <3>3
  <2>6. Clean(q, N + 1)
    <3> SUFFICES ASSUME NEW k \in 1..N, q[k].id = q[N + 1].firstKept
                 PROVE  CleanAt(q, N + 1, k)
      BY DEF Clean
    <3>1. k = cut
      <4>1. p[k].id = p[cut].id
        BY <1>2, <1>6
      <4>2. DOMAIN p = 1..N /\ \A i \in 1..N : p[i].id \in Nat
        <5>1. \A i \in 1..N : p[i] \in Entries
          BY ElementOfSeq, LenProperties
        <5> QED BY <5>1, LenProperties DEF Entries
      <4>3. ~(k < cut) /\ ~(cut < k)
        <5>1. \A i, j \in 1..N : i < j => p[i].id < p[j].id
          BY <4>2 DEF Sound, Rising
        <5>2. p[k].id \in Nat /\ p[cut].id \in Nat /\ ~(p[k].id < p[cut].id)
              /\ ~(p[cut].id < p[k].id)
          BY <1>6, <4>1, <4>2
        <5> QED BY <1>6, <5>1, <5>2, Zenon
      <4> QED BY <1>6, <4>3
    <3>2. CASE \E r \in cut..n :
                 /\ s[r].kind \in CutKinds
                 /\ \A m \in cut..(r - 1) : s[m].kind \notin MessageKinds \cup {"compaction"}
      <4>1. PICK r \in cut..n :
                 /\ s[r].kind \in CutKinds
                 /\ \A m \in cut..(r - 1) : s[m].kind \notin MessageKinds \cup {"compaction"}
        BY <3>2
      <4>2. \A m \in cut..r : q[m] = s[m]
        BY <1>2, <1>6
      <4>3. /\ r \in k..((N + 1) - 1) /\ q[r].kind \in CutKinds
            /\ \A m \in k..(r - 1) : m \in cut..r
        BY <1>2, <1>6, <3>1, <4>1, <4>2
      <4>4. \A m \in k..(r - 1) : q[m].kind \notin MessageKinds \cup {"compaction"}
        BY ONLY <3>1, <4>1, <4>2, <4>3
      <4> QED BY ONLY <4>3, <4>4 DEF CleanAt
    <3>3. CASE cut = start /\ \A i \in start..n : s[i].kind \notin CutKinds
      <4>1. CASE c = 0
        BY <1>5, <3>1, <3>3, <4>1 DEF CleanAt
      <4>2. CASE c # 0
        <5>1. c \in 1..n /\ start \in 1..(c - 1) /\ s[start].id = s[c].firstKept /\ Clean(s, c)
          BY <2>2, <4>2
        <5>2. CleanAt(s, c, start)
          BY <5>1 DEF Clean
        <5>3. start = 1
          BY <3>3, <5>1, <5>2 DEF CleanAt
        <5> QED BY <3>1, <3>3, <5>3 DEF CleanAt
      <4> QED BY <4>1, <4>2
    <3> QED BY <1>1, <1>5, <3>2, <3>3 DEF CleanFrom
  <2> QED BY <2>4, <2>5, <2>6
<1> QED BY <1>7, <1>9 DEF CompactionSound

-----------------------------------------------------------------------------
(* The tokens of what is kept                                                  *)

Cost(p, i) == IF p[i].kind \in MessageKinds THEN p[i].tokens ELSE 0

(* f sums up the tokens from each index on, back to the index a.             *)
SumsUp(p, n, f, a) ==
  \A i \in a..(n + 1) : f[i] = IF i > n THEN 0 ELSE f[i + 1] + Cost(p, i)

LEMMA SumsExist ==
  ASSUME NEW p, NEW n \in Nat
  PROVE  \E f : f = [i \in 1..(n + 1) |-> IF i > n THEN 0 ELSE f[i + 1] + Cost(p, i)]
<1> DEFINE A == {k \in 0..n : \A f : ~SumsUp(p, n, f, (n + 1) - k)}
<1>1. A = {}
  <2> SUFFICES ASSUME A # {} PROVE FALSE
    OBVIOUS
  <2>1. PICK k \in A : \A l \in A : k <= l
    <3>1. A \in SUBSET Nat
      OBVIOUS
    <3> HIDE DEF A
    <3> QED BY <3>1, Smallest, Zenon
  <2>2. k \in 0..n /\ \A f : ~SumsUp(p, n, f, (n + 1) - k)
    OBVIOUS
  <2>3. CASE k = 0
    <3> PICK f : f = [i \in {n + 1} |-> 0]
      OBVIOUS
    <3>1. SumsUp(p, n, f, n + 1)
      BY DEF SumsUp
    <3> QED BY <2>2, <2>3, <3>1
  <2>4. CASE k # 0
    <3>1. k - 1 \in 0..n /\ k - 1 \notin A
      <4>1. k - 1 \in 0..n /\ ~(k <= k - 1)
        BY <2>2, <2>4
      <4> HIDE DEF A
      <4> QED BY <2>1, <4>1, Zenon
    <3> PICK a : a = (n + 1) - k
      OBVIOUS
    <3>2. a \in 1..n /\ (n + 1) - (k - 1) = a + 1
      BY <2>2, <2>4
    <3>3. PICK f : SumsUp(p, n, f, a + 1)
      BY <3>1, <3>2
    <3> PICK g : g = [i \in a..(n + 1) |-> IF i = a THEN f[a + 1] + Cost(p, a) ELSE f[i]]
      OBVIOUS
    <3>4. SumsUp(p, n, g, a)
      <4> SUFFICES ASSUME NEW i \in a..(n + 1)
                   PROVE  g[i] = IF i > n THEN 0 ELSE g[i + 1] + Cost(p, i)
        BY DEF SumsUp
      <4>1. CASE i = a
        <5>1. ~(i > n) /\ a + 1 \in a..(n + 1) /\ a + 1 # a
          BY <3>2, <4>1
        <5>2. g[i] = f[a + 1] + Cost(p, a) /\ g[a + 1] = f[a + 1]
          BY <4>1, <5>1
        <5> QED BY <4>1, <5>1, <5>2
      <4>2. CASE i # a
        <5>1. i \in (a + 1)..(n + 1) /\ g[i] = f[i]
          BY <3>2, <4>2
        <5>2. f[i] = IF i > n THEN 0 ELSE f[i + 1] + Cost(p, i)
          BY <3>3, <5>1 DEF SumsUp
        <5>3. ~(i > n) => g[i + 1] = f[i + 1]
          BY <3>2, <5>1
        <5> QED BY <5>1, <5>2, <5>3
      <4> QED BY <4>1, <4>2
    <3> QED BY <2>2, <3>4
  <2> QED BY <2>3, <2>4
<1>2. PICK f : SumsUp(p, n, f, 1)
  <2>1. n \in 0..n /\ n \notin A
    <3>1. n \in 0..n
      OBVIOUS
    <3> HIDE DEF A
    <3> QED BY <1>1, <3>1
  <2>2. \E f : SumsUp(p, n, f, (n + 1) - n)
    BY <2>1
  <2>3. (n + 1) - n = 1
    OBVIOUS
  <2> QED BY <2>2, <2>3
<1> PICK g : g = [i \in 1..(n + 1) |-> f[i]]
  OBVIOUS
<1>3. \A i \in 1..(n + 1) : f[i] = IF i > n THEN 0 ELSE g[i + 1] + Cost(p, i)
  <2> TAKE i \in 1..(n + 1)
  <2>1. f[i] = IF i > n THEN 0 ELSE f[i + 1] + Cost(p, i)
    BY <1>2 DEF SumsUp
  <2>2. ~(i > n) => g[i + 1] = f[i + 1]
    OBVIOUS
  <2> QED BY <2>1, <2>2
<1>4. g = [i \in 1..(n + 1) |-> IF i > n THEN 0 ELSE g[i + 1] + Cost(p, i)]
  BY <1>3
<1> QED BY <1>4

LEMMA TokensIs ==
  ASSUME NEW p \in Seq(Entries), NEW n \in Nat, n = Len(p), NEW t, t = TokensFrom(p)
  PROVE  /\ \A i \in 1..(n + 1) : t[i] \in Nat
         /\ t[n + 1] = 0
         /\ \A i \in 1..n : t[i] = t[i + 1] + Cost(p, i)
<1>1. t = CHOOSE f : f = [i \in 1..(n + 1) |-> IF i > n THEN 0 ELSE f[i + 1] + Cost(p, i)]
  BY DEF TokensFrom, Cost
<1>2. t = [i \in 1..(n + 1) |-> IF i > n THEN 0 ELSE t[i + 1] + Cost(p, i)]
  BY <1>1, SumsExist
<1>3. t[n + 1] = 0 /\ \A i \in 1..n : t[i] = t[i + 1] + Cost(p, i)
  BY <1>2
<1>4. \A i \in 1..n : Cost(p, i) \in Nat
  <2>1. \A i \in 1..n : p[i] \in Entries
    BY ElementOfSeq, LenProperties
  <2> QED BY <2>1 DEF Entries, Cost
<1> DEFINE A == {i \in 1..(n + 1) : t[i] \notin Nat}
<1>5. A = {}
  <2> SUFFICES ASSUME A # {} PROVE FALSE
    OBVIOUS
  <2>1. PICK k \in A : \A l \in A : l <= k
    <3>1. A \in SUBSET Nat /\ n + 1 \in Nat /\ Bounded(A, n + 1)
      BY DEF Bounded
    <3> HIDE DEF A
    <3> QED BY <3>1, GreatestIs, Zenon
  <2>2. k \in 1..(n + 1) /\ t[k] \notin Nat
    OBVIOUS
  <2>3. k \in 1..n
    <3>1. t[n + 1] = 0
      BY <1>3, Zenon
    <3>2. k # n + 1
      BY ONLY <2>2, <3>1
    <3> QED BY ONLY <2>2, <3>2
  <2>4. k + 1 \in A
    <3>1. t[k] = t[k + 1] + Cost(p, k) /\ Cost(p, k) \in Nat
      BY <1>3, <1>4, <2>3, Zenon
    <3>2. t[k + 1] \notin Nat
      BY ONLY <2>2, <3>1
    <3>3. k + 1 \in 1..(n + 1)
      BY <2>3
    <3> QED BY <3>2, <3>3
  <2>5. k + 1 <= k
    <3> HIDE DEF A
    <3> QED BY <2>1, <2>4, Zenon
  <2> QED BY <2>3, <2>5
<1> QED BY <1>3, <1>5

(* Behind the first message that is kept, the budget is not reached.         *)
LEMMA BudgetHolds ==
  ASSUME NEW p \in Seq(Entries), NEW n \in Nat, n = Len(p), n # 0,
         NEW start \in 1..n, ValidCutPoints(p, start) # {},
         RawCut(p, start) # Least(ValidCutPoints(p, start)),
         NEW cut, cut = FindCutPoint(p, start).cut,
         NEW kept, kept = IndexesOf(p, MessageKinds, cut, n), kept # {}
  PROVE  TokensFrom(p)[Least(kept) + 1] < KeepRecent
<1> PICK t : t = TokensFrom(p)
  OBVIOUS
<1> PICK r : r = RawCut(p, start)
  OBVIOUS
<1> PICK reached : reached = BudgetReached(p, start)
  OBVIOUS
<1> PICK g : g = Greatest(reached)
  OBVIOUS
<1>1. /\ \A i \in 1..(n + 1) : t[i] \in Nat
      /\ t[n + 1] = 0
      /\ \A i \in 1..n : t[i] = t[i + 1] + Cost(p, i)
  BY TokensIs
<1>2. r \in start..n /\ reached # {} /\ r >= g
  BY RawCutIs
<1>3. reached = {i \in start..n : p[i].kind \in MessageKinds /\ t[i] >= KeepRecent}
  BY DEF BudgetReached, IndexesOf
<1>4. g \in reached /\ \A y \in reached : y <= g
  <2>1. reached \in SUBSET Nat /\ Bounded(reached, n)
    BY <1>3 DEF Bounded
  <2> QED BY <1>2, <2>1, GreatestIs, Zenon
<1>5. cut = WithPrecedingSettings(p, start, r)
  BY DEF FindCutPoint
<1>6. /\ cut \in start..r
      /\ \A m \in cut..(r - 1) : p[m].kind \notin MessageKinds \cup {"compaction"}
  <2>1. r \in Nat /\ start \in Nat /\ start <= r
    BY <1>2
  <2> QED BY <1>5, <2>1, PrecedingIs, Zenon
<1> PICK l : l = Least(kept)
  OBVIOUS
<1>7. l \in r..n
  <2>1. kept = {i \in cut..n : p[i].kind \in MessageKinds}
    BY DEF IndexesOf
  <2>2. kept \in SUBSET Nat
    BY <1>6, <2>1
  <2>3. l \in kept
    BY <2>2, LeastIs, Zenon
  <2> QED BY <1>2, <1>6, <2>1, <2>3
<1>8. KeepRecent \in Nat \ {0}
  BY CompactionAssumption
<1> DEFINE A == {i \in (l + 1)..(n + 1) : t[i] >= KeepRecent}
<1>9. A = {}
  <2> SUFFICES ASSUME A # {} PROVE FALSE
    OBVIOUS
  <2>1. PICK k \in A : \A j \in A : j <= k
    <3>1. A \in SUBSET Nat /\ n + 1 \in Nat /\ Bounded(A, n + 1)
      BY <1>2, <1>7 DEF Bounded
    <3> HIDE DEF A
    <3> QED BY <3>1, GreatestIs, Zenon
  <2>2. k \in (l + 1)..(n + 1) /\ t[k] >= KeepRecent
    OBVIOUS
  <2>3. k \in start..n /\ k \in 1..n /\ k > g
    <3>1. k # n + 1
      <4>1. t[n + 1] = 0 /\ KeepRecent \in Nat \ {0} /\ t[k] >= KeepRecent
        BY <1>1, <1>8, <2>2, Zenon
      <4> QED BY ONLY <4>1
    <3>2. g \in Nat
      BY <1>3, <1>4
    <3> QED BY <1>2, <1>7, <2>2, <3>1, <3>2
  <2>4. p[k].kind \notin MessageKinds
    <3> SUFFICES ASSUME p[k].kind \in MessageKinds PROVE FALSE
      OBVIOUS
    <3>1. k \in reached
      BY <1>3, <2>2, <2>3
    <3> QED BY <1>3, <1>4, <2>3, <3>1
  <2>5. t[k] = t[k + 1]
    <3>1. t[k] = t[k + 1] + Cost(p, k) /\ k + 1 \in 1..(n + 1)
      <4>1. t[k] = t[k + 1] + Cost(p, k)
        BY <1>1, <2>3, Zenon
      <4>2. k + 1 \in 1..(n + 1)
        BY ONLY <2>3, n \in Nat
      <4> QED BY <4>1, <4>2, Zenon
    <3>2. Cost(p, k) = 0
      BY <2>4, Zenon DEF Cost
    <3>3. t[k + 1] \in Nat
      BY <1>1, <3>1, Zenon
    <3> QED BY ONLY <3>1, <3>2, <3>3
  <2>6. k + 1 \in A
    <3>1. t[k + 1] >= KeepRecent
      BY <2>2, <2>5, Zenon
    <3>2. k + 1 \in (l + 1)..(n + 1)
      BY <1>2, <1>7, <2>2, <2>3
    <3> QED BY <3>1, <3>2
  <2>7. k + 1 <= k
    <3> HIDE DEF A
    <3> QED BY <2>1, <2>6, Zenon
  <2> QED BY <2>3, <2>7
<1>10. l + 1 \in 1..(n + 1) /\ l + 1 \in (l + 1)..(n + 1) /\ l + 1 \notin A
  BY <1>2, <1>7, <1>9
<1>11. t[l + 1] \in Nat /\ ~(t[l + 1] >= KeepRecent)
  BY <1>1, <1>10
<1> QED BY <1>8, <1>11

-----------------------------------------------------------------------------
(* Steps                                                                       *)

LEMMA SameBeginning ==
  ASSUME NEW p \in Seq(Entries), NEW q \in Seq(Entries), NEW n \in Nat,
         n <= Len(p), n <= Len(q), Agree(p, q, n)
  PROVE  SubSeq(p, 1, n) = SubSeq(q, 1, n)
<1> PICK a : a = SubSeq(p, 1, n)
  OBVIOUS
<1> PICK b : b = SubSeq(q, 1, n)
  OBVIOUS
<1>1. Len(p) \in Nat /\ Len(q) \in Nat
  BY LenProperties
<1>2. \A i \in 1..n : p[i] \in Entries /\ q[i] \in Entries
  BY <1>1, ElementOfSeq
<1>3. a \in Seq(Entries) /\ Len(a) = n /\ \A i \in 1..n : a[i] = p[i]
  BY <1>1, <1>2, SubSeqProperties
<1>4. b \in Seq(Entries) /\ Len(b) = n /\ \A i \in 1..n : b[i] = q[i]
  BY <1>1, <1>2, SubSeqProperties
<1>5. \A i \in 1..n : a[i] = b[i]
  BY <1>3, <1>4 DEF Agree
<1> QED BY <1>3, <1>4, <1>5, SeqEqual

(* A preparation stays right when entries with new ids come or entries go.   *)
LEMMA StaysPrepared ==
  ASSUME NEW p \in Seq(Entries), NEW q \in Seq(Entries), NEW last \in Nat, NEW later \in Nat,
         last <= later, NEW prep, PreparedOn(prep, p, last),
         \A n \in DOMAIN q : q[n].id <= last => n \in DOMAIN p /\ Agree(q, p, n)
  PROVE  PreparedOn(prep, q, later)
<1> SUFFICES ASSUME prep # NoPreparation
             PROVE  /\ prep.from \in 1..later
                    /\ \A n \in DOMAIN q : q[n].id = prep.from =>
                         q[n].kind # "compaction" /\ prep = Prepare(SubSeq(q, 1, n))
  BY DEF PreparedOn
<1>1. prep.from \in 1..last
  BY DEF PreparedOn
<1>2. ASSUME NEW n \in DOMAIN q, q[n].id = prep.from
      PROVE  q[n].kind # "compaction" /\ prep = Prepare(SubSeq(q, 1, n))
  <2>1. n \in DOMAIN p /\ Agree(q, p, n)
    BY <1>1, <1>2
  <2>2. n \in Nat /\ n <= Len(q) /\ n <= Len(p) /\ n \in 1..n
    BY <1>2, <2>1, LenProperties
  <2>3. q[n] = p[n]
    BY <2>1, <2>2 DEF Agree
  <2>4. SubSeq(q, 1, n) = SubSeq(p, 1, n)
    BY <2>1, <2>2, SameBeginning, Zenon
  <2>5. p[n].kind # "compaction" /\ prep = Prepare(SubSeq(p, 1, n))
    BY <1>2, <2>1, <2>3, Zenon DEF PreparedOn
  <2> QED BY <2>3, <2>4, <2>5, Zenon
<1> QED BY <1>1, <1>2

(* What the operations that append an entry have in common.                  *)
LEMMA Pushed ==
  ASSUME Typed, Sound(path), AllPrepared, NEW e \in Entries, e.id = lastId + 1, Push(e),
         NEW n \in Nat, n = Len(path),
         e.kind = "compaction" => CompactionSound(path', n + 1),
         e.kind = "toolResult" => ResultSound(path', n + 1)
  PROVE  /\ path' \in Seq(Entries) /\ lastId' \in Nat
         /\ \A i \in DOMAIN path' : path'[i].id \in 1..lastId'
         /\ Sound(path')
         /\ \A c \in Compactors : PreparedOn(pending[c], path', lastId')
<1>0. path' = Append(path, e) /\ lastId' = lastId + 1
  BY DEF Push
<1>1. path \in Seq(Entries) /\ lastId \in Nat /\ \A i \in DOMAIN path : path[i].id \in 1..lastId
  BY DEF Typed
<1>2. /\ path' \in Seq(Entries) /\ Len(path') = n + 1 /\ path'[n + 1] = e
      /\ \A i \in 1..n : path'[i] = path[i]
  BY <1>0, <1>1, AppendProperties
<1>3. DOMAIN path' = 1..(n + 1) /\ DOMAIN path = 1..n
  BY <1>1, <1>2, LenProperties
<1>4. \A i \in 1..n : path[i].id < e.id
  BY <1>1, <1>3
<1>5. Sound(path')
  BY <1>0, <1>1, <1>4, AppendSound
<1>6. ASSUME NEW m \in DOMAIN path', path'[m].id <= lastId
      PROVE  m \in DOMAIN path /\ Agree(path', path, m)
  <2>1. m # n + 1
    BY <1>1, <1>2, <1>6
  <2>2. m \in 1..n
    BY <1>3, <2>1
  <2> QED BY <1>2, <1>3, <2>2 DEF Agree
<1>7. ASSUME NEW c \in Compactors PROVE PreparedOn(pending[c], path', lastId')
  <2>1. PreparedOn(pending[c], path, lastId)
    BY DEF AllPrepared
  <2>2. lastId' \in Nat /\ lastId <= lastId'
    BY <1>0, <1>1
  <2> QED BY <1>1, <1>2, <1>6, <2>1, <2>2, StaysPrepared
<1>8. \A i \in DOMAIN path' : path'[i].id \in 1..lastId'
  <2> SUFFICES ASSUME NEW i \in 1..(n + 1) PROVE path'[i].id \in 1..lastId'
    BY <1>3
  <2>1. CASE i = n + 1
    BY <1>0, <1>1, <1>2, <2>1
  <2>2. CASE i # n + 1
    <3>1. i \in 1..n
      BY <2>2
    <3> QED BY <1>0, <1>1, <1>2, <1>3, <3>1
  <2> QED BY <2>1, <2>2
<1> QED BY <1>0, <1>1, <1>2, <1>5, <1>7, <1>8

(* An entry that leaves a turn open comes behind the call like those before. *)
LEMMA StillCalled ==
  ASSUME NEW p \in Seq(Entries), NEW e \in Entries, NEW q, q = Append(p, e),
         Called(p), e.kind \in Behind, NEW n \in Nat, n = Len(p)
  PROVE  Called(q) /\ ResultSound(q, n + 1)
<1>1. PICK j \in 1..n : Follows(p, j, n)
  BY LenProperties DEF Called
<1>2. /\ q \in Seq(Entries) /\ Len(q) = n + 1 /\ q[n + 1] = e
      /\ \A i \in 1..n : q[i] = p[i]
  BY AppendProperties
<1>3. Follows(q, j, n + 1)
  <2>1. q[j].kind = "assistant"
    BY <1>1, <1>2 DEF Follows
  <2>2. ASSUME NEW k \in (j + 1)..(n + 1) PROVE q[k].kind \in Behind
    <3>1. CASE k = n + 1
      BY <1>2, <3>1
    <3>2. CASE k # n + 1
      <4>1. k \in (j + 1)..n /\ k \in 1..n
        BY <1>1, <3>2
      <4> QED BY <1>1, <1>2, <4>1 DEF Follows
    <3> QED BY <3>1, <3>2
  <2> QED BY <2>1, <2>2 DEF Follows
<1>4. j \in DOMAIN q /\ j \in 1..((n + 1) - 1)
  BY <1>1, <1>2, LenProperties
<1> QED BY <1>2, <1>3, <1>4 DEF Called, ResultSound

LEMMA InitHolds == Init => IInv
<1> SUFFICES ASSUME Init PROVE IInv
  OBVIOUS
<1>1. path = <<>> /\ lastId = 0 /\ open = FALSE
      /\ pending = [c \in Compactors |-> NoPreparation]
  BY DEF Init
<1>2. path \in Seq(Entries) /\ DOMAIN path = {}
  BY <1>1
<1>3. Typed
  BY <1>1, <1>2 DEF Typed
<1>4. Sound(path)
  BY <1>2 DEF Sound, Rising, CompactionsSound, ResultsSound
<1>5. AllPrepared
  BY <1>1 DEF AllPrepared, PreparedOn
<1> QED BY <1>1, <1>3, <1>4, <1>5 DEF IInv

(* The entries the operations write.                                         *)
LEMMA EntryIs ==
  ASSUME Typed, NEW kind \in Kinds, NEW tokens \in Nat
  PROVE  /\ Entry(kind, tokens) \in Entries /\ Entry(kind, tokens).id = lastId + 1
         /\ Entry(kind, tokens).kind = kind
BY DEF Typed, Entry, Entries, NoId

LEMMA MessageStep ==
  ASSUME IInv, NEW kind \in ContextKinds \ {"toolResult"}, NEW tokens \in Nat,
         AppendMessage(kind, tokens)
  PROVE  IInv'
<1> PICK e : e = Entry(kind, tokens)
  OBVIOUS
<1> PICK n \in Nat : n = Len(path)
  BY LenProperties DEF IInv, Typed
<1>1. e \in Entries /\ e.id = lastId + 1 /\ e.kind = kind
  BY EntryIs DEF IInv, Kinds
<1>2. Push(e) /\ open' = (kind = "assistant") /\ pending' = pending
  BY DEF AppendMessage
<1>3. e.kind # "compaction" /\ e.kind # "toolResult"
  BY <1>1, EntryKinds
<1>4. /\ path' \in Seq(Entries) /\ lastId' \in Nat
      /\ \A i \in DOMAIN path' : path'[i].id \in 1..lastId'
      /\ Sound(path')
      /\ \A c \in Compactors : PreparedOn(pending[c], path', lastId')
  BY <1>1, <1>2, <1>3, Pushed, Zenon DEF IInv
<1>5. Typed'
  BY <1>2, <1>4 DEF IInv, Typed
<1>6. AllPrepared'
  BY <1>2, <1>4 DEF AllPrepared
<1>7. open' => Called(path')
  <2> SUFFICES ASSUME kind = "assistant" PROVE Called(path')
    BY <1>2
  <2>1. Len(path') = n + 1 /\ path'[n + 1] = e
    BY <1>1, <1>2, AppendProperties DEF IInv, Typed, Push
  <2>2. n + 1 \in DOMAIN path'
    BY <1>4, <2>1, LenProperties
  <2>3. Follows(path', n + 1, n + 1)
    BY <1>1, <2>1 DEF Follows
  <2> QED BY <2>1, <2>2, <2>3 DEF Called
<1> QED BY <1>4, <1>5, <1>6, <1>7, Zenon DEF IInv

(* A tool result or a setting leaves the turn as open as it was.             *)
LEMMA BehindStep ==
  ASSUME IInv, NEW kind \in {"toolResult", "setting"}, NEW tokens \in Nat,
         kind = "toolResult" => open, Push(Entry(kind, tokens)),
         UNCHANGED <<open, pending, navigations>>
  PROVE  IInv'
<1> PICK e : e = Entry(kind, tokens)
  OBVIOUS
<1> PICK n \in Nat : n = Len(path)
  BY LenProperties DEF IInv, Typed
<1>1. e \in Entries /\ e.id = lastId + 1 /\ e.kind = kind
  <2>1. kind \in Kinds
    BY DEF Kinds, ContextKinds, MessageKinds
  <2> QED BY <2>1, EntryIs DEF IInv
<1>2. Push(e) /\ path' = Append(path, e) /\ path \in Seq(Entries)
  BY DEF Push, IInv, Typed
<1>3. open => Called(path') /\ ResultSound(path', n + 1)
  <2>1. e.kind \in Behind
    BY <1>1 DEF Behind
  <2> QED BY <1>1, <1>2, <2>1, StillCalled, Zenon DEF IInv
<1>4. /\ path' \in Seq(Entries) /\ lastId' \in Nat
      /\ \A i \in DOMAIN path' : path'[i].id \in 1..lastId'
      /\ Sound(path')
      /\ \A c \in Compactors : PreparedOn(pending[c], path', lastId')
  <2>1. e.kind # "compaction" /\ (e.kind = "toolResult" => ResultSound(path', n + 1))
    BY <1>1, <1>3
  <2> QED BY <1>1, <1>2, <2>1, Pushed, Zenon DEF IInv
<1>5. Typed'
  BY <1>4 DEF IInv, Typed
<1>6. AllPrepared'
  BY <1>4 DEF AllPrepared
<1> QED BY <1>3, <1>4, <1>5, <1>6, Zenon DEF IInv

LEMMA BranchStep ==
  ASSUME IInv, NEW n \in Nat, Branch(n)
  PROVE  IInv'
<1>1. path \in Seq(Entries) /\ lastId \in Nat /\ \A i \in DOMAIN path : path[i].id \in 1..lastId
  BY DEF IInv, Typed
<1>2. /\ path' = SubSeq(path, 1, n) /\ open' = FALSE
      /\ lastId' = lastId /\ pending' = pending /\ n \in 0..Len(path)
  <2>1. Len(path) \in Nat
    BY <1>1, LenProperties
  <2> QED BY <2>1 DEF Branch
<1>3. path' \in Seq(Entries) /\ Len(path') = n /\ Agree(path', path, n) /\ Sound(path')
  BY <1>1, <1>2, PrefixSound DEF IInv
<1>4. \A i \in DOMAIN path' : i \in 1..n /\ i \in DOMAIN path /\ Agree(path', path, i)
  BY <1>1, <1>2, <1>3, LenProperties DEF Agree
<1>5. Typed'
  <2>1. \A i \in DOMAIN path' : path'[i].id \in 1..lastId'
    BY <1>1, <1>2, <1>3, <1>4 DEF Agree
  <2> QED BY <1>1, <1>2, <1>3, <2>1 DEF IInv, Typed
<1>6. AllPrepared'
  <2> SUFFICES ASSUME NEW c \in Compactors PROVE PreparedOn(pending[c], path', lastId')
    BY <1>2 DEF AllPrepared
  <2>1. PreparedOn(pending[c], path, lastId)
    BY DEF IInv, AllPrepared
  <2>2. \A i \in DOMAIN path' : path'[i].id <= lastId => i \in DOMAIN path /\ Agree(path', path, i)
    BY <1>4
  <2>3. lastId \in Nat /\ lastId' \in Nat /\ lastId <= lastId' /\ lastId' = lastId
    BY <1>1, <1>2
  <2>4. PreparedOn(pending[c], path', lastId)
    <3>1. lastId <= lastId
      BY <1>1
    <3> QED BY <1>1, <1>3, <2>1, <2>2, <3>1, StaysPrepared, Zenon
  <2> QED BY <2>3, <2>4, Zenon
<1> QED BY <1>2, <1>3, <1>5, <1>6, Zenon DEF IInv

LEMMA StartStep ==
  ASSUME IInv, NEW c \in Compactors, StartCompaction(c)
  PROVE  IInv'
<1> PICK n \in Nat : n = Len(path)
  BY LenProperties DEF IInv, Typed
<1>1. path \in Seq(Entries) /\ lastId \in Nat /\ \A i \in DOMAIN path : path[i].id \in 1..lastId
  BY DEF IInv, Typed
<1>2. /\ path' = path /\ lastId' = lastId /\ open' = open
      /\ pending' = [pending EXCEPT ![c] = Prepare(path)] /\ CanPrepare(path)
  BY DEF StartCompaction
<1>3. n # 0 /\ path[n].kind # "compaction" /\ DOMAIN path = 1..n
  BY <1>1, <1>2, EmptySeq, LenProperties DEF CanPrepare
<1>4. path[n].id \in 1..lastId
  BY <1>1, <1>3
<1> PICK prep : prep = Prepare(path)
  OBVIOUS
<1>5. prep \in Preparations /\ prep.from = path[n].id
  <2>1. path[n].id # 0
    BY <1>4
  <2> PICK last : last = LastCompaction(path)
    OBVIOUS
  <2>2. WellMade(path, n, last, prep)
    BY <1>1, <1>3, <2>1, PrepareIs, Zenon
  <2> QED BY <2>2, Zenon DEF WellMade, MadeFrom
<1>6. PreparedOn(prep, path, lastId)
  <2>1. ASSUME NEW m \in 1..n, path[m].id = prep.from
        PROVE  path[m].kind # "compaction" /\ prep = Prepare(SubSeq(path, 1, m))
    <3>1. ~(m < n)
      <4>1. m < n => path[m].id < path[n].id
        BY <1>3 DEF IInv, Sound, Rising
      <4> QED BY <1>4, <1>5, <2>1, <4>1
    <3>2. m = n
      BY <3>1
    <3>3. SubSeq(path, 1, n) = path
      BY <1>1
    <3> QED BY <1>3, <3>2, <3>3
  <2> QED BY <1>3, <1>4, <1>5, <2>1 DEF PreparedOn
<1>7. \A d \in Compactors : pending'[d] = IF d = c THEN prep ELSE pending[d]
  BY <1>2 DEF IInv, Typed
<1>8. Typed'
  BY <1>2, <1>5, <1>7 DEF IInv, Typed
<1>9. AllPrepared'
  BY <1>2, <1>6, <1>7 DEF IInv, AllPrepared
<1> QED BY <1>2, <1>8, <1>9, Zenon DEF IInv

LEMMA DropStep ==
  ASSUME IInv, NEW c \in Compactors, DropCompaction(c)
  PROVE  IInv'
<1>1. /\ path' = path /\ lastId' = lastId /\ open' = open
      /\ pending' = [pending EXCEPT ![c] = NoPreparation]
  BY DEF DropCompaction
<1>2. \A d \in Compactors : pending'[d] = IF d = c THEN NoPreparation ELSE pending[d]
  BY <1>1 DEF IInv, Typed
<1>3. Typed'
  BY <1>1, <1>2 DEF IInv, Typed
<1>4. AllPrepared'
  BY <1>1, <1>2 DEF IInv, AllPrepared, PreparedOn
<1> QED BY <1>1, <1>3, <1>4, Zenon DEF IInv

LEMMA FinishStep ==
  ASSUME IInv, NEW c \in Compactors, FinishCompaction(c)
  PROVE  IInv'
<1> PICK n \in Nat : n = Len(path)
  BY LenProperties DEF IInv, Typed
<1> PICK prep : prep = pending[c]
  OBVIOUS
<1> PICK e : e = [Entry("compaction", 0) EXCEPT
                !.firstKept = prep.firstKept,
                !.summarized = prep.history \cup prep.turnPrefix,
                !.covers = Summary(prep),
                !.forgetful = prep.previous # {} /\ prep.turnPrefix # {} /\ prep.history = {},
                !.stale = prep.from \notin IdsOf(path)]
  OBVIOUS
<1>1. path \in Seq(Entries) /\ lastId \in Nat /\ DOMAIN path = 1..n
  BY LenProperties DEF IInv, Typed
<1>2. /\ prep # NoPreparation /\ Push(e) /\ path' = Append(path, e) /\ open' = open
      /\ pending' = [pending EXCEPT ![c] = NoPreparation]
  BY DEF FinishCompaction, Push
<1>3. prep \in Preparations
  BY <1>2 DEF IInv, Typed
<1>4. e \in Entries /\ e.id = lastId + 1 /\ Written(e, prep)
      /\ e.stale = (prep.from \notin IdsOf(path))
  <2>1. e = [id |-> lastId + 1, kind |-> "compaction", tokens |-> 0,
             firstKept |-> prep.firstKept,
             summarized |-> prep.history \cup prep.turnPrefix,
             covers |-> Summary(prep),
             forgetful |-> prep.previous # {} /\ prep.turnPrefix # {} /\ prep.history = {},
             stale |-> prep.from \notin IdsOf(path)]
    BY DEF Entry
  <2>2. /\ prep.firstKept \in Nat /\ prep.history \cup prep.turnPrefix \in SUBSET Nat
        /\ Summary(prep) \in SUBSET Nat
    BY <1>3 DEF Preparations, Summary
  <2> PICK summarized : summarized = prep.history \cup prep.turnPrefix
    OBVIOUS
  <2> PICK covers : covers = Summary(prep)
    OBVIOUS
  <2> PICK forgetful \in BOOLEAN :
             forgetful = (prep.previous # {} /\ prep.turnPrefix # {} /\ prep.history = {})
    OBVIOUS
  <2> PICK stale \in BOOLEAN : stale = (prep.from \notin IdsOf(path))
    OBVIOUS
  <2>3. e = [id |-> lastId + 1, kind |-> "compaction", tokens |-> 0,
             firstKept |-> prep.firstKept, summarized |-> summarized, covers |-> covers,
             forgetful |-> forgetful, stale |-> stale]
    BY <2>1, Zenon
  <2>4. /\ e.id = lastId + 1 /\ e.kind = "compaction" /\ e.firstKept = prep.firstKept
        /\ e.summarized = summarized /\ e.covers = covers
        /\ e.forgetful = forgetful /\ e.stale = stale
    BY ONLY <2>3, Zenon
  <2>5. Written(e, prep)
    BY <2>4, Zenon DEF Written
  <2>6. "compaction" \in Kinds /\ lastId + 1 \in Nat
    BY <1>1 DEF Kinds
  <2>7. e \in Entries
    <3>1. prep.firstKept \in Nat /\ summarized \in SUBSET Nat /\ covers \in SUBSET Nat
      BY <2>2, Zenon
    <3>2. forgetful \in BOOLEAN /\ stale \in BOOLEAN /\ 0 \in Nat
      OBVIOUS
    <3> QED BY ONLY <2>3, <2>6, <3>1, <3>2 DEF Entries
  <2> QED BY <2>4, <2>5, <2>7, Zenon
<1>5. Len(path') = n + 1 /\ path'[n + 1] = e /\ \A i \in 1..n : path'[i] = path[i]
  BY <1>1, <1>2, <1>4, AppendProperties
<1>6. CompactionSound(path', n + 1)
  <2>1. CASE e.stale
    <3>1. path'[n + 1].stale /\ path'[n + 1].kind = "compaction" /\ n + 1 \in 1..(n + 1)
      BY <1>4, <1>5, <2>1 DEF Written
    <3>2. ~RootedTo(path', n + 1)
      BY <3>1, Zenon DEF RootedTo
    <3> QED BY <3>1, <3>2, Zenon DEF CompactionSound, OnThePath
  <2>2. CASE ~e.stale
    <3>1. PICK m \in 1..n : path[m].id = prep.from
      BY <1>1, <1>4, <2>2 DEF IdsOf
    <3>2. path[m].kind # "compaction" /\ prep = Prepare(SubSeq(path, 1, m)) /\ path[m].id # 0
      <4>1. PreparedOn(prep, path, lastId)
        BY DEF IInv, AllPrepared
      <4> QED BY <1>1, <1>2, <3>1, <4>1 DEF PreparedOn
    <3>3. Agree(path', path, n) /\ Written(path'[n + 1], prep) /\ Sound(path)
      BY <1>4, <1>5 DEF Agree, IInv
    <3> QED BY <1>1, <3>2, <3>3, NewCompaction, Zenon
  <2> QED BY <2>1, <2>2
<1>7. /\ path' \in Seq(Entries) /\ lastId' \in Nat
      /\ \A i \in DOMAIN path' : path'[i].id \in 1..lastId'
      /\ Sound(path')
      /\ \A d \in Compactors : PreparedOn(pending[d], path', lastId')
  <2>1. e.kind # "toolResult"
    BY <1>4 DEF Written
  <2> QED BY <1>2, <1>4, <1>6, <2>1, Pushed, Zenon DEF IInv
<1>8. \A d \in Compactors : pending'[d] = IF d = c THEN NoPreparation ELSE pending[d]
  BY <1>2 DEF IInv, Typed
<1>9. Typed'
  BY <1>2, <1>7, <1>8 DEF IInv, Typed
<1>10. AllPrepared'
  BY <1>7, <1>8 DEF AllPrepared, PreparedOn
<1>11. open' => Called(path')
  <2>1. e.kind \in Behind
    BY <1>4 DEF Written, Behind
  <2> QED BY <1>1, <1>2, <1>4, <2>1, StillCalled, Zenon DEF IInv
<1> QED BY <1>7, <1>9, <1>10, <1>11, Zenon DEF IInv

LEMMA SizesAre == \A kind \in MessageKinds : Sizes[kind] \in SUBSET Nat
BY CompactionAssumption DEF MessageKinds

LEMMA StepHolds == IInv /\ [Next]_vars => IInv'
<1> SUFFICES ASSUME IInv, [Next]_vars PROVE IInv'
  OBVIOUS
<1>1. CASE UNCHANGED vars
  BY <1>1 DEF vars, IInv, Typed, AllPrepared
<1>2. ASSUME NEW kind \in MessageKinds \ {"toolResult"}, NEW tokens \in Sizes[kind],
             AppendMessage(kind, tokens)
      PROVE  IInv'
  <2>1. kind \in ContextKinds \ {"toolResult"} /\ tokens \in Nat
    BY SizesAre DEF ContextKinds
  <2> QED BY <1>2, <2>1, MessageStep
<1>3. ASSUME NEW tokens \in Sizes["toolResult"], AppendToolResult(tokens)
      PROVE  IInv'
  <2>1. tokens \in Nat
    BY SizesAre DEF MessageKinds
  <2> QED BY <1>3, <2>1, BehindStep DEF AppendToolResult
<1>4. CASE AppendMessage("summary", 0)
  <2>1. "summary" \in ContextKinds \ {"toolResult"} /\ 0 \in Nat
    BY DEF ContextKinds
  <2> QED BY <1>4, <2>1, MessageStep
<1>5. CASE AppendSetting
  BY <1>5, BehindStep DEF AppendSetting
<1>6. ASSUME NEW n \in 0..MaxEntries, Branch(n) PROVE IInv'
  BY <1>6, BranchStep
<1>7. ASSUME NEW c \in Compactors, StartCompaction(c) \/ FinishCompaction(c) \/ DropCompaction(c)
      PROVE  IInv'
  BY <1>7, StartStep, FinishStep, DropStep, Zenon
<1> QED BY <1>1, <1>2, <1>3, <1>4, <1>5, <1>6, <1>7, Zenon DEF Next

(* The state of compaction is right at every moment.                         *)
THEOREM CompactionInvariance == Spec => []IInv
<1> QED BY InitHolds, StepHolds, PTL DEF Spec

-----------------------------------------------------------------------------
(* What compaction promises                                                    *)

(* The context of a path: what the last compaction keeps, and what follows.  *)
LEMMA ShownIs ==
  ASSUME NEW p, NEW n \in Nat, n = Len(p), NEW c, c = LastCompaction(p)
  PROVE  Shown(p) = {i \in 1..n : p[i].kind \in ContextKinds /\ (c # 0 /\ i < c => Keeps(p, c, i))}
BY DEF Shown, IndexesOf, Keeps

LEMMA RootedMeans ==
  ASSUME Rooted, NEW n \in Nat, n = Len(path)
  PROVE  RootedTo(path, n)
BY DEF Rooted, Compactions, IndexesOf, RootedTo

(* What is not in the context went into the last compaction, or one before.  *)
LEMMA NotShown ==
  ASSUME IInv, Rooted, NEW n \in Nat, n = Len(path), NEW c, c = LastCompaction(path),
         NEW i \in 1..n, path[i].kind \in ContextKinds, i \notin Shown(path)
  PROVE  c # 0 /\ i \in 1..(c - 1) /\ ~Keeps(path, c, i) /\ LastHolds(path, n, c)
<1>1. path \in Seq(Entries) /\ Sound(path)
  BY DEF IInv, Typed
<1>2. c # 0 /\ i < c /\ ~Keeps(path, c, i)
  BY ShownIs
<1>3. RootedTo(path, n)
  BY RootedMeans
<1>4. LastHolds(path, n, c)
  BY <1>1, <1>2, <1>3, LastSound, Zenon
<1>5. c \in 1..n
  BY <1>4 DEF LastHolds
<1> QED BY <1>2, <1>4, <1>5

LEMMA GapFree == IInv => NothingSkipped
<1> SUFFICES ASSUME IInv, Rooted PROVE
             \A i \in IndexesOf(path, ContextKinds, 1, Len(path)) :
               \/ i \in Shown(path)
               \/ \E c \in Compactions(path) : path[i].id \in path[c].summarized
  BY Zenon DEF NothingSkipped
<1> PICK n \in Nat : n = Len(path)
  BY LenProperties DEF IInv, Typed
<1> PICK c : c = LastCompaction(path)
  OBVIOUS
<1> SUFFICES ASSUME NEW i \in 1..n, path[i].kind \in ContextKinds, i \notin Shown(path)
             PROVE  \E d \in Compactions(path) : path[i].id \in path[d].summarized
  BY DEF IndexesOf
<1>1. c # 0 /\ i \in 1..(c - 1) /\ ~Keeps(path, c, i) /\ LastHolds(path, n, c)
  BY NotShown, Zenon
<1>2. c \in 1..n /\ Accounted(path, c)
  BY <1>1, Zenon DEF LastHolds
<1>3. PICK d \in 1..c : path[d].kind = "compaction" /\ path[i].id \in path[d].summarized
  BY <1>1, <1>2, Zenon DEF Accounted
<1>4. d \in Compactions(path)
  BY <1>2, <1>3 DEF Compactions, IndexesOf
<1> QED BY <1>3, <1>4, Zenon

LEMMA Memory == IInv => ForgetsOnlyAtSplitTurns
<1> SUFFICES ASSUME IInv, Rooted, \A d \in Compactions(path) : ~path[d].forgetful
             PROVE  IdsIn(path, ContextKinds, 1, Len(path)) \subseteq
                      ShownIds(path) \cup UNION {path[d].covers : d \in {LastCompaction(path)} \ {0}}
  BY Zenon DEF ForgetsOnlyAtSplitTurns, NothingForgotten
<1> PICK n \in Nat : n = Len(path)
  BY LenProperties DEF IInv, Typed
<1> PICK c : c = LastCompaction(path)
  OBVIOUS
<1>1. ASSUME NEW i \in 1..n, path[i].kind \in ContextKinds, i \notin Shown(path)
      PROVE  c # 0 /\ path[i].id \in path[c].covers
  <2>1. c # 0 /\ i \in 1..(c - 1) /\ ~Keeps(path, c, i) /\ LastHolds(path, n, c)
    BY <1>1, NotShown, Zenon
  <2>2. c \in 1..n /\ Recalled(path, c)
    BY <2>1, Zenon DEF LastHolds
  <2>3. Remembers(path, c)
    BY <2>2 DEF Remembers, Compactions, IndexesOf
  <2> QED BY <1>1, <2>1, <2>2, <2>3, Zenon DEF Recalled
<1>2. ASSUME NEW x \in IdsIn(path, ContextKinds, 1, n)
      PROVE  x \in ShownIds(path) \cup UNION {path[d].covers : d \in {c} \ {0}}
  <2>1. PICK i \in 1..n : path[i].kind \in ContextKinds /\ x = path[i].id
    BY <1>2 DEF IdsIn, IndexesOf
  <2>2. CASE i \in Shown(path)
    BY <2>1, <2>2 DEF ShownIds
  <2>3. CASE i \notin Shown(path)
    BY <1>1, <2>1, <2>3
  <2> QED BY <2>2, <2>3
<1> QED BY <1>2

LEMMA ResultsFollow == IInv => NoOrphanedResult
<1> SUFFICES ASSUME IInv, Rooted, NEW i \in Shown(path), path[i].kind = "toolResult"
             PROVE  \E j \in Shown(path) :
                      /\ j < i
                      /\ path[j].kind = "assistant"
                      /\ \A k \in (j + 1)..(i - 1) :
                           path[k].kind \in {"toolResult", "setting", "compaction"}
  BY Zenon DEF NoOrphanedResult
<1> PICK n \in Nat : n = Len(path)
  BY LenProperties DEF IInv, Typed
<1> PICK c : c = LastCompaction(path)
  OBVIOUS
<1>1. i \in 1..n /\ (c # 0 /\ i < c => Keeps(path, c, i))
  BY ShownIs
<1>2. PICK j \in 1..(i - 1) : Follows(path, j, i)
  <2>1. i \in DOMAIN path
    BY <1>1, LenProperties DEF IInv, Typed
  <2> QED BY <2>1 DEF IInv, Sound, ResultsSound, ResultSound
<1>3. path[j].kind = "assistant" /\ \A k \in (j + 1)..i : path[k].kind \in Behind
  BY <1>2 DEF Follows
<1>4. j \in Shown(path)
  <2> SUFFICES ASSUME j \notin Shown(path) PROVE FALSE
    OBVIOUS
  <2>1. j \in 1..n /\ path[j].kind \in ContextKinds
    BY <1>1, <1>3 DEF ContextKinds, MessageKinds
  <2>2. c # 0 /\ j \in 1..(c - 1) /\ ~Keeps(path, c, j) /\ LastHolds(path, n, c)
    BY <2>1, NotShown, Zenon
  <2>3. /\ c \in 1..n /\ path[c].kind = "compaction"
        /\ \E k \in 1..(c - 1) : path[k].id = path[c].firstKept
        /\ Clean(path, c)
    BY <2>2, Zenon DEF LastHolds
  <2>4. PICK k \in 1..(c - 1) : path[k].id = path[c].firstKept
    BY <2>3, Zenon
  <2>5. j < k
    BY <2>2, <2>3, <2>4 DEF Keeps
  <2>6. CleanAt(path, c, k)
    BY <2>3, <2>4, Zenon DEF Clean
  <2>7. PICK r \in k..(c - 1) :
             /\ path[r].kind \in CutKinds
             /\ \A m \in k..(r - 1) : path[m].kind \notin MessageKinds \cup {"compaction"}
    BY <2>2, <2>3, <2>4, <2>5, <2>6 DEF CleanAt
  <2>8. ~(r <= i)
    <3> SUFFICES ASSUME r <= i PROVE FALSE
      OBVIOUS
    <3>1. r \in (j + 1)..i
      BY <1>1, <2>1, <2>3, <2>4, <2>5, <2>7
    <3>2. path[r].kind \in Behind
      BY <1>3, <3>1
    <3> QED BY <2>7, <3>2 DEF Behind, CutKinds
  <2>9. i < c
    BY <1>1, <2>3, <2>7, <2>8
  <2>10. PICK l \in 1..i : path[l].id = path[c].firstKept
    BY <1>1, <2>2, <2>9 DEF Keeps
  <2>11. l = k
    <3>1. path \in Seq(Entries) /\ Rising(path)
      BY DEF IInv, Typed, Sound
    <3>2. DOMAIN path = 1..n
      BY <3>1, LenProperties
    <3>3. l \in 1..n /\ k \in 1..n /\ path[l].id = path[k].id
      BY <1>1, <2>3, <2>4, <2>10
    <3>4. path[k].id \in Nat
      <4>1. path[k] \in Entries
        BY <3>1, <3>2, <3>3, ElementOfSeq
      <4> QED BY <4>1 DEF Entries
    <3>5. (l < k => path[l].id < path[k].id) /\ (k < l => path[k].id < path[l].id)
      BY <3>1, <3>2, <3>3, Zenon DEF Rising
    <3> QED BY <3>3, <3>4, <3>5
  <2>12. i \in k..(r - 1)
    BY <1>1, <2>3, <2>4, <2>7, <2>8, <2>10, <2>11
  <2> QED BY <2>7, <2>12 DEF MessageKinds
<1> QED BY <1>1, <1>2, <1>3, <1>4 DEF Behind

LEMMA KeptThere == IInv => KeptOnPath
<1> SUFFICES ASSUME IInv, NEW i \in Compactions(path) PROVE OnThePath(path, i)
  BY DEF KeptOnPath, OnThePath
<1>1. i \in DOMAIN path /\ path[i].kind = "compaction"
  BY LenProperties DEF Compactions, IndexesOf, IInv, Typed
<1> QED BY <1>1 DEF IInv, Sound, CompactionsSound, CompactionSound

LEMMA WithinBudget == IInv => KeptWithinBudget
<1> SUFFICES ASSUME IInv, CanPrepare(path),
                    NEW start, start = BoundaryStart(path),
                    NEW cut, cut = FindCutPoint(path, start).cut,
                    NEW kept, kept = IndexesOf(path, MessageKinds, cut, Len(path)),
                    kept # {}, ValidCutPoints(path, start) # {},
                    RawCut(path, start) # Least(ValidCutPoints(path, start))
             PROVE  TokensFrom(path)[Least(kept) + 1] < KeepRecent
  BY Zenon DEF KeptWithinBudget
<1> PICK n \in Nat : n = Len(path)
  BY LenProperties DEF IInv, Typed
<1>1. path \in Seq(Entries) /\ n # 0 /\ path[n].kind # "compaction"
  BY EmptySeq, LenProperties DEF CanPrepare, IInv, Typed
<1>2. start \in 1..n
  BY <1>1, BoundaryIs
<1> QED BY <1>1, <1>2, BudgetHolds, Zenon

(* Nothing falls between two compactions: a message is in the context, or a  *)
(* compaction on the path was given it to summarize.                         *)
THEOREM NoGap == Spec => []NothingSkipped
<1> QED BY CompactionInvariance, GapFree, PTL

(* What earlier compactions summarized is in the summary that is shown, as   *)
(* long as no compaction of a split turn without history drops it.           *)
THEOREM Remembered == Spec => []ForgetsOnlyAtSplitTurns
<1> QED BY CompactionInvariance, Memory, PTL

(* A compaction never parts a result from its call, keeps from an entry in   *)
(* front of it on the path, and keeps no more than the budget allows.        *)
THEOREM CutsRight == Spec => []CutsWell
<1>1. IInv => CutsWell
  BY ResultsFollow, KeptThere, WithinBudget, Zenon DEF CutsWell
<1> QED BY <1>1, CompactionInvariance, PTL

=============================================================================
