-------------------------- MODULE FeishuReplyProofs --------------------------
(***************************************************************************)
(* One answer of the Feishu bot, for any texts of the model, any length of  *)
(* a chunk, any number of stream updates, firings of the pulse and failed   *)
(* requests.  The one assumption is that the model does not write the       *)
(* placeholder of a card itself (ReplyAssumption).                          *)
(*                                                                          *)
(* What a reply() told the user can be read in the chat and stays there     *)
(* (FinalText), because a card never loses text (CardsGrow) although three  *)
(* chains of promises write to it and responses are lost.  The reaction is  *)
(* removed behind every creation of it (TypingCleared), and a card that is  *)
(* left streaming is one the client lost sight of (OpenCardsLost).          *)
(*                                                                          *)
(* The proofs rest on what merging keeps (MergeIncludes): the merged text   *)
(* has both parts whole.  From it every change of a card is shown to be one *)
(* of a few kinds, and every step of the model to make only such changes.   *)
(***************************************************************************)
EXTENDS FeishuReply, SequenceTheorems, WellFoundedInduction, TLAPS

-----------------------------------------------------------------------------
(* The invariant                                                            *)

Texts == Seq(Tokens)
Shown == Texts \cup {<<Thinking>>}
Links == [by : {"stream", "run"}, text : Texts]
Messages == [text : Shown, open : BOOLEAN, seq : Nat, known : Shown, number : Nat,
             links : Seq(Links), put : Nat]
Jobs == [chunks : Seq(Texts), at : Nat, card : Nat, put : Nat,
         then : {"stop", "files", "stopping", "failed", "done"}]
Places == {"waiting", "opening", "prompting", "flushing", "closing", "patching",
           "posting", "files", "stopping", "cancelling", "done"}

RunTyped ==
  /\ pc \in Places /\ job \in Jobs
  /\ said \in Seq(Texts) /\ asked \in 0..2 /\ files \in BOOLEAN /\ busy \in BOOLEAN
StreamTyped ==
  /\ pend \in Texts /\ last \in Texts /\ sent \in Nat /\ chain \in Seq(Texts)
  /\ stage \in {"idle", "creating", "updating", "posting"}
  /\ chain = <<>> => stage = "idle"
Idle == work = [card |-> "idle", typing |-> "idle"]
PulseTyped ==
  /\ pulses \in Seq(BOOLEAN) /\ ticks \in Nat /\ closed \in BOOLEAN
  /\ work \in [card : {"idle", "creating", "done"},
               typing : {"idle", "creating", "deleting", "done"}]
  /\ pulses = <<>> => Idle
ChatTyped ==
  /\ chat \in Seq(Messages) /\ session \in 0..Len(chat)
  /\ typing \in BOOLEAN /\ reaction \in BOOLEAN /\ failures \in Nat
  /\ told \in Seq(Seq(Texts))

(* What was said is what the model had to say, as far as it got.            *)
Spoken(t, s) ==
  /\ Len(t) <= Len(s)
  /\ \A k \in 1..Len(t) : /\ t[k] # <<>> /\ Len(t[k]) <= Len(s[k])
                          /\ t[k] = SubSeq(s[k], 1, Len(t[k]))
                          /\ k < Len(t) => t[k] = s[k]
SaidInv ==
  /\ pc \in {"waiting", "opening"} => asked = 0
  /\ pc = "prompting" => asked # 0
  /\ asked = 0 => said = <<>>
  /\ asked = 1 => Spoken(said, Script)
  /\ asked = 2 => Spoken(said, Again)

(* The server and the client disagree about a text only if the response to  *)
(* a write was lost; no later write is accepted then.                       *)
CardInv(c) ==
  /\ c.number <= c.seq
  /\ c.put \in {0, c.number + 1} \/ c.put <= c.seq
  /\ c.text = c.known \/ (c.seq > c.number /\ c.put <= c.seq)
  /\ c.put > 0 => c.links # <<>>
CardsInv == \A i \in 1..Len(chat) : CardInv(chat[i])

(* Where the text of a reply is, from the call to the last message.         *)
Carries(c, t) ==
  \/ Includes(BaseText(c), t)
  \/ \E k \in 1..Len(c.links) : Includes(c.links[k].text, t)
InChat(t) == \E i \in 1..Len(chat) : Includes(chat[i].text, t)
Replying == pc \in {"closing", "patching", "posting"}
ReplyInv ==
  /\ Replying => job.then # "stop"
  /\ pc \in {"closing", "patching"} =>
       job.card \in 1..Len(chat) /\ job.at = 1 /\ job.chunks # <<>>
  /\ pc = "closing" => Carries(chat[job.card], job.chunks[1])
  /\ pc = "patching" => /\ job.put <= chat[job.card].number + 1
                        /\ Includes(BaseText(chat[job.card]), job.chunks[1])
  /\ pc = "posting" => /\ job.at \in 1..Len(job.chunks)
                       /\ \A n \in 1..(job.at - 1) : InChat(job.chunks[n])

(* The removal of the reaction is the last link of the pulse's chain.       *)
Late == pc \in {"cancelling", "done"} \/ (Replying /\ job.then = "done")
PulseChain ==
  /\ \A k \in 1..Len(pulses) : pulses[k] = FALSE => closed /\ k = Len(pulses)
  /\ closed /\ pulses # <<>> => pulses[Len(pulses)] = FALSE
  /\ pulses # <<>> /\ Head(pulses) = FALSE /\ ~Idle =>
       typing = FALSE /\ work.typing # "creating"
Reacted ==
  failures = 0 => /\ reaction = TRUE => typing = TRUE \/ work.typing = "deleting"
                  /\ closed /\ pulses = <<>> => reaction = FALSE
PulseInv == (closed <=> Late) /\ PulseChain /\ Reacted

(* As long as every request is answered, an open card is on its way to be   *)
(* closed, or lost.                                                         *)
Closing == pc \in {"closing", "patching"}
ToClose == ~Answered \/ (Closing /\ job.card = session) \/ (pc = "files" /\ files /\ Joined = <<>>)
HasLink(c, by) == \E k \in 1..Len(c.links) : c.links[k].by = by
CardOpen(c, i) ==
  /\ c.seq = c.number /\ c.put \in {0, c.number + 1}
  /\ c.open = TRUE => i \in orphans \/ i = session \/ (Closing /\ i = job.card)
  /\ HasLink(c, "run") => pc = "closing" /\ i = job.card
  /\ HasLink(c, "stream") => stage = "updating"
OpenCards == \A i \in 1..Len(chat) : CardOpen(chat[i], i)
OpenSession == session = 0 \/ session \in orphans \/ ToClose
OpenPatch == pc = "patching" => job.put = chat[job.card].number + 1
OpenStream ==
  /\ Answered => chain = <<>>
  /\ said = <<>> => chain = <<>> /\ pend = <<>> /\ last = <<>>
Quiet == failures = 0 /\ asked < 2
Open == OpenCards /\ OpenSession /\ OpenPatch /\ OpenStream
OpenInv == Quiet => Open

-----------------------------------------------------------------------------
(* Texts                                                                    *)

LEMMA TextTyped ==
  ASSUME NEW S, NEW s \in Seq(S)
  PROVE  /\ Len(s) \in Nat /\ \A i \in 1..Len(s) : s[i] \in S
         /\ s = <<>> <=> Len(s) = 0
BY ElementOfSeq, LenProperties

(* t stands in s behind k tokens.                                           *)
StandsAt(s, t, k) ==
  /\ k \in 0..(Len(s) - Len(t))
  /\ \A i \in 1..Len(t) : s[k + i] = t[i]

LEMMA PartOf ==
  ASSUME NEW S, NEW s \in Seq(S), NEW a \in Int, NEW b \in Int, 1 <= a, b <= Len(s)
  PROVE  /\ SubSeq(s, a, b) \in Seq(S)
         /\ Len(SubSeq(s, a, b)) = IF a <= b THEN b - a + 1 ELSE 0
         /\ \A i \in 1..(b - a + 1) : SubSeq(s, a, b)[i] = s[a + i - 1]
<1>1. \A i \in a..b : s[i] \in S
  BY ElementOfSeq, LenProperties
<1> QED BY <1>1, SubSeqProperties

LEMMA StandsAtIs ==
  ASSUME NEW S, NEW s \in Seq(S), NEW t \in Seq(S), NEW k \in 0..(Len(s) - Len(t))
  PROVE  SubSeq(s, k + 1, k + Len(t)) = t <=> StandsAt(s, t, k)
<1> DEFINE u == SubSeq(s, k + 1, k + Len(t))
<1>1. Len(s) \in Nat /\ Len(t) \in Nat
  BY LenProperties
<1>2. /\ u \in Seq(S) /\ Len(u) = Len(t)
      /\ \A i \in 1..Len(t) : u[i] = s[k + i]
  <2>1. /\ u \in Seq(S)
        /\ Len(u) = IF k + 1 <= k + Len(t) THEN (k + Len(t)) - (k + 1) + 1 ELSE 0
        /\ \A i \in 1..((k + Len(t)) - (k + 1) + 1) : u[i] = s[(k + 1) + i - 1]
    BY <1>1, PartOf
  <2>2. \A i \in 1..Len(t) : (k + 1) + i - 1 = k + i
    BY <1>1
  <2>3. (k + Len(t)) - (k + 1) + 1 = Len(t)
    BY <1>1
  <2> HIDE DEF u
  <2> QED BY <1>1, <2>1, <2>2, <2>3
<1> HIDE DEF u
<1>3. u = t => StandsAt(s, t, k)
  BY <1>2 DEF StandsAt
<1>4. StandsAt(s, t, k) => u = t
  <2> SUFFICES ASSUME StandsAt(s, t, k) PROVE u = t
    OBVIOUS
  <2>1. \A i \in 1..Len(u) : u[i] = t[i]
    BY <1>2 DEF StandsAt
  <2> QED BY <1>2, <2>1, SeqEqual
<1> QED BY <1>3, <1>4 DEF u

LEMMA IncludesIs ==
  ASSUME NEW S, NEW s \in Seq(S), NEW t \in Seq(S)
  PROVE  Includes(s, t) <=> \E k \in Int : StandsAt(s, t, k)
<1>1. ASSUME Includes(s, t) PROVE \E k \in Int : StandsAt(s, t, k)
  <2>1. PICK k \in 0..(Len(s) - Len(t)) : SubSeq(s, k + 1, k + Len(t)) = t
    BY <1>1 DEF Includes
  <2>2. k \in Int /\ StandsAt(s, t, k)
    BY <2>1, StandsAtIs
  <2> QED BY <2>2
<1>2. ASSUME NEW k \in Int, StandsAt(s, t, k) PROVE Includes(s, t)
  <2>1. k \in 0..(Len(s) - Len(t))
    BY <1>2 DEF StandsAt
  <2>2. SubSeq(s, k + 1, k + Len(t)) = t
    BY <1>2, <2>1, StandsAtIs
  <2> QED BY <2>1, <2>2 DEF Includes
<1> QED BY <1>1, <1>2

LEMMA IncludesBasics ==
  ASSUME NEW S, NEW s \in Seq(S)
  PROVE  Includes(s, s) /\ Includes(s, <<>>)
<1>1. Len(s) \in Nat /\ <<>> \in Seq(S) /\ Len(<<>>) = 0
  BY LenProperties
<1>2. StandsAt(s, s, 0)
  BY <1>1 DEF StandsAt
<1>3. StandsAt(s, <<>>, 0)
  BY <1>1 DEF StandsAt
<1>4. (\E k \in Int : StandsAt(s, s, k)) /\ \E k \in Int : StandsAt(s, <<>>, k)
  BY <1>2, <1>3
<1> QED BY <1>1, <1>4, IncludesIs

LEMMA IncludesTrans ==
  ASSUME NEW S, NEW s \in Seq(S), NEW t \in Seq(S), NEW u \in Seq(S),
         Includes(s, t), Includes(t, u)
  PROVE  Includes(s, u)
<1>1. Len(s) \in Nat /\ Len(t) \in Nat /\ Len(u) \in Nat
  BY LenProperties
<1>2. PICK k \in Int : StandsAt(s, t, k)
  BY IncludesIs
<1>3. PICK l \in Int : StandsAt(t, u, l)
  BY IncludesIs
<1>4. \A i \in 1..Len(u) : s[(k + l) + i] = u[i]
  <2> TAKE i \in 1..Len(u)
  <2>1. l + i \in 1..Len(t) /\ t[l + i] = u[i]
    BY <1>1, <1>3 DEF StandsAt
  <2>2. s[k + (l + i)] = t[l + i]
    BY <1>2, <2>1 DEF StandsAt
  <2>3. k + (l + i) = (k + l) + i
    OBVIOUS
  <2> QED BY <2>1, <2>2, <2>3
<1>5. StandsAt(s, u, k + l)
  BY <1>1, <1>2, <1>3, <1>4 DEF StandsAt
<1>6. \E j \in Int : StandsAt(s, u, j)
  BY <1>5
<1> QED BY <1>6, IncludesIs

(* What follows a text leaves it there.                                     *)
LEMMA IncludesFront ==
  ASSUME NEW S, NEW s \in Seq(S), NEW t \in Seq(S)
  PROVE  Includes(s \o t, s)
<1>1. /\ s \o t \in Seq(S) /\ Len(s \o t) = Len(s) + Len(t)
      /\ \A i \in 1..Len(s) : (s \o t)[i] = s[i]
  BY ConcatProperties, LenProperties
<1>2. StandsAt(s \o t, s, 0)
  BY <1>1, LenProperties DEF StandsAt
<1>3. \E k \in Int : StandsAt(s \o t, s, k)
  BY <1>2
<1> QED BY <1>1, <1>3, IncludesIs

(* A finite set of numbers that is not empty has a smallest and, if it is   *)
(* bounded, a largest.                                                      *)
LEMMA Smallest ==
  ASSUME NEW A \in SUBSET Nat, A # {}
  PROVE  \E k \in A : \A l \in A : k <= l
<1>1. PICK k \in A : \A l \in A : ~(<<l, k>> \in OpToRel(<, Nat))
  BY NatLessThanWellFounded, WFMin
<1>2. \A l \in A : k <= l
  <2> TAKE l \in A
  <2>1. l < k => <<l, k>> \in OpToRel(<, Nat)
    BY DEF OpToRel
  <2>2. ~(l < k)
    BY <1>1, <2>1, Zenon
  <2> QED BY <2>2
<1> QED BY <1>2

LEMMA Largest ==
  ASSUME NEW A \in SUBSET Nat, A # {}, NEW n \in Nat, \A x \in A : x <= n
  PROVE  Max(A) \in A /\ \A y \in A : y <= Max(A)
<1> DEFINE B == {k \in 0..n : n - k \in A}
<1>1. B \in SUBSET Nat /\ B # {}
  <2> PICK x \in A : TRUE
    OBVIOUS
  <2>1. n - x \in 0..n /\ n - (n - x) = x
    OBVIOUS
  <2> QED BY <2>1
<1>2. PICK k \in B : \A l \in B : k <= l
  <2> HIDE DEF B
  <2> QED BY <1>1, Smallest
<1>3. \A y \in A : n - k >= y
  <2> TAKE y \in A
  <2>1. n - y \in 0..n /\ n - (n - y) = y
    OBVIOUS
  <2>2. n - y \in B
    BY <2>1
  <2>3. k <= n - y
    BY <1>2, <2>2
  <2> QED BY <2>3
<1>4. \E x \in A : \A y \in A : x >= y
  BY <1>3
<1>5. Max(A) \in A /\ \A y \in A : Max(A) >= y
  BY <1>4, Zenon DEF Max
<1> QED BY <1>5

(* A merge of two texts contains both.                                      *)
LEMMA MergeIncludes ==
  ASSUME NEW S, NEW p \in Seq(S), NEW n \in Seq(S)
  PROVE  /\ MergeStreamingText(p, n) \in Seq(S)
         /\ Includes(MergeStreamingText(p, n), p)
         /\ Includes(MergeStreamingText(p, n), n)
<1>0. Len(p) \in Nat /\ Len(n) \in Nat
  BY LenProperties
<1>1. CASE n = <<>>
  BY <1>1, IncludesBasics DEF MergeStreamingText
<1>2. CASE n # <<>> /\ (p = <<>> \/ Includes(n, p))
  <2>1. MergeStreamingText(p, n) = n
    BY <1>2 DEF MergeStreamingText
  <2> QED BY <1>2, <2>1, IncludesBasics
<1>3. CASE n # <<>> /\ p # <<>> /\ ~Includes(n, p) /\ Includes(p, n)
  <2>1. MergeStreamingText(p, n) = p
    BY <1>3 DEF MergeStreamingText
  <2> QED BY <1>3, <2>1, IncludesBasics
<1>4. CASE n # <<>> /\ p # <<>> /\ ~Includes(n, p) /\ ~Includes(p, n)
  <2> DEFINE A == Overlaps(p, n) \cup {0}
  <2> PICK m : m = Max(A)
    OBVIOUS
  <2> PICK rest : rest = SubSeq(n, m + 1, Len(n))
    OBVIOUS
  <2>0. rest = SubSeq(n, m + 1, Len(n))
    OBVIOUS
  <2>1. MergeStreamingText(p, n) = p \o rest
    BY <1>4 DEF MergeStreamingText
  <2>2. m \in A
    <3>1. A \in SUBSET Nat /\ A # {} /\ \A x \in A : x <= Len(n)
      BY <1>0 DEF Overlaps
    <3> HIDE DEF A
    <3> QED BY <1>0, <3>1, Largest
  <2>3. m \in 0..Len(n) /\ m <= Len(p)
    <3>1. m = 0 \/ (m \in 1..Len(n) /\ m <= Len(p))
      BY <2>2 DEF Overlaps
    <3> QED BY <1>0, <3>1
  <2>10. m \in Overlaps(p, n) \/ m = 0
    BY <2>2
  <2> HIDE DEF A
  <2>4. \A i \in 1..m : p[Len(p) - m + i] = n[i]
    <3> TAKE i \in 1..m
    <3>0. m # 0
      BY <2>3
    <3>1. SubSeq(p, Len(p) - m + 1, Len(p)) = SubSeq(n, 1, m)
      BY <2>10, <3>0 DEF Overlaps
    <3>2. SubSeq(p, Len(p) - m + 1, Len(p))[i] = p[(Len(p) - m + 1) + i - 1]
      <4>1. i \in 1..(Len(p) - (Len(p) - m + 1) + 1)
        BY <1>0, <2>3
      <4>2. Len(p) - m + 1 \in Int /\ 1 <= Len(p) - m + 1
        BY <1>0, <2>3
      <4> QED BY <1>0, <4>1, <4>2, PartOf
    <3>3. SubSeq(n, 1, m)[i] = n[1 + i - 1]
      BY <1>0, <2>3, PartOf
    <3>4. (Len(p) - m + 1) + i - 1 = Len(p) - m + i /\ 1 + i - 1 = i
      BY <1>0, <2>3
    <3> QED BY <3>1, <3>2, <3>3, <3>4
  <2>5. /\ rest \in Seq(S) /\ Len(rest) = Len(n) - m
        /\ \A i \in 1..(Len(n) - m) : rest[i] = n[m + i]
    <3>1. /\ rest \in Seq(S)
          /\ Len(rest) = IF m + 1 <= Len(n) THEN Len(n) - (m + 1) + 1 ELSE 0
          /\ \A i \in 1..(Len(n) - (m + 1) + 1) : rest[i] = n[(m + 1) + i - 1]
      <4>1. m + 1 \in Int /\ Len(n) \in Int /\ 1 <= m + 1 /\ Len(n) <= Len(n)
        BY <1>0, <2>3
      <4> QED BY <2>0, <4>1, PartOf
    <3>2. \A i \in 1..(Len(n) - m) : (m + 1) + i - 1 = m + i
      BY <2>3
    <3>3. Len(n) - (m + 1) + 1 = Len(n) - m /\ (m + 1 > Len(n) => Len(n) - m = 0)
      BY <1>0, <2>3
    <3>4. Len(rest) = Len(n) - m
      BY <1>0, <2>3, <3>1, <3>3
    <3> QED BY <3>1, <3>2, <3>3, <3>4
  <2>6. /\ p \o rest \in Seq(S) /\ Len(p \o rest) = Len(p) + (Len(n) - m)
        /\ \A i \in 1..(Len(p) + Len(rest)) :
             (p \o rest)[i] = IF i <= Len(p) THEN p[i] ELSE rest[i - Len(p)]
    <3>1. /\ p \o rest \in Seq(S) /\ Len(p \o rest) = Len(p) + Len(rest)
          /\ \A i \in 1..(Len(p) + Len(rest)) :
               (p \o rest)[i] = IF i <= Len(p) THEN p[i] ELSE rest[i - Len(p)]
      BY <2>5, ConcatProperties
    <3>2. Len(p) + Len(rest) = Len(p) + (Len(n) - m)
      BY <1>0, <2>3, <2>5
    <3> QED BY <3>1, <3>2, Zenon
  <2>7. StandsAt(p \o rest, n, Len(p) - m)
    <3>1. Len(p) - m \in 0..(Len(p \o rest) - Len(n))
      BY <1>0, <2>3, <2>6
    <3>2. ASSUME NEW i \in 1..Len(n) PROVE (p \o rest)[(Len(p) - m) + i] = n[i]
      <4>1. (Len(p) - m) + i \in 1..(Len(p) + Len(rest))
        BY <1>0, <2>3, <2>5
      <4>2. CASE i <= m
        <5>1. (Len(p) - m) + i <= Len(p) /\ i \in 1..m
          BY <1>0, <2>3, <4>2
        <5> QED BY <2>4, <2>6, <4>1, <5>1
      <4>3. CASE ~(i <= m)
        <5>1. ~((Len(p) - m) + i <= Len(p)) /\ i - m \in 1..(Len(n) - m)
          BY <1>0, <2>3, <4>3
        <5>2. ((Len(p) - m) + i) - Len(p) = i - m /\ m + (i - m) = i
          BY <1>0, <2>3
        <5> QED BY <2>5, <2>6, <4>1, <5>1, <5>2
      <4> QED BY <4>2, <4>3
    <3> QED BY <3>1, <3>2 DEF StandsAt
  <2>8. Includes(p \o rest, n)
    <3>1. Len(p) - m \in Int
      BY <1>0, <2>3
    <3>2. \E k \in Int : StandsAt(p \o rest, n, k)
      BY <2>7, <3>1
    <3> QED BY <2>6, <3>2, IncludesIs
  <2>9. Includes(p \o rest, p)
    BY <2>5, IncludesFront
  <2> QED BY <2>1, <2>6, <2>8, <2>9
<1> QED BY <1>1, <1>2, <1>3, <1>4
(* Texts that are joined are a text.                                        *)
FlattensUpTo(q, f, k) == \A i \in 1..k : f[i] = IF i = 1 THEN q[i] ELSE f[i - 1] \o q[i]

LEMMA FlattenExists ==
  ASSUME NEW q, NEW n \in Nat
  PROVE  \E f : f = [i \in 1..n |-> IF i = 1 THEN q[i] ELSE f[i - 1] \o q[i]]
<1> DEFINE A == {k \in 0..n : \A f : ~FlattensUpTo(q, f, k)}
<1>1. A = {}
  <2> SUFFICES ASSUME A # {} PROVE FALSE
    OBVIOUS
  <2>1. PICK k \in A : \A l \in A : k <= l
    <3>1. A \in SUBSET Nat
      OBVIOUS
    <3> HIDE DEF A
    <3> QED BY <3>1, Smallest, Zenon
  <2>2. k \in 0..n /\ \A f : ~FlattensUpTo(q, f, k)
    OBVIOUS
  <2>3. k # 0
    BY <2>2 DEF FlattensUpTo
  <2>4. k - 1 \in 0..n /\ k - 1 \notin A
    <3>1. k - 1 \in 0..n /\ ~(k <= k - 1)
      BY <2>2, <2>3
    <3> HIDE DEF A
    <3> QED BY <2>1, <3>1, Zenon
  <2>5. PICK f : FlattensUpTo(q, f, k - 1)
    BY <2>4
  <2> PICK g : g = [i \in 1..k |-> IF i # k THEN f[i]
                                   ELSE IF k = 1 THEN q[k] ELSE f[k - 1] \o q[k]]
    OBVIOUS
  <2>6. FlattensUpTo(q, g, k)
    <3> SUFFICES ASSUME NEW i \in 1..k
                 PROVE  g[i] = IF i = 1 THEN q[i] ELSE g[i - 1] \o q[i]
      BY DEF FlattensUpTo
    <3>1. i # 1 => i - 1 \in 1..k /\ i - 1 # k /\ g[i - 1] = f[i - 1]
      BY <2>2
    <3>2. CASE i = k
      BY <3>1, <3>2
    <3>3. CASE i # k
      <4>1. i \in 1..(k - 1) /\ g[i] = f[i]
        BY <2>2, <3>3
      <4>2. f[i] = IF i = 1 THEN q[i] ELSE f[i - 1] \o q[i]
        BY <2>5, <4>1 DEF FlattensUpTo
      <4> QED BY <3>1, <4>1, <4>2
    <3> QED BY <3>2, <3>3
  <2> QED BY <2>2, <2>6
<1>2. PICK f : FlattensUpTo(q, f, n)
  <2>1. n \in 0..n /\ n \notin A
    <3>1. n \in 0..n
      OBVIOUS
    <3> HIDE DEF A
    <3> QED BY <1>1, <3>1
  <2> QED BY <2>1
<1>5. PICK h : h = [i \in 1..n |-> f[i]]
  OBVIOUS
<1>3. \A i \in 1..n : h[i] = IF i = 1 THEN q[i] ELSE h[i - 1] \o q[i]
  <2> TAKE i \in 1..n
  <2>1. h[i] = f[i] /\ (i # 1 => h[i - 1] = f[i - 1])
    BY <1>5
  <2>2. f[i] = IF i = 1 THEN q[i] ELSE f[i - 1] \o q[i]
    BY <1>2 DEF FlattensUpTo
  <2> QED BY <2>1, <2>2
<1>4. h = [i \in 1..n |-> IF i = 1 THEN q[i] ELSE h[i - 1] \o q[i]]
  BY <1>3, <1>5
<1> QED BY <1>4, Zenon

LEMMA FlattenTyped ==
  ASSUME NEW S, NEW q \in Seq(Seq(S))
  PROVE  FlattenSeq(q) \in Seq(S)
<1>0. Len(q) \in Nat /\ \A i \in 1..Len(q) : q[i] \in Seq(S)
  BY ElementOfSeq, LenProperties
<1>1. CASE Len(q) = 0
  BY <1>1 DEF FlattenSeq
<1>2. CASE Len(q) # 0
  <2> PICK n : n = Len(q)
    OBVIOUS
  <2>7. PICK t : t = CHOOSE f : f = [i \in 1..n |-> IF i = 1 THEN q[i] ELSE f[i - 1] \o q[i]]
    OBVIOUS
  <2>0. n \in Nat /\ n # 0 /\ \A i \in 1..n : q[i] \in Seq(S)
    BY <1>0, <1>2
  <2>1. FlattenSeq(q) = t[n]
    BY <1>2, <2>7 DEF FlattenSeq
  <2>2. t = [i \in 1..n |-> IF i = 1 THEN q[i] ELSE t[i - 1] \o q[i]]
    BY <2>0, <2>7, FlattenExists
  <2>3. \A i \in 1..n : t[i] = IF i = 1 THEN q[i] ELSE t[i - 1] \o q[i]
    BY <2>2
  <2> DEFINE A == {i \in 1..n : t[i] \notin Seq(S)}
  <2>4. A = {}
    <3> SUFFICES ASSUME A # {} PROVE FALSE
      OBVIOUS
    <3>1. PICK k \in A : \A l \in A : k <= l
      <4>1. A \in SUBSET Nat
        OBVIOUS
      <4> HIDE DEF A
      <4> QED BY <4>1, Smallest, Zenon
    <3>2. k \in 1..n /\ t[k] \notin Seq(S)
      OBVIOUS
    <3>3. t[k] = (IF k = 1 THEN q[k] ELSE t[k - 1] \o q[k]) /\ q[k] \in Seq(S)
      BY <2>0, <2>3, <3>2
    <3>4. k # 1
      BY <3>2, <3>3
    <3>5. k - 1 \in 1..n /\ ~(k <= k - 1)
      BY <2>0, <3>2, <3>4
    <3>6. t[k - 1] \in Seq(S)
      <4>1. k - 1 \notin A
        <5> HIDE DEF A
        <5> QED BY <3>1, <3>5, Zenon
      <4> QED BY <3>5, <4>1
    <3>7. t[k - 1] \o q[k] \in Seq(S)
      BY <3>3, <3>6, ConcatProperties
    <3> QED BY <3>2, <3>3, <3>4, <3>7, Zenon
  <2>5. n \in 1..n
    BY <2>0
  <2>6. t[n] \in Seq(S)
    BY <2>4, <2>5
  <2> QED BY <2>1, <2>6
<1> QED BY <1>1, <1>2

LEMMA JoinedTyped == ASSUME said \in Seq(Texts) PROVE Joined \in Texts
<1>1. Len(said) \in Nat /\ \A k \in 1..Len(said) : said[k] \in Texts
  BY ElementOfSeq, LenProperties
<1>2. <<Separator>> \in Texts
  BY ReplyAssumption DEF Texts
<1>3. \A k \in 1..Len(said) : <<Separator>> \o said[k] \in Texts
  BY <1>1, <1>2, ConcatProperties DEF Texts
<1>4. [k \in 1..Len(said) |-> IF k = 1 THEN said[k] ELSE <<Separator>> \o said[k]] \in Seq(Texts)
  BY <1>1, <1>3
<1> QED BY <1>4, FlattenTyped DEF Joined, Texts

LEMMA ChunksTyped ==
  ASSUME NEW t \in Texts
  PROVE  Chunks(t) \in Seq(Texts) /\ Chunks(t) # <<>>
<1>1. Len(t) \in Nat /\ ChunkLength \in Nat
  BY ReplyAssumption, LenProperties DEF Texts
<1>2. CASE Len(t) <= ChunkLength
  BY <1>2 DEF Chunks
<1>3. CASE ~(Len(t) <= ChunkLength)
  <2>1. SubSeq(t, 1, ChunkLength) \in Texts /\ SubSeq(t, ChunkLength + 1, Len(t)) \in Texts
    BY <1>1, <1>3, PartOf DEF Texts
  <2>2. Chunks(t) = <<SubSeq(t, 1, ChunkLength), SubSeq(t, ChunkLength + 1, Len(t))>>
    BY <1>3 DEF Chunks
  <2> QED BY <2>1, <2>2
<1> QED BY <1>2, <1>3

LEMMA WordsTyped == Words \in Seq(Texts) /\ Words # <<>>
BY ReplyAssumption DEF Words, Texts
-----------------------------------------------------------------------------
(* Cards                                                                    *)

Characters == Tokens \cup {Thinking}
LEMMA ShownTyped ==
  ASSUME NEW t \in Shown
  PROVE  t \in Seq(Characters) /\ (t \in Texts \/ t = <<Thinking>>)
<1>1. CASE t = <<Thinking>>
  BY <1>1 DEF Characters
<1>2. CASE t \in Texts
  BY <1>2, SeqMonotonic DEF Texts, Characters
<1> QED BY <1>1, <1>2 DEF Shown

LEMMA NoPlaceholder == ASSUME NEW t \in Texts PROVE t # <<Thinking>>
<1> SUFFICES ASSUME t = <<Thinking>> PROVE FALSE
  OBVIOUS
<1>1. Len(t) = 1 /\ t[1] = Thinking
  OBVIOUS
<1>2. t[1] \in Tokens
  BY <1>1, ElementOfSeq DEF Texts
<1> QED BY <1>1, <1>2, ReplyAssumption

LEMMA PlaceholderHasNothing ==
  ASSUME NEW t \in Texts, Includes(<<Thinking>>, t)
  PROVE  t = <<>>
<1> SUFFICES ASSUME t # <<>> PROVE FALSE
  OBVIOUS
<1>1. <<Thinking>> \in Seq(Characters) /\ t \in Seq(Characters)
  BY ShownTyped DEF Shown
<1>2. PICK k \in Int : StandsAt(<<Thinking>>, t, k)
  BY <1>1, IncludesIs
<1>3. Len(t) \in Nat /\ Len(t) # 0
  BY TextTyped DEF Texts
<1>4. Len(<<Thinking>>) = 1
  OBVIOUS
<1>5. k = 0 /\ Len(t) = 1
  <2>1. k \in 0..(1 - Len(t))
    BY <1>2, <1>4 DEF StandsAt
  <2>2. PICK n \in Nat : n = Len(t)
    BY <1>3
  <2>3. n # 0 /\ k \in 0..(1 - n)
    BY <1>3, <2>1, <2>2, Zenon
  <2>4. k = 0 /\ n = 1
    BY ONLY n \in Nat, k \in Int, <2>3
  <2> QED BY <2>2, <2>4, Zenon
<1>6. <<Thinking>>[0 + 1] = t[1]
  BY <1>2, <1>5 DEF StandsAt
<1>7. t[1] = Thinking
  BY <1>6
<1>8. t[1] \in Tokens
  BY <1>5, ElementOfSeq DEF Texts
<1> QED BY <1>7, <1>8, ReplyAssumption

LEMMA BaseTyped ==
  ASSUME NEW c \in Messages
  PROVE  /\ BaseText(c) \in Texts
         /\ c.known \in Texts => BaseText(c) = c.known
         /\ c.known \notin Texts => BaseText(c) = <<>>
<1>1. c.known \in Shown
  BY DEF Messages
<1>2. <<>> \in Texts
  BY DEF Texts
<1>3. c.known \in Texts => c.known # <<Thinking>>
  BY NoPlaceholder
<1> QED BY <1>1, <1>2, <1>3, ShownTyped DEF BaseText

LEMMA NextTyped ==
  ASSUME NEW c \in Messages, c.links # <<>>
  PROVE  /\ Head(c.links) \in Links /\ Tail(c.links) \in Seq(Links)
         /\ NextText(c) \in Texts
         /\ Includes(NextText(c), BaseText(c))
         /\ Includes(NextText(c), Head(c.links).text)
<1>1. c.links \in Seq(Links)
  BY DEF Messages
<1>2. Head(c.links) \in Links /\ Tail(c.links) \in Seq(Links)
  BY <1>1, HeadTailProperties
<1>3. Head(c.links).text \in Texts
  BY <1>2 DEF Links
<1> QED BY <1>2, <1>3, BaseTyped, MergeIncludes DEF NextText, Texts

(* What may become of a message in one step: its text grows, unless it is   *)
(* the placeholder, and so does what the client believes it is.             *)
Grows(c, d) == c.text = <<Thinking>> \/ Includes(d.text, c.text)
Kept(c, d) ==
  /\ d \in Messages /\ CardInv(d)
  /\ Grows(c, d)
  /\ Includes(BaseText(d), BaseText(c))
  /\ d.number >= c.number
  /\ d.open => c.open

LEMMA KeptSelf ==
  ASSUME NEW c \in Messages, CardInv(c), NEW d \in Messages,
         d.text = c.text, d.known = c.known, d.number = c.number, d.open => c.open,
         CardInv(d)
  PROVE  Kept(c, d)
<1>1. Includes(d.text, c.text)
  <2>1. c.text \in Seq(Characters)
    BY ShownTyped DEF Messages
  <2> QED BY <2>1, IncludesBasics
<1>2. Includes(BaseText(d), BaseText(c))
  <2>1. BaseText(d) = BaseText(c)
    BY DEF BaseText
  <2> QED BY <2>1, BaseTyped, IncludesBasics DEF Texts
<1>3. d.number >= c.number
  BY DEF Messages
<1> QED BY <1>1, <1>2, <1>3 DEF Kept, Grows

LEMMA ShownStays ==
  ASSUME NEW c \in Messages, NEW d \in Messages, Grows(c, d), NEW t \in Texts,
         Includes(c.text, t)
  PROVE  Includes(d.text, t)
<1>1. c.text \in Seq(Characters) /\ d.text \in Seq(Characters) /\ t \in Seq(Characters)
  BY ShownTyped DEF Messages, Shown
<1>2. CASE c.text = <<Thinking>>
  <2>1. t = <<>>
    BY <1>2, PlaceholderHasNothing
  <2> QED BY <1>1, <2>1, IncludesBasics
<1>3. CASE Includes(d.text, c.text)
  BY <1>1, <1>3, IncludesTrans
<1> QED BY <1>2, <1>3 DEF Grows

LEMMA BaseStays ==
  ASSUME NEW c \in Messages, NEW d \in Messages, Kept(c, d), NEW t \in Texts,
         Includes(BaseText(c), t)
  PROVE  Includes(BaseText(d), t)
BY BaseTyped, IncludesTrans DEF Kept, Texts


LEMMA LinkAdded ==
  ASSUME NEW c \in Messages, CardInv(c), NEW by \in {"stream", "run"}, NEW t \in Texts,
         NEW d, d = WithLink(c, by, t)
  PROVE  /\ d \in Messages /\ Kept(c, d)
         /\ d.seq = c.seq /\ d.number = c.number /\ d.open = c.open /\ d.put = c.put
         /\ Carries(d, t)
         /\ \A u \in Texts : Carries(c, u) => Carries(d, u)
         /\ \A k \in 1..Len(d.links) :
              d.links[k].by = by \/ \E l \in 1..Len(c.links) : c.links[l].by = d.links[k].by
<1> DEFINE m == MergeStreamingText(BaseText(c), t)
           link == [by |-> by, text |-> m]
<1>1. /\ BaseText(c) \in Texts /\ m \in Texts
      /\ Includes(m, BaseText(c)) /\ Includes(m, t)
  BY BaseTyped, MergeIncludes DEF Texts
<1>2. c.links \in Seq(Links) /\ link \in Links
  BY <1>1 DEF Messages, Links
<1>3. CASE m = BaseText(c)
  <2>1. d = c
    BY <1>3 DEF WithLink
  <2>2. Kept(c, c)
    BY KeptSelf
  <2>3. Carries(c, t)
    BY <1>1, <1>3 DEF Carries
  <2> HIDE DEF m
  <2> QED BY <2>1, <2>2, <2>3
<1>4. CASE m # BaseText(c)
  <2>1. d = [c EXCEPT !.links = Append(c.links, link)]
    BY <1>4 DEF WithLink
  <2> HIDE DEF m
  <2> PICK q : q = Append(c.links, link)
    OBVIOUS
  <2>2. /\ q \in Seq(Links) /\ q # <<>> /\ Len(q) = Len(c.links) + 1 /\ Len(c.links) \in Nat
        /\ \A k \in 1..Len(c.links) : q[k] = c.links[k]
        /\ q[Len(c.links) + 1] = link
    BY <1>2, AppendProperties, LenProperties
  <2>3. /\ d \in Messages /\ d.links = q /\ d.text = c.text /\ d.known = c.known
        /\ d.seq = c.seq /\ d.number = c.number /\ d.open = c.open /\ d.put = c.put
    BY <2>1, <2>2 DEF Messages
  <2>4. CardInv(d)
    BY <2>2, <2>3 DEF CardInv
  <2>5. Kept(c, d)
    BY <2>3, <2>4, KeptSelf
  <2>6. Carries(d, t)
    <3>1. Len(c.links) + 1 \in 1..Len(d.links) /\ d.links[Len(c.links) + 1].text = m
      BY <2>2, <2>3
    <3> QED BY <1>1, <3>1 DEF Carries
  <2>7. ASSUME NEW u \in Texts, Carries(c, u) PROVE Carries(d, u)
    <3>1. BaseText(d) = BaseText(c)
      BY <2>3 DEF BaseText
    <3>2. \A k \in 1..Len(c.links) : k \in 1..Len(d.links) /\ d.links[k] = c.links[k]
      BY <2>2, <2>3
    <3> QED BY <2>7, <3>1, <3>2 DEF Carries
  <2>8. ASSUME NEW k \in 1..Len(d.links)
        PROVE  d.links[k].by = by \/ \E l \in 1..Len(c.links) : c.links[l].by = d.links[k].by
    <3>1. CASE k = Len(c.links) + 1
      BY <2>2, <2>3, <3>1
    <3>2. CASE k # Len(c.links) + 1
      <4>1. k \in 1..Len(c.links) /\ d.links[k] = c.links[k]
        BY <2>2, <2>3, <3>2
      <4> QED BY <4>1
    <3> QED BY <3>1, <3>2
  <2> QED BY <2>3, <2>5, <2>6, <2>7, <2>8
<1> QED BY <1>3, <1>4

(* The head of the queue hands its words on to the text.                    *)
LEMMA WordsOfFirst ==
  ASSUME NEW c \in Messages, c.links # <<>>, NEW u \in Texts, Carries(c, u),
         NEW d \in Messages, d.known = NextText(c), d.links = Tail(c.links)
  PROVE  Carries(d, u)
<1>1. /\ NextText(c) \in Texts /\ BaseText(d) = NextText(c)
      /\ Head(c.links).text \in Texts /\ BaseText(c) \in Texts
  BY NextTyped, BaseTyped DEF Links
<1>2. c.links \in Seq(Links)
  BY DEF Messages
<1>3. CASE Includes(BaseText(c), u)
  <2>1. Includes(NextText(c), u)
    BY <1>1, <1>3, NextTyped, IncludesTrans DEF Texts
  <2> QED BY <1>1, <2>1 DEF Carries
<1>4. ASSUME NEW k \in 1..Len(c.links), Includes(c.links[k].text, u)
      PROVE  Carries(d, u)
  <2>1. CASE k = 1
    <3>1. Head(c.links) = c.links[1]
      BY <1>2
    <3>2. Includes(NextText(c), u)
      BY <1>1, <1>4, <2>1, <3>1, NextTyped, IncludesTrans DEF Texts
    <3> QED BY <1>1, <3>2 DEF Carries
  <2>2. CASE k # 1
    <3>1. k - 1 \in 1..Len(d.links) /\ d.links[k - 1] = c.links[k]
      <4>1. /\ Len(Tail(c.links)) = Len(c.links) - 1 /\ Len(c.links) \in Nat
            /\ \A i \in 1..Len(Tail(c.links)) : Tail(c.links)[i] = c.links[i + 1]
        BY <1>2, HeadTailProperties, LenProperties
      <4>2. k - 1 \in 1..Len(Tail(c.links)) /\ (k - 1) + 1 = k
        BY <2>2, <4>1
      <4> QED BY <4>1, <4>2
    <3>2. Includes(d.links[k - 1].text, u)
      BY <1>4, <3>1
    <3> QED BY <3>1, <3>2 DEF Carries
  <2> QED BY <2>1, <2>2
<1> QED BY <1>3, <1>4 DEF Carries

(* What is left of a queue was in it.                                       *)
LEMMA LinksLeft ==
  ASSUME NEW q \in Seq(Links), q # <<>>
  PROVE  \A k \in 1..Len(Tail(q)) : \E l \in 1..Len(q) : q[l] = Tail(q)[k]
<1> TAKE k \in 1..Len(Tail(q))
<1>1. /\ Len(Tail(q)) = Len(q) - 1 /\ Len(q) \in Nat
      /\ \A i \in 1..Len(Tail(q)) : Tail(q)[i] = q[i + 1]
  BY HeadTailProperties, LenProperties
<1>2. k + 1 \in 1..Len(q) /\ q[k + 1] = Tail(q)[k]
  BY <1>1
<1> QED BY <1>2

LEMMA WriteQueued ==
  ASSUME NEW c \in Messages, CardInv(c), c.links # <<>>, c.put = 0, NEW d, d = Queued(c)
  PROVE  /\ d \in Messages /\ Kept(c, d)
         /\ d.seq = c.seq /\ d.number = c.number /\ d.open = c.open
         /\ d.put \in {0, c.number + 1}
         /\ \A u \in Texts : Carries(c, u) => Carries(d, u)
         /\ \A k \in 1..Len(d.links) : \E l \in 1..Len(c.links) : c.links[l] = d.links[k]
<1>1. c.links \in Seq(Links) /\ Tail(c.links) \in Seq(Links) /\ c.number \in Nat /\ c.seq \in Nat
  BY NextTyped DEF Messages
<1>2. CASE NextText(c) = c.known
  <2>1. d = [c EXCEPT !.links = Tail(c.links)]
    BY <1>2 DEF Queued
  <2>2. /\ d \in Messages /\ d.links = Tail(c.links) /\ d.text = c.text /\ d.known = c.known
        /\ d.seq = c.seq /\ d.number = c.number /\ d.open = c.open /\ d.put = 0
    BY <1>1, <2>1 DEF Messages
  <2>3. CardInv(d)
    BY <2>2 DEF CardInv
  <2>4. Kept(c, d)
    BY <2>2, <2>3, KeptSelf
  <2>5. \A u \in Texts : Carries(c, u) => Carries(d, u)
    BY <1>2, <2>2, WordsOfFirst
  <2>6. \A k \in 1..Len(d.links) : \E l \in 1..Len(c.links) : c.links[l] = d.links[k]
    BY <1>1, <2>2, LinksLeft
  <2> QED BY <2>2, <2>4, <2>5, <2>6
<1>3. CASE NextText(c) # c.known
  <2>1. d = [c EXCEPT !.put = c.number + 1]
    BY <1>3 DEF Queued
  <2>2. /\ d \in Messages /\ d.links = c.links /\ d.text = c.text /\ d.known = c.known
        /\ d.seq = c.seq /\ d.number = c.number /\ d.open = c.open /\ d.put = c.number + 1
    BY <1>1, <2>1 DEF Messages
  <2>3. CardInv(d)
    BY <1>1, <2>2 DEF CardInv
  <2>4. Kept(c, d)
    BY <2>2, <2>3, KeptSelf
  <2>5. \A u \in Texts : Carries(c, u) => Carries(d, u)
    <3>1. BaseText(d) = BaseText(c)
      BY <2>2 DEF BaseText
    <3> QED BY <2>2, <3>1 DEF Carries
  <2>6. \A k \in 1..Len(d.links) : \E l \in 1..Len(c.links) : c.links[l] = d.links[k]
    BY <2>2
  <2> QED BY <2>2, <2>4, <2>5, <2>6
<1> QED BY <1>2, <1>3

(* A write that ends.  Unless it fails, nothing is taken from the words the *)
(* card is to have.                                                         *)
LEMMA WriteDone ==
  ASSUME NEW c \in Messages, CardInv(c), c.put > 0, NEW o, NEW d, d = Written(c, o)
  PROVE  /\ d \in Messages /\ Kept(c, d) /\ d.open = c.open
         /\ ~Fails(c, o) => \A u \in Texts : Carries(c, u) => Carries(d, u)
         /\ o = "ok" /\ c.seq = c.number /\ c.put = c.number + 1 =>
              ~Fails(c, o) /\ d.seq = d.number /\ d.put = 0
         /\ \A k \in 1..Len(d.links) : \E l \in 1..Len(c.links) : c.links[l] = d.links[k]
<1> PICK n : n = NextText(c)
  OBVIOUS
<1>0. c.links # <<>>
  BY DEF CardInv
<1>1. /\ c.links \in Seq(Links) /\ Tail(c.links) \in Seq(Links)
      /\ n \in Texts /\ n \in Shown /\ Includes(n, BaseText(c))
  BY <1>0, NextTyped DEF Messages, Shown
<1>5. PICK e : e = <<>> /\ e \in Seq(Links)
  BY EmptySeq
<1>2. /\ c.number \in Nat /\ c.seq \in Nat /\ c.put \in Nat /\ c.text \in Shown
      /\ c.open \in BOOLEAN /\ c.known \in Shown
  BY DEF Messages
<1>3. CASE o # "refused" /\ c.put > c.seq
  <2>1. c.put = c.number + 1 /\ c.seq = c.number /\ c.text = c.known
    BY <1>2, <1>3 DEF CardInv
  <2>2. Grows(c, [c EXCEPT !.text = n])
    <3>1. CASE c.text = <<Thinking>>
      BY <3>1 DEF Grows
    <3>2. CASE c.text # <<Thinking>>
      <4>1. BaseText(c) = c.text
        BY <2>1, <3>2 DEF BaseText
      <4> QED BY <1>1, <4>1 DEF Grows, Messages
    <3> QED BY <3>1, <3>2
  <2>3. CASE o = "ok"
    <3>1. d = [c EXCEPT !.text = n, !.seq = c.put, !.known = n, !.number = c.put,
                        !.links = Tail(c.links), !.put = 0]
      BY <1>3, <2>3 DEF Written
    <3>2. /\ d \in Messages /\ d.links = Tail(c.links) /\ d.text = n /\ d.known = n
          /\ d.seq = c.put /\ d.number = c.put /\ d.open = c.open /\ d.put = 0
      BY ONLY c \in Messages, <1>1, <1>2, <1>5, <3>1 DEF Messages
    <3>3. CardInv(d)
      BY <1>2, <3>2 DEF CardInv
    <3>4. BaseText(d) = n
      BY <1>1, <3>2, BaseTyped
    <3>5. Kept(c, d)
      <4>1. Grows(c, d)
        BY <2>2, <3>2 DEF Grows, Messages
      <4>2. d.number >= c.number
        BY <1>2, <2>1, <3>2
      <4> QED BY <1>1, <3>2, <3>3, <3>4, <4>1, <4>2 DEF Kept
    <3>6. \A u \in Texts : Carries(c, u) => Carries(d, u)
      BY <1>0, <3>2, WordsOfFirst
    <3>7. ~Fails(c, o) /\ d.seq = d.number /\ d.put = 0
      BY <1>2, <1>3, <2>3, <3>2 DEF Fails
    <3>8. \A k \in 1..Len(d.links) : \E l \in 1..Len(c.links) : c.links[l] = d.links[k]
      BY <1>0, <1>1, <3>2, LinksLeft
    <3> QED BY <3>2, <3>5, <3>6, <3>7, <3>8
  <2>4. CASE o # "ok"
    <3>1. d = [c EXCEPT !.text = n, !.seq = c.put, !.links = e, !.put = 0]
      BY <1>3, <1>5, <2>4, Zenon DEF Written
    <3>2. /\ d \in Messages /\ d.links = e /\ d.text = n /\ d.known = c.known
          /\ d.seq = c.put /\ d.number = c.number /\ d.open = c.open /\ d.put = 0
      BY ONLY c \in Messages, <1>1, <1>2, <1>5, <3>1 DEF Messages
    <3>3. CardInv(d)
      BY <1>2, <2>1, <3>2 DEF CardInv
    <3>4. BaseText(d) = BaseText(c)
      BY <3>2 DEF BaseText
    <3>5. Kept(c, d)
      <4>1. Grows(c, d)
        BY <2>2, <3>2 DEF Grows, Messages
      <4>2. d.number >= c.number
        BY <1>2, <3>2
      <4>3. Includes(BaseText(d), BaseText(c))
        BY <3>4, BaseTyped, IncludesBasics DEF Texts
      <4> QED BY <3>2, <3>3, <4>1, <4>2, <4>3 DEF Kept
    <3>6. Fails(c, o)
      BY <2>4 DEF Fails
    <3>7. Len(d.links) = 0
      BY <1>5, <3>2
    <3> QED BY <2>4, <3>2, <3>5, <3>6, <3>7
  <2> QED BY <2>3, <2>4
<1>4. CASE ~(o # "refused" /\ c.put > c.seq)
  <2>1. d = [c EXCEPT !.links = e, !.put = 0]
    BY <1>4, <1>5, Zenon DEF Written
  <2>2. /\ d \in Messages /\ d.links = e /\ d.text = c.text /\ d.known = c.known
        /\ d.seq = c.seq /\ d.number = c.number /\ d.open = c.open /\ d.put = 0
    BY ONLY c \in Messages, <1>2, <1>5, <2>1 DEF Messages
  <2>3. CardInv(d)
    BY <1>2, <2>2 DEF CardInv
  <2>4. Kept(c, d)
    BY <2>2, <2>3, KeptSelf
  <2>5. Fails(c, o)
    BY <1>2, <1>4 DEF Fails
  <2>6. o = "ok" => ~(c.seq = c.number /\ c.put = c.number + 1)
    BY <1>2, <1>4
  <2>7. Len(d.links) = 0
    BY <1>5, <2>2
  <2> QED BY <2>2, <2>4, <2>5, <2>6, <2>7
<1> QED BY <1>3, <1>4

(* The closing of a card: done, or done and not known to be.                *)
LEMMA ClosingDone ==
  ASSUME NEW c \in Messages, CardInv(c), NEW put \in Nat,
         put <= c.number + 1, put > c.seq, NEW d,
         \/ d = [c EXCEPT !.open = FALSE, !.seq = put, !.number = put]
         \/ d = [c EXCEPT !.open = FALSE, !.seq = put]
  PROVE  /\ d \in Messages /\ Kept(c, d) /\ ~d.open /\ d.links = c.links
         /\ c.text = c.known /\ d.seq = put
<1>1. /\ c.number \in Nat /\ c.seq \in Nat /\ c.put \in Nat /\ c.text \in Shown
      /\ c.open \in BOOLEAN /\ c.known \in Shown
  BY DEF Messages
<1>2. put = c.number + 1 /\ c.seq = c.number /\ c.text = c.known
  BY <1>1 DEF CardInv
<1>3. /\ d \in Messages /\ d.links = c.links /\ d.text = c.text /\ d.known = c.known
      /\ d.seq = put /\ ~d.open /\ d.put = c.put /\ d.number \in {c.number, put}
  BY <1>1 DEF Messages
<1>4. CardInv(d)
  BY <1>1, <1>2, <1>3 DEF CardInv
<1>5. Includes(d.text, c.text)
  <2>1. c.text \in Seq(Characters)
    BY <1>1, ShownTyped
  <2> QED BY <1>3, <2>1, IncludesBasics
<1>6. BaseText(d) = BaseText(c)
  BY <1>3 DEF BaseText
<1>7. Includes(BaseText(d), BaseText(c))
  BY <1>6, BaseTyped, IncludesBasics DEF Texts
<1>8. d.number >= c.number
  BY <1>1, <1>2, <1>3
<1> QED BY <1>2, <1>3, <1>4, <1>5, <1>7, <1>8 DEF Kept, Grows

(* New messages.                                                            *)
LEMMA NewCard == Card \in Messages /\ CardInv(Card) /\ Card.seq = Card.number /\ Card.links = <<>>
BY DEF Card, Messages, Shown, CardInv

LEMMA NewPlain ==
  ASSUME NEW t \in Texts
  PROVE  /\ Plain(t) \in Messages /\ CardInv(Plain(t)) /\ Plain(t).seq = Plain(t).number
         /\ Plain(t).links = <<>> /\ ~Plain(t).open /\ Plain(t).text = t
BY DEF Plain, Messages, Shown, CardInv

LEMMA KeptTrans ==
  ASSUME NEW c \in Messages, NEW d \in Messages, NEW e \in Messages, Kept(c, d), Kept(d, e)
  PROVE  Kept(c, e)
<1>1. Includes(BaseText(e), BaseText(c))
  BY BaseTyped, BaseStays DEF Kept
<1>2. Grows(c, e)
  <2> SUFFICES ASSUME c.text # <<Thinking>> PROVE Includes(e.text, c.text)
    BY DEF Grows
  <2>1. c.text \in Texts
    BY ShownTyped DEF Messages
  <2>2. Includes(d.text, c.text)
    BY DEF Kept, Grows
  <2> QED BY <2>1, <2>2, ShownStays DEF Kept
<1>3. e.number >= c.number
  BY DEF Kept, Messages
<1> QED BY <1>1, <1>2, <1>3 DEF Kept

-----------------------------------------------------------------------------
(* The chat                                                                 *)

Sound(p) == p \in Seq(Messages) /\ \A i \in 1..Len(p) : CardInv(p[i])
Grown(p, q) ==
  /\ Sound(q) /\ Len(p) <= Len(q)
  /\ \A i \in 1..Len(p) : Kept(p[i], q[i])

LEMMA GrownSelf == ASSUME NEW p, Sound(p) PROVE Grown(p, p)
<1>1. \A i \in 1..Len(p) : p[i] \in Messages
  BY ElementOfSeq DEF Sound
<1>2. \A i \in 1..Len(p) : Kept(p[i], p[i])
  BY <1>1, KeptSelf DEF Sound
<1>3. Len(p) <= Len(p)
  BY LenProperties DEF Sound
<1> QED BY <1>2, <1>3 DEF Grown

LEMMA GrownTrans ==
  ASSUME NEW p, Sound(p), NEW q, Grown(p, q), NEW r, Grown(q, r)
  PROVE  Grown(p, r)
<1>1. Len(p) \in Nat /\ Len(q) \in Nat /\ Len(r) \in Nat
  BY LenProperties DEF Sound, Grown
<1>2. ASSUME NEW i \in 1..Len(p) PROVE Kept(p[i], r[i])
  <2>1. i \in 1..Len(q) /\ i \in 1..Len(r)
    BY <1>1 DEF Grown
  <2>2. p[i] \in Messages /\ q[i] \in Messages /\ r[i] \in Messages
    BY <2>1, ElementOfSeq DEF Sound, Grown
  <2> QED BY <2>1, <2>2, KeptTrans DEF Grown
<1> QED BY <1>1, <1>2 DEF Grown

LEMMA GrownByOne ==
  ASSUME NEW p, Sound(p), NEW m \in Messages, CardInv(m)
  PROVE  /\ Grown(p, Append(p, m)) /\ Len(Append(p, m)) = Len(p) + 1 /\ Len(p) \in Nat
         /\ \A i \in 1..Len(p) : Append(p, m)[i] = p[i]
         /\ Append(p, m)[Len(p) + 1] = m
<1> PICK q : q = Append(p, m)
  OBVIOUS
<1>1. /\ p \in Seq(Messages) /\ Len(p) \in Nat
      /\ q \in Seq(Messages) /\ Len(q) = Len(p) + 1
      /\ \A i \in 1..Len(p) : q[i] = p[i]
      /\ q[Len(p) + 1] = m
  BY AppendProperties, LenProperties DEF Sound
<1>2. \A i \in 1..Len(q) : CardInv(q[i])
  <2> TAKE i \in 1..Len(q)
  <2>1. i \in 1..Len(p) \/ i = Len(p) + 1
    BY <1>1
  <2> QED BY <1>1, <2>1 DEF Sound
<1>3. \A i \in 1..Len(p) : Kept(p[i], q[i])
  BY <1>1, GrownSelf DEF Grown
<1> QED BY <1>1, <1>2, <1>3 DEF Grown, Sound

Changed(p, i, d) == [p EXCEPT ![i] = d]
LEMMA GrownAt ==
  ASSUME NEW p, Sound(p), NEW i \in 1..Len(p), NEW d, Kept(p[i], d),
         NEW q, q = Changed(p, i, d)
  PROVE  /\ Grown(p, q) /\ Len(q) = Len(p)
         /\ \A j \in 1..Len(p) : q[j] = IF j = i THEN d ELSE p[j]
<1>1. d \in Messages /\ CardInv(d) /\ p \in Seq(Messages) /\ Len(p) \in Nat
  BY LenProperties DEF Kept, Sound
<1>2. /\ q \in Seq(Messages) /\ Len(q) = Len(p)
      /\ \A j \in 1..Len(p) : q[j] = IF j = i THEN d ELSE p[j]
  BY <1>1, ExceptSeq DEF Changed
<1>3. \A j \in 1..Len(q) : CardInv(q[j])
  BY <1>1, <1>2 DEF Sound
<1>4. \A j \in 1..Len(p) : Kept(p[j], q[j])
  BY <1>2, GrownSelf DEF Grown
<1> QED BY <1>1, <1>2, <1>3, <1>4 DEF Grown, Sound

(* reply(), with the chat as it then is.                                    *)
LEMMA ReplyEffect ==
  ASSUME NEW seen, Sound(seen), session \in 0..Len(seen),
         NEW chunks \in Seq(Texts), chunks # <<>>, NEW then \in {"files", "stopping", "failed", "done"},
         Reply(seen, chunks, then)
  PROVE  /\ job' \in Jobs /\ job'.chunks = chunks /\ job'.at = 1 /\ job'.card = session
         /\ job'.then = then
         /\ Grown(seen, chat') /\ Len(chat') = Len(seen)
         /\ session = 0 => pc' = "posting" /\ chat' = seen
         /\ session # 0 =>
              /\ pc' = "closing" /\ session \in 1..Len(seen)
              /\ Carries(chat'[session], chunks[1])
              /\ chat'[session].seq = seen[session].seq
              /\ chat'[session].number = seen[session].number
              /\ chat'[session].put = seen[session].put
              /\ chat'[session].open = seen[session].open
              /\ \A k \in 1..Len(chat'[session].links) :
                   \/ chat'[session].links[k].by = "run"
                   \/ \E l \in 1..Len(seen[session].links) :
                        seen[session].links[l].by = chat'[session].links[k].by
              /\ \A j \in 1..Len(seen) : j # session => chat'[j] = seen[j]
<1>1. job' = [chunks |-> chunks, at |-> 1, card |-> session, put |-> 0, then |-> then]
  BY DEF Reply
<1>2. Len(seen) \in Nat /\ session \in Nat
  BY LenProperties DEF Sound
<1>3. job' \in Jobs
  BY <1>1, <1>2 DEF Jobs
<1>4. CASE session = 0
  <2>1. pc' = "posting" /\ chat' = seen
    BY <1>4 DEF Reply
  <2> QED BY <1>1, <1>3, <1>4, <2>1, GrownSelf
<1>5. CASE session # 0
  <2>1. session \in 1..Len(seen)
    BY <1>2, <1>5
  <2>2. pc' = "closing"
        /\ chat' = [seen EXCEPT ![session] = WithLink(seen[session], "run", chunks[1])]
    BY <1>5 DEF Reply
  <2>8. PICK d : d = WithLink(seen[session], "run", chunks[1])
    OBVIOUS
  <2>3. seen[session] \in Messages /\ CardInv(seen[session])
    BY <2>1, ElementOfSeq DEF Sound
  <2>4. chunks[1] \in Texts
    <3>1. 1 \in 1..Len(chunks)
      BY TextTyped
    <3> QED BY <3>1, ElementOfSeq
  <2>5. /\ d \in Messages /\ Kept(seen[session], d)
        /\ d.seq = seen[session].seq /\ d.number = seen[session].number
        /\ d.open = seen[session].open /\ d.put = seen[session].put
        /\ Carries(d, chunks[1])
        /\ \A k \in 1..Len(d.links) :
             d.links[k].by = "run" \/ \E l \in 1..Len(seen[session].links) :
                                        seen[session].links[l].by = d.links[k].by
    <3>1. "run" \in {"stream", "run"}
      OBVIOUS
    <3>2. ASSUME NEW c, c = seen[session], NEW t, t = chunks[1], NEW by, by = "run"
          PROVE  /\ d \in Messages /\ Kept(c, d)
                 /\ d.seq = c.seq /\ d.number = c.number /\ d.open = c.open /\ d.put = c.put
                 /\ Carries(d, t)
                 /\ \A k \in 1..Len(d.links) :
                      d.links[k].by = by \/ \E l \in 1..Len(c.links) : c.links[l].by = d.links[k].by
      <4>1. c \in Messages /\ CardInv(c) /\ t \in Texts /\ by \in {"stream", "run"}
            /\ d = WithLink(c, by, t)
        BY <2>3, <2>4, <2>8, <3>1, <3>2
      <4> QED BY ONLY <4>1, LinkAdded
    <3> QED BY ONLY <3>2
  <2>6. /\ Grown(seen, chat') /\ Len(chat') = Len(seen)
        /\ \A j \in 1..Len(seen) : chat'[j] = IF j = session THEN d ELSE seen[j]
    <3>1. chat' = Changed(seen, session, d)
      BY <2>2, <2>8 DEF Changed
    <3>2. Kept(seen[session], d)
      BY <2>5
    <3> QED BY <2>1, <3>1, <3>2, GrownAt
  <2>7. chat'[session] = d
    BY <2>1, <2>6
  <2> QED BY <1>1, <1>3, <1>5, <2>1, <2>2, <2>5, <2>6, <2>7
<1> QED BY <1>4, <1>5

-----------------------------------------------------------------------------
(* Types, what was said, the cards and the reply, one action after another  *)

Typed == RunTyped /\ StreamTyped /\ PulseTyped /\ ChatTyped
Base == Typed /\ SaidInv /\ CardsInv /\ ReplyInv
Step == Base' /\ Grown(chat, chat')

LEMMA ChatSound == ASSUME Base PROVE Sound(chat) /\ Grown(chat, chat) /\ Len(chat) \in Nat
<1>1. Sound(chat)
  BY DEF Base, Typed, ChatTyped, CardsInv, Sound
<1> QED BY <1>1, GrownSelf, LenProperties DEF Sound

LEMMA InChatStays ==
  ASSUME NEW p, Sound(p), NEW q, Grown(p, q), NEW t \in Texts, NEW i \in 1..Len(p),
         Includes(p[i].text, t)
  PROVE  i \in 1..Len(q) /\ Includes(q[i].text, t)
<1>1. Len(p) \in Nat /\ Len(q) \in Nat
  BY LenProperties DEF Sound, Grown
<1>2. i \in 1..Len(q)
  BY <1>1 DEF Grown
<1>3. p[i] \in Messages /\ q[i] \in Messages
  BY <1>2, ElementOfSeq DEF Sound, Grown
<1>4. Grows(p[i], q[i])
  BY DEF Grown, Kept
<1> QED BY <1>2, <1>3, <1>4, ShownStays

(* The steps that leave the run alone.                                      *)
LEMMA Calm ==
  ASSUME Base, Grown(chat, chat'), UNCHANGED <<runVars, told>>, StreamTyped', PulseTyped',
         session' \in 0..Len(chat'), typing' \in BOOLEAN, reaction' \in BOOLEAN,
         failures' \in Nat,
         pc = "closing" => Carries(chat'[job.card], job.chunks[1])
  PROVE  Base'
<1> USE DEF runVars
<1>1. RunTyped'
  BY DEF Base, Typed, RunTyped
<1>2. ChatTyped' /\ CardsInv'
  BY DEF Base, Typed, ChatTyped, CardsInv, Grown, Sound
<1>3. SaidInv'
  BY DEF Base, SaidInv, Spoken
<1>4. ReplyInv'
  <2>1. Sound(chat) /\ Len(chat) \in Nat /\ Len(chat') \in Nat /\ Len(chat) <= Len(chat')
    BY ChatSound, LenProperties DEF Grown, Sound
  <2>2. (Replying => job.then # "stop")'
    BY DEF Base, ReplyInv, Replying
  <2>3. (pc \in {"closing", "patching"} =>
           job.card \in 1..Len(chat) /\ job.at = 1 /\ job.chunks # <<>>)'
    BY <2>1 DEF Base, ReplyInv
  <2>4. (pc = "closing" => Carries(chat[job.card], job.chunks[1]))'
    OBVIOUS
  <2>5. job \in Jobs /\ job.chunks \in Seq(Texts)
    BY DEF Base, Typed, RunTyped, Jobs
  <2>6. ASSUME pc = "patching"
        PROVE  job.put <= chat'[job.card].number + 1
               /\ Includes(BaseText(chat'[job.card]), job.chunks[1])
    <3>1. job.card \in 1..Len(chat) /\ job.card \in 1..Len(chat') /\ job.chunks # <<>>
          /\ job.put <= chat[job.card].number + 1
          /\ Includes(BaseText(chat[job.card]), job.chunks[1])
      BY <2>1, <2>6 DEF Base, ReplyInv
    <3>2. chat[job.card] \in Messages /\ chat'[job.card] \in Messages
      BY <2>1, <3>1, ElementOfSeq DEF Grown, Sound
    <3>3. job.chunks[1] \in Texts /\ job.put \in Nat
      <4>1. 1 \in 1..Len(job.chunks)
        BY <2>5, <3>1, TextTyped
      <4> QED BY <2>5, <4>1, ElementOfSeq DEF Jobs
    <3>4. Kept(chat[job.card], chat'[job.card])
      BY <3>1 DEF Grown
    <3>5. chat'[job.card].number >= chat[job.card].number
          /\ chat'[job.card].number \in Nat /\ chat[job.card].number \in Nat
      BY <3>2, <3>4 DEF Kept, Messages
    <3>6. Includes(BaseText(chat'[job.card]), job.chunks[1])
      BY <3>1, <3>2, <3>3, <3>4, BaseStays
    <3>7. job.put <= chat'[job.card].number + 1
      BY ONLY <3>1, <3>3, <3>5
    <3> QED BY ONLY <3>6, <3>7
  <2>7. ASSUME pc = "posting"
        PROVE  /\ job.at \in 1..Len(job.chunks)
               /\ \A n \in 1..(job.at - 1) : InChat(job.chunks[n])'
    <3>1. job.at \in 1..Len(job.chunks) /\ \A n \in 1..(job.at - 1) : InChat(job.chunks[n])
      BY <2>7 DEF Base, ReplyInv
    <3>2. Len(job.chunks) \in Nat
      BY <2>5, TextTyped
    <3>3. ASSUME NEW n \in 1..(job.at - 1) PROVE InChat(job.chunks[n])'
      <4>1. n \in 1..Len(job.chunks)
        BY <3>1, <3>2
      <4>2. job.chunks[n] \in Texts
        BY <2>5, <4>1, ElementOfSeq
      <4>3. PICK i \in 1..Len(chat) : Includes(chat[i].text, job.chunks[n])
        BY <3>1 DEF InChat
      <4>4. i \in 1..Len(chat') /\ Includes(chat'[i].text, job.chunks[n])
        BY <2>1, <4>2, <4>3, InChatStays
      <4> QED BY <4>4 DEF InChat
    <3> QED BY <3>1, <3>3
  <2> QED BY <2>2, <2>3, <2>4, <2>6, <2>7 DEF ReplyInv
<1> QED BY <1>1, <1>2, <1>3, <1>4 DEF Base, Typed

LEMMA Aside ==
  ASSUME Base, UNCHANGED <<runVars, told, chat>>, StreamTyped', PulseTyped',
         session' = session, typing' \in BOOLEAN, reaction' \in BOOLEAN, failures' \in Nat
  PROVE  Step
<1>1. Grown(chat, chat')
  BY ChatSound
<1>2. session' \in 0..Len(chat')
  BY DEF Base, Typed, ChatTyped
<1>3. pc = "closing" => Carries(chat'[job.card], job.chunks[1])
  BY DEF Base, ReplyInv
<1> QED BY <1>1, <1>2, <1>3, Calm DEF Step

LEMMA FailuresTyped == ASSUME failures \in Nat, NEW o, Ends(o) PROVE failures' \in Nat
BY DEF Ends

LEMMA PulseQueue ==
  ASSUME NEW s \in Seq(BOOLEAN), NEW b \in BOOLEAN
  PROVE  /\ Append(s, b) \in Seq(BOOLEAN) /\ Len(Append(s, b)) = Len(s) + 1
         /\ Append(s, b)[Len(s) + 1] = b /\ \A k \in 1..Len(s) : Append(s, b)[k] = s[k]
         /\ Append(s, b) # <<>>
<1>1. /\ Append(s, b) \in Seq(BOOLEAN) /\ Len(Append(s, b)) = Len(s) + 1
      /\ Append(s, b)[Len(s) + 1] = b /\ \A k \in 1..Len(s) : Append(s, b)[k] = s[k]
      /\ Len(s) \in Nat
  BY AppendProperties, LenProperties
<1>2. Append(s, b) # <<>>
  BY <1>1, TextTyped
<1> QED BY <1>1, <1>2

LEMMA PulseRest ==
  ASSUME NEW s \in Seq(BOOLEAN), s # <<>>
  PROVE  /\ Tail(s) \in Seq(BOOLEAN) /\ Len(Tail(s)) = Len(s) - 1 /\ Len(s) \in Nat \ {0}
         /\ \A k \in 1..(Len(s) - 1) : Tail(s)[k] = s[k + 1]
         /\ Head(s) = s[1] /\ Head(s) \in BOOLEAN
BY HeadTailProperties, TextTyped

LEMMA TickStep == ASSUME Base, Tick PROVE Step
<1> USE DEF Base, Typed
<1>1. PulseTyped'
  <2>1. pulses' \in Seq(BOOLEAN) /\ pulses' # <<>>
    BY PulseQueue DEF PulseTyped, Tick
  <2>2. work' = work /\ ticks' \in Nat /\ closed' = closed
    BY DEF PulseTyped, Tick
  <2> QED BY <2>1, <2>2 DEF PulseTyped
<1>2. StreamTyped'
  BY DEF StreamTyped, Tick, streamVars
<1>3. UNCHANGED <<runVars, told, chat, session, typing, reaction, failures>>
  BY DEF Tick, clientVars, serverVars, history
<1> QED BY <1>1, <1>2, <1>3, Aside DEF ChatTyped

LEMMA WorkingStartsStep == ASSUME Base, WorkingStarts PROVE Step
<1> USE DEF Base, Typed
<1>1. PulseTyped' /\ typing' \in BOOLEAN
  <2>1. pulses \in Seq(BOOLEAN) /\ pulses # <<>> /\ Tail(pulses) \in Seq(BOOLEAN)
        /\ typing \in BOOLEAN /\ Idle
    BY PulseRest DEF PulseTyped, ChatTyped, WorkingStarts, Idle
  <2>2. ticks' \in Nat /\ closed' \in BOOLEAN
    BY DEF PulseTyped, WorkingStarts
  <2>3. CASE closed /\ Head(pulses)
    <3>1. pulses' = Tail(pulses) /\ work' = work /\ typing' = typing
      BY <2>3 DEF WorkingStarts
    <3> QED BY <2>1, <2>2, <3>1 DEF PulseTyped, Idle
  <2>4. CASE ~closed /\ Head(pulses)
    <3>1. pulses' = pulses /\ typing' = typing
          /\ work' = [card |-> IF session = 0 THEN "creating" ELSE "done",
                      typing |-> IF typing THEN "done" ELSE "creating"]
      BY <2>4 DEF WorkingStarts
    <3> QED BY <2>1, <2>2, <3>1 DEF PulseTyped, Idle
  <2>5. CASE ~Head(pulses)
    <3>1. pulses' = pulses /\ typing' = FALSE
          /\ work' = [card |-> "done", typing |-> IF typing THEN "deleting" ELSE "done"]
      BY <2>5 DEF WorkingStarts
    <3> QED BY <2>1, <2>2, <3>1 DEF PulseTyped, Idle
  <2> QED BY <2>3, <2>4, <2>5
<1>2. StreamTyped'
  BY DEF StreamTyped, WorkingStarts, streamVars
<1>3. UNCHANGED <<runVars, told, chat, session, reaction, failures>>
  BY DEF WorkingStarts, serverVars, history
<1> QED BY <1>1, <1>2, <1>3, Aside DEF ChatTyped

LEMMA WorkingEndsStep == ASSUME Base, WorkingEnds PROVE Step
<1> USE DEF Base, Typed
<1>1. PulseTyped'
  <2>1. pulses # <<>>
    BY DEF PulseTyped, WorkingEnds, Idle
  <2>2. pulses' \in Seq(BOOLEAN)
    BY <2>1, PulseRest DEF PulseTyped, WorkingEnds
  <2>3. work' \in [card : {"idle", "creating", "done"},
                   typing : {"idle", "creating", "deleting", "done"}]
        /\ ticks' \in Nat /\ closed' \in BOOLEAN /\ Idle'
    BY DEF PulseTyped, WorkingEnds, Idle
  <2> QED BY <2>2, <2>3 DEF PulseTyped
<1>2. StreamTyped'
  BY DEF StreamTyped, WorkingEnds, streamVars
<1>3. UNCHANGED <<runVars, told, chat, session, typing, reaction, failures>>
  BY DEF WorkingEnds, clientVars, serverVars, history
<1> QED BY <1>1, <1>2, <1>3, Aside DEF ChatTyped

LEMMA ReactsStep == ASSUME Base, NEW o, Reacts(o) PROVE Step
<1> USE DEF Base, Typed
<1>1. PulseTyped'
  <2>1. pulses # <<>> /\ pulses' = pulses
    BY DEF PulseTyped, Reacts, Idle
  <2> QED BY <2>1 DEF PulseTyped, Reacts
<1>2. StreamTyped'
  BY DEF StreamTyped, Reacts, streamVars
<1>3. UNCHANGED <<runVars, told, chat, session>>
  BY DEF Reacts, history
<1>4. typing' \in BOOLEAN /\ reaction' \in BOOLEAN
  BY DEF Reacts, ChatTyped
<1>5. failures' \in Nat
  BY FailuresTyped DEF Reacts, ChatTyped
<1> QED BY <1>1, <1>2, <1>3, <1>4, <1>5, Aside

LEMMA TextsQueue ==
  ASSUME NEW s \in Seq(Texts), NEW t \in Texts
  PROVE  Append(s, t) \in Seq(Texts) /\ Append(s, t) # <<>> /\ Len(Append(s, t)) = Len(s) + 1
BY AppendProperties, TextTyped

LEMMA StreamEndsStep == ASSUME Base, StreamEnds PROVE Step
<1> USE DEF Base, Typed
<1>1. PulseTyped'
  BY DEF PulseTyped, StreamEnds, pulseVars, Idle
<1>2. StreamTyped'
  <2>1. chain # <<>>
    BY DEF StreamTyped, StreamEnds
  <2>2. chain' \in Seq(Texts)
    BY <2>1, HeadTailProperties DEF StreamTyped, StreamEnds
  <2> QED BY <2>2 DEF StreamTyped, StreamEnds
<1>3. UNCHANGED <<runVars, told, chat, session, typing, reaction, failures>>
  BY DEF StreamEnds, clientVars, serverVars, history
<1> QED BY <1>1, <1>2, <1>3, Aside DEF ChatTyped

(* A card is made; none of those that are there changes.                    *)
LEMMA CardMadeEffect ==
  ASSUME Base, NEW o, NEW c \in Messages, CardInv(c), CardMade(o, c)
  PROVE  /\ Grown(chat, chat') /\ session' \in 0..Len(chat')
         /\ \A i \in 1..Len(chat) : chat'[i] = chat[i]
         /\ o # "refused" => Len(chat') = Len(chat) + 1 /\ chat'[Len(chat) + 1] = c
         /\ o = "refused" => chat' = chat
<1>1. Sound(chat) /\ Grown(chat, chat) /\ Len(chat) \in Nat /\ session \in 0..Len(chat)
  BY ChatSound DEF Base, Typed, ChatTyped
<1>2. CASE o = "refused"
  BY <1>1, <1>2 DEF CardMade
<1>3. CASE o # "refused"
  <2>1. chat' = Append(chat, c)
    BY <1>3 DEF CardMade
  <2>2. Grown(chat, chat') /\ Len(chat') = Len(chat) + 1
        /\ (\A i \in 1..Len(chat) : chat'[i] = chat[i]) /\ chat'[Len(chat) + 1] = c
    BY <1>1, <2>1, GrownByOne
  <2>3. session' \in 0..Len(chat')
    BY <1>1, <2>2 DEF CardMade
  <2> QED BY <1>3, <2>2, <2>3
<1> QED BY <1>2, <1>3

LEMMA PulseCardStep == ASSUME Base, NEW o, PulseCard(o) PROVE Step
<1> USE DEF Base, Typed
<1>1. PulseTyped'
  <2>1. pulses # <<>> /\ pulses' = pulses
    BY DEF PulseTyped, PulseCard, Idle
  <2> QED BY <2>1 DEF PulseTyped, PulseCard
<1>2. StreamTyped' /\ UNCHANGED <<runVars, told>> /\ typing' \in BOOLEAN /\ reaction' \in BOOLEAN
  BY DEF StreamTyped, ChatTyped, PulseCard, streamVars
<1>3. failures' \in Nat
  BY FailuresTyped DEF PulseCard, ChatTyped
<1>4. /\ Grown(chat, chat') /\ session' \in 0..Len(chat')
      /\ \A i \in 1..Len(chat) : chat'[i] = chat[i]
  BY NewCard, CardMadeEffect DEF PulseCard
<1>5. pc = "closing" => Carries(chat'[job.card], job.chunks[1])
  BY <1>4 DEF ReplyInv
<1>6. Base'
  BY <1>1, <1>2, <1>3, <1>4, <1>5, Calm
<1> QED BY <1>4, <1>6 DEF Step

LEMMA ChainHead == ASSUME Base, chain # <<>> PROVE Head(chain) \in Texts /\ Tail(chain) \in Seq(Texts)
BY HeadTailProperties DEF Base, Typed, StreamTyped

LEMMA FirstChunk ==
  ASSUME Base, pc \in {"closing", "patching"}
  PROVE  job.chunks[1] \in Texts /\ job.card \in 1..Len(chat) /\ job.chunks \in Seq(Texts)
         /\ job.at = 1 /\ job.chunks # <<>> /\ Len(job.chunks) \in Nat \ {0}
<1>1. job.chunks \in Seq(Texts) /\ job.chunks # <<>> /\ job.card \in 1..Len(chat) /\ job.at = 1
  BY DEF Base, Typed, RunTyped, Jobs, ReplyInv
<1>2. 1 \in 1..Len(job.chunks) /\ Len(job.chunks) \in Nat \ {0}
  BY <1>1, TextTyped
<1> QED BY <1>1, <1>2, ElementOfSeq

(* One card changes; what it was to carry it carries on.                    *)
LEMMA CardChanges ==
  ASSUME Base, NEW i \in 1..Len(chat), NEW d, Kept(chat[i], d), chat' = Changed(chat, i, d)
  PROVE  /\ Grown(chat, chat') /\ Len(chat') = Len(chat)
         /\ \A j \in 1..Len(chat) : chat'[j] = IF j = i THEN d ELSE chat[j]
         /\ (pc = "closing" /\ job.card = i =>
              (Carries(chat[i], job.chunks[1]) => Carries(d, job.chunks[1])))
            => (pc = "closing" => Carries(chat'[job.card], job.chunks[1]))
<1>1. Sound(chat)
  BY ChatSound
<1>2. /\ Grown(chat, chat') /\ Len(chat') = Len(chat)
      /\ \A j \in 1..Len(chat) : chat'[j] = IF j = i THEN d ELSE chat[j]
  BY <1>1, GrownAt
<1>3. pc = "closing" => job.card \in 1..Len(chat) /\ Carries(chat[job.card], job.chunks[1])
  BY DEF Base, ReplyInv
<1>4. ASSUME pc = "closing",
             pc = "closing" /\ job.card = i =>
               (Carries(chat[i], job.chunks[1]) => Carries(d, job.chunks[1]))
      PROVE  Carries(chat'[job.card], job.chunks[1])
  <2>1. job.card \in 1..Len(chat) /\ Carries(chat[job.card], job.chunks[1])
    BY <1>3, <1>4
  <2>2. CASE job.card = i
    <3>1. chat'[job.card] = d
      BY <1>2, <2>1, <2>2
    <3>2. Carries(d, job.chunks[1])
      BY <1>4, <2>1, <2>2
    <3> QED BY <3>1, <3>2
  <2>3. CASE job.card # i
    <3>1. chat'[job.card] = chat[job.card]
      BY <1>2, <2>1, <2>3
    <3> QED BY <2>1, <3>1
  <2> QED BY <2>2, <2>3
<1> QED BY <1>2, <1>4

LEMMA CardOf == ASSUME Base, NEW i \in 1..Len(chat) PROVE chat[i] \in Messages /\ CardInv(chat[i])
BY ChatSound, ElementOfSeq DEF Sound

LEMMA StreamStartsStep == ASSUME Base, StreamStarts PROVE Step
<1> USE DEF Base, Typed
<1>1. PulseTyped' /\ StreamTyped' /\ UNCHANGED <<runVars, told, session, typing, reaction, failures>>
  BY DEF PulseTyped, StreamTyped, StreamStarts, pulseVars, clientVars, history, Idle
<1>2. CASE session = 0
  <2>1. chat' = chat
    BY <1>2 DEF StreamStarts
  <2> QED BY <1>1, <2>1, Aside DEF ChatTyped
<1>3. CASE session # 0
  <2>1. session \in 1..Len(chat)
    BY <1>3, ChatSound DEF ChatTyped
  <2>2. Head(chain) \in Texts
    BY ChainHead DEF StreamStarts
  <2>3. chat[session] \in Messages /\ CardInv(chat[session])
    BY <2>1, CardOf
  <2>4. PICK d : d = WithLink(chat[session], "stream", Head(chain))
    OBVIOUS
  <2>5. chat' = Changed(chat, session, d)
    BY <1>3, <2>4 DEF StreamStarts, Changed
  <2>6. Kept(chat[session], d) /\ \A u \in Texts : Carries(chat[session], u) => Carries(d, u)
    <3>1. "stream" \in {"stream", "run"}
      OBVIOUS
    <3> QED BY ONLY <2>2, <2>3, <2>4, <3>1, LinkAdded
  <2>7. pc = "closing" /\ job.card = session =>
          (Carries(chat[session], job.chunks[1]) => Carries(d, job.chunks[1]))
    BY <2>6, FirstChunk
  <2>8. Grown(chat, chat') /\ Len(chat') = Len(chat)
        /\ (pc = "closing" => Carries(chat'[job.card], job.chunks[1]))
    BY <2>1, <2>5, <2>6, <2>7, CardChanges
  <2>9. Base'
    BY <1>1, <2>8, Calm DEF ChatTyped
  <2> QED BY <2>8, <2>9 DEF Step
<1> QED BY <1>2, <1>3

LEMMA StreamCardStep == ASSUME Base, NEW o, StreamCard(o) PROVE Step
<1> USE DEF Base, Typed
<1>1. chain # <<>> /\ Head(chain) \in Texts /\ chain' = chain
  BY ChainHead DEF StreamTyped, StreamCard
<1>2. PulseTyped' /\ UNCHANGED <<runVars, told>> /\ typing' \in BOOLEAN /\ reaction' \in BOOLEAN
  BY DEF PulseTyped, ChatTyped, StreamCard, pulseVars, Idle
<1>3. StreamTyped'
  BY <1>1 DEF StreamTyped, StreamCard
<1>4. failures' \in Nat
  BY FailuresTyped DEF StreamCard, ChatTyped
<1>5. PICK d : d = WithLink(Card, "stream", Head(chain))
  OBVIOUS
<1>6. d \in Messages /\ CardInv(d)
  <2>1. "stream" \in {"stream", "run"}
    OBVIOUS
  <2>2. d \in Messages /\ Kept(Card, d)
    BY ONLY <1>1, <1>5, <2>1, NewCard, LinkAdded
  <2> QED BY <2>2 DEF Kept
<1>7. PICK c : c = IF o = "ok" THEN d ELSE Card
  OBVIOUS
<1>8. c \in Messages /\ CardInv(c)
  BY <1>6, <1>7, NewCard
<1>9. CardMade(o, c)
  BY <1>5, <1>7 DEF StreamCard
<1>10. /\ Grown(chat, chat') /\ session' \in 0..Len(chat')
       /\ \A i \in 1..Len(chat) : chat'[i] = chat[i]
  BY <1>8, <1>9, CardMadeEffect
<1>11. pc = "closing" => Carries(chat'[job.card], job.chunks[1])
  BY <1>10 DEF ReplyInv
<1>12. Base'
  BY <1>2, <1>3, <1>4, <1>10, <1>11, Calm
<1> QED BY <1>10, <1>12 DEF Step

LEMMA StreamPostsStep == ASSUME Base, NEW o, StreamPosts(o) PROVE Step
<1> USE DEF Base, Typed
<1>1. chain # <<>> /\ Head(chain) \in Texts /\ chain' = chain
  BY ChainHead DEF StreamTyped, StreamPosts
<1>2. PulseTyped' /\ UNCHANGED <<runVars, told, session>> /\ typing' \in BOOLEAN /\ reaction' \in BOOLEAN
  BY DEF PulseTyped, ChatTyped, StreamPosts, pulseVars, clientVars, history, Idle
<1>3. StreamTyped'
  BY <1>1 DEF StreamTyped, StreamPosts
<1>4. failures' \in Nat
  BY FailuresTyped DEF StreamPosts, ChatTyped
<1>5. CASE o = "refused"
  <2>1. chat' = chat
    BY <1>5 DEF StreamPosts
  <2> QED BY <1>2, <1>3, <1>4, <2>1, Aside
<1>6. CASE o # "refused"
  <2>1. chat' = Append(chat, Plain(Head(chain)))
    BY <1>6 DEF StreamPosts
  <2>2. Sound(chat) /\ Plain(Head(chain)) \in Messages /\ CardInv(Plain(Head(chain)))
    BY <1>1, NewPlain, ChatSound
  <2>3. Grown(chat, chat') /\ Len(chat') = Len(chat) + 1 /\ Len(chat) \in Nat
        /\ (\A i \in 1..Len(chat) : chat'[i] = chat[i])
    BY <2>1, <2>2, GrownByOne
  <2>4. pc = "closing" => Carries(chat'[job.card], job.chunks[1])
    BY <2>3 DEF ReplyInv
  <2>5. session' \in 0..Len(chat')
    BY <1>2, <2>3 DEF ChatTyped
  <2>6. Base'
    BY <1>2, <1>3, <1>4, <2>3, <2>4, <2>5, Calm
  <2> QED BY <2>3, <2>6 DEF Step
<1> QED BY <1>5, <1>6

(* The steps of the run: what is left to show of each of them.              *)
LEMMA Turns ==
  ASSUME Base, Grown(chat, chat'), RunTyped', StreamTyped', PulseTyped',
         session' \in 0..Len(chat'), typing' \in BOOLEAN, reaction' \in BOOLEAN,
         failures' \in Nat, told' \in Seq(Seq(Texts)), SaidInv', ReplyInv'
  PROVE  Step
<1>1. chat' \in Seq(Messages) /\ CardsInv'
  BY DEF Grown, Sound, CardsInv
<1> QED BY <1>1 DEF Step, Base, Typed, ChatTyped

LEMMA SaidStays ==
  ASSUME Base, UNCHANGED <<said, asked>>, pc' \notin {"waiting", "opening", "prompting"}
  PROVE  SaidInv'
BY DEF Base, SaidInv, Spoken

LEMMA PutStartsStep == ASSUME Base, NEW i \in 1..Len(chat), PutStarts(i) PROVE Step
<1> USE DEF Base, Typed
<1>1. PulseTyped' /\ StreamTyped' /\ UNCHANGED <<runVars, told, session, typing, reaction, failures>>
  BY DEF PulseTyped, StreamTyped, PutStarts, pulseVars, streamVars, clientVars, history, Idle
<1>2. chat[i] \in Messages /\ CardInv(chat[i]) /\ chat[i].links # <<>> /\ chat[i].put = 0
  BY CardOf DEF PutStarts
<1>3. PICK d : d = Queued(chat[i])
  OBVIOUS
<1>4. chat' = Changed(chat, i, d)
  BY <1>3 DEF PutStarts, Changed
<1>5. Kept(chat[i], d) /\ \A u \in Texts : Carries(chat[i], u) => Carries(d, u)
  BY ONLY <1>2, <1>3, WriteQueued
<1>6. pc = "closing" /\ job.card = i =>
        (Carries(chat[i], job.chunks[1]) => Carries(d, job.chunks[1]))
  BY <1>5, FirstChunk
<1>7. Grown(chat, chat') /\ Len(chat') = Len(chat)
      /\ (pc = "closing" => Carries(chat'[job.card], job.chunks[1]))
  BY <1>4, <1>5, <1>6, CardChanges
<1>8. Base'
  BY <1>1, <1>7, Calm DEF ChatTyped
<1> QED BY <1>7, <1>8 DEF Step

(* The reply falls back on messages of its own.                             *)
LEMMA GivesUp ==
  ASSUME Base, pc \in {"closing", "patching"}, GivesUpTheCard
  PROVE  /\ pc' = "posting" /\ job' \in Jobs /\ session' = 0 /\ ReplyInv'
         /\ job'.chunks = job.chunks /\ job'.at = 1 /\ job'.then = job.then
<1> USE DEF Base, Typed
<1>1. pc' = "posting" /\ session' = 0 /\ job' = [job EXCEPT !.card = 0]
  BY DEF GivesUpTheCard, ForgetCard
<1>2. job \in Jobs /\ job.at = 1 /\ Len(job.chunks) \in Nat \ {0} /\ job.then # "stop"
  BY FirstChunk DEF RunTyped, ReplyInv, Replying
<1>3. job' \in Jobs /\ job'.chunks = job.chunks /\ job'.at = 1 /\ job'.then = job.then
  BY <1>1, <1>2 DEF Jobs
<1>4. (job.at \in 1..Len(job.chunks) /\ \A n \in 1..(job.at - 1) : InChat(job.chunks[n]))'
  BY <1>2, <1>3
<1>5. ReplyInv'
  BY <1>1, <1>2, <1>3, <1>4 DEF ReplyInv, Replying
<1> QED BY <1>1, <1>3, <1>5

LEMMA PutEndsStep == ASSUME Base, NEW i \in 1..Len(chat), NEW o, PutEnds(i, o) PROVE Step
<1> USE DEF Base, Typed
<1>1. PulseTyped' /\ StreamTyped' /\ UNCHANGED <<said, asked, files, busy, typing, reaction, told>>
  BY DEF PulseTyped, StreamTyped, PutEnds, pulseVars, streamVars, Idle
<1>2. failures' \in Nat
  BY FailuresTyped DEF PutEnds, ChatTyped
<1>3. chat[i] \in Messages /\ CardInv(chat[i]) /\ chat[i].put > 0
  BY CardOf DEF PutEnds
<1>4. PICK d : d = Written(chat[i], o)
  OBVIOUS
<1>5. chat' = Changed(chat, i, d)
  BY <1>4 DEF PutEnds, Changed
<1>6. Kept(chat[i], d)
      /\ (~Fails(chat[i], o) => \A u \in Texts : Carries(chat[i], u) => Carries(d, u))
  BY ONLY <1>3, <1>4, WriteDone
<1>7. CASE pc = "closing" /\ job.card = i /\ Fails(chat[i], o)
  <2>1. GivesUpTheCard
    BY <1>7 DEF PutEnds
  <2>2. pc' = "posting" /\ job' \in Jobs /\ session' = 0 /\ ReplyInv'
    BY <1>7, <2>1, GivesUp
  <2>3. Grown(chat, chat') /\ Len(chat') = Len(chat)
    BY <1>5, <1>6, CardChanges
  <2>4. RunTyped' /\ SaidInv'
    BY <1>1, <2>2, SaidStays DEF RunTyped, Places
  <2>5. session' \in 0..Len(chat')
    BY <2>2, <2>3, ChatSound
  <2>6. typing' \in BOOLEAN /\ reaction' \in BOOLEAN /\ told' \in Seq(Seq(Texts))
    BY <1>1 DEF ChatTyped
  <2> QED BY <1>1, <1>2, <2>2, <2>3, <2>4, <2>5, <2>6, Turns
<1>8. CASE ~(pc = "closing" /\ job.card = i /\ Fails(chat[i], o))
  <2>1. UNCHANGED <<runVars, told, session, typing, reaction>>
    BY <1>1, <1>8 DEF PutEnds, runVars
  <2>2. pc = "closing" /\ job.card = i =>
          (Carries(chat[i], job.chunks[1]) => Carries(d, job.chunks[1]))
    BY <1>6, <1>8, FirstChunk
  <2>3. Grown(chat, chat') /\ Len(chat') = Len(chat)
        /\ (pc = "closing" => Carries(chat'[job.card], job.chunks[1]))
    BY <1>5, <1>6, <2>2, CardChanges
  <2>4. Base'
    BY <1>1, <1>2, <2>1, <2>3, Calm DEF ChatTyped
  <2> QED BY <2>3, <2>4 DEF Step
<1> QED BY <1>7, <1>8

(* reply(), called with the chat as it is or with one more message.         *)
LEMMA ReplyStarts ==
  ASSUME Base, NEW seen, Grown(chat, seen), NEW chunks \in Seq(Texts), chunks # <<>>,
         NEW then \in {"files", "stopping", "failed", "done"}, Reply(seen, chunks, then)
  PROVE  /\ Grown(chat, chat') /\ Len(chat') = Len(seen) /\ job' \in Jobs
         /\ pc' \in {"closing", "posting"} /\ ReplyInv' /\ job'.then = then
         /\ job'.card = session /\ session \in 0..Len(chat') /\ session \in Nat
<1>1. Sound(chat) /\ Sound(seen) /\ Len(chat) \in Nat /\ Len(seen) \in Nat
      /\ session \in 0..Len(chat) /\ Len(chat) <= Len(seen)
  BY ChatSound, LenProperties DEF Base, Typed, ChatTyped, Grown, Sound
<1>2. session \in 0..Len(seen) /\ session \in Nat
  BY <1>1
<1>3. /\ job' \in Jobs /\ job'.chunks = chunks /\ job'.at = 1 /\ job'.card = session
      /\ job'.then = then
      /\ Grown(seen, chat') /\ Len(chat') = Len(seen)
      /\ session = 0 => pc' = "posting"
      /\ session # 0 =>
           pc' = "closing" /\ session \in 1..Len(seen) /\ Carries(chat'[session], chunks[1])
  BY <1>1, <1>2, ReplyEffect
<1>4. Grown(chat, chat')
  BY <1>1, <1>3, GrownTrans
<1>5. (job.at \in 1..Len(job.chunks) /\ \A n \in 1..(job.at - 1) : InChat(job.chunks[n]))'
  <2>1. 1 \in 1..Len(chunks)
    BY TextTyped
  <2> QED BY <1>3, <2>1
<1>6. ReplyInv'
  <2>1. (Replying => job.then # "stop")'
    BY <1>3
  <2>2. CASE session = 0
    BY <1>3, <1>5, <2>1, <2>2 DEF ReplyInv
  <2>3. CASE session # 0
    <3>1. pc' = "closing" /\ job'.card \in 1..Len(chat') /\ job'.at = 1 /\ job'.chunks # <<>>
          /\ Carries(chat'[job'.card], job'.chunks[1])
      BY <1>3, <2>3
    <3> QED BY <2>1, <3>1 DEF ReplyInv
  <2> QED BY <2>2, <2>3
<1> QED BY <1>2, <1>3, <1>4, <1>6

(* What the model writes next is again a beginning of what it has to say.   *)
LEMMA LongerTyped ==
  ASSUME NEW s \in Seq(Texts), <<>> \notin ToSet(s), said \in Seq(Texts), Spoken(said, s),
         said # s, NEW t, t = Longer(s)
  PROVE  t \in Seq(Texts) /\ Len(t) \in Nat \ {0} /\ Spoken(t, s)
<1> DEFINE n == Len(said)
<1>1. n \in Nat /\ Len(s) \in Nat /\ n <= Len(s)
  BY TextTyped DEF Spoken
<1>2. /\ \A k \in 1..n : said[k] \in Texts /\ Len(said[k]) \in Nat /\ said[k] # <<>>
                         /\ said[k] = SubSeq(s[k], 1, Len(said[k])) /\ Len(said[k]) <= Len(s[k])
                         /\ (k < n => said[k] = s[k])
  BY TextTyped, ElementOfSeq DEF Spoken, Texts
<1>3. \A k \in 1..Len(s) : s[k] \in Texts /\ s[k] \in Seq(Tokens) /\ Len(s[k]) \in Nat \ {0}
  <2> TAKE k \in 1..Len(s)
  <2>1. s[k] \in Texts /\ s[k] \in ToSet(s)
    BY ElementOfSeq DEF ToSet
  <2>2. s[k] # <<>>
    BY <2>1
  <2> QED BY <2>1, <2>2, TextTyped DEF Texts
<1>4. \A k \in 1..Len(s) : \A m \in 1..Len(s[k]) :
        SubSeq(s[k], 1, m) \in Texts /\ Len(SubSeq(s[k], 1, m)) = m
  <2> TAKE k \in 1..Len(s)
  <2> TAKE m \in 1..Len(s[k])
  <2>1. s[k] \in Seq(Tokens) /\ Len(s[k]) \in Nat
    BY <1>3
  <2>2. m \in Int /\ 1 \in Int /\ 1 <= 1 /\ m <= Len(s[k]) /\ 1 <= m
    BY <2>1
  <2> QED BY <2>1, <2>2, PartOf DEF Texts
<1>5. CASE n > 0 /\ Len(said[n]) < Len(s[n])
  <2>1. PICK m : m = Len(said[n]) + 1
    OBVIOUS
  <2>2. n \in 1..n /\ n \in 1..Len(s) /\ Len(said[n]) \in Nat /\ Len(s[n]) \in Nat
    BY <1>1, <1>2, <1>3, <1>5
  <2>3. m \in 1..Len(s[n])
    BY <1>5, <2>1, <2>2
  <2>4. PICK w : w = SubSeq(s[n], 1, m)
    OBVIOUS
  <2>5. w \in Texts /\ Len(w) = m /\ w # <<>>
    <3>1. w \in Texts /\ Len(w) = m
      BY <1>4, <2>2, <2>3, <2>4
    <3> QED BY <2>3, <3>1, TextTyped DEF Texts
  <2>6. t = [said EXCEPT ![n] = w]
    BY <1>5, <2>1, <2>4 DEF Longer
  <2>7. t \in Seq(Texts) /\ Len(t) = n /\ \A k \in 1..n : t[k] = IF k = n THEN w ELSE said[k]
    BY <2>2, <2>5, <2>6, ExceptSeq
  <2>8. ASSUME NEW k \in 1..n
        PROVE  /\ t[k] # <<>> /\ Len(t[k]) <= Len(s[k])
               /\ t[k] = SubSeq(s[k], 1, Len(t[k]))
               /\ k < n => t[k] = s[k]
    <3>1. CASE k = n
      <4>1. t[k] = w
        BY <2>7, <3>1
      <4> QED BY <2>2, <2>3, <2>4, <2>5, <3>1, <4>1
    <3>2. CASE k # n
      <4>1. t[k] = said[k]
        BY <2>7, <3>2
      <4> QED BY <1>2, <4>1
    <3> QED BY <3>1, <3>2
  <2> QED BY <1>1, <1>5, <2>7, <2>8 DEF Spoken
<1>6. CASE ~(n > 0 /\ Len(said[n]) < Len(s[n]))
  <2>1. ASSUME NEW k \in 1..n PROVE said[k] = s[k]
    <3>1. CASE k < n
      BY <1>2, <3>1
    <3>2. CASE k = n
      <4>1. n > 0 /\ k \in 1..Len(s) /\ Len(s[k]) \in Nat \ {0}
        BY <1>1, <1>3, <3>2
      <4>2. Len(said[k]) = Len(s[k]) /\ said[k] = SubSeq(s[k], 1, Len(said[k]))
        BY <1>2, <1>6, <3>2, <4>1
      <4>3. SubSeq(s[k], 1, Len(s[k])) = s[k]
        BY <1>3, <4>1, SubSeqProperties, SeqEqual DEF Texts
      <4> QED BY <4>2, <4>3
    <3> QED BY <1>1, <3>1, <3>2
  <2>2. n # Len(s)
    <3> SUFFICES ASSUME n = Len(s) PROVE said = s
      OBVIOUS
    <3> QED BY <2>1, SeqEqual
  <2>3. n + 1 \in 1..Len(s) /\ s[n + 1] \in Seq(Tokens) /\ Len(s[n + 1]) \in Nat \ {0}
    BY <1>1, <1>3, <2>2
  <2>4. PICK w : w = <<s[n + 1][1]>>
    OBVIOUS
  <2>5. s[n + 1][1] \in Tokens
    <3>1. 1 \in 1..Len(s[n + 1])
      BY <2>3
    <3> QED BY <2>3, <3>1, ElementOfSeq
  <2>6. w \in Texts /\ Len(w) = 1 /\ w # <<>> /\ w[1] = s[n + 1][1]
    BY <2>4, <2>5 DEF Texts
  <2>7. w = SubSeq(s[n + 1], 1, 1)
    <3>1. 1 \in 1..Len(s[n + 1])
      BY <2>3
    <3>2. SubSeq(s[n + 1], 1, 1) \in Seq(Tokens) /\ Len(SubSeq(s[n + 1], 1, 1)) = 1
      BY <1>4, <2>3, <3>1 DEF Texts
    <3>3. SubSeq(s[n + 1], 1, 1)[1] = s[n + 1][1]
      BY <2>3, <3>1, SubSeqProperties
    <3>4. \A j \in 1..Len(w) : w[j] = SubSeq(s[n + 1], 1, 1)[j]
      BY <2>6, <3>3
    <3> QED BY <2>6, <3>2, <3>4, SeqEqual DEF Texts
  <2>8. t = Append(said, w)
    BY <1>6, <2>4 DEF Longer
  <2>9. t \in Seq(Texts) /\ Len(t) = n + 1 /\ t[n + 1] = w /\ \A k \in 1..n : t[k] = said[k]
    BY <2>6, <2>8, AppendProperties
  <2>10. ASSUME NEW k \in 1..(n + 1)
         PROVE  /\ t[k] # <<>> /\ Len(t[k]) <= Len(s[k])
                /\ t[k] = SubSeq(s[k], 1, Len(t[k]))
                /\ k < n + 1 => t[k] = s[k]
    <3>1. CASE k = n + 1
      BY <2>3, <2>6, <2>7, <2>9, <3>1
    <3>2. CASE k # n + 1
      <4>1. k \in 1..n
        BY <1>1, <3>2
      <4>2. t[k] = said[k] /\ said[k] = s[k]
        BY <2>1, <2>9, <4>1
      <4> QED BY <1>2, <4>1, <4>2
    <3> QED BY <3>1, <3>2
  <2> QED BY <1>1, <2>3, <2>9, <2>10 DEF Spoken
<1> QED BY <1>5, <1>6

LEMMA PushTyped ==
  ASSUME Base, NEW text \in Texts, Push(text), UNCHANGED stage
  PROVE  StreamTyped'
<1> USE DEF Base, Typed
<1>1. PICK base : base = IF pend # <<>> THEN pend ELSE last
  OBVIOUS
<1>2. base \in Texts
  BY <1>1 DEF StreamTyped
<1>3. PICK merged : merged = MergeStreamingText(base, text)
  OBVIOUS
<1>4. merged \in Texts
  BY <1>2, <1>3, MergeIncludes DEF Texts
<1>5. CASE UNCHANGED <<pend, last, sent, chain>>
  BY <1>5 DEF StreamTyped
<1>6. CASE pend' = merged /\ UNCHANGED <<last, sent, chain>>
  BY <1>4, <1>6 DEF StreamTyped
<1>7. CASE pend' = <<>> /\ last' = merged /\ sent' = sent + 1 /\ chain' = Append(chain, merged)
  <2>1. chain' \in Seq(Texts) /\ chain' # <<>>
    BY <1>4, <1>7, TextsQueue DEF StreamTyped
  <2>2. <<>> \in Texts
    BY DEF Texts
  <2> QED BY <1>4, <1>7, <2>1, <2>2 DEF StreamTyped
<1> QED BY <1>1, <1>3, <1>5, <1>6, <1>7 DEF Push

LEMMA TextOfScript ==
  ASSUME Base, pc = "prompting"
  PROVE  LET s == IF asked = 1 THEN Script ELSE Again
         IN  s \in Seq(Texts) /\ <<>> \notin ToSet(s) /\ Spoken(said, s) /\ asked \in {1, 2}
<1>1. asked \in {1, 2} /\ Spoken(said, IF asked = 1 THEN Script ELSE Again)
  BY DEF Base, Typed, RunTyped, SaidInv
<1> QED BY <1>1, ReplyAssumption DEF Texts

LEMMA SpeaksStep == ASSUME Base, Speaks PROVE Step
<1> USE DEF Base, Typed
<1>1. PICK s : s = IF asked = 1 THEN Script ELSE Again
  OBVIOUS
<1>2. pc = "prompting" /\ said # s /\ said' = Longer(s) /\ Push(Last(said')) /\ UNCHANGED stage
  BY <1>1 DEF Speaks
<1>3. UNCHANGED <<pc, job, asked, files, busy, chat, session, typing, reaction, failures, told>>
  BY DEF Speaks, clientVars, serverVars, history
<1>4. s \in Seq(Texts) /\ <<>> \notin ToSet(s) /\ Spoken(said, s) /\ asked \in {1, 2}
      /\ said \in Seq(Texts)
  BY <1>1, <1>2, TextOfScript DEF RunTyped
<1>5. said' \in Seq(Texts) /\ Len(said') \in Nat \ {0} /\ Spoken(said', s)
  BY <1>2, <1>4, LongerTyped
<1>6. Last(said') \in Texts
  BY <1>5, ElementOfSeq DEF Last
<1>7. StreamTyped'
  BY <1>2, <1>6, PushTyped
<1>8. RunTyped'
  BY <1>3, <1>5 DEF RunTyped
<1>9. SaidInv'
  BY <1>1, <1>2, <1>3, <1>4, <1>5 DEF SaidInv
<1>10. PulseTyped'
  BY DEF Speaks, PulseTyped, pulseVars, Idle
<1>11. ReplyInv'
  BY <1>2, <1>3 DEF ReplyInv, Replying
<1>12. Grown(chat, chat')
  BY <1>3, ChatSound
<1> QED BY <1>3, <1>7, <1>8, <1>9, <1>10, <1>11, <1>12, Turns DEF ChatTyped

LEMMA OpensStep == ASSUME Base, Opens \/ SessionReady PROVE Step
<1> USE DEF Base, Typed
<1>1. UNCHANGED <<job, said, files, busy, chat, session, typing, reaction, failures, told>>
  BY DEF Opens, SessionReady, clientVars, serverVars, history
<1>2. StreamTyped' /\ PulseTyped'
  BY DEF Opens, SessionReady, StreamTyped, PulseTyped, streamVars, pulseVars, Idle
<1>3. RunTyped'
  BY <1>1 DEF RunTyped, Places, Opens, SessionReady
<1>4. SaidInv'
  <2>1. CASE Opens
    BY <2>1 DEF SaidInv, Opens
  <2>2. CASE SessionReady
    <3>1. said = <<>> /\ said' = <<>> /\ asked' = 1 /\ pc' = "prompting"
      BY <1>1, <2>2 DEF SaidInv, SessionReady
    <3>2. Spoken(<<>>, Script)
      BY ReplyAssumption, TextTyped DEF Spoken
    <3> QED BY <3>1, <3>2 DEF SaidInv
  <2> QED BY <2>1, <2>2
<1>5. ReplyInv'
  BY DEF ReplyInv, Replying, Opens, SessionReady
<1>6. Grown(chat, chat')
  BY <1>1, ChatSound
<1> QED BY <1>1, <1>2, <1>3, <1>4, <1>5, <1>6, Turns DEF ChatTyped

LEMMA PromptEndsStep == ASSUME Base, PromptEnds PROVE Step
<1> USE DEF Base, Typed
<1>1. UNCHANGED <<job, said, asked, files, busy, chat, session, typing, reaction, failures, told>>
      /\ pc' = "flushing"
  BY DEF PromptEnds, clientVars, serverVars, history
<1>2. StreamTyped'
  <2>1. CASE UNCHANGED <<pend, last, sent, chain>>
    BY <2>1 DEF StreamTyped, PromptEnds
  <2>2. CASE pend' = <<>> /\ last' = pend /\ sent' = sent + 1 /\ chain' = Append(chain, pend)
    <3>1. chain' \in Seq(Texts) /\ chain' # <<>>
      BY <2>2, TextsQueue DEF StreamTyped
    <3>2. <<>> \in Texts
      BY DEF Texts
    <3> QED BY <2>2, <3>1, <3>2 DEF StreamTyped, PromptEnds
  <2> QED BY <2>1, <2>2 DEF PromptEnds
<1>3. PulseTyped'
  BY DEF PromptEnds, PulseTyped, pulseVars, Idle
<1>4. RunTyped'
  BY <1>1 DEF RunTyped, Places
<1>5. SaidInv' /\ ReplyInv'
  BY <1>1, SaidStays DEF ReplyInv, Replying
<1>6. Grown(chat, chat')
  BY <1>1, ChatSound
<1> QED BY <1>1, <1>2, <1>3, <1>4, <1>5, <1>6, Turns DEF ChatTyped

LEMMA StopsStep == ASSUME Base, Stops PROVE Step
<1> USE DEF Base, Typed
<1>1. UNCHANGED <<job, said, asked, files, busy, chat, session, typing, reaction, failures, told>>
      /\ pc' = "cancelling"
  BY DEF Stops, clientVars, serverVars, history
<1>2. StreamTyped'
  BY DEF Stops, StreamTyped, streamVars
<1>3. PulseTyped'
  <2>1. pulses' \in Seq(BOOLEAN) /\ pulses' # <<>>
    BY PulseQueue DEF PulseTyped, Stops
  <2>2. work' = work /\ ticks' = ticks /\ closed' = TRUE
    BY DEF Stops
  <2> QED BY <2>1, <2>2 DEF PulseTyped
<1>4. RunTyped'
  BY <1>1 DEF RunTyped, Places
<1>5. SaidInv' /\ ReplyInv'
  BY <1>1, SaidStays DEF ReplyInv, Replying
<1>6. Grown(chat, chat')
  BY <1>1, ChatSound
<1> QED BY <1>1, <1>2, <1>3, <1>4, <1>5, <1>6, Turns DEF ChatTyped

(* A step of the run that ends in reply(), and touches nothing else.        *)
LEMMA Replied ==
  ASSUME Base, NEW chunks \in Seq(Texts), chunks # <<>>,
         NEW then \in {"files", "stopping", "failed", "done"}, Reply(chat, chunks, then),
         UNCHANGED <<said, asked, files, busy, streamVars, pulseVars, clientVars, reaction,
                     failures, told>>
  PROVE  Step
<1> USE DEF Base, Typed
<1>1. /\ Grown(chat, chat') /\ job' \in Jobs
      /\ pc' \in {"closing", "posting"} /\ ReplyInv' /\ session \in 0..Len(chat')
  BY ReplyStarts, ChatSound
<1>2. StreamTyped' /\ PulseTyped' /\ session' \in 0..Len(chat')
  BY <1>1 DEF StreamTyped, PulseTyped, streamVars, pulseVars, clientVars, Idle
<1>3. RunTyped' /\ SaidInv'
  BY <1>1, SaidStays DEF RunTyped, Places
<1>4. typing' \in BOOLEAN /\ reaction' \in BOOLEAN /\ failures' \in Nat /\ told' \in Seq(Seq(Texts))
  BY DEF ChatTyped, clientVars
<1> QED BY <1>1, <1>2, <1>3, <1>4, Turns

(* A step of the run that changes neither the reply nor the chat.           *)
LEMMA GoesOn ==
  ASSUME Base, pc' \in {"files", "stopping", "cancelling", "done"},
         UNCHANGED <<job, said, asked, files, busy, streamVars, pulseVars, clientVars,
                     serverVars, told>>
  PROVE  Step
<1> USE DEF Base, Typed
<1>1. UNCHANGED <<chat, session, typing, reaction, failures, told>>
  BY DEF clientVars, serverVars
<1>2. StreamTyped' /\ PulseTyped'
  BY DEF StreamTyped, PulseTyped, streamVars, pulseVars, Idle
<1>3. RunTyped' /\ SaidInv'
  BY SaidStays DEF RunTyped, Places
<1>4. ReplyInv'
  BY DEF ReplyInv, Replying
<1>5. Grown(chat, chat')
  BY <1>1, ChatSound
<1> QED BY <1>1, <1>2, <1>3, <1>4, <1>5, Turns DEF ChatTyped

LEMMA RunFailsStep == ASSUME Base, RunFails PROVE Step
<1>1. Reply(chat, Words, "failed")
      /\ UNCHANGED <<said, asked, files, busy, streamVars, pulseVars, clientVars, reaction,
                     failures, told>>
  BY DEF RunFails, history
<1> QED BY <1>1, WordsTyped, Replied

LEMMA AnswerTyped ==
  ASSUME Base
  PROVE  Joined \in Texts /\ Chunks(Joined) \in Seq(Texts) /\ Chunks(Joined) # <<>>
BY JoinedTyped, ChunksTyped DEF Base, Typed, RunTyped

LEMMA DecideStep ==
  ASSUME Base, Decide, pc \in {"flushing", "prompting"}, UNCHANGED <<files, busy, streamVars, pulseVars,
                                                clientVars, reaction, failures, told>>
  PROVE  Step
<1> USE DEF Base, Typed
<1>1. CASE Joined # <<>>
  <2>1. Reply(chat, Chunks(Joined), "files") /\ UNCHANGED <<said, asked>>
    BY <1>1 DEF Decide
  <2> QED BY <2>1, AnswerTyped, Replied
<1>2. CASE Joined = <<>> /\ files
  <2>1. pc' = "files" /\ UNCHANGED <<job, said, asked, chat>>
    BY <1>2 DEF Decide
  <2> QED BY <2>1, GoesOn DEF serverVars
<1>3. CASE Joined = <<>> /\ ~files /\ asked = 1
  <2>1. pc' = "prompting" /\ asked' = 2 /\ said' = <<>> /\ UNCHANGED <<job, chat>>
    BY <1>3 DEF Decide
  <2>2. StreamTyped' /\ PulseTyped' /\ UNCHANGED <<session, typing>>
    BY DEF StreamTyped, PulseTyped, streamVars, pulseVars, clientVars, Idle
  <2>3. RunTyped'
    <3>1. <<>> \in Seq(Texts)
      BY DEF Texts
    <3> QED BY <2>1, <3>1 DEF RunTyped, Places
  <2>4. SaidInv'
    <3>1. Spoken(<<>>, Again)
      BY ReplyAssumption, TextTyped DEF Spoken
    <3> QED BY <2>1, <3>1 DEF SaidInv
  <2>5. ReplyInv'
    BY <2>1 DEF ReplyInv, Replying
  <2>6. Grown(chat, chat')
    BY <2>1, ChatSound
  <2> QED BY <2>1, <2>2, <2>3, <2>4, <2>5, <2>6, Turns DEF ChatTyped
<1>4. CASE Joined = <<>> /\ ~files /\ asked # 1
  <2>1. Reply(chat, Words, "stopping") /\ UNCHANGED <<said, asked>>
    BY <1>4 DEF Decide
  <2> QED BY <2>1, WordsTyped, Replied
<1> QED BY <1>1, <1>2, <1>3, <1>4

LEMMA FlushedStep == ASSUME Base, Flushed \/ SecondPromptEnds PROVE Step
BY DecideStep DEF Flushed, SecondPromptEnds, history

LEMMA UploadsStep == ASSUME Base, NEW arrives, Uploads(arrives) PROVE Step
<1>1. UNCHANGED <<said, asked, files, busy, streamVars, pulseVars, clientVars, reaction,
                  failures, told>>
  BY DEF Uploads, history
<1>2. CASE ~files \/ (arrives /\ Joined # <<>>)
  <2>1. pc' = "stopping" /\ UNCHANGED <<job, chat>>
    BY <1>2 DEF Uploads
  <2> QED BY <1>1, <2>1, GoesOn DEF serverVars
<1>3. CASE files /\ ~(arrives /\ Joined # <<>>)
  <2>1. PICK then \in {"stopping", "failed"} : Reply(chat, Words, then)
    BY <1>3 DEF Uploads
  <2> QED BY <1>1, <2>1, WordsTyped, Replied
<1> QED BY <1>2, <1>3

LEMMA SettlesStep == ASSUME Base, Settles PROVE Step
<1>1. UNCHANGED <<said, asked, files, busy, streamVars, pulseVars, clientVars, reaction,
                  failures, told>>
  BY DEF Settles, history
<1>2. CASE busy
  <2>1. Reply(chat, Words, "done")
    BY <1>2 DEF Settles
  <2> QED BY <1>1, <2>1, WordsTyped, Replied
<1>3. CASE ~busy
  <2>1. pc' = "done" /\ UNCHANGED <<job, chat>>
    BY <1>3 DEF Settles
  <2> QED BY <1>1, <2>1, GoesOn DEF serverVars
<1> QED BY <1>2, <1>3

LEMMA ClosesStep == ASSUME Base, Closes PROVE Step
<1> USE DEF Base, Typed
<1>1. UNCHANGED <<said, asked, files, busy, chat, session, typing, reaction, failures, told>>
      /\ pc = "closing" /\ pc' = "patching" /\ chat[job.card].links = <<>>
      /\ job' = [job EXCEPT !.put = chat[job.card].number + 1]
  BY DEF Closes, clientVars, serverVars, history
<1>2. /\ job.card \in 1..Len(chat) /\ job.at = 1 /\ job.chunks # <<>> /\ job.then # "stop"
      /\ Carries(chat[job.card], job.chunks[1]) /\ chat[job.card] \in Messages /\ job \in Jobs
  BY <1>1, FirstChunk, CardOf DEF ReplyInv, Replying, RunTyped
<1>3. /\ job' \in Jobs /\ job'.card = job.card /\ job'.at = 1 /\ job'.chunks = job.chunks
      /\ job'.then = job.then /\ job'.put = chat[job.card].number + 1
  <2>1. chat[job.card].number + 1 \in Nat
    BY <1>2 DEF Messages
  <2> QED BY <1>1, <1>2, <2>1 DEF Jobs
<1>4. Includes(BaseText(chat[job.card]), job.chunks[1])
  <2>1. \A k \in 1..Len(chat[job.card].links) : FALSE
    BY <1>1
  <2> QED BY <1>2, <2>1 DEF Carries
<1>5. StreamTyped' /\ PulseTyped'
  BY DEF Closes, StreamTyped, PulseTyped, streamVars, pulseVars, Idle
<1>6. RunTyped' /\ SaidInv'
  BY <1>1, <1>3, SaidStays DEF RunTyped, Places
<1>7. ReplyInv'
  <2>1. /\ job'.card \in 1..Len(chat') /\ job'.chunks # <<>>
        /\ chat'[job'.card] = chat[job.card]
    BY <1>1, <1>2, <1>3
  <2>2. chat[job.card].number \in Nat
    BY <1>2 DEF Messages
  <2> QED BY <1>1, <1>2, <1>3, <1>4, <2>1, <2>2 DEF ReplyInv, Replying
<1>8. Grown(chat, chat')
  BY <1>1, ChatSound
<1> QED BY <1>1, <1>5, <1>6, <1>7, <1>8, Turns DEF ChatTyped

-----------------------------------------------------------------------------
(* What a reply told is shown                                               *)

ShownNow(t) == \E i \in 1..Len(chat') : Includes(chat'[i].text, t)
ToldShown ==
  \/ told' = told
  \/ told' = Append(told, job.chunks) /\ \A n \in 1..Len(job.chunks) : ShownNow(job.chunks[n])

LEMMA ShownIfKnown ==
  ASSUME NEW c \in Messages, c.text = c.known, NEW t \in Texts, Includes(BaseText(c), t)
  PROVE  Includes(c.text, t)
<1>1. CASE c.known \in Texts
  BY <1>1, BaseTyped
<1>2. CASE c.known \notin Texts
  <2>1. PICK e : e = <<>>
    OBVIOUS
  <2>2. Includes(e, t) /\ e \in Texts /\ Len(e) = 0
    BY <1>2, <2>1, BaseTyped DEF Texts
  <2>3. Len(t) = 0
    <3>1. PICK k \in Int : StandsAt(e, t, k)
      BY <2>2, IncludesIs DEF Texts
    <3>2. Len(t) \in Nat /\ k \in 0..(0 - Len(t))
      BY <2>2, <3>1, TextTyped DEF Texts, StandsAt
    <3> QED BY ONLY <3>2
  <2>4. t = <<>>
    BY <2>3, TextTyped DEF Texts
  <2>5. c.text \in Seq(Characters)
    BY ShownTyped DEF Messages
  <2> QED BY <2>4, <2>5, IncludesBasics
<1> QED BY <1>1, <1>2

LEMMA GoesTo ==
  ASSUME Base, Replying, NEW at \in Nat, at >= 1
  PROVE  /\ Moves(at) \in {"posting", "files", "stopping", "done"}
         /\ Moves(at) = "posting" <=> at <= Len(job.chunks)
         /\ Len(job.chunks) \in Nat
<1>1. job \in Jobs /\ job.then # "stop"
  BY DEF Base, Typed, RunTyped, ReplyInv
<1>2. Len(job.chunks) \in Nat
  BY <1>1, TextTyped DEF Jobs
<1>3. job.then \in {"files", "stopping", "failed", "done"}
  BY <1>1 DEF Jobs
<1>4. CASE at <= Len(job.chunks)
  BY <1>2, <1>4 DEF Moves
<1>5. CASE ~(at <= Len(job.chunks)) /\ job.then = "failed"
  BY <1>2, <1>5 DEF Moves
<1>6. CASE ~(at <= Len(job.chunks)) /\ job.then # "failed"
  <2>1. Moves(at) = job.then
    BY <1>2, <1>6 DEF Moves
  <2> QED BY <1>2, <1>3, <1>6, <2>1
<1> QED BY <1>4, <1>5, <1>6

(* One more chunk can be read.                                              *)
LEMMA ChunkTold ==
  ASSUME Base, pc \in {"patching", "posting"}, NEW at \in Nat, at \in 1..Len(job.chunks),
         Grown(chat, chat'), ShownNow(job.chunks[at]),
         \A n \in 1..(at - 1) : InChat(job.chunks[n]),
         NEW to, to = at + 1, pc' = Moves(to), told' = Arrived(to),
         job' \in Jobs, job'.at = to, job'.chunks = job.chunks, job'.then = job.then
  PROVE  pc' \in Places /\ ReplyInv' /\ told' \in Seq(Seq(Texts)) /\ ToldShown
         /\ pc' \notin {"waiting", "opening", "prompting", "closing", "patching"}
<1> USE DEF Base, Typed
<1>1. /\ pc' \in {"posting", "files", "stopping", "done"}
      /\ pc' = "posting" <=> to <= Len(job.chunks)
      /\ Len(job.chunks) \in Nat
  BY GoesTo DEF Replying
<1>2. job.chunks \in Seq(Texts) /\ job.then # "stop"
  BY DEF RunTyped, Jobs, ReplyInv, Replying
<1>3. ASSUME NEW n \in 1..at PROVE ShownNow(job.chunks[n])
  <2>1. CASE n = at
    BY <2>1
  <2>2. CASE n # at
    <3>1. n \in 1..(at - 1) /\ n \in 1..Len(job.chunks)
      BY <1>1, <2>2
    <3>2. job.chunks[n] \in Texts
      BY <1>2, <3>1, ElementOfSeq
    <3>3. PICK i \in 1..Len(chat) : Includes(chat[i].text, job.chunks[n])
      BY <3>1 DEF InChat
    <3>4. i \in 1..Len(chat') /\ Includes(chat'[i].text, job.chunks[n])
      BY <3>2, <3>3, ChatSound, InChatStays
    <3> QED BY <3>4 DEF ShownNow
  <2> QED BY <2>1, <2>2
<1>4. ReplyInv'
  <2>1. CASE pc' = "posting"
    <3>1. job'.at \in 1..Len(job'.chunks)
      BY <1>1, <2>1
    <3>2. \A n \in 1..(job'.at - 1) : ShownNow(job'.chunks[n])
      <4> TAKE n \in 1..(job'.at - 1)
      <4>1. n \in 1..at
        OBVIOUS
      <4>2. ShownNow(job.chunks[n])
        BY <1>3, <4>1
      <4> QED BY <4>2
    <3>3. (\A n \in 1..(job.at - 1) : InChat(job.chunks[n]))'
      BY <3>2 DEF ShownNow, InChat
    <3> QED BY <1>2, <2>1, <3>1, <3>3 DEF ReplyInv, Replying
  <2>2. CASE pc' # "posting"
    BY <1>1, <2>2 DEF ReplyInv, Replying
  <2> QED BY <2>1, <2>2
<1>5. told' \in Seq(Seq(Texts)) /\ ToldShown
  <2>1. CASE to <= Len(job.chunks)
    BY <1>1, <2>1 DEF Arrived, ToldShown, ChatTyped
  <2>2. CASE ~(to <= Len(job.chunks))
    <3>1. told' = Append(told, job.chunks)
      BY <1>1, <2>2 DEF Arrived
    <3>2. \A n \in 1..Len(job.chunks) : ShownNow(job.chunks[n])
      BY <1>1, <1>3, <2>2
    <3>3. told' \in Seq(Seq(Texts))
      <4>1. told \in Seq(Seq(Texts))
        BY DEF ChatTyped
      <4> QED BY ONLY <1>2, <3>1, <4>1, AppendProperties
    <3> QED BY <3>1, <3>2, <3>3 DEF ToldShown
  <2> QED BY <2>1, <2>2
<1> QED BY <1>1, <1>4, <1>5 DEF Places

LEMMA PatchEndsStep == ASSUME Base, NEW o, PatchEnds(o) PROVE Step /\ ToldShown
<1> USE DEF Base, Typed
<1>1. UNCHANGED <<said, asked, files, busy, typing, reaction>> /\ pc = "patching"
      /\ StreamTyped' /\ PulseTyped'
  BY DEF PatchEnds, StreamTyped, PulseTyped, streamVars, pulseVars, Idle
<1>2. failures' \in Nat
  BY FailuresTyped DEF PatchEnds, ChatTyped
<1>3. PICK c : c = chat[job.card]
  OBVIOUS
<1>4. /\ job.card \in 1..Len(chat) /\ job.chunks \in Seq(Texts) /\ job.chunks # <<>>
      /\ job.chunks[1] \in Texts /\ job.at = 1 /\ Len(job.chunks) \in Nat \ {0}
      /\ job.put <= c.number + 1 /\ Includes(BaseText(c), job.chunks[1])
      /\ c \in Messages /\ CardInv(c) /\ job \in Jobs /\ job.put \in Nat
  BY <1>1, <1>3, FirstChunk, CardOf DEF ReplyInv, RunTyped, Jobs
<1>5. CASE o = "ok" /\ job.put > c.seq
  <2>1. PICK d : d = [c EXCEPT !.open = FALSE, !.seq = job.put, !.number = job.put]
    OBVIOUS
  <2>2. d \in Messages /\ Kept(c, d) /\ c.text = c.known
    BY <1>4, <1>5, <2>1, ClosingDone
  <2>3. chat' = Changed(chat, job.card, d)
    <3>1. chat' = [chat EXCEPT ![job.card] =
                     [c EXCEPT !.open = FALSE, !.seq = job.put, !.number = job.put]]
      BY <1>3, <1>5 DEF PatchEnds
    <3> QED BY <2>1, <3>1, Zenon DEF Changed
  <2>4. Grown(chat, chat') /\ Len(chat') = Len(chat) /\ chat'[job.card] = d
    BY <1>3, <1>4, <2>2, <2>3, CardChanges
  <2>5. Includes(chat'[job.card].text, job.chunks[1])
    <3>1. Includes(c.text, job.chunks[1])
      BY <1>4, <2>2, ShownIfKnown
    <3> QED BY <1>4, <2>2, <2>4, <3>1, ShownStays DEF Kept
  <2>6. ShownNow(job.chunks[1])
    BY <1>4, <2>4, <2>5 DEF ShownNow
  <2>7. job' = [job EXCEPT !.at = 2] /\ pc' = Moves(2) /\ told' = Arrived(2) /\ session' = 0
    BY <1>3, <1>5 DEF PatchEnds, ForgetCard
  <2>8. job' \in Jobs /\ job'.at = 2 /\ job'.chunks = job.chunks /\ job'.then = job.then
    BY <1>4, <2>7 DEF Jobs
  <2>9. pc' \in Places /\ ReplyInv' /\ told' \in Seq(Seq(Texts)) /\ ToldShown
        /\ pc' \notin {"waiting", "opening", "prompting", "closing", "patching"}
    <3>1. 1 \in 1..Len(job.chunks) /\ 2 = 1 + 1 /\ \A n \in 1..(1 - 1) : InChat(job.chunks[n])
      BY <1>4
    <3> QED BY <1>1, <2>4, <2>6, <2>7, <2>8, <3>1, ChunkTold
  <2>10. RunTyped' /\ SaidInv'
    BY <1>1, <2>8, <2>9, SaidStays DEF RunTyped
  <2>11. session' \in 0..Len(chat')
    BY <2>4, <2>7, ChatSound
  <2> QED BY <1>1, <1>2, <2>4, <2>9, <2>10, <2>11, Turns DEF ChatTyped
<1>6. CASE ~(o = "ok" /\ job.put > c.seq)
  <2>1. GivesUpTheCard /\ told' = told
    BY <1>3, <1>6 DEF PatchEnds
  <2>2. pc' = "posting" /\ job' \in Jobs /\ session' = 0 /\ ReplyInv'
    BY <1>1, <2>1, GivesUp
  <2>3. Grown(chat, chat') /\ Len(chat') = Len(chat)
    <3>1. CASE o # "refused" /\ job.put > c.seq
      <4>1. PICK d : d = [c EXCEPT !.open = FALSE, !.seq = job.put]
        OBVIOUS
      <4>2. Kept(c, d)
        BY <1>4, <3>1, <4>1, ClosingDone
      <4>3. chat' = Changed(chat, job.card, d)
        <5>1. chat' = [chat EXCEPT ![job.card] = [c EXCEPT !.open = FALSE, !.seq = job.put]]
          BY <1>3, <1>6, <3>1 DEF PatchEnds
        <5> QED BY <4>1, <5>1, Zenon DEF Changed
      <4> QED BY <1>3, <1>4, <4>2, <4>3, CardChanges
    <3>2. CASE ~(o # "refused" /\ job.put > c.seq)
      <4>1. chat' = chat
        BY <1>3, <1>6, <3>2 DEF PatchEnds
      <4> QED BY <4>1, ChatSound
    <3> QED BY <3>1, <3>2
  <2>4. RunTyped' /\ SaidInv'
    BY <1>1, <2>2, SaidStays DEF RunTyped, Places
  <2>5. session' \in 0..Len(chat')
    BY <2>2, <2>3, ChatSound
  <2>6. typing' \in BOOLEAN /\ reaction' \in BOOLEAN /\ told' \in Seq(Seq(Texts))
    BY <1>1, <2>1 DEF ChatTyped
  <2>7. Step
    BY <1>1, <1>2, <2>2, <2>3, <2>4, <2>5, <2>6, Turns
  <2> QED BY <2>1, <2>7 DEF ToldShown
<1> QED BY <1>5, <1>6

LEMMA PostsStep == ASSUME Base, NEW o, Posts(o) PROVE Step /\ ToldShown
<1> USE DEF Base, Typed
<1>1. UNCHANGED <<said, asked, files, session, typing, reaction>> /\ pc = "posting"
      /\ StreamTyped' /\ PulseTyped'
  BY DEF Posts, StreamTyped, PulseTyped, streamVars, pulseVars, clientVars, Idle
<1>2. failures' \in Nat
  BY FailuresTyped DEF Posts, ChatTyped
<1>3. /\ job.at \in 1..Len(job.chunks) /\ job.at \in Nat /\ job.chunks \in Seq(Texts)
      /\ job \in Jobs /\ job.then # "stop"
      /\ \A n \in 1..(job.at - 1) : InChat(job.chunks[n])
  BY <1>1 DEF ReplyInv, Replying, RunTyped, Jobs
<1>4. job.chunks[job.at] \in Texts
  BY <1>3, ElementOfSeq
<1>5. PICK m : m = Plain(job.chunks[job.at])
  OBVIOUS
<1>6. m \in Messages /\ CardInv(m) /\ m.text = job.chunks[job.at]
  BY <1>4, <1>5, NewPlain
<1>7. PICK seen : seen = IF o = "refused" THEN chat ELSE Append(chat, m)
  OBVIOUS
<1>8. Grown(chat, seen) /\ Len(chat) <= Len(seen) /\ Len(seen) \in Nat
      /\ (o # "refused" => Len(chat) + 1 \in 1..Len(seen) /\ seen[Len(chat) + 1] = m)
  <2>1. CASE o = "refused"
    BY <1>7, <2>1, ChatSound
  <2>2. CASE o # "refused"
    <3>1. seen = Append(chat, m)
      BY <1>7, <2>2
    <3>2. Sound(chat) /\ Len(chat) \in Nat
      BY ChatSound
    <3>3. Grown(chat, seen) /\ Len(seen) = Len(chat) + 1 /\ seen[Len(chat) + 1] = m
      BY <1>6, <3>1, <3>2, GrownByOne
    <3> QED BY <3>2, <3>3
  <2> QED BY <2>1, <2>2
<1>9. session \in 0..Len(seen)
  BY <1>8, ChatSound DEF ChatTyped
<1>10. typing' \in BOOLEAN /\ reaction' \in BOOLEAN
  BY <1>1 DEF ChatTyped
<1>11. CASE o = "ok"
  <2>1. chat' = seen /\ job' = [job EXCEPT !.at = job.at + 1]
        /\ pc' = Moves(job.at + 1) /\ told' = Arrived(job.at + 1) /\ busy' = busy
    BY <1>5, <1>7, <1>11 DEF Posts
  <2>2. job' \in Jobs /\ job'.at = job.at + 1 /\ job'.chunks = job.chunks /\ job'.then = job.then
    BY <1>3, <2>1 DEF Jobs
  <2>3. ShownNow(job.chunks[job.at])
    <3>1. Includes(m.text, job.chunks[job.at])
      BY <1>4, <1>6, IncludesBasics DEF Texts
    <3>2. Len(chat) + 1 \in 1..Len(chat') /\ chat'[Len(chat) + 1] = m
      BY <1>8, <1>11, <2>1
    <3> QED BY <3>1, <3>2 DEF ShownNow
  <2>4. pc' \in Places /\ ReplyInv' /\ told' \in Seq(Seq(Texts)) /\ ToldShown
        /\ pc' \notin {"waiting", "opening", "prompting", "closing", "patching"}
    <3>1. PICK to : to = job.at + 1
      OBVIOUS
    <3>2. PICK at : at = job.at
      OBVIOUS
    <3>3. /\ at \in Nat /\ at \in 1..Len(job.chunks) /\ ShownNow(job.chunks[at])
          /\ \A n \in 1..(at - 1) : InChat(job.chunks[n])
          /\ to = at + 1 /\ pc' = Moves(to) /\ told' = Arrived(to) /\ job'.at = to
      BY <1>3, <2>1, <2>2, <2>3, <3>1, <3>2
    <3>4. Grown(chat, chat')
      BY <1>8, <2>1
    <3> QED BY <1>1, <2>2, <3>3, <3>4, ChunkTold
  <2>5. RunTyped' /\ SaidInv'
    BY <1>1, <2>1, <2>2, <2>4, SaidStays DEF RunTyped
  <2> QED BY <1>1, <1>2, <1>8, <1>9, <1>10, <2>1, <2>4, <2>5, Turns
<1>12. CASE o # "ok"
  <2>1. Throws(seen) /\ told' = told
    BY <1>5, <1>7, <1>12 DEF Posts
  <2>2. told' \in Seq(Seq(Texts)) /\ ToldShown
    BY <2>1 DEF ChatTyped, ToldShown
  <2>3. CASE job.then \in {"failed", "done"}
    <3>1. pc' \in {"stopping", "done"} /\ chat' = seen /\ job' = job /\ busy' \in BOOLEAN
      BY <2>1, <2>3 DEF Throws, RunTyped
    <3>2. RunTyped' /\ SaidInv' /\ ReplyInv'
      BY <1>1, <3>1, SaidStays DEF RunTyped, Places, ReplyInv, Replying
    <3>3. Step
      BY <1>1, <1>2, <1>8, <1>9, <1>10, <2>2, <3>1, <3>2, Turns
    <3> QED BY <2>2, <3>3
  <2>4. CASE job.then \notin {"failed", "done"}
    <3>1. Reply(seen, Words, "failed") /\ busy' = busy
      BY <2>1, <2>4 DEF Throws
    <3>2. /\ Grown(chat, chat') /\ job' \in Jobs /\ pc' \in {"closing", "posting"} /\ ReplyInv'
          /\ session \in 0..Len(chat')
      BY <1>8, <3>1, WordsTyped, ReplyStarts
    <3>3. RunTyped' /\ SaidInv'
      BY <1>1, <3>1, <3>2, SaidStays DEF RunTyped, Places
    <3>4. Step
      BY <1>1, <1>2, <1>10, <2>2, <3>2, <3>3, Turns
    <3> QED BY <2>2, <3>4
  <2> QED BY <2>3, <2>4
<1> QED BY <1>11, <1>12

LEMMA ToldAlone ==
  ASSUME Base, Next, ~(\E o \in Outcomes : PatchEnds(o) \/ Posts(o))
  PROVE  Step /\ told' = told
<1>1. CASE \E i \in DOMAIN chat : PutStarts(i) \/ \E o \in Outcomes : PutEnds(i, o)
  <2>1. PICK i \in DOMAIN chat : PutStarts(i) \/ \E o \in Outcomes : PutEnds(i, o)
    BY <1>1
  <2>2. i \in 1..Len(chat)
    <3>1. chat \in Seq(Messages)
      BY DEF Base, Typed, ChatTyped
    <3> QED BY <2>1, <3>1, LenProperties
  <2> QED BY <2>1, <2>2, PutStartsStep, PutEndsStep DEF PutStarts, PutEnds, history
<1>2. CASE \E o \in Outcomes : PulseCard(o) \/ Reacts(o)
  BY <1>2, PulseCardStep, ReactsStep DEF PulseCard, Reacts, history
<1>3. CASE \E o \in Outcomes : StreamCard(o) \/ StreamPosts(o)
  BY <1>3, StreamCardStep, StreamPostsStep DEF StreamCard, StreamPosts, history
<1>4. CASE WorkingStarts \/ WorkingEnds \/ Tick
  BY <1>4, WorkingStartsStep, WorkingEndsStep, TickStep DEF WorkingStarts, WorkingEnds, Tick, history
<1>5. CASE StreamStarts \/ StreamEnds
  BY <1>5, StreamStartsStep, StreamEndsStep DEF StreamStarts, StreamEnds, history
<1>6. CASE SessionReady \/ Opens \/ Speaks \/ PromptEnds \/ Stops
  BY <1>6, OpensStep, SpeaksStep, PromptEndsStep, StopsStep
  DEF SessionReady, Opens, Speaks, PromptEnds, Stops, history
<1>7. CASE RunFails \/ Flushed \/ SecondPromptEnds \/ Closes \/ Settles
  BY <1>7, RunFailsStep, FlushedStep, ClosesStep, SettlesStep
  DEF RunFails, Flushed, SecondPromptEnds, Closes, Settles, history
<1>8. CASE \E arrives \in BOOLEAN : Uploads(arrives)
  BY <1>8, UploadsStep DEF Uploads, history
<1> QED BY <1>1, <1>2, <1>3, <1>4, <1>5, <1>6, <1>7, <1>8 DEF Next, RunStep, PulseStep, StreamStep, CardStep

LEMMA BaseStep == ASSUME Base, [Next]_vars PROVE Step /\ ToldShown
<1>1. CASE UNCHANGED vars
  <2>1. UNCHANGED <<runVars, told, chat>> /\ UNCHANGED <<session, typing, reaction, failures>>
    BY <1>1 DEF vars, clientVars, serverVars, history
  <2>2. StreamTyped' /\ PulseTyped'
    BY <1>1 DEF vars, streamVars, pulseVars, Base, Typed, StreamTyped, PulseTyped, Idle
  <2>3. Step
    BY <2>1, <2>2, Aside DEF Base, Typed, ChatTyped
  <2> QED BY <2>1, <2>3 DEF ToldShown
<1>2. CASE Next /\ \E o \in Outcomes : PatchEnds(o) \/ Posts(o)
  BY <1>2, PatchEndsStep, PostsStep
<1>3. CASE Next /\ ~(\E o \in Outcomes : PatchEnds(o) \/ Posts(o))
  BY <1>3, ToldAlone DEF ToldShown
<1> QED BY <1>1, <1>2, <1>3

LEMMA BaseInit == Init => Base
<1> SUFFICES ASSUME Init PROVE Base
  OBVIOUS
<1>1. PICK e : e = <<>>
  OBVIOUS
<1>2. /\ pend = e /\ last = e /\ chain = e /\ said = e /\ told = e /\ chat = e
      /\ e \in Texts /\ e \in Seq(Texts) /\ e \in Seq(Seq(Texts)) /\ e \in Seq(Messages)
      /\ Len(e) = 0
  BY <1>1 DEF Init, Texts
<1>3. RunTyped
  <2>1. job \in Jobs
    <3>1. job = [chunks |-> e, at |-> 0, card |-> 0, put |-> 0, then |-> "stop"]
      BY <1>1 DEF Init
    <3> QED BY <1>2, <3>1 DEF Jobs
  <2>2. pc = "waiting" /\ asked = 0 /\ files \in BOOLEAN /\ busy = FALSE
    BY DEF Init
  <2>3. pc \in Places /\ said \in Seq(Texts) /\ asked \in 0..2
    BY <1>2, <2>2 DEF Places
  <2> QED BY <2>1, <2>2, <2>3 DEF RunTyped
<1>4. StreamTyped
  BY <1>2 DEF StreamTyped, Init
<1>5. PulseTyped
  <2>1. pulses \in Seq(BOOLEAN) /\ Idle
    BY DEF Init, Idle
  <2>2. ticks = 0 /\ closed = FALSE
    BY DEF Init
  <2> QED BY <2>1, <2>2 DEF PulseTyped, Idle
<1>6. ChatTyped
  <2>1. session = 0 /\ typing = FALSE /\ reaction = FALSE /\ failures = 0
    BY DEF Init
  <2>2. session \in 0..Len(chat) /\ failures \in Nat
    BY <1>2, <2>1
  <2>3. chat \in Seq(Messages) /\ told \in Seq(Seq(Texts))
    BY <1>2
  <2>4. typing \in BOOLEAN /\ reaction \in BOOLEAN
    BY <2>1
  <2> QED BY <2>2, <2>3, <2>4 DEF ChatTyped
<1>7. SaidInv /\ CardsInv /\ ReplyInv
  BY <1>2 DEF SaidInv, CardsInv, ReplyInv, Replying, Init
<1> QED BY <1>3, <1>4, <1>5, <1>6, <1>7 DEF Base, Typed

(* The types of the answer's state, and with them: what was said is a       *)
(* beginning of what the model has to say (Speaks); server and client agree *)
(* about a card's text unless the response of updateCardKitContent() to the *)
(* last accepted write was lost (Written); and the text of a reply() under  *)
(* way is queued on its card, in its card or in the chat (Reply, Closes,    *)
(* PutEnds, Posts).                                                         *)
THEOREM ReplyInvariance == Spec => []Base
<1>1. Base /\ [Next]_vars => Base'
  BY BaseStep DEF Step
<1> QED BY <1>1, BaseInit, PTL DEF Spec

LEMMA FinalStep == ASSUME Base, [Next]_vars, FinalTextShown PROVE FinalTextShown'
<1>1. Step /\ ToldShown /\ Sound(chat)
  BY BaseStep, ChatSound
<1>2. told \in Seq(Seq(Texts)) /\ told' \in Seq(Seq(Texts))
  BY <1>1 DEF Step, Base, Typed, ChatTyped
<1>3. chat \in Seq(Messages) /\ chat' \in Seq(Messages)
  BY <1>1 DEF Step, Base, Typed, ChatTyped
<1>4. ASSUME NEW k \in 1..Len(told), NEW n \in 1..Len(told[k])
      PROVE  \E i \in 1..Len(chat') : Includes(chat'[i].text, told[k][n])
  <2>1. told[k] \in Seq(Texts)
    BY <1>2, ElementOfSeq
  <2>2. told[k][n] \in Texts
    BY <2>1, ElementOfSeq
  <2>3. PICK i \in 1..Len(chat) : Includes(chat[i].text, told[k][n])
    BY <1>2, <1>3, <2>1, LenProperties DEF FinalTextShown
  <2>4. i \in 1..Len(chat') /\ Includes(chat'[i].text, told[k][n])
    BY <1>1, <2>2, <2>3, InChatStays DEF Step
  <2> QED BY <2>4
<1>5. ASSUME NEW k \in 1..Len(told'), NEW n \in 1..Len(told'[k])
      PROVE  \E i \in 1..Len(chat') : Includes(chat'[i].text, told'[k][n])
  <2>1. CASE told' = told
    BY <1>4, <1>5, <2>1
  <2>2. CASE told' # told
    <3>1. told' = Append(told, job.chunks)
          /\ \A m \in 1..Len(job.chunks) : ShownNow(job.chunks[m])
      BY <1>1, <2>2 DEF ToldShown
    <3>2. job.chunks \in Seq(Texts)
      BY DEF Base, Typed, RunTyped, Jobs
    <3>3. Len(told') = Len(told) + 1 /\ Len(told) \in Nat /\ told'[Len(told) + 1] = job.chunks
          /\ \A j \in 1..Len(told) : told'[j] = told[j]
      BY ONLY <1>2, <3>1, <3>2, AppendProperties, LenProperties
    <3>4. CASE k = Len(told) + 1
      <4>1. told'[k] = job.chunks
        BY <3>3, <3>4
      <4>2. ShownNow(job.chunks[n])
        BY <3>1, <4>1
      <4> QED BY <4>1, <4>2 DEF ShownNow
    <3>5. CASE k # Len(told) + 1
      <4>1. k \in 1..Len(told) /\ told'[k] = told[k]
        BY <3>3, <3>5
      <4>2. n \in 1..Len(told[k])
        BY <4>1
      <4>3. \E i \in 1..Len(chat') : Includes(chat'[i].text, told[k][n])
        BY <1>4, <4>1, <4>2
      <4> QED BY <4>1, <4>3
    <3> QED BY <3>4, <3>5
  <2> QED BY <2>1, <2>2
<1>6. DOMAIN told' = 1..Len(told') /\ DOMAIN chat' = 1..Len(chat')
  BY <1>2, <1>3, LenProperties
<1>7. \A k \in 1..Len(told') : DOMAIN told'[k] = 1..Len(told'[k])
  <2> TAKE k \in 1..Len(told')
  <2>1. told'[k] \in Seq(Texts)
    BY <1>2, ElementOfSeq
  <2> QED BY <2>1, LenProperties
<1> QED BY <1>5, <1>6, <1>7 DEF FinalTextShown

(* A reply() that succeeded shows every chunk of its text whole in some     *)
(* message of the chat, in every later state: the queue of a card merges and *)
(* never replaces (updateCardKitSession), closeCardKitSession() closes only a *)
(* card whose queue it has awaited, and what it could not write is sent as  *)
(* messages of their own.                                                   *)
THEOREM FinalText == Spec => []FinalTextShown
<1>1. Init => FinalTextShown
  BY DEF Init, FinalTextShown
<1>2. Base /\ FinalTextShown /\ [Next]_vars => FinalTextShown'
  BY FinalStep
<1> QED BY <1>1, <1>2, ReplyInvariance, PTL DEF Spec

(* No step takes text from a message of the chat, but for the placeholder: a *)
(* write of updateCardKitContent() is merged with the text the client knows, *)
(* and one that does not know what the server has comes with a sequence     *)
(* number that the server refuses.                                          *)
THEOREM CardsGrow == Spec => CardTextGrows
<1>1. Base /\ [Next]_vars =>
        [\A i \in DOMAIN chat :
           chat[i].text = <<Thinking>> \/ Includes(chat'[i].text, chat[i].text)]_vars
  <2> SUFFICES ASSUME Base, [Next]_vars, NEW i \in DOMAIN chat
               PROVE  chat[i].text = <<Thinking>> \/ Includes(chat'[i].text, chat[i].text)
    OBVIOUS
  <2>1. i \in 1..Len(chat)
    BY LenProperties DEF Base, Typed, ChatTyped
  <2>2. Kept(chat[i], chat'[i])
    BY <2>1, BaseStep DEF Step, Grown
  <2> QED BY <2>2 DEF Kept, Grows
<1> QED BY <1>1, ReplyInvariance, PTL DEF Spec, CardTextGrows

-----------------------------------------------------------------------------
(* The typing reaction                                                      *)

LEMMA PulseApart ==
  ASSUME Base, PulseInv, UNCHANGED <<pulseVars, typing, reaction>>, failures' = 0 => failures = 0,
         Late' <=> Late
  PROVE  PulseInv'
<1>1. UNCHANGED <<pulses, work, closed, typing, reaction>>
  BY DEF pulseVars
<1>2. PulseChain'
  BY <1>1 DEF PulseInv, PulseChain, Idle
<1>3. Reacted'
  BY <1>1 DEF PulseInv, Reacted
<1>4. (closed <=> Late)'
  BY <1>1 DEF PulseInv
<1> QED BY <1>2, <1>3, <1>4 DEF PulseInv

LEMMA FailuresGrow == ASSUME Base, NEW o, Ends(o) PROVE failures' = 0 => failures = 0 /\ o = "ok"
BY DEF Ends, Base, Typed, ChatTyped

(* Whether the pulse is stopped, the step leaves as it is.                  *)
LEMMA RunLate ==
  ASSUME Base, Next, ~Stops
  PROVE  Late' <=> Late
<1>1. CASE UNCHANGED runVars
  BY <1>1 DEF runVars, Late, Replying
<1>2. CASE SessionReady \/ Opens \/ PromptEnds \/ Closes \/ Speaks
  <2>1. CASE SessionReady \/ Opens \/ PromptEnds
    BY <2>1 DEF SessionReady, Opens, PromptEnds, Late, Replying
  <2>2. CASE Closes
    <3>1. job' = [job EXCEPT !.put = chat[job.card].number + 1] /\ job \in Jobs
          /\ pc = "closing" /\ pc' = "patching"
      BY <2>2 DEF Closes, Base, Typed, RunTyped
    <3>2. job'.then = job.then
      BY <3>1 DEF Jobs
    <3> QED BY <3>1, <3>2 DEF Late, Replying
  <2>3. CASE Speaks
    <3>1. UNCHANGED <<pc, job>>
      BY <2>3 DEF Speaks
    <3> QED BY <3>1 DEF Late, Replying
  <2> QED BY <1>2, <2>1, <2>2, <2>3
<1>3. \A seen, chunks, then : Reply(seen, chunks, then) => pc' \in {"closing", "posting"} /\ job'.then = then
  BY DEF Reply
<1>4. CASE RunFails
  <2>1. Reply(chat, Words, "failed") /\ pc \in {"opening", "prompting"}
    BY <1>4 DEF RunFails
  <2> QED BY <1>3, <2>1 DEF Late, Replying
<1>5. CASE Flushed \/ SecondPromptEnds
  <2>1. pc \in {"flushing", "prompting"} /\ Decide
    BY <1>5 DEF Flushed, SecondPromptEnds
  <2>2. pc' \in {"files", "prompting"} \/ Reply(chat, Chunks(Joined), "files")
        \/ Reply(chat, Words, "stopping")
    BY <2>1 DEF Decide
  <2> QED BY <1>3, <2>1, <2>2 DEF Late, Replying
<1>6. CASE \E arrives \in BOOLEAN : Uploads(arrives)
  <2>1. PICK arrives \in BOOLEAN : Uploads(arrives)
    BY <1>6
  <2>2. pc = "files" /\ (pc' = "stopping" \/ \E then \in {"stopping", "failed"} : Reply(chat, Words, then))
    BY <2>1 DEF Uploads
  <2> QED BY <1>3, <2>2 DEF Late, Replying
<1>7. CASE Settles
  <2>1. pc = "cancelling" /\ (pc' = "done" \/ Reply(chat, Words, "done"))
    BY <1>7 DEF Settles
  <2> QED BY <1>3, <2>1 DEF Late, Replying
<1>8. job \in Jobs /\ job.then \in {"stop", "files", "stopping", "failed", "done"}
      /\ (Replying => job.then # "stop") /\ job.at \in Nat
  BY DEF Base, Typed, RunTyped, ReplyInv, Jobs
<1>9. ASSUME NEW at \in Nat, at >= 1, pc' = Moves(at), pc \in {"patching", "posting"},
             job'.then = job.then
      PROVE  Late' <=> Late
  <2>1. Len(job.chunks) \in Nat
    BY <1>8, TextTyped DEF Jobs
  <2>2. CASE at <= Len(job.chunks)
    <3>1. pc' = "posting"
      BY <1>9, <2>1, <2>2 DEF Moves
    <3> QED BY <1>9, <3>1 DEF Late, Replying
  <2>3. CASE ~(at <= Len(job.chunks)) /\ job.then = "failed"
    <3>1. pc' = "stopping"
      BY <1>9, <2>1, <2>3 DEF Moves
    <3> QED BY <1>9, <2>3, <3>1 DEF Late, Replying
  <2>4. CASE ~(at <= Len(job.chunks)) /\ job.then # "failed"
    <3>1. pc' = job.then
      BY <1>9, <2>1, <2>4 DEF Moves
    <3> QED BY <1>8, <1>9, <2>4, <3>1 DEF Late, Replying
  <2> QED BY <2>2, <2>3, <2>4
<1>10. ASSUME GivesUpTheCard, pc \in {"closing", "patching"} PROVE Late' <=> Late
  <2>1. pc' = "posting" /\ job'.then = job.then
    BY <1>8, <1>10 DEF GivesUpTheCard, Jobs
  <2> QED BY <1>10, <2>1 DEF Late, Replying
<1>11. CASE \E o \in Outcomes : PatchEnds(o)
  <2>1. PICK o \in Outcomes : PatchEnds(o)
    BY <1>11
  <2>2. pc = "patching" /\ (GivesUpTheCard \/ (job' = [job EXCEPT !.at = 2] /\ pc' = Moves(2)))
    BY <2>1 DEF PatchEnds
  <2>3. CASE job' = [job EXCEPT !.at = 2] /\ pc' = Moves(2)
    <3>1. job'.then = job.then
      BY <1>8, <2>3 DEF Jobs
    <3> QED BY <1>9, <2>2, <2>3, <3>1
  <2> QED BY <1>10, <2>2, <2>3
<1>12. CASE \E o \in Outcomes : Posts(o)
  <2>1. PICK o \in Outcomes : Posts(o)
    BY <1>12
  <2>2. pc = "posting"
        /\ \/ \E seen : Throws(seen)
           \/ job' = [job EXCEPT !.at = job.at + 1] /\ pc' = Moves(job.at + 1)
    BY <2>1 DEF Posts
  <2>3. CASE \E seen : Throws(seen)
    <3>1. PICK seen : Throws(seen)
      BY <2>3
    <3>2. CASE job.then = "failed"
      BY <2>2, <3>1, <3>2 DEF Throws, Late, Replying
    <3>3. CASE job.then = "done"
      BY <2>2, <3>1, <3>3 DEF Throws, Late, Replying
    <3>4. CASE job.then \notin {"failed", "done"}
      <4>1. Reply(seen, Words, "failed")
        BY <3>1, <3>4 DEF Throws
      <4> QED BY <1>3, <2>2, <3>4, <4>1 DEF Late, Replying
    <3> QED BY <3>2, <3>3, <3>4
  <2>4. CASE job' = [job EXCEPT !.at = job.at + 1] /\ pc' = Moves(job.at + 1)
    <3>1. job'.then = job.then /\ job.at + 1 \in Nat /\ job.at + 1 >= 1
      BY <1>8, <2>4 DEF Jobs
    <3> QED BY <1>9, <2>2, <2>4, <3>1
  <2> QED BY <2>2, <2>3, <2>4
<1>13. CASE CardStep
  <2>1. PICK i \in DOMAIN chat : PutStarts(i) \/ \E o \in Outcomes : PutEnds(i, o)
    BY <1>13 DEF CardStep
  <2>2. CASE PutStarts(i)
    BY <1>1, <2>2 DEF PutStarts
  <2>3. CASE \E o \in Outcomes : PutEnds(i, o)
    <3>1. UNCHANGED <<pc, job>> \/ (GivesUpTheCard /\ pc = "closing")
      BY <2>3 DEF PutEnds
    <3> QED BY <1>10, <3>1 DEF Late, Replying
  <2> QED BY <2>1, <2>2, <2>3
<1>14. CASE PulseStep \/ StreamStep \/ Tick
  <2>1. UNCHANGED runVars
    BY <1>14 DEF PulseStep, StreamStep, Tick, WorkingStarts, WorkingEnds, PulseCard, Reacts,
                 StreamStarts, StreamEnds, StreamCard, StreamPosts
  <2> QED BY <1>1, <2>1
<1> QED BY <1>2, <1>4, <1>5, <1>6, <1>7, <1>11, <1>12, <1>13, <1>14 DEF Next, RunStep

LEMMA PulseTypes ==
  ASSUME Base
  PROVE  /\ pulses \in Seq(BOOLEAN) /\ Len(pulses) \in Nat /\ typing \in BOOLEAN
         /\ closed \in BOOLEAN /\ reaction \in BOOLEAN /\ failures \in Nat
         /\ work \in [card : {"idle", "creating", "done"},
                      typing : {"idle", "creating", "deleting", "done"}]
         /\ pulses = <<>> <=> Len(pulses) = 0
         /\ pulses = <<>> => Idle
         /\ pulses # <<>> => Head(pulses) = pulses[1] /\ Head(pulses) \in BOOLEAN
                             /\ \A k \in 1..Len(pulses) : pulses[k] \in BOOLEAN
<1>1. pulses \in Seq(BOOLEAN)
  BY DEF Base, Typed, PulseTyped
<1>2. Len(pulses) \in Nat /\ (pulses = <<>> <=> Len(pulses) = 0)
      /\ \A k \in 1..Len(pulses) : pulses[k] \in BOOLEAN
  BY <1>1, TextTyped
<1>3. pulses # <<>> => Head(pulses) = pulses[1] /\ Head(pulses) \in BOOLEAN
  BY <1>1, HeadTailProperties
<1> QED BY <1>1, <1>2, <1>3 DEF Base, Typed, PulseTyped, ChatTyped

(* The links that are left when the head of the chain is gone.              *)
LEMMA RestOfPulses ==
  ASSUME Base, PulseChain, pulses # <<>>, pulses' = Tail(pulses), UNCHANGED closed
  PROVE  /\ \A k \in 1..Len(pulses') : pulses'[k] = FALSE => closed' /\ k = Len(pulses')
         /\ closed' /\ pulses' # <<>> => pulses'[Len(pulses')] = FALSE
         /\ closed' /\ pulses' = <<>> => Head(pulses) = FALSE
         /\ Head(pulses) = FALSE => pulses' = <<>>
<1>1. /\ pulses \in Seq(BOOLEAN) /\ Len(pulses) \in Nat \ {0} /\ Head(pulses) = pulses[1]
      /\ pulses' \in Seq(BOOLEAN) /\ Len(pulses') = Len(pulses) - 1
      /\ \A k \in 1..(Len(pulses) - 1) : pulses'[k] = pulses[k + 1]
  BY PulseTypes, PulseRest
<1>2. pulses' = <<>> <=> Len(pulses') = 0
  BY <1>1, TextTyped
<1>3. ASSUME NEW k \in 1..Len(pulses'), pulses'[k] = FALSE PROVE closed' /\ k = Len(pulses')
  <2>1. k + 1 \in 1..Len(pulses) /\ pulses[k + 1] = FALSE
    BY <1>1, <1>3
  <2>2. closed /\ k + 1 = Len(pulses)
    BY <2>1 DEF PulseChain
  <2>3. k = Len(pulses')
    <3>1. k \in Int /\ Len(pulses') \in Int /\ Len(pulses) \in Int /\ Len(pulses') = Len(pulses) - 1
      BY <1>1, <1>3
    <3> QED BY ONLY <2>2, <3>1
  <2> QED BY <2>2, <2>3
<1>4. ASSUME closed', pulses' # <<>> PROVE pulses'[Len(pulses')] = FALSE
  <2>1. Len(pulses') \in 1..(Len(pulses) - 1) /\ Len(pulses') + 1 = Len(pulses)
    BY <1>1, <1>2, <1>4
  <2>2. pulses[Len(pulses)] = FALSE
    BY <1>4 DEF PulseChain
  <2> QED BY <1>1, <2>1, <2>2
<1>5. ASSUME closed', pulses' = <<>> PROVE Head(pulses) = FALSE
  <2>1. Len(pulses) = 1
    BY <1>1, <1>2, <1>5
  <2>2. pulses[Len(pulses)] = FALSE
    BY <1>5 DEF PulseChain
  <2> QED BY <1>1, <2>1, <2>2
<1>6. ASSUME Head(pulses) = FALSE PROVE pulses' = <<>>
  <2>1. pulses[1] = FALSE
    BY <1>1, <1>6
  <2>3. 1 \in 1..Len(pulses)
    BY <1>1
  <2>2. 1 = Len(pulses)
    BY <2>1, <2>3 DEF PulseChain
  <2> QED BY <1>1, <1>2, <2>2
<1> QED BY <1>3, <1>4, <1>5, <1>6

LEMMA TickPulse == ASSUME Base, PulseInv, Tick PROVE PulseInv'
<1>1. pulses' = Append(pulses, TRUE) /\ closed = FALSE
      /\ UNCHANGED <<closed, work, typing, reaction, failures>>
  BY PulseTypes DEF Tick, clientVars, serverVars
<1>2. pulses \in Seq(BOOLEAN) /\ Len(pulses) \in Nat
  BY PulseTypes
<1>3. /\ Len(pulses') = Len(pulses) + 1 /\ pulses'[Len(pulses) + 1] = TRUE
      /\ \A k \in 1..Len(pulses) : pulses'[k] = pulses[k]
      /\ pulses' # <<>> /\ pulses' \in Seq(BOOLEAN)
  BY <1>1, <1>2, PulseQueue
<1>4. \A k \in 1..Len(pulses') : pulses'[k] # FALSE
  <2> TAKE k \in 1..Len(pulses')
  <2>3. k \in 1..Len(pulses) \/ k = Len(pulses) + 1
    BY <1>2, <1>3
  <2>1. CASE k \in 1..Len(pulses)
    <3>1. pulses[k] # FALSE
      BY <1>1, <2>1 DEF PulseInv, PulseChain
    <3> QED BY <1>3, <2>1, <3>1
  <2>2. CASE k = Len(pulses) + 1
    BY <1>3, <2>2
  <2> QED BY <2>1, <2>2, <2>3
<1>5. Head(pulses') # FALSE
  <2>1. Head(pulses') = pulses'[1] /\ 1 \in 1..Len(pulses')
    BY <1>2, <1>3, HeadTailProperties
  <2> QED BY <1>4, <2>1
<1>6. PulseChain'
  BY <1>1, <1>4, <1>5 DEF PulseChain
<1>7. Reacted'
  BY <1>1, <1>3 DEF PulseInv, Reacted
<1>8. closed' <=> Late'
  BY <1>1 DEF Tick, PulseInv, Late, Replying, runVars
<1> QED BY <1>6, <1>7, <1>8 DEF PulseInv

LEMMA StopsPulse == ASSUME Base, PulseInv, Stops PROVE PulseInv'
<1>1. pulses' = Append(pulses, FALSE) /\ closed' = TRUE /\ pc = "stopping" /\ pc' = "cancelling"
      /\ UNCHANGED <<work, typing, reaction, failures>>
  BY DEF Stops, clientVars, serverVars
<1>2. pulses \in Seq(BOOLEAN) /\ Len(pulses) \in Nat /\ closed = FALSE
  BY <1>1, PulseTypes DEF PulseInv, Late, Replying
<1>3. /\ Len(pulses') = Len(pulses) + 1 /\ pulses'[Len(pulses) + 1] = FALSE
      /\ \A k \in 1..Len(pulses) : pulses'[k] = pulses[k]
      /\ pulses' # <<>> /\ pulses' \in Seq(BOOLEAN)
  BY <1>1, <1>2, PulseQueue
<1>4. \A k \in 1..Len(pulses) : pulses[k] # FALSE
  BY <1>2 DEF PulseInv, PulseChain
<1>5. Head(pulses') = FALSE => Idle
  <2>1. Head(pulses') = pulses'[1]
    BY <1>3, HeadTailProperties
  <2>2. CASE pulses = <<>>
    BY <2>2, PulseTypes
  <2>3. CASE pulses # <<>>
    <3>1. 1 \in 1..Len(pulses)
      BY <1>2, <2>3, PulseTypes
    <3> QED BY <1>3, <1>4, <2>1, <3>1
  <2> QED BY <2>2, <2>3
<1>6. PulseChain'
  <2>1. \A k \in 1..Len(pulses') : pulses'[k] = FALSE => k = Len(pulses')
    <3> TAKE k \in 1..Len(pulses')
    <3>3. k \in 1..Len(pulses) \/ k = Len(pulses) + 1
      BY <1>2, <1>3
    <3>1. CASE k \in 1..Len(pulses)
      BY <1>3, <1>4, <3>1
    <3>2. CASE k = Len(pulses) + 1
      BY <1>3, <3>2
    <3> QED BY <3>1, <3>2, <3>3
  <2>2. pulses'[Len(pulses')] = FALSE
    BY <1>2, <1>3
  <2>3. Idle => Idle'
    BY <1>1 DEF Idle
  <2> QED BY <1>1, <1>5, <2>1, <2>2, <2>3 DEF PulseChain
<1>7. Reacted'
  BY <1>1, <1>3 DEF PulseInv, Reacted
<1>8. closed' <=> Late'
  BY <1>1 DEF Late
<1> QED BY <1>6, <1>7, <1>8 DEF PulseInv

LEMMA WorkingStartsPulse == ASSUME Base, PulseInv, WorkingStarts PROVE PulseInv'
<1>1. pulses # <<>> /\ Idle /\ UNCHANGED <<closed, reaction, failures>>
  BY DEF WorkingStarts, serverVars, Idle
<1>2. closed' <=> Late'
  <2>1. UNCHANGED <<pc, job>>
    BY DEF WorkingStarts, runVars
  <2> QED BY <1>1, <2>1 DEF PulseInv, Late, Replying
<1>3. CASE closed /\ Head(pulses)
  <2>1. pulses' = Tail(pulses) /\ work' = work /\ typing' = typing
    BY <1>3 DEF WorkingStarts
  <2>2. Head(pulses) # FALSE /\ Idle'
    BY <1>1, <1>3, <2>1 DEF Idle
  <2>3. PulseChain' /\ pulses' # <<>>
    BY <1>1, <1>3, <2>1, <2>2, RestOfPulses DEF PulseChain, PulseInv
  <2>4. Reacted'
    BY <1>1, <2>1, <2>3 DEF PulseInv, Reacted
  <2> QED BY <1>2, <2>3, <2>4 DEF PulseInv
<1>4. CASE ~closed /\ Head(pulses)
  <2>1. pulses' = pulses /\ typing' = typing
        /\ work' = [card |-> IF session = 0 THEN "creating" ELSE "done",
                    typing |-> IF typing THEN "done" ELSE "creating"]
    BY <1>4 DEF WorkingStarts
  <2>2. PulseChain'
    BY <1>1, <1>4, <2>1 DEF PulseChain, PulseInv
  <2>3. Reacted'
    BY <1>1, <1>4, <2>1 DEF PulseInv, Reacted, Idle
  <2> QED BY <1>2, <2>2, <2>3 DEF PulseInv
<1>5. CASE ~Head(pulses)
  <2>1. pulses' = pulses /\ typing' = FALSE
        /\ work' = [card |-> "done", typing |-> IF typing THEN "deleting" ELSE "done"]
    BY <1>5 DEF WorkingStarts
  <2>2. PulseChain'
    BY <1>1, <2>1 DEF PulseChain, PulseInv
  <2>3. Reacted'
    BY <1>1, <2>1 DEF PulseInv, Reacted, Idle
  <2> QED BY <1>2, <2>2, <2>3 DEF PulseInv
<1> QED BY <1>3, <1>4, <1>5

LEMMA WorkingEndsPulse == ASSUME Base, PulseInv, WorkingEnds PROVE PulseInv'
<1>1. /\ pulses # <<>> /\ ~Idle /\ Idle' /\ pulses' = Tail(pulses) /\ work.typing = "done"
      /\ UNCHANGED <<closed, typing, reaction, failures>>
  BY PulseTypes DEF WorkingEnds, clientVars, serverVars, Idle
<1>2. closed' <=> Late'
  BY <1>1 DEF WorkingEnds, PulseInv, Late, Replying, runVars
<1>3. PulseChain'
  BY <1>1, RestOfPulses DEF PulseChain, PulseInv
<1>4. Reacted'
  <2>1. closed' /\ pulses' = <<>> => typing = FALSE
    BY <1>1, RestOfPulses DEF PulseChain, PulseInv
  <2> QED BY <1>1, <2>1, PulseTypes DEF PulseInv, Reacted
<1> QED BY <1>2, <1>3, <1>4 DEF PulseInv

LEMMA PulseCardPulse == ASSUME Base, PulseInv, NEW o, PulseCard(o) PROVE PulseInv'
<1>1. UNCHANGED <<pulses, closed, typing, reaction>> /\ ~Idle /\ pulses # <<>>
      /\ work'.typing = work.typing
  BY PulseTypes DEF PulseCard, Idle
<1>2. failures' = 0 => failures = 0
  BY FailuresGrow DEF PulseCard
<1>3. closed' <=> Late'
  BY <1>1 DEF PulseCard, PulseInv, Late, Replying, runVars
<1>4. PulseChain'
  BY <1>1 DEF PulseChain, PulseInv
<1>5. Reacted'
  BY <1>1, <1>2 DEF PulseInv, Reacted
<1> QED BY <1>3, <1>4, <1>5 DEF PulseInv

LEMMA ReactsPulse == ASSUME Base, PulseInv, NEW o, Reacts(o) PROVE PulseInv'
<1>1. /\ UNCHANGED <<pulses, closed>> /\ ~Idle /\ pulses # <<>> /\ work'.typing = "done"
      /\ work.typing \in {"creating", "deleting"}
      /\ reaction' = IF o = "refused" THEN reaction ELSE work.typing = "creating"
      /\ typing' = (typing \/ (work.typing = "creating" /\ o = "ok"))
  BY PulseTypes DEF Reacts, Idle
<1>2. failures' = 0 => failures = 0 /\ o = "ok"
  BY FailuresGrow DEF Reacts
<1>3. closed' <=> Late'
  BY <1>1 DEF Reacts, PulseInv, Late, Replying, runVars
<1>4. PulseChain'
  BY <1>1, PulseTypes DEF PulseChain, PulseInv
<1>5. Reacted'
  BY <1>1, <1>2, PulseTypes DEF PulseInv, Reacted
<1> QED BY <1>3, <1>4, <1>5 DEF PulseInv

LEMMA PulseStays ==
  ASSUME Base, PulseInv, Next, ~Stops, ~Tick, ~PulseStep PROVE PulseInv'
<1>1. Late' <=> Late
  BY RunLate
<1>2. UNCHANGED <<pulseVars, typing, reaction>>
  <2>1. CASE CardStep \/ StreamStep
    BY <2>1 DEF CardStep, PutStarts, PutEnds, StreamStep, StreamStarts, StreamEnds, StreamCard,
                StreamPosts, clientVars, serverVars
  <2>2. CASE RunStep
    <3>1. CASE SessionReady \/ RunFails \/ Speaks \/ PromptEnds \/ Flushed \/ SecondPromptEnds \/ Closes
      BY <3>1 DEF SessionReady, RunFails, Speaks, PromptEnds, Flushed, SecondPromptEnds, Closes,
                  clientVars, serverVars
    <3>2. CASE Opens \/ Settles \/ \E arrives \in BOOLEAN : Uploads(arrives)
      BY <3>2 DEF Opens, Settles, Uploads, clientVars, serverVars
    <3>3. CASE \E o \in Outcomes : PatchEnds(o) \/ Posts(o)
      BY <3>3 DEF PatchEnds, Posts, clientVars
    <3> QED BY <2>2, <3>1, <3>2, <3>3 DEF RunStep
  <2> QED BY <2>1, <2>2 DEF Next
<1>3. failures' = 0 => failures = 0
  <2>1. CASE failures' = failures
    BY <2>1
  <2>2. CASE \E o \in Outcomes : Ends(o)
    BY <2>2, FailuresGrow
  <2>3. CASE CardStep \/ StreamStep
    BY <2>1, <2>2, <2>3 DEF CardStep, PutStarts, PutEnds, StreamStep, StreamStarts, StreamEnds,
       StreamCard, StreamPosts, serverVars
  <2>4. CASE RunStep
    <3>1. CASE SessionReady \/ RunFails \/ Speaks \/ PromptEnds \/ Flushed \/ SecondPromptEnds \/ Closes
      BY <2>1, <3>1 DEF SessionReady, RunFails, Speaks, PromptEnds, Flushed, SecondPromptEnds, Closes,
                  serverVars
    <3>2. CASE Opens \/ Settles \/ \E arrives \in BOOLEAN : Uploads(arrives)
      BY <2>1, <3>2 DEF Opens, Settles, Uploads, serverVars
    <3>3. CASE \E o \in Outcomes : PatchEnds(o) \/ Posts(o)
      BY <2>2, <3>3 DEF PatchEnds, Posts
    <3> QED BY <2>4, <3>1, <3>2, <3>3 DEF RunStep
  <2> QED BY <2>3, <2>4 DEF Next
<1> QED BY <1>1, <1>2, <1>3, PulseApart

LEMMA PulseNext == ASSUME Base, PulseInv, [Next]_vars PROVE PulseInv'
<1>1. CASE UNCHANGED vars
  BY <1>1, PulseApart DEF vars, runVars, clientVars, serverVars, Late, Replying
<1>2. CASE Next /\ (Stops \/ Tick)
  BY <1>2, TickPulse, StopsPulse
<1>3. CASE PulseStep
  BY <1>3, WorkingStartsPulse, WorkingEndsPulse, PulseCardPulse, ReactsPulse DEF PulseStep
<1>4. CASE Next /\ ~(Stops \/ Tick \/ PulseStep)
  BY <1>4, PulseStays
<1> QED BY <1>1, <1>2, <1>3, <1>4

LEMMA PulseInit == Init => PulseInv
<1> SUFFICES ASSUME Init PROVE PulseInv
  OBVIOUS
<1>1. pulses = <<TRUE>> /\ closed = FALSE /\ reaction = FALSE /\ pc = "waiting"
      /\ Idle
  BY DEF Init, Idle
<1>2. Len(pulses) = 1 /\ pulses[1] # FALSE /\ Head(pulses) # FALSE
  <2>1. Len(<<TRUE>>) = 1
    OBVIOUS
  <2>2. <<TRUE>>[1] # FALSE
    OBVIOUS
  <2>3. Head(<<TRUE>>) # FALSE
    OBVIOUS
  <2> QED BY <1>1, <2>1, <2>2, <2>3
<1>3. PulseChain
  <2>1. \A k \in 1..Len(pulses) : pulses[k] # FALSE
    <3> TAKE k \in 1..Len(pulses)
    <3>1. k = 1
      BY <1>2
    <3> QED BY <1>2, <3>1
  <2>2. closed = FALSE
    BY <1>1
  <2> QED BY <1>2, <2>1, <2>2 DEF PulseChain
<1> QED BY <1>1, <1>3 DEF PulseInv, Reacted, Late, Replying

(* If the server answers every request, nobody is left typing when all is   *)
(* over: stop() of the working pulse puts setWorking(false) behind every    *)
(* setWorking(true) of its chain, and none is added or run after it.        *)
THEOREM TypingCleared == Spec => []TypingIsCleared
<1>1. Base /\ PulseInv /\ [Next]_vars => PulseInv'
  BY PulseNext
<1>2. PulseInv => TypingIsCleared
  BY DEF PulseInv, Reacted, Late, Over, TypingIsCleared
<1> QED BY <1>1, <1>2, PulseInit, ReplyInvariance, PTL DEF Spec

-----------------------------------------------------------------------------
(* The cards that are left open                                             *)

LEMMA Quieter ==
  ASSUME Base, Next, Quiet' PROVE Quiet /\ \A o \in Outcomes : Ends(o) => o = "ok"
<1>1. \A o \in Outcomes : Ends(o) => o = "ok" /\ failures = 0
  BY FailuresGrow DEF Quiet
<1>2. asked' = asked \/ (asked' = 1 /\ pc = "opening") \/ asked' = 2
  <2>1. CASE RunStep
    <3>1. CASE SessionReady \/ RunFails \/ Speaks \/ PromptEnds \/ Flushed \/ SecondPromptEnds \/ Closes
      BY <3>1 DEF SessionReady, RunFails, Speaks, PromptEnds, Flushed, SecondPromptEnds, Closes, Decide
    <3>2. CASE Opens \/ Settles \/ Stops \/ \E arrives \in BOOLEAN : Uploads(arrives)
      BY <3>2 DEF Opens, Settles, Uploads, Stops
    <3>3. CASE \E o \in Outcomes : PatchEnds(o) \/ Posts(o)
      BY <3>3 DEF PatchEnds, Posts
    <3> QED BY <2>1, <3>1, <3>2, <3>3 DEF RunStep
  <2>2. CASE PulseStep \/ Tick
    BY <2>2 DEF PulseStep, Tick, WorkingStarts, WorkingEnds, PulseCard, Reacts, runVars
  <2>3. CASE StreamStep \/ CardStep
    BY <2>3 DEF StreamStep, CardStep, StreamStarts, StreamEnds, StreamCard, StreamPosts, PutStarts,
                PutEnds, runVars
  <2> QED BY <2>1, <2>2, <2>3 DEF Next
<1>3. asked < 2
  <2>1. asked' < 2
    BY DEF Quiet
  <2> QED BY <1>2, <2>1 DEF Base, Typed, RunTyped, SaidInv
<1>4. failures = 0
  <2>1. CASE failures' = failures
    BY <2>1 DEF Quiet
  <2>2. CASE \E o \in Outcomes : Ends(o)
    BY <1>1, <2>2
  <2>3. CASE RunStep
    <3>1. CASE SessionReady \/ RunFails \/ Speaks \/ PromptEnds \/ Flushed \/ SecondPromptEnds \/ Closes
      BY <2>1, <3>1 DEF SessionReady, RunFails, Speaks, PromptEnds, Flushed, SecondPromptEnds, Closes,
                  serverVars
    <3>2. CASE Opens \/ Settles \/ Stops \/ \E arrives \in BOOLEAN : Uploads(arrives)
      BY <2>1, <3>2 DEF Opens, Settles, Uploads, Stops, serverVars
    <3>3. CASE \E o \in Outcomes : PatchEnds(o) \/ Posts(o)
      BY <2>2, <3>3 DEF PatchEnds, Posts
    <3> QED BY <2>3, <3>1, <3>2, <3>3 DEF RunStep
  <2>4. CASE PulseStep \/ Tick
    BY <2>1, <2>2, <2>4 DEF PulseStep, Tick, WorkingStarts, WorkingEnds, PulseCard, Reacts, serverVars
  <2>5. CASE StreamStep \/ CardStep
    BY <2>1, <2>2, <2>5 DEF StreamStep, CardStep, StreamStarts, StreamEnds, StreamCard, StreamPosts,
       PutStarts, PutEnds, serverVars
  <2> QED BY <2>3, <2>4, <2>5 DEF Next
<1> QED BY <1>1, <1>3, <1>4 DEF Quiet

(* Once the run has looked for its card, nothing but its own text is queued. *)
LEMMA NothingQueued ==
  ASSUME Base, Open, Answered, NEW i \in 1..Len(chat), ~(pc = "closing" /\ i = job.card)
  PROVE  chat[i].links = <<>> /\ chat[i].put = 0
<1>1. chat[i] \in Messages /\ CardInv(chat[i])
  BY CardOf
<1>2. stage = "idle"
  BY DEF Open, OpenStream, Base, Typed, StreamTyped
<1>3. ~HasLink(chat[i], "run") /\ ~HasLink(chat[i], "stream")
  BY <1>2 DEF Open, OpenCards, CardOpen
<1>4. chat[i].links \in Seq(Links)
  BY <1>1 DEF Messages
<1>5. chat[i].links = <<>>
  <2> SUFFICES ASSUME chat[i].links # <<>> PROVE FALSE
    OBVIOUS
  <2>1. 1 \in 1..Len(chat[i].links)
    BY <1>4, TextTyped
  <2>2. chat[i].links[1] \in Links
    BY <1>4, <2>1, ElementOfSeq
  <2>3. chat[i].links[1].by \in {"stream", "run"}
    BY <2>2 DEF Links
  <2> QED BY <1>3, <2>1, <2>3 DEF HasLink
<1>6. chat[i].put = 0
  <2>1. chat[i].put \in Nat
    BY <1>1 DEF Messages
  <2> QED BY <1>1, <1>5, <2>1 DEF CardInv
<1> QED BY <1>5, <1>6

(* A card that goes on as it was, but for its text and its queue.           *)
Follows(c, d) ==
  /\ d.seq = d.number /\ d.put \in {0, d.number + 1}
  /\ d.open = TRUE => c.open = TRUE
  /\ HasLink(d, "run") => HasLink(c, "run")
  /\ HasLink(d, "stream") => HasLink(c, "stream")

LEMMA FollowsItself ==
  ASSUME Open, NEW i \in 1..Len(chat) PROVE Follows(chat[i], chat[i])
BY DEF Open, OpenCards, CardOpen, Follows

LEMMA OpenApart ==
  ASSUME Base, Open, UNCHANGED <<pc, job, said, files, session, orphans, stage, chain, pend, last>>,
         Len(chat') = Len(chat), \A i \in 1..Len(chat) : Follows(chat[i], chat'[i]),
         pc = "patching" => chat'[job.card].number = chat[job.card].number
  PROVE  Open'
<1>1. OpenCards'
  <2> SUFFICES ASSUME NEW i \in 1..Len(chat) PROVE CardOpen(chat[i], i)'
    BY DEF OpenCards
  <2>1. CardOpen(chat[i], i) /\ Follows(chat[i], chat'[i])
    BY DEF Open, OpenCards
  <2> QED BY <2>1 DEF CardOpen, Follows, Closing
<1>2. OpenSession'
  BY DEF Open, OpenSession, ToClose, Answered, Closing, Joined
<1>3. OpenPatch'
  BY DEF Open, OpenPatch
<1>4. OpenStream'
  BY DEF Open, OpenStream, Answered
<1> QED BY <1>1, <1>2, <1>3, <1>4 DEF Open

(* A step that leaves the chat and the client alone.                        *)
LEMMA OpenSame ==
  ASSUME Base, Open, UNCHANGED <<chat, orphans, session, stage>>, OpenSession', OpenPatch', OpenStream',
         Closing => Closing' /\ job'.card = job.card,
         \A i \in 1..Len(chat) : HasLink(chat[i], "run") => pc' = "closing" /\ i = job'.card
  PROVE  Open'
<1>1. OpenCards'
  <2> SUFFICES ASSUME NEW i \in 1..Len(chat) PROVE CardOpen(chat[i], i)'
    BY DEF OpenCards
  <2>1. CardOpen(chat[i], i)
    BY DEF Open, OpenCards
  <2> QED BY <2>1 DEF CardOpen
<1> QED BY <1>1 DEF Open

(* reply() takes the card over.                                             *)
LEMMA OpenReply ==
  ASSUME Base, Open, ~Closing, NEW chunks \in Seq(Texts), chunks # <<>>,
         NEW then \in {"files", "stopping", "failed", "done"}, Reply(chat, chunks, then),
         chain = <<>>, UNCHANGED <<said, session, orphans, stage, chain, pend, last>>
  PROVE  Open'
<1>1. Sound(chat) /\ session \in 0..Len(chat)
  BY ChatSound DEF Base, Typed, ChatTyped
<1>2. /\ job'.card = session /\ Len(chat') = Len(chat)
      /\ session = 0 => pc' = "posting" /\ chat' = chat
      /\ session # 0 =>
           /\ pc' = "closing" /\ session \in 1..Len(chat)
           /\ chat'[session].seq = chat[session].seq
           /\ chat'[session].number = chat[session].number
           /\ chat'[session].put = chat[session].put
           /\ chat'[session].open = chat[session].open
           /\ \A k \in 1..Len(chat'[session].links) :
                \/ chat'[session].links[k].by = "run"
                \/ \E l \in 1..Len(chat[session].links) :
                     chat[session].links[l].by = chat'[session].links[k].by
           /\ \A j \in 1..Len(chat) : j # session => chat'[j] = chat[j]
  BY <1>1, ReplyEffect
<1>3. \A i \in 1..Len(chat) : CardOpen(chat[i], i) /\ ~HasLink(chat[i], "run")
                              /\ (chat[i].open = TRUE => i \in orphans \/ i = session)
  BY DEF Open, OpenCards, CardOpen, Closing
<1>4. OpenStream'
  BY DEF Open, OpenStream
<1>5. CASE session = 0
  <2>1. OpenSession' /\ OpenPatch'
    BY <1>2, <1>5 DEF OpenSession, OpenPatch
  <2> QED BY <1>2, <1>3, <1>4, <1>5, <2>1, OpenSame
<1>6. CASE session # 0
  <2>1. OpenSession' /\ OpenPatch'
    BY <1>2, <1>6 DEF OpenSession, OpenPatch, ToClose, Closing
  <2>2. ASSUME NEW i \in 1..Len(chat) PROVE CardOpen(chat[i], i)'
    <3>1. CASE i # session
      <4>1. chat'[i] = chat[i]
        BY <1>2, <1>6, <3>1
      <4> QED BY <1>3, <4>1 DEF CardOpen
    <3>2. CASE i = session
      <4>1. Closing' /\ pc' = "closing" /\ i = job'.card
        BY <1>2, <1>6, <3>2 DEF Closing
      <4>2. chat'[i].seq = chat'[i].number /\ chat'[i].put \in {0, chat'[i].number + 1}
        BY <1>2, <1>3, <1>6, <3>2 DEF CardOpen
      <4>3. ASSUME HasLink(chat'[i], "stream")
            PROVE  HasLink(chat[i], "stream")
        <5>1. PICK k \in 1..Len(chat'[i].links) : chat'[i].links[k].by = "stream"
          BY ONLY <4>3 DEF HasLink
        <5>2. \A j \in 1..Len(chat'[i].links) :
                \/ chat'[i].links[j].by = "run"
                \/ \E l \in 1..Len(chat[i].links) : chat[i].links[l].by = chat'[i].links[j].by
          BY ONLY <1>2, <1>6, <3>2, Zenon
        <5>3. \E l \in 1..Len(chat[i].links) : chat[i].links[l].by = "stream"
          BY ONLY <5>1, <5>2
        <5> QED BY ONLY <5>3 DEF HasLink
      <4>4. HasLink(chat'[i], "stream") => stage' = "updating"
        BY <1>3, <4>3 DEF CardOpen
      <4> QED BY <4>1, <4>2, <4>4 DEF CardOpen
    <3> QED BY <3>1, <3>2
  <2>3. OpenCards'
    BY <1>2, <2>2 DEF OpenCards
  <2> QED BY <1>4, <2>1, <2>3 DEF Open
<1> QED BY <1>5, <1>6

(* A card or a message is added to the chat.                                *)
LEMMA OpenAdded ==
  ASSUME Base, Open, NEW c \in Messages, chat' = Append(chat, c),
         UNCHANGED <<pc, job, said, files, chain, pend, last>>, stage' = stage \/ stage' = "updating",
         c.seq = c.number, c.put = 0, ~HasLink(c, "run"),
         HasLink(c, "stream") => stage' = "updating",
         \/ /\ session' = Len(chat) + 1
            /\ orphans' = orphans \cup (IF session # 0 THEN {session} ELSE {})
                                  \cup (IF Answered THEN {Len(chat) + 1} ELSE {})
         \/ UNCHANGED <<session, orphans>> /\ ~c.open
  PROVE  Open'
<1>1. /\ Len(chat') = Len(chat) + 1 /\ Len(chat) \in Nat /\ chat'[Len(chat) + 1] = c
      /\ \A i \in 1..Len(chat) : chat'[i] = chat[i]
  <2>1. chat \in Seq(Messages)
    BY DEF Base, Typed, ChatTyped
  <2> QED BY <2>1, AppendProperties, LenProperties
<1>2. OpenStream'
  BY DEF Open, OpenStream, Answered
<1>3. OpenPatch'
  BY <1>1 DEF Open, OpenPatch, Base, ReplyInv
<1>4. Joined' = Joined
  BY DEF Joined
<1>5. OpenSession'
  BY <1>4 DEF Open, OpenSession, ToClose, Answered, Closing
<1>6. \A i \in 1..Len(chat) : CardOpen(chat[i], i)
  BY DEF Open, OpenCards
<1>7. ASSUME NEW i \in 1..Len(chat') PROVE CardOpen(chat[i], i)'
  <2>1. i \in 1..Len(chat) \/ i = Len(chat) + 1
    BY <1>1
  <2>2. CASE i \in 1..Len(chat)
    <3>1. CardOpen(chat[i], i) /\ chat'[i] = chat[i] /\ i # 0
      BY <1>1, <1>6, <2>2
    <3>2. i \in orphans => i \in orphans'
      OBVIOUS
    <3>3. i = session => i = session' \/ i \in orphans'
      BY <3>1
    <3> QED BY <3>1, <3>2, <3>3 DEF CardOpen, Closing
  <2>3. CASE i = Len(chat) + 1
    <3>1. chat'[i] = c
      BY <1>1, <2>3
    <3>2. c.open = TRUE => i = session'
      BY <2>3
    <3>3. c.put \in {0, c.number + 1}
      OBVIOUS
    <3> QED BY <3>1, <3>2, <3>3 DEF CardOpen
  <2> QED BY <2>1, <2>2, <2>3
<1>8. OpenCards'
  BY <1>7 DEF OpenCards
<1> QED BY <1>2, <1>3, <1>5, <1>8 DEF Open

LEMMA NoLinks ==
  ASSUME NEW c \in Messages, c.links = <<>>, NEW by
  PROVE  ~HasLink(c, by)
<1>1. c.links \in Seq(Links) /\ Len(c.links) = 0
  BY TextTyped DEF Messages
<1> QED BY <1>1 DEF HasLink

LEMMA OpenPulse == ASSUME Base, Open, Quiet', Next, PulseStep \/ Tick PROVE Open'
<1>0. \A o \in Outcomes : Ends(o) => o = "ok"
  BY Quieter
<1>1. CASE Tick \/ WorkingStarts \/ WorkingEnds \/ \E o \in Outcomes : Reacts(o)
  <2>1. UNCHANGED <<pc, job, said, files, session, orphans, stage, chain, pend, last, chat>>
    BY <1>1 DEF Tick, WorkingStarts, WorkingEnds, Reacts, runVars, streamVars, clientVars, serverVars,
                history
  <2> QED BY <2>1, OpenApart, FollowsItself
<1>2. CASE \E o \in Outcomes : PulseCard(o)
  <2>1. PulseCard("ok")
    BY <1>0, <1>2 DEF PulseCard
  <2>2. /\ chat' = Append(chat, Card) /\ session' = Len(chat) + 1
        /\ orphans' = orphans \cup (IF session # 0 THEN {session} ELSE {})
                              \cup (IF Answered THEN {Len(chat) + 1} ELSE {})
        /\ UNCHANGED <<pc, job, said, files, chain, pend, last, stage>>
    BY <2>1 DEF PulseCard, CardMade, runVars, streamVars
  <2>3. PICK c : c = Card
    OBVIOUS
  <2>4. c \in Messages /\ c.seq = c.number /\ c.put = 0 /\ c.links = <<>>
    BY <2>3, NewCard DEF Card
  <2>5. ~HasLink(c, "run") /\ ~HasLink(c, "stream")
    BY <2>4, NoLinks
  <2>6. chat' = Append(chat, c)
    BY <2>2, <2>3
  <2> QED BY <2>2, <2>4, <2>5, <2>6, OpenAdded
<1> QED BY <1>1, <1>2 DEF PulseStep

LEMMA OpenStreamStep == ASSUME Base, Open, Quiet', Next, StreamStep PROVE Open'
<1>0. \A o \in Outcomes : Ends(o) => o = "ok"
  BY Quieter
<1>1. CASE StreamStarts /\ session = 0
  <2>1. UNCHANGED <<pc, job, said, files, session, orphans, chain, pend, last, chat>>
        /\ stage = "idle" /\ stage' = "creating"
    BY <1>1 DEF StreamStarts, runVars, clientVars, history
  <2>2. \A i \in 1..Len(chat) : CardOpen(chat[i], i) /\ ~HasLink(chat[i], "stream")
    BY <2>1 DEF Open, OpenCards, CardOpen
  <2>3. OpenCards'
    BY <2>1, <2>2 DEF OpenCards, CardOpen, Closing
  <2>4. OpenSession' /\ OpenPatch' /\ OpenStream'
    BY <2>1 DEF Open, OpenSession, OpenPatch, OpenStream, ToClose, Answered, Closing, Joined
  <2> QED BY <2>3, <2>4 DEF Open
<1>2. CASE StreamStarts /\ session # 0
  <2>1. UNCHANGED <<pc, job, said, files, session, orphans, chain, pend, last>>
        /\ stage' = "updating" /\ chain # <<>>
    BY <1>2 DEF StreamStarts, runVars, clientVars, history
  <2>2. session \in 1..Len(chat)
    BY <1>2, ChatSound DEF Base, Typed, ChatTyped
  <2>3. chat[session] \in Messages /\ CardInv(chat[session]) /\ Head(chain) \in Texts
    BY <2>1, <2>2, CardOf, ChainHead
  <2>4. PICK d : d = WithLink(chat[session], "stream", Head(chain))
    OBVIOUS
  <2>5. chat' = Changed(chat, session, d)
    BY <1>2, <2>4 DEF StreamStarts, Changed
  <2>6. /\ Kept(chat[session], d) /\ d.seq = chat[session].seq /\ d.number = chat[session].number
        /\ d.open = chat[session].open /\ d.put = chat[session].put
        /\ \A k \in 1..Len(d.links) :
             d.links[k].by = "stream" \/ \E l \in 1..Len(chat[session].links) :
                                           chat[session].links[l].by = d.links[k].by
    <3>1. "stream" \in {"stream", "run"}
      OBVIOUS
    <3>2. ASSUME NEW c, c = chat[session], NEW t, t = Head(chain), NEW by, by = "stream"
          PROVE  /\ Kept(c, d)
                 /\ d.seq = c.seq /\ d.number = c.number /\ d.open = c.open /\ d.put = c.put
                 /\ \A k \in 1..Len(d.links) :
                      d.links[k].by = by \/ \E l \in 1..Len(c.links) : c.links[l].by = d.links[k].by
      <4>1. c \in Messages /\ CardInv(c) /\ t \in Texts /\ by \in {"stream", "run"}
            /\ d = WithLink(c, by, t)
        BY <2>3, <2>4, <3>1, <3>2
      <4> QED BY ONLY <4>1, LinkAdded
    <3> QED BY ONLY <3>2
  <2>7. Len(chat') = Len(chat) /\ \A j \in 1..Len(chat) : chat'[j] = IF j = session THEN d ELSE chat[j]
    BY <2>2, <2>5, <2>6, CardChanges
  <2>8. HasLink(d, "run") => HasLink(chat[session], "run")
    BY <2>6 DEF HasLink
  <2>9. OpenCards'
    <3> SUFFICES ASSUME NEW i \in 1..Len(chat) PROVE CardOpen(chat[i], i)'
      BY <2>7 DEF OpenCards
    <3>1. CardOpen(chat[i], i)
      BY DEF Open, OpenCards
    <3>2. CASE i # session
      <4>1. chat'[i] = chat[i]
        BY <2>7, <3>2
      <4> QED BY <2>1, <3>1, <4>1 DEF CardOpen, Closing
    <3>3. CASE i = session
      <4>1. chat'[i] = d
        BY <2>7, <3>3
      <4> QED BY <2>1, <2>6, <2>8, <3>1, <3>3, <4>1 DEF CardOpen, Closing
    <3> QED BY <3>2, <3>3
  <2>10. OpenSession' /\ OpenStream'
    BY <2>1 DEF Open, OpenSession, OpenStream, ToClose, Answered, Closing, Joined
  <2>11. OpenPatch'
    <3>1. pc = "patching" => FALSE
      BY <2>1 DEF Open, OpenStream, Answered
    <3> QED BY <2>1, <3>1 DEF OpenPatch
  <2> QED BY <2>9, <2>10, <2>11 DEF Open
<1>3. CASE \E o \in Outcomes : StreamCard(o)
  <2>1. StreamCard("ok")
    BY <1>0, <1>3 DEF StreamCard
  <2>2. PICK d : d = WithLink(Card, "stream", Head(chain))
    OBVIOUS
  <2>3. /\ chat' = Append(chat, d) /\ session' = Len(chat) + 1
        /\ orphans' = orphans \cup (IF session # 0 THEN {session} ELSE {})
                              \cup (IF Answered THEN {Len(chat) + 1} ELSE {})
        /\ UNCHANGED <<pc, job, said, files, chain, pend, last>> /\ stage' = "updating"
        /\ stage = "creating"
    BY <2>1, <2>2 DEF StreamCard, CardMade, runVars
  <2>4. Head(chain) \in Texts
    BY <2>3, ChainHead DEF Base, Typed, StreamTyped
  <2>5. /\ d \in Messages /\ d.seq = Card.seq /\ d.number = Card.number /\ d.put = Card.put
        /\ \A k \in 1..Len(d.links) :
             d.links[k].by = "stream" \/ \E l \in 1..Len(Card.links) : Card.links[l].by = d.links[k].by
    <3>1. "stream" \in {"stream", "run"}
      OBVIOUS
    <3> QED BY ONLY <2>2, <2>4, <3>1, NewCard, LinkAdded
  <2>6. d.seq = d.number /\ d.put = 0
    BY <2>5, NewCard DEF Card
  <2>7. ~HasLink(d, "run")
    <3>1. Len(Card.links) = 0
      BY NewCard, TextTyped DEF Messages
    <3> QED BY <2>5, <3>1 DEF HasLink
  <2> QED BY <2>3, <2>5, <2>6, <2>7, OpenAdded
<1>4. CASE \E o \in Outcomes : StreamPosts(o)
  <2>1. StreamPosts("ok")
    BY <1>0, <1>4 DEF StreamPosts
  <2>2. PICK m : m = Plain(Head(chain))
    OBVIOUS
  <2>3. chat' = Append(chat, m) /\ stage = "posting" /\ stage' = "updating"
        /\ UNCHANGED <<pc, job, said, files, chain, pend, last, session, orphans>>
    BY <2>1, <2>2 DEF StreamPosts, runVars, clientVars, history
  <2>4. Head(chain) \in Texts
    BY <2>3, ChainHead DEF Base, Typed, StreamTyped
  <2>5. m \in Messages /\ m.seq = m.number /\ m.links = <<>> /\ ~m.open /\ m.put = 0
    BY <2>2, <2>4, NewPlain DEF Plain
  <2>6. ~HasLink(m, "run") /\ ~HasLink(m, "stream")
    BY <2>5, NoLinks
  <2> QED BY <2>3, <2>5, <2>6, OpenAdded
<1>5. CASE StreamEnds
  <2>1. UNCHANGED <<pc, job, said, files, session, orphans, pend, last, chat>>
        /\ stage = "updating" /\ stage' = "idle" /\ \A i \in DOMAIN chat : ~Linked(i, "stream")
    BY <1>5 DEF StreamEnds, runVars, clientVars, serverVars, history
  <2>2. chain # <<>>
    BY <2>1 DEF Base, Typed, StreamTyped
  <2>3. \A i \in 1..Len(chat) : ~HasLink(chat[i], "stream")
    <3> TAKE i \in 1..Len(chat)
    <3>1. chat[i].links \in Seq(Links)
      BY CardOf DEF Messages
    <3>2. DOMAIN chat[i].links = 1..Len(chat[i].links) /\ i \in DOMAIN chat
      BY <3>1, LenProperties DEF Base, Typed, ChatTyped
    <3> QED BY <2>1, <3>2 DEF Linked, HasLink
  <2>4. OpenCards'
    BY <2>1, <2>3 DEF Open, OpenCards, CardOpen, Closing
  <2>5. OpenSession' /\ OpenPatch'
    BY <2>1 DEF Open, OpenSession, OpenPatch, ToClose, Answered, Closing, Joined
  <2>6. OpenStream'
    BY <2>1, <2>2 DEF Open, OpenStream, Answered
  <2> QED BY <2>4, <2>5, <2>6 DEF Open
<1> QED BY <1>1, <1>2, <1>3, <1>4, <1>5 DEF StreamStep

LEMMA LinksFollow ==
  ASSUME NEW c, NEW d, \A k \in 1..Len(d.links) : \E l \in 1..Len(c.links) : c.links[l] = d.links[k]
  PROVE  \A by : HasLink(d, by) => HasLink(c, by)
BY DEF HasLink

LEMMA OpenCardStep == ASSUME Base, Open, Quiet', Next, CardStep PROVE Open'
<1>0. \A o \in Outcomes : Ends(o) => o = "ok"
  BY Quieter
<1>1. PICK i \in 1..Len(chat) : PutStarts(i) \/ \E o \in Outcomes : PutEnds(i, o)
  <2>1. chat \in Seq(Messages)
    BY DEF Base, Typed, ChatTyped
  <2> QED BY <2>1, LenProperties DEF CardStep
<1>2. chat[i] \in Messages /\ CardInv(chat[i]) /\ CardOpen(chat[i], i)
  BY CardOf DEF Open, OpenCards
<1>3. CASE PutStarts(i)
  <2>1. PICK d : d = Queued(chat[i])
    OBVIOUS
  <2>2. chat' = Changed(chat, i, d) /\ chat[i].links # <<>> /\ chat[i].put = 0
        /\ UNCHANGED <<pc, job, said, files, session, orphans, stage, chain, pend, last>>
    BY <1>3, <2>1 DEF PutStarts, Changed, runVars, streamVars, clientVars, history
  <2>3. /\ Kept(chat[i], d) /\ d.seq = chat[i].seq /\ d.number = chat[i].number /\ d.open = chat[i].open
        /\ d.put \in {0, chat[i].number + 1}
        /\ \A k \in 1..Len(d.links) : \E l \in 1..Len(chat[i].links) : chat[i].links[l] = d.links[k]
    BY ONLY <1>2, <2>1, <2>2, WriteQueued
  <2>4. Len(chat') = Len(chat) /\ \A j \in 1..Len(chat) : chat'[j] = IF j = i THEN d ELSE chat[j]
    BY <2>2, <2>3, CardChanges
  <2>5. Follows(chat[i], d)
    <3>1. \A by : HasLink(d, by) => HasLink(chat[i], by)
      BY <2>3, LinksFollow
    <3> QED BY <1>2, <2>3, <3>1 DEF Follows, CardOpen
  <2>6. \A j \in 1..Len(chat) : Follows(chat[j], chat'[j])
    BY <2>4, <2>5, FollowsItself
  <2>7. pc = "patching" => chat'[job.card].number = chat[job.card].number
    BY <2>3, <2>4 DEF Base, ReplyInv
  <2> QED BY <2>2, <2>4, <2>6, <2>7, OpenApart
<1>4. CASE \E o \in Outcomes : PutEnds(i, o)
  <2>1. PutEnds(i, "ok") /\ chat[i].put > 0
    BY <1>0, <1>4 DEF PutEnds
  <2>2. PICK d : d = Written(chat[i], "ok")
    OBVIOUS
  <2>3. chat[i].seq = chat[i].number /\ chat[i].put = chat[i].number + 1
    BY <1>2, <2>1 DEF CardOpen
  <2>4. /\ Kept(chat[i], d) /\ d.open = chat[i].open
        /\ ~Fails(chat[i], "ok") /\ d.seq = d.number /\ d.put = 0
        /\ \A k \in 1..Len(d.links) : \E l \in 1..Len(chat[i].links) : chat[i].links[l] = d.links[k]
    BY <1>2, <2>1, <2>2, <2>3, WriteDone, SMTT(30)
  <2>5. chat' = Changed(chat, i, d)
        /\ UNCHANGED <<pc, job, said, files, session, orphans, stage, chain, pend, last>>
    BY <2>1, <2>2, <2>4 DEF PutEnds, Changed, streamVars
  <2>6. Len(chat') = Len(chat) /\ \A j \in 1..Len(chat) : chat'[j] = IF j = i THEN d ELSE chat[j]
    BY <2>4, <2>5, CardChanges
  <2>7. Follows(chat[i], d)
    <3>1. \A by : HasLink(d, by) => HasLink(chat[i], by)
      BY <2>4, LinksFollow
    <3> QED BY <2>4, <3>1 DEF Follows
  <2>8. \A j \in 1..Len(chat) : Follows(chat[j], chat'[j])
    BY <2>6, <2>7, FollowsItself
  <2>9. pc = "patching" => chat'[job.card].number = chat[job.card].number
    <3> SUFFICES ASSUME pc = "patching" PROVE chat'[job.card].number = chat[job.card].number
      OBVIOUS
    <3>1. chat[i].put > 0 /\ chat[i].put \in Nat
      BY <1>2, <2>1 DEF Messages
    <3>2. job.card \in 1..Len(chat)
      BY DEF Base, ReplyInv
    <3>3. chat[job.card].put = 0
      BY <3>2, NothingQueued DEF Answered
    <3>4. i # job.card
      BY <3>1, <3>3
    <3> QED BY <2>6, <3>2, <3>4
  <2> QED BY <2>5, <2>6, <2>8, <2>9, OpenApart
<1> QED BY <1>1, <1>3, <1>4

LEMMA OpenAnswers ==
  ASSUME Base, Open, Quiet', Next, RunFails \/ Flushed \/ SecondPromptEnds PROVE Open'
<1>1. UNCHANGED <<session, orphans, stage, chain, pend, last>> /\ ~Closing
  BY DEF RunFails, Flushed, SecondPromptEnds, clientVars, streamVars, history, Closing
<1>2. chain = <<>> /\ (RunFails \/ Flushed)
  <2>1. CASE RunFails
    BY <2>1 DEF RunFails, Open, OpenStream
  <2>2. CASE Flushed
    BY <2>2 DEF Flushed
  <2>3. CASE SecondPromptEnds
    BY <2>3, Quieter DEF SecondPromptEnds, Quiet, Base, Typed, RunTyped
  <2> QED BY <2>1, <2>2, <2>3
<1>3. CASE RunFails
  <2>1. Reply(chat, Words, "failed") /\ said' = said
    BY <1>3 DEF RunFails
  <2> QED BY <1>1, <1>2, <2>1, WordsTyped, OpenReply
<1>4. CASE Flushed
  <2>1. Decide /\ pc = "flushing" /\ UNCHANGED files
    BY <1>4 DEF Flushed
  <2>2. CASE Joined # <<>>
    <3>1. Reply(chat, Chunks(Joined), "files") /\ said' = said
      BY <2>1, <2>2 DEF Decide
    <3> QED BY <1>1, <1>2, <3>1, AnswerTyped, OpenReply
  <2>3. CASE Joined = <<>> /\ files
    <3>1. pc' = "files" /\ UNCHANGED <<job, said, asked, chat>>
      BY <2>1, <2>3 DEF Decide
    <3>2. Joined' = Joined
      BY <3>1 DEF Joined
    <3>3. OpenSession'
      BY <2>1, <2>3, <3>1, <3>2 DEF OpenSession, ToClose
    <3>4. OpenPatch' /\ OpenStream'
      BY <1>1, <1>2, <3>1 DEF Open, OpenPatch, OpenStream
    <3>5. \A i \in 1..Len(chat) : ~HasLink(chat[i], "run")
      BY <2>1 DEF Open, OpenCards, CardOpen
    <3> QED BY <1>1, <3>1, <3>3, <3>4, <3>5, OpenSame
  <2>4. CASE Joined = <<>> /\ ~files /\ asked = 1
    BY <2>1, <2>4 DEF Decide, Quiet
  <2>5. CASE Joined = <<>> /\ ~files /\ asked # 1
    <3>1. Reply(chat, Words, "stopping") /\ said' = said
      BY <2>1, <2>5 DEF Decide
    <3> QED BY <1>1, <1>2, <3>1, WordsTyped, OpenReply
  <2> QED BY <2>2, <2>3, <2>4, <2>5
<1> QED BY <1>2, <1>3, <1>4

LEMMA OpenPrompt ==
  ASSUME Base, Open, Opens \/ SessionReady \/ Speaks \/ PromptEnds PROVE Open'
<1>1. UNCHANGED <<chat, orphans, session, stage, job>>
      /\ pc' \in {"opening", "prompting", "flushing"} /\ pc \in {"waiting", "opening", "prompting"}
  BY DEF Opens, SessionReady, Speaks, PromptEnds, clientVars, serverVars, history, streamVars
<1>2. \A i \in 1..Len(chat) : ~HasLink(chat[i], "run")
  BY <1>1 DEF Open, OpenCards, CardOpen
<1>3. OpenSession' /\ OpenPatch' /\ ~Closing
  BY <1>1 DEF OpenSession, OpenPatch, ToClose, Answered, Closing
<1>4. ~Answered'
  BY <1>1 DEF Answered
<1>5. OpenStream'
  <2>1. CASE Opens \/ SessionReady
    BY <1>4, <2>1 DEF Open, OpenStream, Opens, SessionReady, streamVars
  <2>2. CASE PromptEnds
    <3>1. said' = said
      BY <2>2 DEF PromptEnds
    <3>2. said = <<>> => pend = <<>> /\ last = <<>> /\ chain = <<>>
      BY DEF Open, OpenStream
    <3>3. pend = <<>> => UNCHANGED <<pend, last, sent, chain>>
      BY <2>2 DEF PromptEnds
    <3> QED BY <1>4, <3>1, <3>2, <3>3 DEF OpenStream
  <2>3. CASE Speaks
    <3>1. PICK s : s = IF asked = 1 THEN Script ELSE Again
      OBVIOUS
    <3>2. pc = "prompting" /\ said # s /\ said' = Longer(s)
      BY <2>3, <3>1 DEF Speaks
    <3>3. s \in Seq(Texts) /\ <<>> \notin ToSet(s) /\ Spoken(said, s) /\ said \in Seq(Texts)
      BY <3>1, <3>2, TextOfScript DEF Base, Typed, RunTyped
    <3>4. said' \in Seq(Texts) /\ Len(said') \in Nat \ {0}
      BY <3>2, <3>3, LongerTyped
    <3>5. said' # <<>>
      BY <3>4, TextTyped
    <3> QED BY <1>4, <3>5 DEF OpenStream
  <2> QED BY <2>1, <2>2, <2>3
<1> QED BY <1>1, <1>2, <1>3, <1>5, OpenSame

LEMMA OpenEnding ==
  ASSUME Base, Open,
         Stops \/ Settles \/ \E arrives \in BOOLEAN : Uploads(arrives)
  PROVE  Open'
<1>1. UNCHANGED <<said, session, orphans, stage, chain, pend, last>> /\ Answered /\ ~Closing
      /\ pc # "closing"
  BY DEF Stops, Settles, Uploads, clientVars, streamVars, history, Answered, Closing
<1>2. chain = <<>>
  BY <1>1 DEF Open, OpenStream
<1>3. \A i \in 1..Len(chat) : ~HasLink(chat[i], "run")
  BY <1>1 DEF Open, OpenCards, CardOpen
<1>4. ASSUME UNCHANGED <<job, chat>>, pc' \in {"stopping", "cancelling", "done"},
             pc = "files" => ~(files /\ Joined = <<>>)
      PROVE  Open'
  <2>1. OpenSession'
    BY <1>1, <1>4 DEF Open, OpenSession, ToClose
  <2>2. OpenPatch' /\ OpenStream'
    BY <1>1, <1>2, <1>4 DEF Open, OpenPatch, OpenStream
  <2> QED BY <1>1, <1>3, <1>4, <2>1, <2>2, OpenSame
<1>5. ASSUME NEW then \in {"files", "stopping", "failed", "done"}, Reply(chat, Words, then)
      PROVE  Open'
  BY <1>1, <1>2, <1>5, WordsTyped, OpenReply
<1>6. CASE Stops
  BY <1>4, <1>6 DEF Stops, serverVars
<1>7. CASE Settles
  BY <1>4, <1>5, <1>7 DEF Settles
<1>8. CASE \E arrives \in BOOLEAN : Uploads(arrives)
  <2>1. PICK arrives \in BOOLEAN : Uploads(arrives)
    BY <1>8
  <2>2. \/ UNCHANGED <<job, chat>> /\ pc' = "stopping" /\ ~(files /\ Joined = <<>>)
        \/ \E then \in {"stopping", "failed"} : Reply(chat, Words, then)
    BY <2>1 DEF Uploads
  <2> QED BY <1>4, <1>5, <2>2
<1> QED BY <1>6, <1>7, <1>8

LEMMA OpenCloses == ASSUME Base, Open, Closes PROVE Open'
<1>1. /\ UNCHANGED <<chat, orphans, session, stage, said, chain, pend, last>>
      /\ pc = "closing" /\ pc' = "patching" /\ chat[job.card].links = <<>>
      /\ job' = [job EXCEPT !.put = chat[job.card].number + 1] /\ job \in Jobs
  BY DEF Closes, clientVars, serverVars, history, streamVars, Base, Typed, RunTyped
<1>2. job'.card = job.card /\ job'.put = chat[job.card].number + 1
  BY <1>1 DEF Jobs
<1>3. Closing /\ Closing' /\ Answered
  BY <1>1 DEF Closing, Answered
<1>4. OpenSession'
  BY <1>1, <1>2, <1>3 DEF Open, OpenSession, ToClose, Closing
<1>5. OpenPatch' /\ OpenStream'
  BY <1>1, <1>2, <1>3 DEF Open, OpenPatch, OpenStream
<1>6. \A i \in 1..Len(chat) : ~HasLink(chat[i], "run")
  <2> TAKE i \in 1..Len(chat)
  <2>1. CASE i = job.card
    BY <1>1, <2>1, CardOf, NoLinks
  <2>2. CASE i # job.card
    BY <2>2 DEF Open, OpenCards, CardOpen
  <2> QED BY <2>1, <2>2
<1> QED BY <1>1, <1>2, <1>3, <1>4, <1>5, <1>6, OpenSame

LEMMA OpenPatchEnds == ASSUME Base, Open, Quiet', Next, NEW o \in Outcomes, PatchEnds(o) PROVE Open'
<1>0. o = "ok" /\ pc = "patching"
  BY Quieter DEF PatchEnds
<1>1. PICK c : c = chat[job.card]
  OBVIOUS
<1>2. job.card \in 1..Len(chat) /\ c \in Messages /\ CardInv(c) /\ job.put \in Nat /\ job \in Jobs
  BY <1>0, <1>1, FirstChunk, CardOf DEF Base, Typed, RunTyped, Jobs
<1>3. c.seq = c.number /\ job.put = c.number + 1 /\ c.number \in Nat
  BY <1>0, <1>1, <1>2 DEF Open, OpenCards, CardOpen, OpenPatch, Messages
<1>4. job.put > c.seq
  BY <1>3
<1>5. PICK d : d = [c EXCEPT !.open = FALSE, !.seq = job.put, !.number = job.put]
  OBVIOUS
<1>6. d \in Messages /\ ~d.open /\ d.links = c.links /\ d.seq = job.put /\ d.number = job.put
      /\ d.put = c.put /\ Kept(c, d)
  <2>1. Kept(c, d) /\ d \in Messages
    <3>1. job.put <= c.number + 1
      BY <1>3
    <3> QED BY <1>2, <1>4, <1>5, <3>1, ClosingDone
  <2> QED BY <1>2, <1>5, <2>1 DEF Messages
<1>7. /\ chat' = [chat EXCEPT ![job.card] =
                    [c EXCEPT !.open = FALSE, !.seq = job.put, !.number = job.put]]
      /\ ForgetCard /\ pc' = Moves(2)
      /\ UNCHANGED <<said, files, stage, chain, pend, last>>
  BY <1>0, <1>1, <1>4 DEF PatchEnds, streamVars
<1>8. chat' = Changed(chat, job.card, d)
  BY <1>5, <1>7, Zenon DEF Changed
<1>9. Len(chat') = Len(chat)
      /\ \A j \in 1..Len(chat) : chat'[j] = IF j = job.card THEN d ELSE chat[j]
  BY <1>1, <1>2, <1>6, <1>8, CardChanges
<1>10. pc' \in {"posting", "files", "stopping", "done"}
  BY <1>0, <1>7, GoesTo DEF Replying
<1>11. session' = 0 /\ orphans' = orphans \cup ({session} \ {0, job.card})
  BY <1>7 DEF ForgetCard
<1>12. \A i \in 1..Len(chat) : chat[i].links = <<>> /\ chat[i].put = 0
  BY <1>0, NothingQueued DEF Answered
<1>13. OpenCards'
  <2> SUFFICES ASSUME NEW i \in 1..Len(chat) PROVE CardOpen(chat[i], i)'
    BY <1>9 DEF OpenCards
  <2>1. CardOpen(chat[i], i) /\ chat[i] \in Messages /\ chat[i].links = <<>>
    BY <1>12, CardOf DEF Open, OpenCards
  <2>2. CASE i = job.card
    <3>1. chat'[i] = d /\ d.links = <<>> /\ d.put = 0
      BY <1>1, <1>6, <1>9, <1>12, <2>2
    <3>2. ~HasLink(d, "run") /\ ~HasLink(d, "stream")
      BY <1>6, <3>1, NoLinks
    <3> QED BY <1>6, <3>1, <3>2 DEF CardOpen
  <2>3. CASE i # job.card
    <3>1. chat'[i] = chat[i]
      BY <1>9, <2>3
    <3>2. ~HasLink(chat[i], "run") /\ ~HasLink(chat[i], "stream")
      BY <2>1, NoLinks
    <3>3. chat[i].open = TRUE => i \in orphans \/ i = session
      BY <2>1, <2>3 DEF CardOpen
    <3>4. i = session => i \in orphans'
      BY <1>11, <2>3
    <3>5. i \in orphans => i \in orphans'
      BY <1>11
    <3> QED BY <2>1, <3>1, <3>2, <3>3, <3>4, <3>5 DEF CardOpen
  <2> QED BY <2>2, <2>3
<1>14. OpenSession' /\ OpenPatch'
  BY <1>10, <1>11 DEF OpenSession, OpenPatch
<1>15. OpenStream'
  BY <1>0, <1>7 DEF Open, OpenStream, Answered
<1> QED BY <1>13, <1>14, <1>15 DEF Open

LEMMA OpenPosts == ASSUME Base, Open, Quiet', Next, NEW o \in Outcomes, Posts(o) PROVE Open'
<1>0. o = "ok" /\ pc = "posting"
  BY Quieter DEF Posts
<1>1. job.at \in 1..Len(job.chunks) /\ job.chunks \in Seq(Texts) /\ job.at \in Nat
  BY <1>0 DEF Base, Typed, RunTyped, ReplyInv, Jobs
<1>2. PICK m : m = Plain(job.chunks[job.at])
  OBVIOUS
<1>3. m \in Messages /\ m.seq = m.number /\ m.links = <<>> /\ ~m.open /\ m.put = 0
  <2>1. job.chunks[job.at] \in Texts
    BY <1>1, ElementOfSeq
  <2> QED BY <1>2, <2>1, NewPlain DEF Plain
<1>4. /\ chat' = Append(chat, m) /\ pc' = Moves(job.at + 1)
      /\ UNCHANGED <<said, files, stage, chain, pend, last, session, orphans>>
  BY <1>0, <1>2 DEF Posts, streamVars, clientVars
<1>5. pc' \in {"posting", "files", "stopping", "done"}
  BY <1>0, <1>1, <1>4, GoesTo DEF Replying
<1>6. /\ Len(chat') = Len(chat) + 1 /\ Len(chat) \in Nat /\ chat'[Len(chat) + 1] = m
      /\ \A i \in 1..Len(chat) : chat'[i] = chat[i]
  <2>1. chat \in Seq(Messages)
    BY DEF Base, Typed, ChatTyped
  <2> QED BY <1>3, <1>4, <2>1, AppendProperties, LenProperties
<1>7. OpenCards'
  <2> SUFFICES ASSUME NEW i \in 1..Len(chat') PROVE CardOpen(chat[i], i)'
    BY DEF OpenCards
  <2>1. i \in 1..Len(chat) \/ i = Len(chat) + 1
    BY <1>6
  <2>2. CASE i \in 1..Len(chat)
    <3>1. CardOpen(chat[i], i) /\ chat'[i] = chat[i]
      BY <1>6, <2>2 DEF Open, OpenCards
    <3> QED BY <1>0, <1>4, <3>1 DEF CardOpen, Closing
  <2>3. CASE i = Len(chat) + 1
    <3>1. chat'[i] = m
      BY <1>6, <2>3
    <3> QED BY <1>3, <3>1, NoLinks DEF CardOpen
  <2> QED BY <2>1, <2>2, <2>3
<1>8. OpenSession' /\ OpenPatch'
  BY <1>0, <1>4, <1>5 DEF Open, OpenSession, OpenPatch, ToClose, Answered, Closing
<1>9. OpenStream'
  BY <1>0, <1>4 DEF Open, OpenStream, Answered
<1> QED BY <1>7, <1>8, <1>9 DEF Open

LEMMA OpenNext == ASSUME Base, OpenInv, [Next]_vars PROVE OpenInv'
<1>1. CASE UNCHANGED vars
  <2>1. UNCHANGED <<pc, job, said, files, session, orphans, stage, chain, pend, last, chat>>
        /\ UNCHANGED <<failures, asked>>
    BY <1>1 DEF vars, runVars, streamVars, clientVars, serverVars, history
  <2>2. Quiet' => Quiet
    BY <2>1 DEF Quiet
  <2> QED BY <2>1, <2>2, OpenApart, FollowsItself DEF OpenInv
<1>2. CASE Next
  <2> SUFFICES ASSUME Quiet' PROVE Open'
    BY DEF OpenInv
  <2>1. Open
    BY <1>2, Quieter DEF OpenInv
  <2>2. CASE PulseStep \/ Tick
    BY <1>2, <2>1, <2>2, OpenPulse
  <2>3. CASE StreamStep
    BY <1>2, <2>1, <2>3, OpenStreamStep
  <2>4. CASE CardStep
    BY <1>2, <2>1, <2>4, OpenCardStep
  <2>5. CASE RunStep
    BY <1>2, <2>1, <2>5, OpenAnswers, OpenPrompt, OpenEnding, OpenCloses, OpenPatchEnds, OpenPosts
    DEF RunStep
  <2> QED BY <1>2, <2>2, <2>3, <2>4, <2>5 DEF Next
<1> QED BY <1>1, <1>2

LEMMA OpenInit == Init => OpenInv
<1> SUFFICES ASSUME Init PROVE Open
  BY DEF OpenInv
<1>1. chat = <<>> /\ chain = <<>> /\ pend = <<>> /\ last = <<>> /\ session = 0 /\ pc = "waiting"
  BY DEF Init
<1>2. \A i \in 1..Len(chat) : FALSE
  BY <1>1
<1> QED BY <1>1, <1>2 DEF Open, OpenCards, OpenSession, OpenPatch, OpenStream

(* If the server answers every request and the model is asked once, a card  *)
(* that still streams when all is over is one that cardKitStreamBySource had *)
(* no longer, or not yet, when reply() looked for the card to close.        *)
THEOREM OpenCardsLost == Spec => []OpenCardsAreLost
<1>1. Base /\ OpenInv /\ [Next]_vars => OpenInv'
  BY OpenNext
<1>2. Base /\ OpenInv => OpenCardsAreLost
  <2> SUFFICES ASSUME Base, OpenInv, Over, failures = 0, asked < 2, NEW i \in DOMAIN chat, chat[i].open
               PROVE  i \in orphans
    BY DEF OpenCardsAreLost
  <2>1. Open /\ pc = "done"
    BY DEF OpenInv, Quiet, Over
  <2>2. i \in 1..Len(chat)
    BY LenProperties DEF Base, Typed, ChatTyped
  <2>3. chat[i].open = TRUE
    BY <2>2, CardOf DEF Messages
  <2>4. i \in orphans \/ i = session
    BY <2>1, <2>2, <2>3 DEF Open, OpenCards, CardOpen, Closing
  <2>5. session = 0 \/ session \in orphans
    BY <2>1 DEF Open, OpenSession, ToClose, Answered, Closing
  <2> QED BY <2>2, <2>4, <2>5
<1> QED BY <1>1, <1>2, OpenInit, ReplyInvariance, PTL DEF Spec
=============================================================================
