----------------------- MODULE FileMutationQueueProofs -----------------------
(***************************************************************************)
(* Under every key the calls of the write and edit tools run one at a time  *)
(* and in order.  The code knows the chain of promises only link by link;   *)
(* the inductive invariant (Chain) says that the pending calls of a key     *)
(* form one line in which each awaits the one before it, the first awaits   *)
(* nobody and the map holds the last.  From it follows, for runs without an *)
(* abort, what the calls leave on the disk (Undisturbed).                   *)
(***************************************************************************)
EXTENDS FileMutationQueue, SequenceTheorems, TLAPS

QTypeOK ==
  /\ fileMutationQueues \in [Keys -> Calls \cup {None}]
  /\ key \in [Calls -> Keys]
  /\ currentQueue \in [Calls -> Calls \cup {None}]
  /\ stage \in [Calls -> {"new", "queued", "running", "released"}]
  /\ line \in [Keys -> Seq(Calls)]

Last(k) == line[k][Len(line[k])]
Chain(k) ==
  /\ \A i \in 1 .. Len(line[k]) : Pending(line[k][i]) /\ key[line[k][i]] = k
  /\ \A c \in Calls :
       Pending(c) /\ key[c] = k => \E i \in 1 .. Len(line[k]) : line[k][i] = c
  /\ \A i, j \in 1 .. Len(line[k]) : line[k][i] = line[k][j] => i = j
  /\ \A i \in 2 .. Len(line[k]) : currentQueue[line[k][i]] = line[k][i - 1]
  /\ line[k] # <<>> => Resolved(line[k][1])
  /\ fileMutationQueues[k] = IF line[k] = <<>> THEN None ELSE Last(k)
Chains == \A k \in Keys : Chain(k)
RunningResolved == \A c \in Calls : stage[c] = "running" => Resolved(c)

IInv == QTypeOK /\ Chains /\ RunningResolved

(* Pending and Resolved in the state after a step.                          *)
PendingNext(d) == stage'[d] \in {"queued", "running"}
ResolvedNext(d) ==
  currentQueue'[d] # None => stage'[currentQueue'[d]] = "released"

ChainNext(k, l, n) ==
  /\ l = line'[k] /\ n \in Nat /\ n = Len(l) /\ (l # <<>> <=> n # 0)
  /\ \A i \in 1 .. n : PendingNext(l[i]) /\ key'[l[i]] = k
  /\ \A c \in Calls : PendingNext(c) /\ key'[c] = k => \E i \in 1 .. n : l[i] = c
  /\ \A i, j \in 1 .. n : l[i] = l[j] => i = j
  /\ \A i \in 2 .. n : currentQueue'[l[i]] = l[i - 1]
  /\ n # 0 => ResolvedNext(l[1])
  /\ fileMutationQueues'[k] = IF n = 0 THEN None ELSE l[n]

LEMMA ChainPrimed ==
  ASSUME NEW k, NEW l, NEW n, ChainNext(k, l, n)
  PROVE  Chain(k)'
BY DEF ChainNext, Chain, Last, PendingNext, Pending, ResolvedNext, Resolved

(* What holds the queue under a key is the head of its line, or nothing.    *)
Heads ==
  \A k \in Keys : ActiveOn(k) = IF line[k] = <<>> THEN {} ELSE {line[k][1]}

LEMMA HeadIsActive == IInv => Heads
<1> SUFFICES ASSUME IInv, NEW k \in Keys
             PROVE  ActiveOn(k) = IF line[k] = <<>> THEN {} ELSE {line[k][1]}
  BY Zenon DEF Heads
<1> USE DEF IInv
<1>1. ASSUME NEW c \in ActiveOn(k) PROVE line[k] # <<>> /\ c = line[k][1]
  <2>1. PICK i \in 1 .. Len(line[k]) : line[k][i] = c
    BY <1>1 DEF ActiveOn, Chains, Chain
  <2>2. CASE i = 1
    BY <2>1, <2>2
  <2>3. CASE i # 1
    <3>1. i \in 2 .. Len(line[k]) /\ i - 1 \in 1 .. Len(line[k])
      BY <2>3 DEF QTypeOK
    <3>2. currentQueue[c] = line[k][i - 1] /\ Pending(line[k][i - 1])
      BY <2>1, <3>1 DEF Chains, Chain
    <3>3. line[k][i - 1] \in Calls
      BY <3>1 DEF QTypeOK
    <3>4. currentQueue[c] # None /\ stage[currentQueue[c]] # "released"
      BY <3>2, <3>3, PathsAssumption DEF Pending
    <3> QED BY <1>1, <3>4 DEF ActiveOn, Resolved
  <2> QED BY <2>2, <2>3
<1>2. ASSUME line[k] # <<>> PROVE line[k][1] \in ActiveOn(k)
  <2>1. 1 \in 1 .. Len(line[k]) /\ line[k][1] \in Calls
    BY <1>2 DEF QTypeOK
  <2> QED BY <1>2, <2>1 DEF ActiveOn, Chains, Chain
<1> QED BY <1>1, <1>2

(* Steps that leave the queue alone and start or end no call.               *)
LEMMA Frame ==
  ASSUME IInv, UNCHANGED <<queueVars, stage>>
  PROVE  IInv'
BY DEF IInv, QTypeOK, Chains, Chain, Last, RunningResolved, Resolved, Pending,
       queueVars

LEMMA CallKeeps ==
  ASSUME IInv, NEW c \in Calls, NEW t, NEW p \in Paths, Call(c, t, p)
  PROVE  IInv'
<1> USE DEF IInv
<1>1. PICK k \in Keys : k = MutationQueueKey(p)
  BY PathsAssumption DEF MutationQueueKey, Keys
<1>2. /\ stage[c] = "new" /\ stage' = [stage EXCEPT ![c] = "queued"]
      /\ key' = [key EXCEPT ![c] = k]
      /\ currentQueue' = [currentQueue EXCEPT ![c] = fileMutationQueues[k]]
      /\ fileMutationQueues' = [fileMutationQueues EXCEPT ![k] = c]
      /\ line' = [line EXCEPT ![k] = Append(line[k], c)]
  BY <1>1, Zenon DEF Call
<1>3. QTypeOK'
  BY <1>1, <1>2 DEF QTypeOK
<1>4. /\ \A d \in Calls : d # c => /\ stage'[d] = stage[d] /\ key'[d] = key[d]
                                   /\ currentQueue'[d] = currentQueue[d]
      /\ stage'[c] = "queued" /\ key'[c] = k
      /\ currentQueue'[c] = fileMutationQueues[k]
  BY <1>1, <1>2 DEF QTypeOK
<1>5. ASSUME NEW l \in Keys, NEW i \in 1 .. Len(line[l])
      PROVE  line[l][i] \in Calls /\ line[l][i] # c
  <2>1. line[l][i] \in Calls
    BY <1>5 DEF QTypeOK
  <2>2. Pending(line[l][i])
    BY <1>5 DEF Chains, Chain
  <2> QED BY <1>2, <2>1, <2>2 DEF Pending
<1>6. \A d \in Calls : d # c => (PendingNext(d) <=> Pending(d))
  BY <1>4 DEF Pending, PendingNext
<1>7. \A d \in Calls : d # c /\ Resolved(d) => ResolvedNext(d)
  <2> TAKE d \in Calls
  <2> HAVE d # c /\ Resolved(d)
  <2>1. currentQueue'[d] = currentQueue[d]
    BY <1>4
  <2>2. currentQueue[d] # None => currentQueue[d] \in Calls /\ currentQueue[d] # c
    BY <1>2 DEF QTypeOK, Resolved
  <2> QED BY <1>4, <2>1, <2>2 DEF Resolved, ResolvedNext
<1>8. ASSUME NEW l \in Keys, l # k PROVE Chain(l)'
  <2>1. line'[l] = line[l] /\ fileMutationQueues'[l] = fileMutationQueues[l]
    BY <1>1, <1>2, <1>8 DEF QTypeOK
  <2>2. \A i \in 1 .. Len(line[l]) : PendingNext(line[l][i]) /\ key'[line[l][i]] = l
    BY <1>4, <1>5, <1>6 DEF Chains, Chain
  <2>3. \A d \in Calls : PendingNext(d) /\ key'[d] = l =>
          \E i \in 1 .. Len(line[l]) : line[l][i] = d
    BY <1>4, <1>6, <1>8 DEF Chains, Chain
  <2>4. \A i, j \in 1 .. Len(line[l]) : line[l][i] = line[l][j] => i = j
    BY DEF Chains, Chain
  <2>5. \A i \in 2 .. Len(line[l]) : currentQueue'[line[l][i]] = line[l][i - 1]
    BY <1>4, <1>5 DEF Chains, Chain, QTypeOK
  <2>6. line[l] # <<>> => ResolvedNext(line[l][1])
    BY <1>5, <1>7 DEF Chains, Chain, QTypeOK
  <2>7. fileMutationQueues[l] = IF line[l] = <<>> THEN None ELSE Last(l)
    BY DEF Chains, Chain
  <2>8. ChainNext(l, line[l], Len(line[l]))
    <3>1. line[l] \in Seq(Calls)
      BY DEF QTypeOK
    <3>2. Len(line[l]) \in Nat /\ (line[l] # <<>> <=> Len(line[l]) # 0)
      BY <3>1
    <3> QED
      BY <2>1, <2>2, <2>3, <2>4, <2>5, <2>6, <2>7, <3>2 DEF ChainNext, Last
  <2> QED BY <2>8, ChainPrimed
<1>9. Chain(k)'
  <2>0. PICK n : n = Len(line[k])
    OBVIOUS
  <2>1. /\ line'[k] = Append(line[k], c) /\ line[k] \in Seq(Calls)
        /\ fileMutationQueues'[k] = c
    BY <1>1, <1>2 DEF QTypeOK
  <2>2. /\ n \in Nat /\ Len(line'[k]) = n + 1 /\ line'[k] # <<>>
        /\ line'[k][n + 1] = c
        /\ \A i \in 1 .. n : line'[k][i] = line[k][i]
    BY <2>0, <2>1
  <2>3. ASSUME NEW i \in 1 .. n + 1
        PROVE  PendingNext(line'[k][i]) /\ key'[line'[k][i]] = k
    <3>1. CASE i = n + 1
      BY <1>4, <2>2, <3>1 DEF PendingNext
    <3>2. CASE i \in 1 .. n
      <4>1. line[k][i] \in Calls /\ line[k][i] # c
        BY <2>0, <1>1, <1>5, <3>2
      <4>2. Pending(line[k][i]) /\ key[line[k][i]] = k
        BY <2>0, <1>1, <3>2 DEF Chains, Chain
      <4> QED BY <1>4, <1>6, <2>2, <3>2, <4>1, <4>2
    <3> QED BY <2>2, <2>3, <3>1, <3>2
  <2>4. ASSUME NEW d \in Calls, PendingNext(d), key'[d] = k
        PROVE  \E i \in 1 .. n + 1 : line'[k][i] = d
    <3>1. CASE d = c
      BY <2>2, <3>1
    <3>2. CASE d # c
      <4>1. Pending(d) /\ key[d] = k
        BY <1>4, <1>6, <2>4, <3>2
      <4>2. PICK i \in 1 .. n : line[k][i] = d
        BY <2>0, <1>1, <4>1 DEF Chains, Chain
      <4> QED BY <2>2, <4>2
    <3> QED BY <3>1, <3>2
  <2>5. \A i, j \in 1 .. n + 1 : line'[k][i] = line'[k][j] => i = j
    <3>1. \A i, j \in 1 .. n : line[k][i] = line[k][j] => i = j
      BY <2>0, <1>1 DEF Chains, Chain
    <3>2. \A i \in 1 .. n : line[k][i] # c
      BY <2>0, <1>1, <1>5
    <3> QED BY <2>2, <3>1, <3>2
  <2>6. ASSUME NEW i \in 2 .. n + 1
        PROVE  currentQueue'[line'[k][i]] = line'[k][i - 1]
    <3>1. CASE i = n + 1
      <4>1. n \in 1 .. n /\ line[k] # <<>>
        BY <2>0, <2>2, <2>6, <3>1
      <4>2. fileMutationQueues[k] = line[k][n]
        BY <2>0, <1>1, <4>1 DEF Chains, Chain, Last
      <4> QED BY <1>4, <2>2, <3>1, <4>1, <4>2
    <3>2. CASE i \in 2 .. n
      <4>1. i \in 1 .. n /\ i - 1 \in 1 .. n
        BY <2>2, <3>2
      <4>2. line[k][i] \in Calls /\ line[k][i] # c
        BY <2>0, <1>1, <1>5, <4>1
      <4>3. currentQueue[line[k][i]] = line[k][i - 1]
        BY <2>0, <1>1, <3>2 DEF Chains, Chain
      <4> QED BY <1>4, <2>2, <4>1, <4>2, <4>3
    <3> QED BY <2>2, <2>6, <3>1, <3>2
  <2>7. ResolvedNext(line'[k][1])
    <3>1. CASE n = 0
      <4>1. line[k] = <<>>
        <5>1. line[k] \in Seq(Calls) /\ Len(line[k]) = 0
          BY <2>0, <2>1, <3>1
        <5> QED BY <5>1
      <4>2. fileMutationQueues[k] = None
        BY <1>1, <4>1 DEF Chains, Chain
      <4> QED BY <1>4, <2>2, <3>1, <4>2 DEF ResolvedNext
    <3>2. CASE n # 0
      <4>1. 1 \in 1 .. n /\ line[k] # <<>>
        BY <2>0, <2>1, <2>2, <3>2
      <4>2. line[k][1] \in Calls /\ line[k][1] # c
        BY <2>0, <1>1, <1>5, <4>1
      <4>3. Resolved(line[k][1])
        BY <1>1, <4>1 DEF Chains, Chain
      <4>4. line'[k][1] = line[k][1]
        BY <2>2, <4>1
      <4> QED BY <1>7, <4>2, <4>3, <4>4
    <3> QED BY <3>1, <3>2
  <2>8. ChainNext(k, line'[k], n + 1)
    BY <2>1, <2>2, <2>3, <2>4, <2>5, <2>6, <2>7 DEF ChainNext
  <2> QED BY <2>8, ChainPrimed, Zenon
<1>10. RunningResolved'
  BY <1>4, <1>7 DEF RunningResolved, ResolvedNext, Resolved
<1>11. \A l \in Keys : Chain(l)'
  BY <1>8, <1>9, Zenon
<1> QED BY <1>3, <1>10, <1>11, Zenon DEF Chains, Keys

LEMMA StartKeeps ==
  ASSUME IInv, NEW c \in Calls, Start(c)
  PROVE  IInv'
<1> USE DEF IInv
<1>1. /\ stage[c] = "queued" /\ stage' = [stage EXCEPT ![c] = "running"]
      /\ Resolved(c) /\ UNCHANGED queueVars
  BY Zenon DEF Start
<1>2. QTypeOK'
  BY <1>1 DEF QTypeOK, queueVars
<1>3. /\ \A d \in Calls : d # c => stage'[d] = stage[d]
      /\ stage'[c] = "running"
      /\ currentQueue' = currentQueue /\ key' = key
      /\ line' = line /\ fileMutationQueues' = fileMutationQueues
  BY <1>1 DEF QTypeOK, queueVars
<1>4. \A d \in Calls : PendingNext(d) <=> Pending(d)
  BY <1>1, <1>3 DEF Pending, PendingNext
<1>5. \A d \in Calls : Resolved(d) => ResolvedNext(d)
  BY <1>1, <1>3 DEF Resolved, ResolvedNext, QTypeOK
<1>6. ASSUME NEW l \in Keys PROVE Chain(l)'
  <2>1. line[l] \in Seq(Calls)
    BY DEF QTypeOK
  <2>2. \A i \in 1 .. Len(line[l]) : line[l][i] \in Calls
    BY <2>1
  <2>3. Len(line[l]) \in Nat /\ (line[l] # <<>> <=> Len(line[l]) # 0)
    BY <2>1
  <2>4. \A i \in 1 .. Len(line[l]) : PendingNext(line[l][i]) /\ key[line[l][i]] = l
    BY <1>4, <2>2 DEF Chains, Chain
  <2>5. \A d \in Calls : PendingNext(d) /\ key[d] = l =>
          \E i \in 1 .. Len(line[l]) : line[l][i] = d
    BY <1>4 DEF Chains, Chain
  <2>6. Len(line[l]) # 0 => ResolvedNext(line[l][1])
    BY <1>5, <2>2, <2>3 DEF Chains, Chain
  <2>7. ChainNext(l, line[l], Len(line[l]))
    BY <1>3, <2>3, <2>4, <2>5, <2>6 DEF ChainNext, Chains, Chain, Last
  <2> QED BY <2>7, ChainPrimed
<1>7. RunningResolved'
  BY <1>1, <1>3, <1>5 DEF RunningResolved, ResolvedNext, Resolved
<1> QED BY <1>2, <1>6, <1>7 DEF Chains

(* A call that runs is the head of its line.                                *)
LEMMA RunningIsHead ==
  ASSUME IInv, NEW c \in Calls, stage[c] = "running"
  PROVE  /\ line[key[c]] # <<>> /\ line[key[c]][1] = c
         /\ ActiveOn(key[c]) = {c}
<1>1. key[c] \in Keys /\ c \in ActiveOn(key[c])
  BY DEF IInv, QTypeOK, RunningResolved, ActiveOn, Pending
<1> QED BY <1>1, HeadIsActive DEF Heads

LEMMA ReleaseKeeps ==
  ASSUME IInv, NEW c \in Calls, Release(c)
  PROVE  IInv'
<1> USE DEF IInv
<1>1. PICK k \in Keys : k = key[c]
  BY DEF QTypeOK
<1>2. /\ stage[c] = "running" /\ stage' = [stage EXCEPT ![c] = "released"]
      /\ key' = key /\ currentQueue' = currentQueue
      /\ fileMutationQueues' = EntryAfter(c)
      /\ line' = [line EXCEPT ![k] =
                    IF line[k] # <<>> /\ Head(line[k]) = c
                    THEN Tail(line[k]) ELSE line[k]]
  BY <1>1, Zenon DEF Release
<1>3. PICK q : q = line[k]
  OBVIOUS
<1>4. q \in Seq(Calls) /\ q # <<>> /\ q[1] = c
  BY <1>1, <1>2, <1>3, RunningIsHead DEF QTypeOK
<1>5. PICK n : n = Len(q)
  OBVIOUS
<1>6. PICK r : r = Tail(q)
  OBVIOUS
<1>7. /\ n \in Nat /\ n # 0 /\ Head(q) = c /\ Len(r) = n - 1
      /\ r \in Seq(Calls) /\ (r # <<>> <=> n - 1 # 0)
      /\ \A i \in 1 .. n - 1 : r[i] = q[i + 1]
      /\ \A i \in 1 .. n : q[i] \in Calls
      /\ line' = [line EXCEPT ![k] = r]
  <2>1. n \in Nat /\ n # 0 /\ Head(q) = c /\ \A i \in 1 .. n : q[i] \in Calls
    BY <1>4, <1>5
  <2>2. r \in Seq(Calls) /\ Len(r) = n - 1
    BY <1>4, <1>5, <1>6
  <2>3. \A i \in 1 .. n - 1 : r[i] = q[i + 1]
    BY <1>4, <1>5, <1>6
  <2>4. r # <<>> <=> Len(r) # 0
    BY <2>2, EmptySeq, Zenon
  <2>5. line' = [line EXCEPT ![k] = r]
    BY <1>2, <1>3, <1>4, <1>6, <2>1, Zenon
  <2> QED BY <2>1, <2>2, <2>3, <2>4, <2>5
<1>8. QTypeOK'
  <2>1. line' \in [Keys -> Seq(Calls)] /\ stage' \in [Calls -> {"new", "queued", "running", "released"}]
    BY <1>2, <1>7 DEF QTypeOK
  <2>2. fileMutationQueues' \in [Keys -> Calls \cup {None}]
    BY <1>2 DEF QTypeOK, EntryAfter
  <2> QED BY <1>2, <2>1, <2>2, Zenon DEF QTypeOK
<1>9. /\ \A d \in Calls : d # c => stage'[d] = stage[d]
      /\ stage'[c] = "released"
  BY <1>2 DEF QTypeOK
<1>10. \A d \in Calls : PendingNext(d) <=> Pending(d) /\ d # c
  BY <1>9 DEF Pending, PendingNext
<1>11. \A d \in Calls : Resolved(d) => ResolvedNext(d)
  BY <1>2, <1>9 DEF Resolved, ResolvedNext, QTypeOK
<1>12. ASSUME NEW l \in Keys, l # k PROVE Chain(l)'
  <2>1. line[l] \in Seq(Calls) /\ line'[l] = line[l]
    BY <1>7, <1>12 DEF QTypeOK
  <2>2. fileMutationQueues'[l] = fileMutationQueues[l]
    BY <1>1, <1>2, <1>12 DEF QTypeOK, EntryAfter
  <2>3. \A i \in 1 .. Len(line[l]) : line[l][i] \in Calls /\ line[l][i] # c
    BY <1>1, <1>12, <2>1 DEF Chains, Chain
  <2>4. Len(line[l]) \in Nat /\ (line[l] # <<>> <=> Len(line[l]) # 0)
    BY <2>1
  <2>5. \A i \in 1 .. Len(line[l]) : PendingNext(line[l][i]) /\ key[line[l][i]] = l
    BY <1>10, <2>3 DEF Chains, Chain
  <2>6. \A d \in Calls : PendingNext(d) /\ key[d] = l =>
          \E i \in 1 .. Len(line[l]) : line[l][i] = d
    BY <1>10 DEF Chains, Chain
  <2>7. Len(line[l]) # 0 => ResolvedNext(line[l][1])
    BY <1>11, <2>3, <2>4 DEF Chains, Chain
  <2>8. /\ \A i, j \in 1 .. Len(line[l]) : line[l][i] = line[l][j] => i = j
        /\ \A i \in 2 .. Len(line[l]) : currentQueue[line[l][i]] = line[l][i - 1]
        /\ fileMutationQueues[l] =
             IF Len(line[l]) = 0 THEN None ELSE line[l][Len(line[l])]
    BY <2>4 DEF Chains, Chain, Last
  <2>9. ChainNext(l, line[l], Len(line[l]))
    <3>1. key' = key /\ currentQueue' = currentQueue
      BY <1>2
    <3> QED
      BY <2>1, <2>2, <2>4, <2>5, <2>6, <2>7, <2>8, <3>1, Zenon DEF ChainNext
  <2> QED BY <2>9, ChainPrimed
<1>13. Chain(k)'
  <2>1. line'[k] = r
    BY <1>7 DEF QTypeOK
  <2>2. /\ \A i \in 1 .. n : Pending(q[i]) /\ key[q[i]] = k
        /\ \A d \in Calls : Pending(d) /\ key[d] = k => \E i \in 1 .. n : q[i] = d
        /\ \A i, j \in 1 .. n : q[i] = q[j] => i = j
        /\ \A i \in 2 .. n : currentQueue[q[i]] = q[i - 1]
        /\ fileMutationQueues[k] = q[n]
    <3>1. Chain(k)
      BY Zenon DEF Chains
    <3> QED BY <1>3, <1>4, <1>5, <3>1, Zenon DEF Chain, Last
  <2>3. ASSUME NEW i \in 1 .. n - 1
        PROVE  PendingNext(r[i]) /\ key[r[i]] = k
    <3>1. i + 1 \in 1 .. n /\ 1 \in 1 .. n /\ i + 1 # 1 /\ r[i] = q[i + 1]
      BY <1>7
    <3>2. q[i + 1] # c
      BY <1>4, <2>2, <3>1
    <3> QED BY <1>7, <1>10, <2>2, <3>1, <3>2
  <2>4. ASSUME NEW d \in Calls, PendingNext(d), key[d] = k
        PROVE  \E i \in 1 .. n - 1 : r[i] = d
    <3>1. Pending(d) /\ d # c
      BY <1>10, <2>4
    <3>2. PICK i \in 1 .. n : q[i] = d
      BY <2>2, <2>4, <3>1
    <3>3. i # 1
      BY <1>4, <3>1, <3>2
    <3>4. i - 1 \in 1 .. n - 1 /\ (i - 1) + 1 = i
      BY <1>7, <3>3
    <3>5. r[i - 1] = d
      BY <1>7, <3>2, <3>4
    <3> QED BY <3>4, <3>5
  <2>5. \A i, j \in 1 .. n - 1 : r[i] = r[j] => i = j
    <3> TAKE i, j \in 1 .. n - 1
    <3>1. i + 1 \in 1 .. n /\ j + 1 \in 1 .. n
      BY <1>7
    <3>2. r[i] = r[j] => i + 1 = j + 1
      <4>1. r[i] = q[i + 1] /\ r[j] = q[j + 1]
        BY <1>7
      <4>2. q[i + 1] = q[j + 1] => i + 1 = j + 1
        BY <2>2, <3>1, Zenon
      <4> QED BY <4>1, <4>2
    <3> QED BY <1>7, <3>2
  <2>6. \A i \in 2 .. n - 1 : currentQueue[r[i]] = r[i - 1]
    <3> TAKE i \in 2 .. n - 1
    <3>1. /\ i + 1 \in 2 .. n /\ (i + 1) - 1 = i /\ i \in 1 .. n - 1
          /\ i - 1 \in 1 .. n - 1 /\ (i - 1) + 1 = i
      BY <1>7
    <3>2. currentQueue[q[i + 1]] = q[i]
      BY <2>2, <3>1
    <3> QED BY <1>7, <3>1, <3>2
  <2>7. n - 1 # 0 => ResolvedNext(r[1])
    <3> HAVE n - 1 # 0
    <3>1. 2 \in 2 .. n /\ 1 \in 1 .. n - 1
      BY <1>7
    <3>2. r[1] = q[2] /\ currentQueue[q[2]] = c
      BY <1>4, <1>7, <2>2, <3>1
    <3> QED BY <1>2, <1>9, <3>2 DEF ResolvedNext
  <2>8. fileMutationQueues'[k] = IF n - 1 = 0 THEN None ELSE r[n - 1]
    <3>1. CASE n = 1
      <4>1. fileMutationQueues[k] = c
        BY <1>4, <2>2, <3>1
      <4> QED BY <1>1, <1>2, <3>1, <4>1 DEF EntryAfter, QTypeOK
    <3>2. CASE n # 1
      <4>1. /\ n \in 1 .. n /\ 1 \in 1 .. n
            /\ n - 1 \in 1 .. n - 1 /\ (n - 1) + 1 = n
        BY <1>7, <3>2
      <4>2. q[n] # c /\ r[n - 1] = q[n]
        BY <1>4, <1>7, <2>2, <3>2, <4>1
      <4>3. fileMutationQueues' = fileMutationQueues
        BY <1>1, <1>2, <2>2, <4>2 DEF EntryAfter
      <4> QED BY <1>7, <2>2, <3>2, <4>2, <4>3
    <3> QED BY <3>1, <3>2
  <2>9. ChainNext(k, r, n - 1)
    <3>1. key' = key /\ currentQueue' = currentQueue /\ n - 1 \in Nat
      BY <1>2, <1>7
    <3> QED
      BY <1>7, <2>1, <2>3, <2>4, <2>5, <2>6, <2>7, <2>8, <3>1, Zenon
      DEF ChainNext
  <2> QED BY <2>9, ChainPrimed, Zenon
<1>14. RunningResolved'
  BY <1>9, <1>11 DEF RunningResolved, ResolvedNext, Resolved
<1>15. \A l \in Keys : Chain(l)'
  BY <1>12, <1>13, Zenon
<1> QED BY <1>8, <1>14, <1>15, Zenon DEF Chains, Keys

LEMMA StepKeeps == ASSUME IInv, [Next]_vars PROVE IInv'
<1>1. ASSUME NEW c \in Calls, NEW t \in {"write", "edit"}, NEW p \in Paths,
             Call(c, t, p)
      PROVE  IInv'
  BY <1>1, CallKeeps, Zenon
<1>2. ASSUME NEW c \in Calls, Step(c) PROVE IInv'
  <2>1. CASE Start(c)
    BY <2>1, StartKeeps, Zenon
  <2>2. CASE Release(c)
    BY <2>2, ReleaseKeeps, Zenon
  <2>3. CASE MakeDirectory(c) \/ Access(c) \/ Read(c) \/ Open(c) \/ Write(c)
    <3>1. UNCHANGED <<queueVars, stage>>
      BY <2>3, Zenon DEF MakeDirectory, Access, Read, Open, Write
    <3> QED BY <3>1, Frame, Zenon
  <2> QED BY <1>2, <2>1, <2>2, <2>3, Zenon DEF Step
<1>3. CASE Abort
  <2>1. UNCHANGED <<queueVars, stage>>
    BY <1>3, Zenon DEF Abort
  <2> QED BY <2>1, Frame, Zenon
<1>4. CASE UNCHANGED vars
  <2>1. UNCHANGED <<queueVars, stage>>
    BY <1>4, Zenon DEF vars
  <2> QED BY <2>1, Frame, Zenon
<1> QED BY <1>1, <1>2, <1>3, <1>4, Zenon DEF Next

(* The invariant, for any calls, paths, links and files.                    *)
THEOREM Invariance == Spec => [](IInv /\ Heads)
<1>1. Init => IInv
  <2> SUFFICES ASSUME Init PROVE IInv
    OBVIOUS
  <2>0. <<>> \in Seq(Calls)
    OBVIOUS
  <2>1. (CHOOSE p \in Paths : TRUE) \in Paths
    BY PathsAssumption
  <2>2. QTypeOK
    BY <2>0, <2>1, Zenon DEF Init, QTypeOK, Keys
  <2>3. ASSUME NEW k \in Keys PROVE Chain(k)
    <3>1. line[k] = <<>> /\ Len(line[k]) = 0 /\ fileMutationQueues[k] = None
      BY DEF Init, Keys
    <3>2. \A c \in Calls : ~Pending(c)
      BY DEF Init, Pending
    <3> QED BY <3>1, <3>2 DEF Chain
  <2>4. RunningResolved
    BY DEF Init, RunningResolved
  <2> QED BY <2>2, <2>3, <2>4, Zenon DEF IInv, Chains
<1> QED BY <1>1, StepKeeps, HeadIsActive, PTL DEF Spec

(* Two calls under one key never run at once.                               *)
THEOREM KeyExclusive == Spec => []OnePerKey
<1>1. IInv => OnePerKey
  <2> SUFFICES ASSUME IInv, NEW c \in Calls, NEW d \in Calls,
                      stage[c] = "running", stage[d] = "running",
                      key[c] = key[d]
               PROVE  c = d
    BY Zenon DEF OnePerKey
  <2>1. line[key[c]][1] = c /\ line[key[d]][1] = d
    BY RunningIsHead, Zenon
  <2> QED BY <2>1
<1> QED BY <1>1, Invariance, PTL

(* The map neither leaks entries nor loses the promise to wait for.         *)
THEOREM NoLeak == Spec => []EntriesArePending
<1>1. IInv => EntriesArePending
  <2> SUFFICES ASSUME IInv, NEW k \in Keys
               PROVE  fileMutationQueues[k] # None <=>
                        \E c \in Calls : Pending(c) /\ key[c] = k
    BY Zenon DEF EntriesArePending
  <2>1. PICK q : q = line[k]
    OBVIOUS
  <2>2. /\ q \in Seq(Calls)
        /\ \A i \in 1 .. Len(q) : Pending(q[i]) /\ key[q[i]] = k
        /\ \A c \in Calls :
             Pending(c) /\ key[c] = k => \E i \in 1 .. Len(q) : q[i] = c
        /\ fileMutationQueues[k] = IF q = <<>> THEN None ELSE q[Len(q)]
    <3>1. Chain(k) /\ q \in Seq(Calls)
      BY <2>1 DEF IInv, QTypeOK, Chains
    <3> QED BY <2>1, <3>1, Zenon DEF Chain, Last
  <2>3. CASE q = <<>>
    BY <2>2, <2>3
  <2>4. CASE q # <<>>
    <3>1. Len(q) \in 1 .. Len(q) /\ q[Len(q)] \in Calls
      BY <2>2, <2>4
    <3> QED BY <2>2, <2>4, <3>1, PathsAssumption
  <2> QED BY <2>3, <2>4
<1> QED BY <1>1, Invariance, PTL

(* Refinement, key by key: a call is a Submit, the release of the call that *)
(* runs a Finish, and everything else, aborts included, a stutter.          *)
THEOREM Refinement == Spec => EachKeyIsSerial
<1>1. Init => \A k \in Keys : Executor(k)!Init
  BY DEF Init, Keys, Executor!Init, WaitingOn, ActiveOn, Pending
<1>2. ASSUME IInv, Heads, Heads', [Next]_vars, NEW k \in Keys
      PROVE  Executor(k)!Next \/ UNCHANGED Executor(k)!vars
  <2>1. line[k] \in Seq(Calls)
    BY <1>2 DEF IInv, QTypeOK
  <2>2. ActiveOn(k) = IF line[k] = <<>> THEN {} ELSE {line[k][1]}
    BY <1>2, Zenon DEF Heads
  <2>3. ActiveOn(k)' = IF line'[k] = <<>> THEN {} ELSE {line'[k][1]}
    BY <1>2, Zenon DEF Heads
  <2>4. CASE line'[k] = line[k]
    <3>1. ActiveOn(k)' = ActiveOn(k) /\ WaitingOn(k)' = WaitingOn(k)
      BY <2>2, <2>3, <2>4 DEF WaitingOn
    <3> QED BY <3>1, Zenon DEF Executor!vars
  <2>5. ASSUME NEW c \in Calls, line'[k] = Append(line[k], c)
        PROVE  Executor(k)!Submit(c)
    <3>1. CASE line[k] = <<>>
      <4>1. line'[k] # <<>> /\ line'[k][1] = c /\ Tail(line'[k]) = <<>>
        BY <2>5, <3>1
      <4>2. ActiveOn(k) = {} /\ ActiveOn(k)' = {c} /\ WaitingOn(k)' = WaitingOn(k)
        BY <2>2, <2>3, <3>1, <4>1, Zenon DEF WaitingOn
      <4> QED BY <4>2, Zenon DEF Executor!Submit
    <3>2. CASE line[k] # <<>>
      <4>1. /\ line'[k] # <<>> /\ line'[k][1] = line[k][1]
            /\ Tail(line'[k]) = Append(Tail(line[k]), c)
        BY <2>1, <2>5, <3>2
      <4>2. /\ ActiveOn(k) # {} /\ ActiveOn(k)' = ActiveOn(k)
            /\ WaitingOn(k)' = Append(WaitingOn(k), c)
        BY <2>2, <2>3, <3>2, <4>1 DEF WaitingOn
      <4> QED BY <4>2, Zenon DEF Executor!Submit
    <3> QED BY <3>1, <3>2
  <2>6. ASSUME line[k] # <<>>, line'[k] = Tail(line[k])
        PROVE  Executor(k)!Finish
    <3>1. ActiveOn(k) # {} /\ WaitingOn(k) = Tail(line[k])
      BY <2>2, <2>6 DEF WaitingOn
    <3>2. CASE Tail(line[k]) = <<>>
      <4>1. ActiveOn(k)' = {} /\ WaitingOn(k)' = WaitingOn(k)
        BY <2>3, <2>6, <3>1, <3>2, Zenon DEF WaitingOn
      <4> QED BY <3>1, <3>2, <4>1, Zenon DEF Executor!Finish
    <3>3. CASE Tail(line[k]) # <<>>
      <4>1. Tail(line[k])[1] = Head(Tail(line[k]))
        BY <2>1, <2>6, <3>3
      <4>2. /\ ActiveOn(k)' = {Head(WaitingOn(k))}
            /\ WaitingOn(k)' = Tail(WaitingOn(k))
        BY <2>3, <2>6, <3>1, <3>3, <4>1, Zenon DEF WaitingOn
      <4> QED BY <3>1, <3>3, <4>2, Zenon DEF Executor!Finish
    <3> QED BY <3>2, <3>3
  <2>7. ASSUME NEW c \in Calls, NEW t, NEW p \in Paths, Call(c, t, p)
        PROVE  line'[k] = line[k] \/ line'[k] = Append(line[k], c)
    BY <1>2, <2>7 DEF Call, IInv, QTypeOK
  <2>8. ASSUME NEW c \in Calls, Release(c)
        PROVE  line'[k] = line[k] \/ (line[k] # <<>> /\ line'[k] = Tail(line[k]))
    BY <1>2, <2>8 DEF Release, IInv, QTypeOK
  <2>9. ASSUME NEW c \in Calls, Step(c), ~Release(c) PROVE line' = line
    BY <2>9, Zenon DEF Step, Start, MakeDirectory, Access, Read, Open, Write,
                       queueVars
  <2>10. CASE Abort \/ UNCHANGED vars
    BY <2>4, <2>10, Zenon DEF Abort, vars, queueVars
  <2>11. CASE \E c \in Calls, t \in {"write", "edit"}, p \in Paths : Call(c, t, p)
    BY <2>4, <2>5, <2>7, <2>11, Zenon DEF Executor!Next
  <2>12. CASE \E c \in Calls : Step(c)
    BY <2>4, <2>6, <2>8, <2>9, <2>12, Zenon DEF Executor!Next
  <2> QED BY <1>2, <2>10, <2>11, <2>12, Zenon DEF Next
<1>3. ASSUME IInv, Heads, Heads', [Next]_vars
      PROVE  \A k \in Keys : Executor(k)!Next \/ UNCHANGED Executor(k)!vars
  BY <1>2, <1>3, Zenon
<1> QED BY <1>1, <1>3, Invariance, PTL DEF Spec, EachKeyIsSerial

-----------------------------------------------------------------------------
(* What the bodies of the tools do to the disk *)

BodyTypeOK ==
  /\ tool \in [Calls -> {"write", "edit"}] /\ path \in [Calls -> Paths]
  /\ body \in [Calls -> {"none", "mkdir", "access", "read", "open", "data", "done"}]
  /\ outcome \in [Calls -> {"none", "ok", "error"}]
  /\ aborted \subseteq Calls /\ snapshot \in [Calls -> SUBSET Calls]
  /\ exists \subseteq Paths /\ existing \subseteq Paths
  /\ content \in [Paths -> SUBSET Calls]
  /\ applied \in [Paths -> SUBSET Calls]
  /\ aborts \in Nat

(* A call for a file that was there waits under the file's own name, and    *)
(* touches nothing before it runs.                                          *)
Busy(c) == body[c] \notin {"none", "done"}
Bodies ==
  /\ existing \subseteq exists
  /\ \A c \in Calls :
       /\ stage[c] \in {"new", "queued"} => body[c] = "none" /\ outcome[c] = "none"
       /\ body[c] = "mkdir" => tool[c] = "write"
       /\ stage[c] # "new" /\ File(c) \in existing => key[c] = File(c)

(* Without an abort a body is at work only while its call runs, what an     *)
(* edit has read is what the file is due to hold, and the file holds it.    *)
Undisturbed ==
  aborted = {} =>
    /\ \A c \in Calls : Busy(c) => stage[c] = "running" /\ outcome[c] = "none"
    /\ \A c \in Calls :
         body[c] \in {"open", "data"} /\ tool[c] = "edit" /\ File(c) \in existing
           => snapshot[c] = applied[File(c)]
    /\ \A f \in existing :
         (\A c \in Calls : File(c) = f => body[c] # "data") => content[f] = applied[f]

DInv == IInv /\ BodyTypeOK /\ Bodies /\ Undisturbed

(* Two bodies at work on a file that was there are one.                     *)
LEMMA OneOnDisk ==
  ASSUME DInv, aborted = {}, NEW c \in Calls, NEW d \in Calls, Busy(c), Busy(d),
         File(c) = File(d), File(c) \in existing
  PROVE  c = d
<1>1. stage[c] = "running" /\ stage[d] = "running"
  BY DEF DInv, Undisturbed
<1>2. key[c] = key[d]
  BY <1>1 DEF DInv, Bodies
<1>3. line[key[c]][1] = c /\ line[key[d]][1] = d
  BY <1>1, RunningIsHead DEF DInv
<1> QED BY <1>2, <1>3

LEMMA FileType == \A c \in Calls : BodyTypeOK => File(c) \in Paths
BY PathsAssumption DEF BodyTypeOK, File

LEMMA BodyTypeStep == ASSUME DInv, [Next]_vars PROVE BodyTypeOK'
<1> USE DEF DInv, BodyTypeOK
<1>1. ASSUME NEW c \in Calls, NEW t \in {"write", "edit"}, NEW p \in Paths,
             Call(c, t, p)
      PROVE  BodyTypeOK'
  BY <1>1 DEF Call, bodyVars, diskVars, abortVars
<1>2. ASSUME NEW c \in Calls, Step(c) PROVE BodyTypeOK'
  <2>0. File(c) \in Paths
    BY FileType
  <2>1. CASE Start(c) \/ Release(c) \/ MakeDirectory(c) \/ Access(c)
    BY <2>1 DEF Start, Release, MakeDirectory, Access, GoesOn, Settles,
      bodyVars, diskVars, abortVars, callVars
  <2>2. CASE Read(c)
    <3>1. content[File(c)] \in SUBSET Calls
      BY <2>0
    <3>2. snapshot' \in [Calls -> SUBSET Calls]
      BY <2>2, <3>1 DEF Read
    <3> QED BY <2>2, <3>2 DEF Read, GoesOn, Settles, diskVars, abortVars, callVars
  <2>3. CASE Open(c)
    BY <2>0, <2>3 DEF Open, Settles, diskVars, abortVars, callVars
  <2>4. CASE Write(c)
    <3>1. content' \in [Paths -> SUBSET Calls] /\ applied' \in [Paths -> SUBSET Calls]
      BY <2>0, <2>4 DEF Write
    <3> QED BY <2>4, <3>1 DEF Write, Settles, abortVars, callVars
  <2> QED BY <1>2, <2>1, <2>2, <2>3, <2>4 DEF Step
<1>3. CASE Abort
  BY <1>3 DEF Abort, diskVars, callVars
<1>4. CASE UNCHANGED vars
  BY <1>4 DEF vars, bodyVars, diskVars, abortVars, callVars
<1> QED BY <1>1, <1>2, <1>3, <1>4 DEF Next

LEMMA BodiesStep == ASSUME DInv, [Next]_vars PROVE Bodies'
<1> USE DEF DInv, Bodies
<1>1. ASSUME NEW c \in Calls, NEW t \in {"write", "edit"}, NEW p \in Paths,
             Call(c, t, p)
      PROVE  Bodies'
  <2>1. /\ existing' = existing /\ exists' = exists /\ body' = body
        /\ outcome' = outcome
        /\ stage[c] = "new" /\ body[c] = "none" /\ outcome[c] = "none"
        /\ key'[c] = MutationQueueKey(p) /\ path'[c] = p
        /\ \A d \in Calls \ {c} : /\ key'[d] = key[d] /\ path'[d] = path[d]
                                  /\ tool'[d] = tool[d] /\ stage'[d] = stage[d]
    BY <1>1 DEF Call, bodyVars, diskVars, IInv, QTypeOK, BodyTypeOK
  <2>2. RealPath[p] \in existing => MutationQueueKey(p) = RealPath[p]
    BY DEF MutationQueueKey
  <2>3. stage'[c] = "queued"
    BY <1>1 DEF Call, IInv, QTypeOK
  <2> QED BY <2>1, <2>2, <2>3 DEF File
<1>2. ASSUME NEW c \in Calls, Step(c) PROVE Bodies'
  <2>1. /\ UNCHANGED <<key, path, tool>> /\ existing' = existing
        /\ exists \subseteq exists'
        /\ \A d \in Calls \ {c} : /\ body'[d] = body[d] /\ stage'[d] = stage[d]
                                  /\ outcome'[d] = outcome[d]
    BY <1>2 DEF Step, Start, Release, MakeDirectory, Access, Read, Open, Write,
      GoesOn, Settles, queueVars, callVars, diskVars, IInv, QTypeOK, BodyTypeOK,
      bodyVars
  <2>2. /\ stage'[c] \in {"new", "queued"} => body'[c] = "none" /\ outcome'[c] = "none"
        /\ body'[c] = "mkdir" => tool[c] = "write"
        /\ stage'[c] = "new" <=> stage[c] = "new"
    BY <1>2 DEF Step, Start, Release, MakeDirectory, Access, Read, Open, Write,
      GoesOn, Settles, IInv, QTypeOK, BodyTypeOK, bodyVars
  <2> QED BY <2>1, <2>2 DEF File
<1>3. CASE Abort \/ UNCHANGED vars
  <2>1. \A c \in Calls : stage[c] \in {"new", "queued"} => outcome'[c] = outcome[c]
    BY <1>3 DEF Abort, vars, bodyVars
  <2> QED BY <1>3, <2>1 DEF Abort, vars, queueVars, callVars, diskVars, bodyVars, File
<1> QED BY <1>1, <1>2, <1>3 DEF Next

(* Steps that leave the disk and what edits have read alone, and start no   *)
(* body or end one.                                                         *)
LEMMA DiskKept ==
  ASSUME DInv, aborted = {}, UNCHANGED <<content, applied, existing, snapshot>>,
         \A c \in Calls : Busy(c)' =>
           /\ stage'[c] = "running" /\ outcome'[c] = "none"
           /\ path'[c] = path[c] /\ tool'[c] = tool[c]
           /\ body'[c] = "open" => body[c] = "open" \/ tool[c] = "write",
         \A c \in Calls : body'[c] = "data" <=> body[c] = "data",
         \A c \in Calls : body[c] = "data" => path'[c] = path[c]
  PROVE  Undisturbed'
<1> USE DEF DInv
<1>1. \A c \in Calls : path'[c] = path[c] => File(c)' = File(c)
  BY DEF File
<1>2. \A f \in existing : (\A c \in Calls : File(c)' = f => body'[c] # "data") =>
                          (\A c \in Calls : File(c) = f => body[c] # "data")
  BY <1>1
<1>3. \A c \in Calls : body'[c] \in {"open", "data"} => Busy(c)'
  BY DEF Busy
<1>4. \A c \in Calls :
        body'[c] \in {"open", "data"} /\ tool'[c] = "edit" /\ File(c)' \in existing
          => snapshot[c] = applied[File(c)']
  BY <1>1, <1>3 DEF Undisturbed
<1> QED BY <1>2, <1>4 DEF Undisturbed

LEMMA UndisturbedStep == ASSUME DInv, BodyTypeOK', [Next]_vars PROVE Undisturbed'
<1> USE DEF DInv
<1>0. ASSUME aborted' = {} PROVE aborted = {}
  BY <1>0 DEF Next, Step, Call, Start, Release, MakeDirectory, Access, Read,
    Open, Write, Abort, abortVars, vars
<1> SUFFICES ASSUME aborted' = {} PROVE Undisturbed'
  BY DEF Undisturbed
<1>1. aborted = {}
  BY <1>0
<1>2. ASSUME NEW c \in Calls, NEW t \in {"write", "edit"}, NEW p \in Paths,
             Call(c, t, p)
      PROVE  Undisturbed'
  <2>1. /\ body[c] = "none" /\ UNCHANGED <<bodyVars, diskVars>>
        /\ \A d \in Calls \ {c} : /\ path'[d] = path[d] /\ tool'[d] = tool[d]
                                  /\ stage'[d] = stage[d]
    BY <1>2 DEF Call, Bodies, IInv, QTypeOK, BodyTypeOK
  <2>2. \A d \in Calls : Busy(d)' =>
          /\ stage'[d] = "running" /\ outcome'[d] = "none"
          /\ path'[d] = path[d] /\ tool'[d] = tool[d]
          /\ body'[d] = "open" => body[d] = "open"
    BY <1>1, <2>1 DEF Busy, Undisturbed, bodyVars
  <2>3. \A d \in Calls : body[d] = "data" => path'[d] = path[d]
    BY <2>1
  <2> QED BY <1>1, <2>1, <2>2, <2>3, DiskKept DEF bodyVars, diskVars
<1>3. ASSUME NEW c \in Calls,
             Start(c) \/ Release(c) \/ MakeDirectory(c) \/ Access(c)
      PROVE  Undisturbed'
  <2>1. /\ UNCHANGED <<path, tool, content, applied, existing, snapshot>>
        /\ \A d \in Calls \ {c} : /\ body'[d] = body[d] /\ stage'[d] = stage[d]
                                  /\ outcome'[d] = outcome[d]
    BY <1>3 DEF Start, Release, MakeDirectory, Access, GoesOn, Settles, bodyVars,
      diskVars, callVars, IInv, QTypeOK, BodyTypeOK
  <2>2. /\ Busy(c)' => stage'[c] = "running" /\ outcome'[c] = "none"
        /\ body'[c] = "open" => body[c] = "open" \/ tool[c] = "write"
        /\ body'[c] = "data" <=> body[c] = "data"
    <3>1. CASE Start(c)
      BY <1>1, <3>1 DEF Start, Bodies, BodyTypeOK, IInv, QTypeOK
    <3>2. CASE Release(c)
      BY <1>1, <3>2 DEF Release, Busy, Undisturbed, bodyVars
    <3>3. CASE MakeDirectory(c) \/ Access(c)
      BY <1>1, <3>3 DEF MakeDirectory, Access, GoesOn, Settles, Busy, Bodies,
        Undisturbed, BodyTypeOK
    <3> QED BY <1>3, <3>1, <3>2, <3>3
  <2>3. \A d \in Calls : Busy(d)' =>
          /\ stage'[d] = "running" /\ outcome'[d] = "none"
          /\ body'[d] = "open" => body[d] = "open" \/ tool[d] = "write"
    BY <1>1, <2>1, <2>2 DEF Busy, Undisturbed
  <2>4. \A d \in Calls : body'[d] = "data" <=> body[d] = "data"
    BY <2>1, <2>2
  <2> QED BY <1>1, <2>1, <2>3, <2>4, DiskKept
<1>4. ASSUME NEW c \in Calls, Read(c) PROVE Undisturbed'
  <2>1. /\ body[c] = "read" /\ body'[c] \in {"open", "done"}
        /\ snapshot'[c] = content[File(c)] /\ stage' = stage
        /\ body'[c] = "open" => outcome'[c] = outcome[c]
        /\ UNCHANGED <<path, tool, content, applied, existing>>
        /\ \A d \in Calls \ {c} : /\ body'[d] = body[d] /\ outcome'[d] = outcome[d]
                                  /\ snapshot'[d] = snapshot[d]
    BY <1>1, <1>4 DEF Read, GoesOn, Settles, diskVars, callVars, IInv, QTypeOK,
      BodyTypeOK
  <2>2. File(c) \in existing => content[File(c)] = applied[File(c)]
    <3>1. \A d \in Calls : File(d) = File(c) /\ File(c) \in existing => body[d] # "data"
      BY <1>1, <2>1, OneOnDisk DEF Busy
    <3> QED BY <1>1, <3>1 DEF Undisturbed
  <2>3. \A d \in Calls : File(d)' = File(d) /\ (body'[d] = "data" <=> body[d] = "data")
    BY <2>1 DEF File
  <2>4. \A d \in Calls : Busy(d)' => stage'[d] = "running" /\ outcome'[d] = "none"
    BY <1>1, <2>1 DEF Busy, Undisturbed
  <2>5. \A d \in Calls :
          body'[d] \in {"open", "data"} /\ tool[d] = "edit" /\ File(d) \in existing
            => snapshot'[d] = applied[File(d)]
    BY <1>1, <2>1, <2>2 DEF Undisturbed
  <2>6. \A f \in existing :
          (\A d \in Calls : File(d) = f => body[d] # "data") => content[f] = applied[f]
    BY <1>1 DEF Undisturbed
  <2> QED BY <2>1, <2>3, <2>4, <2>5, <2>6 DEF Undisturbed
<1>5. ASSUME NEW c \in Calls, Open(c) PROVE Undisturbed'
  <2>1. File(c) \in Paths
    BY FileType
  <2>2. /\ body[c] = "open" /\ body'[c] \in {"data", "done"}
        /\ body'[c] = "data" => outcome'[c] = outcome[c]
        /\ UNCHANGED <<stage, snapshot, path, tool, applied, existing>>
        /\ \A d \in Calls \ {c} : body'[d] = body[d] /\ outcome'[d] = outcome[d]
        /\ \A f \in Paths : content'[f] = content[f] \/ (body'[c] = "data" /\ f = File(c))
    <3>1. /\ body[c] = "open" /\ UNCHANGED <<stage, snapshot, path, tool>>
          /\ \/ /\ body' = [body EXCEPT ![c] = "data"] /\ UNCHANGED <<outcome, existing, applied>>
                /\ content' = [content EXCEPT ![File(c)] = {}]
             \/ Settles(c, "error") /\ UNCHANGED <<content, existing, applied>>
      BY <1>5, Zenon DEF Open, callVars, diskVars
    <3>2. CASE body' = [body EXCEPT ![c] = "data"] /\ UNCHANGED <<outcome, existing, applied>>
               /\ content' = [content EXCEPT ![File(c)] = {}]
      BY <2>1, <3>1, <3>2 DEF BodyTypeOK
    <3>3. CASE Settles(c, "error") /\ UNCHANGED <<content, existing, applied>>
      BY <3>1, <3>3 DEF Settles, BodyTypeOK
    <3> QED BY <3>1, <3>2, <3>3
  <2>3. \A d \in Calls : File(d)' = File(d)
    BY <2>2 DEF File
  <2>4. \A d \in Calls : Busy(d)' => stage'[d] = "running" /\ outcome'[d] = "none"
    BY <1>1, <2>2 DEF Busy, Undisturbed
  <2>5. \A d \in Calls :
          body'[d] \in {"open", "data"} /\ tool[d] = "edit" /\ File(d) \in existing
            => snapshot[d] = applied[File(d)]
    BY <1>1, <2>2 DEF Undisturbed
  <2>6. ASSUME NEW f \in existing, \A d \in Calls : File(d) = f => body'[d] # "data"
        PROVE  content'[f] = applied[f]
    <3>1. \A d \in Calls : File(d) = f => body[d] # "data"
      BY <2>2, <2>6
    <3>2. f \in Paths /\ content'[f] = content[f]
      BY <2>2, <2>6 DEF BodyTypeOK
    <3> QED BY <1>1, <3>1, <3>2 DEF Undisturbed
  <2> QED BY <2>2, <2>3, <2>4, <2>5, <2>6 DEF Undisturbed
<1>6. ASSUME NEW c \in Calls, Write(c) PROVE Undisturbed'
  <2> DEFINE f == File(c)
  <2>1. f \in Paths
    BY FileType
  <2>2. /\ body[c] = "data" /\ body'[c] = "done"
        /\ UNCHANGED <<stage, snapshot, path, tool, existing>>
        /\ \A d \in Calls \ {c} : body'[d] = body[d] /\ outcome'[d] = outcome[d]
        /\ \A g \in Paths \ {f} : content'[g] = content[g] /\ applied'[g] = applied[g]
        /\ content'[f] = IF tool[c] = "write" THEN {c} ELSE snapshot[c] \cup {c}
        /\ applied'[f] = IF tool[c] = "write" THEN {c} ELSE applied[f] \cup {c}
    BY <1>6, <2>1 DEF Write, Settles, callVars, BodyTypeOK
  <2>3. f \in existing => content'[f] = applied'[f]
    <3>1. tool[c] \in {"write", "edit"}
      BY DEF BodyTypeOK
    <3>2. f \in existing /\ tool[c] = "edit" => snapshot[c] = applied[f]
      BY <1>1, <2>2 DEF Undisturbed
    <3> QED BY <2>2, <3>1, <3>2, Zenon
  <2>4. \A d \in Calls : File(d)' = File(d)
    BY <2>2 DEF File
  <2>5. \A d \in Calls : Busy(d)' => stage'[d] = "running" /\ outcome'[d] = "none"
    BY <1>1, <2>2 DEF Busy, Undisturbed
  <2>6. ASSUME NEW d \in Calls, body'[d] \in {"open", "data"}, tool[d] = "edit",
               File(d) \in existing
        PROVE  snapshot[d] = applied'[File(d)]
    <3>1. d # c /\ body[d] \in {"open", "data"}
      BY <2>2, <2>6
    <3>2. File(d) # f
      BY <1>1, <2>2, <2>6, <3>1, OneOnDisk DEF Busy
    <3> QED BY <1>1, <2>2, <2>6, <3>1, <3>2, FileType DEF Undisturbed
  <2>7. ASSUME NEW g \in existing, g # f,
               \A d \in Calls : File(d) = g => body'[d] # "data"
        PROVE  content'[g] = applied'[g]
    <3>1. \A d \in Calls : File(d) = g => body[d] # "data"
      BY <2>2, <2>7
    <3> QED BY <1>1, <2>2, <2>7, <3>1 DEF Undisturbed, BodyTypeOK
  <2> HIDE DEF f
  <2> QED BY <2>2, <2>3, <2>4, <2>5, <2>6, <2>7 DEF Undisturbed
<1>7. CASE Abort
  <2>1. \A c \in Calls : ~Pending(c)
    BY <1>7 DEF Abort
  <2>2. outcome' = outcome
    BY <1>7, <2>1 DEF Abort, Pending, BodyTypeOK
  <2> QED BY <1>1, <1>7, <2>2, DiskKept
      DEF Abort, Busy, Undisturbed, callVars, diskVars
<1>8. CASE UNCHANGED vars
  BY <1>1, <1>8, DiskKept DEF vars, Busy, Undisturbed, callVars, bodyVars, diskVars
<1> QED BY <1>2, <1>3, <1>4, <1>5, <1>6, <1>7, <1>8 DEF Next, Step

(* The invariant of the bodies and the disk.                                *)
THEOREM DiskInvariance == Spec => []DInv
<1>1. Init => BodyTypeOK /\ Bodies /\ Undisturbed
  <2> SUFFICES ASSUME Init PROVE BodyTypeOK /\ Bodies /\ Undisturbed
    OBVIOUS
  <2>1. (CHOOSE p \in Paths : TRUE) \in Paths
    BY PathsAssumption
  <2>2. existing \subseteq Paths
    BY PathsAssumption DEF Init
  <2>3. BodyTypeOK
    BY <2>1, <2>2 DEF Init, BodyTypeOK
  <2>4. Bodies /\ Undisturbed
    BY <2>1, <2>2 DEF Init, Bodies, Undisturbed, Busy
  <2> QED BY <2>3, <2>4
<1>2. DInv /\ [Next]_vars => BodyTypeOK' /\ Bodies' /\ Undisturbed'
  BY BodyTypeStep, BodiesStep, UndisturbedStep
<1> QED BY <1>1, <1>2, Invariance, PTL DEF Spec, DInv

(* Every variable of the queue, of the tools and of the disk keeps its type. *)
THEOREM TypeCorrect == Spec => []TypeOK
<1>1. DInv => TypeOK
  BY DEF DInv, IInv, QTypeOK, BodyTypeOK, TypeOK
<1> QED BY <1>1, DiskInvariance, PTL

(* No parallel edit of a file that was there is lost, through whatever      *)
(* aliases the calls name it, unless one of them is aborted.                *)
THEOREM NoEditLost == Spec => []EditsPreserved
<1>1. DInv => EditsPreserved
  <2> SUFFICES ASSUME DInv, NEW f \in existing, aborted = {}
               PROVE  /\ \A c, d \in Calls :
                           OnDisk(c) /\ OnDisk(d) /\ File(c) = f /\ File(d) = f => c = d
                      /\ (\A c \in Calls : File(c) = f => body[c] # "data")
                           => content[f] = applied[f]
    BY Zenon DEF EditsPreserved
  <2>1. \A c \in Calls : OnDisk(c) => Busy(c)
    BY DEF OnDisk, Busy
  <2> QED BY <2>1, OneOnDisk DEF DInv, Undisturbed
<1> QED BY <1>1, DiskInvariance, PTL

=============================================================================
