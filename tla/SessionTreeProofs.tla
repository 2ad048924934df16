------------------------- MODULE SessionTreeProofs -------------------------
(* What is proved of SessionTree: while no write has failed, what was answered *)
(* is on disk and the labels are those that would be rebuilt; a file holds     *)
(* every entry once, after its parent; and what could be loaded from a file    *)
(* stays, but for the two losses that EntriesStay names.                       *)
(*                                                                             *)
(* The invariant ties each file to the processes that have it open. Of the     *)
(* lines of a process the first ones are stored: it has read or written them,  *)
(* and they are in the file. The others are in nobody else's memory and not in *)
(* the file. Of processes that have stored nothing one at most has a file for  *)
(* its own, and that is not there yet; two of them share it. A new entry has   *)
(* an id above all others and a parent that the process knows. The fork is the *)
(* case apart: its lines come from another file, sorted by id, and one has to  *)
(* show that the walk to the root ends, that it is closed under parents, and   *)
(* that the ids made for the copied labels are new.                            *)
EXTENDS SessionTree, SequenceTheorems, FiniteSetTheorems, WellFoundedInduction, TLAPS

-----------------------------------------------------------------------------
(* The invariant                                                               *)

LineKinds == MessageKinds \cup {"session", "label"}
Lines == [kind : LineKinds, id : Nat, parent : Nat, target : Nat, label : BOOLEAN]
Ends == {"whole", "open", "part"}
DiskFiles == [exists : BOOLEAN, lines : Seq(Lines), end : Ends, lost : SUBSET Nat,
              bare : BOOLEAN, shared : BOOLEAN]
Sessions == [alive : BOOLEAN, file : Files \cup {NoFile}, lines : Seq(Lines), leaf : Nat,
             labels : SUBSET Nat, flushed : BOOLEAN, next : Nat, anew : BOOLEAN,
             found : {{}}, expected : SUBSET Nat, expectedLabels : SUBSET Nat]

Typed ==
  /\ disk \in [Files -> DiskFiles]
  /\ mem \in [Processes -> Sessions]
  /\ \A p \in Alive : mem[p].file \in Files
  /\ \A p \in Processes : ~Idle(p) => p \in Alive
  /\ lastId \in 0..MaxEntries

(* A parent is older than its child.                                         *)
Dated(lines) ==
  \A l \in ToSet(lines) :
    IF l.kind = "session" THEN l = Header ELSE l.id \in 1..lastId /\ l.parent < l.id

HasHeader(lines) == lines # <<>> /\ Head(lines).kind = "session"

(* A label entry that a fork left out, or an entry that was lost since.       *)
LeftOut(name, id) ==
  \E q \in Files \ {name} :
    \/ id \in disk[q].lost
    \/ \E l \in Entries(disk[q].lines) : l.id = id /\ l.kind = "label"

InOrder(lines, name) ==
  \A i \in DOMAIN lines :
    \/ lines[i].parent = Root
    \/ \E j \in 1..(i - 1) : lines[j].id = lines[i].parent
    \/ LeftOut(name, lines[i].parent)

Once(lines, shared) ==
  \A i, j \in DOMAIN lines :
    lines[i] = lines[j] => i = j \/ (shared /\ lines[i].kind = "session")

FileSound(name) ==
  LET file == disk[name] IN
  /\ Dated(file.lines)
  /\ ~file.exists => file.lines = <<>>
  /\ file.end = "open" => file.lines # <<>>
  /\ Intact(name) =>
       /\ file.lines # <<>> => HasHeader(file.lines)
       /\ InOrder(file.lines, name)
       /\ ~file.bare => Once(file.lines, file.shared)

(* The first lines of a process are those it has read or written; the others  *)
(* are still to be written.                                                   *)
Stored(m) == IF m.next # 0 THEN m.next - 1 ELSE IF m.flushed THEN Len(m.lines) ELSE 0
Unstored(m) ==
  {l \in Entries(m.lines) : \E i \in DOMAIN m.lines : i > Stored(m) /\ m.lines[i] = l}

Writing(m) ==
  /\ m.next \in 0..Len(m.lines)
  /\ m.next # 0 => HasAssistant(m.lines) /\ (m.flushed => m.next = Len(m.lines)) /\ ~m.anew

OnDisk(p) ==
  LET m == mem[p]
      file == disk[m.file] IN
  /\ InOrder(m.lines, m.file)
  /\ HasAssistant(m.lines) => m.flushed \/ m.next # 0
  /\ IF m.next = 0 THEN m.labels = LabelsOf(m.lines)
     ELSE Relabelled(m.labels, Last(m.lines)) = LabelsOf(m.lines)
  /\ IF m.anew THEN m.lines = <<Header>> /\ file.bare
     ELSE /\ \A i \in 1..Stored(m) : m.lines[i] \in ToSet(Load(file))
          /\ file.exists => file.lines # <<>>

OnceOnly(p) ==
  LET m == mem[p]
      file == disk[m.file] IN
  /\ Once(m.lines, TRUE)
  /\ \A i \in DOMAIN m.lines : i > Stored(m) /\ i # 1 => m.lines[i].kind # "session"
  /\ \A l \in Unstored(m) : l \notin ToSet(file.lines)
  /\ m.flushed => HasAssistant(m.lines)
  /\ Stored(m) = 0 /\ ~file.shared => ~file.exists

MemorySound(p) ==
  LET m == mem[p] IN
  /\ Dated(m.lines)
  /\ HasHeader(m.lines)
  /\ m.leaf \in IdsOf(m.lines) \cup {Root}
  /\ Writing(m)
  /\ Intact(m.file) => OnDisk(p)
  /\ Intact(m.file) /\ ~disk[m.file].bare => OnceOnly(p)

(* Nobody else has what a process has still to write; and a file of which it  *)
(* has nothing is its own or shared.                                          *)
ApartFrom(p, q) ==
  mem[p].file = mem[q].file /\ Intact(mem[p].file) /\ ~disk[mem[p].file].bare =>
    /\ \A l \in Unstored(mem[p]) : l \notin ToSet(mem[q].lines)
    /\ Stored(mem[p]) = 0 => disk[mem[p].file].shared

IInv ==
  /\ Typed
  /\ \A name \in Files : FileSound(name)
  /\ \A p \in Alive : MemorySound(p)
  /\ \A p, q \in Alive : p # q => ApartFrom(p, q)

-----------------------------------------------------------------------------
(* Sequences as sets                                                         *)

LEMMA SetOfConcat ==
  ASSUME NEW S, NEW s \in Seq(S), NEW t \in Seq(S)
  PROVE  ToSet(s \o t) = ToSet(s) \cup ToSet(t)
<1> PICK n \in Nat : n = Len(s)
  BY LenProperties
<1> PICK m \in Nat : m = Len(t)
  BY LenProperties
<1>1. DOMAIN s = 1..n /\ DOMAIN t = 1..m /\ DOMAIN (s \o t) = 1..(n + m)
  BY ConcatProperties, LenProperties
<1>2. \A i \in 1..n : (s \o t)[i] = s[i]
  BY ConcatProperties
<1>3. ASSUME NEW i \in 1..m PROVE n + i \in 1..(n + m) /\ (s \o t)[n + i] = t[i]
  BY ConcatProperties
<1>4. ASSUME NEW x \in ToSet(s) PROVE x \in ToSet(s \o t)
  BY <1>1, <1>2 DEF ToSet
<1>5. ASSUME NEW x \in ToSet(t) PROVE x \in ToSet(s \o t)
  <2> PICK i \in 1..m : x = t[i]
    BY <1>1 DEF ToSet
  <2> QED BY <1>1, <1>3 DEF ToSet
<1>6. ASSUME NEW x \in ToSet(s \o t) PROVE x \in ToSet(s) \/ x \in ToSet(t)
  <2> PICK i \in 1..(n + m) : x = (s \o t)[i]
    BY <1>1 DEF ToSet
  <2>1. CASE i <= n
    BY <1>1, <1>2, <2>1 DEF ToSet
  <2>2. CASE i > n
    <3>1. i - n \in 1..m /\ n + (i - n) = i
      BY <2>2
    <3> QED BY <1>1, <1>3, <3>1 DEF ToSet
  <2> QED BY <2>1, <2>2
<1> QED BY <1>4, <1>5, <1>6

LEMMA SetOfOne == \A x : ToSet(<<x>>) = {x}
BY DEF ToSet

LEMMA SetOfAppend ==
  ASSUME NEW S, NEW q \in Seq(S), NEW m \in S
  PROVE  /\ ToSet(Append(q, m)) = ToSet(q) \cup {m}
         /\ IsInjective(q) /\ m \notin ToSet(q) => IsInjective(Append(q, m))
<1> PICK n \in Nat : n = Len(q)
  BY LenProperties
<1> PICK r : r = Append(q, m)
  OBVIOUS
<1>1. /\ DOMAIN q = 1..n /\ DOMAIN r = 1..(n + 1) /\ r[n + 1] = m
      /\ \A i \in 1..n : r[i] = q[i]
  BY AppendProperties, LenProperties
<1>2. ToSet(r) = ToSet(q) \cup {m}
  BY <1>1 DEF ToSet
<1>3. ASSUME IsInjective(q), m \notin ToSet(q) PROVE IsInjective(r)
  <2> SUFFICES ASSUME NEW i \in 1..(n + 1), NEW j \in 1..(n + 1), r[i] = r[j]
               PROVE  i = j
    BY <1>1 DEF IsInjective
  <2>1. CASE i \in 1..n /\ j \in 1..n
    BY <1>1, <1>3, <2>1 DEF IsInjective
  <2>2. CASE i = n + 1 /\ j = n + 1
    BY <2>2
  <2>3. CASE i = n + 1 /\ j \in 1..n
    BY <1>1, <1>3, <2>3 DEF ToSet
  <2>4. CASE j = n + 1 /\ i \in 1..n
    BY <1>1, <1>3, <2>4 DEF ToSet
  <2> QED BY <2>1, <2>2, <2>3, <2>4
<1> QED BY <1>2, <1>3

LEMMA HasLast ==
  ASSUME NEW n \in Nat, NEW A \in SUBSET (1..n), A # {}
  PROVE  \E i \in A : \A j \in A : j <= i
<1> DEFINE U == {k \in Nat : \A j \in A : j <= k}
<1>1. n \in U /\ U \subseteq Nat
  OBVIOUS
<1>2. PICK k \in U : \A l \in U : ~(<<l, k>> \in OpToRel(<, Nat))
  <2> HIDE DEF U
  <2> QED BY <1>1, NatLessThanWellFounded, WFMin
<1>3. \A l \in U : k <= l
  <2> TAKE l \in U
  <2>1. l < k => <<l, k>> \in OpToRel(<, Nat)
    BY DEF OpToRel
  <2>2. ~(l < k)
    BY <1>2, <2>1, Zenon
  <2> QED BY <2>2
<1>4. k \in A
  <2> SUFFICES ASSUME k \notin A PROVE FALSE
    OBVIOUS
  <2>1. \A j \in A : j <= k - 1
    OBVIOUS
  <2> PICK j \in A : TRUE
    OBVIOUS
  <2>2. k - 1 \in U
    BY <2>1
  <2> QED BY <1>3, <2>2
<1> QED BY <1>4

-----------------------------------------------------------------------------
(* Lines                                                                     *)

LEMMA HeaderType == Header \in Lines /\ Header.kind = "session" /\ <<Header>> \in Seq(Lines)
<1>1. Header \in Lines
  BY DEF Header, Lines, LineKinds, MessageKinds, Root
<1> QED BY <1>1 DEF Header

LEMMA LinesIn ==
  ASSUME NEW lines \in Seq(Lines)
  PROVE  /\ \A l \in ToSet(lines) : l \in Lines
         /\ HasAssistant(lines) <=> \E l \in ToSet(lines) : l.kind = "assistant"
         /\ \A l \in Entries(lines) : l \in Lines /\ l \in ToSet(lines) /\ l.kind # "session"
         /\ IdsOf(lines) \subseteq Nat
<1>1. \A l \in ToSet(lines) : l \in Lines
  BY ElementOfSeq, LenProperties DEF ToSet
<1>2. HasAssistant(lines) <=> \E l \in ToSet(lines) : l.kind = "assistant"
  BY DEF HasAssistant, ToSet
<1> QED BY <1>1, <1>2 DEF Entries, IdsOf, Lines

LEMMA LineAt ==
  ASSUME NEW lines \in Seq(Lines), NEW id \in IdsOf(lines)
  PROVE  /\ LineOf(lines, id) \in Entries(lines) /\ LineOf(lines, id).id = id
         /\ LineOf(lines, id) \in Lines /\ LineOf(lines, id) \in ToSet(lines)
<1>1. PICK l \in Entries(lines) : l.id = id
  BY DEF IdsOf
<1>2. LineOf(lines, id) \in Entries(lines) /\ LineOf(lines, id).id = id
  BY <1>1, Zenon DEF LineOf
<1> QED BY <1>2, LinesIn

LEMMA LeafIn ==
  ASSUME NEW lines \in Seq(Lines)
  PROVE  LeafOf(lines) \in IdsOf(lines) \cup {Root}
<1> DEFINE at == {i \in DOMAIN lines : lines[i].kind # "session"}
<1>1. CASE at = {}
  BY <1>1 DEF LeafOf
<1>2. CASE at # {}
  <2> PICK n \in Nat : n = Len(lines) /\ DOMAIN lines = 1..n
    BY LenProperties
  <2>1. PICK i \in at : \A j \in at : j <= i
    <3>1. at \in SUBSET (1..n)
      OBVIOUS
    <3> HIDE DEF at
    <3> QED BY <1>2, <3>1, HasLast
  <2>2. \A x \in at : x \in Int
    OBVIOUS
  <2>3. Max(at) \in at
    <3>1. \A j \in at : i >= j
      BY <2>1, <2>2
    <3> HIDE DEF at
    <3> QED BY <3>1, <2>1, Zenon DEF Max
  <2>4. LeafOf(lines) = lines[Max(at)].id
    BY <1>2, Zenon DEF LeafOf
  <2> QED BY <2>3, <2>4 DEF IdsOf, Entries, ToSet
<1> QED BY <1>1, <1>2

(* The positions of the label entries about a target.                        *)
About(lines, t) == {i \in DOMAIN lines : lines[i].kind = "label" /\ lines[i].target = t}

LEMMA LabelMeans ==
  ASSUME NEW lines \in Seq(Lines), NEW t
  PROVE  t \in LabelsOf(lines) <=>
           \E i \in About(lines, t) :
             lines[i].label /\ \A j \in About(lines, t) : j <= i
<1>1. \A i \in About(lines, t) : t \in {l.target : l \in Entries(lines)}
  BY DEF About, Entries, ToSet
<1> QED BY <1>1 DEF LabelsOf, About

LEMMA LabelsOfHeader == LabelsOf(<<Header>>) = {}
<1>1. \A t : About(<<Header>>, t) = {}
  BY HeaderType DEF About
<1> QED BY <1>1, HeaderType, LabelMeans

LEMMA LabelsType ==
  ASSUME NEW lines \in Seq(Lines)
  PROVE  LabelsOf(lines) \in SUBSET Nat
BY LinesIn DEF LabelsOf, Lines

LEMMA LabelsOfAppend ==
  ASSUME NEW lines \in Seq(Lines), NEW line \in Lines
  PROVE  LabelsOf(Append(lines, line)) = Relabelled(LabelsOf(lines), line)
<1> PICK n \in Nat : n = Len(lines) /\ DOMAIN lines = 1..n
  BY LenProperties
<1> PICK more \in Seq(Lines) : more = Append(lines, line)
  BY AppendProperties
<1>1. /\ DOMAIN more = 1..(n + 1) /\ more[n + 1] = line
      /\ \A i \in 1..n : more[i] = lines[i]
  BY AppendProperties, LenProperties
<1>2. \A t : About(more, t) = About(lines, t) \cup
                (IF line.kind = "label" /\ line.target = t THEN {n + 1} ELSE {})
  BY <1>1 DEF About
<1>3. \A t : About(lines, t) \subseteq 1..n
  BY DEF About
<1>4. ASSUME NEW t, ~(line.kind = "label" /\ line.target = t)
      PROVE  t \in LabelsOf(more) <=> t \in LabelsOf(lines)
  <2>1. About(more, t) = About(lines, t)
    BY <1>2, <1>4
  <2>2. \A i \in About(lines, t) : more[i] = lines[i]
    BY <1>1, <1>3
  <2> QED BY <2>1, <2>2, LabelMeans
<1>5. ASSUME line.kind = "label"
      PROVE  line.target \in LabelsOf(more) <=> line.label
  <2>0. About(more, line.target) = About(lines, line.target) \cup {n + 1}
    BY <1>2, <1>5
  <2>1. n + 1 \in About(more, line.target) /\ \A i \in About(more, line.target) : i <= n + 1
    BY <1>3, <2>0
  <2>2. \A i \in About(more, line.target) :
          (\A j \in About(more, line.target) : j <= i) => i = n + 1
    BY <1>3, <2>0
  <2>3. line.target \in LabelsOf(more) <=>
          \E i \in About(more, line.target) :
            more[i].label /\ \A j \in About(more, line.target) : j <= i
    BY LabelMeans, Zenon
  <2> QED BY <1>1, <2>1, <2>2, <2>3
<1>6. CASE line.kind # "label"
  BY <1>4, <1>6 DEF Relabelled
<1>7. CASE line.kind = "label" /\ line.label
  BY <1>4, <1>5, <1>7 DEF Relabelled
<1>8. CASE line.kind = "label" /\ ~line.label
  BY <1>4, <1>5, <1>8 DEF Relabelled
<1> QED BY <1>6, <1>7, <1>8

-----------------------------------------------------------------------------
(* The order of lines                                                        *)

LEMMA InOrderAppended ==
  ASSUME NEW lines \in Seq(Lines), NEW line \in Lines, NEW name, InOrder(lines, name),
         \/ line.parent = Root
         \/ \E l \in ToSet(lines) : l.id = line.parent
         \/ LeftOut(name, line.parent)
  PROVE  InOrder(Append(lines, line), name)
<1> PICK n \in Nat : n = Len(lines) /\ DOMAIN lines = 1..n
  BY LenProperties
<1> PICK more \in Seq(Lines) : more = Append(lines, line)
  BY AppendProperties
<1>1. /\ DOMAIN more = 1..(n + 1) /\ more[n + 1] = line
      /\ \A i \in 1..n : more[i] = lines[i]
  BY AppendProperties, LenProperties
<1> SUFFICES ASSUME NEW i \in 1..(n + 1)
             PROVE  \/ more[i].parent = Root
                    \/ \E j \in 1..(i - 1) : more[j].id = more[i].parent
                    \/ LeftOut(name, more[i].parent)
  BY <1>1 DEF InOrder
<1>2. CASE i \in 1..n
  <2>1. \A j \in 1..(i - 1) : more[j] = lines[j]
    BY <1>1, <1>2
  <2> QED BY <1>1, <1>2, <2>1 DEF InOrder
<1>3. CASE i = n + 1
  <2>1. \A l \in ToSet(lines) : \E j \in 1..n : more[j] = l
    BY <1>1 DEF ToSet
  <2> QED BY <1>1, <1>3, <2>1
<1> QED BY <1>2, <1>3

LEMMA OnceAppended ==
  ASSUME NEW lines \in Seq(Lines), NEW line \in Lines, NEW shared, Once(lines, shared),
         line \in ToSet(lines) => shared /\ line.kind = "session"
  PROVE  Once(Append(lines, line), shared)
<1> PICK n \in Nat : n = Len(lines) /\ DOMAIN lines = 1..n
  BY LenProperties
<1> PICK more \in Seq(Lines) : more = Append(lines, line)
  BY AppendProperties
<1>1. /\ DOMAIN more = 1..(n + 1) /\ more[n + 1] = line
      /\ \A i \in 1..n : more[i] = lines[i]
  BY AppendProperties, LenProperties
<1> SUFFICES ASSUME NEW i \in 1..(n + 1), NEW j \in 1..(n + 1), more[i] = more[j], i # j
             PROVE  shared /\ more[i].kind = "session"
  BY <1>1 DEF Once
<1>2. CASE i \in 1..n /\ j \in 1..n
  BY <1>1, <1>2 DEF Once
<1>3. CASE i \in 1..n /\ j = n + 1
  BY <1>1, <1>3 DEF ToSet
<1>4. CASE i = n + 1 /\ j \in 1..n
  BY <1>1, <1>4 DEF ToSet
<1> QED BY <1>2, <1>3, <1>4

LEMMA HeaderInOrder == \A name, shared : InOrder(<<Header>>, name) /\ Once(<<Header>>, shared)
<1>1. DOMAIN <<Header>> = {1} /\ <<Header>>[1].parent = Root
  BY DEF Header
<1> QED BY <1>1 DEF InOrder, Once


LEMMA HeaderHasHeader ==
  /\ HasHeader(<<Header>>) /\ Dated(<<Header>>) /\ ~HasAssistant(<<Header>>)
  /\ ToSet(<<Header>>) = {Header}
<1>1. ToSet(<<Header>>) = {Header}
  BY SetOfOne
<1>2. Dated(<<Header>>)
  BY <1>1, HeaderType DEF Dated
<1>3. ~HasAssistant(<<Header>>)
  BY <1>1, HeaderType, LinesIn
<1>4. HasHeader(<<Header>>)
  BY HeaderType DEF HasHeader
<1> QED BY <1>1, <1>2, <1>3, <1>4
-----------------------------------------------------------------------------
(* Files                                                                     *)

LEMMA LoadIs ==
  ASSUME NEW file \in DiskFiles
  PROVE  /\ Load(file) = IF HasHeader(file.lines) THEN file.lines ELSE <<>>
         /\ Load(file) \in Seq(Lines)
         /\ ToSet(Load(file)) \subseteq ToSet(file.lines)
<1>1. Load(file) = IF HasHeader(file.lines) THEN file.lines ELSE <<>>
  BY Zenon DEF Load, HasHeader
<1>2. file.lines \in Seq(Lines)
  BY DEF DiskFiles
<1>3. ToSet(<<>>) = {}
  BY DEF ToSet
<1> QED BY <1>1, <1>2, <1>3

LEMMA FrontIs ==
  ASSUME NEW lines \in Seq(Lines), lines # <<>>
  PROVE  /\ Front(lines) \in Seq(Lines) /\ ToSet(Front(lines)) \subseteq ToSet(lines)
         /\ Last(lines) \in Lines /\ Last(lines) \in ToSet(lines)
         /\ \A l \in ToSet(lines) : l = Last(lines) \/ l \in ToSet(Front(lines))
         /\ Front(lines) # <<>> => Head(Front(lines)) = Head(lines)
<1> PICK n \in Nat : n = Len(lines) /\ DOMAIN lines = 1..n
  BY LenProperties
<1>1. n > 0 /\ n \in 1..n
  BY EmptySeq
<1>2. \A i \in 1..n : lines[i] \in Lines
  BY ElementOfSeq
<1> PICK front : front = Front(lines)
  OBVIOUS
<1>3. front = SubSeq(lines, 1, n - 1) /\ Last(lines) = lines[n]
  BY Zenon DEF Front, Last
<1>4. front \in Seq(Lines) /\ Len(front) = n - 1 /\ \A i \in 1..(n - 1) : front[i] = lines[i]
  <2>1. \A i \in 1..(n - 1) : lines[i] \in Lines
    BY <1>2
  <2> QED BY <1>1, <1>3, <2>1, SubSeqProperties
<1>5. DOMAIN front = 1..(n - 1)
  BY <1>4, LenProperties
<1>6. front # <<>> => Head(front) = Head(lines)
  <2>1. front # <<>> => n - 1 > 0
    BY <1>1, <1>4, EmptySeq
  <2> QED BY <1>1, <1>4, <2>1, HeadTailProperties
<1>7. \A i \in 1..n : i = n \/ i \in 1..(n - 1)
  OBVIOUS
<1>8. \A l \in ToSet(lines) : l = Last(lines) \/ l \in ToSet(front)
  BY <1>3, <1>4, <1>5, <1>7 DEF ToSet
<1>9. ToSet(front) \subseteq ToSet(lines)
  <2>1. \A i \in 1..(n - 1) : i \in 1..n
    OBVIOUS
  <2> QED BY <1>4, <1>5, <2>1 DEF ToSet
<1>10. Last(lines) \in Lines /\ Last(lines) \in ToSet(lines)
  BY <1>1, <1>2, <1>3 DEF ToSet
<1> QED BY <1>4, <1>6, <1>8, <1>9, <1>10

(* What becomes of a file when a line is written to it, or some of one.      *)
Longer(file, line, end, f2) ==
  /\ f2 \in DiskFiles /\ f2.exists = TRUE /\ f2.bare = file.bare /\ f2.shared = file.shared
  /\ file.lost \subseteq f2.lost
  /\ f2.end = "open" => f2.lines # <<>>
  /\ ToSet(f2.lines) \subseteq ToSet(file.lines) \cup {line}
  /\ \A l \in ToSet(file.lines) : l \in ToSet(f2.lines) \/ l.id \in f2.lost
  /\ \A l \in ToSet(Load(file)) : l \in ToSet(Load(f2)) \/ l \in Unended(file)
  /\ end # "whole" => line.id \in f2.lost
  /\ f2.lost = {} => f2.lines = Append(file.lines, line)

LEMMA ExtendedIs ==
  ASSUME NEW file \in DiskFiles, file.end = "open" => file.lines # <<>>,
         NEW line \in Lines, NEW end \in Ends \cup {"create"}
  PROVE  Longer(file, line, end, Extended(file, line, end))
<1> PICK lines \in Seq(Lines) : lines = file.lines
  BY DEF DiskFiles
<1> PICK glued \in BOOLEAN : glued = (file.end # "whole")
  OBVIOUS
<1> PICK garbled \in BOOLEAN : garbled = (file.end = "open" /\ end # "create")
  OBVIOUS
<1> PICK added \in BOOLEAN : added = (~glued /\ end \in {"whole", "open"})
  OBVIOUS
<1> PICK base : base = IF garbled THEN Front(lines) ELSE lines
  OBVIOUS
<1> PICK more : more = IF added THEN <<line>> ELSE <<>>
  OBVIOUS
<1> PICK e : e = IF end = "create" THEN file.end ELSE IF glued /\ end = "open" THEN "part" ELSE end
  OBVIOUS
<1> PICK gone : gone = (IF garbled THEN {Last(lines).id} ELSE {})
                         \cup (IF glued \/ end # "whole" THEN {line.id} ELSE {})
  OBVIOUS
<1>0. file.lost \in SUBSET Nat /\ file.end \in Ends /\ line.id \in Nat
  BY DEF DiskFiles, Lines
<1>1. garbled => lines # <<>>
  OBVIOUS
<1>2. /\ base \in Seq(Lines) /\ ToSet(base) \subseteq ToSet(lines)
      /\ garbled => Last(lines).id \in Nat
      /\ \A l \in ToSet(lines) : l \in ToSet(base) \/ (garbled /\ l = Last(lines))
      /\ base # <<>> => Head(base) = Head(lines)
  <2>1. CASE garbled
    <3>1. Last(lines).id \in Nat
      BY <1>1, <2>1, FrontIs DEF Lines
    <3> QED BY <1>1, <2>1, <3>1, FrontIs
  <2>2. CASE ~garbled
    BY <2>2
  <2> QED BY <2>1, <2>2
<1>3. gone \in SUBSET Nat /\ e \in Ends
  BY <1>0, <1>2 DEF Ends
<1>4. more \in Seq(Lines) /\ ToSet(more) = IF added THEN {line} ELSE {}
  BY DEF ToSet
<1>5. /\ base \o more \in Seq(Lines) /\ ToSet(base \o more) = ToSet(base) \cup ToSet(more)
      /\ base # <<>> => base \o more # <<>> /\ Head(base \o more) = Head(base)
  <2>1. base \o more \in Seq(Lines) /\ ToSet(base \o more) = ToSet(base) \cup ToSet(more)
    BY ONLY <1>2, <1>4, SetOfConcat, ConcatProperties
  <2>2. base # <<>> => base \o more # <<>> /\ Head(base \o more) = Head(base)
    BY ONLY <1>2, <1>4, ConcatProperties, LenProperties
  <2> QED BY <2>1, <2>2
<1> PICK f2 : f2 = Extended(file, line, end)
  OBVIOUS
<1>6. f2 = [file EXCEPT !.exists = TRUE, !.lines = base \o more, !.end = e,
                        !.lost = file.lost \cup gone]
  BY DEF Extended, DiskFiles
<1>7. /\ f2 \in DiskFiles /\ f2.exists = TRUE /\ f2.bare = file.bare /\ f2.shared = file.shared
      /\ f2.lines = base \o more /\ f2.end = e /\ f2.lost = file.lost \cup gone
  BY ONLY <1>0, <1>3, <1>5, <1>6, file \in DiskFiles DEF DiskFiles
<1>8. f2.end = "open" => f2.lines # <<>>
  <2>1. CASE added
    <3>1. line \in ToSet(f2.lines)
      BY <1>4, <1>5, <1>7, <2>1
    <3> QED BY <3>1 DEF ToSet
  <2>2. CASE ~added /\ e = "open"
    <3>1. base = lines /\ lines # <<>>
      BY <2>2
    <3> QED BY <1>5, <1>7, <3>1
  <2> QED BY <1>7, <2>1, <2>2
<1>9. ToSet(f2.lines) \subseteq ToSet(file.lines) \cup {line}
  BY <1>2, <1>4, <1>5, <1>7
<1>10. \A l \in ToSet(lines) : l \in ToSet(f2.lines) \/ (garbled /\ l = Last(lines))
  BY <1>2, <1>5, <1>7
<1>11. garbled => Unended(file) = {Last(lines)} /\ Last(lines).id \in f2.lost
  BY <1>7 DEF Unended
<1>12. \A l \in ToSet(Load(file)) : l \in ToSet(Load(f2)) \/ l \in Unended(file)
  <2> SUFFICES ASSUME NEW l \in ToSet(Load(file)), l \notin Unended(file)
               PROVE  l \in ToSet(Load(f2))
    OBVIOUS
  <2>1. HasHeader(lines) /\ l \in ToSet(lines)
    <3>1. ToSet(<<>>) = {}
      BY DEF ToSet
    <3> QED BY <3>1, LoadIs
  <2>2. l \in ToSet(base)
    BY <1>2, <1>11, <2>1
  <2>3. base # <<>>
    BY <2>2 DEF ToSet
  <2>4. HasHeader(f2.lines)
    BY <1>2, <1>5, <1>7, <2>1, <2>3 DEF HasHeader
  <2> QED BY <1>5, <1>7, <2>2, <2>4, LoadIs
<1>13. f2.lost = {} => f2.lines = Append(file.lines, line)
  <2>1. f2.lost = {} => ~garbled /\ ~glued /\ end = "whole"
    BY <1>7
  <2>2. f2.lost = {} => added /\ base = lines /\ more = <<line>>
    BY <2>1
  <2>3. lines \o <<line>> = Append(lines, line)
    BY ONLY lines \in Seq(Lines), line \in Lines, AppendIsConcat
  <2> QED BY <1>7, <2>2, <2>3
<1>14. end # "whole" => line.id \in f2.lost
  BY <1>7
<1> QED BY <1>7, <1>8, <1>9, <1>10, <1>11, <1>12, <1>13, <1>14 DEF Longer

-----------------------------------------------------------------------------
(* What a step leaves alone                                                  *)

Grown ==
  \A name \in Files :
    /\ disk[name].lost \subseteq disk'[name].lost
    /\ \A l \in ToSet(disk[name].lines) : l \in ToSet(disk'[name].lines) \/ l.id \in disk'[name].lost

Later == lastId' \in 0..MaxEntries /\ lastId <= lastId'

LEMMA OrderStays ==
  ASSUME Typed, Grown, NEW lines, NEW name, InOrder(lines, name)
  PROVE  InOrder(lines, name)'
<1>1. \A id : LeftOut(name, id) => LeftOut(name, id)'
  <2> SUFFICES ASSUME NEW id, NEW q \in Files \ {name},
                      \/ id \in disk[q].lost
                      \/ \E l \in Entries(disk[q].lines) : l.id = id /\ l.kind = "label"
               PROVE  \/ id \in disk'[q].lost
                      \/ \E l \in Entries(disk'[q].lines) : l.id = id /\ l.kind = "label"
    BY DEF LeftOut
  <2> QED BY DEF Grown, Entries
<1> QED BY <1>1 DEF InOrder

LEMMA DatedStays ==
  ASSUME Typed, Later, NEW lines \in Seq(Lines), Dated(lines)
  PROVE  Dated(lines)'
BY LinesIn DEF Typed, Later, Dated, Lines

LEMMA FileStays ==
  ASSUME Typed, Later, Grown, NEW name \in Files, FileSound(name), disk'[name] = disk[name]
  PROVE  FileSound(name)'
<1> PICK file \in DiskFiles : file = disk[name]
  BY DEF Typed
<1>1. file.lines \in Seq(Lines) /\ disk'[name] = file
  BY DEF DiskFiles
<1>2. Dated(file.lines)'
  BY <1>1, DatedStays DEF FileSound
<1>3. InOrder(file.lines, name) => InOrder(file.lines, name)'
  BY OrderStays
<1> QED BY <1>1, <1>2, <1>3 DEF FileSound, Intact

(* What happens to a file is none of the business of a process that has it   *)
(* open.                                                                     *)
Undisturbed(q, file, f2) ==
  /\ file.lost \subseteq f2.lost
  /\ file.bare => f2.bare
  /\ file.shared => f2.shared
  /\ f2.lost = {} =>
       /\ ToSet(Load(file)) \subseteq ToSet(Load(f2))
       /\ f2.exists => f2.lines # <<>> \/ (file.exists /\ file.lines = <<>>)
       /\ ~f2.bare =>
            /\ \A l \in Unstored(mem[q]) : l \in ToSet(f2.lines) => l \in ToSet(file.lines)
            /\ Stored(mem[q]) = 0 /\ ~f2.shared /\ f2.exists => file.exists

LEMMA OthersStay ==
  ASSUME Typed, Later, Grown, NEW q \in Alive, MemorySound(q), mem'[q] = mem[q],
         NEW f, f = mem[q].file, Undisturbed(q, disk[f], disk'[f])
  PROVE  MemorySound(q)'
<1> PICK m \in Sessions : m = mem[q]
  BY DEF Typed, Alive
<1>1. m.lines \in Seq(Lines) /\ mem'[q] = m /\ f \in Files /\ m.file = f
  BY DEF Sessions, Typed
<1>2. Dated(m.lines)'
  BY <1>1, DatedStays DEF MemorySound
<1> PICK file : file = disk[f]
  OBVIOUS
<1> PICK f2 : f2 = disk'[f]
  OBVIOUS
<1>3. ASSUME f2.lost = {}
      PROVE  OnDisk(q)'
  <2>1. OnDisk(q)
    BY <1>1, <1>3 DEF MemorySound, Intact, Undisturbed
  <2>2. InOrder(m.lines, f)'
    BY <1>1, <2>1, OrderStays DEF OnDisk
  <2>3. ToSet(Load(file)) \subseteq ToSet(Load(f2))
    BY <1>3 DEF Undisturbed
  <2>4. m.anew => m.lines = <<Header>> /\ f2.bare
    BY <1>1, <2>1 DEF OnDisk, Undisturbed
  <2>5. ~m.anew => \A i \in 1..Stored(m) : m.lines[i] \in ToSet(Load(f2))
    BY <1>1, <2>1, <2>3 DEF OnDisk
  <2>6. ~m.anew /\ f2.exists => f2.lines # <<>>
    BY <1>1, <1>3, <2>1 DEF OnDisk, Undisturbed
  <2>7. /\ HasAssistant(m.lines) => m.flushed \/ m.next # 0
        /\ IF m.next = 0 THEN m.labels = LabelsOf(m.lines)
           ELSE Relabelled(m.labels, Last(m.lines)) = LabelsOf(m.lines)
    BY <1>1, <2>1 DEF OnDisk
  <2> HIDE DEF LabelsOf, Stored
  <2> QED BY ONLY <1>1, <2>2, <2>4, <2>5, <2>6, <2>7, f2 = disk'[f] DEF OnDisk
<1>4. ASSUME f2.lost = {}, ~f2.bare
      PROVE  OnceOnly(q)'
  <2>1. OnceOnly(q)
    BY <1>1, <1>4 DEF MemorySound, Intact, Undisturbed
  <2>2. \A l \in Unstored(m) : l \notin ToSet(f2.lines)
    BY <1>1, <1>4, <2>1 DEF OnceOnly, Undisturbed
  <2>3. Stored(m) = 0 /\ ~f2.shared => ~f2.exists
    BY <1>1, <1>4, <2>1 DEF OnceOnly, Undisturbed
  <2>4. /\ Once(m.lines, TRUE) /\ (m.flushed => HasAssistant(m.lines))
        /\ \A i \in DOMAIN m.lines : i > Stored(m) /\ i # 1 => m.lines[i].kind # "session"
    BY <1>1, <2>1 DEF OnceOnly
  <2> QED BY ONLY <1>1, <2>2, <2>3, <2>4, f2 = disk'[f] DEF OnceOnly
<1>5. HasHeader(m.lines) /\ m.leaf \in IdsOf(m.lines) \cup {Root} /\ Writing(m)
  BY DEF MemorySound
<1> QED BY ONLY <1>1, <1>2, <1>3, <1>4, <1>5, f2 = disk'[f] DEF MemorySound, Intact

-----------------------------------------------------------------------------
(* A step of a process that touches one file                                 *)

(* What a step of p that touches the file name does to everything else.      *)
Touches(p, name) ==
  /\ Typed' /\ Later /\ Grown
  /\ \A q \in Processes \ {p} : mem'[q] = mem[q]
  /\ \A f \in Files \ {name} : disk'[f] = disk[f]
  /\ \A q \in Alive \ {p} : mem[q].file = name => Undisturbed(q, disk[name], disk'[name])
  /\ p \in Alive' => \A q \in Alive \ {p} : ApartFrom(p, q)' /\ ApartFrom(q, p)'

LEMMA SameUndisturbed == \A q, file : Undisturbed(q, file, file)
BY DEF Undisturbed

LEMMA TouchSound ==
  ASSUME IInv, NEW p \in Processes, NEW name \in Files, Touches(p, name),
         FileSound(name)', p \in Alive' => MemorySound(p)'
  PROVE  IInv'
<1>1. Typed /\ Typed' /\ Later /\ Grown
  BY DEF IInv, Touches
<1>2. ASSUME NEW f \in Files
      PROVE  FileSound(f)'
  <2>1. f # name => disk'[f] = disk[f]
    BY DEF Touches
  <2> QED BY <1>1, <2>1, FileStays DEF IInv
<1>3. \A q \in Processes \ {p} : mem'[q] = mem[q] /\ (q \in Alive' <=> q \in Alive)
  BY DEF Touches, Alive
<1>4. \A q \in Alive : mem[q].file \in Files /\ q \in Processes
  BY <1>1 DEF Typed, Alive
<1>5. ASSUME NEW q \in Alive, q # p, NEW g, g = mem[q].file
      PROVE  MemorySound(q)' /\ Undisturbed(q, disk[g], disk'[g])
  <2>0. g \in Files
    BY <1>4, <1>5
  <2>1. mem'[q] = mem[q] /\ MemorySound(q) /\ q \in Processes \ {p}
    BY <1>3, <1>4, <1>5 DEF IInv
  <2>2. Undisturbed(q, disk[g], disk'[g])
    <3>1. CASE g = name
      BY <3>1, <1>5 DEF Touches
    <3>2. CASE g # name
      BY <3>2, <2>0, SameUndisturbed DEF Touches
    <3> QED BY <3>1, <3>2
  <2>3. MemorySound(q)'
    BY <1>1, <1>5, <2>1, <2>2, OthersStay
  <2> QED BY <2>2, <2>3
<1>6. ASSUME NEW q \in Alive', NEW r \in Alive', q # r
      PROVE  ApartFrom(q, r)'
  <2>1. q \in Processes /\ r \in Processes
    BY DEF Alive
  <2>2. CASE q # p /\ r # p
    <3> PICK g : g = mem[q].file
      OBVIOUS
    <3>1. q \in Alive /\ r \in Alive /\ mem'[q] = mem[q] /\ mem'[r] = mem[r]
      BY <1>3, <2>1, <2>2
    <3>2. Undisturbed(q, disk[g], disk'[g]) /\ ApartFrom(q, r)
      BY <1>5, <1>6, <2>2, <3>1 DEF IInv
    <3> HIDE DEF Stored, Unstored
    <3> QED BY <3>1, <3>2 DEF Undisturbed, ApartFrom, Intact
  <2>3. CASE q = p
    BY <1>3, <1>6, <2>1, <2>3 DEF Touches
  <2>4. CASE r = p
    BY <1>3, <1>6, <2>1, <2>4 DEF Touches
  <2> QED BY <2>2, <2>3, <2>4
<1>7. \A q \in Alive' : MemorySound(q)'
  BY <1>3, <1>5 DEF Alive
<1> QED BY <1>1, <1>2, <1>6, <1>7 DEF IInv

(* A step that changes no file.                                              *)
LEMMA SameFiles ==
  ASSUME Typed, disk' = disk, lastId' = lastId
  PROVE  Later /\ Grown
BY SessionTreeAssumption DEF Typed, Later, Grown

(* A step of p that changes only what it has in memory, but for the lines.   *)
LEMMA SameLines ==
  ASSUME IInv, NEW p \in Alive, disk' = disk, lastId' = lastId,
         NEW m \in Sessions, m = mem[p], NEW m2 \in Sessions, mem' = [mem EXCEPT ![p] = m2],
         m2.alive, m2.file = m.file, m2.lines = m.lines, m2.flushed = m.flushed,
         m2.next = m.next, m2.labels = m.labels,
         m2.leaf \in IdsOf(m.lines) \cup {Root},
         m2.anew # m.anew => m2.anew /\ m.next = 0 /\ ~Intact(m.file)
  PROVE  IInv'
<1>1. Typed /\ p \in Processes /\ m.file \in Files /\ m.lines \in Seq(Lines)
  BY DEF IInv, Typed, Alive, Sessions
<1>2. mem'[p] = m2 /\ \A q \in Processes \ {p} : mem'[q] = mem[q]
  BY <1>1 DEF Typed
<1>3. mem' \in [Processes -> Sessions]
  BY <1>1 DEF Typed
<1>4. Alive' = Alive
  BY <1>2 DEF Alive
<1>5. Typed'
  BY <1>1, <1>2, <1>3, <1>4 DEF Typed, Idle
<1>6. Later /\ Grown
  BY <1>1, SameFiles
<1>7. Stored(m2) = Stored(m) /\ Unstored(m2) = Unstored(m)
  BY DEF Stored, Unstored
<1>8. Touches(p, m.file)
  <2>1. \A q \in Alive \ {p} : q \in Processes \ {p} /\ ApartFrom(p, q) /\ ApartFrom(q, p)
    BY DEF IInv, Alive
  <2>2. \A q \in Alive \ {p} : ApartFrom(p, q)' /\ ApartFrom(q, p)'
    BY <1>2, <1>7, <2>1 DEF ApartFrom, Intact
  <2> QED BY <1>1, <1>2, <1>5, <1>6, <2>2, SameUndisturbed DEF Touches
<1>9. FileSound(m.file)'
  BY <1>1, <1>6, FileStays DEF IInv
<1>10. MemorySound(p)'
  <2>1. MemorySound(p) /\ Dated(m.lines)'
    BY <1>1, <1>6, DatedStays DEF IInv, MemorySound
  <2>2. InOrder(m.lines, m.file) => InOrder(m.lines, m.file)'
    BY <1>1, <1>6, OrderStays
  <2>3. Intact(m.file) => OnDisk(p)'
    <3>1. ASSUME Intact(m.file) PROVE OnDisk(p) /\ m2.anew = m.anew
      BY <2>1, <3>1 DEF MemorySound
    <3> HIDE DEF LabelsOf, Stored
    <3> QED BY <1>2, <1>7, <2>2, <3>1 DEF OnDisk
  <2>4. Intact(m.file) /\ ~disk[m.file].bare => OnceOnly(p)'
    BY <1>2, <1>7, <2>1 DEF MemorySound, OnceOnly
  <2>5. Writing(m2)
    BY <2>1 DEF MemorySound, Writing, Sessions
  <2> HIDE DEF OnDisk, OnceOnly
  <2> QED BY <1>2, <2>1, <2>3, <2>4, <2>5 DEF MemorySound, Intact
<1> QED BY <1>1, <1>8, <1>9, <1>10, TouchSound

LEMMA MoveLeafSound ==
  ASSUME IInv, NEW p \in Processes, NEW id, MoveLeaf(p, id)
  PROVE  IInv'
<1>1. /\ p \in Alive /\ Typed /\ disk' = disk /\ lastId' = lastId
      /\ id \in IdsOf(mem[p].lines) \cup {Root}
  BY DEF MoveLeaf, Alive, IInv
<1> PICK m \in Sessions : m = mem[p]
  BY DEF IInv, Typed
<1> PICK m2 : m2 = [m EXCEPT !.leaf = id, !.expected = {}, !.expectedLabels = {}]
  OBVIOUS
<1>2. m.lines \in Seq(Lines) /\ m.alive
  BY <1>1 DEF Sessions, Alive
<1>3. id \in Nat
  BY <1>1, <1>2, LinesIn DEF Root
<1>4. /\ m2 \in Sessions /\ m2.alive = m.alive /\ m2.file = m.file /\ m2.lines = m.lines
      /\ m2.leaf = id /\ m2.labels = m.labels /\ m2.flushed = m.flushed
      /\ m2.next = m.next /\ m2.anew = m.anew
  BY <1>3 DEF Sessions
<1>5. mem' = [mem EXCEPT ![p] = m2]
  BY DEF MoveLeaf, IInv, Typed
<1> QED BY ONLY IInv, <1>1, <1>2, <1>4, <1>5, SameLines, m \in Sessions, m = mem[p]

LEMMA CrashSound ==
  ASSUME IInv, NEW p \in Processes, Crash(p)
  PROVE  IInv'
<1>1. /\ p \in Alive /\ Typed /\ disk' = disk /\ lastId' = lastId
      /\ mem' = [mem EXCEPT ![p] = Dead]
  BY DEF Crash, Alive, IInv
<1>2. Dead \in Sessions /\ ~Dead.alive /\ Dead.next = 0 /\ ~Dead.anew
  <2>1. <<>> \in Seq(Lines)
    OBVIOUS
  <2> QED BY <2>1 DEF Dead, Sessions, Root
<1>3. mem'[p] = Dead /\ \A q \in Processes \ {p} : mem'[q] = mem[q]
  BY <1>1 DEF Typed
<1>4. mem' \in [Processes -> Sessions]
  BY <1>1, <1>2 DEF Typed
<1>5. Alive' = Alive \ {p}
  BY <1>2, <1>3 DEF Alive
<1>6. Typed'
  BY <1>1, <1>2, <1>3, <1>4, <1>5 DEF Typed, Alive, Idle
<1>7. Later /\ Grown
  BY <1>1, SameFiles
<1> PICK name \in Files : name = mem[p].file
  BY <1>1 DEF Typed
<1>8. Touches(p, name)
  BY <1>1, <1>3, <1>5, <1>6, <1>7, SameUndisturbed DEF Touches
<1>9. FileSound(name)'
  BY <1>1, <1>7, FileStays DEF IInv
<1> QED BY <1>5, <1>8, <1>9, TouchSound

-----------------------------------------------------------------------------
(* An entry is appended                                                      *)

(* A new entry.                                                              *)
Fresh(p, line) ==
  /\ line \in Lines /\ line.kind # "session" /\ line.id = lastId + 1
  /\ line.parent \in IdsOf(mem[p].lines) \cup {Root}

LEMMA NotYet ==
  ASSUME lastId \in Nat, NEW lines \in Seq(Lines), Dated(lines),
         NEW line, line.kind # "session", line.id = lastId + 1
  PROVE  line \notin ToSet(lines)
BY DEF Dated

LEMMA AppendedIs ==
  ASSUME NEW lines \in Seq(Lines), NEW line \in Lines
  PROVE  LET more == Append(lines, line) IN
         /\ more \in Seq(Lines) /\ more # <<>> /\ Last(more) = line
         /\ ToSet(more) = ToSet(lines) \cup {line}
         /\ HasHeader(lines) => HasHeader(more)
         /\ HasAssistant(lines) => HasAssistant(more)
         /\ Len(lines) \in Nat /\ Len(more) = Len(lines) + 1 /\ DOMAIN more = 1..(Len(lines) + 1)
         /\ more[Len(lines) + 1] = line
         /\ \A i \in 1..Len(lines) : more[i] = lines[i]
<1> PICK more : more = Append(lines, line)
  OBVIOUS
<1>1. /\ more \in Seq(Lines) /\ Len(lines) \in Nat /\ Len(more) = Len(lines) + 1
      /\ DOMAIN more = 1..(Len(lines) + 1) /\ more[Len(lines) + 1] = line
      /\ \A i \in 1..Len(lines) : more[i] = lines[i]
  BY AppendProperties, LenProperties
<1>2. more # <<>> /\ Last(more) = line
  BY <1>1, EmptySeq DEF Last
<1>3. ToSet(more) = ToSet(lines) \cup {line}
  BY SetOfAppend
<1>4. HasHeader(lines) => HasHeader(more)
  BY HeadTailAppend, <1>2 DEF HasHeader
<1>5. HasAssistant(lines) => HasAssistant(more)
  BY <1>1, <1>3, LinesIn
<1> QED BY <1>1, <1>2, <1>3, <1>4, <1>5

(* The process has the entry, and may have begun to write.                   *)
Pushes(m, line, more, m2) ==
  /\ m2 \in Sessions /\ m2.alive = m.alive /\ m2.file = m.file /\ m2.lines = more
  /\ m2.leaf = line.id /\ m2.anew = m.anew
  /\ m2.flushed => m.flushed /\ HasAssistant(more)
  /\ HasAssistant(more) => m2.next # 0
  /\ m2.next = 0 => m2.labels = Relabelled(m.labels, line)
  /\ m2.next # 0 => m2.labels = m.labels
  /\ Writing(m2)
  /\ Stored(m2) \in 0..Stored(m)
  /\ (m.flushed => HasAssistant(m.lines)) => Stored(m2) = Stored(m)

LEMMA RelabelledIn ==
  ASSUME NEW labels \in SUBSET Nat, NEW line \in Lines
  PROVE  Relabelled(labels, line) \in SUBSET Nat
BY DEF Relabelled, Lines

LEMMA PushedIs ==
  ASSUME NEW m \in Sessions, m.next = 0, ~m.anew, NEW line \in Lines,
         NEW more, more = Append(m.lines, line), NEW pushed, pushed = Pushed(m, line)
  PROVE  Pushes(m, line, more, IF pushed.next = 0 THEN WithLabel(pushed, line) ELSE pushed)
<1> PICK n \in Nat : n = Len(m.lines)
  BY LenProperties DEF Sessions
<1>1. /\ more \in Seq(Lines) /\ Len(more) = n + 1
      /\ HasAssistant(m.lines) => HasAssistant(more)
  <2>1. m.lines \in Seq(Lines)
    BY DEF Sessions
  <2> QED BY ONLY <2>1, AppendedIs, line \in Lines, more = Append(m.lines, line), n = Len(m.lines)
<1> PICK flushed \in BOOLEAN : flushed = (m.flushed /\ HasAssistant(more))
  OBVIOUS
<1> PICK next : next = FirstToWrite(m, more)
  OBVIOUS
<1>2. /\ next \in 0..(n + 1)
      /\ HasAssistant(more) <=> next # 0
      /\ flushed => HasAssistant(more) /\ m.flushed
      /\ next # 0 => (flushed <=> m.flushed)
      /\ next # 0 => next = IF m.flushed THEN n + 1 ELSE 1
  <2>1. CASE ~HasAssistant(more)
    <3>1. next = 0 /\ ~flushed
      BY <2>1 DEF FirstToWrite
    <3> QED BY <2>1, <3>1
  <2>2. CASE HasAssistant(more) /\ ~m.flushed
    <3>1. next = 1 /\ ~flushed
      BY <2>2 DEF FirstToWrite
    <3> QED BY <2>2, <3>1
  <2>3. CASE HasAssistant(more) /\ m.flushed
    <3>1. next = n + 1 /\ flushed
      BY <1>1, <2>3 DEF FirstToWrite
    <3> QED BY <2>3, <3>1
  <2> QED BY ONLY <2>1, <2>2, <2>3
<1>3. pushed = [m EXCEPT !.lines = more, !.leaf = line.id, !.expected = {},
                         !.expectedLabels = {}, !.flushed = flushed, !.next = next]
  <2>1. pushed = [m EXCEPT !.lines = more, !.leaf = line.id, !.expected = {},
                           !.expectedLabels = {}, !.flushed = @ /\ HasAssistant(more),
                           !.next = FirstToWrite(m, more)]
    BY Zenon DEF Pushed
  <2> QED BY <2>1 DEF Sessions
<1>4. /\ pushed \in Sessions /\ pushed.alive = m.alive /\ pushed.file = m.file
      /\ pushed.lines = more /\ pushed.leaf = line.id /\ pushed.anew = m.anew
      /\ pushed.flushed = flushed /\ pushed.next = next /\ pushed.labels = m.labels
  <2>1. next \in Nat /\ line.id \in Nat
    BY <1>2 DEF Lines
  <2> QED BY <1>1, <1>3, <2>1 DEF Sessions
<1> PICK m2 : m2 = IF pushed.next = 0 THEN WithLabel(pushed, line) ELSE pushed
  OBVIOUS
<1> PICK labels \in SUBSET Nat : labels = IF next = 0 THEN Relabelled(m.labels, line) ELSE m.labels
  BY RelabelledIn DEF Sessions
<1>5. m2 = [pushed EXCEPT !.labels = labels]
  <2>1. pushed = [pushed EXCEPT !.labels = m.labels]
    BY <1>4 DEF Sessions
  <2>2. WithLabel(pushed, line) = [pushed EXCEPT !.labels = Relabelled(m.labels, line)]
    BY <1>4 DEF WithLabel, Sessions
  <2> QED BY <1>4, <2>1, <2>2
<1>6. /\ m2 \in Sessions /\ m2.alive = m.alive /\ m2.file = m.file
      /\ m2.lines = more /\ m2.leaf = line.id /\ m2.anew = m.anew
      /\ m2.flushed = flushed /\ m2.next = next /\ m2.labels = labels
  BY ONLY <1>4, <1>5, labels \in SUBSET Nat DEF Sessions
<1>7. Stored(m2) = IF next # 0 THEN next - 1 ELSE IF flushed THEN n + 1 ELSE 0
  BY ONLY <1>1, <1>6 DEF Stored
<1>8. Stored(m) = IF m.flushed THEN n ELSE 0
  BY DEF Stored
<1>9. Stored(m2) \in 0..Stored(m)
  BY <1>2, <1>7, <1>8
<1>10. (m.flushed => HasAssistant(m.lines)) => Stored(m2) = Stored(m)
  BY <1>1, <1>2, <1>7, <1>8
<1>11. Writing(m2)
  <2>1. m2.next \in 0..Len(m2.lines)
    BY ONLY <1>1, <1>2, <1>6
  <2>2. m2.next # 0 => HasAssistant(m2.lines) /\ ~m2.anew
    BY ONLY <1>2, <1>6, ~m.anew
  <2>3. m2.next # 0 /\ m2.flushed => m2.next = Len(m2.lines)
    BY ONLY <1>1, <1>2, <1>6
  <2> QED BY ONLY <2>1, <2>2, <2>3 DEF Writing
<1> QED BY ONLY <1>2, <1>6, <1>9, <1>10, <1>11, m2 = (IF pushed.next = 0 THEN WithLabel(pushed, line) ELSE pushed),
                labels = (IF next = 0 THEN Relabelled(m.labels, line) ELSE m.labels)
           DEF Pushes

LEMMA UnstoredPushed ==
  ASSUME NEW m \in Sessions, NEW line \in Lines, NEW more, more = Append(m.lines, line),
         NEW m2 \in Sessions, m2.lines = more, Stored(m2) = Stored(m)
  PROVE  Unstored(m2) \subseteq Unstored(m) \cup {line}
<1> PICK n \in Nat : n = Len(m.lines) /\ DOMAIN m.lines = 1..n
  BY LenProperties DEF Sessions
<1>1. /\ DOMAIN more = 1..(n + 1) /\ more[n + 1] = line
      /\ \A i \in 1..n : more[i] = m.lines[i]
  BY AppendedIs DEF Sessions
<1> SUFFICES ASSUME NEW i \in 1..(n + 1), i > Stored(m), more[i].kind # "session", i # n + 1
             PROVE  more[i] \in Unstored(m)
  BY <1>1 DEF Unstored, Entries
<1>2. i \in 1..n
  OBVIOUS
<1> QED BY <1>1, <1>2 DEF Unstored, Entries, ToSet

LEMMA AppendEntrySound ==
  ASSUME IInv, NEW p \in Alive, NEW line, Fresh(p, line), NEW moved, AppendEntry(p, line, moved)
  PROVE  IInv'
<1> PICK m \in Sessions : m = mem[p]
  BY DEF IInv, Typed, Alive
<1> PICK f \in Files : f = m.file
  BY DEF IInv, Typed
<1> PICK file \in DiskFiles : file = disk[f]
  BY DEF IInv, Typed
<1> PICK more : more = Append(m.lines, line)
  OBVIOUS
<1> PICK pushed : pushed = Pushed(m, line)
  OBVIOUS
<1> PICK m2 : m2 = IF pushed.next = 0 THEN WithLabel(pushed, line) ELSE pushed
  OBVIOUS
<1>0. /\ p \in Processes /\ m.alive /\ m.lines \in Seq(Lines) /\ Typed /\ lastId \in Nat
      /\ line \in Lines /\ line.kind # "session" /\ line.id = lastId + 1
      /\ line.parent \in IdsOf(m.lines) \cup {Root} /\ MemorySound(p)
  BY SessionTreeAssumption DEF IInv, Typed, Alive, Sessions, Fresh
<1>1. m.next = 0 /\ ~m.anew /\ disk' = disk /\ lastId' = lastId + 1 /\ lastId' <= MaxEntries
  BY SessionTreeAssumption DEF AppendEntry, Idle, IInv, Typed
<1>2. Pushes(m, line, more, m2)
  BY <1>0, <1>1, PushedIs
<1>3. mem' = [mem EXCEPT ![p] = m2]
  BY Zenon DEF AppendEntry
<1>4. /\ m2 \in Sessions /\ m2.alive /\ m2.file = f /\ m2.lines = more
      /\ m2.leaf = line.id /\ ~m2.anew
  BY <1>0, <1>1, <1>2 DEF Pushes
<1>5. mem'[p] = m2 /\ \A q \in Processes \ {p} : mem'[q] = mem[q]
  BY <1>0, <1>3 DEF Typed
<1>6. Alive' = Alive
  BY <1>0, <1>4, <1>5 DEF Alive
<1>7. Later /\ Grown
  BY <1>0, <1>1, SessionTreeAssumption DEF Later, Grown
<1>8. Typed'
  <2>1. mem' \in [Processes -> Sessions]
    BY <1>0, <1>3, <1>4 DEF Typed
  <2>2. lastId' \in 0..MaxEntries
    BY <1>7 DEF Later
  <2>3. disk' \in [Files -> DiskFiles]
    BY <1>0, <1>1 DEF Typed
  <2>4. \A q \in Alive : mem'[q].file \in Files
    BY <1>0, <1>4, <1>5 DEF Typed, Alive
  <2>5. \A q \in Processes : ~(mem'[q].next = 0 /\ ~mem'[q].anew) => q \in Alive
    BY <1>0, <1>5 DEF Typed, Idle
  <2> QED BY ONLY <1>6, <2>1, <2>2, <2>3, <2>4, <2>5 DEF Typed, Idle
<1>9. /\ more \in Seq(Lines) /\ ToSet(more) = ToSet(m.lines) \cup {line} /\ Last(more) = line
      /\ HasHeader(m.lines) => HasHeader(more)
      /\ \A i \in 1..Len(m.lines) : more[i] = m.lines[i]
  BY ONLY <1>0, AppendedIs, more = Append(m.lines, line)
<1>10. \A l \in ToSet(m.lines) : l.id \in 0..lastId
  BY <1>0 DEF MemorySound, Dated, Header, Root
<1>11. Dated(more)'
  <2>1. Dated(m.lines)'
    BY <1>0, <1>7, DatedStays DEF MemorySound
  <2>2. line.id \in 1..lastId' /\ line.parent < line.id
    <3>1. line.parent \in 0..lastId
      BY <1>0, <1>10 DEF IdsOf, Entries, Root
    <3> QED BY <1>0, <1>1, <3>1
  <2> QED BY <1>0, <1>9, <2>1, <2>2 DEF Dated
<1>12. line \notin ToSet(m.lines) /\ line \notin ToSet(file.lines)
  <2>1. Dated(m.lines) /\ Dated(file.lines) /\ file.lines \in Seq(Lines)
    BY <1>0 DEF MemorySound, FileSound, IInv, DiskFiles
  <2> QED BY <1>0, <2>1, NotYet
<1>13. (m.flushed => HasAssistant(m.lines)) => Unstored(m2) \subseteq Unstored(m) \cup {line}
  <2>1. ASSUME m.flushed => HasAssistant(m.lines) PROVE Stored(m2) = Stored(m)
    BY ONLY <1>2, <2>1 DEF Pushes
  <2>2. m2.lines = more /\ m2 \in Sessions /\ line \in Lines
    BY <1>0, <1>4
  <2>3. ASSUME Stored(m2) = Stored(m) PROVE Unstored(m2) \subseteq Unstored(m) \cup {line}
    BY ONLY <2>2, <2>3, m \in Sessions, more = Append(m.lines, line), UnstoredPushed
  <2> QED BY ONLY <2>1, <2>3
<1>14. Stored(m) \in 0..Len(m.lines)
  BY <1>1, <1>0, LenProperties DEF Stored
<1>15. Touches(p, f)
  <2> SUFFICES ASSUME NEW q \in Alive \ {p}
               PROVE  ApartFrom(p, q)' /\ ApartFrom(q, p)'
    BY <1>1, <1>5, <1>7, <1>8, SameUndisturbed DEF Touches
  <2> PICK o \in Sessions : o = mem[q]
    BY DEF IInv, Typed, Alive
  <2>1. mem'[q] = o /\ ApartFrom(p, q) /\ ApartFrom(q, p)
    BY <1>5 DEF IInv, Alive
  <2>2. line \notin ToSet(o.lines) /\ \A l \in Unstored(o) : l # line
    <3>1. Dated(o.lines) /\ o.lines \in Seq(Lines)
      BY DEF IInv, MemorySound, Sessions
    <3>2. line \notin ToSet(o.lines)
      BY <1>0, <3>1, NotYet
    <3> QED BY <3>2 DEF Unstored, Entries
  <2>3. ASSUME o.file = f, file.lost = {}, ~file.bare
        PROVE  m.flushed => HasAssistant(m.lines)
    BY <1>0, <2>3 DEF MemorySound, OnceOnly, Intact
  <2>4. ApartFrom(p, q)'
    <3> SUFFICES ASSUME o.file = f, file.lost = {}, ~file.bare
                 PROVE  /\ \A l \in Unstored(m2) : l \notin ToSet(o.lines)
                        /\ Stored(m2) = 0 => file.shared
      BY <1>1, <1>4, <1>5, <2>1 DEF ApartFrom, Intact
    <3>1. Stored(m2) = Stored(m)
      BY <1>2, <2>3 DEF Pushes
    <3>2. \A l \in Unstored(m) : l \notin ToSet(o.lines)
      BY <2>1 DEF ApartFrom, Intact
    <3>3. Stored(m) = 0 => file.shared
      BY <2>1 DEF ApartFrom, Intact
    <3> QED BY ONLY <1>13, <2>2, <2>3, <3>1, <3>2, <3>3, o.file = f, file.lost = {}, ~file.bare
  <2>5. ApartFrom(q, p)'
    <3> SUFFICES ASSUME o.file = f, file.lost = {}, ~file.bare
                 PROVE  /\ \A l \in Unstored(o) : l \notin ToSet(more)
                        /\ Stored(o) = 0 => file.shared
      BY <1>1, <1>4, <1>5, <2>1 DEF ApartFrom, Intact
    <3> QED BY <1>9, <2>1, <2>2 DEF ApartFrom, Intact
  <2> QED BY <2>4, <2>5
<1>16. FileSound(f)'
  BY <1>0, <1>1, <1>7, FileStays DEF IInv
<1>17. ASSUME file.lost = {}
       PROVE  OnDisk(p)'
  <2>1. OnDisk(p)
    BY <1>0, <1>17 DEF MemorySound, Intact
  <2>2. InOrder(more, f)'
    <3>1. InOrder(m.lines, f) /\ (line.parent = Root \/ \E l \in ToSet(m.lines) : l.id = line.parent)
      BY <1>0, <2>1 DEF OnDisk, IdsOf, Entries
    <3>2. InOrder(more, f)
      BY <1>0, <3>1, InOrderAppended
    <3> QED BY <1>0, <1>7, <3>2, OrderStays
  <2>3. HasAssistant(more) => m2.flushed \/ m2.next # 0
    BY <1>2 DEF Pushes
  <2>4. IF m2.next = 0 THEN m2.labels = LabelsOf(more)
        ELSE Relabelled(m2.labels, Last(more)) = LabelsOf(more)
    <3>1. m.labels = LabelsOf(m.lines)
      BY <1>1, <2>1 DEF OnDisk
    <3>2. Relabelled(m.labels, line) = LabelsOf(more)
      BY ONLY <1>0, <3>1, LabelsOfAppend, more = Append(m.lines, line)
    <3> QED BY ONLY <1>2, <1>9, <3>2 DEF Pushes
  <2>5. \A i \in 1..Stored(m2) : more[i] \in ToSet(Load(file))
    <3>1. \A i \in 1..Stored(m2) : i \in 1..Stored(m) /\ i \in 1..Len(m.lines)
      BY <1>2, <1>14 DEF Pushes
    <3> QED BY <1>1, <1>9, <2>1, <3>1 DEF OnDisk
  <2>6. file.exists => file.lines # <<>>
    BY <1>1, <2>1 DEF OnDisk
  <2> HIDE DEF LabelsOf, Stored
  <2> QED BY ONLY <1>1, <1>4, <1>5, <2>2, <2>3, <2>4, <2>5, <2>6, file = disk[f] DEF OnDisk
<1>18. ASSUME file.lost = {}, ~file.bare
       PROVE  OnceOnly(p)'
  <2>1. OnceOnly(p)
    BY <1>0, <1>18 DEF MemorySound, Intact
  <2>2. Once(more, TRUE)
    BY <1>0, <1>12, <2>1, OnceAppended DEF OnceOnly
  <2>3. Stored(m2) = Stored(m) /\ \A l \in Unstored(m2) : l \notin ToSet(file.lines)
    BY <1>2, <1>12, <1>13, <2>1 DEF OnceOnly, Pushes
  <2>4. m2.flushed => HasAssistant(more)
    BY <1>2 DEF Pushes
  <2>5. Stored(m) = 0 /\ ~file.shared => ~file.exists
    BY <2>1 DEF OnceOnly
  <2>6. \A i \in DOMAIN more : i > Stored(m2) /\ i # 1 => more[i].kind # "session"
    <3> PICK n \in Nat : n = Len(m.lines) /\ DOMAIN m.lines = 1..n
      BY <1>0, LenProperties
    <3>1. DOMAIN more = 1..(n + 1) /\ more[n + 1] = line /\ \A i \in 1..n : more[i] = m.lines[i]
      BY <1>0, AppendedIs
    <3>2. \A i \in 1..n : i > Stored(m) /\ i # 1 => m.lines[i].kind # "session"
      BY <2>1 DEF OnceOnly
    <3>3. \A i \in 1..(n + 1) : i \in 1..n \/ i = n + 1
      OBVIOUS
    <3> QED BY ONLY <1>0, <2>3, <3>1, <3>2, <3>3
  <2> QED BY ONLY <1>1, <1>4, <1>5, <2>2, <2>3, <2>4, <2>5, <2>6, file = disk[f] DEF OnceOnly
<1>19. MemorySound(p)'
  <2>1. line.id \in IdsOf(more)
    BY <1>0, <1>9 DEF IdsOf, Entries
  <2>2. HasHeader(more) /\ Writing(m2)
    BY <1>0, <1>2, <1>9 DEF MemorySound, Pushes
  <2> QED BY ONLY <1>1, <1>4, <1>5, <1>11, <1>17, <1>18, <2>1, <2>2, file = disk[f] DEF MemorySound, Intact
<1> QED BY <1>0, <1>15, <1>16, <1>19, TouchSound

-----------------------------------------------------------------------------
(* A line is written                                                         *)

(* What EntriesStay says of a step.                                          *)
Kept ==
  \A name \in Files : \A line \in ToSet(Load(disk[name])) :
    \/ line \in ToSet(Load(disk'[name]))
    \/ line \in Unended(disk[name])
    \/ WrittenAnew(name, line)

LEMMA SameKept ==
  ASSUME \A name \in Files : disk'[name].lines = disk[name].lines
  PROVE  Kept
BY DEF Kept, Load

(* The process goes on to the next line, or is done.                         *)
Writes(m, m2) ==
  /\ m2 \in Sessions /\ m2.alive = m.alive /\ m2.file = m.file /\ m2.lines = m.lines
  /\ m2.leaf = m.leaf /\ m2.anew = m.anew
  /\ Stored(m2) = m.next /\ Stored(m) = m.next - 1
  /\ Writing(m2)
  /\ m2.flushed \/ m2.next # 0
  /\ m2.labels = IF m2.next = 0 THEN Relabelled(m.labels, Last(m.lines)) ELSE m.labels

LEMMA WritesOne ==
  ASSUME NEW m \in Sessions, m.next # 0, Writing(m), NEW m2,
         m2 = IF m.next < Len(m.lines) THEN [m EXCEPT !.next = @ + 1]
              ELSE WithLabel(MarkFlushed(m), m.lines[m.next])
  PROVE  Writes(m, m2)
<1> PICK n \in Nat : n = Len(m.lines)
  BY LenProperties DEF Sessions
<1>1. /\ m.next \in 1..n /\ HasAssistant(m.lines) /\ ~m.anew
      /\ m.flushed => m.next = n
  BY DEF Writing, Sessions
<1>2. Stored(m) = m.next - 1
  BY DEF Stored
<1>3. CASE m.next < n
  <2>1. m2 = [m EXCEPT !.next = m.next + 1]
    BY <1>3 DEF Sessions
  <2>2. /\ m2 \in Sessions /\ m2.alive = m.alive /\ m2.file = m.file /\ m2.lines = m.lines
        /\ m2.leaf = m.leaf /\ m2.anew = m.anew /\ m2.next = m.next + 1
        /\ m2.flushed = m.flushed /\ m2.labels = m.labels
    BY <2>1 DEF Sessions
  <2>3. Stored(m2) = m.next /\ m2.next # 0 /\ m2.next \in 0..n
    BY <1>1, <1>3, <2>2 DEF Stored
  <2>4. ~m2.flushed
    BY <1>1, <1>3, <2>2
  <2>5. Writing(m2)
    BY ONLY <1>1, <2>2, <2>3, <2>4, n = Len(m.lines) DEF Writing
  <2> QED BY ONLY <1>2, <2>2, <2>3, <2>5 DEF Writes
<1>4. CASE ~(m.next < n)
  <2>0. m.next = n
    BY <1>1, <1>4
  <2> PICK line : line = m.lines[n]
    OBVIOUS
  <2>1. line \in Lines /\ line = Last(m.lines)
    <3>1. m.lines \in Seq(Lines) /\ n \in 1..Len(m.lines)
      BY <1>1 DEF Sessions
    <3>2. line \in Lines
      BY ONLY <3>1, ElementOfSeq, line = m.lines[n]
    <3> QED BY <3>2, Zenon DEF Last
  <2> PICK labels \in SUBSET Nat : labels = Relabelled(m.labels, line)
    BY <2>1, RelabelledIn DEF Sessions
  <2>2. m2 = [m EXCEPT !.next = 0, !.flushed = TRUE, !.labels = labels]
    BY <1>4, <2>0 DEF WithLabel, MarkFlushed, Sessions
  <2>3. /\ m2 \in Sessions /\ m2.alive = m.alive /\ m2.file = m.file /\ m2.lines = m.lines
        /\ m2.leaf = m.leaf /\ m2.anew = m.anew /\ m2.next = 0
        /\ m2.flushed = TRUE /\ m2.labels = labels
    BY ONLY <2>2, m \in Sessions, labels \in SUBSET Nat DEF Sessions
  <2>4. Stored(m2) = n
    BY <2>3 DEF Stored
  <2>5. Writing(m2)
    BY ONLY <2>3, n = Len(m.lines), n \in Nat DEF Writing
  <2> QED BY ONLY <1>2, <2>0, <2>1, <2>3, <2>4, <2>5, labels = Relabelled(m.labels, line) DEF Writes
<1> QED BY <1>3, <1>4

(* The line that is written is not one that is still to be written.          *)
LEMMA UnstoredWritten ==
  ASSUME NEW m \in Sessions, NEW n \in DOMAIN m.lines, Stored(m) = n - 1,
         NEW m2 \in Sessions, m2.lines = m.lines, Stored(m2) = n
  PROVE  /\ Unstored(m2) \subseteq Unstored(m)
         /\ m.lines[n].kind # "session" => m.lines[n] \in Unstored(m)
         /\ Once(m.lines, TRUE) => m.lines[n] \notin Unstored(m2)
<1> PICK k \in Nat : DOMAIN m.lines = 1..k
  BY LenProperties DEF Sessions
<1>1. \A i \in 1..k : (i > n => i > n - 1) /\ n > n - 1 /\ (i > n => i # n)
  OBVIOUS
<1>2. Unstored(m2) \subseteq Unstored(m)
  BY <1>1 DEF Unstored
<1>3. m.lines[n].kind # "session" => m.lines[n] \in Unstored(m)
  BY <1>1 DEF Unstored, Entries, ToSet
<1>4. Once(m.lines, TRUE) => m.lines[n] \notin Unstored(m2)
  BY <1>1 DEF Once, Unstored, Entries
<1> QED BY <1>2, <1>3, <1>4

LEMMA AppendLineSound ==
  ASSUME IInv, NEW p \in Processes, AppendLine(p)
  PROVE  IInv' /\ Kept
<1> PICK m \in Sessions : m = mem[p]
  BY DEF IInv, Typed
<1>0. Typed /\ p \in Alive /\ m.next # 0 /\ m.alive
  BY DEF IInv, Typed, AppendLine, Idle, Alive
<1> PICK f \in Files : f = m.file
  BY <1>0 DEF Typed
<1> PICK file \in DiskFiles : file = disk[f]
  BY <1>0 DEF Typed
<1> PICK n \in Nat : n = m.next
  BY DEF Sessions
<1> PICK line : line = m.lines[n]
  OBVIOUS
<1> PICK f2 : f2 = Extended(file, line, "whole")
  OBVIOUS
<1> PICK m2 : m2 = IF n < Len(m.lines) THEN [m EXCEPT !.next = @ + 1]
                   ELSE WithLabel(MarkFlushed(m), line)
  OBVIOUS
<1>1. lastId' = lastId /\ disk' = [disk EXCEPT ![f] = f2] /\ mem' = [mem EXCEPT ![p] = m2]
  BY Zenon DEF AppendLine
<1>2. /\ MemorySound(p) /\ Writing(m) /\ HasHeader(m.lines) /\ Dated(m.lines)
      /\ FileSound(f) /\ Dated(file.lines)
      /\ m.lines \in Seq(Lines) /\ file.lines \in Seq(Lines)
  BY <1>0 DEF IInv, MemorySound, FileSound, Sessions, DiskFiles
<1>3. /\ n \in DOMAIN m.lines /\ line \in Lines /\ line \in ToSet(m.lines)
      /\ HasAssistant(m.lines) /\ m.anew = FALSE
  <2>1. n \in 1..Len(m.lines)
    BY <1>0, <1>2 DEF Writing
  <2>2. m.anew = FALSE
    BY <1>0, <1>2 DEF Writing, Sessions
  <2>3. n \in DOMAIN m.lines
    BY <1>2, <2>1, LenProperties
  <2> QED BY <1>0, <1>2, <2>1, <2>2, <2>3, ElementOfSeq DEF Writing, ToSet
<1>4. Longer(file, line, "whole", f2)
  BY <1>2, <1>3, ExtendedIs DEF FileSound, Ends
<1>5. Writes(m, m2)
  BY <1>0, <1>2, WritesOne
<1>6. /\ m2 \in Sessions /\ m2.alive /\ m2.file = f /\ m2.lines = m.lines
      /\ m2.leaf = m.leaf /\ m2.anew = FALSE /\ Stored(m2) = n /\ Stored(m) = n - 1
  BY <1>0, <1>3, <1>5 DEF Writes
<1>7. /\ f2 \in DiskFiles /\ f2.exists = TRUE /\ f2.bare = file.bare /\ f2.shared = file.shared
      /\ file.lost \subseteq f2.lost
      /\ f2.lost = {} => f2.lines = Append(file.lines, line)
      /\ ToSet(f2.lines) \subseteq ToSet(file.lines) \cup {line}
  BY <1>4 DEF Longer
<1>8. /\ disk'[f] = f2 /\ mem'[p] = m2
      /\ \A g \in Files \ {f} : disk'[g] = disk[g]
      /\ \A q \in Processes \ {p} : mem'[q] = mem[q]
      /\ disk' \in [Files -> DiskFiles] /\ mem' \in [Processes -> Sessions]
  BY <1>0, <1>1, <1>6, <1>7 DEF Typed
<1>9. Alive' = Alive
  BY <1>0, <1>6, <1>8 DEF Alive
<1>10. Typed'
  <2>1. \A q \in Alive : mem'[q].file \in Files
    BY ONLY <1>0, <1>6, <1>8, f \in Files DEF Typed, Alive
  <2>2. \A q \in Processes : ~(mem'[q].next = 0 /\ ~mem'[q].anew) => q \in Alive
    BY <1>0, <1>8 DEF Typed, Idle
  <2> QED BY <1>0, <1>1, <1>8, <1>9, <2>1, <2>2 DEF Typed, Idle
<1>11. Later /\ Grown
  <2>1. Later
    BY <1>0, <1>1, SessionTreeAssumption DEF Typed, Later
  <2> QED BY <1>4, <1>8, <2>1 DEF Grown, Longer
<1>12. Kept
  <2>1. \A l \in ToSet(Load(file)) : l \in ToSet(Load(f2)) \/ l \in Unended(file)
    BY <1>4 DEF Longer
  <2> QED BY <1>8, <2>1 DEF Kept
<1>13. Unstored(m2) \subseteq Unstored(m) /\ (line.kind # "session" => line \in Unstored(m))
       /\ (Once(m.lines, TRUE) => line \notin Unstored(m2))
  BY ONLY <1>3, <1>6, UnstoredWritten, m \in Sessions, line = m.lines[n]
<1>14. ASSUME f2.lost = {}
       PROVE  /\ file.lost = {} /\ OnDisk(p)
              /\ f2.lines = Append(file.lines, line)
              /\ ToSet(f2.lines) = ToSet(file.lines) \cup {line}
              /\ file.lines = <<>> => n = 1
              /\ HasHeader(f2.lines) /\ Load(f2) = f2.lines
              /\ ToSet(Load(file)) \subseteq ToSet(Load(f2))
  <2>1. file.lost = {} /\ OnDisk(p) /\ f2.lines = Append(file.lines, line)
    BY <1>2, <1>7, <1>14 DEF MemorySound, Intact
  <2>2. ToSet(f2.lines) = ToSet(file.lines) \cup {line}
    BY ONLY <1>2, <1>3, <2>1, AppendedIs
  <2>3. file.lines = <<>> => n = 1
    <3> SUFFICES ASSUME file.lines = <<>>, n # 1 PROVE FALSE
      OBVIOUS
    <3>1. 1 \in 1..Stored(m)
      BY <1>0, <1>6
    <3>2. m.lines[1] \in ToSet(Load(file))
      BY <1>3, <2>1, <3>1 DEF OnDisk
    <3>3. ToSet(Load(file)) \subseteq ToSet(file.lines)
      BY LoadIs
    <3> QED BY <3>2, <3>3 DEF ToSet
  <2>4. HasHeader(f2.lines)
    <3>1. CASE file.lines = <<>>
      <4>1. line = Head(m.lines)
        BY <1>2, <2>3, <3>1 DEF HasHeader
      <4>2. line.kind = "session"
        BY <1>2, <4>1 DEF HasHeader
      <4>3. Len(file.lines) = 0
        BY <3>1
      <4>4. f2.lines \in Seq(Lines) /\ f2.lines # <<>> /\ f2.lines[1] = line
        BY ONLY <1>2, <1>3, <2>1, <4>3, AppendedIs
      <4> QED BY ONLY <4>2, <4>4 DEF HasHeader
    <3>2. CASE file.lines # <<>>
      <4>1. HasHeader(file.lines)
        BY <1>2, <2>1, <3>2 DEF FileSound, Intact
      <4> QED BY ONLY <1>2, <1>3, <2>1, <4>1, AppendedIs
    <3> QED BY <3>1, <3>2
  <2>5. Load(f2) = f2.lines
    BY <1>7, <2>4, LoadIs
  <2>6. ToSet(Load(file)) \subseteq ToSet(file.lines)
    BY LoadIs
  <2> QED BY <2>1, <2>2, <2>3, <2>4, <2>5, <2>6
<1>15. ASSUME f2.lost = {}, ~f2.bare
       PROVE  /\ OnceOnly(p) /\ Once(m.lines, TRUE)
              /\ \A l \in Unstored(m2) : l \notin ToSet(f2.lines)
              /\ line \in ToSet(file.lines) => file.shared /\ line.kind = "session"
  <2>1. OnceOnly(p)
    BY <1>2, <1>7, <1>14, <1>15 DEF MemorySound, Intact
  <2>2. \A l \in Unstored(m) : l \notin ToSet(file.lines)
    BY <2>1 DEF OnceOnly
  <2>3. Once(m.lines, TRUE)
    BY <2>1 DEF OnceOnly
  <2>4. \A l \in Unstored(m2) : l \notin ToSet(f2.lines)
    BY <1>7, <1>13, <2>2, <2>3
  <2>5. ASSUME line \in ToSet(file.lines)
        PROVE  file.shared /\ line.kind = "session"
    <3>1. line.kind = "session"
      BY <1>13, <2>2, <2>5
    <3>2. n = 1
      <4>1. n > Stored(m)
        BY <1>6
      <4> QED BY <1>3, <2>1, <3>1, <4>1 DEF OnceOnly
    <3>3. file.exists
      <4>1. file.lines # <<>>
        BY ONLY <2>5 DEF ToSet
      <4> QED BY <1>2, <4>1 DEF FileSound
    <3>4. Stored(m) = 0
      BY <1>6, <3>2
    <3> QED BY <2>1, <3>1, <3>3, <3>4 DEF OnceOnly
  <2> QED BY <2>1, <2>3, <2>4, <2>5
<1>16. FileSound(f)'
  <2>1. Dated(f2.lines)'
    <3>1. Dated(f2.lines)
      BY ONLY <1>2, <1>3, <1>7 DEF Dated
    <3> QED BY <1>1, <3>1 DEF Dated
  <2>2. f2.end = "open" => f2.lines # <<>>
    BY <1>4 DEF Longer
  <2>3. ASSUME f2.lost = {} PROVE InOrder(f2.lines, f)'
    <3>1. InOrder(file.lines, f) /\ InOrder(m.lines, f)
      BY <1>2, <1>14, <2>3 DEF FileSound, Intact, OnDisk
    <3>2. \/ line.parent = Root
          \/ \E l \in ToSet(file.lines) : l.id = line.parent
          \/ LeftOut(f, line.parent)
      <4>1. \/ line.parent = Root
            \/ \E j \in 1..(n - 1) : m.lines[j].id = line.parent
            \/ LeftOut(f, line.parent)
        BY <1>3, <3>1 DEF InOrder
      <4>2. \A j \in 1..(n - 1) : m.lines[j] \in ToSet(Load(file))
        BY <1>3, <1>6, <1>14, <2>3 DEF OnDisk
      <4>3. ToSet(Load(file)) \subseteq ToSet(file.lines)
        BY LoadIs
      <4> QED BY <4>1, <4>2, <4>3
    <3>3. InOrder(f2.lines, f)
      <4>1. f2.lines = Append(file.lines, line)
        BY <1>7, <2>3
      <4>2. file.lines \in Seq(Lines) /\ line \in Lines
        BY <1>2, <1>3
      <4> QED BY ONLY <3>1, <3>2, <4>1, <4>2, InOrderAppended
    <3> QED BY <1>0, <1>11, <3>3, OrderStays
  <2>4. f2.lost = {} /\ ~f2.bare => Once(f2.lines, f2.shared)
    <3> SUFFICES ASSUME f2.lost = {}, ~f2.bare PROVE Once(f2.lines, f2.shared)
      OBVIOUS
    <3>1. Once(file.lines, file.shared)
      BY <1>2, <1>7, <1>14 DEF FileSound, Intact
    <3>2. line \in ToSet(file.lines) => file.shared /\ line.kind = "session"
      BY <1>15
    <3>3. f2.lines = Append(file.lines, line) /\ f2.shared = file.shared
      BY <1>7
    <3> QED BY ONLY <1>2, <1>3, <3>1, <3>2, <3>3, OnceAppended
  <2> QED BY ONLY <1>7, <1>8, <1>14, <2>1, <2>2, <2>3, <2>4 DEF FileSound, Intact
<1>17. ASSUME f2.lost = {}
       PROVE  OnDisk(p)'
  <2>1. InOrder(m.lines, f)'
    BY <1>0, <1>11, <1>14, <1>17, OrderStays DEF OnDisk
  <2>2. m2.flushed \/ m2.next # 0
    BY <1>5 DEF Writes
  <2>3. IF m2.next = 0 THEN m2.labels = LabelsOf(m.lines)
        ELSE Relabelled(m2.labels, Last(m.lines)) = LabelsOf(m.lines)
    <3>1. Relabelled(m.labels, Last(m.lines)) = LabelsOf(m.lines)
      BY <1>0, <1>14, <1>17 DEF OnDisk
    <3> HIDE DEF LabelsOf
    <3> QED BY ONLY <1>5, <3>1 DEF Writes
  <2>4. \A i \in 1..Stored(m2) : m.lines[i] \in ToSet(Load(f2))
    <3> TAKE i \in 1..Stored(m2)
    <3>1. CASE i = n
      BY <1>14, <1>17, <3>1
    <3>2. CASE i # n
      <4>1. i \in 1..Stored(m)
        BY <1>6, <3>2
      <4> QED BY <1>3, <1>14, <1>17, <4>1 DEF OnDisk
    <3> QED BY <3>1, <3>2
  <2>5. f2.lines # <<>>
    BY <1>14, <1>17 DEF HasHeader
  <2> HIDE DEF LabelsOf, Stored
  <2> QED BY ONLY <1>6, <1>8, <2>1, <2>2, <2>3, <2>4, <2>5 DEF OnDisk
<1>18. ASSUME f2.lost = {}, ~f2.bare
       PROVE  OnceOnly(p)'
  <2>1. \A i \in DOMAIN m.lines : i > n /\ i # 1 => m.lines[i].kind # "session"
    <3>1. \A i \in DOMAIN m.lines : i > n - 1 /\ i # 1 => m.lines[i].kind # "session"
      BY <1>6, <1>15, <1>18 DEF OnceOnly
    <3>2. \A i \in DOMAIN m.lines : i > n => i > n - 1
      <4>1. \A i \in DOMAIN m.lines : i \in Int
        BY <1>2, LenProperties
      <4> QED BY <4>1
    <3> QED BY <3>1, <3>2
  <2> QED BY ONLY <1>0, <1>3, <1>6, <1>8, <1>15, <1>18, <2>1, n = m.next DEF OnceOnly
<1>19. MemorySound(p)'
  <2>1. Dated(m.lines)'
    BY <1>0, <1>2, <1>11, DatedStays
  <2>2. Writing(m2)
    BY <1>5 DEF Writes
  <2>3. m.leaf \in IdsOf(m.lines) \cup {Root}
    BY <1>2 DEF MemorySound
  <2> QED BY ONLY <1>2, <1>6, <1>8, <1>17, <1>18, <2>1, <2>2, <2>3 DEF MemorySound, Intact
<1>20. Touches(p, f)
  <2> SUFFICES ASSUME NEW q \in Alive \ {p}
               PROVE  /\ mem[q].file = f => Undisturbed(q, file, f2)
                      /\ ApartFrom(p, q)' /\ ApartFrom(q, p)'
    BY <1>8, <1>10, <1>11 DEF Touches
  <2> PICK o \in Sessions : o = mem[q]
    BY DEF IInv, Typed, Alive
  <2>1. mem'[q] = o /\ ApartFrom(p, q) /\ ApartFrom(q, p)
    BY <1>0, <1>8 DEF IInv, Alive
  <2>2. ASSUME o.file = f, f2.lost = {}, ~f2.bare
        PROVE  /\ \A l \in Unstored(m2) : l \notin ToSet(o.lines)
               /\ \A l \in Unstored(o) : l \notin ToSet(m.lines)
               /\ Stored(o) = 0 => file.shared
    <3>1. file.lost = {} /\ ~file.bare
      BY <1>7, <1>14, <2>2
    <3> HIDE DEF Unstored, Stored
    <3> QED BY <1>13, <2>1, <2>2, <3>1 DEF ApartFrom, Intact
  <2>3. o.file = f => Undisturbed(q, file, f2)
    <3> SUFFICES ASSUME o.file = f PROVE Undisturbed(q, file, f2)
      OBVIOUS
    <3>1. f2.lost = {} => f2.lines # <<>>
      BY <1>14 DEF HasHeader
    <3>2. ASSUME f2.lost = {}, ~f2.bare, NEW l \in Unstored(o), l \in ToSet(f2.lines)
          PROVE  l \in ToSet(file.lines)
      <4>1. l # line
        BY ONLY <1>3, <2>2, <3>2, o.file = f
      <4> QED BY ONLY <1>7, <3>2, <4>1
    <3> HIDE DEF Unstored, Stored
    <3> QED BY <1>7, <1>14, <2>2, <3>1, <3>2 DEF Undisturbed
  <2>4. ApartFrom(p, q)' /\ ApartFrom(q, p)'
    <3> HIDE DEF Unstored, Stored
    <3>1. n # 0
      BY <1>0
    <3> QED BY ONLY <1>6, <1>7, <1>8, <2>1, <2>2, <3>1 DEF ApartFrom, Intact
  <2> QED BY <2>3, <2>4
<1> QED BY <1>12, <1>16, <1>19, <1>20, TouchSound


-----------------------------------------------------------------------------
(* A write fails, or a file is written anew                                  *)

(* When ids are lost from a file, nothing more is said about it.             *)
Loses(p, f, m, file, m2, f2) ==
  /\ p \in Alive /\ m \in Sessions /\ m = mem[p]
  /\ f \in Files /\ f = m.file /\ file \in DiskFiles /\ file = disk[f]
  /\ lastId' = lastId
  /\ disk' = [disk EXCEPT ![f] = f2] /\ f2 \in DiskFiles
  /\ mem' = [mem EXCEPT ![p] = m2] /\ m2 \in Sessions
  /\ m2.alive /\ m2.file = f /\ m2.lines = m.lines /\ m2.leaf = m.leaf /\ Writing(m2)
  /\ f2.lost # {} /\ file.lost \subseteq f2.lost
  /\ f2.bare = file.bare /\ f2.shared = file.shared
  /\ f2.exists /\ Dated(f2.lines) /\ (f2.end = "open" => f2.lines # <<>>)
  /\ \A l \in ToSet(file.lines) : l \in ToSet(f2.lines) \/ l.id \in f2.lost

LEMMA LossSound ==
  ASSUME IInv, NEW p, NEW f, NEW m, NEW file, NEW m2, NEW f2, Loses(p, f, m, file, m2, f2)
  PROVE  IInv'
<1> USE DEF Loses
<1>1. Typed /\ p \in Processes /\ MemorySound(p) /\ m.lines \in Seq(Lines)
  BY DEF IInv, Alive, Sessions
<1>2. /\ disk'[f] = f2 /\ mem'[p] = m2
      /\ \A g \in Files \ {f} : disk'[g] = disk[g]
      /\ \A q \in Processes \ {p} : mem'[q] = mem[q]
      /\ disk' \in [Files -> DiskFiles] /\ mem' \in [Processes -> Sessions]
  BY <1>1 DEF Typed
<1>3. Alive' = Alive
  BY <1>1, <1>2 DEF Alive
<1>4. Typed'
  <2>1. \A q \in Alive : mem'[q].file \in Files
    BY <1>1, <1>2 DEF Typed, Alive
  <2>2. \A q \in Processes : ~(mem'[q].next = 0 /\ ~mem'[q].anew) => q \in Alive
    BY <1>1, <1>2 DEF Typed, Idle
  <2> QED BY <1>1, <1>2, <1>3, <2>1, <2>2 DEF Typed, Idle
<1>5. Later /\ Grown
  <2>1. Later
    BY <1>1, SessionTreeAssumption DEF Typed, Later
  <2> QED BY <1>2, <2>1 DEF Grown
<1>6. Touches(p, f)
  <2> SUFFICES ASSUME NEW q \in Alive \ {p}
               PROVE  /\ mem[q].file = f => Undisturbed(q, file, f2)
                      /\ ApartFrom(p, q)' /\ ApartFrom(q, p)'
    BY <1>2, <1>4, <1>5 DEF Touches
  <2>1. Undisturbed(q, file, f2)
    BY DEF Undisturbed
  <2>2. q \in Processes \ {p}
    BY DEF Alive
  <2> HIDE DEF Unstored, Stored
  <2>3. ApartFrom(p, q)' /\ ApartFrom(q, p)'
    BY ONLY <1>2, <2>2, m2.file = f, f2.lost # {} DEF ApartFrom, Intact
  <2> QED BY <2>1, <2>3
<1>7. FileSound(f)'
  <2>1. Dated(f2.lines)'
    BY DEF Dated
  <2> QED BY ONLY <1>2, <2>1, f2.lost # {}, f2.exists, f2.end = "open" => f2.lines # <<>>
             DEF FileSound, Intact
<1>8. MemorySound(p)'
  <2>1. Dated(m.lines)'
    BY <1>1, <1>5, DatedStays DEF MemorySound
  <2>2. HasHeader(m.lines) /\ m.leaf \in IdsOf(m.lines) \cup {Root}
    BY <1>1 DEF MemorySound
  <2> QED BY ONLY <1>2, <2>1, <2>2, m2.lines = m.lines, m2.leaf = m.leaf, m2.file = f,
                  Writing(m2), f2.lost # {} DEF MemorySound, Intact
<1> QED BY <1>1, <1>6, <1>7, <1>8, TouchSound

LEMMA WriteFailsSound ==
  ASSUME IInv, NEW p \in Processes, WriteFails(p)
  PROVE  IInv' /\ Kept
<1> PICK m \in Sessions : m = mem[p]
  BY DEF IInv, Typed
<1>0. Typed /\ p \in Alive /\ m.next # 0 /\ m.alive
  BY DEF IInv, Typed, WriteFails, Idle, Alive
<1> PICK f \in Files : f = m.file
  BY <1>0 DEF Typed
<1> PICK file \in DiskFiles : file = disk[f]
  BY <1>0 DEF Typed
<1> PICK n \in Nat : n = m.next
  BY DEF Sessions
<1> PICK line : line = m.lines[n]
  OBVIOUS
<1> PICK ids : ids = {m.lines[i].id : i \in n..Len(m.lines)}
  OBVIOUS
<1>1. /\ lastId' = lastId /\ mem' = [mem EXCEPT ![p].next = 0]
      /\ \E end \in {"create", "part", "open"} :
           disk' = [disk EXCEPT ![f] = [Extended(file, line, end) EXCEPT !.lost = @ \cup ids]]
  <2>1. /\ lastId' = lastId /\ mem' = [mem EXCEPT ![p].next = 0]
        /\ \E end \in {"create", "part", "open"} :
             disk' = [disk EXCEPT ![mem[p].file] =
               [Extended(disk[mem[p].file], mem[p].lines[mem[p].next], end) EXCEPT
                  !.lost = @ \cup {mem[p].lines[i].id : i \in mem[p].next..Len(mem[p].lines)}]]
    BY Zenon DEF WriteFails
  <2>2. mem[p].file = f /\ disk[f] = file /\ mem[p].lines[mem[p].next] = line
        /\ {mem[p].lines[i].id : i \in mem[p].next..Len(mem[p].lines)} = ids
    OBVIOUS
  <2> QED BY ONLY <2>1, <2>2
<1> PICK end \in {"create", "part", "open"} :
           disk' = [disk EXCEPT ![f] = [Extended(file, line, end) EXCEPT !.lost = @ \cup ids]]
  BY <1>1
<1> PICK f1 : f1 = Extended(file, line, end)
  OBVIOUS
<1> PICK f2 : f2 = [f1 EXCEPT !.lost = f1.lost \cup ids]
  OBVIOUS
<1> PICK m2 : m2 = [m EXCEPT !.next = 0]
  OBVIOUS
<1>2. /\ MemorySound(p) /\ Writing(m) /\ Dated(m.lines)
      /\ FileSound(f) /\ Dated(file.lines)
      /\ m.lines \in Seq(Lines) /\ file.lines \in Seq(Lines)
  BY <1>0 DEF IInv, MemorySound, FileSound, Sessions, DiskFiles
<1>3. n \in 1..Len(m.lines) /\ line \in Lines /\ line \in ToSet(m.lines)
  <2>1. n \in 1..Len(m.lines)
    BY ONLY <1>0, <1>2, n \in Nat, n = m.next DEF Writing
  <2>2. n \in DOMAIN m.lines
    BY <1>2, <2>1, LenProperties
  <2> QED BY <1>2, <2>1, <2>2, ElementOfSeq DEF ToSet
<1>4. ids \in SUBSET Nat
  <2> PICK k \in Nat : k = Len(m.lines)
    BY <1>2, LenProperties
  <2>1. \A i \in n..k : i \in 1..k
    BY ONLY <1>3, k \in Nat, k = Len(m.lines)
  <2>2. \A i \in 1..k : m.lines[i] \in Lines
    BY <1>2, ElementOfSeq
  <2>3. \A i \in n..k : m.lines[i].id \in Nat
    BY ONLY <2>1, <2>2 DEF Lines
  <2> SUFFICES ASSUME NEW x \in ids PROVE x \in Nat
    OBVIOUS
  <2> PICK i \in n..k : x = m.lines[i].id
    BY Zenon
  <2> QED BY <2>3
<1>5. Longer(file, line, end, f1)
  <2>1. end \in Ends \cup {"create"}
    BY DEF Ends
  <2> QED BY <1>2, <1>3, <2>1, ExtendedIs DEF FileSound
<1>6. /\ f1 \in DiskFiles /\ f1.exists = TRUE /\ f1.bare = file.bare /\ f1.shared = file.shared
      /\ file.lost \subseteq f1.lost /\ line.id \in f1.lost
      /\ f1.end = "open" => f1.lines # <<>>
      /\ ToSet(f1.lines) \subseteq ToSet(file.lines) \cup {line}
      /\ \A l \in ToSet(file.lines) : l \in ToSet(f1.lines) \/ l.id \in f1.lost
      /\ \A l \in ToSet(Load(file)) : l \in ToSet(Load(f1)) \/ l \in Unended(file)
  BY <1>5 DEF Longer
<1>7. /\ f2 \in DiskFiles /\ f2.exists = TRUE /\ f2.bare = f1.bare /\ f2.shared = f1.shared
      /\ f2.lines = f1.lines /\ f2.end = f1.end /\ f2.lost = f1.lost \cup ids
  BY ONLY <1>4, <1>6, f2 = [f1 EXCEPT !.lost = f1.lost \cup ids] DEF DiskFiles
<1>8. disk' = [disk EXCEPT ![f] = f2]
  <2>1. f2 = [f1 EXCEPT !.lost = @ \cup ids]
    BY <1>6 DEF DiskFiles
  <2> QED BY <2>1
<1>9. mem' = [mem EXCEPT ![p] = m2]
  BY <1>0, <1>1 DEF Typed
<1>10. /\ m2 \in Sessions /\ m2.alive /\ m2.file = f /\ m2.lines = m.lines /\ m2.leaf = m.leaf
       /\ m2.next = 0
  BY <1>0 DEF Sessions
<1>11. Writing(m2)
  <2> PICK k \in Nat : k = Len(m.lines)
    BY <1>2, LenProperties
  <2>1. m2.next \in 0..Len(m2.lines)
    BY ONLY <1>10, k \in Nat, k = Len(m.lines)
  <2> QED BY ONLY <1>10, <2>1 DEF Writing
<1>12. Dated(f2.lines)
  <2>1. \A l \in ToSet(f2.lines) : l \in ToSet(file.lines) \/ l \in ToSet(m.lines)
    BY ONLY <1>3, <1>6, <1>7
  <2>2. Dated(file.lines) /\ Dated(m.lines)
    BY <1>2
  <2> QED BY ONLY <2>1, <2>2 DEF Dated
<1>13. IInv'
  <2>1. /\ f2.lost # {} /\ file.lost \subseteq f2.lost /\ f2.bare = file.bare
        /\ f2.shared = file.shared /\ f2.exists /\ (f2.end = "open" => f2.lines # <<>>)
        /\ \A l \in ToSet(file.lines) : l \in ToSet(f2.lines) \/ l.id \in f2.lost
    BY <1>6, <1>7
  <2>2. lastId' = lastId
    BY <1>1
  <2>3. Loses(p, f, m, file, m2, f2)
    BY ONLY <1>0, <1>7, <1>8, <1>9, <1>10, <1>11, <1>12, <2>1, <2>2,
            m \in Sessions, m = mem[p], f \in Files, f = m.file, file \in DiskFiles,
            file = disk[f] DEF Loses
  <2> QED BY ONLY IInv, <2>3, LossSound
<1>14. Kept
  <2>1. disk'[f].lines = f1.lines /\ \A g \in Files \ {f} : disk'[g] = disk[g]
    BY <1>0, <1>7, <1>8 DEF Typed
  <2>2. Load(disk'[f]) = Load(f1)
    BY <2>1 DEF Load
  <2> QED BY <1>6, <2>1, <2>2 DEF Kept
<1> QED BY <1>13, <1>14

LEMMA WriteAnewSound ==
  ASSUME IInv, NEW p \in Processes, WriteAnew(p)
  PROVE  IInv' /\ Kept
<1> PICK m \in Sessions : m = mem[p]
  BY DEF IInv, Typed
<1>0. Typed /\ p \in Alive /\ m.anew /\ m.alive
  BY DEF IInv, Typed, WriteAnew, Idle, Alive
<1> PICK f \in Files : f = m.file
  BY <1>0 DEF Typed
<1> PICK file \in DiskFiles : file = disk[f]
  BY <1>0 DEF Typed
<1> PICK gone : gone = IdsOf(file.lines)
  OBVIOUS
<1> PICK f2 : f2 = [file EXCEPT !.exists = TRUE, !.lines = <<Header>>, !.end = "whole",
                                !.lost = file.lost \cup gone]
  OBVIOUS
<1> PICK m2 : m2 = [m EXCEPT !.anew = FALSE, !.found = {}]
  OBVIOUS
<1>1. lastId' = lastId /\ disk' = [disk EXCEPT ![f] = f2] /\ mem' = [mem EXCEPT ![p] = m2]
  <2>1. /\ lastId' = lastId
        /\ disk' = [disk EXCEPT ![f] =
             [disk[f] EXCEPT !.exists = TRUE, !.lines = <<Header>>, !.end = "whole",
                             !.lost = @ \cup IdsOf(disk[f].lines)]]
        /\ mem' = [mem EXCEPT ![p].anew = FALSE, ![p].found = {}]
    BY Zenon DEF WriteAnew
  <2>2. mem' = [mem EXCEPT ![p] = m2]
    BY <1>0, <2>1 DEF Typed
  <2>3. f2 = [file EXCEPT !.exists = TRUE, !.lines = <<Header>>, !.end = "whole",
                          !.lost = @ \cup IdsOf(file.lines)]
    BY ONLY file \in DiskFiles, gone = IdsOf(file.lines),
            f2 = [file EXCEPT !.exists = TRUE, !.lines = <<Header>>, !.end = "whole",
                              !.lost = file.lost \cup gone] DEF DiskFiles
  <2>4. disk' = [disk EXCEPT ![f] = f2]
    <3>1. f2 = [disk[f] EXCEPT !.exists = TRUE, !.lines = <<Header>>, !.end = "whole",
                               !.lost = @ \cup IdsOf(disk[f].lines)]
      BY ONLY <2>3, file = disk[f]
    <3> QED BY ONLY <2>1, <3>1
  <2> QED BY <2>1, <2>2, <2>4
<1>2. /\ MemorySound(p) /\ Writing(m) /\ Dated(m.lines) /\ HasHeader(m.lines)
      /\ m.leaf \in IdsOf(m.lines) \cup {Root} /\ m.next = 0
      /\ FileSound(f) /\ Dated(file.lines)
      /\ m.lines \in Seq(Lines) /\ file.lines \in Seq(Lines)
  BY <1>0 DEF IInv, MemorySound, FileSound, Sessions, DiskFiles, Writing
<1>3. gone \in SUBSET Nat
  BY <1>2, LinesIn
<1>4. /\ f2 \in DiskFiles /\ f2.exists = TRUE /\ f2.bare = file.bare /\ f2.shared = file.shared
      /\ f2.lines = <<Header>> /\ f2.end = "whole" /\ f2.lost = file.lost \cup gone
  BY ONLY <1>3, HeaderType, file \in DiskFiles,
          f2 = [file EXCEPT !.exists = TRUE, !.lines = <<Header>>, !.end = "whole",
                            !.lost = file.lost \cup gone] DEF DiskFiles, Ends
<1>5. /\ m2 \in Sessions /\ m2.alive /\ m2.file = f /\ m2.lines = m.lines /\ m2.leaf = m.leaf
      /\ m2.next = 0 /\ m2.anew = FALSE /\ m2.flushed = m.flushed /\ m2.labels = m.labels
  BY <1>0, <1>2 DEF Sessions
<1>6. Writing(m2)
  BY <1>2, <1>5, LenProperties DEF Writing
<1>7. /\ disk'[f] = f2 /\ mem'[p] = m2
      /\ \A g \in Files \ {f} : disk'[g] = disk[g]
      /\ \A q \in Processes \ {p} : mem'[q] = mem[q]
  BY <1>0, <1>1 DEF Typed
<1>8. Kept
  <2>1. \A line : WrittenAnew(f, line)
    BY <1>0, <1>5, <1>7 DEF WrittenAnew, Typed, Sessions
  <2> QED BY <1>7, <2>1 DEF Kept
<1>9. Dated(f2.lines) /\ HasHeader(f2.lines) /\ ToSet(f2.lines) = {Header}
  BY <1>4, HeaderHasHeader
<1>10. \A l \in ToSet(file.lines) : l \in ToSet(f2.lines) \/ l.id \in f2.lost
  <2> TAKE l \in ToSet(file.lines)
  <2>1. CASE l.kind = "session"
    BY <1>2, <1>9, <2>1 DEF Dated
  <2>2. CASE l.kind # "session"
    BY <1>4, <2>2 DEF IdsOf, Entries
  <2> QED BY <2>1, <2>2
<1>11. CASE f2.lost # {}
  <2>1. file.lost \subseteq f2.lost /\ (f2.end = "open" => f2.lines # <<>>)
    BY <1>4
  <2>2. IInv'
    <3>1. Loses(p, f, m, file, m2, f2)
      BY ONLY <1>0, <1>1, <1>4, <1>5, <1>6, <1>9, <1>10, <1>11, <2>1, p \in Alive, m \in Sessions,
              m = mem[p], f \in Files, f = m.file, file \in DiskFiles, file = disk[f] DEF Loses
    <3> QED BY ONLY IInv, <3>1, LossSound
  <2> QED BY <1>8, <2>2
<1>12. CASE f2.lost = {}
  <2>1. file.lost = {} /\ gone = {} /\ OnDisk(p)
    BY <1>2, <1>4, <1>12 DEF MemorySound, Intact
  <2>2. m.lines = <<Header>> /\ file.bare
    BY <1>0, <2>1 DEF OnDisk
  <2>3. ToSet(file.lines) \subseteq {Header}
    BY <1>9, <1>10, <1>12
  <2>4. Load(f2) = f2.lines
    BY <1>4, <1>9, LoadIs
  <2>5. ToSet(Load(file)) \subseteq ToSet(Load(f2))
    <3>1. ToSet(Load(file)) \subseteq ToSet(file.lines)
      BY LoadIs
    <3> QED BY <1>9, <2>3, <2>4, <3>1
  <2>6. Alive' = Alive
    BY ONLY <1>0, <1>5, <1>7, m = mem[p], p \in Processes DEF Alive
  <2>7. Typed'
    <3>1. disk' \in [Files -> DiskFiles] /\ mem' \in [Processes -> Sessions]
      <4>1. disk' = [disk EXCEPT ![f] = f2] /\ mem' = [mem EXCEPT ![p] = m2]
        BY <1>1
      <4> QED BY ONLY <1>0, <4>1, f \in Files, p \in Processes, <1>4, <1>5 DEF Typed
    <3>2. \A q \in Alive : mem'[q].file \in Files
      BY ONLY <1>0, <1>5, <1>7, f \in Files DEF Typed, Alive
    <3>3. \A q \in Processes : ~(mem'[q].next = 0 /\ ~mem'[q].anew) => q \in Alive
      BY <1>0, <1>7 DEF Typed, Idle
    <3> QED BY <1>0, <1>1, <2>6, <3>1, <3>2, <3>3 DEF Typed, Idle
  <2>8. Later /\ Grown
    <3>1. Later
      BY <1>0, <1>1, SessionTreeAssumption DEF Typed, Later
    <3>2. file.lost \subseteq f2.lost
      BY <1>4
    <3> QED BY <1>7, <1>10, <3>1, <3>2 DEF Grown
  <2>9. Touches(p, f)
    <3> SUFFICES ASSUME NEW q \in Alive \ {p}
                 PROVE  /\ mem[q].file = f => Undisturbed(q, file, f2)
                        /\ ApartFrom(p, q)' /\ ApartFrom(q, p)'
      BY <1>7, <2>7, <2>8 DEF Touches
    <3>1. Undisturbed(q, file, f2)
      <4>1. f2.lines # <<>>
        BY <1>4
      <4> HIDE DEF Unstored, Stored
      <4> QED BY ONLY <1>4, <2>2, <2>5, <4>1 DEF Undisturbed
    <3>2. q \in Processes \ {p}
      BY DEF Alive
    <3> HIDE DEF Unstored, Stored
    <3>3. ApartFrom(p, q)' /\ ApartFrom(q, p)'
      BY ONLY <1>4, <1>5, <1>7, <2>2, <3>2 DEF ApartFrom, Intact
    <3> QED BY <3>1, <3>3
  <2>10. Dated(<<Header>>)' /\ InOrder(<<Header>>, f)'
    <3>1. Dated(<<Header>>)'
      BY HeaderHasHeader, HeaderType DEF Dated
    <3>2. InOrder(<<Header>>, f)'
      BY <1>0, <2>8, HeaderInOrder, OrderStays
    <3> QED BY <3>1, <3>2
  <2>11. FileSound(f)'
    BY ONLY <1>4, <1>7, <1>9, <2>2, <2>10 DEF FileSound, Intact
  <2>12. OnDisk(p)'
    <3>1. m.labels = LabelsOf(<<Header>>)
      BY <1>2, <2>1, <2>2 DEF OnDisk
    <3>2. ~HasAssistant(<<Header>>)
      BY HeaderHasHeader
    <3>3. \A i \in 1..Stored(m2) : m2.lines[i] \in ToSet(Load(f2))
      <4>1. Stored(m2) \in {0, 1}
        BY ONLY <1>5, <2>2 DEF Stored
      <4>2. \A i \in 1..Stored(m2) : i = 1
        BY <4>1
      <4>3. m2.lines[1] = Header
        BY <1>5, <2>2
      <4> QED BY <1>9, <2>4, <4>2, <4>3
    <3>4. f2.lines # <<>>
      BY <1>4
    <3> HIDE DEF LabelsOf, Stored
    <3> QED BY ONLY <1>5, <1>7, <2>2, <2>10, <3>1, <3>2, <3>3, <3>4 DEF OnDisk
  <2>13. MemorySound(p)'
    BY ONLY <1>2, <1>4, <1>5, <1>6, <1>7, <2>2, <2>10, <2>12 DEF MemorySound, Intact
  <2>14. IInv'
    BY <1>0, <2>9, <2>11, <2>13, TouchSound
  <2> QED BY <1>8, <2>14
<1> QED BY <1>11, <1>12

-----------------------------------------------------------------------------
(* Opening                                                                   *)

LEMMA FreshIs ==
  ASSUME NEW name \in Files
  PROVE  LET m == FreshSession(name) IN
         /\ m \in Sessions /\ m.alive /\ m.file = name /\ m.lines = <<Header>>
         /\ m.leaf = Root /\ m.labels = {} /\ m.flushed = FALSE
         /\ m.next = 0 /\ m.anew = FALSE /\ m.found = {}
         /\ m.expected = {} /\ m.expectedLabels = {}
BY HeaderType DEF FreshSession, Dead, Sessions, Root

(* What a process has of a file it opens.                                    *)
LEMMA OpenedIs ==
  ASSUME NEW name \in Files, NEW file \in DiskFiles
  PROVE  LET m == Opened(name, file) IN
         /\ m \in Sessions /\ m.alive /\ m.file = name
         /\ m.lines = IF file.exists /\ Load(file) # <<>> THEN Load(file) ELSE <<Header>>
         /\ m.leaf \in IdsOf(m.lines) \cup {Root} /\ m.labels = LabelsOf(m.lines)
         /\ m.flushed = file.exists
         /\ m.next = 0 /\ m.anew = Hopeless(file) /\ m.found = {}
         /\ m.expected = {} /\ m.expectedLabels = {}
<1> PICK m : m = Opened(name, file)
  OBVIOUS
<1> PICK new : new = FreshSession(name)
  OBVIOUS
<1>1. /\ new \in Sessions /\ new.alive /\ new.file = name /\ new.lines = <<Header>>
      /\ new.leaf = Root /\ new.labels = {} /\ new.flushed = FALSE
      /\ new.next = 0 /\ new.anew = FALSE /\ new.found = {}
      /\ new.expected = {} /\ new.expectedLabels = {}
  BY FreshIs
<1>2. Load(file) \in Seq(Lines) /\ file.exists \in BOOLEAN
  BY LoadIs DEF DiskFiles
<1>3. CASE ~file.exists
  <2>1. m = new
    BY <1>3, Zenon DEF Opened
  <2>2. Hopeless(file) = FALSE
    BY <1>3 DEF Hopeless
  <2> QED BY <1>1, <1>2, <1>3, <2>1, <2>2, LabelsOfHeader
<1>4. CASE file.exists /\ Load(file) = <<>>
  <2>1. Hopeless(file) = TRUE /\ ToSet(Load(file)) = {}
    BY <1>4 DEF Hopeless, ToSet
  <2>2. m = [new EXCEPT !.flushed = TRUE, !.anew = TRUE, !.found = ToSet(Load(file))]
    BY <1>4, <2>1, Zenon DEF Opened
  <2>3. m = [new EXCEPT !.flushed = TRUE, !.anew = TRUE, !.found = {}]
    BY <2>1, <2>2
  <2>4. /\ m \in Sessions /\ m.alive /\ m.file = name /\ m.lines = <<Header>>
        /\ m.leaf = Root /\ m.labels = {} /\ m.flushed = TRUE
        /\ m.next = 0 /\ m.anew = TRUE /\ m.found = {}
        /\ m.expected = {} /\ m.expectedLabels = {}
    BY ONLY <1>1, <2>3 DEF Sessions
  <2> QED BY <1>4, <2>1, <2>4, LabelsOfHeader
<1>5. CASE file.exists /\ Load(file) # <<>>
  <2> PICK lines \in Seq(Lines) : lines = Load(file)
    BY <1>2
  <2> PICK leaf : leaf = LeafOf(lines)
    OBVIOUS
  <2> PICK labels \in SUBSET Nat : labels = LabelsOf(lines)
    BY LabelsType
  <2>0. Hopeless(file) = FALSE
    BY <1>5 DEF Hopeless
  <2>1. leaf \in IdsOf(lines) \cup {Root} /\ leaf \in Nat
    BY LeafIn, LinesIn DEF Root
  <2>2. m = [new EXCEPT !.lines = lines, !.leaf = leaf, !.labels = labels, !.flushed = TRUE]
    BY <1>5, <2>0, Zenon DEF Opened
  <2>3. /\ m \in Sessions /\ m.alive /\ m.file = name /\ m.lines = lines
        /\ m.leaf = leaf /\ m.labels = labels /\ m.flushed = TRUE
        /\ m.next = 0 /\ m.anew = FALSE /\ m.found = {}
        /\ m.expected = {} /\ m.expectedLabels = {}
    BY ONLY <1>1, <2>1, <2>2, lines \in Seq(Lines), labels \in SUBSET Nat DEF Sessions
  <2> QED BY <1>5, <2>0, <2>1, <2>3
<1> QED BY <1>3, <1>4, <1>5

(* A process that has just read its file.                                    *)
LEMMA HasRead ==
  ASSUME NEW p, NEW name \in Files, NEW file \in DiskFiles, NEW f2 \in DiskFiles,
         NEW m \in Sessions, NEW o, o = Opened(name, file), m.file = o.file,
         m.lines = o.lines, m.leaf = o.leaf, m.labels = o.labels, m.flushed = o.flushed,
         m.next = o.next, m.anew = o.anew, mem'[p] = m, disk'[name] = f2,
         FileSound(name)', f2.exists = file.exists, f2.lines = file.lines,
         file.exists => f2.bare \/ HasAssistant(Load(file))
  PROVE  MemorySound(p)' /\ Unstored(m) = {} /\ (Stored(m) = 0 => ~file.exists)
<1>1. /\ m.file = name
      /\ m.lines = IF file.exists /\ Load(file) # <<>> THEN Load(file) ELSE <<Header>>
      /\ m.leaf \in IdsOf(m.lines) \cup {Root} /\ m.labels = LabelsOf(m.lines)
      /\ m.flushed = file.exists /\ m.next = 0 /\ m.anew = Hopeless(file)
  BY ONLY OpenedIs, name \in Files, file \in DiskFiles, o = Opened(name, file),
          m.file = o.file, m.lines = o.lines, m.leaf = o.leaf, m.labels = o.labels,
          m.flushed = o.flushed, m.next = o.next, m.anew = o.anew
<1>2. file.exists \in BOOLEAN /\ Load(f2) = Load(file) /\ m.lines \in Seq(Lines)
  BY DEF DiskFiles, Load, Sessions
<1>3. ~HasAssistant(<<>>)
  BY DEF HasAssistant
<1>4. \A i \in DOMAIN m.lines : i \in 1..Len(m.lines)
  BY <1>2, LenProperties
<1>5. CASE file.exists /\ Load(file) # <<>>
  <2>1. HasHeader(file.lines) /\ m.lines = file.lines /\ Load(file) = file.lines
    BY <1>1, <1>5, LoadIs
  <2>2. m.anew = FALSE /\ m.flushed = TRUE
    BY <1>1, <1>5 DEF Hopeless
  <2>3. Stored(m) = Len(m.lines)
    BY ONLY <1>1, <2>2 DEF Stored
  <2>4. Unstored(m) = {}
    <3>1. \A i \in DOMAIN m.lines : ~(i > Len(m.lines))
      BY <1>2, <1>4, LenProperties
    <3> QED BY ONLY <2>3, <3>1 DEF Unstored
  <2>5. Stored(m) # 0 /\ Len(m.lines) \in Nat
    <3>1. m.lines # <<>>
      BY <2>1 DEF HasHeader
    <3> QED BY <1>2, <2>3, <3>1, EmptySeq, LenProperties
  <2>6. Dated(m.lines)' /\ HasHeader(m.lines)
    BY <2>1 DEF FileSound
  <2>7. f2.lost = {} => InOrder(m.lines, name)'
    BY <2>1 DEF FileSound, Intact
  <2>8. f2.lost = {} /\ ~f2.bare => Once(m.lines, TRUE)
    BY <2>1 DEF FileSound, Intact, Once
  <2>9. \A i \in 1..Stored(m) : m.lines[i] \in ToSet(Load(f2))
    <3>1. 1..Len(m.lines) = DOMAIN m.lines
      BY <1>2, LenProperties
    <3> QED BY ONLY <1>2, <2>1, <2>3, <3>1 DEF ToSet
  <2>10. f2.lost = {} => OnDisk(p)'
    <3> HIDE DEF LabelsOf, Stored
    <3>1. f2.lines # <<>>
      BY <2>1 DEF HasHeader
    <3> QED BY ONLY <1>1, <2>2, <2>7, <2>9, <3>1, mem'[p] = m, disk'[name] = f2 DEF OnDisk
  <2>11. f2.lost = {} /\ ~f2.bare => OnceOnly(p)'
    <3>1. \A i \in DOMAIN m.lines : ~(i > Stored(m))
      BY <1>2, <1>4, <2>3, LenProperties
    <3>2. ~f2.bare => HasAssistant(m.lines)
      BY <1>5, <2>1
    <3> HIDE DEF Stored, Unstored
    <3> QED BY ONLY <1>1, <2>4, <2>5, <2>8, <3>1, <3>2, mem'[p] = m, disk'[name] = f2 DEF OnceOnly
  <2>12. Writing(m)
    BY ONLY <1>1, <2>5 DEF Writing
  <2> QED BY ONLY <1>1, <1>5, <2>4, <2>5, <2>6, <2>10, <2>11, <2>12, mem'[p] = m, disk'[name] = f2
             DEF MemorySound, Intact
<1>6. CASE ~(file.exists /\ Load(file) # <<>>)
  <2>1. m.lines = <<Header>>
    BY <1>1, <1>6
  <2>2. /\ Dated(<<Header>>)' /\ HasHeader(<<Header>>) /\ InOrder(<<Header>>, name)'
        /\ Once(<<Header>>, TRUE) /\ ~HasAssistant(<<Header>>) /\ LabelsOf(<<Header>>) = {}
    <3>1. Dated(<<Header>>)'
      BY HeaderHasHeader, HeaderType DEF Dated
    <3>2. InOrder(<<Header>>, name)'
      <4>1. DOMAIN <<Header>> = {1} /\ <<Header>>[1].parent = Root
        BY DEF Header
      <4> QED BY <4>1 DEF InOrder
    <3> QED BY <3>1, <3>2, HeaderHasHeader, HeaderInOrder, LabelsOfHeader
  <2>3. Entries(<<Header>>) = {} /\ DOMAIN <<Header>> = {1} /\ Len(<<Header>>) = 1
    BY HeaderHasHeader, HeaderType DEF Entries
  <2>4. Unstored(m) = {}
    BY <2>1, <2>3 DEF Unstored
  <2>5. Stored(m) = IF file.exists THEN 1 ELSE 0
    BY ONLY <1>1, <1>2, <2>1, <2>3 DEF Stored
  <2>6. Writing(m)
    BY ONLY <1>1, <2>1, <2>3 DEF Writing
  <2>7. f2.lost = {} => OnDisk(p)'
    <3>1. m.anew = file.exists
      BY <1>1, <1>2, <1>6 DEF Hopeless
    <3>2. file.exists => f2.bare
      BY <1>3, <1>6
    <3>3. ~file.exists => \A i \in 1..Stored(m) : FALSE
      BY ONLY <2>5
    <3> HIDE DEF LabelsOf, Stored
    <3> QED BY ONLY <1>1, <2>1, <2>2, <3>1, <3>2, <3>3, mem'[p] = m, disk'[name] = f2,
                    f2.exists = file.exists DEF OnDisk
  <2>8. f2.lost = {} /\ ~f2.bare => OnceOnly(p)'
    <3>1. ~f2.bare => ~file.exists
      BY <1>3, <1>6
    <3> HIDE DEF Stored, Unstored
    <3> QED BY ONLY <1>1, <2>1, <2>2, <2>3, <2>4, <3>1, mem'[p] = m, disk'[name] = f2,
                    f2.exists = file.exists DEF OnceOnly
  <2> QED BY ONLY <1>1, <2>1, <2>2, <2>4, <2>5, <2>6, <2>7, <2>8, mem'[p] = m, disk'[name] = f2
             DEF MemorySound, Intact
<1> QED BY <1>5, <1>6

LEMMA OpenSound ==
  ASSUME IInv, NEW p \in Processes, NEW name \in Files, Open(p, name)
  PROVE  IInv'
<1>1. Typed /\ lastId' = lastId
  BY DEF IInv, Open
<1> PICK file \in DiskFiles : file = disk[name]
  BY <1>1 DEF Typed
<1> PICK used \in BOOLEAN : used = InUse(name, Processes \ {p})
  BY DEF InUse
<1> PICK bare \in BOOLEAN : bare = (file.bare \/ (file.exists /\ ~HasAssistant(Load(file))))
  OBVIOUS
<1> PICK shared \in BOOLEAN : shared = (file.shared \/ (~file.exists /\ used))
  OBVIOUS
<1> PICK f2 : f2 = [file EXCEPT !.bare = bare, !.shared = shared]
  OBVIOUS
<1> PICK m : m = Opened(name, file)
  OBVIOUS
<1>2. /\ f2 \in DiskFiles /\ f2.exists = file.exists /\ f2.lost = file.lost
      /\ f2.lines = file.lines /\ f2.end = file.end /\ f2.bare = bare /\ f2.shared = shared
  BY ONLY file \in DiskFiles, bare \in BOOLEAN, shared \in BOOLEAN,
          f2 = [file EXCEPT !.bare = bare, !.shared = shared] DEF DiskFiles
<1>3. /\ m \in Sessions /\ m.alive /\ m.file = name
      /\ m.lines = IF file.exists /\ Load(file) # <<>> THEN Load(file) ELSE <<Header>>
      /\ m.next = 0
  BY OpenedIs
<1>4. disk' = [disk EXCEPT ![name] = f2] /\ mem' = [mem EXCEPT ![p] = m]
  <2>1. /\ mem' = [mem EXCEPT ![p] = Opened(name, disk[name])]
        /\ disk' = [disk EXCEPT
             ![name].bare = @ \/ (disk[name].exists /\ ~HasAssistant(Load(disk[name]))),
             ![name].shared = @ \/ (~disk[name].exists /\ InUse(name, Processes \ {p}))]
    BY Zenon DEF Open
  <2> QED BY <1>1, <2>1 DEF Typed, DiskFiles
<1>5. /\ disk' \in [Files -> DiskFiles] /\ mem' \in [Processes -> Sessions]
      /\ disk'[name] = f2 /\ mem'[p] = m
      /\ \A f \in Files \ {name} : disk'[f] = disk[f]
      /\ \A q \in Processes \ {p} : mem'[q] = mem[q]
  BY <1>1, <1>2, <1>3, <1>4 DEF Typed
<1>6. Alive' = Alive \cup {p}
  BY <1>3, <1>5 DEF Alive
<1>7. Typed'
  <2>1. \A q \in Alive' : mem'[q].file \in Files
    BY ONLY <1>1, <1>3, <1>5, <1>6, name \in Files DEF Typed, Alive
  <2>2. \A q \in Processes : ~(mem'[q].next = 0 /\ ~mem'[q].anew) => q \in Alive'
    BY ONLY <1>1, <1>5, <1>6 DEF Typed, Idle
  <2> QED BY ONLY <1>1, <1>5, <2>1, <2>2 DEF Typed, Idle
<1>8. Later
  BY <1>1, SessionTreeAssumption DEF Typed, Later
<1>9. Grown
  BY <1>2, <1>5 DEF Grown
<1>10. Load(f2) = Load(file)
  BY <1>2 DEF Load
<1>11. FileSound(name)'
  <2>1. FileSound(name) /\ file.lines \in Seq(Lines)
    BY DEF IInv, DiskFiles
  <2>2. Dated(file.lines)'
    BY <1>1, <1>8, <2>1, DatedStays DEF FileSound
  <2>3. InOrder(file.lines, name) => InOrder(file.lines, name)'
    BY <1>1, <1>9, OrderStays
  <2>4. file.lost = {} /\ ~bare => Once(file.lines, shared)
    BY <2>1 DEF FileSound, Intact, Once
  <2>5. /\ ~file.exists => file.lines = <<>>
        /\ file.end = "open" => file.lines # <<>>
        /\ file.lost = {} /\ file.lines # <<>> => HasHeader(file.lines)
        /\ file.lost = {} => InOrder(file.lines, name)
    BY <2>1 DEF FileSound, Intact
  <2> QED BY ONLY <1>2, <1>5, <2>2, <2>3, <2>4, <2>5 DEF FileSound, Intact
<1>12. MemorySound(p)' /\ Unstored(m) = {} /\ (Stored(m) = 0 => ~file.exists)
  <2>1. file.exists => f2.bare \/ HasAssistant(Load(file))
    BY <1>2
  <2> PICK o : o = Opened(name, file)
    OBVIOUS
  <2>2. /\ m.file = o.file /\ m.lines = o.lines /\ m.leaf = o.leaf /\ m.labels = o.labels
        /\ m.flushed = o.flushed /\ m.next = o.next /\ m.anew = o.anew
    OBVIOUS
  <2>3. /\ m \in Sessions /\ f2 \in DiskFiles /\ f2.exists = file.exists /\ f2.lines = file.lines
        /\ mem'[p] = m /\ disk'[name] = f2
    BY <1>2, <1>3, <1>5
  <2> QED BY ONLY <1>11, <2>1, <2>2, <2>3, HasRead, name \in Files, file \in DiskFiles,
                  o = Opened(name, file)
<1>13. Touches(p, name)
  <2> SUFFICES ASSUME NEW q \in Alive \ {p}
               PROVE  /\ mem[q].file = name => Undisturbed(q, file, f2)
                      /\ ApartFrom(p, q)' /\ ApartFrom(q, p)'
    BY <1>5, <1>7, <1>8, <1>9 DEF Touches
  <2> PICK o \in Sessions : o = mem[q]
    BY <1>1 DEF Typed, Alive
  <2>1. q \in Processes \ {p} /\ mem'[q] = o
    BY <1>5 DEF Alive
  <2>2. Undisturbed(q, file, f2)
    <3>1. FileSound(name)
      BY DEF IInv
    <3>2. /\ file.bare => bare
          /\ file.shared => shared
      OBVIOUS
    <3> HIDE DEF Unstored, Stored
    <3>3. f2.exists => f2.lines # <<>> \/ (file.exists /\ file.lines = <<>>)
      BY <1>2
    <3> QED BY ONLY <1>2, <1>10, <3>2, <3>3 DEF Undisturbed
  <2>3. o.file = name => used
    BY <2>1 DEF InUse
  <2>4. ASSUME o.file = name, f2.lost = {}, ~bare
        PROVE  /\ Stored(m) = 0 => shared
               /\ \A l \in Unstored(o) : l \notin ToSet(m.lines)
               /\ Stored(o) = 0 => shared
    <3>1. OnceOnly(q)
      BY <1>2, <2>4 DEF IInv, MemorySound, Intact
    <3>2. \A l \in Unstored(o) : l \notin ToSet(file.lines) /\ l # Header
      BY <2>4, <3>1, HeaderType DEF OnceOnly, Unstored, Entries
    <3>3. ToSet(m.lines) \subseteq ToSet(file.lines) \cup {Header}
      BY <1>3, HeaderHasHeader, LoadIs
    <3>4. Stored(o) = 0 /\ ~file.shared => ~file.exists
      BY <2>4, <3>1 DEF OnceOnly
    <3>5. Stored(m) = 0 => shared
      BY <1>12, <2>3, <2>4
    <3>6. Stored(o) = 0 => shared
      BY <2>3, <2>4, <3>4
    <3> QED BY ONLY <3>2, <3>3, <3>5, <3>6
  <2>5. ApartFrom(p, q)' /\ ApartFrom(q, p)'
    <3> HIDE DEF Unstored, Stored
    <3> QED BY ONLY <1>2, <1>3, <1>5, <1>12, <2>1, <2>4 DEF ApartFrom, Intact
  <2> QED BY <2>2, <2>5
<1> QED BY <1>11, <1>12, <1>13, TouchSound

-----------------------------------------------------------------------------
(* The way to the root                                                       *)

LEMMA Smallest ==
  ASSUME NEW A \in SUBSET Nat, A # {}
  PROVE  \E k \in A : \A l \in A : k <= l
<1>1. PICK k \in A : \A l \in A : ~(<<l, k>> \in OpToRel(<, Nat))
  BY NatLessThanWellFounded, WFMin
<1>2. \A l \in A : k <= l
  <2> TAKE l \in A
  <2>1. l < k => <<l, k>> \in OpToRel(<, Nat)
    BY DEF OpToRel
  <2>2. ~(l < k)
    BY <1>1, <2>1, Zenon
  <2> QED BY <2>2
<1> QED BY <1>2

(* Sets that go with an entry its parent, and the smallest one there is.     *)
ParentOf(lines, i) == LineOf(lines, i).parent
Closed(lines, S) == \A i \in S : ParentOf(lines, i) \in IdsOf(lines) => ParentOf(lines, i) \in S
Above(lines, id) == {S \in SUBSET IdsOf(lines) : Closed(lines, S) /\ (id \in IdsOf(lines) => id \in S)}
Way(lines, id) == {i \in IdsOf(lines) : \A S \in Above(lines, id) : i \in S}

LEMMA WayIs ==
  ASSUME NEW lines, NEW id
  PROVE  /\ Way(lines, id) \in Above(lines, id)
         /\ Way(lines, id) =
              IF id \notin IdsOf(lines) THEN {}
              ELSE {id} \cup Way(lines, ParentOf(lines, id))
<1> PICK ids : ids = IdsOf(lines)
  OBVIOUS
<1>1. \A x : Way(lines, x) \in Above(lines, x)
  BY Zenon DEF Way, Above, Closed
<1>2. CASE id \notin ids
  <2>1. {} \in Above(lines, id)
    BY <1>2 DEF Above, Closed
  <2>2. Way(lines, id) = {}
    BY <2>1 DEF Way
  <2> QED BY <1>1, <1>2, <2>2
<1>3. CASE id \in ids
  <2> PICK up : up = ParentOf(lines, id)
    OBVIOUS
  <2> PICK rest : rest = Way(lines, up)
    OBVIOUS
  <2>1. Way(lines, id) \in Above(lines, up) /\ id \in Way(lines, id)
    BY <1>1, <1>3 DEF Above, Closed
  <2>2. rest \subseteq Way(lines, id)
    BY <2>1 DEF Way
  <2>3. rest \in Above(lines, up)
    BY <1>1
  <2>4. {id} \cup rest \in Above(lines, id)
    BY <1>3, <2>3 DEF Above, Closed
  <2>5. Way(lines, id) \subseteq {id} \cup rest
    BY <2>4 DEF Way
  <2>6. Way(lines, id) = {id} \cup Way(lines, ParentOf(lines, id))
    BY <2>1, <2>2, <2>5
  <2> QED BY <1>1, <1>3, <2>6
<1> QED BY <1>2, <1>3

(* Parents are older, so that the walk ends.                                 *)
Older(lines) ==
  /\ IdsOf(lines) \subseteq 0..MaxEntries
  /\ \A i \in IdsOf(lines) : ParentOf(lines, i) \in Nat /\ ParentOf(lines, i) < i

LEMMA BranchIs ==
  ASSUME NEW lines, Older(lines), NEW id \in 0..MaxEntries
  PROVE  Branch(lines, id) = Way(lines, id)
<1> DEFINE h == CHOOSE f : f = [i \in 0..MaxEntries |->
                                 IF i \notin IdsOf(lines) THEN {}
                                 ELSE {i} \cup f[LineOf(lines, i).parent]]
           g == [i \in 0..MaxEntries |-> Way(lines, i)]
<1>1. Branch(lines, id) = h[id]
  BY DEF Branch
<1>2. \A i \in IdsOf(lines) : ParentOf(lines, i) \in 0..MaxEntries
  BY SessionTreeAssumption DEF Older
<1>3. g = [i \in 0..MaxEntries |->
             IF i \notin IdsOf(lines) THEN {} ELSE {i} \cup g[LineOf(lines, i).parent]]
  <2>1. \A i \in 0..MaxEntries :
          g[i] = IF i \notin IdsOf(lines) THEN {} ELSE {i} \cup g[ParentOf(lines, i)]
    <3> TAKE i \in 0..MaxEntries
    <3>1. Way(lines, i) = IF i \notin IdsOf(lines) THEN {}
                          ELSE {i} \cup Way(lines, ParentOf(lines, i))
      BY WayIs, Zenon
    <3> QED BY <3>1, <1>2
  <2> HIDE DEF g
  <2> PICK k : k = g
    OBVIOUS
  <2>2. k = [i \in 0..MaxEntries |-> k[i]]
    BY DEF g
  <2>3. \A i \in 0..MaxEntries :
          k[i] = IF i \notin IdsOf(lines) THEN {} ELSE {i} \cup k[LineOf(lines, i).parent]
    BY <2>1 DEF ParentOf
  <2>4. k = [i \in 0..MaxEntries |->
             IF i \notin IdsOf(lines) THEN {} ELSE {i} \cup k[LineOf(lines, i).parent]]
    BY <2>2, <2>3
  <2> QED BY <2>4
<1>4. h = [i \in 0..MaxEntries |->
             IF i \notin IdsOf(lines) THEN {} ELSE {i} \cup h[LineOf(lines, i).parent]]
  <2> HIDE DEF g
  <2> QED BY <1>3, Zenon
<1> HIDE DEF h
<1>5. \A i \in 0..MaxEntries :
        h[i] = IF i \notin IdsOf(lines) THEN {} ELSE {i} \cup h[ParentOf(lines, i)]
  BY <1>4 DEF ParentOf
<1>6. \A i \in 0..MaxEntries : h[i] = Way(lines, i)
  <2> DEFINE wrong == {i \in 0..MaxEntries : h[i] # Way(lines, i)}
  <2> SUFFICES ASSUME wrong # {} PROVE FALSE
    OBVIOUS
  <2>1. wrong \in SUBSET Nat
    BY SessionTreeAssumption
  <2>2. PICK i \in wrong : \A j \in wrong : i <= j
    <3> HIDE DEF wrong
    <3> QED BY <2>1, Smallest
  <2>3. i \in 0..MaxEntries /\ h[i] # Way(lines, i)
    OBVIOUS
  <2>4. Way(lines, i) = IF i \notin IdsOf(lines) THEN {}
                        ELSE {i} \cup Way(lines, ParentOf(lines, i))
    BY WayIs, Zenon
  <2>5. i \in IdsOf(lines)
    BY <1>5, <2>3, <2>4
  <2> PICK up \in 0..MaxEntries : up = ParentOf(lines, i) /\ up < i
    BY <1>2, <2>5 DEF Older
  <2>6. h[up] = Way(lines, up)
    BY <2>2, SessionTreeAssumption
  <2> QED BY <1>5, <2>3, <2>4, <2>5, <2>6
<1> QED BY <1>1, <1>6

(* The branch has the entry and every ancestor that there is.                *)
LEMMA BranchHas ==
  ASSUME NEW lines, Older(lines), NEW id \in 0..MaxEntries
  PROVE  /\ Branch(lines, id) \subseteq IdsOf(lines)
         /\ id \in IdsOf(lines) => id \in Branch(lines, id)
         /\ Closed(lines, Branch(lines, id))
         /\ MessagesOf(lines, id) \subseteq Branch(lines, id)
<1>1. Branch(lines, id) \in Above(lines, id)
  <2>1. Branch(lines, id) = Way(lines, id)
    BY BranchIs
  <2>2. Way(lines, id) \in Above(lines, id)
    BY WayIs, Zenon
  <2> QED BY <2>1, <2>2
<1> QED BY <1>1 DEF Above, MessagesOf

LEMMA DatedIsOlder ==
  ASSUME Typed, NEW lines \in Seq(Lines), Dated(lines)
  PROVE  /\ Older(lines)
         /\ IdsOf(lines) \subseteq 1..lastId
<1>1. lastId \in 0..MaxEntries /\ MaxEntries \in Nat
  BY SessionTreeAssumption DEF Typed
<1>2. \A l \in Entries(lines) : l.id \in 1..lastId /\ l.parent < l.id /\ l.parent \in Nat
  BY LinesIn DEF Dated, Lines
<1>3. IdsOf(lines) \subseteq 1..lastId
  BY <1>2 DEF IdsOf
<1>4. \A i \in IdsOf(lines) : ParentOf(lines, i) \in Nat /\ ParentOf(lines, i) < i
  BY <1>2, LineAt DEF ParentOf
<1> QED BY <1>1, <1>3, <1>4 DEF Older

-----------------------------------------------------------------------------
(* Ids in sequence                                                           *)

Increasing(s, n, ids) == s \in [1..n -> ids] /\ \A i, j \in 1..n : i < j => s[i] < s[j]

LEMMA OneMore ==
  ASSUME NEW c \in Nat, NEW n \in Nat, NEW B, \A x \in B : x \in Nat /\ x < n,
         NEW s, Increasing(s, c, B), NEW A, A = B \cup {n}
  PROVE  \E t : Increasing(t, c + 1, A)
<1> PICK t : t = [i \in 1..(c + 1) |-> IF i <= c THEN s[i] ELSE n]
  OBVIOUS
<1>1. \A i \in 1..c : i \in 1..(c + 1) /\ t[i] = s[i] /\ s[i] \in B
  BY DEF Increasing
<1>2. t[c + 1] = n /\ \A i \in 1..(c + 1) : i \in 1..c \/ i = c + 1
  OBVIOUS
<1>3. t \in [1..(c + 1) -> A]
  <2>1. \A i \in 1..(c + 1) : t[i] \in A
    BY <1>1, <1>2
  <2> QED BY <2>1
<1>4. ASSUME NEW i \in 1..(c + 1), NEW j \in 1..(c + 1), i < j
      PROVE  t[i] < t[j]
  <2>1. i \in 1..c
    BY <1>4
  <2>2. CASE j \in 1..c
    BY <1>1, <1>4, <2>1, <2>2 DEF Increasing
  <2>3. CASE j = c + 1
    BY <1>1, <1>2, <2>1, <2>3
  <2> QED BY <1>2, <2>2, <2>3
<1> QED BY <1>3, <1>4 DEF Increasing

LEMMA FiniteIds ==
  ASSUME NEW max \in Nat, NEW ids \in SUBSET (1..max)
  PROVE  IsFiniteSet(ids)
<1>1. IsFiniteSet(1..max)
  BY FS_Interval
<1> QED BY <1>1, FS_Subset

LEMMA CanBeSorted ==
  ASSUME NEW max \in Nat, NEW ids \in SUBSET (1..max)
  PROVE  \E s : Increasing(s, Cardinality(ids), ids)
<1> DEFINE Sortable(A) == \E s : Increasing(s, Cardinality(A), A)
           wrong == {n \in Nat : \E A \in SUBSET (1..n) : ~Sortable(A)}
<1> HIDE DEF Sortable
<1>1. SUFFICES wrong = {}
  BY DEF Sortable
<1>2. SUFFICES ASSUME wrong # {} PROVE FALSE
  OBVIOUS
<1>3. PICK n \in wrong : \A k \in wrong : n <= k
  <2>1. wrong \in SUBSET Nat
    OBVIOUS
  <2> HIDE DEF wrong
  <2> QED BY <1>2, <2>1, Smallest
<1> PICK A \in SUBSET (1..n) : ~Sortable(A)
  OBVIOUS
<1>4. n \in Nat
  OBVIOUS
<1>5. IsFiniteSet(A)
  BY <1>4, FiniteIds
<1>6. A # {}
  <2> SUFFICES ASSUME A = {} PROVE FALSE
    OBVIOUS
  <2>1. Cardinality(A) = 0
    BY FS_EmptySet
  <2>2. Increasing([i \in 1..0 |-> i], 0, A)
    BY DEF Increasing
  <2> QED BY <2>1, <2>2 DEF Sortable
<1>7. n # 0
  <2> PICK x \in A : TRUE
    BY <1>6
  <2>1. x \in 1..n
    OBVIOUS
  <2> QED BY <1>4, <2>1
<1> PICK m \in Nat : m = n - 1
  BY <1>4, <1>7
<1>8. \A B \in SUBSET (1..m) : Sortable(B)
  BY <1>3
<1>9. n \in A
  BY <1>4, <1>8
<1> PICK B : B = A \ {n}
  OBVIOUS
<1>10. B \in SUBSET (1..m)
  BY <1>4
<1> PICK c \in Nat : c = Cardinality(B)
  BY <1>5, FS_RemoveElement, FS_CardinalityType
<1>11. Cardinality(A) = c + 1
  <2>1. Cardinality(A) \in Nat
    BY <1>5, FS_CardinalityType
  <2>2. Cardinality(B) = Cardinality(A) - 1
    BY <1>5, <1>9, FS_RemoveElement
  <2> QED BY <2>1, <2>2
<1>12. PICK s : Increasing(s, c, B)
  BY <1>8, <1>10 DEF Sortable
<1>13. A = B \cup {n} /\ \A x \in B : x \in Nat /\ x < n
  BY <1>4, <1>9, <1>10
<1>14. \E t : Increasing(t, c + 1, A)
  BY ONLY <1>4, <1>12, <1>13, OneMore, c \in Nat
<1> QED BY <1>11, <1>14 DEF Sortable

LEMMA InSequenceIs ==
  ASSUME NEW max \in Nat, NEW ids \in SUBSET (1..max)
  PROVE  \E n \in Nat :
           /\ n = Cardinality(ids)
           /\ Increasing(InSequence(ids), n, ids)
           /\ \A x \in ids : \E i \in 1..n : InSequence(ids)[i] = x
<1>1. IsFiniteSet(ids)
  BY FiniteIds
<1> PICK n \in Nat : n = Cardinality(ids)
  BY <1>1, FS_CardinalityType
<1>2. PICK t : Increasing(t, n, ids)
  BY CanBeSorted
<1> PICK s : s = InSequence(ids)
  OBVIOUS
<1>3. Increasing(s, n, ids)
  <2>1. \E u \in [1..n -> ids] : \A i, j \in DOMAIN u : i < j => u[i] < u[j]
    BY <1>2 DEF Increasing
  <2>2. InSequence(ids) = CHOOSE u \in [1..n -> ids] : \A i, j \in DOMAIN u : i < j => u[i] < u[j]
    BY DEF InSequence
  <2>3. s \in [1..n -> ids] /\ \A i, j \in DOMAIN s : i < j => s[i] < s[j]
    BY <2>1, <2>2, Zenon
  <2> QED BY <2>3 DEF Increasing
<1>4. s \in Injection(1..n, ids)
  <2>1. \A i, j \in 1..n : s[i] = s[j] => i = j
    <3> SUFFICES ASSUME NEW i \in 1..n, NEW j \in 1..n, i # j PROVE s[i] # s[j]
      OBVIOUS
    <3>1. s[i] \in Nat /\ s[j] \in Nat
      <4>1. s[i] \in ids /\ s[j] \in ids
        BY <1>3 DEF Increasing
      <4>2. \A x \in ids : x \in Nat
        OBVIOUS
      <4> QED BY <4>1, <4>2
    <3>2. \A a, b \in 1..n : a < b => s[a] < s[b]
      BY <1>3 DEF Increasing
    <3>3. (i < j => s[i] < s[j]) /\ (j < i => s[j] < s[i])
      BY <3>2
    <3>4. i < j \/ j < i
      OBVIOUS
    <3> QED BY <3>1, <3>2, <3>3, <3>4
  <2> QED BY <1>3, <2>1 DEF Increasing, Injection, IsInjective
<1>5. s \in Surjection(1..n, ids)
  <2>1. IsFiniteSet(1..n) /\ Cardinality(1..n) = n
    BY FS_Interval
  <2> QED BY <1>1, <1>4, <2>1, FS_Injection
<1> QED BY <1>3, <1>5 DEF Surjection

-----------------------------------------------------------------------------
(* The lines of a fork                                                       *)

Path(lines, id) == {i \in Branch(lines, id) : LineOf(lines, i).kind # "label"}

(* The parent of the i-th label entry of a fork.                             *)
LabelParent(i, k, kept) == IF i > 1 THEN lastId + i - 1 ELSE IF k = 0 THEN Root ELSE kept[k]

(* The header, k entries of the path and n new label entries.                *)
ForkShape(lines, id, forked, k, n, kept, targets) ==
  /\ k \in Nat /\ n \in Nat
  /\ Increasing(kept, k, Path(lines, id))
  /\ \A x \in Path(lines, id) : \E i \in 1..k : kept[i] = x
  /\ targets \in [1..n -> Nat]
  /\ forked \in Seq(Lines) /\ Len(forked) = 1 + k + n
  /\ forked[1] = Header
  /\ \A i \in 1..k : forked[1 + i] = LineOf(lines, kept[i])
  /\ \A i \in 1..n : forked[1 + k + i] =
                       LabelEntry(lastId + i, LabelParent(i, k, kept), targets[i], TRUE)

(* Three sequences one after the other.                                      *)
InParts(r, h, k, n, s, t) ==
  /\ r \in Seq(Lines) /\ Len(r) = 1 + k + n /\ r[1] = h
  /\ \A i \in 1..k : r[1 + i] = s[i]
  /\ \A i \in 1..n : r[1 + k + i] = t[i]

LEMMA ThreeParts ==
  ASSUME NEW h \in Lines, NEW k \in Nat, NEW n \in Nat, NEW s \in [1..k -> Lines],
         NEW t \in [1..n -> Lines], NEW r, r = <<h>> \o s \o t
  PROVE  InParts(r, h, k, n, s, t)
<1>1. s \in Seq(Lines) /\ Len(s) = k /\ t \in Seq(Lines) /\ Len(t) = n
  OBVIOUS
<1>2. <<h>> \in Seq(Lines) /\ Len(<<h>>) = 1 /\ <<h>>[1] = h
  OBVIOUS
<1> PICK a : a = <<h>> \o s
  OBVIOUS
<1>3. /\ a \in Seq(Lines) /\ Len(a) = 1 + k
      /\ \A i \in 1..(1 + k) : a[i] = IF i <= 1 THEN <<h>>[i] ELSE s[i - 1]
  <2>1. /\ <<h>> \o s \in Seq(Lines) /\ Len(<<h>> \o s) = Len(<<h>>) + Len(s)
        /\ \A i \in 1..(Len(<<h>>) + Len(s)) :
             (<<h>> \o s)[i] = IF i <= Len(<<h>>) THEN <<h>>[i] ELSE s[i - Len(<<h>>)]
    BY ONLY <1>1, <1>2, ConcatProperties, Zenon
  <2> QED BY <1>1, <1>2, <2>1
<1>4. /\ r \in Seq(Lines) /\ Len(r) = 1 + k + n
      /\ \A i \in 1..(1 + k + n) : r[i] = IF i <= 1 + k THEN a[i] ELSE t[i - (1 + k)]
  <2>1. /\ a \o t \in Seq(Lines) /\ Len(a \o t) = Len(a) + Len(t)
        /\ \A i \in 1..(Len(a) + Len(t)) :
             (a \o t)[i] = IF i <= Len(a) THEN a[i] ELSE t[i - Len(a)]
    BY ONLY <1>1, <1>3, ConcatProperties, Zenon
  <2> QED BY <1>1, <1>3, <2>1
<1>5. r[1] = h
  BY <1>2, <1>3, <1>4
<1>6. ASSUME NEW i \in 1..k
      PROVE  r[1 + i] = s[i]
  <2>1. 1 + i \in 1..(1 + k) /\ 1 + i \in 1..(1 + k + n) /\ (1 + i) - 1 = i /\ ~(1 + i <= 1)
        /\ 1 + i <= 1 + k
    OBVIOUS
  <2>2. r[1 + i] = a[1 + i]
    BY <1>4, <2>1
  <2>3. a[1 + i] = s[(1 + i) - 1]
    BY <1>3, <2>1
  <2> QED BY <2>1, <2>2, <2>3
<1>7. ASSUME NEW i \in 1..n
      PROVE  r[1 + k + i] = t[i]
  <2>1. 1 + k + i \in 1..(1 + k + n) /\ (1 + k + i) - (1 + k) = i /\ ~(1 + k + i <= 1 + k)
    OBVIOUS
  <2>2. r[1 + k + i] = t[(1 + k + i) - (1 + k)]
    BY <1>4, <2>1
  <2> QED BY <2>1, <2>2
<1> QED BY <1>4, <1>5, <1>6, <1>7 DEF InParts

LEMMA ForkedIs ==
  ASSUME Typed, NEW lines \in Seq(Lines), Dated(lines), NEW id \in 0..MaxEntries
  PROVE  \E k, n, kept, targets : ForkShape(lines, id, ForkedLines(lines, id), k, n, kept, targets)
<1> PICK path : path = Path(lines, id)
  OBVIOUS
<1> PICK about : about = LabelsOf(lines) \cap path
  OBVIOUS
<1>1. lastId \in Nat
  BY SessionTreeAssumption DEF Typed
<1>2. /\ path \in SUBSET (1..lastId) /\ about \in SUBSET (1..lastId)
      /\ path \subseteq IdsOf(lines)
  BY DatedIsOlder, BranchHas DEF Path
<1> PICK kept : kept = InSequence(path)
  OBVIOUS
<1> PICK targets : targets = InSequence(about)
  OBVIOUS
<1>3. PICK k \in Nat : /\ Increasing(kept, k, path)
                       /\ \A x \in path : \E i \in 1..k : kept[i] = x
  BY <1>1, <1>2, InSequenceIs
<1>4. PICK n \in Nat : Increasing(targets, n, about)
  BY <1>1, <1>2, InSequenceIs
<1>5. DOMAIN kept = 1..k /\ Len(kept) = k /\ DOMAIN targets = 1..n
  <2>1. kept \in [1..k -> path] /\ targets \in [1..n -> about]
    BY <1>3, <1>4 DEF Increasing
  <2> QED BY <2>1
<1>6. (path = {}) <=> (k = 0)
  <2>1. \A i \in 1..k : kept[i] \in path
    BY <1>3 DEF Increasing
  <2>2. k # 0 => 1 \in 1..k
    OBVIOUS
  <2> QED BY <1>3, <2>1, <2>2
<1> PICK s : s = [i \in 1..k |-> LineOf(lines, kept[i])]
  OBVIOUS
<1>7. s \in [1..k -> Lines] /\ s = LinesOf(lines, kept)
  <2>1. \A i \in 1..k : kept[i] \in IdsOf(lines)
    BY <1>2, <1>3 DEF Increasing
  <2>2. \A i \in 1..k : LineOf(lines, kept[i]) \in Lines
    BY <2>1, LineAt
  <2> QED BY <1>5, <2>2 DEF LinesOf
<1> PICK t : t = [i \in 1..n |-> LabelEntry(lastId + i, LabelParent(i, k, kept), targets[i], TRUE)]
  OBVIOUS
<1>8. targets \in [1..n -> Nat]
  <2>1. \A x \in about : x \in Nat
    BY <1>2
  <2> QED BY <1>4, <2>1 DEF Increasing
<1>9. t \in [1..n -> Lines]
  <2> SUFFICES ASSUME NEW i \in 1..n
               PROVE  LabelEntry(lastId + i, LabelParent(i, k, kept), targets[i], TRUE) \in Lines
    OBVIOUS
  <2>1. lastId + i \in Nat /\ targets[i] \in Nat
    <3>1. targets[i] \in Nat
      BY ONLY <1>8, i \in 1..n
    <3>2. lastId + i \in Nat
      BY ONLY <1>1, i \in 1..n, n \in Nat
    <3> QED BY <3>1, <3>2
  <2>2. k # 0 => kept[k] \in path
    BY <1>3 DEF Increasing
  <2>3. k # 0 => kept[k] \in Nat
    BY <1>2, <2>2
  <2>4. i > 1 => lastId + i - 1 \in Nat
    BY <1>1
  <2>5. LabelParent(i, k, kept) \in Nat
    BY <2>3, <2>4 DEF LabelParent, Root
  <2> QED BY <2>1, <2>5 DEF LabelEntry, Lines, LineKinds
<1> PICK forked : forked = ForkedLines(lines, id)
  OBVIOUS
<1>10. forked = <<Header>> \o s \o t
  <2> DEFINE parent(i) == IF i > 1 THEN lastId + i - 1
                          ELSE IF path = {} THEN Root ELSE Last(kept)
  <2>1. forked = <<Header>> \o LinesOf(lines, kept)
                   \o [i \in DOMAIN targets |-> LabelEntry(lastId + i, parent(i), targets[i], TRUE)]
    BY DEF ForkedLines, Path
  <2>2. \A i : parent(i) = LabelParent(i, k, kept)
    BY <1>5, <1>6 DEF LabelParent, Last
  <2> HIDE DEF parent
  <2>3. [i \in DOMAIN targets |-> LabelEntry(lastId + i, parent(i), targets[i], TRUE)] = t
    BY <1>5, <2>2
  <2> QED BY <1>7, <2>1, <2>3
<1>11. /\ forked \in Seq(Lines) /\ Len(forked) = 1 + k + n /\ forked[1] = Header
       /\ \A i \in 1..k : forked[1 + i] = s[i]
       /\ \A i \in 1..n : forked[1 + k + i] = t[i]
  <2>1. Header \in Lines /\ k \in Nat /\ n \in Nat
    BY HeaderType
  <2>2. InParts(forked, Header, k, n, s, t)
    BY ONLY <1>7, <1>9, <1>10, <2>1, ThreeParts, Zenon
  <2> QED BY <2>2 DEF InParts
<1>12. ForkShape(lines, id, forked, k, n, kept, targets)
  BY <1>3, <1>8, <1>11 DEF ForkShape
<1> QED BY <1>12

(* Where a line of a fork stands, and what it is there.                      *)
ForkLines(lines, id, forked, k, n, kept, targets) ==
  /\ DOMAIN forked = 1..(1 + k + n)
  /\ forked[1] = Header
  /\ \A i \in 1..k :
       /\ kept[i] \in Path(lines, id) /\ kept[i] \in IdsOf(lines) /\ kept[i] \in 1..lastId
       /\ forked[1 + i] = LineOf(lines, kept[i])
       /\ forked[1 + i] \in Entries(lines) /\ forked[1 + i].id = kept[i]
       /\ forked[1 + i].kind # "label" /\ forked[1 + i].kind # "session"
  /\ \A i \in 1..n :
       /\ forked[1 + k + i] = LabelEntry(lastId + i, LabelParent(i, k, kept), targets[i], TRUE)
       /\ forked[1 + k + i].kind = "label" /\ forked[1 + k + i].id = lastId + i
       /\ forked[1 + k + i].parent = LabelParent(i, k, kept)
  /\ \A i \in 1..(1 + k + n) :
       \/ i = 1
       \/ \E j \in 1..k : i = 1 + j
       \/ \E j \in 1..n : i = 1 + k + j

LEMMA ForkedLine ==
  ASSUME Typed, NEW lines \in Seq(Lines), Dated(lines), NEW id \in 0..MaxEntries,
         NEW forked, NEW k, NEW n, NEW kept, NEW targets,
         ForkShape(lines, id, forked, k, n, kept, targets)
  PROVE  ForkLines(lines, id, forked, k, n, kept, targets)
<1>1. k \in Nat /\ n \in Nat /\ forked \in Seq(Lines) /\ Len(forked) = 1 + k + n
  BY DEF ForkShape
<1>2. DOMAIN forked = 1..(1 + k + n) /\ forked[1] = Header
  BY <1>1, LenProperties DEF ForkShape
<1>3. ASSUME NEW i \in 1..k
      PROVE  /\ kept[i] \in Path(lines, id) /\ kept[i] \in IdsOf(lines) /\ kept[i] \in 1..lastId
             /\ forked[1 + i] = LineOf(lines, kept[i])
             /\ forked[1 + i] \in Entries(lines) /\ forked[1 + i].id = kept[i]
             /\ forked[1 + i].kind # "label" /\ forked[1 + i].kind # "session"
  <2>1. kept[i] \in Path(lines, id) /\ forked[1 + i] = LineOf(lines, kept[i])
    BY DEF ForkShape, Increasing
  <2>2. Path(lines, id) \subseteq IdsOf(lines) /\ IdsOf(lines) \subseteq 1..lastId
    BY DatedIsOlder, BranchHas DEF Path
  <2>3. LineOf(lines, kept[i]) \in Entries(lines) /\ LineOf(lines, kept[i]).id = kept[i]
    BY <2>1, <2>2, LineAt
  <2>4. LineOf(lines, kept[i]).kind # "label"
    BY <2>1 DEF Path
  <2> QED BY <2>1, <2>2, <2>3, <2>4 DEF Entries
<1>4. ASSUME NEW i \in 1..n
      PROVE  /\ forked[1 + k + i] = LabelEntry(lastId + i, LabelParent(i, k, kept), targets[i], TRUE)
             /\ forked[1 + k + i].kind = "label" /\ forked[1 + k + i].id = lastId + i
             /\ forked[1 + k + i].parent = LabelParent(i, k, kept)
  <2>1. forked[1 + k + i] = LabelEntry(lastId + i, LabelParent(i, k, kept), targets[i], TRUE)
    BY DEF ForkShape
  <2> QED BY <2>1 DEF LabelEntry
<1>5. ASSUME NEW i \in 1..(1 + k + n)
      PROVE  \/ i = 1
             \/ \E j \in 1..k : i = 1 + j
             \/ \E j \in 1..n : i = 1 + k + j
  <2>1. CASE i > 1 /\ i <= 1 + k
    <3>1. i - 1 \in 1..k /\ i = 1 + (i - 1)
      BY <1>1, <2>1
    <3> QED BY <3>1
  <2>2. CASE i > 1 + k
    <3>1. i - (1 + k) \in 1..n /\ i = 1 + k + (i - (1 + k))
      BY <1>1, <2>2
    <3> QED BY <3>1
  <2> QED BY <1>1, <2>1, <2>2
<1> QED BY <1>2, <1>3, <1>4, <1>5 DEF ForkLines

(* One header, every entry once, and the ids of the labels are all that is new. *)
LEMMA ForkedOnce ==
  ASSUME Typed, NEW lines \in Seq(Lines), Dated(lines), NEW id \in 0..MaxEntries,
         NEW forked, NEW k, NEW n, NEW kept, NEW targets,
         ForkShape(lines, id, forked, k, n, kept, targets)
  PROVE  /\ HasHeader(forked) /\ IsInjective(forked)
         /\ Cardinality({i \in DOMAIN forked : forked[i].kind = "label"}) = n
<1>0. ForkLines(lines, id, forked, k, n, kept, targets)
  BY ForkedLine, Zenon
<1>1. /\ k \in Nat /\ n \in Nat /\ forked \in Seq(Lines) /\ lastId \in Nat
      /\ Len(forked) = 1 + k + n /\ DOMAIN forked = 1..(1 + k + n)
  BY <1>0, SessionTreeAssumption DEF ForkLines, ForkShape, Typed
<1>2. forked[1] = Header /\ Header.kind = "session"
  BY <1>0, HeaderType DEF ForkLines
<1>3. \A i \in 1..k : /\ forked[1 + i].id = kept[i] /\ kept[i] \in 1..lastId
                      /\ forked[1 + i].kind # "label" /\ forked[1 + i].kind # "session"
  BY <1>0 DEF ForkLines
<1>4. \A i \in 1..n : forked[1 + k + i].kind = "label" /\ forked[1 + k + i].id = lastId + i
  BY <1>0 DEF ForkLines
<1>5. \A i \in 1..(1 + k + n) : \/ i = 1
                                \/ \E j \in 1..k : i = 1 + j
                                \/ \E j \in 1..n : i = 1 + k + j
  BY <1>0, Zenon DEF ForkLines
<1>6. HasHeader(forked)
  <2>1. forked # <<>>
    <3>1. Len(<<>>) = 0 /\ 1 + k + n # 0
      BY <1>1, EmptySeq
    <3> QED BY <1>1, <3>1
  <2> QED BY <1>2, <2>1 DEF HasHeader
<1>7. \A i, j \in 1..k : kept[i] = kept[j] => i = j
  <2> SUFFICES ASSUME NEW i \in 1..k, NEW j \in 1..k, i # j
               PROVE  kept[i] # kept[j]
    OBVIOUS
  <2>1. \A a, b \in 1..k : a < b => kept[a] < kept[b]
    BY DEF ForkShape, Increasing
  <2>2. kept[i] \in 1..lastId /\ kept[j] \in 1..lastId
    BY <1>3
  <2>3. (i < j /\ kept[i] < kept[j]) \/ (j < i /\ kept[j] < kept[i])
    BY <1>1, <2>1
  <2> QED BY <1>1, <2>2, <2>3
<1>8. IsInjective(forked)
  <2> SUFFICES ASSUME NEW i \in 1..(1 + k + n), NEW j \in 1..(1 + k + n), forked[i] = forked[j]
               PROVE  i = j
    BY <1>1 DEF IsInjective
  <2>1. CASE i = 1
    BY <1>2, <1>3, <1>4, <1>5, <2>1
  <2>2. CASE \E a \in 1..k : i = 1 + a
    BY <1>2, <1>3, <1>4, <1>5, <1>7, <2>2
  <2>3. CASE \E a \in 1..n : i = 1 + k + a
    <3> PICK a \in 1..n : i = 1 + k + a
      BY <2>3
    <3>1. forked[j].kind = "label" /\ forked[j].id = lastId + a
      BY <1>4
    <3>2. PICK b \in 1..n : j = 1 + k + b
      BY <1>2, <1>3, <1>5, <3>1
    <3>3. lastId + b = lastId + a
      BY <1>4, <3>1, <3>2
    <3>4. a = b
      BY <1>1, <3>3
    <3> QED BY <3>2, <3>4
  <2> QED BY <1>5, <2>1, <2>2, <2>3
<1>9. {i \in DOMAIN forked : forked[i].kind = "label"} = (2 + k)..(1 + k + n)
  <2>1. ASSUME NEW i \in 1..(1 + k + n)
        PROVE  forked[i].kind = "label" <=> i \in (2 + k)..(1 + k + n)
    <3>1. CASE i = 1
      BY <1>1, <1>2, <3>1
    <3>2. CASE \E a \in 1..k : i = 1 + a
      <4> PICK a \in 1..k : i = 1 + a
        BY <3>2
      <4>1. forked[i].kind # "label"
        BY <1>3
      <4>2. i \notin (2 + k)..(1 + k + n)
        BY <1>1
      <4> QED BY <4>1, <4>2
    <3>3. CASE \E a \in 1..n : i = 1 + k + a
      <4> PICK a \in 1..n : i = 1 + k + a
        BY <3>3
      <4>1. forked[i].kind = "label"
        BY <1>4
      <4>2. i \in (2 + k)..(1 + k + n)
        BY <1>1
      <4> QED BY <4>1, <4>2
    <3> QED BY <1>5, <3>1, <3>2, <3>3
  <2>2. (2 + k)..(1 + k + n) \subseteq 1..(1 + k + n)
    BY <1>1
  <2> QED BY <1>1, <2>1, <2>2
<1>10. Cardinality((2 + k)..(1 + k + n)) = n
  <2>1. 2 + k \in Int /\ 1 + k + n \in Int
    BY <1>1
  <2>2. Cardinality((2 + k)..(1 + k + n)) =
          IF 2 + k > 1 + k + n THEN 0 ELSE (1 + k + n) - (2 + k) + 1
    BY <2>1, FS_Interval
  <2> QED BY <1>1, <2>2
<1> QED BY <1>6, <1>8, <1>9, <1>10

LEMMA ForkedDated ==
  ASSUME Typed, Later, NEW lines \in Seq(Lines), Dated(lines), NEW id \in 0..MaxEntries,
         NEW forked, NEW k, NEW n, NEW kept, NEW targets,
         ForkShape(lines, id, forked, k, n, kept, targets), lastId' = lastId + n
  PROVE  Dated(forked)'
<1>0. ForkLines(lines, id, forked, k, n, kept, targets)
  BY ForkedLine, Zenon
<1>1. /\ k \in Nat /\ n \in Nat /\ DOMAIN forked = 1..(1 + k + n) /\ lastId \in Nat
  BY <1>0, SessionTreeAssumption DEF ForkLines, ForkShape, Typed
<1>2. Dated(lines)'
  BY DatedStays
<1> SUFFICES ASSUME NEW i \in 1..(1 + k + n), NEW l, l = forked[i]
             PROVE  IF l.kind = "session" THEN l = Header ELSE l.id \in 1..lastId' /\ l.parent < l.id
  BY <1>1 DEF Dated, ToSet
<1>3. CASE i = 1
  BY <1>0, <1>3, HeaderType DEF ForkLines
<1>4. ASSUME NEW j \in 1..k, i = 1 + j
      PROVE  IF l.kind = "session" THEN l = Header ELSE l.id \in 1..lastId' /\ l.parent < l.id
  <2>1. l \in Entries(lines)
    BY <1>0, <1>4 DEF ForkLines
  <2> QED BY <1>2, <2>1 DEF Dated, Entries
<1>5. ASSUME NEW j \in 1..n, i = 1 + k + j
      PROVE  l.kind = "label" /\ l.id \in 1..lastId' /\ l.parent < l.id
  <2>1. l.kind = "label" /\ l.id = lastId + j /\ l.parent = LabelParent(j, k, kept)
    BY <1>0, <1>5 DEF ForkLines
  <2>2. k # 0 => kept[k] \in 1..lastId
    BY <1>0, <1>1 DEF ForkLines
  <2>3. LabelParent(j, k, kept) < lastId + j
    BY <1>1, <2>2 DEF LabelParent, Root
  <2>4. lastId + j \in 1..(lastId + n)
    BY <1>1
  <2> QED BY <2>1, <2>3, <2>4
<1>6. \/ i = 1
      \/ \E j \in 1..k : i = 1 + j
      \/ \E j \in 1..n : i = 1 + k + j
  BY <1>0, Zenon DEF ForkLines
<1> QED BY <1>3, <1>4, <1>5, <1>6

(* In a fork an ancestor comes first, but for the label entries left out.    *)
LEMMA ForkedInOrder ==
  ASSUME Typed, NEW f \in Files, NEW name \in Files \ {f},
         disk[name].lines = <<>>, disk[name].lost = {},
         NEW lines \in Seq(Lines), lines = disk[f].lines, Dated(lines), InOrder(lines, f),
         NEW id \in 0..MaxEntries, NEW forked, NEW k, NEW n, NEW kept, NEW targets,
         ForkShape(lines, id, forked, k, n, kept, targets)
  PROVE  InOrder(forked, name)
<1>0. ForkLines(lines, id, forked, k, n, kept, targets)
  BY ForkedLine, Zenon
<1>1. /\ k \in Nat /\ n \in Nat /\ DOMAIN forked = 1..(1 + k + n) /\ lastId \in Nat
  BY <1>0, SessionTreeAssumption DEF ForkLines, ForkShape, Typed
<1> SUFFICES ASSUME NEW i \in 1..(1 + k + n)
             PROVE  \/ forked[i].parent = Root
                    \/ \E j \in 1..(i - 1) : forked[j].id = forked[i].parent
                    \/ LeftOut(name, forked[i].parent)
  BY <1>1 DEF InOrder
<1>2. CASE i = 1
  <2>1. forked[i] = Header
    BY <1>0, <1>2 DEF ForkLines
  <2> QED BY <2>1 DEF Header
<1>3. ASSUME NEW a \in 1..k, i = 1 + a
      PROVE  \/ forked[i].parent = Root
             \/ \E j \in 1..(i - 1) : forked[j].id = forked[i].parent
             \/ LeftOut(name, forked[i].parent)
  <2> PICK l : l = forked[i]
    OBVIOUS
  <2>1. /\ l \in Entries(lines) /\ l = LineOf(lines, kept[a]) /\ kept[a] \in Path(lines, id)
        /\ kept[a] \in 1..lastId /\ l.id = kept[a] /\ kept[a] \in IdsOf(lines)
    BY <1>0, <1>3 DEF ForkLines
  <2>2. PICK x \in DOMAIN lines : lines[x] = l
    BY <2>1 DEF Entries, ToSet
  <2>3. CASE LeftOut(f, l.parent)
    <3>1. PICK g \in Files \ {f} :
            \/ l.parent \in disk[g].lost
            \/ \E h \in Entries(disk[g].lines) : h.id = l.parent /\ h.kind = "label"
      BY <2>3 DEF LeftOut
    <3>2. Entries(<<>>) = {}
      BY DEF Entries, ToSet
    <3>3. g # name
      BY <3>1, <3>2
    <3> QED BY <3>1, <3>3 DEF LeftOut
  <2>4. ASSUME l.parent # Root, NEW y \in 1..(x - 1), lines[y].id = l.parent
        PROVE  \/ \E j \in 1..(i - 1) : forked[j].id = l.parent
               \/ LeftOut(name, l.parent)
    <3> PICK up : up = l.parent
      OBVIOUS
    <3>1. lines[y] \in ToSet(lines)
      <4>1. y \in DOMAIN lines
        BY <2>2, LenProperties
      <4> QED BY <4>1 DEF ToSet
    <3>2. lines[y].kind # "session"
      BY <2>4, <3>1, HeaderType DEF Dated, Header, Root
    <3>3. up \in IdsOf(lines)
      BY <2>4, <3>1, <3>2 DEF IdsOf, Entries
    <3>4. up \in Branch(lines, id)
      <4>1. Closed(lines, Branch(lines, id))
        BY BranchHas, DatedIsOlder
      <4>2. kept[a] \in Branch(lines, id) /\ ParentOf(lines, kept[a]) = up
        BY <2>1 DEF Path, ParentOf
      <4> QED BY <3>3, <4>1, <4>2 DEF Closed
    <3>5. CASE LineOf(lines, up).kind = "label"
      <4>1. LineOf(lines, up) \in Entries(lines) /\ LineOf(lines, up).id = up
        BY <3>3, LineAt
      <4> QED BY <3>5, <4>1 DEF LeftOut
    <3>6. CASE LineOf(lines, up).kind # "label"
      <4>1. up \in Path(lines, id)
        BY <3>4, <3>6 DEF Path
      <4>2. PICK b \in 1..k : kept[b] = up
        BY <4>1 DEF ForkShape
      <4>3. up < kept[a]
        BY <2>1 DEF Dated, Entries
      <4>4. kept[b] \in 1..lastId /\ forked[1 + b].id = up
        BY <1>0, <4>2 DEF ForkLines
      <4>5. b < a
        <5>1. a < b => kept[a] < kept[b]
          BY DEF ForkShape, Increasing
        <5>2. a # b
          BY <1>1, <2>1, <4>2, <4>3
        <5>3. ~(a < b)
          <6>1. kept[a] \in Int /\ up \in Int
            <7>1. \A z \in 1..lastId : z \in Int
              BY <1>1
            <7>2. kept[a] \in 1..lastId /\ up \in 1..lastId
              BY <2>1, <4>2, <4>4
            <7> QED BY ONLY <7>1, <7>2
          <6>2. a < b => kept[a] < up
            BY <4>2, <5>1
          <6> QED BY ONLY <4>3, <6>1, <6>2
        <5> QED BY <1>1, <5>2, <5>3
      <4>6. 1 + b \in 1..(i - 1)
        BY <1>1, <1>3, <4>5
      <4> QED BY <4>4, <4>6
    <3> QED BY <3>5, <3>6
  <2>5. \/ l.parent = Root
        \/ \E y \in 1..(x - 1) : lines[y].id = l.parent
        \/ LeftOut(f, l.parent)
    BY <2>2 DEF InOrder
  <2> QED BY <2>3, <2>4, <2>5
<1>4. ASSUME NEW a \in 1..n, i = 1 + k + a
      PROVE  \/ forked[i].parent = Root
             \/ \E j \in 1..(i - 1) : forked[j].id = forked[i].parent
  <2>1. forked[i].parent = LabelParent(a, k, kept)
    BY <1>0, <1>4 DEF ForkLines
  <2>2. CASE a > 1
    <3> PICK b \in 1..n : b = a - 1
      BY <1>1, <2>2
    <3>1. forked[1 + k + b].id = lastId + b
      BY <1>0 DEF ForkLines
    <3>2. lastId + b = lastId + a - 1 /\ 1 + k + b \in 1..(i - 1)
      BY <1>1, <1>4
    <3> QED BY <2>1, <2>2, <3>1, <3>2 DEF LabelParent
  <2>3. CASE ~(a > 1) /\ k = 0
    BY <2>1, <2>3 DEF LabelParent
  <2>4. CASE ~(a > 1) /\ k # 0
    <3>1. k \in 1..k
      BY <1>1, <2>4
    <3>2. forked[1 + k].id = kept[k]
      BY <1>0, <3>1 DEF ForkLines
    <3>3. 1 + k \in 1..(i - 1)
      BY <1>1, <1>4
    <3> QED BY <2>1, <2>4, <3>2, <3>3 DEF LabelParent
  <2> QED BY <2>2, <2>3, <2>4
<1>5. \/ i = 1
      \/ \E j \in 1..k : i = 1 + j
      \/ \E j \in 1..n : i = 1 + k + j
  BY <1>0, Zenon DEF ForkLines
<1> QED BY <1>2, <1>3, <1>4, <1>5

(* The file of a fork.                                                       *)
Copied(copy, forked, lost) ==
  /\ copy \in DiskFiles /\ copy.exists = HasAssistant(forked)
  /\ copy.lines = IF HasAssistant(forked) THEN forked ELSE <<>>
  /\ copy.end = "whole" /\ copy.bare = FALSE /\ copy.shared = FALSE /\ copy.lost = lost

LEMMA CopyIs ==
  ASSUME NEW forked \in Seq(Lines), NEW lost \in SUBSET Nat, NEW copy,
         copy = [(IF HasAssistant(forked) THEN [Absent EXCEPT !.exists = TRUE, !.lines = forked]
                  ELSE Absent) EXCEPT !.lost = lost]
  PROVE  Copied(copy, forked, lost)
<1>1. /\ Absent \in DiskFiles /\ Absent.exists = FALSE /\ Absent.lines = <<>>
      /\ Absent.end = "whole" /\ Absent.lost = {} /\ Absent.bare = FALSE /\ Absent.shared = FALSE
  <2>1. <<>> \in Seq(Lines)
    OBVIOUS
  <2> QED BY <2>1 DEF Absent, DiskFiles, Ends
<1> PICK file \in DiskFiles : file = Absent
  BY <1>1
<1> PICK w : w = [file EXCEPT !.exists = TRUE, !.lines = forked]
  OBVIOUS
<1>2. /\ w \in DiskFiles /\ w.exists = TRUE /\ w.lines = forked
      /\ w.end = "whole" /\ w.bare = FALSE /\ w.shared = FALSE
  BY <1>1 DEF DiskFiles
<1>3. CASE HasAssistant(forked)
  <2>1. copy = [w EXCEPT !.lost = lost]
    BY <1>3
  <2>2. /\ copy \in DiskFiles /\ copy.exists = TRUE /\ copy.lines = forked
        /\ copy.end = "whole" /\ copy.bare = FALSE /\ copy.shared = FALSE /\ copy.lost = lost
    BY <1>2, <2>1 DEF DiskFiles
  <2>3. TRUE = HasAssistant(forked)
    BY <1>3 DEF HasAssistant
  <2> QED BY <1>3, <2>2, <2>3 DEF Copied
<1>4. CASE ~HasAssistant(forked)
  <2>1. copy = [file EXCEPT !.lost = lost]
    BY <1>4
  <2>2. /\ copy \in DiskFiles /\ copy.exists = FALSE /\ copy.lines = <<>>
        /\ copy.end = "whole" /\ copy.bare = FALSE /\ copy.shared = FALSE /\ copy.lost = lost
    BY <1>1, <2>1 DEF DiskFiles
  <2>3. FALSE = HasAssistant(forked)
    BY <1>4 DEF HasAssistant
  <2> QED BY <1>4, <2>2, <2>3 DEF Copied
<1> QED BY <1>3, <1>4

(* The operators of Fork, one by one.                                        *)
ParentOfUser(p, user) == LineOf(mem[p].lines, user).parent
SourceOf(p) == Opened(mem[p].file, disk[mem[p].file]).lines
CopyOf(p, user) == ForkedLines(SourceOf(p), ParentOfUser(p, user))
FileOf(p, user, name) ==
  [(IF HasAssistant(CopyOf(p, user)) THEN [Absent EXCEPT !.exists = TRUE, !.lines = CopyOf(p, user)]
    ELSE Absent) EXCEPT !.lost = disk[name].lost \cup disk[mem[p].file].lost]
MadeBy(p, user) ==
  lastId + Cardinality({i \in DOMAIN CopyOf(p, user) : CopyOf(p, user)[i].kind = "label"})

ForkNothing(p, name) ==
  /\ mem' = [mem EXCEPT ![p] = FreshSession(name)]
  /\ disk' = disk /\ lastId' = lastId
ForkFails(p) ==
  /\ mem' = [mem EXCEPT ![p].anew = Opened(mem[p].file, disk[mem[p].file]).anew,
                        ![p].found = Opened(mem[p].file, disk[mem[p].file]).found]
  /\ disk' = disk /\ lastId' = lastId
ForkCopies(p, user, name) ==
  /\ MadeBy(p, user) <= MaxEntries
  /\ lastId' = MadeBy(p, user)
  /\ disk' = [disk EXCEPT ![name] = FileOf(p, user, name)]
  /\ mem' = [mem EXCEPT ![p] =
       [Opened(name, FileOf(p, user, name)) EXCEPT
          !.expected = MessagesOf(mem[p].lines, ParentOfUser(p, user)),
          !.expectedLabels = LabelsOf(SourceOf(p)) \cap MessagesOf(mem[p].lines, ParentOfUser(p, user))]]

LEMMA ForkMeans ==
  ASSUME NEW p, NEW user, NEW name, Fork(p, user, name)
  PROVE  /\ mem[p].alive /\ Idle(p) /\ user \in IdsOf(mem[p].lines)
         /\ ~disk[name].exists /\ \A q \in Processes : mem[q].file # name
         /\ \/ ForkNothing(p, name)
            \/ ForkFails(p)
            \/ ParentOfUser(p, user) \in IdsOf(SourceOf(p)) /\ ForkCopies(p, user, name)
<1>1. /\ mem[p].alive /\ Idle(p) /\ user \in IdsOf(mem[p].lines)
      /\ ~disk[name].exists /\ \A q \in Processes : mem[q].file # name
  BY Zenon DEF Fork, InUse
<1>2. \/ ForkNothing(p, name)
      \/ ForkFails(p)
      \/ ParentOfUser(p, user) \in IdsOf(SourceOf(p)) /\ ForkCopies(p, user, name)
  BY Zenon DEF Fork, ParentOfUser, SourceOf, CopyOf, FileOf, MadeBy, ForkNothing, ForkFails,
               ForkCopies
<1> QED BY <1>1, <1>2

(* A process that goes on with a file that nobody has.                       *)
Moves(p, name, m) ==
  /\ p \in Alive /\ name \in Files /\ \A q \in Processes : mem[q].file # name
  /\ m \in Sessions /\ m.alive /\ m.file = name /\ m.next = 0
  /\ mem' = [mem EXCEPT ![p] = m]
  /\ disk' \in [Files -> DiskFiles] /\ \A g \in Files \ {name} : disk'[g] = disk[g]
  /\ Later /\ Grown

LEMMA OnItsOwn ==
  ASSUME Typed, NEW p, NEW name, NEW m, Moves(p, name, m)
  PROVE  Touches(p, name) /\ mem'[p] = m
<1> USE DEF Moves
<1>1. p \in Processes /\ \A q \in Alive : q \in Processes
  BY DEF Alive
<1>2. /\ mem' \in [Processes -> Sessions] /\ mem'[p] = m
      /\ \A q \in Processes \ {p} : mem'[q] = mem[q]
  BY <1>1 DEF Typed
<1>3. Alive' = Alive
  BY <1>1, <1>2 DEF Alive
<1>4. Typed'
  <2>1. \A q \in Alive : mem'[q].file \in Files
    BY ONLY <1>1, <1>2, m.file = name, name \in Files, Typed DEF Typed
  <2>2. \A q \in Processes : ~(mem'[q].next = 0 /\ ~mem'[q].anew) => q \in Alive
    BY ONLY <1>2, Typed, p \in Alive DEF Typed, Idle
  <2>3. lastId' \in 0..MaxEntries
    BY DEF Later
  <2> QED BY ONLY <1>2, <1>3, <2>1, <2>2, <2>3, disk' \in [Files -> DiskFiles] DEF Typed, Idle
<1>5. \A q \in Alive \ {p} : mem[q].file # name /\ mem'[q] = mem[q]
  BY <1>1, <1>2
<1>6. \A q \in Alive \ {p} : ApartFrom(p, q)' /\ ApartFrom(q, p)'
  <2> HIDE DEF Unstored, Stored
  <2> QED BY ONLY <1>2, <1>5, m.file = name DEF ApartFrom
<1> QED BY ONLY <1>2, <1>4, <1>5, <1>6, Later, Grown,
                \A g \in Files \ {name} : disk'[g] = disk[g] DEF Touches

LEMMA ForkNothingSound ==
  ASSUME IInv, NEW p \in Alive, NEW name \in Files, ~disk[name].exists,
         \A q \in Processes : mem[q].file # name, ForkNothing(p, name)
  PROVE  IInv'
<1>1. /\ Typed /\ disk' = disk /\ lastId' = lastId /\ p \in Processes
      /\ mem' = [mem EXCEPT ![p] = FreshSession(name)]
  BY DEF ForkNothing, IInv, Alive
<1> PICK file \in DiskFiles : file = disk[name]
  BY <1>1 DEF Typed
<1> PICK m : m = FreshSession(name)
  OBVIOUS
<1>2. m \in Sessions /\ m.alive /\ m.file = name /\ m.next = 0
  BY FreshIs
<1>3. Later /\ Grown
  BY <1>1, SameFiles
<1>4. Touches(p, name) /\ mem'[p] = m
  <2>1. disk' \in [Files -> DiskFiles] /\ \A g \in Files \ {name} : disk'[g] = disk[g]
    BY <1>1 DEF Typed
  <2>2. Moves(p, name, m)
    BY <1>1, <1>2, <1>3, <2>1 DEF Moves
  <2> QED BY ONLY <1>1, <2>2, OnItsOwn
<1>5. FileSound(name)'
  BY <1>1, <1>3, FileStays DEF IInv
<1>6. MemorySound(p)'
  <2>1. m = Opened(name, file)
    BY Zenon DEF Opened
  <2>2. disk'[name] = file /\ ~file.exists
    BY <1>1
  <2> QED BY ONLY <1>2, <1>4, <1>5, <2>1, <2>2, HasRead, name \in Files, file \in DiskFiles
<1> QED BY <1>1, <1>4, <1>5, <1>6, TouchSound

LEMMA ForkFailsSound ==
  ASSUME IInv, NEW p \in Alive, Idle(p), ForkFails(p)
  PROVE  IInv'
<1>1. /\ Typed /\ disk' = disk /\ lastId' = lastId /\ p \in Processes
      /\ mem[p].next = 0 /\ ~mem[p].anew
  BY DEF ForkFails, IInv, Alive, Idle
<1> PICK m \in Sessions : m = mem[p]
  BY <1>1 DEF Typed
<1> PICK f \in Files : f = m.file
  BY <1>1 DEF Typed
<1> PICK file \in DiskFiles : file = disk[f]
  BY <1>1 DEF Typed
<1> PICK o : o = Opened(f, file)
  OBVIOUS
<1> PICK m2 : m2 = [m EXCEPT !.anew = o.anew, !.found = o.found]
  OBVIOUS
<1>2. o.anew = Hopeless(file) /\ o.anew \in BOOLEAN /\ o.found = {}
  BY OpenedIs DEF Sessions
<1>3. mem' = [mem EXCEPT ![p] = m2]
  <2>1. mem' = [mem EXCEPT ![p].anew = Opened(mem[p].file, disk[mem[p].file]).anew,
                           ![p].found = Opened(mem[p].file, disk[mem[p].file]).found]
    BY Zenon DEF ForkFails
  <2>2. mem' = [mem EXCEPT ![p].anew = o.anew, ![p].found = o.found]
    BY <2>1
  <2> QED BY <1>1, <2>2 DEF Typed
<1>4. /\ m2 \in Sessions /\ m2.alive = m.alive /\ m2.file = m.file /\ m2.lines = m.lines
      /\ m2.leaf = m.leaf /\ m2.labels = m.labels /\ m2.flushed = m.flushed
      /\ m2.next = m.next /\ m2.anew = o.anew
  <2> PICK anew \in BOOLEAN : anew = o.anew
    BY <1>2
  <2>1. m2 = [m EXCEPT !.anew = anew, !.found = {}]
    BY <1>2
  <2> QED BY ONLY <2>1, m \in Sessions, anew \in BOOLEAN, anew = o.anew DEF Sessions
<1>5. MemorySound(p) /\ m.leaf \in IdsOf(m.lines) \cup {Root} /\ m.alive
  BY DEF IInv, MemorySound, Alive
<1>6. m2.anew # m.anew => m2.anew /\ ~Intact(f)
  <2> SUFFICES ASSUME m2.anew # m.anew, Intact(f) PROVE FALSE
    BY <1>1, <1>2, <1>4 DEF Sessions
  <2>1. file.exists /\ Load(file) = <<>>
    BY <1>1, <1>2, <1>4 DEF Hopeless, Sessions
  <2>2. file.lines # <<>>
    BY <1>1, <1>5, <2>1 DEF MemorySound, OnDisk
  <2>3. HasHeader(file.lines)
    BY <2>2 DEF IInv, FileSound
  <2> QED BY <2>1, <2>2, <2>3, LoadIs
<1> QED BY ONLY IInv, <1>1, <1>3, <1>4, <1>5, <1>6, SameLines, p \in Alive, m \in Sessions,
                m = mem[p], f = m.file

(* What a fork copies.                                                       *)
LEMMA SourceIs ==
  ASSUME IInv, NEW p \in Alive, NEW user, user \in IdsOf(mem[p].lines),
         ParentOfUser(p, user) \in IdsOf(SourceOf(p)),
         NEW f, f = mem[p].file, NEW parent, parent = ParentOfUser(p, user)
  PROVE  /\ f \in Files /\ disk[f].exists /\ disk[f] \in DiskFiles
         /\ SourceOf(p) = disk[f].lines /\ SourceOf(p) \in Seq(Lines) /\ Dated(SourceOf(p))
         /\ Intact(f) => InOrder(SourceOf(p), f)
         /\ parent \in 0..MaxEntries
         /\ MessagesOf(mem[p].lines, parent) \in SUBSET Nat
<1>1. Typed /\ p \in Processes
  BY DEF IInv, Alive
<1> PICK file \in DiskFiles : file = disk[f]
  BY <1>1 DEF Typed
<1> PICK lines \in Seq(Lines) : lines = mem[p].lines
  BY <1>1 DEF Typed, Sessions
<1>2. f \in Files /\ lastId \in 0..MaxEntries /\ MaxEntries \in Nat
  BY <1>1, SessionTreeAssumption DEF Typed
<1>3. /\ SourceOf(p) = IF file.exists /\ Load(file) # <<>> THEN Load(file) ELSE <<Header>>
      /\ Load(file) \in Seq(Lines)
  BY <1>2, OpenedIs, LoadIs DEF SourceOf
<1>4. IdsOf(<<Header>>) = {}
  BY HeaderHasHeader, HeaderType DEF IdsOf, Entries
<1>5. file.exists /\ SourceOf(p) = Load(file)
  BY <1>3, <1>4
<1>6. FileSound(f)
  BY <1>2 DEF IInv
<1>7. Load(file) # <<>> /\ Load(file) = file.lines
  <2>1. IdsOf(<<>>) = {}
    BY DEF IdsOf, Entries, ToSet
  <2> QED BY <1>5, <2>1, LoadIs
<1>8. Dated(SourceOf(p)) /\ (Intact(f) => InOrder(SourceOf(p), f))
  BY <1>5, <1>6, <1>7 DEF FileSound
<1>9. Dated(lines)
  BY DEF IInv, MemorySound
<1>10. Older(lines) /\ IdsOf(lines) \subseteq 1..lastId
  BY <1>1, <1>9, DatedIsOlder
<1>11. parent \in 0..MaxEntries
  <2>1. parent = ParentOf(lines, user) /\ user \in 1..lastId
    BY <1>10 DEF ParentOfUser, ParentOf
  <2>2. parent \in Nat /\ parent < user
    BY <1>10, <2>1 DEF Older
  <2> QED BY <1>2, <2>1, <2>2
<1>12. MessagesOf(lines, parent) \in SUBSET Nat
  <2>1. MessagesOf(lines, parent) \subseteq IdsOf(lines)
    BY <1>10, <1>11, BranchHas
  <2> QED BY <1>10, <2>1
<1> QED BY <1>2, <1>3, <1>5, <1>7, <1>8, <1>11, <1>12

LEMMA ForkCopiesSound ==
  ASSUME IInv, NEW p \in Alive, NEW user, user \in IdsOf(mem[p].lines),
         NEW name \in Files, ~disk[name].exists, \A q \in Processes : mem[q].file # name,
         ParentOfUser(p, user) \in IdsOf(SourceOf(p)), ForkCopies(p, user, name)
  PROVE  IInv' /\ Kept
<1> PICK f : f = mem[p].file
  OBVIOUS
<1> PICK parent : parent = ParentOfUser(p, user)
  OBVIOUS
<1> PICK lines : lines = SourceOf(p)
  OBVIOUS
<1> PICK forked : forked = CopyOf(p, user)
  OBVIOUS
<1> PICK copy : copy = FileOf(p, user, name)
  OBVIOUS
<1> PICK o : o = Opened(name, copy)
  OBVIOUS
<1> PICK expected : expected = MessagesOf(mem[p].lines, parent)
  OBVIOUS
<1> PICK m : m = [o EXCEPT !.expected = expected, !.expectedLabels = LabelsOf(lines) \cap expected]
  OBVIOUS
<1> PICK lost : lost = disk[name].lost \cup disk[f].lost
  OBVIOUS
<1>1. /\ f \in Files /\ disk[f].exists /\ disk[f] \in DiskFiles
      /\ lines = disk[f].lines /\ lines \in Seq(Lines) /\ Dated(lines)
      /\ Intact(f) => InOrder(lines, f)
      /\ parent \in 0..MaxEntries /\ expected \in SUBSET Nat
  BY SourceIs
<1>2. Typed /\ p \in Processes /\ lastId \in Nat
  BY SessionTreeAssumption DEF IInv, Typed, Alive
<1>3. name # f /\ name \in Files \ {f}
  BY <1>1
<1>4. FileSound(name) /\ disk[name] \in DiskFiles /\ disk[name].lines = <<>>
  BY <1>2 DEF IInv, Typed, FileSound
<1>5. lost \in SUBSET Nat
  BY <1>1, <1>4 DEF DiskFiles
<1>6. forked = ForkedLines(lines, parent)
  BY DEF CopyOf
<1>7. PICK k, n, kept, targets : ForkShape(lines, parent, forked, k, n, kept, targets)
  <2>1. \E k, n, kept, targets : ForkShape(lines, parent, ForkedLines(lines, parent), k, n, kept, targets)
    BY ONLY <1>1, <1>2, ForkedIs
  <2> QED BY <1>6, <2>1
<1>8. /\ HasHeader(forked) /\ IsInjective(forked)
      /\ Cardinality({i \in DOMAIN forked : forked[i].kind = "label"}) = n
  BY ONLY <1>1, <1>2, <1>7, ForkedOnce
<1>9. forked \in Seq(Lines) /\ n \in Nat
  BY <1>7 DEF ForkShape
<1>10. /\ lastId' = lastId + n /\ lastId' <= MaxEntries
       /\ disk' = [disk EXCEPT ![name] = copy] /\ mem' = [mem EXCEPT ![p] = m]
  BY <1>8 DEF ForkCopies, MadeBy
<1>11. Later
  BY <1>2, <1>9, <1>10, SessionTreeAssumption DEF Later
<1>12. /\ copy \in DiskFiles /\ copy.exists = HasAssistant(forked)
       /\ copy.lines = IF HasAssistant(forked) THEN forked ELSE <<>>
       /\ copy.end = "whole" /\ copy.bare = FALSE /\ copy.shared = FALSE /\ copy.lost = lost
  <2>1. copy = [(IF HasAssistant(forked) THEN [Absent EXCEPT !.exists = TRUE, !.lines = forked]
                 ELSE Absent) EXCEPT !.lost = lost]
    BY Zenon DEF FileOf
  <2>2. Copied(copy, forked, lost)
    BY ONLY <1>5, <1>9, <2>1, CopyIs, Zenon
  <2> QED BY <2>2 DEF Copied
<1>13. /\ o \in Sessions /\ o.alive /\ o.file = name /\ o.next = 0
  BY ONLY <1>3, <1>12, OpenedIs, o = Opened(name, copy)
<1>14. /\ m \in Sessions /\ m.alive /\ m.file = o.file /\ m.lines = o.lines /\ m.leaf = o.leaf
       /\ m.labels = o.labels /\ m.flushed = o.flushed /\ m.next = o.next /\ m.anew = o.anew
  <2> PICK labels \in SUBSET Nat : labels = LabelsOf(lines) \cap expected
    BY <1>1
  <2>1. m = [o EXCEPT !.expected = expected, !.expectedLabels = labels]
    OBVIOUS
  <2> QED BY ONLY <1>1, <1>13, <2>1, labels \in SUBSET Nat DEF Sessions
<1>15. /\ disk' \in [Files -> DiskFiles] /\ disk'[name] = copy
       /\ \A g \in Files \ {name} : disk'[g] = disk[g]
  BY <1>2, <1>10, <1>12 DEF Typed
<1>16. Grown /\ Kept
  <2>1. ToSet(disk[name].lines) = {} /\ ToSet(Load(disk[name])) = {}
    BY <1>4 DEF ToSet, Load
  <2>2. disk[name].lost \subseteq copy.lost
    BY <1>12
  <2>3. Grown
    BY ONLY <1>15, <2>1, <2>2 DEF Grown
  <2>4. Kept
    BY ONLY <1>15, <2>1 DEF Kept
  <2> QED BY <2>3, <2>4
<1>17. Touches(p, name) /\ mem'[p] = m
  <2>1. m.alive /\ m.file = name /\ m.next = 0
    BY <1>13, <1>14
  <2>2. mem' = [mem EXCEPT ![p] = m]
    BY <1>10
  <2>3. Moves(p, name, m)
    BY ONLY <1>2, <1>11, <1>14, <1>15, <1>16, <2>1, <2>2, p \in Alive,
            name \in Files, \A q \in Processes : mem[q].file # name DEF Moves
  <2> QED BY ONLY <1>2, <2>3, OnItsOwn
<1>18. FileSound(name)'
  <2>1. Dated(forked)'
    <3>1. lastId' = lastId + n
      BY <1>10
    <3> QED BY ONLY <1>1, <1>2, <1>7, <1>11, <3>1, ForkedDated
  <2>2. Dated(<<>>)'
    BY DEF Dated, ToSet
  <2>3. ASSUME copy.lost = {}
        PROVE  InOrder(forked, name)'
    <3>1. InOrder(lines, f) /\ disk[name].lost = {}
      BY <1>1, <1>12, <2>3 DEF Intact
    <3>2. InOrder(forked, name)
      BY ONLY <1>1, <1>2, <1>3, <1>4, <1>7, <3>1, ForkedInOrder
    <3> QED BY <1>2, <1>16, <3>2, OrderStays
  <2>4. InOrder(<<>>, name)' /\ Once(<<>>, FALSE)
    BY DEF InOrder, Once
  <2>5. Once(forked, FALSE)
    BY <1>8 DEF Once, IsInjective
  <2> QED BY ONLY <1>8, <1>12, <1>15, <2>1, <2>2, <2>3, <2>4, <2>5 DEF FileSound, Intact
<1>19. MemorySound(p)'
  <2>1. copy.exists => HasAssistant(Load(copy))
    BY <1>8, <1>12, LoadIs
  <2> QED BY ONLY <1>3, <1>12, <1>14, <1>15, <1>17, <1>18, <2>1, HasRead, o = Opened(name, copy)
<1>20. IInv'
  BY ONLY IInv, <1>2, <1>17, <1>18, <1>19, TouchSound, name \in Files
<1> QED BY <1>16, <1>20

-----------------------------------------------------------------------------
(* Every step                                                                *)

LEMMA InitIInv == Init => IInv
<1> SUFFICES ASSUME Init PROVE IInv
  OBVIOUS
<1>1. <<>> \in Seq(Lines)
  OBVIOUS
<1>2. \A name \in Files : /\ disk[name] \in DiskFiles /\ disk[name].lines = <<>>
                          /\ disk[name].end = "whole"
  <2> PICK e : e = [Absent EXCEPT !.exists = TRUE]
    OBVIOUS
  <2>1. \A file \in {Absent, e} : file \in DiskFiles /\ file.lines = <<>> /\ file.end = "whole"
    <3>1. Absent \in DiskFiles /\ Absent.lines = <<>> /\ Absent.end = "whole"
      BY <1>1 DEF Absent, DiskFiles, Ends
    <3>2. e \in DiskFiles /\ e.lines = <<>> /\ e.end = "whole"
      BY <3>1 DEF DiskFiles
    <3> QED BY <3>1, <3>2
  <2>2. \A name \in Files : disk[name] \in {Absent, e}
    BY DEF Init
  <2> QED BY <2>1, <2>2
<1>3. disk \in [Files -> DiskFiles]
  BY <1>2 DEF Init
<1>4. Dead \in Sessions /\ ~Dead.alive /\ Dead.next = 0 /\ ~Dead.anew
  BY <1>1 DEF Dead, Sessions, Root
<1>5. mem \in [Processes -> Sessions] /\ Alive = {} /\ \A p \in Processes : Idle(p)
  BY <1>4 DEF Init, Alive, Idle
<1>6. Typed
  BY <1>3, <1>5, SessionTreeAssumption DEF Init, Typed
<1>7. \A name \in Files : FileSound(name)
  <2>1. \A name : Dated(<<>>) /\ InOrder(<<>>, name)
    BY DEF Dated, ToSet, InOrder
  <2>2. \A shared : Once(<<>>, shared)
    BY DEF Once
  <2> QED BY <1>2, <2>1, <2>2 DEF FileSound
<1> QED BY <1>5, <1>6, <1>7 DEF IInv

LEMMA EntryIsFresh ==
  ASSUME IInv, NEW p \in Alive, NEW kind \in Kinds \cup {"note"}, NEW id,
         id \in IdsOf(mem[p].lines) \cup {Root}
  PROVE  Fresh(p, Entry(kind, lastId + 1, id))
<1>1. lastId + 1 \in Nat /\ kind \in MessageKinds
  BY SessionTreeAssumption DEF IInv, Typed, MessageKinds
<1>2. IdsOf(mem[p].lines) \subseteq Nat
  BY LinesIn DEF IInv, Typed, Sessions, Alive
<1> QED BY <1>1, <1>2 DEF Fresh, Entry, Lines, LineKinds, MessageKinds, Root

LEMMA LabelIsFresh ==
  ASSUME IInv, NEW p \in Alive, NEW target \in Ids, NEW label \in BOOLEAN
  PROVE  Fresh(p, LabelEntry(lastId + 1, mem[p].leaf, target, label))
<1>1. lastId + 1 \in Nat /\ target \in Nat
  BY SessionTreeAssumption DEF IInv, Typed, Ids
<1>2. mem[p].leaf \in IdsOf(mem[p].lines) \cup {Root} /\ mem[p].leaf \in Nat
  BY DEF IInv, MemorySound, Typed, Sessions, Alive
<1> QED BY <1>1, <1>2 DEF Fresh, LabelEntry, Lines, LineKinds

LEMMA NextSound ==
  ASSUME IInv, [Next]_vars
  PROVE  IInv' /\ Kept
<1>0. disk' = disk => Kept
  BY SameKept
<1>1. ASSUME NEW p \in Processes, NEW kind \in Kinds, AppendMessage(p, kind)
      PROVE  IInv' /\ Kept
  <2>1. p \in Alive /\ mem[p].leaf \in IdsOf(mem[p].lines) \cup {Root} /\ disk' = disk
    BY <1>1 DEF AppendMessage, AppendEntry, Alive, IInv, MemorySound
  <2>2. Fresh(p, Entry(kind, lastId + 1, mem[p].leaf))
    BY <2>1, EntryIsFresh
  <2> QED BY <1>0, <1>1, <2>1, <2>2, AppendEntrySound DEF AppendMessage
<1>2. ASSUME NEW p \in Processes, NEW target \in Ids, NEW label \in BOOLEAN,
             AppendLabelChange(p, target, label)
      PROVE  IInv' /\ Kept
  <2>1. p \in Alive /\ disk' = disk
    BY <1>2 DEF AppendLabelChange, AppendEntry, Alive
  <2>2. Fresh(p, LabelEntry(lastId + 1, mem[p].leaf, target, label))
    BY <2>1, LabelIsFresh
  <2> QED BY <1>0, <1>2, <2>1, <2>2, AppendEntrySound DEF AppendLabelChange
<1>3. ASSUME NEW p \in Processes, NEW id, BranchWithSummary(p, id)
      PROVE  IInv' /\ Kept
  <2>1. p \in Alive /\ id \in IdsOf(mem[p].lines) \cup {Root} /\ disk' = disk
    BY <1>3 DEF BranchWithSummary, AppendEntry, Alive
  <2>2. Fresh(p, Entry("note", lastId + 1, id))
    BY <2>1, EntryIsFresh
  <2> QED BY <1>0, <1>3, <2>1, <2>2, AppendEntrySound DEF BranchWithSummary
<1>4. ASSUME NEW p \in Processes, NEW id, MoveLeaf(p, id)
      PROVE  IInv' /\ Kept
  BY <1>0, <1>4, MoveLeafSound DEF MoveLeaf
<1>5. ASSUME NEW p \in Processes, NEW name \in Files, Open(p, name)
      PROVE  IInv' /\ Kept
  <2>1. \A f \in Files : disk'[f].lines = disk[f].lines
    BY <1>5 DEF Open, IInv, Typed, DiskFiles
  <2> QED BY <1>5, <2>1, OpenSound, SameKept
<1>6. ASSUME NEW p \in Processes, Crash(p)
      PROVE  IInv' /\ Kept
  BY <1>0, <1>6, CrashSound DEF Crash
<1>7. ASSUME NEW p \in Processes, NEW user \in Ids, NEW name \in Files, Fork(p, user, name)
      PROVE  IInv' /\ Kept
  <2>1. /\ p \in Alive /\ Idle(p) /\ user \in IdsOf(mem[p].lines)
        /\ ~disk[name].exists /\ \A q \in Processes : mem[q].file # name
        /\ \/ ForkNothing(p, name)
           \/ ForkFails(p)
           \/ ParentOfUser(p, user) \in IdsOf(SourceOf(p)) /\ ForkCopies(p, user, name)
    BY <1>7, ForkMeans DEF Alive
  <2>2. ForkNothing(p, name) \/ ForkFails(p) => Kept
    BY <1>0 DEF ForkNothing, ForkFails
  <2> QED BY <2>1, <2>2, ForkNothingSound, ForkFailsSound, ForkCopiesSound
<1>8. ASSUME UNCHANGED vars
      PROVE  IInv' /\ Kept
  <2>1. disk' = disk /\ mem' = mem /\ lastId' = lastId /\ Alive' = Alive
    BY <1>8 DEF vars, Alive
  <2>2. Typed /\ Later /\ Grown
    BY <2>1, SameFiles DEF IInv
  <2>3. Typed'
    BY <2>1, <2>2 DEF Typed, Idle
  <2>4. \A name \in Files : FileSound(name)'
    BY <2>1, <2>2, FileStays DEF IInv
  <2>5. \A p \in Alive : MemorySound(p)'
    <3> TAKE p \in Alive
    <3> PICK f : f = mem[p].file
      OBVIOUS
    <3>1. Undisturbed(p, disk[f], disk'[f]) /\ mem'[p] = mem[p] /\ MemorySound(p)
      BY <2>1, SameUndisturbed DEF IInv
    <3> QED BY ONLY <2>2, <3>1, OthersStay, p \in Alive, f = mem[p].file
  <2>6. \A p, q \in Alive : p # q => ApartFrom(p, q)'
    <3> HIDE DEF Unstored, Stored
    <3> QED BY <2>1 DEF IInv, ApartFrom, Intact
  <2> QED BY <1>0, <2>1, <2>3, <2>4, <2>5, <2>6 DEF IInv
<1> QED BY <1>1, <1>2, <1>3, <1>4, <1>5, <1>6, <1>7, <1>8,
           AppendLineSound, WriteFailsSound, WriteAnewSound DEF Next

-----------------------------------------------------------------------------
(* What the invariant says                                                   *)

LEMMA SafeReopen == IInv => ReopensAsItIs
<1> SUFFICES ASSUME IInv, NEW p \in Settled, Intact(mem[p].file)
             PROVE  /\ HasAssistant(mem[p].lines) =>
                         ToSet(mem[p].lines) \subseteq ToSet(Load(disk[mem[p].file]))
                    /\ mem[p].labels = LabelsOf(mem[p].lines)
  BY DEF ReopensAsItIs, AnsweredIsOnDisk, LabelsAsRebuilt
<1> PICK m \in Sessions : m = mem[p]
  BY DEF IInv, Typed, Settled, Alive
<1>1. OnDisk(p) /\ m.next = 0 /\ ~m.anew
  BY DEF IInv, MemorySound, Settled, Idle
<1>2. m.labels = LabelsOf(m.lines)
  BY <1>1 DEF OnDisk
<1>3. ASSUME HasAssistant(m.lines)
      PROVE  ToSet(m.lines) \subseteq ToSet(Load(disk[m.file]))
  <2>1. Stored(m) = Len(m.lines)
    BY <1>1, <1>3 DEF OnDisk, Stored
  <2>2. DOMAIN m.lines = 1..Stored(m)
    BY <2>1, LenProperties DEF Sessions
  <2>3. \A i \in 1..Stored(m) : m.lines[i] \in ToSet(Load(disk[m.file]))
    BY <1>1 DEF OnDisk
  <2> QED BY ONLY <2>2, <2>3 DEF ToSet
<1> QED BY <1>2, <1>3

LEMMA SafeTree == IInv => FileIsATree
<1>1. ASSUME IInv, NEW name \in Files, NEW lines, lines = Load(disk[name]), Intact(name)
      PROVE  (~disk[name].bare => Once(lines, disk[name].shared)) /\ InOrder(lines, name)
  <2> PICK file \in DiskFiles : file = disk[name]
    BY <1>1 DEF IInv, Typed
  <2>1. FileSound(name)
    BY <1>1 DEF IInv
  <2>2. CASE lines = <<>>
    BY <2>2 DEF Once, InOrder
  <2>3. CASE lines # <<>>
    <3>1. lines = file.lines
      BY <1>1, <2>3, LoadIs
    <3> QED BY <1>1, <2>1, <3>1 DEF FileSound
  <2> QED BY <2>2, <2>3
<1>2. IInv => WrittenOnce
  BY <1>1 DEF WrittenOnce, Once
<1>3. IInv => ParentsComeFirst
  <2> SUFFICES ASSUME IInv, NEW name \in Files, Intact(name), NEW lines, lines = Load(disk[name]),
                      NEW i \in DOMAIN lines
               PROVE  \/ lines[i].parent = Root
                      \/ \E j \in 1..(i - 1) : lines[j].id = lines[i].parent
                      \/ LeftOut(name, lines[i].parent)
    BY DEF ParentsComeFirst, LeftOut
  <2> QED BY <1>1 DEF InOrder
<1> QED BY <1>2, <1>3 DEF FileIsATree

(* While no write to its file has failed, everything a process that is not in  *)
(* the middle of writing holds of a session that has an answer is on disk, and *)
(* its labels are those that opening the file would give (session-manager.ts   *)
(* 796-821, 1001-1022): for any number of processes that write line by line    *)
(* into the same files, of entries, opens and forks.                           *)
THEOREM Reopened == Spec => []ReopensAsItIs
<1>1. Init => IInv
  BY InitIInv
<1>2. IInv /\ [Next]_vars => IInv'
  BY NextSound
<1>3. IInv => ReopensAsItIs
  BY SafeReopen
<1> QED BY <1>1, <1>2, <1>3, PTL DEF Spec

(* A file has its header and every entry once, unless it was opened without an *)
(* answer, and every parent before its children, unless it is a label entry    *)
(* that a fork left out or an entry lost since from the file that was forked;  *)
(* processes that start the same file at the same time, which nothing keeps    *)
(* them from (session-manager.ts 695-722), each add a header but never an      *)
(* entry twice (session-manager.ts 796-821, 1165-1217).                        *)
THEOREM TreeHolds == Spec => []FileIsATree
<1>1. Init => IInv
  BY InitIInv
<1>2. IInv /\ [Next]_vars => IInv'
  BY NextSound
<1>3. IInv => FileIsATree
  BY SafeTree
<1> QED BY <1>1, <1>2, <1>3, PTL DEF Spec

(* What could be loaded from a file stays in it, failed writes, forks and      *)
(* crashes included, with the two losses that the code allows: a last line     *)
(* whose newline was not written is destroyed by the next append               *)
(* (session-manager.ts 438-447, 808-812), and a process that found nothing to  *)
(* load writes the file anew over what others have put there since (700-705).  *)
THEOREM EntriesKept == Spec => EntriesStay
<1>1. Init => IInv
  BY InitIInv
<1>2. IInv /\ [Next]_vars => IInv'
  BY NextSound
<1>3. IInv /\ [Next]_vars =>
        [\A name \in Files : \A line \in ToSet(Load(disk[name])) :
           \/ line \in ToSet(Load(disk'[name]))
           \/ line \in Unended(disk[name])
           \/ WrittenAnew(name, line)]_vars
  BY NextSound DEF Kept
<1> QED BY <1>1, <1>2, <1>3, PTL DEF Spec, EntriesStay
=====
