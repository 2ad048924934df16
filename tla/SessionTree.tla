----------------------------- MODULE SessionTree -----------------------------
(* The session tree and its file (coding-agent/src/core/session-manager.ts and *)
(* AgentSessionRuntime.fork).                                                  *)
(*                                                                             *)
(* A session is a file of lines, a header and then entries that name their     *)
(* parents. Each process holds the lines in memory, the leaf new entries are   *)
(* appended to, and the labels. Nothing is written before the session has an   *)
(* assistant message; then everything is, and from there on line by line. Each *)
(* line is a write of its own: other processes read and append between two of  *)
(* them. A process may die at any time and a write may stop half way, leaving  *)
(* nothing, the beginning of a line, or all of it but the newline. A beginning *)
(* cannot be parsed and is skipped. A line without its newline can be, until   *)
(* the next one is appended right behind it: then neither can.                 *)
(* Sessions that are not persisted at all are not modelled.                    *)
EXTENDS Integers, Sequences, FiniteSets, SequencesExt

CONSTANTS
  Processes,
  Files,
  Kinds,        \* the kinds of entries besides labels that are appended
  MaxEntries,   \* bound: entries ever made
  MaxIncidents  \* bound: opens, moves of the leaf, failed writes and forks together

ASSUME SessionTreeAssumption ==
  /\ Kinds \subseteq {"user", "assistant", "note"}
  /\ MaxEntries \in Nat
  /\ MaxIncidents \in Nat

VARIABLES
  disk,     \* the files
  mem,      \* the session manager of each process
  lastId,   \* id of the entry made last
  incidents \* opens, moves, failed writes and forks so far

vars == <<disk, mem, lastId, incidents>>

\* "note" stands for every entry that is in the context and needs no answer:
\* bash messages, custom messages, branch summaries.
MessageKinds == {"user", "assistant", "note"}
Root == 0
Ids == 1..MaxEntries
NoFile == "none"

Header == [kind |-> "session", id |-> Root, parent |-> Root, target |-> Root, label |-> FALSE]
Entry(kind, id, parent) ==
  [kind |-> kind, id |-> id, parent |-> parent, target |-> Root, label |-> FALSE]
LabelEntry(id, parent, target, label) ==
  [kind |-> "label", id |-> id, parent |-> parent, target |-> target, label |-> label]

\* end: what the file ends with: "whole" lines only, a line that is "open", that
\* is, has no newline, or a fragment that cannot be parsed.
Absent == [exists |-> FALSE, lines |-> <<>>, end |-> "whole", lost |-> {}, bare |-> FALSE,
           shared |-> FALSE]
\* Ghosts. lost: ids that were not written whole or were taken away again. bare:
\* opened without an answer. shared: begun by several processes.

Entries(lines) == {l \in ToSet(lines) : l.kind # "session"}
IdsOf(lines) == {l.id : l \in Entries(lines)}
LineOf(lines, id) == CHOOSE l \in Entries(lines) : l.id = id
HasAssistant(lines) == \E i \in DOMAIN lines : lines[i].kind = "assistant"

\* getBranch: the ids from the root to an entry; it stops where a parent is missing.
Branch(lines, id) ==
  LET branch[i \in 0..MaxEntries] ==
        IF i \notin IdsOf(lines) THEN {} ELSE {i} \cup branch[LineOf(lines, i).parent]
  IN branch[id]

MessagesOf(lines, id) == {i \in Branch(lines, id) : LineOf(lines, i).kind \in MessageKinds}

\* _buildIndex: the last label entry of a target decides, and the last entry is
\* the leaf.
LabelsOf(lines) ==
  LET about(t) == {i \in DOMAIN lines : lines[i].kind = "label" /\ lines[i].target = t}
  IN {t \in {l.target : l \in Entries(lines)} :
        \E i \in about(t) : lines[i].label /\ \A j \in about(t) : j <= i}

LeafOf(lines) ==
  LET at == {i \in DOMAIN lines : lines[i].kind # "session"}
  IN IF at = {} THEN Root ELSE lines[Max(at)].id

\* loadEntriesFromFile: without a header in front the file does not count.
Load(file) ==
  IF file.lines = <<>> \/ Head(file.lines).kind # "session" THEN <<>> ELSE file.lines

-----------------------------------------------------------------------------
(* Writing                                                                     *)

\* appendFileSync of a line gets this far: to the "whole" of it, to all but the
\* newline ("open"), to a "part" of it, or no further than to "create" the file.
\* What stood at the end without a newline is garbled with it.
Extended(file, line, end) ==
  LET glued == file.end # "whole"
      garbled == file.end = "open" /\ end # "create"
  IN [file EXCEPT
        !.exists = TRUE,
        !.lines = (IF garbled THEN Front(@) ELSE @)
                    \o (IF ~glued /\ end \in {"whole", "open"} THEN <<line>> ELSE <<>>),
        !.end = IF end = "create" THEN @ ELSE IF glued /\ end = "open" THEN "part" ELSE end,
        !.lost = @ \cup (IF garbled THEN {Last(file.lines).id} ELSE {})
                   \cup (IF glued \/ end # "whole" THEN {line.id} ELSE {})]

OnlyTheLast(m, lines) == IF HasAssistant(lines) THEN Len(lines) ELSE 0 \* mutant

\* _persist, for an entry that is already in memory: the line it appends first, and
\* from there to the last; none without an answer.
FirstToWrite(m, lines) ==
  IF ~HasAssistant(lines) THEN 0 ELSE IF ~m.flushed THEN 1 ELSE Len(lines)

-----------------------------------------------------------------------------
(* Opening and forking                                                         *)

Dead == [alive |-> FALSE, file |-> NoFile, lines |-> <<>>, leaf |-> Root, labels |-> {},
         flushed |-> FALSE, next |-> 0, anew |-> FALSE, found |-> {},
         expected |-> {}, expectedLabels |-> {}]
\* next: the line that is appended next, or 0; anew: about to write the file anew
\* found: ghost, what could be loaded from it when that was decided
\* expected: ghost, the messages a fork was to inherit, until something is appended

\* newSession
FreshSession(name) == [Dead EXCEPT !.alive = TRUE, !.file = name, !.lines = <<Header>>]

\* setSessionFile; files without an entry to load are started afresh
WhenUnanswered(file) == file.exists /\ ~HasAssistant(file.lines) \* mutant
Hopeless(file) == file.exists /\ Load(file) = <<>>
Opened(name, file) ==
  IF ~file.exists THEN FreshSession(name)
  ELSE IF Hopeless(file) THEN [FreshSession(name) EXCEPT !.flushed = TRUE, !.anew = TRUE,
                                                                !.found = ToSet(Load(file))]
  ELSE LET lines == Load(file)
       IN [FreshSession(name) EXCEPT !.lines = lines, !.leaf = LeafOf(lines),
                                     !.labels = LabelsOf(lines), !.flushed = TRUE]

InSequence(ids) ==
  CHOOSE s \in [1..Cardinality(ids) -> ids] : \A i, j \in DOMAIN s : i < j => s[i] < s[j]

LinesOf(lines, ids) == [i \in DOMAIN ids |-> LineOf(lines, ids[i])]

WithoutLabels(lines, id) == \* mutant
  <<Header>> \o LinesOf(lines, InSequence(MessagesOf(lines, id)))


\* createBranchedSession: the path without its label entries, then one label
\* entry for every entry of it that has a label now.
ForkedLines(lines, id) ==
  LET path == {i \in Branch(lines, id) : LineOf(lines, i).kind # "label"}
      kept == InSequence(path)
      targets == InSequence(LabelsOf(lines) \cap path)
      parent(i) == IF i > 1 THEN lastId + i - 1
                   ELSE IF path = {} THEN Root ELSE Last(kept)
  IN <<Header>> \o LinesOf(lines, kept)
       \o [i \in DOMAIN targets |-> LabelEntry(lastId + i, parent(i), targets[i], TRUE)]

-----------------------------------------------------------------------------
Init ==
  /\ disk \in [Files -> {Absent, [Absent EXCEPT !.exists = TRUE]}]
  /\ mem = [p \in Processes |-> Dead]
  /\ lastId = 0
  /\ incidents = Cardinality({f \in Files : disk[f].exists})

Incidents(n) ==
  /\ incidents' = incidents + n
  /\ incidents' <= MaxIncidents

\* What a process does with its files it does without a pause, so that it is seen
\* in the middle of that by other processes only.
Idle(p) == mem[p].next = 0 /\ ~mem[p].anew

\* The entry is in memory, the leaf is there, whatever happens to the write.
Pushed(m, line) ==
  LET lines == Append(m.lines, line)
  IN [m EXCEPT !.lines = lines, !.leaf = line.id, !.expected = {}, !.expectedLabels = {},
               !.flushed = @ /\ HasAssistant(lines), !.next = FirstToWrite(m, lines)]

\* appendLabelChange, after _appendEntry.
Relabelled(labels, line) ==
  IF line.kind # "label" THEN labels
  ELSE IF line.label THEN labels \cup {line.target} ELSE labels \ {line.target}
WithLabel(m, line) == [m EXCEPT !.labels = Relabelled(@, line)]

NotMarked(m) == [m EXCEPT !.next = 0] \* mutant

MarkFlushed(m) == [m EXCEPT !.next = 0, !.flushed = TRUE]

\* _appendEntry, up to the first line that is written
AppendEntry(p, line, moved) ==
  LET pushed == Pushed(mem[p], line)
  IN /\ mem[p].alive /\ Idle(p)
     /\ lastId < MaxEntries
     /\ lastId' = lastId + 1
     /\ mem' = [mem EXCEPT ![p] = IF pushed.next = 0 THEN WithLabel(pushed, line) ELSE pushed]
     /\ Incidents(moved)
     /\ UNCHANGED disk

\* _persist, a line: it is written,
AppendLine(p) ==
  LET m == mem[p]
      line == m.lines[m.next]
  IN /\ m.next # 0
     /\ disk' = [disk EXCEPT ![m.file] = Extended(@, line, "whole")]
     /\ mem' = [mem EXCEPT ![p] = IF m.next < Len(m.lines) THEN [m EXCEPT !.next = @ + 1]
                                  ELSE WithLabel(MarkFlushed(m), line)]
     /\ UNCHANGED <<lastId, incidents>>

\* or appendFileSync throws, and the caller gets no further.
WriteFails(p) ==
  LET m == mem[p]
      line == m.lines[m.next]
  IN /\ m.next # 0
     /\ Incidents(1)
     /\ \E end \in {"create", "part", "open"} :
          disk' = [disk EXCEPT ![m.file] =
                     [Extended(disk[m.file], line, end) EXCEPT
                        !.lost = @ \cup {m.lines[i].id : i \in m.next..Len(m.lines)}]]
     /\ mem' = [mem EXCEPT ![p].next = 0]
     /\ UNCHANGED lastId

AppendMessage(p, kind) ==
  AppendEntry(p, Entry(kind, lastId + 1, mem[p].leaf), 0)

AppendLabelChange(p, target, label) ==
  /\ target \in IdsOf(mem[p].lines)
  /\ AppendEntry(p, LabelEntry(lastId + 1, mem[p].leaf, target, label), 0)


\* branch and resetLeaf
MoveLeaf(p, id) ==
  /\ mem[p].alive /\ Idle(p)
  /\ id \in IdsOf(mem[p].lines) \cup {Root}
  /\ Incidents(1)
  /\ mem' = [mem EXCEPT ![p].leaf = id, ![p].expected = {}, ![p].expectedLabels = {}]
  /\ UNCHANGED <<disk, lastId>>

BranchWithSummary(p, id) ==
  /\ id \in IdsOf(mem[p].lines) \cup {Root}
  /\ AppendEntry(p, Entry("note", lastId + 1, id), 1)

InUse(name, ps) == \E q \in ps : mem[q].file = name

\* A process starts on a file, or switches to it. Nothing keeps two of them from
\* starting on the same path before it is there.
Open(p, name) ==
  /\ Idle(p)
  /\ Incidents(1)
  /\ mem' = [mem EXCEPT ![p] = Opened(name, disk[name])]
  /\ disk' = [disk EXCEPT
       ![name].bare = @ \/ (disk[name].exists /\ ~HasAssistant(Load(disk[name]))),
       ![name].shared = @ \/ (~disk[name].exists /\ InUse(name, Processes \ {p}))]
  /\ UNCHANGED lastId

\* _rewriteFile: what the file holds by now is gone.
WriteAnew(p) ==
  LET name == mem[p].file
  IN /\ mem[p].anew
     /\ mem' = [mem EXCEPT ![p].anew = FALSE, ![p].found = {}]
     /\ disk' = [disk EXCEPT ![name] =
          [disk[name] EXCEPT !.exists = TRUE, !.lines = <<Header>>, !.end = "whole",
                             !.lost = @ \cup IdsOf(disk[name].lines)]]
     /\ UNCHANGED <<lastId, incidents>>

\* The process is killed.
Crash(p) ==
  /\ mem[p].alive
  /\ mem' = [mem EXCEPT ![p] = Dead]
  /\ UNCHANGED <<disk, lastId, incidents>>

\* AgentSessionRuntime.fork before a user message: what comes before it is copied
\* from the file, not from memory, and the copy is opened from its file in turn.
Fork(p, user, name) ==
  LET m == mem[p]
      parent == LineOf(m.lines, user).parent
      source == Opened(m.file, disk[m.file]).lines
      lines == ForkedLines(source, parent)
      made == lastId + Cardinality({i \in DOMAIN lines : lines[i].kind = "label"})
      written == IF HasAssistant(lines) THEN [Absent EXCEPT !.exists = TRUE, !.lines = lines]
                 ELSE Absent
      copy == [written EXCEPT !.lost = disk[name].lost \cup disk[m.file].lost]
  IN /\ m.alive /\ Idle(p)
     /\ user \in IdsOf(m.lines)
     /\ LineOf(m.lines, user).kind = "user"
     /\ ~disk[name].exists /\ ~InUse(name, Processes)
     /\ Incidents(1)
     /\ IF parent = Root
        THEN /\ mem' = [mem EXCEPT ![p] = FreshSession(name)]
             /\ UNCHANGED <<disk, lastId>>
        ELSE IF parent \notin IdsOf(source)
        THEN /\ mem' = [mem EXCEPT ![p].anew = Opened(m.file, disk[m.file]).anew,  \* "Entry not found"
                                    ![p].found = Opened(m.file, disk[m.file]).found]
             /\ UNCHANGED <<disk, lastId>>
        ELSE /\ made <= MaxEntries
             /\ lastId' = made
             /\ disk' = [disk EXCEPT ![name] = copy]
             /\ mem' = [mem EXCEPT ![p] =
                  [Opened(name, copy) EXCEPT !.expected = MessagesOf(m.lines, parent),
                                             !.expectedLabels = LabelsOf(source) \cap MessagesOf(m.lines, parent)]]

Next ==
  \E p \in Processes :
    \/ \E kind \in Kinds : AppendMessage(p, kind)
    \/ \E target \in Ids, label \in BOOLEAN : AppendLabelChange(p, target, label)
    \/ \E id \in Ids \cup {Root} : MoveLeaf(p, id) \/ BranchWithSummary(p, id)
    \/ \E name \in Files : Open(p, name)
    \/ AppendLine(p) \/ WriteFails(p) \/ WriteAnew(p) \/ Crash(p)
    \/ \E user \in Ids, name \in Files : Fork(p, user, name)

Spec == Init /\ [][Next]_vars

-----------------------------------------------------------------------------
(* Properties                                                                  *)

Alive == {p \in Processes : mem[p].alive}
Intact(name) == disk[name].lost = {}

Settled == {p \in Alive : Idle(p)}

\* Once a session has been answered, all of it is on disk: whoever opens the file
\* gets every entry that any process has in memory, and the labels that a process
\* keeps up entry by entry are those it would rebuild, unless a write failed.
AnsweredIsOnDisk ==
  \A p \in Settled :
    HasAssistant(mem[p].lines) /\ Intact(mem[p].file)
      => ToSet(mem[p].lines) \subseteq ToSet(Load(disk[mem[p].file]))
LabelsAsRebuilt ==
  \A p \in Settled : Intact(mem[p].file) => mem[p].labels = LabelsOf(mem[p].lines)
ReopensAsItIs == AnsweredIsOnDisk /\ LabelsAsRebuilt

\* A file has one header and every entry once ("exactly one header and no
\* duplicate IDs"), and a parent stands before its children, so that walking to
\* the root ends and meets every ancestor, whoever else writes in between. Not so
\* for files opened before they had an answer or after a failed write; processes
\* that begin the same file each write a header; a fork leaves out label entries.
WrittenOnce ==
  \A name \in Files :
    Intact(name) /\ ~disk[name].bare =>
      LET lines == Load(disk[name])
      IN \A i, j \in DOMAIN lines :
           lines[i] = lines[j] => i = j \/ (disk[name].shared /\ lines[i].kind = "session")
ParentsComeFirst ==
  \A name \in Files :
    LET lines == Load(disk[name])
    IN \A i \in DOMAIN lines :
         \/ lines[i].parent = Root
         \/ \E j \in 1..(i - 1) : lines[j].id = lines[i].parent
         \/ ~Intact(name)
         \/ \E q \in Files \ {name} :
              \/ lines[i].parent \in disk[q].lost
              \/ \E l \in Entries(disk[q].lines) : l.id = lines[i].parent /\ l.kind = "label"
FileIsATree == WrittenOnce /\ ParentsComeFirst

\* Nothing that could be loaded from a file is ever lost from it again, but a last
\* line without its newline to whatever is appended next, and what others append
\* between the moment a process finds nothing in the file and writes it anew.
Unended(file) == IF file.end = "open" THEN {Last(file.lines)} ELSE {}
WrittenAnew(name, line) ==
  \E p \in Processes :
    mem[p].file = name /\ mem[p].anew /\ ~mem'[p].anew /\ line \notin mem[p].found
EntriesStay ==
  [][\A name \in Files : \A line \in ToSet(Load(disk[name])) :
       \/ line \in ToSet(Load(disk'[name]))
       \/ line \in Unended(disk[name])
       \/ WrittenAnew(name, line)]_vars

Forked == {p \in Alive : mem[p].expected # {} /\ Intact(mem[p].file)}
Answered(p) == \E f \in Files : \E i \in DOMAIN disk[f].lines :
  disk[f].lines[i].id \in mem[p].expected /\ disk[f].lines[i].kind = "assistant"

\* A fork continues from the history before the selected message ("copies history
\* up to the selected point"), labels included, once there is an answer in it. The
\* exception: a message whose parent is a label entry, which the fork leaves out,
\* has lost what was before it.
ForkKeepsUnlabelledHistory ==
  \A p \in Forked :
    Answered(p) /\ (\A l \in Entries(mem[p].lines) : l.parent \in IdsOf(mem[p].lines) \cup {Root})
      => /\ MessagesOf(mem[p].lines, mem[p].leaf) = mem[p].expected
         /\ mem[p].labels \cap mem[p].expected = mem[p].expectedLabels
=============================================================================
