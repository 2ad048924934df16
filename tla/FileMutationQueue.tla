-------------------------- MODULE FileMutationQueue --------------------------
(***************************************************************************)
(* The write and edit tools (write.ts, edit.ts) and the queue that keeps    *)
(* mutations of one file apart (file-mutation-queue.ts).                    *)
(*                                                                          *)
(* withFileMutationQueue(path, fn) chains promises: the map holds, per key, *)
(* the promise of the last caller, a new caller awaits it and puts its own  *)
(* in its place.  The key is the real path of a file that exists and the    *)
(* path as given of one that does not.  `fn' is the body of a tool: a       *)
(* promise that an abort rejects at once, around an async function that     *)
(* notices the abort only after the file operation it is awaiting.          *)
(*                                                                          *)
(* A file's content is the set of the calls whose text is in it.            *)
(***************************************************************************)
EXTENDS Naturals, Sequences

CONSTANTS
  Calls,        \* tool calls, each made at most once
  Paths,        \* paths the calls may name
  RealPath,     \* RealPath[p] \in Paths: p with its symbolic links resolved
  MaxAborts,    \* bound: aborts of the agent's run
  None

ASSUME PathsAssumption ==
  /\ Paths # {} /\ RealPath \in [Paths -> Paths]
  /\ None \notin Calls
  /\ MaxAborts \in Nat

VARIABLES
  fileMutationQueues,  \* key -> the call whose chainedQueue is stored, or None
  key,                 \* key of each call, fixed when it is made
  currentQueue,        \* the call whose chainedQueue it awaits, or None
  stage,               \* "new", "queued", "running" or "released"
  tool, path,          \* arguments of the call
  body,                \* the await its body is suspended at
  outcome,             \* of the promise the body settles: "none", "ok", "error"
  aborted,             \* calls whose signal was aborted
  snapshot,            \* what edit has read
  exists,              \* real paths of files that exist
  content,
  line,                \* per key, the pending calls in the order they came
  existing,            \* the files there were at the start
  applied,             \* content if all calls had been made one by one
  aborts

queueVars == <<fileMutationQueues, key, currentQueue, line>>
callVars == <<tool, path>>
bodyVars == <<body, outcome, snapshot>>
diskVars == <<exists, content, existing, applied>>
abortVars == <<aborted, aborts>>
vars == <<queueVars, callVars, bodyVars, diskVars, abortVars, stage>>

Init ==
  /\ fileMutationQueues = [k \in Paths |-> None]
  /\ key = [c \in Calls |-> CHOOSE p \in Paths : TRUE]
  /\ currentQueue = [c \in Calls |-> None]
  /\ stage = [c \in Calls |-> "new"]
  /\ tool = [c \in Calls |-> "write"] /\ path = key
  /\ body = [c \in Calls |-> "none"] /\ outcome = [c \in Calls |-> "none"]
  /\ aborted = {} /\ snapshot = [c \in Calls |-> {}]
  /\ existing \in SUBSET {RealPath[p] : p \in Paths} /\ exists = existing
  /\ content = [f \in Paths |-> {}] /\ applied = [f \in Paths |-> {}]
  /\ line = [k \in Paths |-> <<>>] /\ aborts = 0

File(c) == RealPath[path[c]]
Pending(c) == stage[c] \in {"queued", "running"}

-----------------------------------------------------------------------------
(* The queue.  A definition marked `mutant' is a deliberate bug.            *)

(* getMutationQueueKey: realpath fails for a file that is not there yet.    *)
AsGiven(p) == p                                                  \* mutant
MutationQueueKey(p) == IF RealPath[p] \in exists THEN RealPath[p] ELSE p

(* withFileMutationQueue, up to `await currentQueue'.                       *)
Call(c, t, p) ==
  LET k == MutationQueueKey(p) IN
  /\ stage[c] = "new"
  /\ stage' = [stage EXCEPT ![c] = "queued"]
  /\ tool' = [tool EXCEPT ![c] = t] /\ path' = [path EXCEPT ![c] = p]
  /\ key' = [key EXCEPT ![c] = k]
  /\ currentQueue' = [currentQueue EXCEPT ![c] = fileMutationQueues[k]]
  /\ fileMutationQueues' = [fileMutationQueues EXCEPT ![k] = c]
  /\ line' = [line EXCEPT ![k] = Append(@, c)]
  /\ UNCHANGED <<bodyVars, diskVars, abortVars>>

(* Nobody before it holds the queue: the promise it awaits is resolved.     *)
ResolvedAtOnce(c) == TRUE                                        \* mutant
Resolved(c) ==
  currentQueue[c] # None => stage[currentQueue[c]] = "released"

(* fn() starts; a body that finds its signal aborted rejects at once.       *)
Start(c) ==
  /\ stage[c] = "queued" /\ Resolved(c)
  /\ stage' = [stage EXCEPT ![c] = "running"]
  /\ IF c \in aborted
     THEN outcome' = [outcome EXCEPT ![c] = "error"] /\ UNCHANGED body
     ELSE /\ body' = [body EXCEPT ![c] =
                        IF tool[c] = "write" THEN "mkdir" ELSE "access"]
          /\ UNCHANGED outcome
  /\ UNCHANGED <<snapshot, queueVars, callVars, diskVars, abortVars>>

(* The `finally': releaseNext(), and the entry goes if it is still ours.    *)
EntryAfter(c) ==
  IF fileMutationQueues[key[c]] = c
  THEN [fileMutationQueues EXCEPT ![key[c]] = None]
  ELSE fileMutationQueues

Release(c) ==
  /\ stage[c] = "running" /\ outcome[c] # "none"
  /\ stage' = [stage EXCEPT ![c] = "released"]
  /\ fileMutationQueues' = EntryAfter(c)
  /\ line' = [line EXCEPT ![key[c]] =
                IF @ # <<>> /\ Head(@) = c THEN Tail(@) ELSE @]
  /\ UNCHANGED <<key, currentQueue, callVars, bodyVars, diskVars, abortVars>>

-----------------------------------------------------------------------------
(* The bodies of the tools.                                                 *)

(* The run is aborted: its listeners reject the promise of every body that  *)
(* has not settled.  Calls made later belong to a run with a new signal.    *)
Abort ==
  /\ aborts < MaxAborts
  /\ aborts' = aborts + 1
  /\ aborted' = aborted \cup {c \in Calls : Pending(c)}
  /\ outcome' = [c \in Calls |->
       IF stage[c] = "running" /\ outcome[c] = "none" THEN "error" ELSE outcome[c]]
  /\ UNCHANGED <<stage, body, snapshot, queueVars, callVars, diskVars>>

(* The body's await returns and it goes on with `next', unless aborted.     *)
GoesOn(c, next) ==
  /\ body' = [body EXCEPT ![c] = IF c \in aborted THEN "done" ELSE next]
  /\ UNCHANGED outcome

Settles(c, how) ==
  /\ body' = [body EXCEPT ![c] = "done"]
  /\ outcome' = [outcome EXCEPT ![c] = IF @ = "none" THEN how ELSE @]

MakeDirectory(c) ==
  /\ body[c] = "mkdir"
  /\ GoesOn(c, "open")
  /\ UNCHANGED <<stage, snapshot, queueVars, callVars, diskVars, abortVars>>

Access(c) ==
  /\ body[c] = "access"
  /\ IF File(c) \in exists THEN GoesOn(c, "read") ELSE Settles(c, "error")
  /\ UNCHANGED <<stage, snapshot, queueVars, callVars, diskVars, abortVars>>

(* readFile, and the edits applied to what it returned; they may not match. *)
Read(c) ==
  /\ body[c] = "read"
  /\ snapshot' = [snapshot EXCEPT ![c] = content[File(c)]]
  /\ GoesOn(c, "open") \/ Settles(c, "error")
  /\ UNCHANGED <<stage, queueVars, callVars, diskVars, abortVars>>

(* writeFile creates or truncates the file, and then writes it.             *)
Open(c) ==
  /\ body[c] = "open"
  /\ \/ /\ body' = [body EXCEPT ![c] = "data"]
        /\ exists' = exists \cup {File(c)}
        /\ content' = [content EXCEPT ![File(c)] = {}]
        /\ UNCHANGED <<outcome, existing, applied>>
     \/ Settles(c, "error") /\ UNCHANGED diskVars
  /\ UNCHANGED <<stage, snapshot, queueVars, callVars, abortVars>>

Write(c) ==
  /\ body[c] = "data"
  /\ content' = [content EXCEPT ![File(c)] =
                   IF tool[c] = "write" THEN {c} ELSE snapshot[c] \cup {c}]
  /\ applied' = [applied EXCEPT ![File(c)] =
                   IF tool[c] = "write" THEN {c} ELSE @ \cup {c}]
  /\ Settles(c, "ok")
  /\ UNCHANGED <<stage, snapshot, exists, existing, queueVars, callVars, abortVars>>

Step(c) ==
  \/ Start(c) \/ Release(c)
  \/ MakeDirectory(c) \/ Access(c) \/ Read(c) \/ Open(c) \/ Write(c)

Next ==
  \/ \E c \in Calls :
       Step(c) \/ \E t \in {"write", "edit"}, p \in Paths : Call(c, t, p)
  \/ Abort

Spec == Init /\ [][Next]_vars

(* Nothing is left to do: any other state without a step is a call that     *)
(* waits for a promise nobody will resolve.                                 *)
Finished ==
  /\ \A c \in Calls : stage[c] = "released" /\ body[c] \in {"none", "done"}
  /\ UNCHANGED vars

-----------------------------------------------------------------------------
Keys == Paths
TypeOK ==
  /\ fileMutationQueues \in [Keys -> Calls \cup {None}]
  /\ key \in [Calls -> Keys]
  /\ currentQueue \in [Calls -> Calls \cup {None}]
  /\ stage \in [Calls -> {"new", "queued", "running", "released"}]
  /\ tool \in [Calls -> {"write", "edit"}] /\ path \in [Calls -> Paths]
  /\ body \in [Calls -> {"none", "mkdir", "access", "read", "open", "data", "done"}]
  /\ outcome \in [Calls -> {"none", "ok", "error"}]
  /\ aborted \subseteq Calls /\ snapshot \in [Calls -> SUBSET Calls]
  /\ exists \subseteq Paths /\ existing \subseteq Paths
  /\ content \in [Paths -> SUBSET Calls]
  /\ applied \in [Paths -> SUBSET Calls]
  /\ line \in [Keys -> Seq(Calls)] /\ aborts \in Nat

(* Two calls under one key never run at once, whatever the order in which   *)
(* entries are replaced and deleted.                                        *)
OnePerKey ==
  \A c, d \in Calls :
    stage[c] = "running" /\ stage[d] = "running" /\ key[c] = key[d] => c = d

(* The map has an entry exactly for the keys with a pending call: it        *)
(* neither leaks nor loses the promise a new call has to wait for.          *)
EntriesArePending ==
  \A k \in Keys :
    fileMutationQueues[k] # None <=> \E c \in Calls : Pending(c) /\ key[c] = k

(* Under each key the calls run as on a serial executor, in the order they  *)
(* were made; an aborted or failed call only hands over to the next.        *)
ActiveOn(k) == {c \in Calls : Pending(c) /\ key[c] = k /\ Resolved(c)}
WaitingOn(k) == IF line[k] = <<>> THEN <<>> ELSE Tail(line[k])
Executor(k) == INSTANCE SerialExecutor
  WITH Tasks <- Calls, waiting <- WaitingOn(k), active <- ActiveOn(k)
EachKeyIsSerial ==
  /\ \A k \in Keys : Executor(k)!Init
  /\ [][\A k \in Keys : Executor(k)!Next \/ UNCHANGED Executor(k)!vars]_vars

(* The test "preserves both parallel edits on the same file", for any calls *)
(* through any alias of a file that was there: two calls are never on it at *)
(* once ("Serialize file mutation operations targeting the same file."),    *)
(* and while none is between opening and writing, it holds what the calls   *)
(* one by one would have left.  The exception: an abort hands over to the   *)
(* next call while the file operation it interrupted still goes on.         *)
OnDisk(c) == body[c] \in {"access", "read", "open", "data"}
EditsPreserved ==
  \A f \in existing : aborted = {} =>
    /\ \A c, d \in Calls : OnDisk(c) /\ OnDisk(d) /\ File(c) = f /\ File(d) = f => c = d
    /\ (\A c \in Calls : File(c) = f => body[c] # "data") => content[f] = applied[f]

=============================================================================
