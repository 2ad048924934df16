----------------------------- MODULE AuthStorage -----------------------------
(***************************************************************************)
(* The credential store: AuthStorage and FileAuthStorageBackend of          *)
(* coding-agent/src/core/auth-storage.ts.  Processes that run at once share *)
(* auth.json under a lock of proper-lockfile; each keeps a copy in memory.  *)
(* A login or a logout locks, merges its provider into the file and         *)
(* unlocks, all in one turn of the event loop; a refresh of an expired      *)
(* OAuth token holds the lock while it waits for the provider's answer.     *)
(*                                                                          *)
(* A credential is the number of the login or refresh that made it; 0 is    *)
(* none.  The retries of lockSync() block the process, so an operation that *)
(* waits for the lock is that operation made later, and one that gives up   *)
(* is one that finds the lock held.                                         *)
(***************************************************************************)
EXTENDS Integers, FiniteSets

CONSTANTS
  Processes, Providers,
  Callers,         \* calls of getApiKey() that can be under way at once
  Process(_),      \* the process of a call
  MaxTokens, MaxMishaps,   \* bounds: the second of crashes and lost locks
  None, Dead, Missing, Malformed

ASSUME AuthAssumption ==
  /\ MaxTokens \in Nat \ {0}
  /\ None \notin Callers /\ Dead \notin Callers
  /\ Missing # Malformed /\ {Missing, Malformed} \cap [Providers -> 0..MaxTokens] = {}

VARIABLES
  file,            \* auth.json: a credential per provider, Missing or Malformed
  holder,          \* who has the lock: None, a caller or Dead, a process that died
  up,              \* processes that run
  creating,        \* processes that found no file and are about to create it
  data, loadError, \* of each process
  call,            \* of each caller: phase, provider and what it read
  told,            \* callers whose onCompromised() was called
  lastToken, expired,
  mishaps,         \* crashes and lost locks so far
  robbed,          \* history: callers in flight that lost the lock they held
  blind,           \* history: such a caller went on as if it had the lock
  spent, lost,     \* history: tokens a provider has exchanged, and those whose
                   \* new token never reached the file
  saved,           \* history: what was last written for a provider
  torn,            \* history: the file was truncated by a crash or by the
                   \* creation of a file that another process had created
  unsaved          \* history: processes that could not save what they have in
                   \* memory: a login, a logout, a new token

lockVars == <<holder, robbed, mishaps, blind>>
fileVars == <<file, saved, torn>>
memoryVars == <<data, loadError, unsaved>>
tokenVars == <<lastToken, expired, spent, lost>>
vars == <<file, holder, up, creating, data, loadError, call, told, lastToken, expired,
          mishaps, robbed, blind, spent, lost, saved, torn, unsaved>>

Empty == [v \in Providers |-> 0]
Idle == [phase |-> "idle", provider |-> None, read |-> Empty]
Busy(p) == p \in creating
CallersOf(p) == {c \in Callers : Process(c) = p}

Init ==
  /\ \/ file = Missing
     \/ \E u \in Providers : file = [Empty EXCEPT ![u] = 1]
  /\ holder = None /\ up = {} /\ creating = {}
  /\ data = [p \in Processes |-> Empty] /\ loadError = [p \in Processes |-> FALSE]
  /\ call = [c \in Callers |-> Idle] /\ told = {}
  /\ lastToken = 1 /\ expired = {}
  /\ mishaps = 0 /\ robbed = {} /\ blind = FALSE /\ spent = {} /\ lost = {}
  /\ saved = IF file = Missing THEN Empty ELSE file
  /\ torn = FALSE /\ unsaved = {}

-----------------------------------------------------------------------------
(* The lock of a process that died is taken over once it is stale, and so   *)
(* is that of a live one that did not renew it in time.                     *)
TakesAnyway(next) ==                                             \* mutant
  holder' = next /\ UNCHANGED <<robbed, mishaps, blind>>
Takes(next) ==
  /\ holder' = next
  /\ \/ holder \in {None, Dead} /\ UNCHANGED <<robbed, mishaps>>
     \/ /\ holder \in Callers /\ robbed' = robbed \cup {holder}
        /\ mishaps < MaxMishaps /\ mishaps' = mishaps + 1
  /\ UNCHANGED blind
(* Who has not noticed the theft removes the lock of the thief.             *)
Releases(c) ==
  /\ holder' = IF c \in told THEN holder ELSE None
  /\ told' = told \ {c} /\ robbed' = robbed \ {c}
  /\ blind' = (blind \/ c \in robbed \ told)
  /\ UNCHANGED mishaps
IsLocked == holder # None /\ UNCHANGED lockVars

(* ensureFileExists(): not under the lock.                                  *)
FindsNoFile(p) ==
  /\ file = Missing /\ ~Busy(p) /\ creating' = creating \cup {p}
  /\ UNCHANGED <<fileVars, lockVars, up, memoryVars, call, told, tokenVars>>
CreatesFile(p) ==
  /\ Busy(p) /\ creating' = creating \ {p}
  /\ file' = Empty /\ torn' = (torn \/ file # Missing)
  /\ UNCHANGED <<saved, lockVars, up, memoryVars, call, told, tokenVars>>
Ready(p) == p \in up /\ ~Busy(p) /\ file # Missing

-----------------------------------------------------------------------------
(* reload(): withLock() that reads.                                         *)
Loaded(p) ==
  IF file = Malformed
  THEN loadError' = [loadError EXCEPT ![p] = TRUE] /\ UNCHANGED <<data, unsaved>>
  ELSE /\ data' = [data EXCEPT ![p] = file] /\ loadError' = [loadError EXCEPT ![p] = FALSE]
       /\ unsaved' = unsaved \ {p}
NotLoaded(p) == loadError' = [loadError EXCEPT ![p] = TRUE] /\ UNCHANGED <<data, unsaved>>
Reload(p) == \/ Takes(None) /\ Loaded(p)
             \/ IsLocked /\ NotLoaded(p)

Starts(p) ==
  /\ p \notin up /\ ~Busy(p) /\ file # Missing
  /\ up' = up \cup {p} /\ Reload(p)
  /\ UNCHANGED <<fileVars, creating, call, told, tokenVars>>

(* persistProviderChange() of set() and remove(): the provider's entry into *)
(* what the file holds now.  Nothing is written after a failed load, to a   *)
(* malformed file, or without the lock; the change then is in memory only.  *)
MergedInMemory(p, v, n) == [data[p] EXCEPT ![v] = n]             \* mutant
Merged(p, v, n) == [file EXCEPT ![v] = n]
Persist(p, v, n) ==
  \/ /\ ~loadError[p] /\ file # Malformed /\ Takes(None)
     /\ file' = Merged(p, v, n) /\ saved' = [saved EXCEPT ![v] = n]
     /\ UNCHANGED <<torn, unsaved>>
  \/ /\ \/ loadError[p] /\ UNCHANGED lockVars
        \/ ~loadError[p] /\ file = Malformed /\ Takes(None)
        \/ ~loadError[p] /\ IsLocked
     /\ unsaved' = unsaved \cup {p} /\ UNCHANGED fileVars

Changes(p, v, n) ==
  /\ Ready(p) /\ data' = [data EXCEPT ![p][v] = n] /\ Persist(p, v, n)
  /\ UNCHANGED <<up, creating, loadError, call, told, expired, spent, lost>>
Set(p, v) ==
  /\ lastToken < MaxTokens /\ lastToken' = lastToken + 1 /\ Changes(p, v, lastToken + 1)
Remove(p, v) == data[p][v] # 0 /\ Changes(p, v, 0) /\ UNCHANGED lastToken

-----------------------------------------------------------------------------
(* getApiKey() of a provider whose token in memory has expired.             *)
SetCall(c, phase, v, read) ==
  call' = [call EXCEPT ![c] = [phase |-> phase, provider |-> v, read |-> read]]
Needs(c, v) ==
  /\ Ready(Process(c)) /\ call[c] = Idle
  /\ data[Process(c)][v] \in expired
  /\ SetCall(c, "waiting", v, Empty)
  /\ UNCHANGED <<fileVars, lockVars, up, creating, memoryVars, told, tokenVars>>

(* refreshOAuthTokenWithLock() has the lock: it reads the file again, and   *)
(* asks the provider only for a token that is still expired there.          *)
AsksFromMemory(c) ==                                             \* mutant
  LET p == Process(c)
      v == call[c].provider
  IN /\ call[c].phase = "waiting" /\ ~Busy(p) /\ data[p][v] # 0
     /\ Takes(c) /\ SetCall(c, "asking", v, data[p])
     /\ UNCHANGED <<fileVars, up, creating, memoryVars, told, tokenVars>>
Asks(c) ==
  LET p == Process(c)
      v == call[c].provider
  IN /\ call[c].phase = "waiting" /\ ~Busy(p)
     /\ file \notin {Missing, Malformed} /\ file[v] \in expired
     /\ Takes(c) /\ Loaded(p) /\ SetCall(c, "asking", v, file)
     /\ UNCHANGED <<fileVars, up, creating, told, tokenVars>>
FindsFresh(c) ==
  LET p == Process(c) IN
  /\ call[c].phase = "waiting" /\ ~Busy(p) /\ file \notin {Missing, Malformed}
  /\ file[call[c].provider] \notin expired
  /\ Takes(None) /\ Loaded(p) /\ call' = [call EXCEPT ![c] = Idle]
  /\ UNCHANGED <<fileVars, up, creating, told, tokenVars>>
(* The file is malformed, or the retries of lock() are exhausted.           *)
CannotRead(c) ==
  /\ call[c].phase = "waiting" /\ ~Busy(Process(c))
  /\ \/ file = Malformed /\ Takes(None)
     \/ IsLocked
  /\ SetCall(c, "failed", None, Empty)
  /\ UNCHANGED <<fileVars, up, creating, memoryVars, told, tokenVars>>

(* The provider answers with a new token and will not take the old one      *)
(* again.  What is written is what was read, with the new token; nothing is *)
(* written when the lock is known to be lost.                               *)
Exchange(c) ==
  LET v == call[c].provider
      old == call[c].read[v]
  IN /\ lastToken < MaxTokens /\ lastToken' = lastToken + 1
     /\ old \notin spent /\ spent' = spent \cup {old}
Answered(c) ==
  LET p == Process(c)
      v == call[c].provider
      merged == [call[c].read EXCEPT ![v] = lastToken + 1]
  IN /\ call[c].phase = "asking" /\ ~Busy(p) /\ Exchange(c)
     /\ data' = [data EXCEPT ![p] = merged] /\ loadError' = [loadError EXCEPT ![p] = FALSE]
     /\ Releases(c)
     /\ IF c \in told
        THEN /\ lost' = lost \cup {call[c].read[v]}
             /\ SetCall(c, "failed", None, Empty)
             /\ unsaved' = unsaved \cup {p} /\ UNCHANGED fileVars
        ELSE /\ file' = merged /\ saved' = [saved EXCEPT ![v] = lastToken + 1]
             /\ call' = [call EXCEPT ![c] = Idle] /\ unsaved' = unsaved \ {p}
             /\ UNCHANGED <<torn, lost>>
     /\ UNCHANGED <<up, creating, expired>>
(* The provider refuses, or cannot be reached.                              *)
Refused(c) ==
  /\ call[c].phase = "asking" /\ ~Busy(Process(c))
  /\ Releases(c) /\ SetCall(c, "failed", None, Empty)
  /\ UNCHANGED <<fileVars, up, creating, memoryVars, tokenVars>>
(* The provider exchanges the token, and its answer never arrives: the      *)
(* connection breaks or the process dies.                                   *)
AnswerIsLost(c) ==
  /\ call[c].phase = "asking"
  /\ call[c].read[call[c].provider] \notin spent
  /\ spent' = spent \cup {call[c].read[call[c].provider]}
  /\ lost' = lost \cup {call[c].read[call[c].provider]}
  /\ UNCHANGED <<fileVars, lockVars, up, creating, memoryVars, call, told, lastToken,
                 expired>>
(* Whatever failed, reload() looks if another process did better.           *)
Recovers(c) ==
  /\ call[c].phase = "failed" /\ Ready(Process(c)) /\ Reload(Process(c))
  /\ call' = [call EXCEPT ![c] = Idle]
  /\ UNCHANGED <<fileVars, up, creating, told, tokenVars>>

IsTold(c) ==
  /\ c \in robbed \ told /\ call[c].phase = "asking" /\ told' = told \cup {c}
  /\ UNCHANGED <<fileVars, lockVars, up, creating, memoryVars, call, tokenVars>>

-----------------------------------------------------------------------------
Expires(n) ==
  /\ n \in 1..lastToken \ expired /\ expired' = expired \cup {n}
  /\ UNCHANGED <<fileVars, lockVars, up, creating, memoryVars, call, told, lastToken,
                 spent, lost>>

Dies(p) ==
  /\ p \in up /\ mishaps < MaxMishaps /\ mishaps' = mishaps + 1
  /\ up' = up \ {p} /\ creating' = creating \ {p}
  /\ call' = [c \in Callers |-> IF c \in CallersOf(p) THEN Idle ELSE call[c]]
  /\ data' = [data EXCEPT ![p] = Empty] /\ loadError' = [loadError EXCEPT ![p] = FALSE]
  /\ told' = told \ CallersOf(p) /\ robbed' = robbed \ CallersOf(p)
  /\ unsaved' = unsaved \ {p} /\ UNCHANGED <<blind, tokenVars>>
Crash(p) ==
  /\ Dies(p)
  /\ holder' = IF holder \in CallersOf(p) THEN Dead ELSE holder
  /\ UNCHANGED fileVars
(* writeFileSync() truncates the file before it writes; an empty file loads *)
(* as one without credentials.                                              *)
CrashWriting(p) ==
  /\ Dies(p) /\ Ready(p) /\ holder \in {None, Dead} /\ holder' = Dead
  /\ file' \in {Empty, Malformed} /\ torn' = TRUE /\ UNCHANGED saved

Next ==
  \/ \E p \in Processes : \/ FindsNoFile(p) \/ CreatesFile(p) \/ Starts(p)
                          \/ Crash(p) \/ CrashWriting(p)
  \/ \E p \in Processes, v \in Providers : Set(p, v) \/ Remove(p, v)
  \/ \E c \in Callers, v \in Providers : Needs(c, v)
  \/ \E c \in Callers : \/ Asks(c) \/ FindsFresh(c) \/ CannotRead(c) \/ Answered(c)
                        \/ Refused(c) \/ AnswerIsLost(c) \/ Recovers(c) \/ IsTold(c)
  \/ \E n \in 1..MaxTokens : Expires(n)

Spec == Init /\ [][Next]_vars

-----------------------------------------------------------------------------
(* The file holds for each provider what was last written for it: a refresh *)
(* that writes back what it read long ago overwrites no login of another    *)
(* process.  Not so once a process that did not notice that its lock was    *)
(* taken wrote or unlocked, or the file was truncated.                      *)
NothingSavedIsLost ==
  ~blind /\ ~torn /\ file # Missing => file = saved

(* "Prevent race conditions when multiple pi instances try to refresh       *)
(* tokens simultaneously": no refresh token is presented that the provider  *)
(* has exchanged already, unless its successor was lost on its way to the   *)
(* file, or the lock was.                                                   *)
SpentOnce ==
  \A c \in Callers :
    LET token == call[c].read[call[c].provider] IN
    call[c].phase = "asking" /\ c \notin robbed /\ ~blind /\ ~torn /\ token \in spent
      => token \in lost

(* A process never goes back to an older credential, nor loses one that is  *)
(* in the file.  The exception is what it could not save: the next refresh  *)
(* or reload forgets it.                                                    *)
NeverBackToOlder ==
  [][\A p \in up \cap up', v \in Providers :
       p \notin unsaved \cup unsaved' /\ ~blind' /\ ~torn' =>
         data[p][v] <= data'[p][v] \/ (data'[p][v] = 0 /\ saved'[v] = 0)]_vars
=============================================================================
