-------------------------- MODULE AuthStorageProofs --------------------------
(***************************************************************************)
(* The credential store, for any processes, providers, callers and bounds:  *)
(* nothing that was saved is overwritten, and no refresh token is used up   *)
(* twice, and no process goes back to an older credential, unless the lock  *)
(* was taken from a live process that did not notice or the file was        *)
(* truncated.                                                               *)
(***************************************************************************)
EXTENDS AuthStorage, TLAPS

Credentials == [Providers -> 0..MaxTokens]
Phases == {"idle", "waiting", "asking", "failed"}
Calls == [phase : Phases, provider : Providers \cup {None}, read : Credentials]
Asking(c) == call[c].phase = "asking"
Token(c) == call[c].read[call[c].provider]

AuthTypeOK ==
  /\ file \in Credentials \cup {Missing, Malformed} /\ saved \in Credentials
  /\ lastToken \in 1..MaxTokens /\ call \in [Callers -> Calls]
  /\ expired \subseteq 1..lastToken /\ spent \subseteq 1..lastToken
  /\ blind \in BOOLEAN /\ torn \in BOOLEAN

(* Who asks for a token that exists, of a provider, once there is a file.   *)
CallsAreReal ==
  \A c \in Callers :
    /\ call[c].phase \in {"waiting", "asking"} => call[c].provider \in Providers
    /\ Asking(c) => Token(c) \in 1..lastToken /\ file # Missing

(* The lock protects: who asks holds it unless it was robbed of it, and     *)
(* what its holder has read is what the file still has.                     *)
AskerHolds == ~blind => \A c \in Callers : Asking(c) /\ c \notin robbed => holder = c
ReadIsCurrent ==
  ~blind /\ ~torn => \A c \in Callers : Asking(c) /\ holder = c => call[c].read = file

(* The file is what was saved.                                              *)
FileIsSaved ==
  ~blind /\ ~torn => file = saved \/ (file = Missing /\ saved = Empty)

(* The saved tokens are distinct, and fresh unless their successor was lost.*)
TokensAreFresh ==
  ~blind /\ ~torn =>
    /\ \A v \in Providers : saved[v] <= lastToken
    /\ \A u, v \in Providers : saved[u] = saved[v] => u = v \/ saved[u] = 0
    /\ \A v \in Providers : saved[v] \in spent => saved[v] \in lost

LockInv == AskerHolds /\ ReadIsCurrent
IInv == AuthTypeOK /\ CallsAreReal /\ LockInv /\ FileIsSaved /\ TokensAreFresh

-----------------------------------------------------------------------------
LEMMA EmptyIsCredentials ==
  /\ Empty \in Credentials /\ \A v \in Providers : Empty[v] = 0
  /\ Missing \notin Credentials /\ Malformed \notin Credentials /\ Missing # Malformed
<1>1. 0 \in 0..MaxTokens
  BY AuthAssumption, SMT
<1> QED BY <1>1, AuthAssumption DEF Empty, Credentials

LEMMA InitKeeps == Init => IInv
<1> SUFFICES ASSUME Init PROVE IInv
  OBVIOUS
<1>types. MaxTokens \in Nat /\ 1 \in 1..MaxTokens /\ 1 \in 0..MaxTokens /\ 0 \in 0..MaxTokens
  BY AuthAssumption, SMT
<1>1. ASSUME NEW u \in Providers
      PROVE  /\ [Empty EXCEPT ![u] = 1] \in Credentials
             /\ [Empty EXCEPT ![u] = 1][u] = 1
             /\ \A v \in Providers : v # u => [Empty EXCEPT ![u] = 1][v] = 0
  BY <1>types, EmptyIsCredentials DEF Credentials
<1>2. /\ file \in Credentials \cup {Missing} /\ saved \in Credentials
      /\ file = saved \/ (file = Missing /\ saved = Empty)
  BY <1>1, EmptyIsCredentials DEF Init
<1>3. \/ saved = Empty
      \/ \E u \in Providers : saved[u] = 1 /\ \A v \in Providers : v # u => saved[v] = 0
  <2>1. CASE file = Missing
    BY <2>1 DEF Init
  <2>2. ASSUME NEW u \in Providers, file = [Empty EXCEPT ![u] = 1]
        PROVE  saved[u] = 1 /\ \A v \in Providers : v # u => saved[v] = 0
    <3>1. saved = file
      BY <1>1, <2>2, EmptyIsCredentials DEF Init
    <3> QED BY <1>1, <2>2, <3>1
  <2> QED BY <2>1, <2>2 DEF Init
<1>4. lastToken = 1 /\ expired = {} /\ spent = {} /\ blind = FALSE /\ torn = FALSE
      /\ call = [c \in Callers |-> Idle]
  BY DEF Init
<1>5. Idle \in Calls /\ Idle.phase = "idle"
  BY EmptyIsCredentials DEF Idle, Calls, Phases
<1>6. AuthTypeOK
  BY <1>types, <1>2, <1>4, <1>5 DEF AuthTypeOK
<1>7. \A c \in Callers : call[c].phase = "idle"
  BY <1>4, <1>5
<1>8. TokensAreFresh
  BY <1>3, <1>4, EmptyIsCredentials, SMT DEF TokensAreFresh
<1>9. CallsAreReal /\ LockInv
  BY <1>7 DEF CallsAreReal, LockInv, AskerHolds, ReadIsCurrent, Asking
<1> QED BY <1>2, <1>6, <1>8, <1>9 DEF IInv, FileIsSaved

-----------------------------------------------------------------------------
(* A step that takes the lock and lets it go, or leaves it alone, and       *)
(* changes no file, keeps the invariant: whoever holds the lock is robbed.  *)
Quietly ==
  /\ UNCHANGED <<fileVars, spent, lost>> /\ blind' = blind
  /\ \/ Takes(None)
     \/ UNCHANGED <<holder, robbed>>

LEMMA TakingKeepsTheLock ==
  ASSUME AskerHolds, NEW c \in Callers, Takes(None),
         ~blind', Asking(c), c \notin robbed'
  PROVE  FALSE
<1>1. ~blind /\ holder = c /\ c \notin robbed
  BY Zenon DEF Takes, AskerHolds
<1> QED BY <1>1, AuthAssumption, Zenon DEF Takes

LEMMA QuietKeeps ==
  ASSUME IInv, Quietly, call' \in [Callers -> Calls],
         lastToken' \in lastToken..MaxTokens, expired' \subseteq 1..lastToken',
         \A c \in Callers : \/ call'[c] = call[c]
                            \/ call'[c].phase \notin {"waiting", "asking"}
                            \/ call'[c].phase = "waiting" /\ call'[c].provider \in Providers
  PROVE  IInv'
<1>types. UNCHANGED <<file, saved, torn, spent, lost, blind>>
  BY Zenon DEF Quietly, fileVars
<1>0. /\ lastToken' \in 1..MaxTokens /\ 1..lastToken \subseteq 1..lastToken'
      /\ \A n \in 0..MaxTokens : n <= lastToken => n <= lastToken'
  BY AuthAssumption, SMT DEF IInv, AuthTypeOK
<1>1. \A c \in Callers : Asking(c)' => Asking(c) /\ call'[c] = call[c] /\ Token(c)' = Token(c)
  BY Zenon DEF Asking, Token
<1>2. AuthTypeOK'
  BY <1>types, <1>0, Zenon DEF IInv, AuthTypeOK
<1>3. CallsAreReal'
  BY <1>types, <1>0, <1>1, Zenon DEF IInv, CallsAreReal
<1>4. LockInv'
  <2>1. CASE Takes(None)
    <3>1. AskerHolds'
      BY <1>types, <1>1, <2>1, TakingKeepsTheLock, Zenon DEF IInv, LockInv, AskerHolds
    <3>2. holder' \notin Callers
      BY <2>1, AuthAssumption, Zenon DEF Takes
    <3> QED BY <3>1, <3>2, Zenon DEF LockInv, ReadIsCurrent
  <2>2. CASE UNCHANGED <<holder, robbed>>
    BY <1>types, <1>1, <2>2, Zenon DEF IInv, LockInv, AskerHolds, ReadIsCurrent
  <2> QED BY <2>1, <2>2, Zenon DEF Quietly
<1>5. FileIsSaved' /\ TokensAreFresh'
  <2>1. \A v \in Providers : saved[v] \in 0..MaxTokens
    BY DEF IInv, AuthTypeOK, Credentials
  <2> QED BY <1>types, <1>0, <2>1, Zenon DEF IInv, FileIsSaved, TokensAreFresh
<1> QED BY <1>2, <1>3, <1>4, <1>5, Zenon DEF IInv

LEMMA SetCallType ==
  ASSUME AuthTypeOK, NEW c \in Callers, NEW phase \in Phases,
         NEW v \in Providers \cup {None}, NEW read \in Credentials,
         SetCall(c, phase, v, read)
  PROVE  /\ call' \in [Callers -> Calls]
         /\ call'[c] = [phase |-> phase, provider |-> v, read |-> read]
         /\ \A d \in Callers : d # c => call'[d] = call[d]
BY DEF AuthTypeOK, SetCall, Calls

LEMMA IdleType ==
  ASSUME AuthTypeOK, NEW c \in Callers, call' = [call EXCEPT ![c] = Idle]
  PROVE  /\ call' \in [Callers -> Calls] /\ call'[c].phase = "idle"
         /\ \A d \in Callers : d # c => call'[d] = call[d]
<1>1. Idle \in Calls /\ Idle.phase = "idle"
  BY EmptyIsCredentials DEF Idle, Calls, Phases
<1> QED BY <1>1 DEF AuthTypeOK

LEMMA FailedType ==
  ASSUME AuthTypeOK, NEW c \in Callers, SetCall(c, "failed", None, Empty)
  PROVE  /\ call' \in [Callers -> Calls] /\ call'[c].phase = "failed"
         /\ \A d \in Callers : d # c => call'[d] = call[d]
<1>1. "failed" \in Phases /\ None \in Providers \cup {None} /\ Empty \in Credentials
  BY EmptyIsCredentials DEF Phases
<1>2. /\ call' \in [Callers -> Calls]
      /\ call'[c] = [phase |-> "failed", provider |-> None, read |-> Empty]
      /\ \A d \in Callers : d # c => call'[d] = call[d]
  BY <1>1, SetCallType, Zenon
<1> QED BY <1>2

(* The steps that change no file.                                           *)
LEMMA QuietActions ==
  ASSUME IInv,
         \/ UNCHANGED vars
         \/ \E p \in Processes : FindsNoFile(p) \/ Starts(p)
         \/ \E c \in Callers, v \in Providers : Needs(c, v)
         \/ \E c \in Callers : FindsFresh(c) \/ CannotRead(c) \/ Recovers(c) \/ IsTold(c)
         \/ \E n \in 1..MaxTokens : Expires(n)
  PROVE  IInv'
<1>types. /\ AuthTypeOK /\ expired \subseteq 1..lastToken /\ call \in [Callers -> Calls]
          /\ lastToken \in lastToken..MaxTokens
  BY AuthAssumption, SMT DEF IInv, AuthTypeOK
<1>reload. ASSUME NEW p \in Processes, Reload(p)
           PROVE  blind' = blind /\ (Takes(None) \/ UNCHANGED <<holder, robbed>>)
  BY <1>reload, Zenon DEF Reload, Takes, IsLocked, lockVars
<1>0. CASE UNCHANGED vars
  BY <1>types, <1>0, QuietKeeps, Zenon DEF vars, Quietly, fileVars
<1>1. ASSUME NEW p \in Processes, FindsNoFile(p) PROVE IInv'
  BY <1>types, <1>1, QuietKeeps, Zenon DEF FindsNoFile, Quietly, lockVars, tokenVars
<1>2. ASSUME NEW p \in Processes, Starts(p) PROVE IInv'
  <2>1. Quietly /\ UNCHANGED <<call, expired, lastToken>>
    BY <1>reload, <1>2, Zenon DEF Starts, Quietly, tokenVars
  <2> QED BY <1>types, <2>1, QuietKeeps, Zenon
<1>3. ASSUME NEW c \in Callers, NEW v \in Providers, Needs(c, v) PROVE IInv'
  <2>1. Quietly /\ UNCHANGED <<expired, lastToken>> /\ SetCall(c, "waiting", v, Empty)
    BY <1>3, Zenon DEF Needs, Quietly, lockVars, tokenVars
  <2>2. /\ call' \in [Callers -> Calls]
        /\ call'[c].phase = "waiting" /\ call'[c].provider = v
        /\ \A d \in Callers : d # c => call'[d] = call[d]
    <3>1. "waiting" \in Phases /\ v \in Providers \cup {None} /\ Empty \in Credentials
      BY EmptyIsCredentials DEF Phases
    <3>2. /\ call' \in [Callers -> Calls]
          /\ call'[c] = [phase |-> "waiting", provider |-> v, read |-> Empty]
          /\ \A d \in Callers : d # c => call'[d] = call[d]
      BY <1>types, <2>1, <3>1, SetCallType, Zenon
    <3> QED BY <3>2
  <2> QED BY <1>types, <2>1, <2>2, QuietKeeps, Zenon
<1>4. ASSUME NEW c \in Callers, FindsFresh(c) PROVE IInv'
  <2>1. Quietly /\ UNCHANGED <<expired, lastToken>> /\ call' = [call EXCEPT ![c] = Idle]
    BY <1>4, Zenon DEF FindsFresh, Quietly, Takes, tokenVars
  <2>2. /\ call' \in [Callers -> Calls] /\ call'[c].phase \notin {"waiting", "asking"}
        /\ \A d \in Callers : d # c => call'[d] = call[d]
    BY <1>types, <2>1, IdleType
  <2> QED BY <1>types, <2>1, <2>2, QuietKeeps, Zenon
<1>5. ASSUME NEW c \in Callers, CannotRead(c) PROVE IInv'
  <2>1. Quietly /\ UNCHANGED <<expired, lastToken>> /\ SetCall(c, "failed", None, Empty)
    BY <1>5, Zenon DEF CannotRead, Quietly, Takes, IsLocked, lockVars, tokenVars
  <2>2. /\ call' \in [Callers -> Calls] /\ call'[c].phase \notin {"waiting", "asking"}
        /\ \A d \in Callers : d # c => call'[d] = call[d]
    BY <1>types, <2>1, FailedType
  <2> QED BY <1>types, <2>1, <2>2, QuietKeeps, Zenon
<1>6. ASSUME NEW c \in Callers, Recovers(c) PROVE IInv'
  <2>1. Quietly /\ UNCHANGED <<expired, lastToken>> /\ call' = [call EXCEPT ![c] = Idle]
    BY <1>6, Zenon DEF Recovers, Reload, Takes, IsLocked, lockVars, Quietly, tokenVars
  <2>2. /\ call' \in [Callers -> Calls] /\ call'[c].phase \notin {"waiting", "asking"}
        /\ \A d \in Callers : d # c => call'[d] = call[d]
    BY <1>types, <2>1, IdleType
  <2> QED BY <1>types, <2>1, <2>2, QuietKeeps, Zenon
<1>7. ASSUME NEW c \in Callers, IsTold(c) PROVE IInv'
  BY <1>types, <1>7, QuietKeeps, Zenon DEF IsTold, Quietly, lockVars, tokenVars
<1>8. ASSUME NEW n \in 1..MaxTokens, Expires(n) PROVE IInv'
  <2>1. Quietly /\ UNCHANGED <<call, lastToken>>
    BY <1>8, Zenon DEF Expires, Quietly, lockVars
  <2>2. expired' \subseteq 1..lastToken'
    BY <1>types, <1>8, Zenon DEF Expires
  <2> QED BY <1>types, <2>1, <2>2, QuietKeeps, Zenon
<1> QED BY <1>0, <1>1, <1>2, <1>3, <1>4, <1>5, <1>6, <1>7, <1>8, Zenon

-----------------------------------------------------------------------------
(* A login or a logout writes what the file holds, with its own entry.      *)
LEMMA NewCredential ==
  ASSUME IInv, NEW v \in Providers, NEW n \in 0..MaxTokens,
         n = 0 \/ n = lastToken + 1,
         saved' = [saved EXCEPT ![v] = n], lastToken' \in 1..MaxTokens,
         lastToken' = lastToken \/ lastToken' = lastToken + 1, n <= lastToken',
         \/ UNCHANGED <<spent, lost>>
         \/ /\ \E c \in Callers : spent' = spent \cup {Token(c)}
                                  /\ Token(c) \in 1..lastToken
                                  /\ (~blind /\ ~torn => Token(c) = saved[v])
            /\ lost' = lost,
         blind' = blind, torn' = torn
  PROVE  TokensAreFresh' /\ saved' \in Credentials /\ spent' \subseteq 1..lastToken'
<1>types. /\ lastToken \in 1..MaxTokens /\ MaxTokens \in Nat /\ spent \subseteq 1..lastToken
          /\ saved \in Credentials
  BY AuthAssumption, Zenon DEF IInv, AuthTypeOK
<1>1. saved' \in Credentials /\ saved'[v] = n
      /\ \A u \in Providers : saved[u] \in Nat /\ (u # v => saved'[u] = saved[u])
  BY <1>types, SMT DEF Credentials
<1>2. spent' \subseteq 1..lastToken'
  <2>1. 1..lastToken \subseteq 1..lastToken'
    BY <1>types, SMT
  <2> QED BY <1>types, <2>1, Zenon
<1>3. ASSUME ~blind, ~torn
      PROVE  /\ \A u \in Providers : saved'[u] <= lastToken'
             /\ \A u, w \in Providers : saved'[u] = saved'[w] => u = w \/ saved'[u] = 0
             /\ \A u \in Providers : saved'[u] \in spent' => saved'[u] \in lost'
  <2>1. /\ \A u \in Providers : saved[u] <= lastToken
        /\ \A u, w \in Providers : saved[u] = saved[w] => u = w \/ saved[u] = 0
        /\ \A u \in Providers : saved[u] \in spent => saved[u] \in lost
    BY <1>3, Zenon DEF IInv, TokensAreFresh
  <2>2. \A u \in Providers : saved'[u] <= lastToken'
    BY <1>types, <1>1, <2>1, SMT
  <2>3. \A u, w \in Providers : saved'[u] = saved'[w] => u = w \/ saved'[u] = 0
    BY <1>types, <1>1, <2>1, SMT
  <2>4. ASSUME NEW u \in Providers, saved'[u] \in spent' PROVE saved'[u] \in lost'
    <3>1. u # v
      <4>1. n \notin spent
        BY <1>types, SMT
      <4>2. ASSUME NEW c \in Callers, Token(c) \in 1..lastToken PROVE Token(c) # n
        BY <1>types, <4>2, SMT
      <4> QED BY <1>1, <2>4, <4>1, <4>2, Zenon
    <3>2. saved'[u] = saved[u]
      BY <1>1, <3>1
    <3>3. ASSUME NEW c \in Callers, Token(c) \in 1..lastToken, Token(c) = saved[v]
          PROVE  saved[u] # Token(c)
      <4>1. saved[v] # 0
        BY <1>types, <3>3, SMT
      <4> QED BY <2>1, <3>1, <3>3, <4>1
    <3>4. saved[u] \in spent
      BY <1>3, <2>4, <3>2, <3>3, Zenon
    <3> QED BY <2>1, <3>2, <3>4, Zenon
  <2> QED BY <2>2, <2>3, <2>4, Zenon
<1> QED BY <1>1, <1>2, <1>3, Zenon DEF TokensAreFresh

LEMMA ChangeKeeps ==
  ASSUME IInv, NEW p \in Processes, NEW v \in Providers, NEW n \in 0..MaxTokens,
         Changes(p, v, n),
         \/ n = 0 /\ lastToken' = lastToken
         \/ n = lastToken + 1 /\ lastToken' = n
  PROVE  IInv'
<1>types. /\ MaxTokens \in Nat /\ lastToken \in 1..MaxTokens /\ lastToken' \in lastToken..MaxTokens
          /\ lastToken' \in 1..MaxTokens /\ n <= lastToken'
          /\ lastToken' = lastToken \/ lastToken' = lastToken + 1
          /\ 1..lastToken \subseteq 1..lastToken'
  BY AuthAssumption, SMT DEF IInv, AuthTypeOK
<1>1. /\ UNCHANGED <<call, expired, spent, lost>> /\ file # Missing
      /\ Persist(p, v, n)
  BY Zenon DEF Changes, Ready
<1>2. expired' \subseteq 1..lastToken' /\ call' \in [Callers -> Calls]
  BY <1>types, <1>1, Zenon DEF IInv, AuthTypeOK
<1>3. ASSUME UNCHANGED fileVars, Takes(None) \/ UNCHANGED lockVars PROVE IInv'
  <2>1. Quietly
    BY <1>1, <1>3, Zenon DEF Quietly, Takes, lockVars
  <2> QED BY <1>types, <1>1, <1>2, <2>1, QuietKeeps, Zenon
<1>4. ASSUME file # Malformed, Takes(None), file' = Merged(p, v, n),
             saved' = [saved EXCEPT ![v] = n], torn' = torn
      PROVE  IInv'
  <2>1. blind' = blind /\ holder' = None
    BY <1>4, Zenon DEF Takes
  <2>2. TokensAreFresh' /\ saved' \in Credentials /\ spent' \subseteq 1..lastToken'
    BY <1>types, <1>1, <1>4, <2>1, NewCredential
  <2>3. file' \in Credentials /\ file' # Missing
    <3>1. file \in Credentials
      BY <1>1, <1>4, Zenon DEF IInv, AuthTypeOK
    <3>2. file' \in Credentials
      BY <1>4, <3>1 DEF Merged, Credentials
    <3> QED BY <3>2, EmptyIsCredentials
  <2>4. FileIsSaved'
    BY <1>1, <1>4, <2>1, Zenon DEF IInv, FileIsSaved, Merged
  <2>5. AuthTypeOK'
    BY <1>types, <1>2, <1>4, <2>1, <2>2, <2>3, Zenon DEF IInv, AuthTypeOK
  <2>6. CallsAreReal'
    BY <1>types, <1>1, <2>3, Zenon DEF IInv, CallsAreReal, Asking, Token
  <2>7. AskerHolds'
    BY <1>1, <1>4, <2>1, TakingKeepsTheLock, Zenon DEF IInv, LockInv, AskerHolds, Asking
  <2>8. ReadIsCurrent'
    BY <2>1, AuthAssumption, Zenon DEF ReadIsCurrent
  <2> QED BY <2>2, <2>4, <2>5, <2>6, <2>7, <2>8, Zenon DEF IInv, LockInv
<1> QED BY <1>1, <1>3, <1>4, Zenon DEF Persist, IsLocked

(* ensureFileExists() keeps the invariant: what it truncates is torn.       *)
LEMMA CreateKeeps == ASSUME IInv, NEW p \in Processes, CreatesFile(p) PROVE IInv'
<1>1. /\ UNCHANGED <<saved, holder, robbed, blind, call, lastToken, expired, spent, lost>>
      /\ file' = Empty /\ torn' = (torn \/ file # Missing)
  BY Zenon DEF CreatesFile, lockVars, tokenVars
<1>2. AuthTypeOK'
  BY <1>1, EmptyIsCredentials, Zenon DEF IInv, AuthTypeOK
<1>3. CallsAreReal'
  BY <1>1, EmptyIsCredentials, Zenon DEF IInv, CallsAreReal, Asking, Token
<1>4. AskerHolds'
  BY <1>1, Zenon DEF IInv, LockInv, AskerHolds, Asking
<1>5. ReadIsCurrent'
  BY <1>1, Zenon DEF IInv, ReadIsCurrent, CallsAreReal, Asking
<1>6. FileIsSaved'
  BY <1>1, EmptyIsCredentials, Zenon DEF IInv, FileIsSaved, AuthTypeOK
<1>7. TokensAreFresh'
  BY <1>1, Zenon DEF IInv, TokensAreFresh
<1> QED BY <1>2, <1>3, <1>4, <1>5, <1>6, <1>7, Zenon DEF IInv, LockInv

-----------------------------------------------------------------------------
(* A refresh that gets the lock reads what the file has.                    *)
LEMMA AsksKeeps == ASSUME IInv, NEW c \in Callers, Asks(c) PROVE IInv'
<1> DEFINE v == call[c].provider
<1>1. /\ call[c].phase = "waiting" /\ file \in Credentials /\ file[v] \in expired
      /\ Takes(c) /\ SetCall(c, "asking", v, file)
      /\ UNCHANGED <<file, saved, torn, lastToken, expired, spent, lost>>
  BY Zenon DEF Asks, fileVars, tokenVars, IInv, AuthTypeOK
<1>2. v \in Providers
  BY <1>1, Zenon DEF IInv, CallsAreReal
<1>3. /\ call' \in [Callers -> Calls]
      /\ call'[c] = [phase |-> "asking", provider |-> v, read |-> file]
      /\ \A d \in Callers : d # c => call'[d] = call[d]
  <2>1. "asking" \in Phases /\ v \in Providers \cup {None} /\ AuthTypeOK
    BY <1>2 DEF Phases, IInv
  <2> QED BY <1>1, <2>1, SetCallType, Zenon
<1>4. call'[c].phase = "asking" /\ call'[c].provider = v /\ call'[c].read = file
  BY <1>3
<1>5. holder' = c /\ blind' = blind
      /\ \/ holder \notin Callers /\ robbed' = robbed
         \/ robbed' = robbed \cup {holder}
  BY <1>1, AuthAssumption, Zenon DEF Takes
<1>6. AuthTypeOK'
  BY <1>1, <1>3, <1>5, Zenon DEF IInv, AuthTypeOK
<1>7. CallsAreReal'
  BY <1>1, <1>2, <1>3, <1>4, EmptyIsCredentials, Zenon
     DEF IInv, AuthTypeOK, CallsAreReal, Asking, Token
<1>8. AskerHolds'
  BY <1>3, <1>5, Zenon DEF IInv, LockInv, AskerHolds, Asking
<1>9. ReadIsCurrent'
  BY <1>1, <1>4, <1>5, Zenon DEF ReadIsCurrent
<1>10. FileIsSaved' /\ TokensAreFresh'
  BY <1>1, <1>5, Zenon DEF IInv, FileIsSaved, TokensAreFresh
<1> QED BY <1>6, <1>7, <1>8, <1>9, <1>10, Zenon DEF IInv, LockInv

(* A refresh that ends lets go of its lock, or is told that it has none.    *)
LEMMA ReleaseKeeps ==
  ASSUME IInv, NEW c \in Callers, Asking(c), Releases(c),
         ~Asking(c)', \A d \in Callers : d # c => call'[d] = call[d],
         torn' = torn, c \in told => file' = file
  PROVE  /\ AskerHolds' /\ ReadIsCurrent'
         /\ ~blind' /\ c \notin told => holder = c
<1>1. /\ holder' = IF c \in told THEN holder ELSE None
      /\ robbed' = robbed \ {c} /\ blind' = (blind \/ c \in robbed \ told)
  BY Zenon DEF Releases
<1>2. ~blind' /\ c \notin told => ~blind /\ c \notin robbed
  BY <1>1
<1>3. ~blind' /\ c \notin told => holder = c
  BY <1>2, Zenon DEF IInv, LockInv, AskerHolds
<1>4. ASSUME NEW d \in Callers, Asking(d)'
      PROVE  d # c /\ Asking(d) /\ call'[d] = call[d]
  BY <1>4, Zenon DEF Asking
<1>5. AskerHolds'
  <2> SUFFICES ASSUME ~blind', NEW d \in Callers, Asking(d)', d \notin robbed'
               PROVE  holder' = d
    BY Zenon DEF AskerHolds
  <2>1. holder = d
    BY <1>1, <1>4, Zenon DEF IInv, LockInv, AskerHolds
  <2> QED BY <1>1, <1>3, <1>4, <2>1, Zenon
<1>6. ReadIsCurrent'
  <2> SUFFICES ASSUME ~blind', ~torn', NEW d \in Callers, Asking(d)', holder' = d
               PROVE  call'[d].read = file'
    BY Zenon DEF ReadIsCurrent
  <2>1. c \in told /\ holder = d
    BY <1>1, AuthAssumption, Zenon
  <2> QED BY <1>1, <1>4, <2>1, Zenon DEF IInv, LockInv, ReadIsCurrent
<1> QED BY <1>3, <1>5, <1>6

LEMMA RefusedKeeps == ASSUME IInv, NEW c \in Callers, Refused(c) PROVE IInv'
<1>1. /\ Asking(c) /\ Releases(c) /\ SetCall(c, "failed", None, Empty)
      /\ UNCHANGED <<file, saved, torn, lastToken, expired, spent, lost>>
  BY Zenon DEF Refused, fileVars, tokenVars, Asking
<1>2. /\ call' \in [Callers -> Calls] /\ call'[c].phase = "failed"
      /\ \A d \in Callers : d # c => call'[d] = call[d]
  BY <1>1, FailedType, Zenon DEF IInv
<1>3. ~Asking(c)'
  BY <1>2 DEF Asking
<1>4. AskerHolds' /\ ReadIsCurrent'
  BY <1>1, <1>2, <1>3, ReleaseKeeps, Zenon
<1>5. blind' = (blind \/ c \in robbed \ told)
  BY <1>1, Zenon DEF Releases
<1>6. AuthTypeOK'
  BY <1>1, <1>2, <1>5 DEF IInv, AuthTypeOK
<1>7. CallsAreReal'
  <2> SUFFICES ASSUME NEW d \in Callers
               PROVE  /\ call'[d].phase \in {"waiting", "asking"}
                           => call'[d].provider \in Providers
                      /\ Asking(d)' => Token(d)' \in 1..lastToken' /\ file' # Missing
    BY Zenon DEF CallsAreReal
  <2>1. CASE d = c
    BY <1>2, <2>1 DEF Asking
  <2>2. CASE d # c
    BY <1>1, <1>2, <2>2, Zenon DEF IInv, CallsAreReal, Asking, Token
  <2> QED BY <2>1, <2>2
<1>8. FileIsSaved' /\ TokensAreFresh'
  BY <1>1, <1>5, Zenon DEF IInv, FileIsSaved, TokensAreFresh
<1> QED BY <1>4, <1>6, <1>7, <1>8, Zenon DEF IInv, LockInv

(* The provider has exchanged the token, and its successor is lost.         *)
LEMMA AnswerIsLostKeeps == ASSUME IInv, NEW c \in Callers, AnswerIsLost(c) PROVE IInv'
<1>1. /\ Asking(c) /\ spent' = spent \cup {Token(c)} /\ lost' = lost \cup {Token(c)}
      /\ UNCHANGED <<file, saved, torn, blind, holder, robbed, call, lastToken, expired>>
  BY Zenon DEF AnswerIsLost, fileVars, lockVars, Asking, Token
<1>2. Token(c) \in 1..lastToken
  BY <1>1, Zenon DEF IInv, CallsAreReal
<1>3. AuthTypeOK'
  BY <1>1, <1>2, Zenon DEF IInv, AuthTypeOK
<1>4. CallsAreReal' /\ LockInv'
  BY <1>1, Zenon DEF IInv, CallsAreReal, LockInv, AskerHolds, ReadIsCurrent, Asking, Token
<1>5. FileIsSaved' /\ TokensAreFresh'
  BY <1>1, Zenon DEF IInv, FileIsSaved, TokensAreFresh
<1> QED BY <1>3, <1>4, <1>5, Zenon DEF IInv

(* The new token is written into what was read, which is what was saved; or *)
(* nothing is written by a refresh that knows that its lock is lost.        *)
LEMMA AnsweredKeeps == ASSUME IInv, NEW c \in Callers, Answered(c) PROVE IInv'
<1> DEFINE v == call[c].provider
           n == lastToken + 1
           merged == [call[c].read EXCEPT ![v] = n]
<1>types. /\ MaxTokens \in Nat /\ lastToken \in 1..MaxTokens
          /\ expired \subseteq 1..lastToken /\ spent \subseteq 1..lastToken
          /\ call[c] \in Calls
  BY AuthAssumption, Zenon DEF IInv, AuthTypeOK
<1>1. /\ Asking(c) /\ Releases(c) /\ lastToken < MaxTokens /\ lastToken' = n
      /\ spent' = spent \cup {Token(c)} /\ expired' = expired
      /\ IF c \in told
         THEN /\ lost' = lost \cup {Token(c)} /\ SetCall(c, "failed", None, Empty)
              /\ UNCHANGED <<file, saved, torn>>
         ELSE /\ file' = merged /\ saved' = [saved EXCEPT ![v] = n]
              /\ call' = [call EXCEPT ![c] = Idle]
              /\ UNCHANGED <<torn, lost>>
  BY Zenon DEF Answered, Exchange, fileVars, Asking, Token
<1>2. v \in Providers /\ Token(c) \in 1..lastToken /\ file # Missing
  BY <1>1, Zenon DEF IInv, CallsAreReal, Asking
<1>3. /\ n \in 1..MaxTokens /\ n \in 0..MaxTokens /\ 1..lastToken \subseteq 1..n
      /\ \A k \in 0..MaxTokens : k <= lastToken => k <= n
  BY <1>types, <1>1, SMT
<1>4. /\ call' \in [Callers -> Calls] /\ call'[c].phase \notin {"waiting", "asking"}
      /\ \A d \in Callers : d # c => call'[d] = call[d]
  <2>1. CASE c \in told
    <3>1. AuthTypeOK /\ SetCall(c, "failed", None, Empty)
      BY <1>1, <2>1, Zenon DEF IInv
    <3> QED BY <3>1, FailedType
  <2>2. CASE c \notin told
    <3>1. AuthTypeOK /\ call' = [call EXCEPT ![c] = Idle]
      BY <1>1, <2>2, Zenon DEF IInv
    <3> QED BY <3>1, IdleType
  <2> QED BY <2>1, <2>2
<1>5. /\ merged \in Credentials
      /\ call[c].read = file => merged = [file EXCEPT ![v] = n]
  BY <1>types, <1>3 DEF Calls, Credentials
<1> HIDE DEF n, merged, v
<1>6. AskerHolds' /\ ReadIsCurrent' /\ (~blind' /\ c \notin told => holder = c)
  <2>1. ~Asking(c)' /\ torn' = torn /\ (c \in told => file' = file)
    BY <1>1, <1>4, Zenon DEF Asking
  <2> QED BY <1>1, <1>4, <2>1, ReleaseKeeps, Zenon
<1>7. blind' = (blind \/ c \in robbed \ told) /\ torn' = torn
  BY <1>1, Zenon DEF Releases
<1>8. expired' \subseteq 1..lastToken' /\ spent' \subseteq 1..lastToken'
  BY <1>types, <1>1, <1>2, <1>3, Zenon
<1>9. CallsAreReal' /\ file' # Missing
  <2>1. file' # Missing
    BY <1>1, <1>2, <1>5, EmptyIsCredentials, Zenon
  <2> SUFFICES ASSUME NEW d \in Callers
               PROVE  /\ call'[d].phase \in {"waiting", "asking"}
                           => call'[d].provider \in Providers
                      /\ Asking(d)' => Token(d)' \in 1..lastToken' /\ file' # Missing
    BY <2>1, Zenon DEF CallsAreReal
  <2>2. CASE d = c
    BY <1>4, <2>2, Zenon DEF Asking
  <2>3. CASE d # c
    BY <1>1, <1>3, <1>4, <2>1, <2>3, Zenon DEF IInv, CallsAreReal, Asking, Token
  <2> QED BY <2>2, <2>3
<1>10. CASE c \in told
  <2>1. AuthTypeOK'
    BY <1>1, <1>3, <1>4, <1>7, <1>8, <1>10 DEF IInv, AuthTypeOK
  <2>2. \A u \in Providers : saved[u] \in 0..MaxTokens
    BY DEF IInv, AuthTypeOK, Credentials
  <2>3. FileIsSaved' /\ TokensAreFresh'
    BY <1>1, <1>3, <1>7, <1>10, <2>2, Zenon DEF IInv, FileIsSaved, TokensAreFresh
  <2> QED BY <1>6, <1>9, <2>1, <2>3, Zenon DEF IInv, LockInv
<1>11. CASE c \notin told
  <2>1. ~blind' /\ ~torn => call[c].read = saved /\ file = saved
    <3>1. ~blind' /\ ~torn => ~blind /\ holder = c
      BY <1>6, <1>7, <1>11
    <3>2. ~blind' /\ ~torn => call[c].read = file
      BY <1>1, <3>1, Zenon DEF IInv, LockInv, ReadIsCurrent
    <3> QED BY <1>2, <3>1, <3>2, Zenon DEF IInv, FileIsSaved
  <2>2. FileIsSaved'
    BY <1>1, <1>5, <1>7, <1>11, <2>1, Zenon DEF FileIsSaved
  <2>3. saved' \in Credentials /\ (~blind' => TokensAreFresh')
    <3>1. saved \in Credentials
      BY Zenon DEF IInv, AuthTypeOK
    <3>2. saved' \in Credentials
      BY <1>1, <1>2, <1>3, <1>11, <3>1 DEF Credentials
    <3>3. ASSUME ~blind' PROVE TokensAreFresh'
      <4>1. blind' = blind
        BY <1>7, <3>3, Zenon DEF IInv, AuthTypeOK
      <4>2. ~blind /\ ~torn => Token(c) = saved[v]
        BY <2>1, <4>1, Zenon DEF Token, v
      <4> QED BY <1>1, <1>2, <1>3, <1>11, <4>1, <4>2, NewCredential, SMT DEF n
    <3> QED BY <3>2, <3>3
  <2>4. TokensAreFresh'
    BY <2>3, Zenon DEF TokensAreFresh
  <2>5. AuthTypeOK'
    BY <1>1, <1>3, <1>4, <1>5, <1>7, <1>8, <1>11, <2>3 DEF IInv, AuthTypeOK
  <2> QED BY <1>6, <1>9, <2>2, <2>4, <2>5, Zenon DEF IInv, LockInv
<1> QED BY <1>10, <1>11

(* A process that dies takes its calls with it; one that dies writing tears *)
(* the file.                                                                *)
LEMMA DiesKeeps ==
  ASSUME IInv, NEW p \in Processes, Crash(p) \/ CrashWriting(p)
  PROVE  IInv'
<1>types. /\ call \in [Callers -> Calls] /\ Idle \in Calls /\ Idle.phase = "idle"
          /\ AuthTypeOK
  BY EmptyIsCredentials DEF IInv, AuthTypeOK, Idle, Calls, Phases
<1>1. /\ call' = [c \in Callers |-> IF c \in CallersOf(p) THEN Idle ELSE call[c]]
      /\ robbed' = robbed \ CallersOf(p)
      /\ UNCHANGED <<blind, lastToken, expired, spent, lost, saved>>
  BY Zenon DEF Crash, CrashWriting, Dies, tokenVars, fileVars
<1>2. /\ call' \in [Callers -> Calls]
      /\ \A c \in Callers : call'[c] = IF c \in CallersOf(p) THEN Idle ELSE call[c]
  BY <1>types, <1>1
<1>3. \A c \in Callers :
        /\ call'[c].phase \in {"waiting", "asking"} => call'[c] = call[c]
        /\ Asking(c)' => c \notin CallersOf(p) /\ Asking(c) /\ Token(c)' = Token(c)
                        /\ call'[c] = call[c]
  BY <1>types, <1>2 DEF Asking, Token
<1>4. CASE Crash(p)
  <2>1. /\ holder' = IF holder \in CallersOf(p) THEN Dead ELSE holder
        /\ UNCHANGED <<file, torn>>
    BY <1>4, Zenon DEF Crash, fileVars
  <2>2. AuthTypeOK'
    BY <1>types, <1>1, <1>2, <2>1, Zenon DEF AuthTypeOK
  <2>3. CallsAreReal'
    BY <1>1, <1>3, <2>1, Zenon DEF IInv, CallsAreReal
  <2>4. AskerHolds'
    BY <1>1, <1>3, <2>1, Zenon DEF IInv, LockInv, AskerHolds
  <2>5. ReadIsCurrent'
    BY <1>1, <1>3, <2>1, AuthAssumption, Zenon DEF IInv, LockInv, ReadIsCurrent
  <2>6. FileIsSaved' /\ TokensAreFresh'
    BY <1>1, <2>1, Zenon DEF IInv, FileIsSaved, TokensAreFresh
  <2> QED BY <2>2, <2>3, <2>4, <2>5, <2>6, Zenon DEF IInv, LockInv
<1>5. CASE CrashWriting(p)
  <2>1. /\ holder \in {None, Dead} /\ file' \in {Empty, Malformed} /\ torn' = TRUE
    BY <1>5, Zenon DEF CrashWriting
  <2>2. file' \in Credentials \cup {Malformed} /\ file' # Missing
    BY <2>1, EmptyIsCredentials, Zenon
  <2>3. AuthTypeOK'
    BY <1>types, <1>1, <1>2, <2>1, <2>2, Zenon DEF AuthTypeOK
  <2>4. CallsAreReal'
    BY <1>1, <1>3, <2>2, Zenon DEF IInv, CallsAreReal
  <2>5. AskerHolds'
    BY <1>1, <1>3, <2>1, AuthAssumption, Zenon DEF IInv, LockInv, AskerHolds
  <2>6. ReadIsCurrent' /\ FileIsSaved' /\ TokensAreFresh'
    BY <2>1, Zenon DEF ReadIsCurrent, FileIsSaved, TokensAreFresh
  <2> QED BY <2>3, <2>4, <2>5, <2>6, Zenon DEF IInv, LockInv
<1> QED BY <1>4, <1>5, Zenon

-----------------------------------------------------------------------------
LEMMA StepKeeps == IInv /\ [Next]_vars => IInv'
<1> SUFFICES ASSUME IInv, [Next]_vars PROVE IInv'
  OBVIOUS
<1>types. MaxTokens \in Nat /\ lastToken \in 1..MaxTokens /\ 0 \in 0..MaxTokens
  BY AuthAssumption, SMT DEF IInv, AuthTypeOK
<1>1. ASSUME NEW p \in Processes, NEW v \in Providers, Set(p, v) PROVE IInv'
  <2> DEFINE n == lastToken + 1
  <2>1. Changes(p, v, n) /\ lastToken < MaxTokens /\ lastToken' = n
    BY <1>1, Zenon DEF Set
  <2>2. n \in 0..MaxTokens
    BY <1>types, <2>1, SMT
  <2>3. n = lastToken + 1
    OBVIOUS
  <2> HIDE DEF n
  <2> QED BY <2>1, <2>2, <2>3, ChangeKeeps, Zenon
<1>2. ASSUME NEW p \in Processes, NEW v \in Providers, Remove(p, v) PROVE IInv'
  BY <1>types, <1>2, ChangeKeeps, Zenon DEF Remove
<1> QED
  BY <1>1, <1>2, QuietActions, CreateKeeps, DiesKeeps, AsksKeeps, AnsweredKeeps, RefusedKeeps,
     AnswerIsLostKeeps, Zenon DEF Next

LEMMA Invariance == Spec => []IInv
<1>1. Init => IInv
  BY InitKeeps
<1>2. IInv /\ [Next]_vars => IInv'
  BY StepKeeps
<1> QED BY <1>1, <1>2, PTL DEF Spec

(* The file holds for each provider what was last written for it, however   *)
(* many processes log in, log out, refresh and die: persistProviderChange() *)
(* and refreshOAuthTokenWithLock() write into what they read under the lock.*)
THEOREM Saved == Spec => []NothingSavedIsLost
<1>1. IInv => NothingSavedIsLost
  BY Zenon DEF IInv, FileIsSaved, NothingSavedIsLost
<1> QED BY <1>1, Invariance, PTL

(* No refresh presents a refresh token that the provider has exchanged,     *)
(* unless the answer to the exchange or the lock was lost.                  *)
THEOREM Spent == Spec => []SpentOnce
<1>1. ASSUME IInv, NEW c \in Callers, Asking(c), c \notin robbed, ~blind, ~torn,
             Token(c) \in spent
      PROVE  Token(c) \in lost
  <2>1. call[c].read = file
    BY <1>1, Zenon DEF IInv, LockInv, AskerHolds, ReadIsCurrent
  <2>2. file = saved /\ call[c].provider \in Providers
    BY <1>1, Zenon DEF IInv, CallsAreReal, FileIsSaved, Asking
  <2>3. Token(c) = saved[call[c].provider]
    BY <2>1, <2>2, Zenon DEF Token
  <2> QED BY <1>1, <2>2, <2>3, Zenon DEF IInv, TokensAreFresh
<1>2. IInv => SpentOnce
  BY <1>1, Zenon DEF SpentOnce, Asking, Token
<1> QED BY <1>2, Invariance, PTL

-----------------------------------------------------------------------------
(* What a process has in memory is what it could not save, or something the *)
(* file has or once had.                                                    *)
MemoryIsPast ==
  ~blind /\ ~torn => \A p \in Processes \ unsaved : \A v \in Providers :
    data[p][v] <= lastToken /\ (data[p][v] <= saved[v] \/ saved[v] = 0)
MemInv ==
  IInv /\ up \subseteq Processes /\ data \in [Processes -> Credentials] /\ MemoryIsPast

NotBack ==
  \A p \in up \cap up' : \A v \in Providers :
    p \notin unsaved \cup unsaved' /\ ~blind' /\ ~torn' =>
      data[p][v] <= data'[p][v] \/ (data'[p][v] = 0 /\ saved'[v] = 0)

(* A step keeps what a process has, brings it what is saved, or ends it.    *)
Follows(p, v) ==
  \/ p \notin unsaved /\ data'[p][v] = data[p][v]
  \/ data'[p][v] = saved'[v]
  \/ p \notin up' /\ data'[p][v] = 0

LEMMA MemoryFollows ==
  ASSUME MemInv, IInv', up' \subseteq Processes, data' \in [Processes -> Credentials],
         lastToken' \in lastToken..MaxTokens, blind => blind', torn => torn',
         \A v \in Providers : \/ saved'[v] = saved[v] \/ saved'[v] = 0
                              \/ saved'[v] = lastToken + 1,
         ~blind' /\ ~torn' =>
           \A p \in Processes \ unsaved' : \A v \in Providers : Follows(p, v)
  PROVE  MemInv' /\ NotBack
<1>types. /\ MaxTokens \in Nat /\ lastToken \in Nat /\ lastToken' \in Nat
          /\ lastToken <= lastToken'
          /\ \A v \in Providers : saved[v] \in Nat /\ saved'[v] \in Nat
          /\ \A p \in Processes, v \in Providers : data[p][v] \in Nat /\ data'[p][v] \in Nat
  <2>1. /\ MaxTokens \in Nat /\ 0..MaxTokens \subseteq Nat
        /\ lastToken \in Nat /\ lastToken' \in Nat /\ lastToken <= lastToken'
    BY AuthAssumption, SMT DEF MemInv, IInv, AuthTypeOK
  <2>2. /\ \A v \in Providers : saved[v] \in 0..MaxTokens /\ saved'[v] \in 0..MaxTokens
        /\ \A p \in Processes, v \in Providers :
             data[p][v] \in 0..MaxTokens /\ data'[p][v] \in 0..MaxTokens
    BY DEF MemInv, IInv, AuthTypeOK, Credentials
  <2> QED BY <2>1, <2>2, Zenon
<1>1. ASSUME NEW p \in Processes \ unsaved', NEW v \in Providers, ~blind', ~torn'
      PROVE  data'[p][v] <= lastToken' /\ (data'[p][v] <= saved'[v] \/ saved'[v] = 0)
  <2>1. Follows(p, v) /\ saved'[v] <= lastToken'
    BY <1>1, Zenon DEF IInv, TokensAreFresh
  <2>2. CASE p \notin unsaved /\ data'[p][v] = data[p][v]
    <3>1. data[p][v] <= lastToken /\ (data[p][v] <= saved[v] \/ saved[v] = 0)
      BY <1>1, <2>2, Zenon DEF MemInv, MemoryIsPast
    <3> QED BY <1>types, <1>1, <2>2, <3>1, SMT
  <2>3. CASE data'[p][v] = saved'[v]
    BY <1>types, <1>1, <2>1, <2>3, SMT
  <2>4. CASE data'[p][v] = 0
    BY <1>types, <1>1, <2>4, SMT
  <2> QED BY <2>1, <2>2, <2>3, <2>4, Zenon DEF Follows
<1>2. MemInv'
  BY <1>1, Zenon DEF MemInv, MemoryIsPast
<1>3. ASSUME NEW p \in up \cap up', NEW v \in Providers,
             p \notin unsaved \cup unsaved', ~blind', ~torn'
      PROVE  data[p][v] <= data'[p][v] \/ (data'[p][v] = 0 /\ saved'[v] = 0)
  <2>1. p \in Processes
    BY Zenon DEF MemInv
  <2>2. data[p][v] <= lastToken /\ (data[p][v] <= saved[v] \/ saved[v] = 0)
    BY <1>3, <2>1, Zenon DEF MemInv, MemoryIsPast
  <2>3. data'[p][v] = data[p][v] \/ data'[p][v] = saved'[v]
    BY <1>3, <2>1, Zenon DEF Follows
  <2> QED BY <1>types, <2>1, <2>2, <2>3, SMT
<1>4. NotBack
  BY <1>3, Zenon DEF NotBack
<1> QED BY <1>2, <1>4

LEMMA MemoryStays ==
  ASSUME MemInv, IInv', UNCHANGED <<data, unsaved, up, saved, lastToken>>,
         blind => blind', torn => torn'
  PROVE  MemInv' /\ NotBack
<1>1. lastToken' \in lastToken..MaxTokens
  BY AuthAssumption, SMT DEF MemInv, IInv, AuthTypeOK
<1> QED BY <1>1, MemoryFollows, Zenon DEF MemInv, Follows

(* A reload brings what is saved, or nothing.                               *)
LEMMA ReloadFollows ==
  ASSUME MemInv, IInv', NEW q, file # Missing, Loaded(q) \/ NotLoaded(q),
         UNCHANGED <<file, saved, torn, blind, lastToken>>, up' \subseteq Processes
  PROVE  MemInv' /\ NotBack
<1>1. lastToken' \in lastToken..MaxTokens
  BY AuthAssumption, SMT DEF MemInv, IInv, AuthTypeOK
<1>2. CASE UNCHANGED <<data, unsaved>>
  BY <1>1, <1>2, MemoryFollows, Zenon DEF MemInv, Follows
<1>3. CASE file # Malformed /\ data' = [data EXCEPT ![q] = file] /\ unsaved' = unsaved \ {q}
  <2>1. file \in Credentials
    BY <1>3, Zenon DEF MemInv, IInv, AuthTypeOK
  <2>2. /\ data' \in [Processes -> Credentials]
        /\ \A p \in Processes : data'[p] = IF p = q THEN file ELSE data[p]
    BY <1>3, <2>1 DEF MemInv
  <2>3. ~blind' /\ ~torn' => file = saved'
    BY Zenon DEF MemInv, IInv, FileIsSaved
  <2>4. ASSUME NEW p \in Processes \ unsaved', NEW v \in Providers, ~blind', ~torn'
        PROVE  Follows(p, v)
    BY <1>3, <2>2, <2>3, <2>4 DEF Follows
  <2> QED BY <1>1, <2>2, <2>4, MemoryFollows, Zenon
<1> QED BY <1>2, <1>3, Zenon DEF Loaded, NotLoaded

LEMMA ChangeFollows ==
  ASSUME MemInv, IInv', NEW q \in Processes, NEW w \in Providers, NEW n \in 0..MaxTokens,
         Changes(q, w, n),
         \/ n = 0 /\ lastToken' = lastToken
         \/ n = lastToken + 1 /\ lastToken' = n
  PROVE  MemInv' /\ NotBack
<1>1. lastToken' \in lastToken..MaxTokens
  BY AuthAssumption, SMT DEF MemInv, IInv, AuthTypeOK
<1>2. /\ data' = [data EXCEPT ![q][w] = n] /\ up' = up /\ blind' = blind /\ torn' = torn
      /\ \/ saved' = [saved EXCEPT ![w] = n] /\ unsaved' = unsaved
         \/ saved' = saved /\ unsaved' = unsaved \cup {q}
  BY Zenon DEF Changes, Persist, Takes, IsLocked, lockVars, fileVars
<1>3. /\ data' \in [Processes -> Credentials]
      /\ \A p \in Processes : \A v \in Providers :
           data'[p][v] = IF p = q /\ v = w THEN n ELSE data[p][v]
  BY <1>2 DEF MemInv, Credentials
<1>4. CASE saved' = [saved EXCEPT ![w] = n] /\ unsaved' = unsaved
  <2>1. \A v \in Providers : saved'[v] = IF v = w THEN n ELSE saved[v]
    BY <1>4 DEF MemInv, IInv, AuthTypeOK, Credentials
  <2>2. ASSUME NEW p \in Processes \ unsaved', NEW v \in Providers PROVE Follows(p, v)
    BY <1>3, <1>4, <2>1, <2>2 DEF Follows
  <2> QED BY <1>1, <1>2, <1>3, <2>1, <2>2, MemoryFollows, Zenon DEF MemInv
<1>5. CASE saved' = saved /\ unsaved' = unsaved \cup {q}
  <2>1. ASSUME NEW p \in Processes \ unsaved', NEW v \in Providers PROVE Follows(p, v)
    BY <1>3, <1>5, <2>1 DEF Follows
  <2> QED BY <1>1, <1>2, <1>3, <1>5, <2>1, MemoryFollows, Zenon DEF MemInv
<1> QED BY <1>2, <1>4, <1>5

LEMMA AnswerFollows ==
  ASSUME MemInv, IInv', NEW c \in Callers, Answered(c)
  PROVE  MemInv' /\ NotBack
<1> DEFINE q == Process(c)
           w == call[c].provider
           n == lastToken + 1
           merged == [call[c].read EXCEPT ![w] = n]
<1>1. /\ lastToken' = n /\ lastToken < MaxTokens /\ data' = [data EXCEPT ![q] = merged]
      /\ up' = up /\ Releases(c) /\ torn' = torn
      /\ IF c \in told THEN saved' = saved /\ unsaved' = unsaved \cup {q}
         ELSE /\ file' = merged /\ saved' = [saved EXCEPT ![w] = n]
              /\ unsaved' = unsaved \ {q}
  BY Zenon DEF Answered, Exchange, fileVars
<1>2. lastToken' \in lastToken..MaxTokens /\ n \in 0..MaxTokens
  BY <1>1, AuthAssumption, SMT DEF MemInv, IInv, AuthTypeOK
<1>3. merged \in Credentials
  BY <1>2 DEF MemInv, IInv, AuthTypeOK, Calls, Credentials
<1> HIDE DEF merged
<1>4. /\ data' \in [Processes -> Credentials]
      /\ \A p \in Processes : data'[p] = IF p = q THEN merged ELSE data[p]
  BY <1>1, <1>3 DEF MemInv
<1>5. blind => blind'
  BY <1>1, Zenon DEF Releases
<1>6. CASE c \in told
  <2>1. ASSUME NEW p \in Processes \ unsaved', NEW v \in Providers PROVE Follows(p, v)
    BY <1>1, <1>4, <1>6, <2>1 DEF Follows
  <2> QED BY <1>1, <1>2, <1>4, <1>5, <1>6, <2>1, MemoryFollows, Zenon DEF MemInv
<1>7. CASE c \notin told
  <2>1. \A v \in Providers : saved'[v] = saved[v] \/ saved'[v] = lastToken + 1
    BY <1>1, <1>7 DEF MemInv, IInv, AuthTypeOK, Credentials
  <2>2. ~blind' /\ ~torn' => merged = saved'
    <3>1. merged # Missing
      BY <1>3, EmptyIsCredentials
    <3> QED BY <1>1, <1>7, <3>1, Zenon DEF IInv, FileIsSaved
  <2>3. ASSUME NEW p \in Processes \ unsaved', NEW v \in Providers, ~blind', ~torn'
        PROVE  Follows(p, v)
    BY <1>1, <1>4, <1>7, <2>2, <2>3 DEF Follows
  <2> QED BY <1>1, <1>2, <1>4, <1>5, <2>1, <2>3, MemoryFollows, Zenon DEF MemInv
<1> QED BY <1>6, <1>7

LEMMA DeathFollows ==
  ASSUME MemInv, IInv', NEW q \in Processes, Crash(q) \/ CrashWriting(q)
  PROVE  MemInv' /\ NotBack
<1>1. /\ up' = up \ {q} /\ data' = [data EXCEPT ![q] = Empty] /\ unsaved' = unsaved \ {q}
      /\ UNCHANGED <<saved, blind, lastToken>> /\ (torn => torn')
  <2>1. Dies(q) /\ saved' = saved /\ (torn' = torn \/ torn' = TRUE)
    BY Zenon DEF Crash, CrashWriting, fileVars
  <2>2. Dies(q) => /\ up' = up \ {q} /\ data' = [data EXCEPT ![q] = Empty]
                   /\ unsaved' = unsaved \ {q} /\ blind' = blind /\ lastToken' = lastToken
    BY Zenon DEF Dies, tokenVars
  <2>3. torn => torn'
    BY <2>1, Zenon
  <2> QED BY <2>1, <2>2, <2>3
<1>2. lastToken' \in lastToken..MaxTokens
  BY <1>1, AuthAssumption, SMT DEF MemInv, IInv, AuthTypeOK
<1>3. /\ data' \in [Processes -> Credentials]
      /\ \A p \in Processes : data'[p] = IF p = q THEN Empty ELSE data[p]
  BY <1>1, EmptyIsCredentials DEF MemInv
<1>4. ASSUME NEW p \in Processes \ unsaved', NEW v \in Providers PROVE Follows(p, v)
  BY <1>1, <1>3, <1>4, EmptyIsCredentials DEF Follows
<1>5. up' \subseteq Processes
  BY <1>1 DEF MemInv
<1> QED BY <1>1, <1>2, <1>3, <1>4, <1>5, MemoryFollows, Zenon

LEMMA MemoryStep == ASSUME MemInv, [Next]_vars PROVE MemInv' /\ NotBack
<1>types. /\ IInv' /\ MaxTokens \in Nat /\ 0 \in 0..MaxTokens /\ lastToken \in 1..MaxTokens
          /\ up \subseteq Processes
  <2>1. IInv' /\ IInv /\ up \subseteq Processes
    BY StepKeeps, Zenon DEF MemInv
  <2> QED BY <2>1, AuthAssumption, SMT DEF IInv, AuthTypeOK
<1>1. ASSUME NEW q \in Processes, NEW w \in Providers, Set(q, w) PROVE MemInv' /\ NotBack
  <2> DEFINE n == lastToken + 1
  <2>1. Changes(q, w, n) /\ lastToken < MaxTokens /\ lastToken' = n
    BY <1>1, Zenon DEF Set
  <2>2. n \in 0..MaxTokens
    BY <1>types, <2>1, SMT
  <2>3. n = lastToken + 1
    OBVIOUS
  <2> HIDE DEF n
  <2> QED BY <1>types, <2>1, <2>2, <2>3, ChangeFollows, Zenon
<1>2. ASSUME NEW q \in Processes, NEW w \in Providers, Remove(q, w) PROVE MemInv' /\ NotBack
  BY <1>types, <1>2, ChangeFollows, Zenon DEF Remove
<1>3. ASSUME NEW q \in Processes, FindsNoFile(q) \/ CreatesFile(q) PROVE MemInv' /\ NotBack
  <2>1. /\ UNCHANGED <<memoryVars, up, saved, lockVars, tokenVars>>
        /\ torn' = torn \/ torn' = (torn \/ file # Missing)
    BY <1>3, Zenon DEF FindsNoFile, CreatesFile, fileVars
  <2>2. torn => torn'
    BY <2>1, Zenon
  <2>3. UNCHANGED <<data, unsaved, up, saved, lastToken>> /\ blind' = blind
    BY <2>1, Zenon DEF memoryVars, lockVars, tokenVars
  <2> QED BY <1>types, <2>2, <2>3, MemoryStays, Zenon
<1>4. ASSUME NEW q \in Processes, Starts(q) PROVE MemInv' /\ NotBack
  <2>1. /\ file # Missing /\ up' = up \cup {q} /\ (Loaded(q) \/ NotLoaded(q))
        /\ UNCHANGED <<file, saved, torn, blind, lastToken>>
    BY <1>4, Zenon DEF Starts, Reload, Takes, IsLocked, lockVars, fileVars, tokenVars
  <2>2. up' \subseteq Processes
    BY <1>types, <2>1
  <2> QED BY <1>types, <2>1, <2>2, ReloadFollows, Zenon
<1>5. ASSUME NEW c \in Callers, Asks(c) \/ FindsFresh(c) \/ Recovers(c)
      PROVE  MemInv' /\ NotBack
  <2>1. /\ file # Missing /\ up' = up /\ (Loaded(Process(c)) \/ NotLoaded(Process(c)))
        /\ UNCHANGED <<file, saved, torn, blind, lastToken>>
    BY <1>5, Zenon DEF Asks, FindsFresh, Recovers, Ready, Reload, Takes, IsLocked, lockVars,
                       fileVars, tokenVars
  <2> QED BY <1>types, <2>1, ReloadFollows, Zenon
<1>6. ASSUME NEW c \in Callers, NEW v \in Providers, Needs(c, v) PROVE MemInv' /\ NotBack
  BY <1>types, <1>6, MemoryStays, Zenon
     DEF Needs, memoryVars, fileVars, lockVars, tokenVars
<1>7. ASSUME NEW c \in Callers, CannotRead(c) \/ Refused(c) \/ AnswerIsLost(c) \/ IsTold(c)
      PROVE  MemInv' /\ NotBack
  <2>1. UNCHANGED <<memoryVars, fileVars, up>> /\ lastToken' = lastToken
    BY <1>7, Zenon DEF CannotRead, Refused, AnswerIsLost, IsTold, tokenVars
  <2>2. blind => blind'
    <3>1. CASE CannotRead(c)
      BY <3>1, Zenon DEF CannotRead, Takes, IsLocked, lockVars
    <3>2. CASE Refused(c)
      BY <3>2, Zenon DEF Refused, Releases
    <3>3. CASE AnswerIsLost(c) \/ IsTold(c)
      BY <3>3, Zenon DEF AnswerIsLost, IsTold, lockVars
    <3> QED BY <1>7, <3>1, <3>2, <3>3, Zenon
  <2>3. UNCHANGED <<data, unsaved, up, saved, lastToken>> /\ torn' = torn
    BY <2>1, Zenon DEF memoryVars, fileVars
  <2> QED BY <1>types, <2>2, <2>3, MemoryStays, Zenon
<1>8. ASSUME NEW n \in 1..MaxTokens, Expires(n) PROVE MemInv' /\ NotBack
  BY <1>types, <1>8, MemoryStays, Zenon DEF Expires, memoryVars, fileVars, lockVars
<1>9. CASE UNCHANGED vars
  BY <1>types, <1>9, MemoryStays, Zenon DEF vars
<1> QED BY <1>types, <1>1, <1>2, <1>3, <1>4, <1>5, <1>6, <1>7, <1>8, <1>9,
           AnswerFollows, DeathFollows, Zenon DEF Next

(* No process that could save what it has goes back to an older credential, *)
(* whoever logs in, logs out, refreshes or dies meanwhile.                  *)
THEOREM NeverOlder == Spec => NeverBackToOlder
<1>1. Init => MemInv
  <2> SUFFICES ASSUME Init PROVE MemInv
    OBVIOUS
  <2>1. IInv
    BY InitKeeps
  <2>2. /\ data = [p \in Processes |-> Empty] /\ up = {} /\ lastToken = 1
        /\ saved \in Credentials
    BY <2>1, Zenon DEF Init, IInv, AuthTypeOK
  <2>3. /\ data \in [Processes -> Credentials]
        /\ \A p \in Processes : \A v \in Providers : data[p][v] = 0 /\ saved[v] \in 0..MaxTokens
    BY <2>2, EmptyIsCredentials DEF Credentials
  <2>4. \A p \in Processes : \A v \in Providers : data[p][v] <= lastToken /\ data[p][v] <= saved[v]
    BY <2>2, <2>3, AuthAssumption, SMT
  <2> QED BY <2>1, <2>2, <2>3, <2>4 DEF MemInv, MemoryIsPast
<1>2. ASSUME MemInv, [Next]_vars
      PROVE  [\A p \in up \cap up', v \in Providers :
                p \notin unsaved \cup unsaved' /\ ~blind' /\ ~torn' =>
                  data[p][v] <= data'[p][v] \/ (data'[p][v] = 0 /\ saved'[v] = 0)]_vars
  BY <1>2, MemoryStep, Zenon DEF NotBack
<1> QED BY <1>1, <1>2, MemoryStep, PTL DEF Spec, NeverBackToOlder
=============================================================================
