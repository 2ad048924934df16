---------------------------- MODULE MCAuthStorage ----------------------------
(* Instances of AuthStorage for TLC.                                           *)
EXTENDS AuthStorage, TLC

CONSTANTS a, b, a1, b1, x, y
MCProcess(c) == IF c = b1 THEN b ELSE a

(* Which provider is which makes no difference.                               *)
ProviderSymmetry == Permutations(Providers)

(* Nobody has to use the store.                                                *)
Quiet == creating = {} /\ (\A c \in Callers : call[c] = Idle) /\ UNCHANGED vars
MCSpec == Init /\ [][Next \/ Quiet]_vars
=============================================================================
