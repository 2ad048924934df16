\* Two messages of a conversation and a stranger, redelivered, with a full
\* filter, an expired mark, a failed append and a crash.
SPECIFICATION MCBotSpec
CONSTANTS
  Messages = {a, b}
  Strangers = {s}
  Tasks <- MCTasks
  Ttl = 1
  MaxMarks = 2
  MaxDeliveries = 4
  MaxTime = 2
  MaxCrashes = 1
  MaxFailures = 1
INVARIANTS
  NoEarlyReplay
PROPERTIES
  ServesInTurn
  EveryMessageIsServed
