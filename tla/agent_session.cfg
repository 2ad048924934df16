\* The session behind its agent, within the bounds of MCAgentSession.
SPECIFICATION FairSpec
CONSTANTS
  Callers = {c1}
  MaxRetries = 1
  ThrowPhases = {"respond", "tools"}
  Bounds <- SessionBounds
INVARIANTS
  PersistedInOrder
  TranscriptMatchesSession
  QueuesAgree
  RecoversOnce
  RetryInProgress
  RetryIsAwaited
PROPERTIES
  PromptReturns
CHECK_DEADLOCK FALSE
