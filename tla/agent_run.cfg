\* The agent's own state, the loop's private copy of it and the tools, in
\* parallel mode, with an exception and a reset at any await; every run ends.
SPECIFICATION MCFairSpec
CONSTANTS
  ToolExecution = "parallel"
  SteeringMode = "one-at-a-time"
  FollowUpMode = "all"
  MaxCalls = 2
  MaxMsgs = 2
  ToolTurns = 1
  MaxContinues = 1
  MaxThrows = 1
  MaxResets = 1
INVARIANTS
  ContextInSync
  AgentEndReport
  CallsAnswered
  IdleIsQuiet
PROPERTIES
  RunEnds
