\* Steering and follow-up messages against the polls of the loop, sequential
\* tools, both queues one message at a time, one exception and one reset.
SPECIFICATION MCSpec
CONSTANTS
  ToolExecution = "sequential"
  SteeringMode = "one-at-a-time"
  FollowUpMode = "one-at-a-time"
  MaxCalls = 2
  MaxMsgs = 3
  ToolTurns = 1
  MaxContinues = 1
  MaxThrows = 1
  MaxResets = 1
INVARIANTS
  NothingLostOrDoubled
  DeliveredInTurn
