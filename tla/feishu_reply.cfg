\* One answer, streamed into a card beside the working pulse; of its requests
\* two of them refused or without their response.
SPECIFICATION MCFairSpec
CONSTANTS
  Tokens = {0, 1, 2, 3, 4, 9}
  Script <- MCScript
  Again <- MCAgain
  Separator = 0
  Thinking = 8
  Notice = 9
  ChunkLength = 4
  MaxUpdates = 2
  MaxTicks = 1
  MaxFailures = 2
INVARIANTS
  FinalTextShown
  TypingIsCleared
  OpenCardsAreLost
PROPERTIES
  CardTextGrows
  RunSettles
