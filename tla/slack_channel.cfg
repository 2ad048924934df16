\* Two mentions, one of a user whose name is not known, a remark and three events
\* for a queue that takes one, a stop, and a message delivered twice.
SPECIFICATION MCChannelSpec
CONSTANTS
  m1 = m1
  m2 = m2
  c1 = c1
  Mentions = {m1, m2}
  Chatter = {c1}
  StopMessages = {s1}
  Events = {e1, e2, e3}
  Tasks <- MCTasks
  Text <- MCText
  PromptText <- MCPromptText
  MaxWaiting = 1
  MaxRedelivered = 1
INVARIANTS
  WaitingAreEvents
  ContextIsComplete
  ToldOnce
