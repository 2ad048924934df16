\* Two processes that refresh and log in to two providers; one crash or one lock
\* taken from a live process.
SPECIFICATION MCSpec
CONSTANTS
  a = a
  x = x
  y = y
  b = b
  a1 = a1
  b1 = b1
  Processes = {a, b}
  Providers = {x, y}
  Callers = {a1, b1}
  Process <- MCProcess
  MaxTokens = 3
  MaxMishaps = 1
  None = None
  Dead = Dead
  Missing = Missing
  Malformed = Malformed
SYMMETRY
  ProviderSymmetry
INVARIANTS
  NothingSavedIsLost
  SpentOnce
PROPERTY
  NeverBackToOlder
