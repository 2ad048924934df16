\* A file given two of five contents, each whole or in two steps, and removed
\* once, before and after the process starts; the process dies once.
SPECIFICATION MCFairSpec
CONSTANTS
  immediate = immediate
  soon = soon
  far = far
  periodic = periodic
  broken = broken
  Versions = {immediate, soon, far, periodic, broken}
  Kind <- MCKind
  At <- MCAt
  MaxDelay = 3
  MaxTries = 3
  MaxNow = 1
  MaxDeaths = 1
  MaxWrites = 2
  MaxRemoves = 1
  MaxReading = 2
  NoFile = NoFile
INVARIANT
  ScheduledAsOnDisk
PROPERTIES
  RunOnceInTime
  EventIsRun
