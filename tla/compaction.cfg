\* Paths of up to five entries, two compactions in flight, one move to an ancestor.
SPECIFICATION Spec
CONSTANTS
  Compactors = {manual, auto}
  KeepRecent = 2
  Sizes <- LargeMessages
  MaxEntries = 5
  MaxNavigations = 1
SYMMETRY CompactorsAlike
INVARIANTS
  CutsWell
  NothingSkipped
  ForgetsOnlyAtSplitTurns
CHECK_DEADLOCK FALSE
