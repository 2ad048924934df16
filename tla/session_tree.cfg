\* Two processes, two files, a failed write and a fork.
SPECIFICATION Spec
CONSTANTS
  Processes = {p1, p2}
  Files = {f1, f2}
  Kinds = {"user", "assistant"}
  MaxEntries = 4
  MaxIncidents = 3
SYMMETRY FilesAlike
INVARIANTS
  ReopensAsItIs
  FileIsATree
  ForkKeepsUnlabelledHistory
PROPERTIES
  EntriesStay
CHECK_DEADLOCK FALSE
