\* Write and edit calls on one file through two paths: the chains of promises.
SPECIFICATION MCSpec
CONSTANTS
  Calls = {a, b, c}
  Paths <- AliasPaths
  RealPath <- MCRealPath
  MaxAborts = 1
  None = None
SYMMETRY Interchangeable
INVARIANTS
  EditsPreserved
PROPERTIES
  EachKeyIsSerial
