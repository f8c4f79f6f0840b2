SPECIFICATION Spec
CONSTANTS
  Files = {fileA, fileB}
  Requests = {r1, r2}
  Limit = 1
  MaxTasks = 4
  MaxGroups = 1
SYMMETRY Symmetry
\* The bounds end the exploration.
CHECK_DEADLOCK FALSE
INVARIANTS
  TypeOK
  DuplicatesOverlap
  ProcessingIsServed
