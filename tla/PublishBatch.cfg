SPECIFICATION Spec
CONSTANTS
  t1 = t1
  t2 = t2
  fileA = fileA
  fileB = fileB
  r1 = r1
  r2 = r2
  None = None
  Tasks = {t1, t2}
  Paths = {fileA, fileB}
  PathOf <- OwnFiles
  Contents = {x}
  Requests = {r1, r2}
  Ops = {"batch", "retry", "edit"}
  Faults = {"error", "crash"}
  MaxPushes = 1
SYMMETRY OwnFilesSymmetry
\* Once everything is published and nobody asks for more, the system stops.
CHECK_DEADLOCK FALSE
INVARIANTS
  TypeOK
  PublicationsAreReal
PROPERTY CommitsOnlyOwnFiles
