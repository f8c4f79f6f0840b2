SPECIFICATION Spec
CONSTANTS
  t1 = t1
  t2 = t2
  p1 = p1
  p2 = p2
  None = None
  Tasks = {t1, t2}
  Projects = {p1}
  InitialProject <- WithUpload
  Uploads = {t2}
  Requests = {r1, r2}
  Ops = {"create", "cancel", "delete", "retry", "publish", "patch"}
  MaxQueue = 2
SYMMETRY RequestSymmetry
\* Users may stop asking, and then the server has nothing left to do.
CHECK_DEADLOCK FALSE
INVARIANTS
  TypeOK
  ScheduledIsQueued
  ExecutionExclusive

  
