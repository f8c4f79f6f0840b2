SPECIFICATION Spec
CONSTANTS
  t1 = t1
  t2 = t2
  p1 = p1
  p2 = p2
  None = None
  Tasks = {t1, t2}
  Projects = {p1}
  InitialProject <- SameProject
  Uploads = {}
  Requests = {r1}
  Ops = {"cancel", "pause", "resume", "deleteProject", "crash", "shutdown", "retry"}
  MaxQueue = 2
SYMMETRY TaskSymmetry
\* Users may stop asking, and then the server has nothing left to do.
CHECK_DEADLOCK FALSE
INVARIANTS
  RunningHasExecution
  
  QueuedIsTracked
