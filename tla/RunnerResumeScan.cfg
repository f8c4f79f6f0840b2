SPECIFICATION Spec
CONSTANTS
  t1 = t1
  t2 = t2
  p1 = p1
  p2 = p2
  None = None
  Tasks = {t1, t2}
  Projects = {p1, p2}
  InitialProject <- OnePerProject
  Uploads = {}
  Requests = {r1}
  Ops = {"pause", "resume"}
  MaxQueue = 2
\* Users may stop asking, and then the server has nothing left to do.
CHECK_DEADLOCK FALSE
INVARIANT NoLostTask
