SPECIFICATION FairSpec
CONSTANTS
  t1 = t1
  t2 = t2
  fileA = fileA
  fileB = fileB
  r1 = r1
  r2 = r2
  None = None
  Tasks = {t1}
  Paths = {fileA, fileB}
  PathOf <- OneTask
  Contents = {x, y}
  Requests = {r1, r2}
  Ops = {"publish", "rename"}
  Faults = {}
  MaxPushes = 2
\* Once everything is published and nobody asks for more, the system stops.
CHECK_DEADLOCK FALSE
PROPERTIES
  PublishKeepsEdits
  ConflictsEnd
