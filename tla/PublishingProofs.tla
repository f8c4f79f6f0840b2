-------------------------- MODULE PublishingProofs --------------------------
(* Theorems about Publishing, for every value of its constants.             *)
EXTENDS Publishing, TLAPS

\* The task of a request that is not a batch.
LEMMA SingleTask ==
    ASSUME TypeOK, NEW r \in Requests, req[r].pc \in Single
    PROVE  TaskOf(r) \in Tasks /\ req[r].tasks = {TaskOf(r)}
BY DEF TypeOK, RequestOK, TaskOf

LEMMA IdleOK == RequestOK(Idle) /\ Idle.pc = "idle"
<1>1. PathOf \in [Tasks -> Paths] /\ Nothing \in [Tasks -> Blob]
  BY PublishingAssumption DEF PublishingAssumption, Nothing, Blob
<1>2. [t \in Tasks |-> "done"] \in [Tasks -> Status] /\ [p \in Paths |-> None] \in [Paths -> Blob]
  BY DEF Status, Blob
<1> QED
  BY <1>1, <1>2 DEF Idle, RequestOK, RequestRecord, RequestPc, Single

\* The requests when one of them gets a new record.
RequestsOK == req \in [Requests -> RequestRecord] /\ \A r \in Requests : RequestOK(req[r])

LEMMA NewRecord ==
    ASSUME TypeOK, NEW r \in Requests, NEW record, RequestOK(record),
           req' = [req EXCEPT ![r] = record]
    PROVE  RequestsOK' /\ req'[r] = record /\ \A q \in Requests : q # r => req'[q] = req[q]
<1>1. req \in [Requests -> RequestRecord] /\ \A q \in Requests : RequestOK(req[q])
  BY DEF TypeOK
<1>2. record \in RequestRecord
  BY DEF RequestOK
<1>3. /\ req' \in [Requests -> RequestRecord] /\ req'[r] = record
      /\ \A q \in Requests : q # r => req'[q] = req[q]
  BY <1>1, <1>2
<1>4. \A q \in Requests : RequestOK(req'[q])
  BY <1>1, <1>3
<1> QED
  BY <1>3, <1>4 DEF RequestsOK

LEMMA FinishRecord ==
    ASSUME TypeOK, NEW r \in Requests, Finish(r)
    PROVE  RequestsOK' /\ req'[r] = Idle /\ \A q \in Requests : q # r => req'[q] = req[q]
BY IdleOK, NewRecord DEF Finish

\* A request goes on, keeping what it has read.
Same(q, p) == /\ q.tasks = p.tasks /\ q.paths = p.paths /\ q.seen = p.seen /\ q.ours = p.ours
              /\ q.known = p.known

LEMMA GotoRecord ==
    ASSUME TypeOK, NEW r \in Requests, NEW pc \in RequestPc, Goto(r, pc),
           pc \in Single => req[r].pc \in Single,
           pc \notin {"batchHead", "batchRef"}
    PROVE  /\ RequestsOK' /\ \A q \in Requests : q # r => req'[q] = req[q]
           /\ Same(req'[r], req[r]) /\ req'[r].pc = pc
           /\ req'[r].current = req[r].current /\ req'[r].base = req[r].base
<1> DEFINE record == [req[r] EXCEPT !.pc = pc]
<1>1. req[r] \in RequestRecord /\ RequestOK(req[r])
  BY DEF TypeOK
<1>2. /\ record \in RequestRecord /\ Same(record, req[r]) /\ record.pc = pc
      /\ record.current = req[r].current /\ record.base = req[r].base
  BY <1>1 DEF RequestRecord, Same
<1>3. req' = [req EXCEPT ![r] = record]
  BY DEF Goto
<1> HIDE DEF record
<1>4. RequestOK(record)
  BY <1>1, <1>2 DEF RequestOK, Same
<1> QED
  BY <1>2, <1>3, <1>4, NewRecord

\* A request loads its tasks.
LEMMA LoadRecord ==
    ASSUME TypeOK, NEW r \in Requests, NEW pc \in {"check", "batchCheck", "editWrite"},
           NEW S \in SUBSET Tasks, NEW paths \in [Tasks -> Paths], Load(r, pc, S, paths),
           pc # "batchCheck" => \E t \in Tasks : S = {t}
    PROVE  /\ RequestsOK' /\ \A q \in Requests : q # r => req'[q] = req[q]
           /\ req'[r].pc = pc /\ req'[r].tasks = S
           /\ \A t \in S : req'[r].known[t] = targetSha[t]
<1> DEFINE record == [pc |-> pc, tasks |-> S, paths |-> paths,
                      seen |-> Of(S, status, Idle.seen), ours |-> Of(S, content, Nothing),
                      known |-> Of(S, targetSha, Nothing),
                      current |-> Nothing, base |-> Idle.base]
<1>1. Nothing \in [Tasks -> Blob] /\ Idle.base \in [Paths -> Blob]
  BY DEF Nothing, Blob, Idle
<1>2. pc \in RequestPc
  BY DEF RequestPc
<1>3. record \in RequestRecord
  <2>1. Of(S, status, Idle.seen) \in [Tasks -> Status]
    BY DEF Of, Idle, Status, TypeOK
  <2>2. Of(S, content, Nothing) \in [Tasks -> Blob] /\ Of(S, targetSha, Nothing) \in [Tasks -> Blob]
    BY <1>1 DEF Of, TypeOK
  <2> QED
    BY <1>1, <1>2, <2>1, <2>2 DEF RequestRecord
<1>4. /\ record.pc = pc /\ record.tasks = S
      /\ \A t \in S : record.known[t] = targetSha[t]
  BY DEF Of
<1>5. req' = [req EXCEPT ![r] = record]
  BY DEF Load
<1> HIDE DEF record
<1>6. RequestOK(record)
  BY <1>3, <1>4 DEF RequestOK, Single
<1> QED
  BY <1>4, <1>5, <1>6, NewRecord

\* A publish request learns the sha of its file.
LEMMA CheckRecord ==
    ASSUME TypeOK, NEW r \in Requests, PublishCheck(r)
    PROVE  /\ RequestsOK' /\ \A q \in Requests : q # r => req'[q] = req[q]
           /\ Same(req'[r], req[r]) /\ req'[r].pc \in {"put", "conflictWrite", "theirs"}
           /\ req'[r].pc = "put" => \A t \in req[r].tasks :
                 req[r].paths[t] = PathOf[t] => req'[r].current[t] = req[r].known[t]
<1> DEFINE t == TaskOf(r)
           sha == remote[PathFor(r)]
           conflict == PathFor(r) = PathOf[t] /\ sha # req[r].known[t]
           pc == IF ~conflict THEN "put" ELSE IF sha = None THEN "conflictWrite" ELSE "theirs"
           current == [req[r].current EXCEPT ![t] = sha]
           record == [req[r] EXCEPT !.pc = pc, !.current = current]
<1>1. req[r] \in RequestRecord /\ RequestOK(req[r]) /\ req[r].pc = "check"
  BY DEF TypeOK, PublishCheck
<1>2. t \in Tasks /\ req[r].tasks = {t}
  BY <1>1, SingleTask DEF Single
<1>3. sha \in Blob
  <2>1. PathFor(r) \in Paths
    BY <1>1, <1>2 DEF PathFor, RequestRecord
  <2> QED
    BY <2>1 DEF TypeOK
<1>4. current \in [Tasks -> Blob] /\ current[t] = sha
  BY <1>1, <1>2, <1>3 DEF RequestRecord
<1>5. pc \in {"put", "conflictWrite", "theirs"} /\ (pc = "put" => ~conflict)
  OBVIOUS
<1>6. req' = [req EXCEPT ![r] = record]
  BY <1>1 DEF PublishCheck, TypeOK
<1> HIDE DEF current, pc
<1>7. record \in RequestRecord /\ Same(record, req[r]) /\ record.pc = pc /\ record.current = current
  BY <1>1, <1>4, <1>5 DEF RequestRecord, RequestPc, Same
<1> HIDE DEF record
<1>8. RequestOK(record)
  BY <1>2, <1>5, <1>7 DEF RequestOK, Same
<1>9. RequestsOK' /\ req'[r] = record /\ \A q \in Requests : q # r => req'[q] = req[q]
  BY <1>6, <1>8, NewRecord
<1>10. pc = "put" /\ req[r].paths[t] = PathOf[t] => current[t] = req[r].known[t]
  BY <1>4, <1>5 DEF PathFor
<1> QED
  BY <1>2, <1>5, <1>7, <1>9, <1>10

\* A batch learns the shas of all its files.
LEMMA BatchCheckRecord ==
    ASSUME TypeOK, NEW r \in Requests, BatchCheck(r)
    PROVE  /\ RequestsOK' /\ \A q \in Requests : q # r => req'[q] = req[q]
           /\ Same(req'[r], req[r]) /\ req'[r].pc \in {"batchCommit", "batchHead"}
           /\ req'[r].pc = "batchCommit" => Clean(req'[r]) = {}
<1> DEFINE current == [t \in Tasks |-> IF t \in req[r].tasks THEN remote[PathOf[t]] ELSE None]
           q == [req[r] EXCEPT !.current = current]
           pc == IF Clean(q) = {} THEN "batchCommit" ELSE "batchHead"
           record == [q EXCEPT !.pc = pc]
<1>1. req[r] \in RequestRecord /\ req' = [req EXCEPT ![r] = record]
  BY DEF TypeOK, BatchCheck
<1>2. current \in [Tasks -> Blob]
  BY PublishingAssumption DEF PublishingAssumption, TypeOK, Blob
<1> HIDE DEF current
<1>3. q \in RequestRecord /\ Same(q, req[r]) /\ q.current = current
  BY <1>1, <1>2 DEF RequestRecord, Same
<1>4. pc \in {"batchCommit", "batchHead"} /\ (pc = "batchCommit" <=> Clean(q) = {})
  OBVIOUS
<1> HIDE DEF q, pc
<1>5. /\ record \in RequestRecord /\ Same(record, q) /\ record.current = q.current
      /\ record.pc = pc
  BY <1>3, <1>4 DEF RequestRecord, RequestPc, Same
<1> HIDE DEF record
<1>6. Clean(record) = Clean(q)
  BY <1>5 DEF Clean, Conflicts, InConflict, Same
<1>7. RequestOK(record)
  BY <1>4, <1>5, <1>6 DEF RequestOK, Single
<1>8. RequestsOK' /\ req'[r] = record /\ \A p \in Requests : p # r => req'[p] = req[p]
  BY <1>1, <1>7, NewRecord
<1> QED
  BY <1>3, <1>4, <1>5, <1>6, <1>8 DEF Same

\* A batch reads the head of the branch.
LEMMA BatchHeadRecord ==
    ASSUME TypeOK, NEW r \in Requests, BatchHead(r)
    PROVE  /\ RequestsOK' /\ \A q \in Requests : q # r => req'[q] = req[q]
           /\ Same(req'[r], req[r]) /\ req'[r].pc = "batchRef"
<1> DEFINE record == [req[r] EXCEPT !.pc = "batchRef", !.base = remote]
<1>1. req[r] \in RequestRecord /\ RequestOK(req[r]) /\ req[r].pc = "batchHead"
  BY DEF TypeOK, BatchHead
<1>2. req' = [req EXCEPT ![r] = record]
  BY DEF BatchHead
<1>3. /\ record \in RequestRecord /\ Same(record, req[r]) /\ record.current = req[r].current
      /\ record.pc = "batchRef"
  BY <1>1 DEF RequestRecord, RequestPc, Same, TypeOK
<1> HIDE DEF record
<1>4. Clean(record) = Clean(req[r])
  BY <1>3 DEF Clean, Conflicts, InConflict, Same
<1>5. RequestOK(record)
  BY <1>1, <1>3, <1>4 DEF RequestOK, Single
<1> QED
  BY <1>2, <1>3, <1>5, NewRecord

-----------------------------------------------------------------------------
(* What a step of a request does to its record.                             *)

\* The records a request may have after a step of its own.
Begun(q) ==
    /\ q.pc \in {"check", "batchCheck", "editWrite"} /\ q.tasks \subseteq Tasks
    /\ \A t \in q.tasks : q.known[t] = targetSha[t]
Going(q, p) ==
    /\ Same(q, p) /\ p.pc # "idle"
    /\ q.pc = "put" => \A t \in p.tasks : p.paths[t] = PathOf[t] => q.current[t] = p.known[t]
    /\ q.pc = "commit" => p.pc = "put"
    /\ q.pc = "batchCommit" => Clean(q) = {} \/ (p.pc = "batchRef" /\ q.current = p.current)

LEMMA StartRecord ==
    ASSUME TypeOK, NEW r \in Requests, Start(r)
    PROVE  /\ RequestsOK' /\ \A q \in Requests : q # r => req'[q] = req[q]
           /\ Begun(req'[r])
<1>1. CASE \E t \in Tasks, p \in Paths : PublishRead(r, t, p)
  <2> PICK t \in Tasks, p \in Paths : PublishRead(r, t, p)
    BY <1>1
  <2>1. [PathOf EXCEPT ![t] = p] \in [Tasks -> Paths]
    BY PublishingAssumption DEF PublishingAssumption
  <2>2. Load(r, "check", {t}, [PathOf EXCEPT ![t] = p])
    BY DEF PublishRead
  <2> DEFINE S == {t}
  <2>3. S \in SUBSET Tasks /\ \E x \in Tasks : S = {x}
    OBVIOUS
  <2> HIDE DEF S
  <2>4. /\ RequestsOK' /\ \A q \in Requests : q # r => req'[q] = req[q]
        /\ req'[r].pc = "check" /\ req'[r].tasks = S
        /\ \A x \in S : req'[r].known[x] = targetSha[x]
    BY <2>1, <2>2, <2>3, LoadRecord DEF S
  <2> QED
    BY <2>3, <2>4 DEF Begun
<1>2. CASE \E S \in SUBSET Tasks, paths \in [Tasks -> Paths] : BatchRead(r, S, paths)
  BY <1>2, LoadRecord DEF Begun, BatchRead
<1>3. CASE \E t \in Tasks : EditRead(r, t)
  <2> PICK t \in Tasks : EditRead(r, t)
    BY <1>3
  <2>1. PathOf \in [Tasks -> Paths] /\ Load(r, "editWrite", {t}, PathOf)
    BY PublishingAssumption DEF PublishingAssumption, EditRead
  <2> QED
    BY <2>1, LoadRecord DEF Begun
<1> QED
  BY <1>1, <1>2, <1>3 DEF Start

\* A step that ends the request, or goes on with what was read.
LEMMA StepRecord ==
    ASSUME TypeOK, NEW r \in Requests, Step(r) \/ RequestFails(r)
    PROVE  /\ RequestsOK' /\ \A q \in Requests : q # r => req'[q] = req[q]
           /\ req'[r] = Idle \/ Going(req'[r], req[r])
<1>1. CASE Finish(r)
  BY <1>1, FinishRecord
<1>2. CASE PublishCheck(r)
  <2>1. req[r].pc = "check"
    BY <1>2 DEF PublishCheck
  <2> QED
    BY <1>2, <2>1, CheckRecord DEF Going
<1>3. CASE PublishTheirs(r) /\ Goto(r, "conflictWrite")
  <2>1. req[r].pc = "theirs"
    BY <1>3 DEF PublishTheirs
  <2> QED
    BY <1>3, <2>1, GotoRecord DEF Going, RequestPc, Single
<1>4. CASE PublishPut(r) /\ Goto(r, "commit")
  <2>1. req[r].pc = "put"
    BY <1>4 DEF PublishPut
  <2> QED
    BY <1>4, <2>1, GotoRecord DEF Going, RequestPc, Single
<1>5. CASE BatchCheck(r)
  <2>1. req[r].pc = "batchCheck"
    BY <1>5 DEF BatchCheck
  <2> QED
    BY <1>5, <2>1, BatchCheckRecord DEF Going
<1>6. CASE BatchHead(r)
  <2>1. req[r].pc = "batchHead"
    BY <1>6 DEF BatchHead
  <2> QED
    BY <1>6, <2>1, BatchHeadRecord DEF Going
<1>7. CASE BatchUpdateRef(r) /\ Goto(r, "batchCommit")
  <2>1. req[r].pc = "batchRef"
    BY <1>7 DEF BatchUpdateRef
  <2> QED
    BY <1>7, <2>1, GotoRecord DEF Going, RequestPc, Single
<1>8. ConflictWrite(r) \/ PublishCommit(r) \/ BatchCommit(r) \/ EditWrite(r) \/ RequestFails(r)
      => Finish(r)
  BY DEF ConflictWrite, PublishCommit, BatchCommit, EditWrite, RequestFails
<1>9. /\ PublishTheirs(r) => Finish(r) \/ Goto(r, "conflictWrite")
      /\ PublishPut(r) => Finish(r) \/ Goto(r, "commit")
      /\ BatchUpdateRef(r) => Finish(r) \/ Goto(r, "batchCommit")
  BY DEF PublishTheirs, PublishPut, BatchUpdateRef
<1> QED
  BY <1>1, <1>2, <1>3, <1>4, <1>5, <1>6, <1>7, <1>8, <1>9 DEF Step, PublishStep, BatchStep

-----------------------------------------------------------------------------
(* Type correctness.                                                        *)

\* The part of TypeOK that is not about requests.
DataOK ==
    /\ status \in [Tasks -> Status]
    /\ content \in [Tasks -> Blob]
    /\ targetSha \in [Tasks -> Blob]
    /\ publications \subseteq [task : Tasks, path : Paths]
    /\ remote \in [Paths -> Blob]
    /\ executing \in SUBSET Tasks
    /\ upToDate \in SUBSET Requests
    /\ recorded \in [Tasks -> SUBSET Blob]
    /\ commits \subseteq [task : Tasks, path : Paths]
    /\ pushes \in 0..MaxPushes

LEMMA TypeParts == TypeOK <=> DataOK /\ RequestsOK
BY DEF TypeOK, DataOK, RequestsOK

\* What a commit makes of the branch.
LEMMA CommitType ==
    ASSUME TypeOK, NEW files, \A p \in DOMAIN files : files[p] \in Blob, Commit(files)
    PROVE  remote' \in [Paths -> Blob] /\ upToDate' = {}
<1>1. remote \in [Paths -> Blob]
  BY DEF TypeOK
<1> QED
  BY <1>1 DEF Commit

LEMMA RecordFields ==
    ASSUME TypeOK, NEW r \in Requests
    PROVE  /\ req[r].tasks \in SUBSET Tasks /\ req[r].paths \in [Tasks -> Paths]
           /\ req[r].ours \in [Tasks -> Blob] /\ req[r].known \in [Tasks -> Blob]
           /\ req[r].current \in [Tasks -> Blob] /\ req[r].base \in [Paths -> Blob]
           /\ PublicationsOf(req[r]) \subseteq [task : Tasks, path : Paths]
<1>1. req[r] \in RequestRecord
  BY DEF TypeOK
<1>2. /\ req[r].tasks \in SUBSET Tasks /\ req[r].paths \in [Tasks -> Paths]
      /\ req[r].ours \in [Tasks -> Blob] /\ req[r].known \in [Tasks -> Blob]
      /\ req[r].current \in [Tasks -> Blob] /\ req[r].base \in [Paths -> Blob]
  BY <1>1 DEF RequestRecord
<1>3. Clean(req[r]) \subseteq Tasks
  BY <1>2 DEF Clean
<1> QED
  BY <1>2, <1>3 DEF PublicationsOf, Publication

\* The step of a request leaves the data well typed, too.
LEMMA RequestData ==
    ASSUME TypeOK, NEW r \in Requests, Start(r) \/ Step(r) \/ RequestFails(r)
    PROVE  DataOK'
<1> DataOK
  BY TypeParts
<1> USE DEF DataOK
<1>1. CASE UNCHANGED <<dbVars, remote, executing, history>> /\ upToDate' \in SUBSET Requests
  BY <1>1 DEF dbVars, history
<1>2. CASE ConflictWrite(r)
  BY <1>2, RecordFields DEF ConflictWrite, Conflicted, Status
<1>3. CASE PublishPut(r)
  <2> DEFINE p == PathFor(r)
             files == [f \in {p} |-> req[r].ours[TaskOf(r)]]
  <2>1. TaskOf(r) \in Tasks
    BY <1>3, SingleTask DEF PublishPut, Single
  <2>2. p \in Paths /\ req[r].ours[TaskOf(r)] \in Blob
    BY <2>1, RecordFields DEF PathFor
  <2>3. CASE Commit(files) /\ commits' = commits \cup {Publication(TaskOf(r), p)}
    <3>1. remote' \in [Paths -> Blob] /\ upToDate' = {}
      BY <2>2, <2>3, CommitType
    <3>2. Publication(TaskOf(r), p) \in [task : Tasks, path : Paths]
      BY <2>1, <2>2 DEF Publication
    <3> QED
      BY <1>3, <2>3, <3>1, <3>2 DEF PublishPut, dbVars
  <2>4. CASE UNCHANGED <<remote, upToDate, commits>>
    BY <1>3, <2>4 DEF PublishPut, dbVars
  <2> QED
    BY <1>3, <2>3, <2>4 DEF PublishPut
<1>4. CASE PublishCommit(r)
  <2>1. TaskOf(r) \in Tasks
    BY <1>4, SingleTask DEF PublishCommit, Single
  <2>2. PathFor(r) \in Paths
    BY <2>1, RecordFields DEF PathFor
  <2>3. Publication(TaskOf(r), PathFor(r)) \in [task : Tasks, path : Paths]
    BY <2>1, <2>2 DEF Publication
  <2> QED
    BY <1>4, <2>3 DEF PublishCommit, Status, history
<1>5. CASE BatchUpdateRef(r)
  <2>1. CASE UNCHANGED <<remote, upToDate, commits>>
    BY <1>5, <2>1 DEF BatchUpdateRef, dbVars
  <2>2. CASE /\ \E f \in BatchFiles(req[r]) : Commit(NewTree(req[r], f))
             /\ commits' = commits \cup PublicationsOf(req[r])
    <3> PICK f \in BatchFiles(req[r]) : Commit(NewTree(req[r], f))
      BY <2>2
    <3>1. \A p \in DOMAIN f : f[p] \in Blob
      BY DEF BatchFiles, Blob
    <3>2. \A p \in DOMAIN NewTree(req[r], f) : NewTree(req[r], f)[p] \in Blob
      BY <3>1, RecordFields DEF NewTree
    <3>3. remote' \in [Paths -> Blob] /\ upToDate' = {}
      BY <3>2, CommitType
    <3> QED
      BY <1>5, <2>2, <3>3, RecordFields DEF BatchUpdateRef, dbVars
  <2> QED
    BY <1>5, <2>1, <2>2 DEF BatchUpdateRef
<1>6. CASE BatchCommit(r)
  BY <1>6, RecordFields DEF BatchCommit, Status
<1>7. CASE EditWrite(r)
  <2>1. TaskOf(r) \in Tasks
    BY <1>7, SingleTask DEF EditWrite, Single
  <2> QED
    BY <1>7 DEF EditWrite, history, Blob
<1>8. Start(r) \/ PublishCheck(r) \/ PublishTheirs(r) \/ BatchCheck(r) \/ BatchHead(r)
      \/ RequestFails(r)
      => UNCHANGED <<dbVars, remote, executing, history>> /\ upToDate' \in SUBSET Requests
  BY DEF Start, PublishRead, BatchRead, EditRead, PublishCheck, PublishTheirs, BatchCheck,
         BatchHead, RequestFails
<1> QED
  BY <1>1, <1>2, <1>3, <1>4, <1>5, <1>6, <1>7, <1>8 DEF Step, PublishStep, BatchStep

\* The other actions: they leave the requests alone, or drop them all.
Other ==
    \/ \E t \in Tasks : Retry(t) \/ RunStart(t) \/ RunDone(t)
    \/ \E p \in Paths, c \in Blob : Push(p, c)
    \/ Restart

LEMMA NextCases ==
    Next => Other \/ \E r \in Requests : Start(r) \/ Step(r) \/ RequestFails(r)
BY DEF Next, Other

LEMMA OtherRequests ==
    ASSUME TypeOK, Other
    PROVE  RequestsOK' /\ (UNCHANGED req \/ req' = [r \in Requests |-> Idle])
<1>1. UNCHANGED req \/ req' = [r \in Requests |-> Idle]
  BY DEF Other, Retry, RunStart, RunDone, Push, Restart
<1>2. CASE UNCHANGED req
  BY <1>2 DEF TypeOK, RequestsOK
<1>3. CASE req' = [r \in Requests |-> Idle]
  <2>1. Idle \in RequestRecord
    BY IdleOK DEF RequestOK
  <2> QED
    BY <1>3, <2>1, IdleOK DEF RequestsOK
<1> QED
  BY <1>1, <1>2, <1>3

LEMMA OtherData == ASSUME TypeOK, Other PROVE DataOK'
<1> DataOK
  BY TypeParts
<1> USE DEF DataOK
<1>1. ASSUME NEW t \in Tasks, Retry(t) PROVE DataOK'
  BY <1>1 DEF Retry, Status, Blob, history
<1>2. ASSUME NEW t \in Tasks, RunStart(t) PROVE DataOK'
  BY <1>2 DEF RunStart, Status, history
<1>3. ASSUME NEW t \in Tasks, RunDone(t) PROVE DataOK'
  BY <1>3 DEF RunDone, Status, Blob, history
<1>4. ASSUME NEW p \in Paths, NEW c \in Blob, Push(p, c) PROVE DataOK'
  <2>1. remote' \in [Paths -> Blob] /\ upToDate' = {}
    BY <1>4, CommitType DEF Push
  <2>2. pushes' \in 0..MaxPushes
    BY <1>4, PublishingAssumption DEF Push, PublishingAssumption
  <2> QED
    BY <1>4, <2>1, <2>2 DEF Push, dbVars
<1>5. CASE Restart
  BY <1>5 DEF Restart, Status, history
<1> QED
  BY <1>1, <1>2, <1>3, <1>4, <1>5 DEF Other

LEMMA TypeInit == Init => TypeOK
<1> SUFFICES ASSUME Init PROVE TypeOK
  OBVIOUS
<1>1. RequestsOK
  <2>1. Idle \in RequestRecord
    BY IdleOK DEF RequestOK
  <2> QED
    BY <2>1, IdleOK DEF Init, RequestsOK
<1>2. DataOK
  BY PublishingAssumption DEF Init, DataOK, Status, Blob, PublishingAssumption
<1> QED
  BY <1>1, <1>2, TypeParts

LEMMA TypeStep == TypeOK /\ [Next]_vars => TypeOK'
<1> SUFFICES ASSUME TypeOK, [Next]_vars PROVE TypeOK'
  OBVIOUS
<1>0. (RequestsOK /\ DataOK)' => TypeOK'
  BY TypeParts, PTL
<1>1. ASSUME NEW r \in Requests, Start(r) \/ Step(r) \/ RequestFails(r)
      PROVE  TypeOK'
  BY <1>0, <1>1, StartRecord, StepRecord, RequestData
<1>2. CASE Other
  BY <1>0, <1>2, OtherRequests, OtherData
<1>3. CASE UNCHANGED vars
  <2>1. RequestsOK /\ DataOK
    BY TypeParts
  <2>2. RequestsOK'
    BY <1>3, <2>1 DEF vars, RequestsOK
  <2>3. DataOK'
    BY <1>3, <2>1 DEF vars, dbVars, history, DataOK
  <2> QED
    BY <1>0, <2>2, <2>3
<1> QED
  BY <1>1, <1>2, <1>3, NextCases

\* Every variable of Publishing keeps its type, a request that is not a batch has
\* one task, and a batch that goes on to GitHub has something to commit.
THEOREM TypeCorrect == Spec => []TypeOK
BY TypeInit, TypeStep, PTL DEF Spec

-----------------------------------------------------------------------------
(* No edit of the target file is lost unseen.                               *)

LEMMA ShasGrow ==
    ASSUME TypeOK, ShasAreRecorded, [Next]_vars
    PROVE  \A t \in Tasks : recorded[t] \subseteq recorded'[t] /\ targetSha'[t] \in recorded'[t]
<1>1. \A t \in Tasks : targetSha[t] \in recorded[t]
  BY DEF ShasAreRecorded
<1>2. UNCHANGED <<targetSha, recorded>> \/ \E r \in Requests : ConflictWrite(r) \/ BatchCommit(r)
  <2>1. ASSUME NEW r \in Requests, Start(r) \/ Step(r) \/ RequestFails(r)
        PROVE  UNCHANGED <<targetSha, recorded>> \/ ConflictWrite(r) \/ BatchCommit(r)
    BY <2>1 DEF Start, PublishRead, BatchRead, EditRead, Step, PublishStep, BatchStep,
         PublishCheck, PublishTheirs, PublishPut, PublishCommit, BatchCheck, BatchHead,
         BatchUpdateRef, EditWrite, RequestFails, dbVars, history
  <2>2. CASE Other
    BY <2>2 DEF Other, Retry, RunStart, RunDone, Push, Restart, dbVars, history
  <2>3. CASE UNCHANGED vars
    BY <2>3 DEF vars, dbVars, history
  <2> QED
    BY <2>1, <2>2, <2>3, NextCases
<1>3. ASSUME NEW r \in Requests, ConflictWrite(r), NEW t \in Tasks
      PROVE  recorded[t] \subseteq recorded'[t] /\ targetSha'[t] \in recorded'[t]
  BY <1>1, <1>3 DEF ConflictWrite, Conflicted
<1>4. ASSUME NEW r \in Requests, BatchCommit(r), NEW t \in Tasks
      PROVE  recorded[t] \subseteq recorded'[t] /\ targetSha'[t] \in recorded'[t]
  BY <1>1, <1>4 DEF BatchCommit
<1> QED
  BY <1>1, <1>2, <1>3, <1>4

\* The clause of ShasAreRecorded about a request.
RequestRecorded(r) ==
    /\ req[r].pc # "idle" => \A t \in req[r].tasks : req[r].known[t] \in recorded[t]
    /\ req[r].pc = "put" =>
          \A t \in req[r].tasks : req[r].paths[t] = PathOf[t] => req[r].current[t] = req[r].known[t]

LEMMA RecordedParts ==
    ShasAreRecorded <=> /\ \A t \in Tasks : targetSha[t] \in recorded[t]
                        /\ \A r \in Requests : RequestRecorded(r)
BY DEF ShasAreRecorded, RequestRecorded

LEMMA RecordedStep == TypeOK /\ ShasAreRecorded /\ [Next]_vars => ShasAreRecorded'
<1> SUFFICES ASSUME TypeOK, ShasAreRecorded, [Next]_vars PROVE ShasAreRecorded'
  OBVIOUS
<1>1. \A t \in Tasks : recorded[t] \subseteq recorded'[t] /\ targetSha'[t] \in recorded'[t]
  BY ShasGrow
<1>2. /\ \A t \in Tasks : targetSha[t] \in recorded[t]
      /\ \A r \in Requests : RequestRecorded(r)
  BY RecordedParts
<1>3. ASSUME NEW r \in Requests, req'[r] = req[r] PROVE RequestRecorded(r)'
  BY <1>1, <1>2, <1>3, RecordFields DEF RequestRecorded
<1>4. ASSUME NEW r \in Requests, req'[r] = Idle PROVE RequestRecorded(r)'
  BY <1>4, IdleOK DEF RequestRecorded
<1>5. ASSUME NEW r \in Requests, Begun(req'[r]) PROVE RequestRecorded(r)'
  BY <1>1, <1>2, <1>5 DEF RequestRecorded, Begun
<1>6. ASSUME NEW r \in Requests, Going(req'[r], req[r]) PROVE RequestRecorded(r)'
  BY <1>1, <1>2, <1>6, RecordFields DEF RequestRecorded, Going, Same
<1>7. ASSUME NEW r \in Requests, Start(r) \/ Step(r) \/ RequestFails(r), NEW q \in Requests
      PROVE  RequestRecorded(q)'
  <2>1. \/ req'[q] = req[q] \/ req'[q] = Idle \/ Begun(req'[q]) \/ Going(req'[q], req[q])
    BY <1>7, StartRecord, StepRecord
  <2> QED
    BY <2>1, <1>3, <1>4, <1>5, <1>6
<1>8. ASSUME Other \/ UNCHANGED vars, NEW q \in Requests PROVE RequestRecorded(q)'
  <2>1. req'[q] = req[q] \/ req'[q] = Idle
    BY <1>8, OtherRequests DEF vars
  <2> QED
    BY <2>1, <1>3, <1>4
<1>9. \A q \in Requests : RequestRecorded(q)'
  BY <1>7, <1>8, NextCases
<1>10. (/\ \A t \in Tasks : targetSha[t] \in recorded[t]
        /\ \A r \in Requests : RequestRecorded(r))' => ShasAreRecorded'
  BY RecordedParts, PTL
<1> QED
  BY <1>1, <1>9, <1>10

LEMMA RecordedInit == Init => ShasAreRecorded
BY IdleOK DEF Init, ShasAreRecorded

\* What the accepted PUT of a request is.
LEMMA PutAccepted ==
    ASSUME TypeOK, [Next]_vars, NEW r \in Requests, req[r].pc = "put", req'[r].pc = "commit"
    PROVE  /\ remote[PathFor(r)] = req[r].current[TaskOf(r)]
           /\ commits' = commits \cup {Publication(TaskOf(r), PathFor(r))}
<1>1. ~(req'[r] = Idle) /\ ~(req'[r] = req[r])
  BY IdleOK
<1>2. ~(Other \/ UNCHANGED vars)
  BY <1>1, OtherRequests DEF vars
<1>3. PICK q \in Requests : Start(q) \/ Step(q) \/ RequestFails(q)
  BY <1>2, NextCases
<1>4. q = r
  BY <1>1, <1>3, StartRecord, StepRecord
<1>5. ~Start(r)
  BY StartRecord DEF Begun
<1>6. ~Finish(r)
  BY <1>1, FinishRecord
<1>7. PublishPut(r)
  BY <1>3, <1>4, <1>5, <1>6 DEF Step, PublishStep, BatchStep, RequestFails, PublishCheck,
     PublishTheirs, ConflictWrite, PublishCommit, BatchCheck, BatchHead, BatchUpdateRef,
     BatchCommit, EditWrite
<1> QED
  BY <1>6, <1>7 DEF PublishPut

LEMMA KeepsEditsStep ==
    TypeOK /\ ShasAreRecorded /\ [Next]_vars =>
      [\A r \in Requests : req[r].pc = "put" /\ Accepted(r) =>
         LET t == TaskOf(r) IN PathFor(r) = PathOf[t] => KnownVersion(t)]_vars
<1> SUFFICES ASSUME TypeOK, ShasAreRecorded, [Next]_vars, NEW r \in Requests,
                    req[r].pc = "put", Accepted(r), PathFor(r) = PathOf[TaskOf(r)]
             PROVE  KnownVersion(TaskOf(r))
  OBVIOUS
<1>1. TaskOf(r) \in Tasks /\ req[r].tasks = {TaskOf(r)}
  BY SingleTask DEF Single
<1>2. remote[PathOf[TaskOf(r)]] = req[r].current[TaskOf(r)]
  BY PutAccepted DEF Accepted
<1>3. req[r].current[TaskOf(r)] = req[r].known[TaskOf(r)]
  BY <1>1 DEF ShasAreRecorded, PathFor
<1>4. req[r].known[TaskOf(r)] \in recorded[TaskOf(r)]
  BY <1>1 DEF ShasAreRecorded
<1> QED
  BY <1>2, <1>3, <1>4 DEF KnownVersion

\* publish_task never replaces a version of the task's file that was not recorded
\* in its target_file_sha, whatever requests, pushes and failures interleave.
THEOREM EditsAreKept == Spec => PublishKeepsEdits
BY TypeInit, TypeStep, RecordedInit, RecordedStep, KeepsEditsStep, PTL
   DEF Spec, PublishKeepsEdits

-----------------------------------------------------------------------------
(* Publications are real.                                                   *)

\* What the accepted ref update of a batch is.
LEMMA RefAccepted ==
    ASSUME TypeOK, [Next]_vars, NEW r \in Requests,
           req[r].pc = "batchRef", req'[r].pc = "batchCommit"
    PROVE  /\ r \in upToDate /\ \E f \in BatchFiles(req[r]) : Commit(NewTree(req[r], f))
           /\ commits' = commits \cup PublicationsOf(req[r])
<1>1. ~(req'[r] = Idle) /\ ~(req'[r] = req[r])
  BY IdleOK
<1>2. ~(Other \/ UNCHANGED vars)
  BY <1>1, OtherRequests DEF vars
<1>3. PICK q \in Requests : Start(q) \/ Step(q) \/ RequestFails(q)
  BY <1>2, NextCases
<1>4. q = r
  BY <1>1, <1>3, StartRecord, StepRecord
<1>5. ~Start(r)
  BY StartRecord DEF Begun
<1>6. ~Finish(r)
  BY <1>1, FinishRecord
<1>7. BatchUpdateRef(r)
  BY <1>3, <1>4, <1>5, <1>6 DEF Step, PublishStep, BatchStep, RequestFails, PublishCheck,
     PublishTheirs, PublishPut, ConflictWrite, PublishCommit, BatchCheck, BatchHead,
     BatchCommit, EditWrite
<1> QED
  BY <1>6, <1>7 DEF BatchUpdateRef

\* Who writes commits: nobody ever takes one back.
LEMMA CommitsGrow == [Next]_vars => commits \subseteq commits'
<1> SUFFICES ASSUME [Next]_vars PROVE commits \subseteq commits'
  OBVIOUS
<1>1. ASSUME NEW r \in Requests, Start(r) \/ Step(r) \/ RequestFails(r)
      PROVE  commits \subseteq commits'
  BY <1>1 DEF Start, PublishRead, BatchRead, EditRead, Step, PublishStep, BatchStep,
     PublishCheck, PublishTheirs, ConflictWrite, PublishPut, PublishCommit, BatchCheck,
     BatchHead, BatchUpdateRef, BatchCommit, EditWrite, RequestFails, dbVars, history
<1>2. CASE Other
  BY <1>2 DEF Other, Retry, RunStart, RunDone, Push, Restart, history
<1>3. CASE UNCHANGED vars
  BY <1>3 DEF vars, history
<1> QED
  BY <1>1, <1>2, <1>3, NextCases

RequestCommitted(r) ==
    /\ req[r].pc = "commit" =>
          \A t \in req[r].tasks : Publication(t, req[r].paths[t]) \in commits
    /\ req[r].pc = "batchCommit" => PublicationsOf(req[r]) \subseteq commits

LEMMA CommittedStep ==
    ASSUME TypeOK, CommittedFirst, [Next]_vars
    PROVE  CommittedFirst'
<1> SUFFICES ASSUME NEW q \in Requests PROVE RequestCommitted(q)'
  BY DEF CommittedFirst, RequestCommitted
<1>1. commits \subseteq commits' /\ RequestCommitted(q)
  BY CommitsGrow DEF CommittedFirst, RequestCommitted
<1>2. CASE req'[q] = req[q]
  BY <1>1, <1>2 DEF RequestCommitted, PublicationsOf, Clean, Conflicts, InConflict
<1>3. CASE req'[q] = Idle \/ Begun(req'[q])
  BY <1>3, IdleOK DEF RequestCommitted, Begun
<1>4. CASE Going(req'[q], req[q])
  <2>1. CASE req'[q].pc = "commit"
    <3>1. req[q].pc = "put" /\ Same(req'[q], req[q])
      BY <1>4, <2>1 DEF Going
    <3>2. Publication(TaskOf(q), PathFor(q)) \in commits'
      BY <2>1, <3>1, PutAccepted
    <3>3. req[q].tasks = {TaskOf(q)}
      BY <3>1, SingleTask DEF Single
    <3> QED
      BY <2>1, <3>1, <3>2, <3>3 DEF RequestCommitted, Same, PathFor
  <2>2. CASE req'[q].pc = "batchCommit"
    <3>1. CASE Clean(req'[q]) = {}
      BY <2>2, <3>1 DEF RequestCommitted, PublicationsOf
    <3>2. CASE req[q].pc = "batchRef" /\ req'[q].current = req[q].current
      <4>1. Same(req'[q], req[q])
        BY <1>4 DEF Going
      <4>2. PublicationsOf(req'[q]) = PublicationsOf(req[q])
        BY <3>2, <4>1 DEF PublicationsOf, Clean, Conflicts, InConflict, Same
      <4>3. PublicationsOf(req[q]) \subseteq commits'
        BY <2>2, <3>2, RefAccepted
      <4> QED
        BY <2>2, <4>2, <4>3 DEF RequestCommitted
    <3> QED
      BY <1>4, <2>2, <3>1, <3>2 DEF Going
  <2> QED
    BY <2>1, <2>2 DEF RequestCommitted
<1>5. req'[q] = req[q] \/ req'[q] = Idle \/ Begun(req'[q]) \/ Going(req'[q], req[q])
  BY NextCases, StartRecord, StepRecord, OtherRequests DEF vars
<1> QED
  BY <1>2, <1>3, <1>4, <1>5

LEMMA PublishedStep ==
    ASSUME TypeOK, CommittedFirst, PublicationsAreReal, [Next]_vars
    PROVE  PublicationsAreReal'
<1>1. publications \subseteq commits
  BY DEF PublicationsAreReal
<1>2. \A t \in Tasks : status[t] = "published" => \E x \in publications : x.task = t
  BY DEF PublicationsAreReal
<1>3. commits \subseteq commits' /\ status \in [Tasks -> Status]
  BY CommitsGrow DEF TypeOK
<1>4. ASSUME UNCHANGED publications,
             \A t \in Tasks : status'[t] = "published" => status[t] = "published"
      PROVE  PublicationsAreReal'
  BY <1>1, <1>2, <1>3, <1>4 DEF PublicationsAreReal
<1>5. ASSUME NEW r \in Requests, PublishCommit(r) PROVE PublicationsAreReal'
  <2>1. TaskOf(r) \in Tasks /\ req[r].tasks = {TaskOf(r)} /\ req[r].pc = "commit"
    BY <1>5, SingleTask DEF Single, PublishCommit
  <2>2. Publication(TaskOf(r), PathFor(r)) \in commits
    BY <2>1 DEF CommittedFirst, PathFor
  <2>3. Publication(TaskOf(r), PathFor(r)).task = TaskOf(r)
    BY DEF Publication
  <2>4. /\ publications' = publications \cup {Publication(TaskOf(r), PathFor(r))}
        /\ \A t \in Tasks : status'[t] = "published" => t = TaskOf(r) \/ status[t] = "published"
    BY <1>3, <1>5, <2>1 DEF PublishCommit
  <2> HIDE DEF Publication
  <2> QED
    BY <1>1, <1>2, <1>3, <2>2, <2>3, <2>4 DEF PublicationsAreReal
<1>6. ASSUME NEW r \in Requests, BatchCommit(r) PROVE PublicationsAreReal'
  <2>1. PublicationsOf(req[r]) \subseteq commits
    BY <1>6 DEF CommittedFirst, BatchCommit
  <2>2. \A t \in Clean(req[r]) : \E x \in PublicationsOf(req[r]) : x.task = t
    <3>1. ASSUME NEW t \in Clean(req[r])
          PROVE  Publication(t, req[r].paths[t]) \in PublicationsOf(req[r])
      BY DEF PublicationsOf
    <3>2. ASSUME NEW t, NEW p PROVE Publication(t, p).task = t
      BY DEF Publication
    <3> QED
      BY <3>1, <3>2
  <2>3. /\ publications' = publications \cup PublicationsOf(req[r])
        /\ \A t \in Tasks : status'[t] = "published" =>
                              t \in Clean(req[r]) \/ status[t] = "published"
    BY <1>6 DEF BatchCommit
  <2> QED
    BY <1>1, <1>2, <1>3, <2>1, <2>2, <2>3 DEF PublicationsAreReal
<1>7. ASSUME NEW r \in Requests, Start(r) \/ Step(r) \/ RequestFails(r),
             ~PublishCommit(r), ~BatchCommit(r)
      PROVE  /\ UNCHANGED publications
             /\ \A t \in Tasks : status'[t] = "published" => status[t] = "published"
  <2>1. CASE ConflictWrite(r)
    BY <2>1 DEF ConflictWrite, Conflicted
  <2>2. CASE ~ConflictWrite(r)
    BY <1>7, <2>2 DEF Start, PublishRead, BatchRead, EditRead, Step, PublishStep, BatchStep,
       PublishCheck, PublishTheirs, PublishPut, BatchCheck, BatchHead, BatchUpdateRef,
       EditWrite, RequestFails, dbVars
  <2> QED
    BY <2>1, <2>2
<1>8. ASSUME Other \/ UNCHANGED vars
      PROVE  /\ UNCHANGED publications
             /\ \A t \in Tasks : status'[t] = "published" => status[t] = "published"
  BY <1>3, <1>8 DEF Other, Retry, RunStart, RunDone, Push, Restart, vars, dbVars
<1> QED
  BY <1>4, <1>5, <1>6, <1>7, <1>8, NextCases

LEMMA PublishedInit == Init => CommittedFirst /\ PublicationsAreReal
BY IdleOK DEF Init, CommittedFirst, PublicationsAreReal

\* A row of publications stands for a commit on the branch, and a task that is
\* published has such a row, whatever failed meanwhile.
THEOREM PublicationsHold == Spec => []PublicationsAreReal
<1>1. Init => TypeOK /\ CommittedFirst /\ PublicationsAreReal
  BY TypeInit, PublishedInit
<1>2. TypeOK /\ CommittedFirst /\ PublicationsAreReal /\ [Next]_vars
      => TypeOK' /\ CommittedFirst' /\ PublicationsAreReal'
  BY TypeStep, CommittedStep, PublishedStep
<1> QED
  BY <1>1, <1>2, PTL DEF Spec

-----------------------------------------------------------------------------
(* A batch changes its own files only.                                      *)

\* A batch whose parent commit is still the head has built upon the files that
\* are there.
FreshTree == \A r \in upToDate : req[r].pc = "batchRef" /\ req[r].base = remote

LEMMA FreshStep ==
    ASSUME TypeOK, FreshTree, [Next]_vars
    PROVE  FreshTree'
<1>0. upToDate \subseteq Requests /\ req \in [Requests -> RequestRecord]
  BY DEF TypeOK
<1>1. CASE upToDate' = {}
  BY <1>1 DEF FreshTree
<1>2. ASSUME UNCHANGED remote, NEW q, UNCHANGED upToDate, q \notin upToDate,
             \A p \in Requests : p # q => req'[p] = req[p]
      PROVE  FreshTree'
  BY <1>0, <1>2 DEF FreshTree
<1>3. ASSUME NEW r \in Requests, BatchHead(r) PROVE FreshTree'
  <2>1. /\ req' = [req EXCEPT ![r].pc = "batchRef", ![r].base = remote]
        /\ upToDate' = upToDate \cup {r} /\ remote' = remote
    BY <1>3 DEF BatchHead
  <2>2. req'[r].pc = "batchRef" /\ req'[r].base = remote
    BY <1>0, <2>1 DEF RequestRecord
  <2>3. \A p \in Requests : p # r => req'[p] = req[p]
    BY <1>0, <2>1
  <2> QED
    BY <1>0, <2>1, <2>2, <2>3 DEF FreshTree
<1>4. ASSUME NEW r \in Requests, RequestFails(r) PROVE FreshTree'
  <2>1. upToDate' = upToDate \ {r} /\ remote' = remote /\ Finish(r)
    BY <1>4 DEF RequestFails
  <2>2. \A p \in Requests : p # r => req'[p] = req[p]
    BY <2>1, FinishRecord
  <2> QED
    BY <1>0, <2>1, <2>2 DEF FreshTree
<1>5. ASSUME NEW r \in Requests, Start(r) \/ Step(r), ~BatchHead(r) PROVE FreshTree'
  <2>1. \A p \in Requests : p # r => req'[p] = req[p]
    BY <1>5, StartRecord, StepRecord
  <2>2. \/ upToDate' = {}
        \/ UNCHANGED <<remote, upToDate>> /\ (req[r].pc # "batchRef" \/ r \notin upToDate)
    BY <1>5, IdleOK DEF Start, PublishRead, BatchRead, EditRead, Load, Step, PublishStep, BatchStep,
       PublishCheck, PublishTheirs, ConflictWrite, PublishPut, PublishCommit, BatchCheck,
       BatchUpdateRef, BatchCommit, EditWrite, Commit
  <2>3. CASE UNCHANGED <<remote, upToDate>> /\ r \notin upToDate
    BY <1>2, <2>1, <2>3
  <2> QED
    BY <1>1, <2>2, <2>3 DEF FreshTree
<1>6. CASE Other
  BY <1>1, <1>6 DEF Other, Retry, RunStart, RunDone, Push, Commit, Restart, FreshTree
<1>7. CASE UNCHANGED vars
  BY <1>7 DEF vars, FreshTree
<1> QED
  BY <1>3, <1>4, <1>5, <1>6, <1>7, NextCases

LEMMA OwnFilesStep ==
    TypeOK /\ FreshTree /\ [Next]_vars =>
      [\A p \in Paths : remote'[p] # remote[p] /\ pushes' = pushes =>
         \E r \in Requests : \E t \in Sent(req[r]) :
            /\ Accepted(r)
            /\ p = req[r].paths[t]
            /\ remote'[p] = req[r].ours[t]]_vars
<1> SUFFICES ASSUME TypeOK, FreshTree, [Next]_vars, NEW p \in Paths,
                    remote'[p] # remote[p], pushes' = pushes
             PROVE  \E r \in Requests : \E t \in Sent(req[r]) :
                       /\ Accepted(r)
                       /\ p = req[r].paths[t]
                       /\ remote'[p] = req[r].ours[t]
  OBVIOUS
<1>1. ~(UNCHANGED vars) /\ pushes \in Nat
  BY PublishingAssumption DEF vars, TypeOK, PublishingAssumption
<1>2. ~Other
  <2>1. \A f \in Paths, c \in Blob : ~Push(f, c)
    BY <1>1, SMT DEF Push
  <2>2. remote' # remote
    OBVIOUS
  <2> QED
    BY <2>1, <2>2, Zenon DEF Other, Retry, RunStart, RunDone, Restart
<1>3. PICK r \in Requests : Start(r) \/ Step(r) \/ RequestFails(r)
  BY <1>1, <1>2, NextCases
<1>4. PublishPut(r) \/ BatchUpdateRef(r)
  BY <1>3 DEF Start, PublishRead, BatchRead, EditRead, Step, PublishStep, BatchStep,
     PublishCheck, PublishTheirs, ConflictWrite, PublishCommit, BatchCheck, BatchHead,
     BatchCommit, EditWrite, RequestFails
<1>5. CASE PublishPut(r)
  <2> DEFINE t == TaskOf(r)
  <2>1. req[r].pc = "put" /\ t \in Tasks /\ req[r].tasks = {t}
    BY <1>5, SingleTask DEF PublishPut, Single
  <2>2. Commit([f \in {PathFor(r)} |-> req[r].ours[t]]) /\ Goto(r, "commit")
    BY <1>5 DEF PublishPut
  <2>3. p = PathFor(r) /\ remote'[p] = req[r].ours[t]
    BY <2>2 DEF Commit
  <2>4. req'[r].pc = "commit"
    BY <2>1, <2>2, GotoRecord DEF RequestPc, Single
  <2> QED
    BY <2>1, <2>3, <2>4 DEF Accepted, Sent, PathFor
<1>6. CASE BatchUpdateRef(r)
  <2>1. req[r].pc = "batchRef" /\ r \in upToDate /\ Goto(r, "batchCommit")
    BY <1>6 DEF BatchUpdateRef
  <2>2. PICK f \in BatchFiles(req[r]) : Commit(NewTree(req[r], f))
    BY <1>6, <2>1 DEF BatchUpdateRef
  <2>3. req[r].base = remote
    BY <2>1 DEF FreshTree
  <2>4. remote'[p] = IF p \in DOMAIN f THEN f[p] ELSE remote[p]
    BY <2>2, <2>3 DEF Commit, NewTree
  <2>5. PICK t \in Clean(req[r]) : req[r].paths[t] = p /\ f[p] = req[r].ours[t]
    BY <2>4 DEF BatchFiles
  <2>6. req'[r].pc = "batchCommit"
    BY <2>1, GotoRecord DEF RequestPc, Single
  <2> QED
    BY <2>1, <2>4, <2>5, <2>6 DEF Accepted, Sent, BatchFiles
<1> QED
  BY <1>4, <1>5, <1>6

\* A commit of the server changes the files of its tasks and no others: what was
\* pushed to them while a batch was being prepared stays.
THEOREM OnlyOwnFiles == Spec => CommitsOnlyOwnFiles
<1>1. Init => TypeOK /\ FreshTree
  BY TypeInit DEF Init, FreshTree
<1>2. TypeOK /\ FreshTree /\ [Next]_vars => TypeOK' /\ FreshTree'
  BY TypeStep, FreshStep
<1> QED
  BY <1>1, <1>2, OwnFilesStep, PTL DEF Spec, CommitsOnlyOwnFiles
=============================================================================
