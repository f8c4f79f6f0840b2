------------------------ MODULE PipelineRunnerProofs ------------------------
(* Theorems about PipelineRunner, for every value of its constants.         *)
EXTENDS PipelineRunner, FiniteSetTheorems, SequenceTheorems, TLAPS

\* An ordering of a set of tasks is a sequence that lists exactly that set.
LEMMA OrderingsList ==
    ASSUME NEW S \in SUBSET Tasks, NEW s \in Orderings(S)
    PROVE  s \in Seq(TaskIds) /\ Range(s) = S /\ S \in SUBSET TaskIds
<1>1. IsFiniteSet(S)
  BY ConstantsAssumption, FS_Subset DEF ConstantsAssumption
<1>2. Cardinality(S) \in Nat
  BY <1>1, FS_CardinalityType
<1>3. s \in [1..Cardinality(S) -> TaskIds]
  BY DEF Orderings, TaskIds
<1>4. QED
  BY <1>2, <1>3 DEF Orderings, TaskIds

\* What the queue operations do to the set of elements.
LEMMA RangeAppend ==
    ASSUME NEW T, NEW s \in Seq(T), NEW e \in T
    PROVE  Append(s, e) \in Seq(T) /\ Range(Append(s, e)) = Range(s) \cup {e}
<1> DEFINE a == Append(s, e)
<1>1. a \in Seq(T) /\ Len(a) = Len(s) + 1 /\ a[Len(s) + 1] = e
  OBVIOUS
<1>2. \A i \in 1..Len(s) : a[i] = s[i]
  OBVIOUS
<1>3. DOMAIN a = 1..(Len(s) + 1) /\ DOMAIN s = 1..Len(s) /\ Len(s) \in Nat
  BY <1>1
<1> HIDE DEF a
<1>4. Range(a) \subseteq Range(s) \cup {e}
  BY <1>1, <1>2, <1>3 DEF Range
<1>5. Range(s) \cup {e} \subseteq Range(a)
  BY <1>1, <1>2, <1>3 DEF Range
<1>6. QED
  BY <1>1, <1>4, <1>5 DEF a

LEMMA RangeConcat ==
    ASSUME NEW T, NEW s \in Seq(T), NEW u \in Seq(T)
    PROVE  s \o u \in Seq(T) /\ Range(s \o u) = Range(s) \cup Range(u)
<1>1. s \o u \in Seq(T) /\ DOMAIN (s \o u) = 1..(Len(s) + Len(u))
  OBVIOUS
<1>2. Range(s \o u) \subseteq Range(s) \cup Range(u)
  BY <1>1 DEF Range
<1>3. ASSUME NEW x \in Range(s) PROVE x \in Range(s \o u)
  BY <1>1, <1>3 DEF Range
<1>4. ASSUME NEW x \in Range(u) PROVE x \in Range(s \o u)
  <2>1. PICK i \in 1..Len(u) : x = u[i]
    BY <1>4 DEF Range
  <2>2. (s \o u)[Len(s) + i] = u[i] /\ Len(s) + i \in 1..(Len(s) + Len(u))
    BY <2>1
  <2>3. QED
    BY <1>1, <2>1, <2>2 DEF Range
<1>5. QED
  BY <1>1, <1>2, <1>3, <1>4

LEMMA RangeTail ==
    ASSUME NEW T, NEW s \in Seq(T), s # << >>
    PROVE  /\ Tail(s) \in Seq(T) /\ Head(s) \in T
           /\ Range(s) = {Head(s)} \cup Range(Tail(s))
<1>1. Tail(s) \in Seq(T) /\ Head(s) \in T /\ Len(s) > 0
  OBVIOUS
<1>2. Range(Tail(s)) \subseteq Range(s)
  BY <1>1 DEF Range
<1>3. Range(s) \subseteq {Head(s)} \cup Range(Tail(s))
  <2>1. s[1] = Head(s)
    OBVIOUS
  <2>2. \A i \in 1..Len(s) : i # 1 => i - 1 \in 1..Len(Tail(s)) /\ Tail(s)[i - 1] = s[i]
    BY <1>1
  <2>3. DOMAIN Tail(s) = 1..Len(Tail(s)) /\ DOMAIN s = 1..Len(s)
    BY <1>1
  <2>4. ASSUME NEW i \in 1..Len(s), i # 1 PROVE s[i] \in Range(Tail(s))
    <3>1. i - 1 \in DOMAIN Tail(s) /\ Tail(s)[i - 1] = s[i]
      BY <2>2, <2>3, <2>4
    <3>2. QED
      BY <3>1, Zenon DEF Range
  <2>5. QED
    BY <2>1, <2>3, <2>4 DEF Range
<1>4. Head(s) \in Range(s)
  BY <1>1 DEF Range
<1>5. QED
  BY <1>1, <1>2, <1>3, <1>4

-----------------------------------------------------------------------------
(* Type correctness.                                                        *)

LEMMA IdleOK == RequestOK(Idle)
BY DEF RequestOK, Idle, RequestRecord, RequestPc, TaskIds, Status, HasTask, HasProject

\* A request slot is written with a well-formed record, the others stay.
LEMMA RequestWritten ==
    ASSUME RequestsOK, NEW q, RequestOK(q), NEW r \in Requests,
           req' = [req EXCEPT ![r] = q]
    PROVE  RequestsOK'
<1>1. q \in RequestRecord
  BY DEF RequestOK
<1>2. \A i \in Requests : req'[i] = IF i = r THEN q ELSE req[i]
  BY DEF RequestsOK
<1>3. QED
  BY <1>1, <1>2 DEF RequestsOK

LEMMA FinishOK ==
    ASSUME RequestsOK, NEW r \in Requests, Finish(r)
    PROVE  RequestsOK'
BY IdleOK, RequestWritten DEF Finish

LEMMA GotoOK ==
    ASSUME RequestsOK, NEW r \in Requests, NEW pc \in {"schedule", "cancelSignal"},
           req[r].pc \in HasTask, Goto(r, pc)
    PROVE  RequestsOK'
<1> DEFINE q == [req[r] EXCEPT !.pc = pc]
<1>1. RequestOK(q)
  BY DEF RequestsOK, RequestOK, RequestRecord, RequestPc, HasTask, HasProject
<1>2. req' = [req EXCEPT ![r] = q]
  BY DEF Goto
<1> HIDE DEF q
<1>3. QED
  BY <1>1, <1>2, RequestWritten

LEMMA StartOnOK ==
    ASSUME RequestsOK, status \in [Tasks -> Status], NEW r \in Requests, NEW t \in Tasks,
           NEW pc \in HasTask \ {"pauseApply"}, StartOn(r, t, pc),
           pc = "retryWrite" => status[t] \in {"done", "failed"}
    PROVE  RequestsOK'
<1> DEFINE q == [Idle EXCEPT !.pc = pc, !.task = t, !.seen = status[t]]
<1>1. RequestOK(q)
  BY DEF RequestOK, Idle, RequestRecord, RequestPc, TaskIds, HasTask, HasProject
<1>2. req' = [req EXCEPT ![r] = q]
  BY DEF StartOn
<1> HIDE DEF q
<1>3. QED
  BY <1>1, <1>2, RequestWritten

LEMMA StartOnProjectOK ==
    ASSUME RequestsOK, NEW r \in Requests, NEW p \in Projects,
           NEW pc \in {"pauseMemory", "resumeMemory"}, StartOnProject(r, p, pc)
    PROVE  RequestsOK'
<1> DEFINE q == [Idle EXCEPT !.pc = pc, !.project = p]
<1>1. RequestOK(q)
  BY DEF RequestOK, Idle, RequestRecord, RequestPc, TaskIds, Status, HasTask, HasProject
<1>2. req' = [req EXCEPT ![r] = q]
  BY DEF StartOnProject
<1> HIDE DEF q
<1>3. QED
  BY <1>1, <1>2, RequestWritten

LEMMA TypeInit == Init => TypeOK
<1> SUFFICES ASSUME Init PROVE TypeOK
  OBVIOUS
<1>1. RequestsOK /\ \A r \in Requests : req[r] = Idle
  BY IdleOK DEF Init, RequestsOK, RequestOK
<1>2. queue \in Seq(TaskIds) /\ deferred \in [Projects -> Seq(TaskIds)]
  BY DEF Init
<1>3. status \in [Tasks -> Status] /\ project \in [Tasks -> Projects \cup {None}]
  BY ConstantsAssumption DEF Init, Status, ConstantsAssumption
<1>4. QED
  BY <1>1, <1>2, <1>3 DEF Init, TypeOK, TaskIds

LEMMA TypeStep == TypeOK /\ [Next]_vars => TypeOK'
<1> SUFFICES ASSUME TypeOK, [Next]_vars PROVE TypeOK'
  OBVIOUS
<1> USE DEF dbVars, memVars, workVars, history
<1>0. RequestsOK /\ status \in [Tasks -> Status]
  BY DEF TypeOK
<1>1. ASSUME NEW r \in Requests, NEW t \in Tasks, CreateTask(r, t) PROVE TypeOK'
  <2>1. RequestsOK'
    BY <1>0, <1>1, StartOnOK DEF CreateTask, HasTask
  <2>2. QED
    BY <1>1, <2>1 DEF CreateTask, TypeOK, StartOn, Store, Status
<1>2. ASSUME NEW r \in Requests, NEW t \in Tasks, RetryRead(r, t) PROVE TypeOK'
  <2>1. RequestsOK'
    BY <1>0, <1>2, StartOnOK DEF RetryRead, HasTask
  <2>2. QED
    BY <1>2, <2>1 DEF RetryRead, TypeOK, StartOn
<1>3. ASSUME NEW r \in Requests, NEW t \in Tasks, CancelRead(r, t) PROVE TypeOK'
  <2>1. RequestsOK'
    BY <1>0, <1>3, StartOnOK DEF CancelRead, HasTask
  <2>2. QED
    BY <1>3, <2>1 DEF CancelRead, TypeOK, StartOn
<1>4. ASSUME NEW r \in Requests, NEW t \in Tasks, DeleteRead(r, t) PROVE TypeOK'
  <2>1. RequestsOK'
    BY <1>0, <1>4, StartOnOK DEF DeleteRead, HasTask
  <2>2. QED
    BY <1>4, <2>1 DEF DeleteRead, TypeOK, StartOn
<1>5. ASSUME NEW r \in Requests, NEW t \in Tasks, PublishRead(r, t) PROVE TypeOK'
  <2>1. RequestsOK'
    BY <1>0, <1>5, StartOnOK DEF PublishRead, HasTask
  <2>2. QED
    BY <1>5, <2>1 DEF PublishRead, TypeOK, StartOn
<1>6. ASSUME NEW r \in Requests, NEW p \in Projects, PauseProject(r, p) PROVE TypeOK'
  <2>1. RequestsOK'
    BY <1>0, <1>6, StartOnProjectOK DEF PauseProject
  <2>2. QED
    BY <1>6, <2>1 DEF PauseProject, TypeOK, StartOnProject
<1>7. ASSUME NEW r \in Requests, NEW p \in Projects, ResumeProject(r, p) PROVE TypeOK'
  <2>1. RequestsOK'
    BY <1>0, <1>7, StartOnProjectOK DEF ResumeProject
  <2>2. QED
    BY <1>7, <2>1 DEF ResumeProject, TypeOK, StartOnProject
<1>8. ASSUME NEW r \in Requests, ScheduleTask(r) PROVE TypeOK'
  <2>1. RequestsOK'
    BY <1>0, <1>8, FinishOK DEF ScheduleTask
  <2>2. req[r].task \in TaskIds
    BY <1>8 DEF TypeOK, RequestsOK, RequestOK, RequestRecord
  <2>3. queue' \in Seq(TaskIds) /\ scheduled' \in SUBSET TaskIds
    <3>1. queue \in Seq(TaskIds) /\ scheduled \in SUBSET TaskIds
      BY DEF TypeOK
    <3>2. \/ UNCHANGED <<queue, scheduled>>
          \/ queue' = Append(queue, req[r].task) /\ scheduled' = scheduled \cup {req[r].task}
      BY <1>8 DEF ScheduleTask
    <3>3. QED
      BY <2>2, <3>1, <3>2
  <2>4. QED
    BY <1>8, <2>1, <2>3 DEF ScheduleTask, At, TypeOK
<1>9. ASSUME NEW r \in Requests, RetryWrite(r) PROVE TypeOK'
  <2>1. RequestsOK'
    <3>1. req[r].pc \in HasTask
      BY <1>9 DEF RetryWrite, At, HasTask
    <3>2. QED
      BY <1>0, <1>9, <3>1, FinishOK, GotoOK DEF RetryWrite
  <2>2. QED
    BY <1>9, <2>1 DEF RetryWrite, At, TypeOK, Store, Status
<1>10. ASSUME NEW r \in Requests, CancelWrite(r) PROVE TypeOK'
  <2>1. RequestsOK'
    <3>1. req[r].pc \in HasTask
      BY <1>10 DEF CancelWrite, At, HasTask
    <3>2. Finish(r) \/ Goto(r, "cancelSignal")
      BY <1>10 DEF CancelWrite
    <3>3. QED
      BY <1>0, <3>1, <3>2, FinishOK, GotoOK
  <2>2. req[r].task \in Tasks
    BY <1>10 DEF CancelWrite, At, TypeOK, RequestsOK, RequestOK, HasTask
  <2>3. status' \in [Tasks -> Status] /\ asked' \in SUBSET Tasks
    BY <1>10, <2>2 DEF CancelWrite, TypeOK, Store, Status
  <2>4. server = "up" /\ UNCHANGED <<project, projects, pausedDb, server, memVars, workVars, interrupted, missed>>
    BY <1>10 DEF CancelWrite, At
  <2>5. QED
    BY <2>1, <2>3, <2>4 DEF TypeOK
<1>11. ASSUME NEW r \in Requests, CancelSignal(r) PROVE TypeOK'
  <2>1. RequestsOK'
    BY <1>0, <1>11, FinishOK DEF CancelSignal
  <2>2. signalled' \in BOOLEAN /\ (signalled' => wpc = "await")
    <3>1. CASE CurrentTask = req[r].task
      <4>1. wpc = "await"
        BY <1>11, <3>1, ConstantsAssumption DEF CancelSignal, At, CurrentTask, TypeOK, RequestsOK, RequestOK, HasTask,
                         ConstantsAssumption
      <4>2. QED
        BY <1>11, <3>1, <4>1 DEF CancelSignal, CancelExecution
    <3>2. CASE CurrentTask # req[r].task
      BY <1>11, <3>2 DEF CancelSignal, TypeOK
    <3>3. QED
      BY <3>1, <3>2
  <2>3. QED
    BY <1>11, <2>1, <2>2 DEF CancelSignal, At, TypeOK
<1>12. ASSUME NEW r \in Requests, DeleteWrite(r) PROVE TypeOK'
  <2>1. RequestsOK'
    BY <1>0, <1>12, FinishOK DEF DeleteWrite
  <2>2. QED
    BY <1>12, <2>1 DEF DeleteWrite, TypeOK, At, Store, Status
<1>13. ASSUME NEW r \in Requests, PublishWrite(r) PROVE TypeOK'
  <2>1. RequestsOK'
    BY <1>0, <1>13, FinishOK DEF PublishWrite
  <2>2. QED
    BY <1>13, <2>1 DEF PublishWrite, TypeOK, At, Store, Status
<1>14. ASSUME NEW r \in Requests, PauseMemory(r) PROVE TypeOK'
  <2>1. RequestsOK'
    <3>1. CASE CurrentTask = None
      BY <1>0, <1>14, <3>1, FinishOK DEF PauseMemory
    <3>2. CASE CurrentTask # None
      <4> DEFINE q == [req[r] EXCEPT !.pc = "pauseApply", !.task = CurrentTask]
      <4>1. CurrentTask \in Tasks
        BY <3>2 DEF CurrentTask, TypeOK
      <4>2. RequestOK(q)
        BY <1>14, <4>1 DEF PauseMemory, At, TypeOK, RequestsOK, RequestOK, RequestRecord,
                         RequestPc, HasTask, HasProject, TaskIds
      <4>3. req' = [req EXCEPT ![r] = q]
        BY <1>14, <3>2 DEF PauseMemory
      <4> HIDE DEF q
      <4>4. QED
        BY <1>0, <4>2, <4>3, RequestWritten
    <3>3. QED
      BY <3>1, <3>2
  <2>2. pausedMem' \in SUBSET Projects
    BY <1>14 DEF PauseMemory, At, TypeOK, RequestsOK, RequestOK, HasProject
  <2>3. QED
    BY <1>14, <2>1, <2>2 DEF PauseMemory, At, TypeOK
<1>15. ASSUME NEW r \in Requests, PauseApply(r) PROVE TypeOK'
  <2>1. RequestsOK'
    BY <1>0, <1>15, FinishOK DEF PauseApply
  <2>2. req[r].project \in Projects
    BY <1>15 DEF PauseApply, At, TypeOK, RequestsOK, RequestOK, HasProject
  <2>3. deferred' \in [Projects -> Seq(TaskIds)]
    <3>1. CurrentTask \in TaskIds
      BY DEF CurrentTask, TypeOK, TaskIds
    <3>2. deferred \in [Projects -> Seq(TaskIds)]
      BY DEF TypeOK
    <3>3. \/ UNCHANGED deferred
          \/ deferred' = [deferred EXCEPT ![req[r].project] = Append(@, CurrentTask)]
      BY <1>15 DEF PauseApply
    <3>4. QED
      <4>1. Append(deferred[req[r].project], CurrentTask) \in Seq(TaskIds)
        BY <2>2, <3>1, <3>2
      <4>2. QED
        BY <2>2, <3>2, <3>3, <4>1
  <2>4. signalled' \in BOOLEAN /\ (signalled' => wpc = "await")
    BY <1>15 DEF PauseApply, TypeOK, CurrentTask, CancelExecution
  <2>5. QED
    BY <1>15, <2>1, <2>3, <2>4 DEF PauseApply, At, TypeOK
<1>16. ASSUME NEW r \in Requests, ResumeMemory(r) PROVE TypeOK'
  <2>0. req[r].project \in Projects /\ req[r].pc = "resumeMemory"
    BY <1>16 DEF ResumeMemory, At, TypeOK, RequestsOK, RequestOK, HasProject
  <2>1. deferred[req[r].project] \in Seq(TaskIds)
    BY <2>0 DEF TypeOK
  <2>2. /\ queue' \in Seq(TaskIds)
        /\ scheduled' \in SUBSET TaskIds
        /\ deferred' \in [Projects -> Seq(TaskIds)]
    BY <1>16, <2>0, <2>1 DEF ResumeMemory, TypeOK, Range
  <2>3. RequestsOK'
    <3> DEFINE q == [req[r] EXCEPT !.pc = "resumeScan", !.keys = scheduled']
    <3>1. RequestOK(q)
      BY <2>0, <2>2 DEF TypeOK, RequestsOK, RequestOK, RequestRecord, RequestPc,
                        HasTask, HasProject
    <3>2. req' = [req EXCEPT ![r] = q]
      BY <1>16 DEF ResumeMemory
    <3> HIDE DEF q
    <3>3. QED
      BY <1>0, <3>1, <3>2, RequestWritten
  <2>4. QED
    BY <1>16, <2>2, <2>3 DEF ResumeMemory, At, TypeOK
<1>17. ASSUME NEW r \in Requests, ResumeScan(r) PROVE TypeOK'
  <2>1. RequestsOK'
    BY <1>0, <1>17, FinishOK DEF ResumeScan
  <2> DEFINE found == ScanResult(req[r].project, req[r].keys)
  <2>2. found \in SUBSET Tasks /\ Unscheduled(req[r].project, req[r].keys) \in SUBSET Tasks
    BY DEF ScanResult, Unscheduled
  <2>3. PICK ids \in Orderings(found) :
           queue' = queue \o ids /\ scheduled' = scheduled \cup Range(ids)
    BY <1>17 DEF ResumeScan
  <2>4. ids \in Seq(TaskIds) /\ Range(ids) \in SUBSET TaskIds
    BY <2>2, <2>3, OrderingsList
  <2>5. queue' \in Seq(TaskIds) /\ scheduled' \in SUBSET TaskIds
    BY <2>3, <2>4 DEF TypeOK
  <2>6. missed' \in SUBSET Tasks
    BY <1>17, <2>2 DEF ResumeScan, TypeOK
  <2>7. QED
    BY <1>17, <2>1, <2>5, <2>6 DEF ResumeScan, At, TypeOK
<1>18. ASSUME NEW p \in Projects, PatchPaused(p) PROVE TypeOK'
  BY <1>18 DEF PatchPaused, TypeOK, RequestsOK
<1>19. ASSUME NEW p \in Projects, DeleteProject(p) PROVE TypeOK'
  BY <1>19 DEF DeleteProject, TypeOK, RequestsOK
<1>20. CASE WorkerGet
  <2>1. RequestsOK'
    BY <1>0, <1>20 DEF WorkerGet, RequestsOK
  <2>2. QED
    BY <1>20, <2>1 DEF WorkerGet, TypeOK
<1>21. CASE WorkerSkip
  <2>1. RequestsOK'
    BY <1>0, <1>21 DEF WorkerSkip, RequestsOK
  <2>2. QED
    BY <1>21, <2>1 DEF WorkerSkip, TypeOK, NextTask, TaskIds
<1>22. CASE WorkerDefer
  <2>1. RequestsOK'
    BY <1>0, <1>22 DEF WorkerDefer, RequestsOK
  <2>2. deferred' \in [Projects -> Seq(TaskIds)]
    BY <1>22 DEF WorkerDefer, TypeOK
  <2>3. QED
    BY <1>22, <2>1, <2>2 DEF WorkerDefer, TypeOK, NextTask, TaskIds
<1>23. CASE WorkerDispatch
  <2>1. RequestsOK'
    BY <1>0, <1>23 DEF WorkerDispatch, RequestsOK
  <2>2. QED
    BY <1>23, <2>1 DEF WorkerDispatch, TypeOK, HandIsQueued
<1>24. CASE WorkerCollect
  <2>1. RequestsOK'
    BY <1>0, <1>24 DEF WorkerCollect, RequestsOK
  <2>2. QED
    BY <1>24, <2>1 DEF WorkerCollect, TypeOK, NextTask, TaskIds
<1>25. CASE RunLoad
  <2>1. RequestsOK'
    BY <1>0, <1>25 DEF RunLoad, RunFrame, RequestsOK
  <2>2. QED
    BY <1>25, <2>1 DEF RunLoad, TypeOK, RunFrame
<1>26. CASE RunStart
  <2>1. RequestsOK'
    BY <1>0, <1>26 DEF RunStart, RunWrite, RunFrame, RequestsOK
  <2>2. QED
    BY <1>26, <2>1 DEF RunStart, TypeOK, RunFrame, RunWrite, Store, Status
<1>27. CASE RunDone
  <2>1. RequestsOK'
    BY <1>0, <1>27 DEF RunDone, RunWrite, RunFrame, RequestsOK
  <2>2. QED
    BY <1>27, <2>1 DEF RunDone, TypeOK, RunFrame, RunWrite, Store, Status
<1>28. CASE RunFailed
  <2>1. RequestsOK'
    BY <1>0, <1>28 DEF RunFailed, RunWrite, RunFrame, RequestsOK
  <2>2. QED
    BY <1>28, <2>1 DEF RunFailed, TypeOK, RunFrame, RunWrite, Store, Status
<1>29. CASE RunReturn
  <2>1. RequestsOK'
    BY <1>0, <1>29 DEF RunReturn, RunFrame, RequestsOK
  <2>2. QED
    BY <1>29, <2>1 DEF RunReturn, TypeOK, RunFrame
<1>30. CASE RunCancelled
  <2>1. RequestsOK'
    BY <1>0, <1>30 DEF RunCancelled, RunFrame, RequestsOK
  <2>2. QED
    BY <1>30, <2>1 DEF RunCancelled, TypeOK, RunFrame
<1>31. CASE RunUnwind
  <2>1. RequestsOK'
    BY <1>0, <1>31 DEF RunUnwind, RunFrame, RequestsOK
  <2>2. QED
    BY <1>31, <2>1 DEF RunUnwind, TypeOK, RunFrame, Store, Status
<1>32. CASE RunUnwindFails
  <2>1. RequestsOK'
    BY <1>0, <1>32 DEF RunUnwindFails, RunFrame, RequestsOK
  <2>2. QED
    BY <1>32, <2>1 DEF RunUnwindFails, TypeOK, RunFrame
<1>33. CASE Startup
  <2>1. RequestsOK'
    BY <1>0, <1>33 DEF Startup, RequestsOK
  <2>2. status' \in [Tasks -> Status]
    BY <1>33 DEF Startup, TypeOK, Status
  <2>3. queue' \in Seq(TaskIds) /\ scheduled' \in SUBSET TaskIds
    BY <1>33, OrderingsList DEF Startup
  <2>4. QED
    BY <1>33, <2>1, <2>2, <2>3 DEF Startup, TypeOK
<1>34. CASE Shutdown
  <2>1. RequestsOK'
    BY <1>0, <1>34 DEF Shutdown, RequestsOK
  <2>2. signalled' \in BOOLEAN /\ (signalled' => wpc' = "await") /\ (wpc' = "await" <=> wpc = "await")
    BY <1>34 DEF Shutdown, CancelExecution, TypeOK
  <2>3. QED
    BY <1>34, <2>1, <2>2 DEF Shutdown, TypeOK
<1>35. CASE Exit
  <2>1. RequestsOK' /\ \A r \in Requests : req'[r] = Idle
    BY <1>35, IdleOK DEF Exit, RequestsOK, RequestOK
  <2>2. queue' \in Seq(TaskIds) /\ deferred' \in [Projects -> Seq(TaskIds)]
    BY <1>35 DEF Exit
  <2>3. QED
    BY <1>35, <2>1, <2>2 DEF Exit, TypeOK, TaskIds
<1>36. CASE UNCHANGED vars
  BY <1>36 DEF vars, TypeOK, RequestsOK
<1>37. QED
  BY <1>1, <1>2, <1>3, <1>4, <1>5, <1>6, <1>7, <1>8, <1>9, <1>10, <1>11, <1>12, <1>13, <1>14, <1>15, <1>16, <1>17, <1>18, <1>19, <1>20, <1>21, <1>22, <1>23, <1>24, <1>25, <1>26, <1>27, <1>28, <1>29, <1>30, <1>31, <1>32, <1>33, <1>34, <1>35, <1>36 DEF Next, RequestStart, RequestStep, Worker, Run

\* Every variable keeps its type, and the worker, the execution and the requests
\* hold what the code at their program counter needs.
THEOREM TypeCorrect == Spec => []TypeOK
<1>1. Init => TypeOK
  BY TypeInit
<1>2. TypeOK /\ [Next]_vars => TypeOK'
  BY TypeStep
<1>3. QED
  BY <1>1, <1>2, PTL DEF Spec

-----------------------------------------------------------------------------
(* The scheduled marks.                                                     *)

\* The actions that touch _PIPELINE_QUEUE or _SCHEDULED_PIPELINES.
LEMMA QueueFrame ==
    ASSUME [Next]_vars
    PROVE  \/ UNCHANGED <<queue, scheduled>>
           \/ \E r \in Requests : ScheduleTask(r) \/ ResumeMemory(r) \/ ResumeScan(r)
           \/ WorkerGet \/ Startup \/ Exit
<1> USE DEF memVars
<1>1. ASSUME NEW r \in Requests, RequestStart(r) PROVE UNCHANGED <<queue, scheduled>>
  BY <1>1 DEF RequestStart, CreateTask, RetryRead, CancelRead, DeleteRead, PublishRead, PauseProject, ResumeProject
<1>2. ASSUME NEW r \in Requests, RequestStep(r),
             ~ScheduleTask(r), ~ResumeMemory(r), ~ResumeScan(r)
      PROVE  UNCHANGED <<queue, scheduled>>
  BY <1>2 DEF RequestStep, RetryWrite, CancelWrite, CancelSignal, DeleteWrite,
              PublishWrite, PauseMemory, PauseApply
<1>3. ASSUME NEW p \in Projects, PatchPaused(p) \/ DeleteProject(p)
      PROVE  UNCHANGED <<queue, scheduled>>
  BY <1>3 DEF PatchPaused, DeleteProject
<1>4. ASSUME Worker, ~WorkerGet PROVE UNCHANGED <<queue, scheduled>>
  BY <1>4 DEF Worker, WorkerSkip, WorkerDefer, WorkerDispatch, WorkerCollect
<1>5. ASSUME Run PROVE UNCHANGED <<queue, scheduled>>
  BY <1>5 DEF Run, RunLoad, RunStart, RunDone, RunFailed, RunReturn, RunCancelled,
              RunUnwind, RunUnwindFails, RunWrite, RunFrame
<1>6. ASSUME Shutdown PROVE UNCHANGED <<queue, scheduled>>
  BY <1>6 DEF Shutdown
<1>7. ASSUME UNCHANGED vars PROVE UNCHANGED <<queue, scheduled>>
  BY <1>7 DEF vars
<1>8. QED
  BY <1>1, <1>2, <1>3, <1>4, <1>5, <1>6, <1>7 DEF Next

LEMMA ScheduledStep ==
    TypeOK /\ TypeOK' /\ ScheduledIsQueued /\ [Next]_vars => ScheduledIsQueued'
<1> SUFFICES ASSUME TypeOK, TypeOK', ScheduledIsQueued, [Next]_vars
             PROVE  ScheduledIsQueued'
  OBVIOUS
<1>0. queue \in Seq(TaskIds) /\ deferred \in [Projects -> Seq(TaskIds)]
  BY DEF TypeOK
<1>1. ASSUME UNCHANGED <<queue, scheduled>> PROVE ScheduledIsQueued'
  BY <1>1 DEF ScheduledIsQueued
<1>2. ASSUME NEW r \in Requests, ScheduleTask(r) PROVE ScheduledIsQueued'
  <2>1. req[r].task \in TaskIds
    BY DEF TypeOK, RequestsOK, RequestOK, RequestRecord
  <2>2. Range(Append(queue, req[r].task)) = Range(queue) \cup {req[r].task}
    BY <1>0, <2>1, RangeAppend
  <2>3. QED
    BY <1>2, <2>2 DEF ScheduleTask, ScheduledIsQueued
<1>3. ASSUME NEW r \in Requests, ResumeMemory(r) PROVE ScheduledIsQueued'
  <2>1. deferred[req[r].project] \in Seq(TaskIds)
    BY <1>0, <1>3 DEF ResumeMemory, At, TypeOK, RequestsOK, RequestOK, HasProject
  <2>2. Range(queue \o deferred[req[r].project])
           = Range(queue) \cup Range(deferred[req[r].project])
    BY <1>0, <2>1, RangeConcat
  <2>3. QED
    BY <1>3, <2>2 DEF ResumeMemory, ScheduledIsQueued
<1>4. ASSUME NEW r \in Requests, ResumeScan(r) PROVE ScheduledIsQueued'
  <2> DEFINE found == ScanResult(req[r].project, req[r].keys)
  <2>1. PICK ids \in Orderings(found) :
           queue' = queue \o ids /\ scheduled' = scheduled \cup Range(ids)
    BY <1>4 DEF ResumeScan
  <2>2. ids \in Seq(TaskIds)
    BY <2>1, OrderingsList DEF ScanResult, Unscheduled
  <2>3. Range(queue \o ids) = Range(queue) \cup Range(ids)
    BY <1>0, <2>2, RangeConcat
  <2>4. QED
    BY <2>1, <2>3 DEF ScheduledIsQueued
<1>5. ASSUME WorkerGet PROVE ScheduledIsQueued'
  <2>1. queue # << >>
    BY <1>5 DEF WorkerGet
  <2>2. Range(queue) = {Head(queue)} \cup Range(Tail(queue))
    BY <1>0, <2>1, RangeTail
  <2>3. QED
    BY <1>5, <2>2 DEF WorkerGet, ScheduledIsQueued
<1>6. ASSUME Startup PROVE ScheduledIsQueued'
  BY <1>6 DEF Startup, ScheduledIsQueued
<1>7. ASSUME Exit PROVE ScheduledIsQueued'
  BY <1>7 DEF Exit, ScheduledIsQueued
<1>8. QED
  BY QueueFrame, <1>1, <1>2, <1>3, <1>4, <1>5, <1>6, <1>7

\* The marks of _SCHEDULED_PIPELINES never outlive the queue entry they stand for.
THEOREM ScheduledMarks == Spec => []ScheduledIsQueued
<1>1. Init => ScheduledIsQueued
  BY DEF Init, ScheduledIsQueued
<1>2. TypeOK /\ TypeOK' /\ ScheduledIsQueued /\ [Next]_vars => ScheduledIsQueued'
  BY ScheduledStep
<1>3. QED
  BY <1>1, <1>2, TypeCorrect, PTL DEF Spec


-----------------------------------------------------------------------------
(* Executions and the status column.                                         *)

LEMMA ExclusiveStep ==
    TypeOK /\ ExecutionExclusive /\ [Next]_vars => ExecutionExclusive'
<1> SUFFICES ASSUME TypeOK, ExecutionExclusive, [Next]_vars
             PROVE  ExecutionExclusive'
  OBVIOUS
<1> USE DEF dbVars, memVars, workVars, history
<1>1. ASSUME NEW r \in Requests, NEW t \in Tasks, CreateTask(r, t) PROVE ExecutionExclusive'
  BY <1>1 DEF CreateTask, StartOn, Store, TypeOK, ExecutionExclusive
<1>2. ASSUME NEW r \in Requests, NEW t \in Tasks, RetryRead(r, t) PROVE ExecutionExclusive'
  BY <1>2 DEF RetryRead, TypeOK, ExecutionExclusive
<1>3. ASSUME NEW r \in Requests, NEW t \in Tasks, CancelRead(r, t) PROVE ExecutionExclusive'
  BY <1>3 DEF CancelRead, TypeOK, ExecutionExclusive
<1>4. ASSUME NEW r \in Requests, NEW t \in Tasks, DeleteRead(r, t) PROVE ExecutionExclusive'
  BY <1>4 DEF DeleteRead, TypeOK, ExecutionExclusive
<1>5. ASSUME NEW r \in Requests, NEW t \in Tasks, PublishRead(r, t) PROVE ExecutionExclusive'
  BY <1>5 DEF PublishRead, TypeOK, ExecutionExclusive
<1>6. ASSUME NEW r \in Requests, NEW p \in Projects, PauseProject(r, p) PROVE ExecutionExclusive'
  BY <1>6 DEF PauseProject, TypeOK, ExecutionExclusive
<1>7. ASSUME NEW r \in Requests, NEW p \in Projects, ResumeProject(r, p) PROVE ExecutionExclusive'
  BY <1>7 DEF ResumeProject, TypeOK, ExecutionExclusive
<1>8. ASSUME NEW r \in Requests, ScheduleTask(r) PROVE ExecutionExclusive'
  BY <1>8 DEF ScheduleTask, TypeOK, ExecutionExclusive
<1>9. ASSUME NEW r \in Requests, RetryWrite(r) PROVE ExecutionExclusive'
  <2>1. req[r].seen \in {"done", "failed"}
    BY <1>9 DEF RetryWrite, At, TypeOK, RequestsOK, RequestOK
  <2>2. QED
    BY <1>9, <2>1 DEF RetryWrite, Store, TypeOK, ExecutionExclusive
<1>10. ASSUME NEW r \in Requests, CancelWrite(r) PROVE ExecutionExclusive'
  BY <1>10 DEF CancelWrite, Store, Gone, TypeOK, ExecutionExclusive
<1>11. ASSUME NEW r \in Requests, CancelSignal(r) PROVE ExecutionExclusive'
  BY <1>11 DEF CancelSignal, TypeOK, ExecutionExclusive
<1>12. ASSUME NEW r \in Requests, DeleteWrite(r) PROVE ExecutionExclusive'
  BY <1>12 DEF DeleteWrite, Store, TypeOK, ExecutionExclusive
<1>13. ASSUME NEW r \in Requests, PublishWrite(r) PROVE ExecutionExclusive'
  BY <1>13 DEF PublishWrite, Store, Gone, TypeOK, ExecutionExclusive
<1>14. ASSUME NEW r \in Requests, PauseMemory(r) PROVE ExecutionExclusive'
  BY <1>14 DEF PauseMemory, TypeOK, ExecutionExclusive
<1>15. ASSUME NEW r \in Requests, PauseApply(r) PROVE ExecutionExclusive'
  BY <1>15 DEF PauseApply, TypeOK, ExecutionExclusive
<1>16. ASSUME NEW r \in Requests, ResumeMemory(r) PROVE ExecutionExclusive'
  BY <1>16 DEF ResumeMemory, TypeOK, ExecutionExclusive
<1>17. ASSUME NEW r \in Requests, ResumeScan(r) PROVE ExecutionExclusive'
  BY <1>17 DEF ResumeScan, TypeOK, ExecutionExclusive
<1>18. ASSUME NEW p \in Projects, PatchPaused(p) PROVE ExecutionExclusive'
  BY <1>18 DEF PatchPaused, TypeOK, ExecutionExclusive
<1>19. ASSUME NEW p \in Projects, DeleteProject(p) PROVE ExecutionExclusive'
  BY <1>19 DEF DeleteProject, TypeOK, ExecutionExclusive
<1>20. CASE WorkerGet
  BY <1>20 DEF WorkerGet, TypeOK, ExecutionExclusive
<1>21. CASE WorkerSkip
  BY <1>21 DEF WorkerSkip, NextTask, TypeOK, ExecutionExclusive
<1>22. CASE WorkerDefer
  BY <1>22 DEF WorkerDefer, NextTask, TypeOK, ExecutionExclusive
<1>23. CASE WorkerDispatch
  BY <1>23 DEF WorkerDispatch, TypeOK, ExecutionExclusive
<1>24. CASE WorkerCollect
  BY <1>24 DEF WorkerCollect, NextTask, TypeOK, ExecutionExclusive
<1>25. CASE RunLoad
  BY <1>25 DEF RunLoad, RunFrame, TypeOK, ExecutionExclusive
<1>26. CASE RunStart
  BY <1>26 DEF RunStart, RunFrame, RunWrite, Store, Gone, TypeOK, ExecutionExclusive
<1>27. CASE RunDone
  BY <1>27 DEF RunDone, RunFrame, RunWrite, Store, Gone, TypeOK, ExecutionExclusive
<1>28. CASE RunFailed
  BY <1>28 DEF RunFailed, RunFrame, RunWrite, Store, Gone, TypeOK, ExecutionExclusive
<1>29. CASE RunReturn
  BY <1>29 DEF RunReturn, RunFrame, TypeOK, ExecutionExclusive
<1>30. CASE RunCancelled
  BY <1>30 DEF RunCancelled, RunFrame, TypeOK, ExecutionExclusive
<1>31. CASE RunUnwind
  BY <1>31 DEF RunUnwind, RunFrame, Store, Gone, TypeOK, ExecutionExclusive
<1>32. CASE RunUnwindFails
  BY <1>32 DEF RunUnwindFails, RunFrame, TypeOK, ExecutionExclusive
<1>33. CASE Startup
  BY <1>33 DEF Startup, TypeOK, ExecutionExclusive
<1>34. CASE Shutdown
  BY <1>34 DEF Shutdown, TypeOK, ExecutionExclusive
<1>35. CASE Exit
  BY <1>35 DEF Exit, TypeOK, ExecutionExclusive
<1>36. CASE UNCHANGED vars
  BY <1>36 DEF vars, ExecutionExclusive
<1>37. QED
  BY <1>1, <1>2, <1>3, <1>4, <1>5, <1>6, <1>7, <1>8, <1>9, <1>10, <1>11, <1>12, <1>13, <1>14,
     <1>15, <1>16, <1>17, <1>18, <1>19, <1>20, <1>21, <1>22, <1>23, <1>24, <1>25, <1>26, <1>27, <1>28,
     <1>29, <1>30, <1>31, <1>32, <1>33, <1>34, <1>35, <1>36
  DEF Next, RequestStart, RequestStep, Worker, Run

LEMMA RunningStep ==
    TypeOK /\ RunningHasExecution /\ [Next]_vars => RunningHasExecution'
<1> SUFFICES ASSUME TypeOK, RunningHasExecution, [Next]_vars
             PROVE  RunningHasExecution'
  OBVIOUS
<1> USE DEF dbVars, memVars, workVars, history
<1>1. ASSUME NEW r \in Requests, NEW t \in Tasks, CreateTask(r, t) PROVE RunningHasExecution'
  BY <1>1 DEF CreateTask, StartOn, Store, TypeOK, RunningHasExecution
<1>2. ASSUME NEW r \in Requests, NEW t \in Tasks, RetryRead(r, t) PROVE RunningHasExecution'
  BY <1>2 DEF RetryRead, TypeOK, RunningHasExecution
<1>3. ASSUME NEW r \in Requests, NEW t \in Tasks, CancelRead(r, t) PROVE RunningHasExecution'
  BY <1>3 DEF CancelRead, TypeOK, RunningHasExecution
<1>4. ASSUME NEW r \in Requests, NEW t \in Tasks, DeleteRead(r, t) PROVE RunningHasExecution'
  BY <1>4 DEF DeleteRead, TypeOK, RunningHasExecution
<1>5. ASSUME NEW r \in Requests, NEW t \in Tasks, PublishRead(r, t) PROVE RunningHasExecution'
  BY <1>5 DEF PublishRead, TypeOK, RunningHasExecution
<1>6. ASSUME NEW r \in Requests, NEW p \in Projects, PauseProject(r, p) PROVE RunningHasExecution'
  BY <1>6 DEF PauseProject, TypeOK, RunningHasExecution
<1>7. ASSUME NEW r \in Requests, NEW p \in Projects, ResumeProject(r, p) PROVE RunningHasExecution'
  BY <1>7 DEF ResumeProject, TypeOK, RunningHasExecution
<1>8. ASSUME NEW r \in Requests, ScheduleTask(r) PROVE RunningHasExecution'
  BY <1>8 DEF ScheduleTask, TypeOK, RunningHasExecution
<1>9. ASSUME NEW r \in Requests, RetryWrite(r) PROVE RunningHasExecution'
  <2>1. req[r].seen \in {"done", "failed"}
    BY <1>9 DEF RetryWrite, At, TypeOK, RequestsOK, RequestOK
  <2>2. QED
    BY <1>9, <2>1 DEF RetryWrite, Store, TypeOK, RunningHasExecution
<1>10. ASSUME NEW r \in Requests, CancelWrite(r) PROVE RunningHasExecution'
  BY <1>10 DEF CancelWrite, Store, Gone, TypeOK, RunningHasExecution
<1>11. ASSUME NEW r \in Requests, CancelSignal(r) PROVE RunningHasExecution'
  BY <1>11 DEF CancelSignal, TypeOK, RunningHasExecution
<1>12. ASSUME NEW r \in Requests, DeleteWrite(r) PROVE RunningHasExecution'
  BY <1>12 DEF DeleteWrite, Store, TypeOK, RunningHasExecution
<1>13. ASSUME NEW r \in Requests, PublishWrite(r) PROVE RunningHasExecution'
  BY <1>13 DEF PublishWrite, Store, Gone, TypeOK, RunningHasExecution
<1>14. ASSUME NEW r \in Requests, PauseMemory(r) PROVE RunningHasExecution'
  BY <1>14 DEF PauseMemory, TypeOK, RunningHasExecution
<1>15. ASSUME NEW r \in Requests, PauseApply(r) PROVE RunningHasExecution'
  BY <1>15 DEF PauseApply, TypeOK, RunningHasExecution
<1>16. ASSUME NEW r \in Requests, ResumeMemory(r) PROVE RunningHasExecution'
  BY <1>16 DEF ResumeMemory, TypeOK, RunningHasExecution
<1>17. ASSUME NEW r \in Requests, ResumeScan(r) PROVE RunningHasExecution'
  BY <1>17 DEF ResumeScan, TypeOK, RunningHasExecution
<1>18. ASSUME NEW p \in Projects, PatchPaused(p) PROVE RunningHasExecution'
  BY <1>18 DEF PatchPaused, TypeOK, RunningHasExecution
<1>19. ASSUME NEW p \in Projects, DeleteProject(p) PROVE RunningHasExecution'
  BY <1>19 DEF DeleteProject, TypeOK, RunningHasExecution
<1>20. CASE WorkerGet
  BY <1>20 DEF WorkerGet, TypeOK, RunningHasExecution
<1>21. CASE WorkerSkip
  BY <1>21 DEF WorkerSkip, NextTask, TypeOK, RunningHasExecution
<1>22. CASE WorkerDefer
  BY <1>22 DEF WorkerDefer, NextTask, TypeOK, RunningHasExecution
<1>23. CASE WorkerDispatch
  BY <1>23 DEF WorkerDispatch, TypeOK, RunningHasExecution
<1>24. CASE WorkerCollect
  BY <1>24 DEF WorkerCollect, NextTask, TypeOK, RunningHasExecution
<1>25. CASE RunLoad
  BY <1>25 DEF RunLoad, RunFrame, TypeOK, RunningHasExecution
<1>26. CASE RunStart
  BY <1>26 DEF RunStart, RunFrame, RunWrite, Store, Gone, TypeOK, RunningHasExecution
<1>27. CASE RunDone
  BY <1>27 DEF RunDone, RunFrame, RunWrite, Store, Gone, TypeOK, RunningHasExecution
<1>28. CASE RunFailed
  BY <1>28 DEF RunFailed, RunFrame, RunWrite, Store, Gone, TypeOK, RunningHasExecution
<1>29. CASE RunReturn
  BY <1>29 DEF RunReturn, RunFrame, TypeOK, RunningHasExecution
<1>30. CASE RunCancelled
  BY <1>30 DEF RunCancelled, RunFrame, TypeOK, RunningHasExecution
<1>31. CASE RunUnwind
  BY <1>31 DEF RunUnwind, RunFrame, Store, Gone, TypeOK, RunningHasExecution
<1>32. CASE RunUnwindFails
  BY <1>32 DEF RunUnwindFails, RunFrame, TypeOK, RunningHasExecution
<1>33. CASE Startup
  BY <1>33 DEF Startup, TypeOK, RunningHasExecution
<1>34. CASE Shutdown
  BY <1>34 DEF Shutdown, TypeOK, RunningHasExecution
<1>35. CASE Exit
  BY <1>35 DEF Exit, TypeOK, RunningHasExecution
<1>36. CASE UNCHANGED vars
  BY <1>36 DEF vars, RunningHasExecution
<1>37. QED
  BY <1>1, <1>2, <1>3, <1>4, <1>5, <1>6, <1>7, <1>8, <1>9, <1>10, <1>11, <1>12, <1>13, <1>14,
     <1>15, <1>16, <1>17, <1>18, <1>19, <1>20, <1>21, <1>22, <1>23, <1>24, <1>25, <1>26, <1>27, <1>28,
     <1>29, <1>30, <1>31, <1>32, <1>33, <1>34, <1>35, <1>36
  DEF Next, RequestStart, RequestStep, Worker, Run

\* No request revives a row under the execution that is translating it.
THEOREM Exclusive == Spec => []ExecutionExclusive
<1>1. Init => ExecutionExclusive
  BY DEF Init, ExecutionExclusive
<1>2. TypeOK /\ ExecutionExclusive /\ [Next]_vars => ExecutionExclusive'
  BY ExclusiveStep
<1>3. QED
  BY <1>1, <1>2, TypeCorrect, PTL DEF Spec

\* A row says running only under a living execution, or after one whose
\* CancelledError handler could not commit; never after a restart.
THEOREM NoZombie == Spec => []RunningHasExecution
<1>1. Init => RunningHasExecution
  BY DEF Init, RunningHasExecution
<1>2. TypeOK /\ RunningHasExecution /\ [Next]_vars => RunningHasExecution'
  BY RunningStep
<1>3. QED
  BY <1>1, <1>2, TypeCorrect, PTL DEF Spec

-----------------------------------------------------------------------------
(* Pausing a project.                                                     *)

\* A step of another request does not undo a pause about to be applied.
LEMMA PauseKept ==
    ASSUME TypeOK, NEW r \in Requests, NEW q, req' = [req EXCEPT ![r] = q],
           req[r].pc # "pauseApply", BeingPaused,
           hand' = hand, project'[hand] = project[hand]
    PROVE  BeingPaused'
<1>1. PICK w \in Requests : /\ req[w].pc = "pauseApply" /\ req[w].task = hand
                           /\ req[w].project = project[hand]
  BY DEF BeingPaused
<1>2. req'[w] = req[w]
  BY <1>1 DEF TypeOK, RequestsOK
<1>3. QED
  BY <1>1, <1>2 DEF BeingPaused

LEMMA PauseStep ==
    TypeOK /\ PauseStops /\ [Next]_vars => PauseStops'
<1> SUFFICES ASSUME TypeOK, PauseStops, [Next]_vars
             PROVE  PauseStops'
  OBVIOUS
<1> USE DEF dbVars, memVars, workVars, history
<1>1. ASSUME NEW r \in Requests, NEW t \in Tasks, CreateTask(r, t) PROVE PauseStops'
  <2>1. SUFFICES ASSUME server = "up", Executing, project[hand] \in pausedMem
                  PROVE  BeingPaused'
    BY <1>1 DEF CreateTask, PauseStops, Executing
  <2>2. BeingPaused
    BY <2>1 DEF PauseStops
  <2>3. req[r].pc # "pauseApply" /\ hand' = hand /\ project' = project
    BY <1>1 DEF CreateTask, StartOn, Idle
  <2>4. QED
    BY <1>1, <2>2, <2>3, PauseKept DEF CreateTask, StartOn
<1>2. ASSUME NEW r \in Requests, NEW t \in Tasks, RetryRead(r, t) PROVE PauseStops'
  BY <1>2 DEF RetryRead, StartOn, RequestsOK, Idle, Executing, BeingPaused, TypeOK, PauseStops
<1>3. ASSUME NEW r \in Requests, NEW t \in Tasks, CancelRead(r, t) PROVE PauseStops'
  BY <1>3 DEF CancelRead, StartOn, RequestsOK, Idle, Executing, BeingPaused, TypeOK, PauseStops
<1>4. ASSUME NEW r \in Requests, NEW t \in Tasks, DeleteRead(r, t) PROVE PauseStops'
  <2>1. SUFFICES ASSUME server = "up", Executing, project[hand] \in pausedMem
                  PROVE  BeingPaused'
    BY <1>4 DEF DeleteRead, PauseStops, Executing
  <2>2. BeingPaused
    BY <2>1 DEF PauseStops
  <2>3. req[r].pc # "pauseApply" /\ hand' = hand /\ project' = project
    BY <1>4 DEF DeleteRead, StartOn, Idle
  <2>4. QED
    BY <1>4, <2>2, <2>3, PauseKept DEF DeleteRead, StartOn
<1>5. ASSUME NEW r \in Requests, NEW t \in Tasks, PublishRead(r, t) PROVE PauseStops'
  BY <1>5 DEF PublishRead, StartOn, RequestsOK, Idle, Executing, BeingPaused, TypeOK, PauseStops
<1>6. ASSUME NEW r \in Requests, NEW p \in Projects, PauseProject(r, p) PROVE PauseStops'
  BY <1>6 DEF PauseProject, StartOnProject, RequestsOK, Idle, Executing, BeingPaused, TypeOK, PauseStops
<1>7. ASSUME NEW r \in Requests, NEW p \in Projects, ResumeProject(r, p) PROVE PauseStops'
  BY <1>7 DEF ResumeProject, StartOnProject, RequestsOK, Idle, Executing, BeingPaused, TypeOK, PauseStops
<1>8. ASSUME NEW r \in Requests, ScheduleTask(r) PROVE PauseStops'
  BY <1>8 DEF ScheduleTask, At, RequestsOK, Finish, Goto, Executing, BeingPaused, TypeOK, PauseStops
<1>9. ASSUME NEW r \in Requests, RetryWrite(r) PROVE PauseStops'
  BY <1>9 DEF RetryWrite, Store, At, RequestsOK, Finish, Goto, Executing, BeingPaused, TypeOK, PauseStops
<1>10. ASSUME NEW r \in Requests, CancelWrite(r) PROVE PauseStops'
  BY <1>10 DEF CancelWrite, Store, Gone, At, RequestsOK, Finish, Goto, Executing, BeingPaused, TypeOK, PauseStops
<1>11. ASSUME NEW r \in Requests, CancelSignal(r) PROVE PauseStops'
  <2>1. SUFFICES ASSUME server = "up", Executing', project[hand] \in pausedMem
                  PROVE  BeingPaused'
    BY <1>11 DEF CancelSignal, PauseStops
  <2>2. Executing
    BY <1>11, <2>1 DEF CancelSignal, CancelExecution, Executing, TypeOK
  <2>3. BeingPaused
    BY <2>1, <2>2 DEF PauseStops
  <2>4. req[r].pc # "pauseApply" /\ hand' = hand /\ project' = project
    BY <1>11 DEF CancelSignal, At
  <2>5. QED
    BY <1>11, <2>3, <2>4, PauseKept DEF CancelSignal, Finish
<1>12. ASSUME NEW r \in Requests, DeleteWrite(r) PROVE PauseStops'
  <2>1. SUFFICES ASSUME server = "up", Executing, project'[hand] \in pausedMem
                  PROVE  BeingPaused'
    BY <1>12 DEF DeleteWrite, PauseStops, Executing
  <2>2. project'[hand] = project[hand]
    BY <1>12, <2>1, ConstantsAssumption DEF DeleteWrite, TypeOK, ConstantsAssumption, Executing
  <2>3. BeingPaused
    BY <2>1, <2>2 DEF PauseStops
  <2>4. req[r].pc # "pauseApply" /\ hand' = hand
    BY <1>12 DEF DeleteWrite, At
  <2>5. QED
    BY <1>12, <2>2, <2>3, <2>4, PauseKept DEF DeleteWrite, Finish
<1>13. ASSUME NEW r \in Requests, PublishWrite(r) PROVE PauseStops'
  BY <1>13 DEF PublishWrite, Store, Gone, At, RequestsOK, Finish, Goto, Executing, BeingPaused, TypeOK, PauseStops
<1>14. ASSUME NEW r \in Requests, PauseMemory(r) PROVE PauseStops'
  <2>1. SUFFICES ASSUME server = "up", Executing, project[hand] \in pausedMem'
                  PROVE  BeingPaused'
    BY <1>14 DEF PauseMemory, PauseStops, Executing
  <2>2. CurrentTask = hand /\ hand # None
    BY <2>1, ConstantsAssumption DEF Executing, CurrentTask, TypeOK, ConstantsAssumption
  <2>3. /\ req' = [req EXCEPT ![r].pc = "pauseApply", ![r].task = hand]
        /\ hand' = hand /\ project' = project
    BY <1>14, <2>2 DEF PauseMemory
  <2>4. CASE project[hand] = req[r].project
    <3>1. /\ req'[r].pc = "pauseApply" /\ req'[r].task = hand
          /\ req'[r].project = project[hand]
      BY <2>3, <2>4 DEF TypeOK, RequestsOK, RequestOK, RequestRecord
    <3>2. QED
      BY <2>3, <3>1 DEF BeingPaused
  <2>5. CASE project[hand] # req[r].project
    <3>1. BeingPaused
      BY <1>14, <2>1, <2>5 DEF PauseMemory, PauseStops
    <3>2. req[r].pc # "pauseApply"
      BY <1>14 DEF PauseMemory, At
    <3>3. QED
      BY <2>3, <3>1, <3>2, PauseKept
  <2>6. QED
    BY <2>4, <2>5
<1>15. ASSUME NEW r \in Requests, PauseApply(r) PROVE PauseStops'
  <2>1. SUFFICES ASSUME server = "up", Executing', project[hand] \in pausedMem
                  PROVE  BeingPaused'
    BY <1>15 DEF PauseApply, PauseStops
  <2>2. Executing
    BY <1>15, <2>1 DEF PauseApply, CancelExecution, Executing, TypeOK
  <2>3. PICK w \in Requests : /\ req[w].pc = "pauseApply" /\ req[w].task = hand
                             /\ req[w].project = project[hand]
    BY <2>1, <2>2 DEF PauseStops, BeingPaused
  <2>4. w # r
    <3>1. SUFFICES ASSUME w = r PROVE FALSE
      OBVIOUS
    <3>2. CurrentTask = hand /\ hand # None
      BY <2>2, ConstantsAssumption DEF Executing, CurrentTask, TypeOK, ConstantsAssumption
    <3>3. CancelExecution
      BY <1>15, <2>3, <3>1, <3>2 DEF PauseApply
    <3>4. QED
      BY <2>1, <2>2, <3>3 DEF CancelExecution, Executing
  <2>5. req'[w] = req[w] /\ hand' = hand /\ project' = project
    BY <1>15, <2>4 DEF PauseApply, Finish, TypeOK, RequestsOK
  <2>6. QED
    BY <2>3, <2>5 DEF BeingPaused
<1>16. ASSUME NEW r \in Requests, ResumeMemory(r) PROVE PauseStops'
  BY <1>16 DEF ResumeMemory, At, RequestsOK, Finish, Goto, Executing, BeingPaused, TypeOK, PauseStops
<1>17. ASSUME NEW r \in Requests, ResumeScan(r) PROVE PauseStops'
  BY <1>17 DEF ResumeScan, At, RequestsOK, Finish, Goto, Executing, BeingPaused, TypeOK, PauseStops
<1>18. ASSUME NEW p \in Projects, PatchPaused(p) PROVE PauseStops'
  BY <1>18 DEF PatchPaused, Executing, BeingPaused, TypeOK, PauseStops
<1>19. ASSUME NEW p \in Projects, DeleteProject(p) PROVE PauseStops'
  <2>1. SUFFICES ASSUME server = "up", Executing, project'[hand] \in pausedMem
                  PROVE  BeingPaused'
    BY <1>19 DEF DeleteProject, PauseStops, Executing
  <2>2. project'[hand] = project[hand]
    BY <1>19, <2>1, ConstantsAssumption DEF DeleteProject, TypeOK, ConstantsAssumption, Executing
  <2>3. BeingPaused
    BY <2>1, <2>2 DEF PauseStops
  <2>4. QED
    BY <1>19, <2>2, <2>3 DEF DeleteProject, BeingPaused
<1>20. CASE WorkerGet
  BY <1>20 DEF WorkerGet, Executing, BeingPaused, TypeOK, PauseStops
<1>21. CASE WorkerSkip
  BY <1>21 DEF WorkerSkip, NextTask, Executing, BeingPaused, TypeOK, PauseStops
<1>22. CASE WorkerDefer
  BY <1>22 DEF WorkerDefer, NextTask, Executing, BeingPaused, TypeOK, PauseStops
<1>23. CASE WorkerDispatch
  BY <1>23 DEF WorkerDispatch, Executing, BeingPaused, TypeOK, PauseStops
<1>24. CASE WorkerCollect
  BY <1>24 DEF WorkerCollect, NextTask, Executing, BeingPaused, TypeOK, PauseStops
<1>25. CASE RunLoad
  BY <1>25 DEF RunLoad, RunFrame, Executing, BeingPaused, TypeOK, PauseStops
<1>26. CASE RunStart
  BY <1>26 DEF RunStart, RunFrame, RunWrite, Store, Gone, Executing, BeingPaused, TypeOK, PauseStops
<1>27. CASE RunDone
  BY <1>27 DEF RunDone, RunFrame, RunWrite, Store, Gone, Executing, BeingPaused, TypeOK, PauseStops
<1>28. CASE RunFailed
  BY <1>28 DEF RunFailed, RunFrame, RunWrite, Store, Gone, Executing, BeingPaused, TypeOK, PauseStops
<1>29. CASE RunReturn
  BY <1>29 DEF RunReturn, RunFrame, Executing, BeingPaused, TypeOK, PauseStops
<1>30. CASE RunCancelled
  BY <1>30 DEF RunCancelled, RunFrame, Executing, BeingPaused, TypeOK, PauseStops
<1>31. CASE RunUnwind
  BY <1>31 DEF RunUnwind, RunFrame, Store, Gone, Executing, BeingPaused, TypeOK, PauseStops
<1>32. CASE RunUnwindFails
  BY <1>32 DEF RunUnwindFails, RunFrame, Executing, BeingPaused, TypeOK, PauseStops
<1>33. CASE Startup
  BY <1>33 DEF Startup, Executing, BeingPaused, TypeOK, PauseStops
<1>34. CASE Shutdown
  BY <1>34 DEF Shutdown, Executing, BeingPaused, TypeOK, PauseStops
<1>35. CASE Exit
  BY <1>35 DEF Exit, Executing, BeingPaused, TypeOK, PauseStops
<1>36. CASE UNCHANGED vars
  BY <1>36 DEF vars, Executing, BeingPaused, PauseStops
<1>37. QED
  BY <1>1, <1>2, <1>3, <1>4, <1>5, <1>6, <1>7, <1>8, <1>9, <1>10, <1>11, <1>12, <1>13, <1>14,
     <1>15, <1>16, <1>17, <1>18, <1>19, <1>20, <1>21, <1>22, <1>23, <1>24, <1>25, <1>26, <1>27, <1>28,
     <1>29, <1>30, <1>31, <1>32, <1>33, <1>34, <1>35, <1>36
  DEF Next, RequestStart, RequestStep, Worker, Run

\* Once a pause has returned, and until a resume, nothing of the project is being
\* translated.
THEOREM PauseHolds == Spec => []PauseStops
<1>1. Init => PauseStops
  BY DEF Init, PauseStops
<1>2. TypeOK /\ PauseStops /\ [Next]_vars => PauseStops'
  BY PauseStep
<1>3. QED
  BY <1>1, <1>2, TypeCorrect, PTL DEF Spec

-----------------------------------------------------------------------------
(* No queued task is forgotten.                                           *)

\* What is parked stays parked when an action only adds to the queue or to a
\* deferred list.
LEMMA ParkedGrows ==
    ASSUME Range(queue) \subseteq Range(queue'),
           \A p \in Projects : Range(deferred[p]) \subseteq Range(deferred'[p])
    PROVE  \A t \in Tasks : Parked(t) => Parked(t)'
BY DEF Parked

LEMMA DeferredGrows ==
    ASSUME TypeOK, NEW p \in Projects, NEW e \in TaskIds,
           deferred' = [deferred EXCEPT ![p] = Append(@, e)], UNCHANGED queue
    PROVE  (\A t \in Tasks : Parked(t) => Parked(t)') /\ Parked(e)'
<1>1. deferred \in [Projects -> Seq(TaskIds)]
  BY DEF TypeOK
<1>2. Range(Append(deferred[p], e)) = Range(deferred[p]) \cup {e}
  BY <1>1, RangeAppend
<1>3. \A i \in Projects : deferred'[i] = IF i = p THEN Append(deferred[p], e) ELSE deferred[i]
  BY <1>1
<1>4. \A i \in Projects : Range(deferred[i]) \subseteq Range(deferred'[i])
  BY <1>2, <1>3
<1>5. e \in Range(deferred'[p])
  BY <1>2, <1>3
<1>6. QED
  BY <1>4, <1>5, ParkedGrows DEF Parked

LEMMA QueueGrows ==
    ASSUME TypeOK, NEW s \in Seq(TaskIds), queue' = queue \o s, UNCHANGED deferred
    PROVE  /\ \A t \in Tasks : Parked(t) => Parked(t)'
           /\ \A t \in Range(s) : Parked(t)'
<1>1. queue \in Seq(TaskIds)
  BY DEF TypeOK
<1>2. Range(queue') = Range(queue) \cup Range(s)
  BY <1>1, RangeConcat
<1>3. QED
  BY <1>2, ParkedGrows DEF Parked

LEMMA ScheduleParks ==
    ASSUME TypeOK, ScheduledIsQueued, NEW r \in Requests, ScheduleTask(r)
    PROVE  \A t \in Tasks : Parked(t) \/ t = req[r].task => Parked(t)'
<1>1. queue \in Seq(TaskIds) /\ req[r].task \in TaskIds
  BY DEF TypeOK, RequestsOK, RequestOK, RequestRecord
<1>2. CASE req[r].task \in scheduled /\ UNCHANGED queue
  BY <1>2 DEF ScheduleTask, ScheduledIsQueued, Parked
<1>3. CASE queue' = Append(queue, req[r].task)
  <2>1. Range(queue') = Range(queue) \cup {req[r].task}
    BY <1>1, <1>3, RangeAppend
  <2>2. QED
    BY <2>1, ParkedGrows DEF ScheduleTask, Parked
<1>4. QED
  BY <1>2, <1>3 DEF ScheduleTask

LEMMA PauseApplyParks ==
    ASSUME TypeOK, NEW r \in Requests, PauseApply(r)
    PROVE  /\ \A t \in Tasks : Parked(t) => Parked(t)'
           /\ UNCHANGED signalled \/ \A t \in Tasks : t = hand => Parked(t)'
<1>1. UNCHANGED queue
  BY DEF PauseApply
<1>2. CASE UNCHANGED <<deferred, signalled>>
  BY <1>1, <1>2 DEF Parked
<1>3. CASE /\ deferred' = [deferred EXCEPT ![req[r].project] = Append(@, CurrentTask)]
           /\ IF CurrentTask # None THEN CancelExecution ELSE UNCHANGED signalled
  <2>1. req[r].project \in Projects
    BY DEF PauseApply, At, TypeOK, RequestsOK, RequestOK, HasProject
  <2>2. CurrentTask \in TaskIds
    BY DEF CurrentTask, TypeOK, TaskIds
  <2>3. \A t \in Tasks : Parked(t) \/ t = CurrentTask => Parked(t)'
    BY <1>1, <1>3, <2>1, <2>2, DeferredGrows
  <2>4. UNCHANGED signalled \/ CurrentTask = hand
    BY <1>3 DEF CurrentTask
  <2>5. QED
    BY <2>3, <2>4
<1>4. QED
  BY <1>2, <1>3 DEF PauseApply

LEMMA ResumeMemoryParks ==
    ASSUME TypeOK, NEW r \in Requests, ResumeMemory(r)
    PROVE  \A t \in Tasks : Parked(t) => Parked(t)'
<1> DEFINE p == req[r].project
<1>1. queue \in Seq(TaskIds) /\ deferred \in [Projects -> Seq(TaskIds)] /\ p \in Projects
  BY DEF ResumeMemory, At, TypeOK, RequestsOK, RequestOK, HasProject
<1>2. Range(queue') = Range(queue) \cup Range(deferred[p])
  <2>1. deferred[p] \in Seq(TaskIds) /\ queue' = queue \o deferred[p]
    BY <1>1 DEF ResumeMemory
  <2>2. QED
    BY <1>1, <2>1, RangeConcat
<1>3. \A i \in Projects : i # p => deferred'[i] = deferred[i]
  BY <1>1 DEF ResumeMemory
<1>4. QED
  BY <1>2, <1>3 DEF Parked

LEMMA ResumeScanParks ==
    ASSUME TypeOK, NEW r \in Requests, ResumeScan(r)
    PROVE  /\ \A t \in Tasks : Parked(t) => Parked(t)'
           /\ \A t \in ScanResult(req[r].project, req[r].keys) : Parked(t)'
<1> DEFINE found == ScanResult(req[r].project, req[r].keys)
<1>1. PICK ids \in Orderings(found) : queue' = queue \o ids
  BY DEF ResumeScan
<1>2. ids \in Seq(TaskIds) /\ Range(ids) = found
  BY <1>1, OrderingsList DEF ScanResult, Unscheduled
<1>3. UNCHANGED deferred
  BY DEF ResumeScan
<1>4. QED
  BY <1>1, <1>2, <1>3, QueueGrows

LEMMA WorkerDeferParks ==
    ASSUME TypeOK, WorkerDefer
    PROVE  \A t \in Tasks : Parked(t) \/ t = hand => Parked(t)'
<1>1. hand \in TaskIds /\ project[hand] \in Projects
  BY DEF WorkerDefer, TypeOK
<1>2. QED
  BY <1>1, DeferredGrows DEF WorkerDefer

LEMMA SlotStep ==
    ASSUME RequestsOK, NEW r \in Requests, NEW pc, Finish(r) \/ Goto(r, pc)
    PROVE  /\ \A i \in Requests : i # r => req'[i] = req[i]
           /\ \/ req'[r] = Idle
              \/ req'[r].pc = pc /\ req'[r].task = req[r].task
BY DEF RequestsOK, RequestRecord, Finish, Goto

\* cancel_task is reached only for tasks a user asked to cancel.
LEMMA AskedStep ==
    TypeOK /\ CancelsAreAsked /\ [Next]_vars => CancelsAreAsked'
<1> SUFFICES ASSUME TypeOK, CancelsAreAsked, [Next]_vars
             PROVE  CancelsAreAsked'
  OBVIOUS
<1> USE DEF dbVars, memVars, workVars, history
<1>1. ASSUME NEW r \in Requests, NEW t \in Tasks, CreateTask(r, t) PROVE CancelsAreAsked'
  BY <1>1 DEF CreateTask, StartOn, RequestsOK, Idle, TypeOK, CancelsAreAsked
<1>2. ASSUME NEW r \in Requests, NEW t \in Tasks, RetryRead(r, t) PROVE CancelsAreAsked'
  BY <1>2 DEF RetryRead, StartOn, RequestsOK, Idle, TypeOK, CancelsAreAsked
<1>3. ASSUME NEW r \in Requests, NEW t \in Tasks, CancelRead(r, t) PROVE CancelsAreAsked'
  BY <1>3 DEF CancelRead, StartOn, RequestsOK, Idle, TypeOK, CancelsAreAsked
<1>4. ASSUME NEW r \in Requests, NEW t \in Tasks, DeleteRead(r, t) PROVE CancelsAreAsked'
  BY <1>4 DEF DeleteRead, StartOn, RequestsOK, Idle, TypeOK, CancelsAreAsked
<1>5. ASSUME NEW r \in Requests, NEW t \in Tasks, PublishRead(r, t) PROVE CancelsAreAsked'
  BY <1>5 DEF PublishRead, StartOn, RequestsOK, Idle, TypeOK, CancelsAreAsked
<1>6. ASSUME NEW r \in Requests, NEW p \in Projects, PauseProject(r, p) PROVE CancelsAreAsked'
  BY <1>6 DEF PauseProject, StartOnProject, RequestsOK, Idle, TypeOK, CancelsAreAsked
<1>7. ASSUME NEW r \in Requests, NEW p \in Projects, ResumeProject(r, p) PROVE CancelsAreAsked'
  BY <1>7 DEF ResumeProject, StartOnProject, RequestsOK, Idle, TypeOK, CancelsAreAsked
<1>8. ASSUME NEW r \in Requests, ScheduleTask(r) PROVE CancelsAreAsked'
  BY <1>8 DEF ScheduleTask, At, RequestsOK, Finish, Goto, Idle, TypeOK, CancelsAreAsked
<1>9. ASSUME NEW r \in Requests, RetryWrite(r) PROVE CancelsAreAsked'
  <2>1. /\ \A i \in Requests : i # r => req'[i] = req[i]
        /\ req'[r].pc \in {"idle", "schedule"}
    BY <1>9, SlotStep DEF RetryWrite, Idle, TypeOK
  <2>2. QED
    BY <1>9, <2>1 DEF RetryWrite, CancelsAreAsked
<1>10. ASSUME NEW r \in Requests, CancelWrite(r) PROVE CancelsAreAsked'
  <2>1. Finish(r) \/ Goto(r, "cancelSignal")
    BY <1>10 DEF CancelWrite
  <2>2. /\ \A i \in Requests : i # r => req'[i] = req[i]
        /\ req'[r] = Idle \/ req'[r].task = req[r].task
    BY <2>1, SlotStep DEF TypeOK
  <2>3. asked \subseteq asked' /\ (Finish(r) \/ req[r].task \in asked')
    BY <1>10 DEF CancelWrite
  <2>4. Finish(r) => req'[r] = Idle
    BY DEF Finish, TypeOK, RequestsOK
  <2>5. QED
    BY <2>2, <2>3, <2>4 DEF CancelsAreAsked, Idle
<1>11. ASSUME NEW r \in Requests, CancelSignal(r) PROVE CancelsAreAsked'
  BY <1>11 DEF CancelSignal, At, RequestsOK, Finish, Goto, Idle, TypeOK, CancelsAreAsked
<1>12. ASSUME NEW r \in Requests, DeleteWrite(r) PROVE CancelsAreAsked'
  BY <1>12 DEF DeleteWrite, Store, At, RequestsOK, Finish, Goto, Idle, TypeOK, CancelsAreAsked
<1>13. ASSUME NEW r \in Requests, PublishWrite(r) PROVE CancelsAreAsked'
  BY <1>13 DEF PublishWrite, Store, Gone, At, RequestsOK, Finish, Goto, Idle, TypeOK, CancelsAreAsked
<1>14. ASSUME NEW r \in Requests, PauseMemory(r) PROVE CancelsAreAsked'
  <2>1. \A i \in Requests : req'[i].pc = "cancelSignal" => req'[i] = req[i]
    BY <1>14 DEF PauseMemory, Finish, Idle, TypeOK, RequestsOK, RequestRecord
  <2>2. QED
    BY <1>14, <2>1 DEF PauseMemory, CancelsAreAsked
<1>15. ASSUME NEW r \in Requests, PauseApply(r) PROVE CancelsAreAsked'
  BY <1>15 DEF PauseApply, At, RequestsOK, Finish, Goto, Idle, TypeOK, CancelsAreAsked
<1>16. ASSUME NEW r \in Requests, ResumeMemory(r) PROVE CancelsAreAsked'
  BY <1>16 DEF ResumeMemory, At, RequestsOK, Finish, Goto, Idle, TypeOK, CancelsAreAsked
<1>17. ASSUME NEW r \in Requests, ResumeScan(r) PROVE CancelsAreAsked'
  BY <1>17 DEF ResumeScan, At, RequestsOK, Finish, Goto, Idle, TypeOK, CancelsAreAsked
<1>18. ASSUME NEW p \in Projects, PatchPaused(p) PROVE CancelsAreAsked'
  BY <1>18 DEF PatchPaused, RequestsOK, TypeOK, CancelsAreAsked
<1>19. ASSUME NEW p \in Projects, DeleteProject(p) PROVE CancelsAreAsked'
  BY <1>19 DEF DeleteProject, RequestsOK, TypeOK, CancelsAreAsked
<1>20. CASE WorkerGet
  BY <1>20 DEF WorkerGet, TypeOK, CancelsAreAsked
<1>21. CASE WorkerSkip
  BY <1>21 DEF WorkerSkip, NextTask, TypeOK, CancelsAreAsked
<1>22. CASE WorkerDefer
  BY <1>22 DEF WorkerDefer, NextTask, TypeOK, CancelsAreAsked
<1>23. CASE WorkerDispatch
  BY <1>23 DEF WorkerDispatch, TypeOK, CancelsAreAsked
<1>24. CASE WorkerCollect
  BY <1>24 DEF WorkerCollect, NextTask, TypeOK, CancelsAreAsked
<1>25. CASE RunLoad
  BY <1>25 DEF RunLoad, RunFrame, TypeOK, CancelsAreAsked
<1>26. CASE RunStart
  BY <1>26 DEF RunStart, RunFrame, RunWrite, Store, Gone, TypeOK, CancelsAreAsked
<1>27. CASE RunDone
  BY <1>27 DEF RunDone, RunFrame, RunWrite, Store, Gone, TypeOK, CancelsAreAsked
<1>28. CASE RunFailed
  BY <1>28 DEF RunFailed, RunFrame, RunWrite, Store, Gone, TypeOK, CancelsAreAsked
<1>29. CASE RunReturn
  BY <1>29 DEF RunReturn, RunFrame, TypeOK, CancelsAreAsked
<1>30. CASE RunCancelled
  BY <1>30 DEF RunCancelled, RunFrame, TypeOK, CancelsAreAsked
<1>31. CASE RunUnwind
  BY <1>31 DEF RunUnwind, RunFrame, Store, Gone, TypeOK, CancelsAreAsked
<1>32. CASE RunUnwindFails
  BY <1>32 DEF RunUnwindFails, RunFrame, TypeOK, CancelsAreAsked
<1>33. CASE Startup
  BY <1>33 DEF Startup, TypeOK, CancelsAreAsked
<1>34. CASE Shutdown
  BY <1>34 DEF Shutdown, TypeOK, CancelsAreAsked
<1>35. CASE Exit
  BY <1>35 DEF Exit, Idle, TypeOK, CancelsAreAsked
<1>36. CASE UNCHANGED vars
  BY <1>36 DEF vars, CancelsAreAsked
<1>37. QED
  BY <1>1, <1>2, <1>3, <1>4, <1>5, <1>6, <1>7, <1>8, <1>9, <1>10, <1>11, <1>12, <1>13, <1>14,
     <1>15, <1>16, <1>17, <1>18, <1>19, <1>20, <1>21, <1>22, <1>23, <1>24, <1>25, <1>26, <1>27, <1>28,
     <1>29, <1>30, <1>31, <1>32, <1>33, <1>34, <1>35, <1>36
  DEF Next, RequestStart, RequestStep, Worker, Run

\* An execution that is told to stop, by a pause, is parked before it is told.
LEMMA SignalStep ==
    TypeOK /\ ScheduledIsQueued /\ CancelsAreAsked /\ SignalledIsParked /\ [Next]_vars => SignalledIsParked'
<1> SUFFICES ASSUME TypeOK, ScheduledIsQueued, CancelsAreAsked, SignalledIsParked, [Next]_vars
             PROVE  SignalledIsParked'
  OBVIOUS
<1> USE DEF dbVars, memVars, workVars, history
<1>1. ASSUME NEW r \in Requests, NEW t \in Tasks, CreateTask(r, t) PROVE SignalledIsParked'
  <2>1. \A i \in Tasks : Parked(i)' <=> Parked(i)
    BY <1>1 DEF CreateTask, Parked
  <2>2. QED
    BY <1>1, <2>1 DEF CreateTask, TypeOK, SignalledIsParked, StartOn
<1>2. ASSUME NEW r \in Requests, NEW t \in Tasks, RetryRead(r, t) PROVE SignalledIsParked'
  <2>1. \A i \in Tasks : Parked(i)' <=> Parked(i)
    BY <1>2 DEF RetryRead, Parked
  <2>2. QED
    BY <1>2, <2>1 DEF RetryRead, TypeOK, SignalledIsParked, StartOn
<1>3. ASSUME NEW r \in Requests, NEW t \in Tasks, CancelRead(r, t) PROVE SignalledIsParked'
  <2>1. \A i \in Tasks : Parked(i)' <=> Parked(i)
    BY <1>3 DEF CancelRead, Parked
  <2>2. QED
    BY <1>3, <2>1 DEF CancelRead, TypeOK, SignalledIsParked, StartOn
<1>4. ASSUME NEW r \in Requests, NEW t \in Tasks, DeleteRead(r, t) PROVE SignalledIsParked'
  <2>1. \A i \in Tasks : Parked(i)' <=> Parked(i)
    BY <1>4 DEF DeleteRead, Parked
  <2>2. QED
    BY <1>4, <2>1 DEF DeleteRead, TypeOK, SignalledIsParked, StartOn
<1>5. ASSUME NEW r \in Requests, NEW t \in Tasks, PublishRead(r, t) PROVE SignalledIsParked'
  <2>1. \A i \in Tasks : Parked(i)' <=> Parked(i)
    BY <1>5 DEF PublishRead, Parked
  <2>2. QED
    BY <1>5, <2>1 DEF PublishRead, TypeOK, SignalledIsParked, StartOn
<1>6. ASSUME NEW r \in Requests, NEW p \in Projects, PauseProject(r, p) PROVE SignalledIsParked'
  <2>1. \A i \in Tasks : Parked(i)' <=> Parked(i)
    BY <1>6 DEF PauseProject, Parked
  <2>2. QED
    BY <1>6, <2>1 DEF PauseProject, TypeOK, SignalledIsParked, StartOnProject
<1>7. ASSUME NEW r \in Requests, NEW p \in Projects, ResumeProject(r, p) PROVE SignalledIsParked'
  <2>1. \A i \in Tasks : Parked(i)' <=> Parked(i)
    BY <1>7 DEF ResumeProject, Parked
  <2>2. QED
    BY <1>7, <2>1 DEF ResumeProject, TypeOK, SignalledIsParked, StartOnProject
<1>8. ASSUME NEW r \in Requests, ScheduleTask(r) PROVE SignalledIsParked'
  <2>1. \A t \in Tasks : Parked(t) => Parked(t)'
    BY <1>8, ScheduleParks
  <2>2. QED
    BY <1>8, <2>1 DEF ScheduleTask, TypeOK, SignalledIsParked
<1>9. ASSUME NEW r \in Requests, RetryWrite(r) PROVE SignalledIsParked'
  <2>1. \A i \in Tasks : Parked(i)' <=> Parked(i)
    BY <1>9 DEF RetryWrite, Parked
  <2>2. QED
    BY <1>9, <2>1 DEF RetryWrite, TypeOK, SignalledIsParked
<1>10. ASSUME NEW r \in Requests, CancelWrite(r) PROVE SignalledIsParked'
  <2>1. \A i \in Tasks : Parked(i)' <=> Parked(i)
    BY <1>10 DEF CancelWrite, Parked
  <2>2. QED
    BY <1>10, <2>1 DEF CancelWrite, TypeOK, SignalledIsParked
<1>11. ASSUME NEW r \in Requests, CancelSignal(r) PROVE SignalledIsParked'
  <2>1. \A t \in Tasks : Parked(t)' <=> Parked(t)
    BY <1>11 DEF CancelSignal, Parked
  <2>2. CASE CurrentTask = req[r].task
    <3>1. hand \in asked
      BY <1>11, <2>2, ConstantsAssumption
         DEF CancelSignal, At, CurrentTask, CancelsAreAsked, TypeOK, RequestsOK, RequestOK,
             HasTask, ConstantsAssumption
    <3>2. QED
      BY <1>11, <3>1 DEF CancelSignal, SignalledIsParked
  <2>3. CASE CurrentTask # req[r].task
    BY <1>11, <2>1, <2>3 DEF CancelSignal, TypeOK, SignalledIsParked
  <2>4. QED
    BY <2>2, <2>3
<1>12. ASSUME NEW r \in Requests, DeleteWrite(r) PROVE SignalledIsParked'
  <2>1. \A i \in Tasks : Parked(i)' <=> Parked(i)
    BY <1>12 DEF DeleteWrite, Parked
  <2>2. QED
    BY <1>12, <2>1 DEF DeleteWrite, TypeOK, SignalledIsParked
<1>13. ASSUME NEW r \in Requests, PublishWrite(r) PROVE SignalledIsParked'
  <2>1. \A i \in Tasks : Parked(i)' <=> Parked(i)
    BY <1>13 DEF PublishWrite, Parked
  <2>2. QED
    BY <1>13, <2>1 DEF PublishWrite, TypeOK, SignalledIsParked
<1>14. ASSUME NEW r \in Requests, PauseMemory(r) PROVE SignalledIsParked'
  <2>1. \A i \in Tasks : Parked(i)' <=> Parked(i)
    BY <1>14 DEF PauseMemory, Parked
  <2>2. QED
    BY <1>14, <2>1 DEF PauseMemory, TypeOK, SignalledIsParked
<1>15. ASSUME NEW r \in Requests, PauseApply(r) PROVE SignalledIsParked'
  <2>1. /\ \A t \in Tasks : Parked(t) => Parked(t)'
        /\ UNCHANGED signalled \/ \A t \in Tasks : t = hand => Parked(t)'
    BY <1>15, PauseApplyParks
  <2>2. hand' = hand /\ UNCHANGED <<server, rpc, asked>>
    BY <1>15 DEF PauseApply
  <2>3. CASE UNCHANGED signalled
    BY <2>1, <2>2, <2>3 DEF TypeOK, SignalledIsParked
  <2>4. CASE \A t \in Tasks : t = hand => Parked(t)'
    <3>1. signalled' \/ rpc \in {"toQueued", "toCancelled"} => hand \in Tasks
      BY <1>15, ConstantsAssumption
         DEF PauseApply, CancelExecution, CurrentTask, TypeOK, ConstantsAssumption, TaskIds
    <3>2. QED
      BY <2>2, <2>4, <3>1 DEF SignalledIsParked
  <2>5. QED
    BY <2>1, <2>3, <2>4
<1>16. ASSUME NEW r \in Requests, ResumeMemory(r) PROVE SignalledIsParked'
  <2>1. \A t \in Tasks : Parked(t) => Parked(t)'
    BY <1>16, ResumeMemoryParks
  <2>2. QED
    BY <1>16, <2>1 DEF ResumeMemory, TypeOK, SignalledIsParked
<1>17. ASSUME NEW r \in Requests, ResumeScan(r) PROVE SignalledIsParked'
  <2>1. \A t \in Tasks : Parked(t) => Parked(t)'
    BY <1>17, ResumeScanParks
  <2>2. QED
    BY <1>17, <2>1 DEF ResumeScan, TypeOK, SignalledIsParked
<1>18. ASSUME NEW p \in Projects, PatchPaused(p) PROVE SignalledIsParked'
  <2>1. \A i \in Tasks : Parked(i)' <=> Parked(i)
    BY <1>18 DEF PatchPaused, Parked
  <2>2. QED
    BY <1>18, <2>1 DEF PatchPaused, TypeOK, SignalledIsParked
<1>19. ASSUME NEW p \in Projects, DeleteProject(p) PROVE SignalledIsParked'
  <2>1. \A i \in Tasks : Parked(i)' <=> Parked(i)
    BY <1>19 DEF DeleteProject, Parked
  <2>2. QED
    BY <1>19, <2>1 DEF DeleteProject, TypeOK, SignalledIsParked
<1>20. CASE WorkerGet
  BY <1>20 DEF WorkerGet, TypeOK, SignalledIsParked
<1>21. CASE WorkerSkip
  BY <1>21 DEF WorkerSkip, TypeOK, SignalledIsParked, NextTask
<1>22. CASE WorkerDefer
  BY <1>22 DEF WorkerDefer, TypeOK, SignalledIsParked, NextTask
<1>23. CASE WorkerDispatch
  BY <1>23 DEF WorkerDispatch, TypeOK, SignalledIsParked
<1>24. CASE WorkerCollect
  BY <1>24 DEF WorkerCollect, TypeOK, SignalledIsParked, NextTask
<1>25. CASE RunLoad
  <2>1. \A i \in Tasks : Parked(i)' <=> Parked(i)
    BY <1>25 DEF RunLoad, Parked, RunFrame
  <2>2. QED
    BY <1>25, <2>1 DEF RunLoad, TypeOK, SignalledIsParked, RunFrame
<1>26. CASE RunStart
  <2>1. \A i \in Tasks : Parked(i)' <=> Parked(i)
    BY <1>26 DEF RunStart, Parked, RunFrame, RunWrite
  <2>2. QED
    BY <1>26, <2>1 DEF RunStart, TypeOK, SignalledIsParked, RunFrame, RunWrite
<1>27. CASE RunDone
  <2>1. \A i \in Tasks : Parked(i)' <=> Parked(i)
    BY <1>27 DEF RunDone, Parked, RunFrame, RunWrite
  <2>2. QED
    BY <1>27, <2>1 DEF RunDone, TypeOK, SignalledIsParked, RunFrame, RunWrite
<1>28. CASE RunFailed
  <2>1. \A i \in Tasks : Parked(i)' <=> Parked(i)
    BY <1>28 DEF RunFailed, Parked, RunFrame, RunWrite
  <2>2. QED
    BY <1>28, <2>1 DEF RunFailed, TypeOK, SignalledIsParked, RunFrame, RunWrite
<1>29. CASE RunReturn
  <2>1. \A i \in Tasks : Parked(i)' <=> Parked(i)
    BY <1>29 DEF RunReturn, Parked, RunFrame
  <2>2. QED
    BY <1>29, <2>1 DEF RunReturn, TypeOK, SignalledIsParked, RunFrame
<1>30. CASE RunCancelled
  <2>1. \A i \in Tasks : Parked(i)' <=> Parked(i)
    BY <1>30 DEF RunCancelled, Parked, RunFrame
  <2>2. QED
    BY <1>30, <2>1 DEF RunCancelled, TypeOK, SignalledIsParked, RunFrame
<1>31. CASE RunUnwind
  <2>1. \A i \in Tasks : Parked(i)' <=> Parked(i)
    BY <1>31 DEF RunUnwind, Parked, RunFrame
  <2>2. QED
    BY <1>31, <2>1 DEF RunUnwind, TypeOK, SignalledIsParked, RunFrame
<1>32. CASE RunUnwindFails
  <2>1. \A i \in Tasks : Parked(i)' <=> Parked(i)
    BY <1>32 DEF RunUnwindFails, Parked, RunFrame
  <2>2. QED
    BY <1>32, <2>1 DEF RunUnwindFails, TypeOK, SignalledIsParked, RunFrame
<1>33. CASE Startup
  BY <1>33 DEF Startup, TypeOK, SignalledIsParked
<1>34. CASE Shutdown
  BY <1>34 DEF Shutdown, TypeOK, SignalledIsParked
<1>35. CASE Exit
  BY <1>35 DEF Exit, TypeOK, SignalledIsParked
<1>36. CASE UNCHANGED vars
  <2>1. \A t \in Tasks : Parked(t)' <=> Parked(t)
    BY <1>36 DEF vars, Parked
  <2>2. QED
    BY <1>36, <2>1 DEF vars, TypeOK, SignalledIsParked
<1>37. QED
  BY <1>1, <1>2, <1>3, <1>4, <1>5, <1>6, <1>7, <1>8, <1>9, <1>10, <1>11, <1>12, <1>13, <1>14,
     <1>15, <1>16, <1>17, <1>18, <1>19, <1>20, <1>21, <1>22, <1>23, <1>24, <1>25, <1>26, <1>27, <1>28,
     <1>29, <1>30, <1>31, <1>32, <1>33, <1>34, <1>35, <1>36
  DEF Next, RequestStart, RequestStep, Worker, Run

\* The slots of the requests that still owe a task its place are untouched.
SlotsKept ==
    \A i \in Requests : req[i].pc \in {"schedule", "resumeScan"} => req'[i] = req[i]

LEMMA TrackedKept ==
    ASSUME NEW u \in Tasks, SlotsKept, Parked(u) => Parked(u)',
           project'[u] = project[u], pausedMem \subseteq pausedMem', TrackedElsewhere(u)
    PROVE  TrackedElsewhere(u)'
<1>1. CASE Parked(u)
  BY <1>1 DEF TrackedElsewhere
<1>2. CASE \E r \in Requests : req[r].pc = "schedule" /\ req[r].task = u
  BY <1>2 DEF TrackedElsewhere, SlotsKept
<1>3. CASE AwaitsScan(u)
  BY <1>3 DEF TrackedElsewhere, AwaitsScan, SlotsKept
<1>4. QED
  BY <1>1, <1>2, <1>3 DEF TrackedElsewhere

LEMMA HeldKept ==
    ASSUME NEW u \in Tasks, SlotsKept, Parked(u) => Parked(u)',
           project'[u] = project[u], pausedMem \subseteq pausedMem',
           asked \subseteq asked', missed \subseteq missed',
           UNCHANGED <<hand, wpc, rpc>>, Held(u)
    PROVE  Held(u)'
BY TrackedKept DEF Held

\* Whatever a step does to the place where a queued task waits, it leaves the task
\* a place: the queue, a deferred list, a request, or the worker's hand.
LEMMA HeldStep ==
    TypeOK /\ ScheduledIsQueued /\ ScheduledIsQueued' /\ SignalledIsParked /\ QueuedIsHeld /\ [Next]_vars => QueuedIsHeld'
<1> SUFFICES ASSUME TypeOK, ScheduledIsQueued, ScheduledIsQueued', SignalledIsParked, QueuedIsHeld, [Next]_vars
             PROVE  QueuedIsHeld'
  OBVIOUS
<1> USE DEF dbVars, memVars, workVars, history
<1>1. ASSUME NEW r \in Requests, NEW t \in Tasks, CreateTask(r, t) PROVE QueuedIsHeld'
  <2>1. SUFFICES ASSUME server' = "up", NEW u \in Tasks, status'[u] = "queued"
                  PROVE  Held(u)'
    BY DEF QueuedIsHeld
  <2>2. CASE u = t
    <3>1. req'[r].pc = "schedule" /\ req'[r].task = u
      BY <1>1, <2>2 DEF CreateTask, StartOn, Idle, TypeOK, RequestsOK
    <3>2. QED
      BY <3>1 DEF Held, TrackedElsewhere
  <2>3. CASE u # t
    <3>1. /\ server = "up" /\ status[u] = "queued" /\ UNCHANGED <<hand, wpc, rpc>>
          /\ project'[u] = project[u] /\ pausedMem \subseteq pausedMem'
          /\ asked \subseteq asked' /\ missed \subseteq missed'
      BY <1>1, <2>1, <2>3 DEF CreateTask, StartOn, Store, TypeOK
    <3>2. SlotsKept
      BY <1>1 DEF CreateTask, StartOn, SlotsKept, TypeOK, RequestsOK, Idle
    <3>3. Parked(u) => Parked(u)'
      BY <1>1 DEF CreateTask, Parked
    <3>4. QED
      BY <3>1, <3>2, <3>3, HeldKept DEF QueuedIsHeld
  <2>4. QED
    BY <2>2, <2>3
<1>2. ASSUME NEW r \in Requests, NEW t \in Tasks, RetryRead(r, t) PROVE QueuedIsHeld'
  <2>1. SUFFICES ASSUME server' = "up", NEW u \in Tasks, status'[u] = "queued"
                  PROVE  Held(u)'
    BY DEF QueuedIsHeld
  <2>2. /\ server = "up" /\ status[u] = "queued" /\ UNCHANGED <<hand, wpc, rpc>>
        /\ project'[u] = project[u] /\ pausedMem \subseteq pausedMem'
        /\ asked \subseteq asked' /\ missed \subseteq missed'
    BY <1>2, <2>1 DEF RetryRead, StartOn, TypeOK
  <2>3. SlotsKept
    BY <1>2 DEF RetryRead, StartOn, SlotsKept, TypeOK, RequestsOK, Idle
  <2>4. Parked(u) => Parked(u)'
    BY <1>2 DEF RetryRead, StartOn, Parked
  <2>5. QED
    BY <2>2, <2>3, <2>4, HeldKept DEF QueuedIsHeld
<1>3. ASSUME NEW r \in Requests, NEW t \in Tasks, CancelRead(r, t) PROVE QueuedIsHeld'
  <2>1. SUFFICES ASSUME server' = "up", NEW u \in Tasks, status'[u] = "queued"
                  PROVE  Held(u)'
    BY DEF QueuedIsHeld
  <2>2. /\ server = "up" /\ status[u] = "queued" /\ UNCHANGED <<hand, wpc, rpc>>
        /\ project'[u] = project[u] /\ pausedMem \subseteq pausedMem'
        /\ asked \subseteq asked' /\ missed \subseteq missed'
    BY <1>3, <2>1 DEF CancelRead, StartOn, TypeOK
  <2>3. SlotsKept
    BY <1>3 DEF CancelRead, StartOn, SlotsKept, TypeOK, RequestsOK, Idle
  <2>4. Parked(u) => Parked(u)'
    BY <1>3 DEF CancelRead, StartOn, Parked
  <2>5. QED
    BY <2>2, <2>3, <2>4, HeldKept DEF QueuedIsHeld
<1>4. ASSUME NEW r \in Requests, NEW t \in Tasks, DeleteRead(r, t) PROVE QueuedIsHeld'
  <2>1. SUFFICES ASSUME server' = "up", NEW u \in Tasks, status'[u] = "queued"
                  PROVE  Held(u)'
    BY DEF QueuedIsHeld
  <2>2. /\ server = "up" /\ status[u] = "queued" /\ UNCHANGED <<hand, wpc, rpc>>
        /\ project'[u] = project[u] /\ pausedMem \subseteq pausedMem'
        /\ asked \subseteq asked' /\ missed \subseteq missed'
    BY <1>4, <2>1 DEF DeleteRead, StartOn, TypeOK
  <2>3. SlotsKept
    BY <1>4 DEF DeleteRead, StartOn, SlotsKept, TypeOK, RequestsOK, Idle
  <2>4. Parked(u) => Parked(u)'
    BY <1>4 DEF DeleteRead, StartOn, Parked
  <2>5. QED
    BY <2>2, <2>3, <2>4, HeldKept DEF QueuedIsHeld
<1>5. ASSUME NEW r \in Requests, NEW t \in Tasks, PublishRead(r, t) PROVE QueuedIsHeld'
  <2>1. SUFFICES ASSUME server' = "up", NEW u \in Tasks, status'[u] = "queued"
                  PROVE  Held(u)'
    BY DEF QueuedIsHeld
  <2>2. /\ server = "up" /\ status[u] = "queued" /\ UNCHANGED <<hand, wpc, rpc>>
        /\ project'[u] = project[u] /\ pausedMem \subseteq pausedMem'
        /\ asked \subseteq asked' /\ missed \subseteq missed'
    BY <1>5, <2>1 DEF PublishRead, StartOn, TypeOK
  <2>3. SlotsKept
    BY <1>5 DEF PublishRead, StartOn, SlotsKept, TypeOK, RequestsOK, Idle
  <2>4. Parked(u) => Parked(u)'
    BY <1>5 DEF PublishRead, StartOn, Parked
  <2>5. QED
    BY <2>2, <2>3, <2>4, HeldKept DEF QueuedIsHeld
<1>6. ASSUME NEW r \in Requests, NEW p \in Projects, PauseProject(r, p) PROVE QueuedIsHeld'
  <2>1. SUFFICES ASSUME server' = "up", NEW u \in Tasks, status'[u] = "queued"
                  PROVE  Held(u)'
    BY DEF QueuedIsHeld
  <2>2. /\ server = "up" /\ status[u] = "queued" /\ UNCHANGED <<hand, wpc, rpc>>
        /\ project'[u] = project[u] /\ pausedMem \subseteq pausedMem'
        /\ asked \subseteq asked' /\ missed \subseteq missed'
    BY <1>6, <2>1 DEF PauseProject, StartOnProject, TypeOK
  <2>3. SlotsKept
    BY <1>6 DEF PauseProject, StartOnProject, SlotsKept, TypeOK, RequestsOK, Idle
  <2>4. Parked(u) => Parked(u)'
    BY <1>6 DEF PauseProject, StartOnProject, Parked
  <2>5. QED
    BY <2>2, <2>3, <2>4, HeldKept DEF QueuedIsHeld
<1>7. ASSUME NEW r \in Requests, NEW p \in Projects, ResumeProject(r, p) PROVE QueuedIsHeld'
  <2>1. SUFFICES ASSUME server' = "up", NEW u \in Tasks, status'[u] = "queued"
                  PROVE  Held(u)'
    BY DEF QueuedIsHeld
  <2>2. /\ server = "up" /\ status[u] = "queued" /\ UNCHANGED <<hand, wpc, rpc>>
        /\ project'[u] = project[u] /\ pausedMem \subseteq pausedMem'
        /\ asked \subseteq asked' /\ missed \subseteq missed'
    BY <1>7, <2>1 DEF ResumeProject, StartOnProject, TypeOK
  <2>3. SlotsKept
    BY <1>7 DEF ResumeProject, StartOnProject, SlotsKept, TypeOK, RequestsOK, Idle
  <2>4. Parked(u) => Parked(u)'
    BY <1>7 DEF ResumeProject, StartOnProject, Parked
  <2>5. QED
    BY <2>2, <2>3, <2>4, HeldKept DEF QueuedIsHeld
<1>8. ASSUME NEW r \in Requests, ScheduleTask(r) PROVE QueuedIsHeld'
  <2>1. SUFFICES ASSUME server' = "up", NEW u \in Tasks, status'[u] = "queued"
                  PROVE  Held(u)'
    BY DEF QueuedIsHeld
  <2>2. /\ server = "up" /\ status[u] = "queued" /\ Held(u)
        /\ UNCHANGED <<hand, wpc, rpc, project, pausedMem, asked>> /\ missed \subseteq missed'
    BY <1>8, <2>1 DEF ScheduleTask, QueuedIsHeld
  <2>3. \A i \in Requests : i # r => req'[i] = req[i]
    BY <1>8 DEF ScheduleTask, Finish, TypeOK, RequestsOK
  <2>4. Parked(u) => Parked(u)'
    BY <1>8, ScheduleParks
  <2>5. req[r].pc = "schedule" /\ (req[r].task = u => Parked(u)')
    BY <1>8, ScheduleParks DEF ScheduleTask, At
  <2>6. QED
    BY <2>2, <2>3, <2>4, <2>5 DEF Held, TrackedElsewhere, AwaitsScan
<1>9. ASSUME NEW r \in Requests, RetryWrite(r) PROVE QueuedIsHeld'
  <2>1. SUFFICES ASSUME server' = "up", NEW u \in Tasks, status'[u] = "queued"
                  PROVE  Held(u)'
    BY DEF QueuedIsHeld
  <2>2. CASE Goto(r, "schedule") /\ u = req[r].task
    <3>1. req'[r].pc = "schedule" /\ req'[r].task = u
      BY <2>2 DEF Goto, TypeOK, RequestsOK, RequestRecord
    <3>2. QED
      BY <3>1 DEF Held, TrackedElsewhere
  <2>3. CASE ~(Goto(r, "schedule") /\ u = req[r].task)
    <3>1. /\ server = "up" /\ UNCHANGED <<hand, wpc, rpc>>
          /\ project'[u] = project[u] /\ pausedMem \subseteq pausedMem'
          /\ asked \subseteq asked' /\ missed \subseteq missed'
      BY <1>9, <2>1 DEF RetryWrite
    <3>2. status[u] = "queued"
      BY <1>9, <2>1, <2>3 DEF RetryWrite, Store, TypeOK
    <3>3. Finish(r) \/ Goto(r, "schedule")
      BY <1>9 DEF RetryWrite
    <3>4. SlotsKept
      BY <1>9, <3>3, SlotStep DEF RetryWrite, At, SlotsKept, TypeOK
    <3>5. Parked(u) => Parked(u)'
      BY <1>9 DEF RetryWrite, Parked
    <3>6. QED
      BY <3>1, <3>2, <3>4, <3>5, HeldKept DEF QueuedIsHeld
  <2>4. QED
    BY <2>2, <2>3
<1>10. ASSUME NEW r \in Requests, CancelWrite(r) PROVE QueuedIsHeld'
  <2>1. SUFFICES ASSUME server' = "up", NEW u \in Tasks, status'[u] = "queued"
                  PROVE  Held(u)'
    BY DEF QueuedIsHeld
  <2>2. /\ server = "up" /\ UNCHANGED <<hand, wpc, rpc>>
        /\ project'[u] = project[u] /\ pausedMem \subseteq pausedMem'
        /\ asked \subseteq asked' /\ missed \subseteq missed'
    BY <1>10, <2>1 DEF CancelWrite
  <2>3. status[u] = "queued"
    BY <1>10, <2>1 DEF CancelWrite, Store, TypeOK
  <2>4. Finish(r) \/ Goto(r, "cancelSignal")
    BY <1>10 DEF CancelWrite
  <2>5. SlotsKept
    BY <1>10, <2>4, SlotStep DEF CancelWrite, At, SlotsKept, TypeOK
  <2>6. Parked(u) => Parked(u)'
    BY <1>10 DEF CancelWrite, Parked
  <2>7. QED
    BY <2>2, <2>3, <2>5, <2>6, HeldKept DEF QueuedIsHeld
<1>11. ASSUME NEW r \in Requests, CancelSignal(r) PROVE QueuedIsHeld'
  <2>1. SUFFICES ASSUME server' = "up", NEW u \in Tasks, status'[u] = "queued"
                  PROVE  Held(u)'
    BY DEF QueuedIsHeld
  <2>2. /\ server = "up" /\ status[u] = "queued" /\ UNCHANGED <<hand, wpc, rpc>>
        /\ project'[u] = project[u] /\ pausedMem \subseteq pausedMem'
        /\ asked \subseteq asked' /\ missed \subseteq missed'
    BY <1>11, <2>1 DEF CancelSignal, At, Finish, TypeOK
  <2>3. SlotsKept
    BY <1>11 DEF CancelSignal, At, Finish, SlotsKept, TypeOK, RequestsOK, Idle
  <2>4. Parked(u) => Parked(u)'
    BY <1>11 DEF CancelSignal, At, Finish, Parked
  <2>5. QED
    BY <2>2, <2>3, <2>4, HeldKept DEF QueuedIsHeld
<1>12. ASSUME NEW r \in Requests, DeleteWrite(r) PROVE QueuedIsHeld'
  <2>1. SUFFICES ASSUME server' = "up", NEW u \in Tasks, status'[u] = "queued"
                  PROVE  Held(u)'
    BY DEF QueuedIsHeld
  <2>2. /\ server = "up" /\ status[u] = "queued" /\ UNCHANGED <<hand, wpc, rpc>>
        /\ project'[u] = project[u] /\ pausedMem \subseteq pausedMem'
        /\ asked \subseteq asked' /\ missed \subseteq missed'
    BY <1>12, <2>1 DEF DeleteWrite, At, Finish, Store, TypeOK
  <2>3. SlotsKept
    BY <1>12 DEF DeleteWrite, At, Finish, Store, SlotsKept, TypeOK, RequestsOK, Idle
  <2>4. Parked(u) => Parked(u)'
    BY <1>12 DEF DeleteWrite, At, Finish, Store, Parked
  <2>5. QED
    BY <2>2, <2>3, <2>4, HeldKept DEF QueuedIsHeld
<1>13. ASSUME NEW r \in Requests, PublishWrite(r) PROVE QueuedIsHeld'
  <2>1. SUFFICES ASSUME server' = "up", NEW u \in Tasks, status'[u] = "queued"
                  PROVE  Held(u)'
    BY DEF QueuedIsHeld
  <2>2. /\ server = "up" /\ status[u] = "queued" /\ UNCHANGED <<hand, wpc, rpc>>
        /\ project'[u] = project[u] /\ pausedMem \subseteq pausedMem'
        /\ asked \subseteq asked' /\ missed \subseteq missed'
    BY <1>13, <2>1 DEF PublishWrite, At, Finish, Store, TypeOK
  <2>3. SlotsKept
    BY <1>13 DEF PublishWrite, At, Finish, Store, SlotsKept, TypeOK, RequestsOK, Idle
  <2>4. Parked(u) => Parked(u)'
    BY <1>13 DEF PublishWrite, At, Finish, Store, Parked
  <2>5. QED
    BY <2>2, <2>3, <2>4, HeldKept DEF QueuedIsHeld
<1>14. ASSUME NEW r \in Requests, PauseMemory(r) PROVE QueuedIsHeld'
  <2>1. SUFFICES ASSUME server' = "up", NEW u \in Tasks, status'[u] = "queued"
                  PROVE  Held(u)'
    BY DEF QueuedIsHeld
  <2>2. /\ server = "up" /\ status[u] = "queued" /\ UNCHANGED <<hand, wpc, rpc>>
        /\ project'[u] = project[u] /\ pausedMem \subseteq pausedMem'
        /\ asked \subseteq asked' /\ missed \subseteq missed'
    BY <1>14, <2>1 DEF PauseMemory, At, Finish, TypeOK
  <2>3. SlotsKept
    BY <1>14 DEF PauseMemory, At, Finish, SlotsKept, TypeOK, RequestsOK, Idle
  <2>4. Parked(u) => Parked(u)'
    BY <1>14 DEF PauseMemory, At, Finish, Parked
  <2>5. QED
    BY <2>2, <2>3, <2>4, HeldKept DEF QueuedIsHeld
<1>15. ASSUME NEW r \in Requests, PauseApply(r) PROVE QueuedIsHeld'
  <2>1. SUFFICES ASSUME server' = "up", NEW u \in Tasks, status'[u] = "queued"
                  PROVE  Held(u)'
    BY DEF QueuedIsHeld
  <2>2. /\ server = "up" /\ status[u] = "queued" /\ UNCHANGED <<hand, wpc, rpc>>
        /\ project'[u] = project[u] /\ pausedMem \subseteq pausedMem'
        /\ asked \subseteq asked' /\ missed \subseteq missed'
    BY <1>15, <2>1 DEF PauseApply, At, Finish, TypeOK
  <2>3. SlotsKept
    BY <1>15 DEF PauseApply, At, Finish, SlotsKept, TypeOK, RequestsOK, Idle
  <2>4. Parked(u) => Parked(u)'
    BY <1>15, PauseApplyParks
  <2>5. QED
    BY <2>2, <2>3, <2>4, HeldKept DEF QueuedIsHeld
<1>16. ASSUME NEW r \in Requests, ResumeMemory(r) PROVE QueuedIsHeld'
  <2>1. SUFFICES ASSUME server' = "up", NEW u \in Tasks, status'[u] = "queued"
                  PROVE  Held(u)'
    BY DEF QueuedIsHeld
  <2>2. /\ server = "up" /\ status[u] = "queued" /\ Held(u)
        /\ UNCHANGED <<hand, wpc, rpc, project, asked, missed>>
        /\ pausedMem' = pausedMem \ {req[r].project}
    BY <1>16, <2>1 DEF ResumeMemory, QueuedIsHeld
  <2>3. Parked(u) => Parked(u)'
    BY <1>16, ResumeMemoryParks
  <2>4. /\ \A i \in Requests : i # r => req'[i] = req[i]
        /\ req[r].pc = "resumeMemory"
        /\ req'[r].pc = "resumeScan" /\ req'[r].project = req[r].project
        /\ req'[r].keys = scheduled'
    BY <1>16 DEF ResumeMemory, At, TypeOK, RequestsOK, RequestRecord
  <2>5. u \in scheduled' => Parked(u)'
    BY DEF ScheduledIsQueued, Parked
  <2>6. CASE project[u] = req[r].project /\ project[u] \in pausedMem
    BY <2>2, <2>4, <2>5, <2>6 DEF Held, TrackedElsewhere, AwaitsScan
  <2>7. CASE ~(project[u] = req[r].project /\ project[u] \in pausedMem)
    BY <2>2, <2>3, <2>4, <2>7 DEF Held, TrackedElsewhere, AwaitsScan
  <2>8. QED
    BY <2>6, <2>7
<1>17. ASSUME NEW r \in Requests, ResumeScan(r) PROVE QueuedIsHeld'
  <2>1. SUFFICES ASSUME server' = "up", NEW u \in Tasks, status'[u] = "queued"
                  PROVE  Held(u)'
    BY DEF QueuedIsHeld
  <2>2. /\ server = "up" /\ status[u] = "queued" /\ Held(u)
        /\ UNCHANGED <<hand, wpc, rpc, project, pausedMem, asked>> /\ missed \subseteq missed'
    BY <1>17, <2>1 DEF ResumeScan, QueuedIsHeld
  <2>3. \A i \in Requests : i # r => req'[i] = req[i]
    BY <1>17 DEF ResumeScan, Finish, TypeOK, RequestsOK
  <2>4. Parked(u) => Parked(u)'
    BY <1>17, ResumeScanParks
  <2>5. /\ req[r].pc = "resumeScan"
        /\ req[r].project = project[u] /\ u \notin req[r].keys => Parked(u)' \/ u \in missed'
    <3>1. req[r].project = project[u] /\ u \notin req[r].keys
             => u \in Unscheduled(req[r].project, req[r].keys)
      BY <2>2 DEF Unscheduled
    <3>2. u \in ScanResult(req[r].project, req[r].keys) => Parked(u)'
      BY <1>17, ResumeScanParks
    <3>3. QED
      BY <1>17, <3>1, <3>2 DEF ResumeScan, At
  <2>6. QED
    BY <2>2, <2>3, <2>4, <2>5 DEF Held, TrackedElsewhere, AwaitsScan
<1>18. ASSUME NEW p \in Projects, PatchPaused(p) PROVE QueuedIsHeld'
  <2>1. SUFFICES ASSUME server' = "up", NEW u \in Tasks, status'[u] = "queued"
                  PROVE  Held(u)'
    BY DEF QueuedIsHeld
  <2>2. /\ server = "up" /\ status[u] = "queued" /\ UNCHANGED <<hand, wpc, rpc>>
        /\ project'[u] = project[u] /\ pausedMem \subseteq pausedMem'
        /\ asked \subseteq asked' /\ missed \subseteq missed'
    BY <1>18, <2>1 DEF PatchPaused, TypeOK
  <2>3. SlotsKept
    BY <1>18 DEF PatchPaused, SlotsKept, TypeOK, RequestsOK, Idle
  <2>4. Parked(u) => Parked(u)'
    BY <1>18 DEF PatchPaused, Parked
  <2>5. QED
    BY <2>2, <2>3, <2>4, HeldKept DEF QueuedIsHeld
<1>19. ASSUME NEW p \in Projects, DeleteProject(p) PROVE QueuedIsHeld'
  <2>1. SUFFICES ASSUME server' = "up", NEW u \in Tasks, status'[u] = "queued"
                  PROVE  Held(u)'
    BY DEF QueuedIsHeld
  <2>2. /\ server = "up" /\ status[u] = "queued" /\ Held(u)
        /\ UNCHANGED <<hand, wpc, rpc, req, pausedMem, asked>>
        /\ missed \subseteq missed'
        /\ project[u] = p /\ AwaitsScan(u) => u \in missed'
        /\ project[u] # p => project'[u] = project[u]
    BY <1>19, <2>1 DEF DeleteProject, QueuedIsHeld
  <2>3. Parked(u) => Parked(u)'
    BY <1>19 DEF DeleteProject, Parked
  <2>4. AwaitsScan(u) => AwaitsScan(u)' \/ u \in missed'
    BY <2>2 DEF AwaitsScan
  <2>5. QED
    BY <2>2, <2>3, <2>4 DEF Held, TrackedElsewhere
<1>20. CASE WorkerGet
  <2>1. SUFFICES ASSUME server' = "up", NEW u \in Tasks, status'[u] = "queued"
                  PROVE  Held(u)'
    BY DEF QueuedIsHeld
  <2>2. CASE u = Head(queue)
    BY <1>20, <2>2 DEF WorkerGet, Held
  <2>3. CASE u # Head(queue)
    <3>1. queue \in Seq(TaskIds) /\ queue # << >>
      BY <1>20 DEF WorkerGet, TypeOK
    <3>2. Range(queue) = {Head(queue)} \cup Range(queue')
      BY <1>20, <3>1, RangeTail DEF WorkerGet
    <3>3. Parked(u) => Parked(u)'
      BY <1>20, <2>3, <3>2 DEF WorkerGet, Parked
    <3>4. /\ server = "up" /\ UNCHANGED <<req, project, pausedMem, asked, missed, status>>
      BY <1>20, <2>1 DEF WorkerGet
    <3>5. TrackedElsewhere(u) => TrackedElsewhere(u)'
      BY <3>3, <3>4, TrackedKept DEF SlotsKept
    <3>6. Held(u) /\ wpc = "get" /\ rpc = "none"
      BY <1>20, <2>1, <3>4 DEF WorkerGet, QueuedIsHeld, TypeOK
    <3>7. QED
      BY <3>4, <3>5, <3>6 DEF Held
  <2>4. QED
    BY <2>2, <2>3
<1>21. CASE WorkerSkip
  <2>1. SUFFICES ASSUME server' = "up", NEW u \in Tasks, status'[u] = "queued"
                  PROVE  Held(u)'
    BY DEF QueuedIsHeld
  <2>2. /\ server = "up" /\ UNCHANGED <<req, project, pausedMem, asked, missed>>
    BY <1>21, <2>1 DEF WorkerSkip, NextTask
  <2>3. Parked(u) => Parked(u)'
    BY <1>21 DEF WorkerSkip, NextTask, Parked
  <2>4. TrackedElsewhere(u) => TrackedElsewhere(u)'
    BY <2>2, <2>3, TrackedKept DEF SlotsKept
  <2>5. status[u] = "queued" /\ u # hand /\ rpc = "none"
    BY <1>21, <2>1 DEF WorkerSkip, HandIsQueued, TypeOK
  <2>6. QED
    BY <2>2, <2>4, <2>5 DEF Held, QueuedIsHeld
<1>22. CASE WorkerDefer
  <2>1. SUFFICES ASSUME server' = "up", NEW u \in Tasks, status'[u] = "queued"
                  PROVE  Held(u)'
    BY DEF QueuedIsHeld
  <2>2. /\ server = "up" /\ UNCHANGED <<req, project, pausedMem, asked, missed>>
    BY <1>22, <2>1 DEF WorkerDefer, NextTask
  <2>3. Parked(u) => Parked(u)'
    BY <1>22, WorkerDeferParks
  <2>4. TrackedElsewhere(u) => TrackedElsewhere(u)'
    BY <2>2, <2>3, TrackedKept DEF SlotsKept
  <2>5. status[u] = "queued" /\ rpc = "none" /\ (u = hand => Parked(u)')
    BY <1>22, <2>1, WorkerDeferParks DEF WorkerDefer, TypeOK
  <2>6. QED
    BY <2>2, <2>4, <2>5 DEF Held, TrackedElsewhere, QueuedIsHeld
<1>23. CASE WorkerDispatch
  <2>1. SUFFICES ASSUME server' = "up", NEW u \in Tasks, status'[u] = "queued"
                  PROVE  Held(u)'
    BY DEF QueuedIsHeld
  <2>2. /\ server = "up" /\ UNCHANGED <<req, project, pausedMem, asked, missed>>
    BY <1>23, <2>1 DEF WorkerDispatch
  <2>3. Parked(u) => Parked(u)'
    BY <1>23 DEF WorkerDispatch, Parked
  <2>4. TrackedElsewhere(u) => TrackedElsewhere(u)'
    BY <2>2, <2>3, TrackedKept DEF SlotsKept
  <2>5. status[u] = "queued" /\ rpc' = "load" /\ hand' = hand
    BY <1>23, <2>1 DEF WorkerDispatch
  <2>6. QED
    BY <2>2, <2>4, <2>5 DEF Held, QueuedIsHeld
<1>24. CASE WorkerCollect
  <2>1. SUFFICES ASSUME server' = "up", NEW u \in Tasks, status'[u] = "queued"
                  PROVE  Held(u)'
    BY DEF QueuedIsHeld
  <2>2. /\ server = "up" /\ UNCHANGED <<req, project, pausedMem, asked, missed>>
    BY <1>24, <2>1 DEF WorkerCollect, NextTask
  <2>3. Parked(u) => Parked(u)'
    BY <1>24 DEF WorkerCollect, NextTask, Parked
  <2>4. TrackedElsewhere(u) => TrackedElsewhere(u)'
    BY <2>2, <2>3, TrackedKept DEF SlotsKept
  <2>5. status[u] = "queued" /\ rpc = "ended" /\ wpc = "await"
    BY <1>24, <2>1 DEF WorkerCollect
  <2>6. QED
    BY <2>2, <2>4, <2>5 DEF Held, QueuedIsHeld
<1>25. CASE RunLoad
  <2>1. SUFFICES ASSUME server' = "up", NEW u \in Tasks, status'[u] = "queued"
                  PROVE  Held(u)'
    BY DEF QueuedIsHeld
  <2>2. /\ server = "up" /\ UNCHANGED <<req, project, pausedMem, asked, missed>>
    BY <1>25, <2>1 DEF RunLoad, RunFrame
  <2>3. Parked(u) => Parked(u)'
    BY <1>25 DEF RunLoad, RunFrame, Parked
  <2>4. TrackedElsewhere(u) => TrackedElsewhere(u)'
    BY <2>2, <2>3, TrackedKept DEF SlotsKept
  <2>5. status[u] = "queued" /\ hand' = hand /\ (u = hand => rpc' = "start") /\ wpc # "lookup"
    BY <1>25, <2>1 DEF RunLoad, RunFrame, TypeOK
  <2>6. QED
    BY <2>2, <2>4, <2>5 DEF Held, QueuedIsHeld
<1>26. CASE RunStart
  <2>1. SUFFICES ASSUME server' = "up", NEW u \in Tasks, status'[u] = "queued"
                  PROVE  Held(u)'
    BY DEF QueuedIsHeld
  <2>2. /\ server = "up" /\ UNCHANGED <<req, project, pausedMem, asked, missed>>
    BY <1>26, <2>1 DEF RunStart, RunFrame, RunWrite
  <2>3. Parked(u) => Parked(u)'
    BY <1>26 DEF RunStart, RunFrame, RunWrite, Parked
  <2>4. TrackedElsewhere(u) => TrackedElsewhere(u)'
    BY <2>2, <2>3, TrackedKept DEF SlotsKept
  <2>5. status[u] = "queued" /\ u # hand
    BY <1>26, <2>1 DEF RunStart, RunWrite, Store, Gone, TypeOK
  <2>6. QED
    BY <2>2, <2>4, <2>5 DEF Held, QueuedIsHeld
<1>27. CASE RunDone
  <2>1. SUFFICES ASSUME server' = "up", NEW u \in Tasks, status'[u] = "queued"
                  PROVE  Held(u)'
    BY DEF QueuedIsHeld
  <2>2. /\ server = "up" /\ UNCHANGED <<req, project, pausedMem, asked, missed>>
    BY <1>27, <2>1 DEF RunDone, RunFrame, RunWrite
  <2>3. Parked(u) => Parked(u)'
    BY <1>27 DEF RunDone, RunFrame, RunWrite, Parked
  <2>4. TrackedElsewhere(u) => TrackedElsewhere(u)'
    BY <2>2, <2>3, TrackedKept DEF SlotsKept
  <2>5. status[u] = "queued" /\ u # hand
    BY <1>27, <2>1 DEF RunDone, RunWrite, Store, Gone, TypeOK
  <2>6. QED
    BY <2>2, <2>4, <2>5 DEF Held, QueuedIsHeld
<1>28. CASE RunFailed
  <2>1. SUFFICES ASSUME server' = "up", NEW u \in Tasks, status'[u] = "queued"
                  PROVE  Held(u)'
    BY DEF QueuedIsHeld
  <2>2. /\ server = "up" /\ UNCHANGED <<req, project, pausedMem, asked, missed>>
    BY <1>28, <2>1 DEF RunFailed, RunFrame, RunWrite
  <2>3. Parked(u) => Parked(u)'
    BY <1>28 DEF RunFailed, RunFrame, RunWrite, Parked
  <2>4. TrackedElsewhere(u) => TrackedElsewhere(u)'
    BY <2>2, <2>3, TrackedKept DEF SlotsKept
  <2>5. status[u] = "queued" /\ u # hand
    BY <1>28, <2>1 DEF RunFailed, RunWrite, Store, Gone, TypeOK
  <2>6. QED
    BY <2>2, <2>4, <2>5 DEF Held, QueuedIsHeld
<1>29. CASE RunReturn
  <2>1. SUFFICES ASSUME server' = "up", NEW u \in Tasks, status'[u] = "queued"
                  PROVE  Held(u)'
    BY DEF QueuedIsHeld
  <2>2. /\ server = "up" /\ UNCHANGED <<req, project, pausedMem, asked, missed>>
    BY <1>29, <2>1 DEF RunReturn, RunFrame
  <2>3. Parked(u) => Parked(u)'
    BY <1>29 DEF RunReturn, RunFrame, Parked
  <2>4. TrackedElsewhere(u) => TrackedElsewhere(u)'
    BY <2>2, <2>3, TrackedKept DEF SlotsKept
  <2>5. status[u] = "queued" /\ wpc # "lookup" /\ rpc = "saved"
    BY <1>29, <2>1 DEF RunReturn, TypeOK
  <2>6. QED
    BY <2>2, <2>4, <2>5 DEF Held, QueuedIsHeld
<1>30. CASE RunCancelled
  <2>1. SUFFICES ASSUME server' = "up", NEW u \in Tasks, status'[u] = "queued"
                  PROVE  Held(u)'
    BY DEF QueuedIsHeld
  <2>2. /\ server = "up" /\ UNCHANGED <<req, project, pausedMem, asked, missed>>
    BY <1>30, <2>1 DEF RunCancelled, RunFrame
  <2>3. Parked(u) => Parked(u)'
    BY <1>30 DEF RunCancelled, RunFrame, Parked
  <2>4. TrackedElsewhere(u) => TrackedElsewhere(u)'
    BY <2>2, <2>3, TrackedKept DEF SlotsKept
  <2>5. status[u] = "queued" /\ wpc # "lookup" /\ (u = hand => Parked(u) \/ u \in asked)
    BY <1>30, <2>1, <2>2 DEF RunCancelled, TypeOK, SignalledIsParked
  <2>6. QED
    BY <2>2, <2>3, <2>4, <2>5 DEF Held, TrackedElsewhere, QueuedIsHeld
<1>31. CASE RunUnwind
  <2>1. SUFFICES ASSUME server' = "up", NEW u \in Tasks, status'[u] = "queued"
                  PROVE  Held(u)'
    BY DEF QueuedIsHeld
  <2>2. /\ server = "up" /\ UNCHANGED <<req, project, pausedMem, asked, missed>>
    BY <1>31, <2>1 DEF RunUnwind, RunFrame
  <2>3. Parked(u) => Parked(u)'
    BY <1>31 DEF RunUnwind, RunFrame, Parked
  <2>4. TrackedElsewhere(u) => TrackedElsewhere(u)'
    BY <2>2, <2>3, TrackedKept DEF SlotsKept
  <2>5. CASE u = hand
    BY <1>31, <2>2, <2>3, <2>5 DEF RunUnwind, SignalledIsParked, Held, TrackedElsewhere
  <2>6. CASE u # hand
    <3>1. status[u] = "queued"
      BY <1>31, <2>1, <2>6 DEF RunUnwind, Store, TypeOK
    <3>2. QED
      BY <2>2, <2>4, <2>6, <3>1 DEF Held, QueuedIsHeld
  <2>7. QED
    BY <2>5, <2>6
<1>32. CASE RunUnwindFails
  <2>1. SUFFICES ASSUME server' = "up", NEW u \in Tasks, status'[u] = "queued"
                  PROVE  Held(u)'
    BY DEF QueuedIsHeld
  <2>2. /\ server = "up" /\ UNCHANGED <<req, project, pausedMem, asked, missed>>
    BY <1>32, <2>1 DEF RunUnwindFails, RunFrame
  <2>3. Parked(u) => Parked(u)'
    BY <1>32 DEF RunUnwindFails, RunFrame, Parked
  <2>4. TrackedElsewhere(u) => TrackedElsewhere(u)'
    BY <2>2, <2>3, TrackedKept DEF SlotsKept
  <2>5. status[u] = "queued" /\ wpc # "lookup" /\ rpc \notin {"load", "start"}
    BY <1>32, <2>1 DEF RunUnwindFails, TypeOK
  <2>6. QED
    BY <2>2, <2>4, <2>5 DEF Held, QueuedIsHeld
<1>33. CASE Startup
  <2>1. SUFFICES ASSUME NEW u \in Tasks, status'[u] = "queued" PROVE Held(u)'
    BY DEF QueuedIsHeld
  <2> DEFINE S == {t \in Tasks : status'[t] = "queued" /\ project[t] \notin pausedDb}
  <2>2. Range(queue') = S
    BY <1>33, OrderingsList DEF Startup
  <2>3. CASE project[u] \notin pausedDb
    BY <2>1, <2>2, <2>3 DEF Held, TrackedElsewhere, Parked
  <2>4. CASE project[u] \in pausedDb
    BY <1>33, <2>4 DEF Startup, Held, TrackedElsewhere, AwaitsScan
  <2>5. QED
    BY <2>3, <2>4
<1>34. CASE Shutdown
  BY <1>34 DEF Shutdown, QueuedIsHeld
<1>35. CASE Exit
  BY <1>35 DEF Exit, QueuedIsHeld
<1>36. CASE UNCHANGED vars
  <2>1. SUFFICES ASSUME server' = "up", NEW u \in Tasks, status'[u] = "queued"
                  PROVE  Held(u)'
    BY DEF QueuedIsHeld
  <2>2. /\ server = "up" /\ status[u] = "queued" /\ UNCHANGED <<hand, wpc, rpc>>
        /\ project'[u] = project[u] /\ pausedMem \subseteq pausedMem'
        /\ asked \subseteq asked' /\ missed \subseteq missed'
    BY <1>36, <2>1 DEF vars
  <2>3. SlotsKept /\ (Parked(u) => Parked(u)')
    BY <1>36 DEF vars, SlotsKept, Parked
  <2>4. QED
    BY <2>2, <2>3, HeldKept DEF QueuedIsHeld
<1>37. QED
  BY <1>1, <1>2, <1>3, <1>4, <1>5, <1>6, <1>7, <1>8, <1>9, <1>10, <1>11, <1>12, <1>13, <1>14,
     <1>15, <1>16, <1>17, <1>18, <1>19, <1>20, <1>21, <1>22, <1>23, <1>24, <1>25, <1>26, <1>27, <1>28,
     <1>29, <1>30, <1>31, <1>32, <1>33, <1>34, <1>35, <1>36
  DEF Next, RequestStart, RequestStep, Worker, Run

\* The inductive part of the argument, for a reader who wants to reuse it.
THEOREM AllAccounted == Spec => []Accounted
<1>1. Init => Accounted
  BY DEF Init, Accounted, CancelsAreAsked, SignalledIsParked, QueuedIsHeld, Idle
<1>2. /\ TypeOK /\ ScheduledIsQueued /\ ScheduledIsQueued' /\ Accounted
      /\ [Next]_vars
      => Accounted'
  BY AskedStep, SignalStep, HeldStep DEF Accounted
<1>3. QED
  BY <1>1, <1>2, TypeCorrect, ScheduledMarks, PTL DEF Spec

\* Every queued task nobody asked to cancel is in the queue, parked, in a request
\* or in the worker's hand, but for the two ways collected in missed.
THEOREM NoTaskForgotten == Spec => []QueuedIsTracked
<1>1. Accounted => QueuedIsTracked
  BY DEF Accounted, QueuedIsHeld, Held, QueuedIsTracked, Tracked
<1>2. QED
  BY <1>1, AllAccounted, PTL

=============================================================================
