------------------------ MODULE TaskLifecycleProofs ------------------------
(* PipelineRunner implements TaskLifecycle, for every value of its constants. *)
EXTENDS PipelineRunnerProofs

-----------------------------------------------------------------------------
(* The strengthening.                                                        *)

Writes(q) == q.pc \in {"cancelWrite", "deleteWrite", "publishWrite"}

\* No row returns to absent, and a request does not change its task on the way.
LEMMA RowsKept ==
    ASSUME TypeOK, RowsExist, UNCHANGED <<rpc, hand>>, rpc # "none" => hand \in Tasks,
           \A q \in Requests : Writes(req'[q]) => req'[q] = req[q],
           \A t \in Tasks : status[t] # "absent" => status'[t] # "absent"
    PROVE  RowsExist'
<1>1. \A q \in Requests : Writes(req[q]) => req[q].task \in Tasks
  BY DEF TypeOK, RequestsOK, RequestOK, Writes, HasTask
<1>2. QED
  BY <1>1 DEF RowsExist, Writes

LEMMA RowsStep ==
    TypeOK /\ RowsExist /\ [Next]_vars => RowsExist'
<1> SUFFICES ASSUME TypeOK, RowsExist, [Next]_vars
             PROVE  RowsExist'
  OBVIOUS
<1> USE DEF dbVars, memVars, workVars, history
<1>1. ASSUME NEW r \in Requests, NEW t \in Tasks, CreateTask(r, t) PROVE RowsExist'
  BY <1>1 DEF CreateTask, StartOn, Store, Idle, TypeOK, RequestsOK, RequestOK, HasTask, RowsExist
<1>2. ASSUME NEW r \in Requests, NEW t \in Tasks, RetryRead(r, t) PROVE RowsExist'
  BY <1>2 DEF RetryRead, StartOn, Idle, TypeOK, RequestsOK, RequestOK, HasTask, RowsExist
<1>3. ASSUME NEW r \in Requests, NEW t \in Tasks, CancelRead(r, t) PROVE RowsExist'
  BY <1>3 DEF CancelRead, StartOn, Idle, TypeOK, RequestsOK, RequestOK, HasTask, RowsExist
<1>4. ASSUME NEW r \in Requests, NEW t \in Tasks, DeleteRead(r, t) PROVE RowsExist'
  BY <1>4 DEF DeleteRead, StartOn, Idle, TypeOK, RequestsOK, RequestOK, HasTask, RowsExist
<1>5. ASSUME NEW r \in Requests, NEW t \in Tasks, PublishRead(r, t) PROVE RowsExist'
  BY <1>5 DEF PublishRead, StartOn, Idle, TypeOK, RequestsOK, RequestOK, HasTask, RowsExist
<1>6. ASSUME NEW r \in Requests, NEW p \in Projects, PauseProject(r, p) PROVE RowsExist'
  BY <1>6 DEF PauseProject, StartOnProject, Idle, TypeOK, RequestsOK, RequestOK, HasTask, RowsExist
<1>7. ASSUME NEW r \in Requests, NEW p \in Projects, ResumeProject(r, p) PROVE RowsExist'
  BY <1>7 DEF ResumeProject, StartOnProject, Idle, TypeOK, RequestsOK, RequestOK, HasTask, RowsExist
<1>8. ASSUME NEW r \in Requests, ScheduleTask(r) PROVE RowsExist'
  BY <1>8 DEF ScheduleTask, Finish, Idle, TypeOK, RequestsOK, RequestOK, HasTask, RowsExist
<1>9. ASSUME NEW r \in Requests, RetryWrite(r) PROVE RowsExist'
  <2>1. \A q \in Requests : Writes(req'[q]) => req'[q] = req[q]
    <3>1. \A q \in Requests \ {r} : req'[q] = req[q]
      BY <1>9 DEF RetryWrite, Goto, Finish, TypeOK, RequestsOK
    <3>2. req[r] \in RequestRecord
      BY DEF TypeOK, RequestsOK
    <3>3. req'[r].pc \in {"idle", "schedule", "cancelSignal", "pauseApply"}
      BY <1>9, <3>2 DEF RetryWrite, Goto, Finish, Idle, RequestRecord, TypeOK, RequestsOK
    <3>4. QED
      BY <3>1, <3>3 DEF Writes
  <2>2. \A t \in Tasks : status[t] # "absent" => status'[t] # "absent"
    BY <1>9 DEF RetryWrite, Store, TypeOK
  <2>3. UNCHANGED <<rpc, hand>> /\ (rpc # "none" => hand \in Tasks)
    BY <1>9 DEF RetryWrite, TypeOK
  <2>4. QED
    BY <2>1, <2>2, <2>3, RowsKept
<1>10. ASSUME NEW r \in Requests, CancelWrite(r) PROVE RowsExist'
  <2>1. \A q \in Requests : Writes(req'[q]) => req'[q] = req[q]
    <3>1. \A q \in Requests \ {r} : req'[q] = req[q]
      BY <1>10 DEF CancelWrite, Goto, Finish, TypeOK, RequestsOK
    <3>2. req[r] \in RequestRecord
      BY DEF TypeOK, RequestsOK
    <3>3. req'[r].pc \in {"idle", "schedule", "cancelSignal", "pauseApply"}
      BY <1>10, <3>2 DEF CancelWrite, Goto, Finish, Idle, RequestRecord, TypeOK, RequestsOK
    <3>4. QED
      BY <3>1, <3>3 DEF Writes
  <2>2. \A t \in Tasks : status[t] # "absent" => status'[t] # "absent"
    BY <1>10 DEF CancelWrite, Store, TypeOK
  <2>3. UNCHANGED <<rpc, hand>> /\ (rpc # "none" => hand \in Tasks)
    BY <1>10 DEF CancelWrite, TypeOK
  <2>4. QED
    BY <2>1, <2>2, <2>3, RowsKept
<1>11. ASSUME NEW r \in Requests, CancelSignal(r) PROVE RowsExist'
  BY <1>11 DEF CancelSignal, Finish, Idle, TypeOK, RequestsOK, RequestOK, HasTask, RowsExist
<1>12. ASSUME NEW r \in Requests, DeleteWrite(r) PROVE RowsExist'
  BY <1>12 DEF DeleteWrite, At, Store, Finish, Idle, TypeOK, RequestsOK, RequestOK, HasTask, RowsExist
<1>13. ASSUME NEW r \in Requests, PublishWrite(r) PROVE RowsExist'
  BY <1>13 DEF PublishWrite, At, Store, Gone, Finish, Idle, TypeOK, RequestsOK, RequestOK, HasTask, RowsExist
<1>14. ASSUME NEW r \in Requests, PauseMemory(r) PROVE RowsExist'
  <2>1. \A q \in Requests : Writes(req'[q]) => req'[q] = req[q]
    <3>1. \A q \in Requests \ {r} : req'[q] = req[q]
      BY <1>14 DEF PauseMemory, Finish, TypeOK, RequestsOK
    <3>2. req[r] \in RequestRecord
      BY DEF TypeOK, RequestsOK
    <3>3. req'[r].pc \in {"idle", "schedule", "cancelSignal", "pauseApply"}
      BY <1>14, <3>2 DEF PauseMemory, Finish, Idle, RequestRecord, TypeOK, RequestsOK
    <3>4. QED
      BY <3>1, <3>3 DEF Writes
  <2>2. \A t \in Tasks : status[t] # "absent" => status'[t] # "absent"
    BY <1>14 DEF PauseMemory, TypeOK
  <2>3. UNCHANGED <<rpc, hand>> /\ (rpc # "none" => hand \in Tasks)
    BY <1>14 DEF PauseMemory, TypeOK
  <2>4. QED
    BY <2>1, <2>2, <2>3, RowsKept
<1>15. ASSUME NEW r \in Requests, PauseApply(r) PROVE RowsExist'
  BY <1>15 DEF PauseApply, Finish, Idle, TypeOK, RequestsOK, RequestOK, HasTask, RowsExist
<1>16. ASSUME NEW r \in Requests, ResumeMemory(r) PROVE RowsExist'
  BY <1>16 DEF ResumeMemory, TypeOK, RequestsOK, RequestOK, HasTask, RowsExist
<1>17. ASSUME NEW r \in Requests, ResumeScan(r) PROVE RowsExist'
  BY <1>17 DEF ResumeScan, Finish, Idle, TypeOK, RequestsOK, RequestOK, HasTask, RowsExist
<1>18. ASSUME NEW p \in Projects, PatchPaused(p) PROVE RowsExist'
  BY <1>18 DEF PatchPaused, TypeOK, RequestsOK, RequestOK, HasTask, RowsExist
<1>19. ASSUME NEW p \in Projects, DeleteProject(p) PROVE RowsExist'
  BY <1>19 DEF DeleteProject, TypeOK, RequestsOK, RequestOK, HasTask, RowsExist
<1>20. CASE WorkerGet
  BY <1>20 DEF WorkerGet, TypeOK, RequestsOK, RequestOK, HasTask, RowsExist
<1>21. CASE WorkerSkip
  BY <1>21 DEF WorkerSkip, NextTask, TypeOK, RequestsOK, RequestOK, HasTask, RowsExist
<1>22. CASE WorkerDefer
  BY <1>22 DEF WorkerDefer, NextTask, TypeOK, RequestsOK, RequestOK, HasTask, RowsExist
<1>23. CASE WorkerDispatch
  BY <1>23 DEF WorkerDispatch, HandIsQueued, TypeOK, RequestsOK, RequestOK, HasTask, RowsExist
<1>24. CASE WorkerCollect
  BY <1>24 DEF WorkerCollect, NextTask, TypeOK, RequestsOK, RequestOK, HasTask, RowsExist
<1>25. CASE RunLoad
  BY <1>25 DEF RunLoad, RunFrame, TypeOK, RequestsOK, RequestOK, HasTask, RowsExist
<1>26. CASE RunStart
  BY <1>26 DEF RunStart, RunFrame, RunWrite, Store, Gone, TypeOK, RequestsOK, RequestOK, HasTask, RowsExist
<1>27. CASE RunDone
  BY <1>27 DEF RunDone, RunFrame, RunWrite, Store, Gone, TypeOK, RequestsOK, RequestOK, HasTask, RowsExist
<1>28. CASE RunFailed
  BY <1>28 DEF RunFailed, RunFrame, RunWrite, Store, Gone, TypeOK, RequestsOK, RequestOK, HasTask, RowsExist
<1>29. CASE RunReturn
  BY <1>29 DEF RunReturn, RunFrame, TypeOK, RequestsOK, RequestOK, HasTask, RowsExist
<1>30. CASE RunCancelled
  BY <1>30 DEF RunCancelled, RunFrame, TypeOK, RequestsOK, RequestOK, HasTask, RowsExist
<1>31. CASE RunUnwind
  BY <1>31 DEF RunUnwind, RunFrame, Store, Gone, TypeOK, RequestsOK, RequestOK, HasTask, RowsExist
<1>32. CASE RunUnwindFails
  BY <1>32 DEF RunUnwindFails, RunFrame, TypeOK, RequestsOK, RequestOK, HasTask, RowsExist
<1>33. CASE Startup
  BY <1>33 DEF Startup, TypeOK, RequestsOK, RequestOK, HasTask, RowsExist
<1>34. CASE Shutdown
  BY <1>34 DEF Shutdown, TypeOK, RequestsOK, RequestOK, HasTask, RowsExist
<1>35. CASE Exit
  BY <1>35 DEF Exit, Idle, TypeOK, RequestsOK, RequestOK, HasTask, RowsExist
<1>36. CASE UNCHANGED vars
  BY <1>36 DEF vars, TypeOK, RequestsOK, RequestOK, HasTask, RowsExist
<1>37. QED
  BY <1>1, <1>2, <1>3, <1>4, <1>5, <1>6, <1>7, <1>8, <1>9, <1>10, <1>11, <1>12, <1>13, <1>14,
     <1>15, <1>16, <1>17, <1>18, <1>19, <1>20, <1>21, <1>22, <1>23, <1>24, <1>25, <1>26,
     <1>27, <1>28, <1>29, <1>30, <1>31, <1>32, <1>33, <1>34, <1>35, <1>36
  DEF Next, RequestStart, RequestStep, Worker, Run

LEMMA TakenStep ==
    TypeOK /\ TakenRow /\ [Next]_vars => TakenRow'
<1> SUFFICES ASSUME TypeOK, TakenRow, [Next]_vars
             PROVE  TakenRow'
  OBVIOUS
<1> USE DEF dbVars, memVars, workVars, history
<1>1. ASSUME NEW r \in Requests, NEW t \in Tasks, CreateTask(r, t) PROVE TakenRow'
  BY <1>1 DEF CreateTask, StartOn, Store, Idle, TypeOK, TakenRow
<1>2. ASSUME NEW r \in Requests, NEW t \in Tasks, RetryRead(r, t) PROVE TakenRow'
  BY <1>2 DEF RetryRead, StartOn, Idle, TypeOK, TakenRow
<1>3. ASSUME NEW r \in Requests, NEW t \in Tasks, CancelRead(r, t) PROVE TakenRow'
  BY <1>3 DEF CancelRead, StartOn, Idle, TypeOK, TakenRow
<1>4. ASSUME NEW r \in Requests, NEW t \in Tasks, DeleteRead(r, t) PROVE TakenRow'
  BY <1>4 DEF DeleteRead, StartOn, Idle, TypeOK, TakenRow
<1>5. ASSUME NEW r \in Requests, NEW t \in Tasks, PublishRead(r, t) PROVE TakenRow'
  BY <1>5 DEF PublishRead, StartOn, Idle, TypeOK, TakenRow
<1>6. ASSUME NEW r \in Requests, NEW p \in Projects, PauseProject(r, p) PROVE TakenRow'
  BY <1>6 DEF PauseProject, StartOnProject, Idle, TypeOK, TakenRow
<1>7. ASSUME NEW r \in Requests, NEW p \in Projects, ResumeProject(r, p) PROVE TakenRow'
  BY <1>7 DEF ResumeProject, StartOnProject, Idle, TypeOK, TakenRow
<1>8. ASSUME NEW r \in Requests, ScheduleTask(r) PROVE TakenRow'
  BY <1>8 DEF ScheduleTask, Finish, Idle, TypeOK, TakenRow
<1>9. ASSUME NEW r \in Requests, RetryWrite(r) PROVE TakenRow'
  BY <1>9 DEF RetryWrite, Store, TypeOK, TakenRow
<1>10. ASSUME NEW r \in Requests, CancelWrite(r) PROVE TakenRow'
  BY <1>10 DEF CancelWrite, At, Store, Gone, Goto, Finish, Idle, TypeOK, TakenRow
<1>11. ASSUME NEW r \in Requests, CancelSignal(r) PROVE TakenRow'
  BY <1>11 DEF CancelSignal, Finish, Idle, TypeOK, TakenRow
<1>12. ASSUME NEW r \in Requests, DeleteWrite(r) PROVE TakenRow'
  BY <1>12 DEF DeleteWrite, At, Store, Finish, Idle, TypeOK, TakenRow
<1>13. ASSUME NEW r \in Requests, PublishWrite(r) PROVE TakenRow'
  BY <1>13 DEF PublishWrite, At, Store, Gone, Finish, Idle, TypeOK, TakenRow
<1>14. ASSUME NEW r \in Requests, PauseMemory(r) PROVE TakenRow'
  BY <1>14 DEF PauseMemory, Finish, Idle, CurrentTask, TypeOK, TakenRow
<1>15. ASSUME NEW r \in Requests, PauseApply(r) PROVE TakenRow'
  BY <1>15 DEF PauseApply, Finish, Idle, TypeOK, TakenRow
<1>16. ASSUME NEW r \in Requests, ResumeMemory(r) PROVE TakenRow'
  BY <1>16 DEF ResumeMemory, TypeOK, TakenRow
<1>17. ASSUME NEW r \in Requests, ResumeScan(r) PROVE TakenRow'
  BY <1>17 DEF ResumeScan, Finish, Idle, TypeOK, TakenRow
<1>18. ASSUME NEW p \in Projects, PatchPaused(p) PROVE TakenRow'
  BY <1>18 DEF PatchPaused, TypeOK, TakenRow
<1>19. ASSUME NEW p \in Projects, DeleteProject(p) PROVE TakenRow'
  BY <1>19 DEF DeleteProject, TypeOK, TakenRow
<1>20. CASE WorkerGet
  BY <1>20 DEF WorkerGet, TypeOK, TakenRow
<1>21. CASE WorkerSkip
  BY <1>21 DEF WorkerSkip, NextTask, TypeOK, TakenRow
<1>22. CASE WorkerDefer
  BY <1>22 DEF WorkerDefer, NextTask, TypeOK, TakenRow
<1>23. CASE WorkerDispatch
  BY <1>23 DEF WorkerDispatch, HandIsQueued, TypeOK, TakenRow
<1>24. CASE WorkerCollect
  BY <1>24 DEF WorkerCollect, NextTask, TypeOK, TakenRow
<1>25. CASE RunLoad
  BY <1>25 DEF RunLoad, RunFrame, TypeOK, TakenRow
<1>26. CASE RunStart
  BY <1>26 DEF RunStart, RunFrame, RunWrite, Store, Gone, TypeOK, TakenRow
<1>27. CASE RunDone
  BY <1>27 DEF RunDone, RunFrame, RunWrite, Store, Gone, TypeOK, TakenRow
<1>28. CASE RunFailed
  BY <1>28 DEF RunFailed, RunFrame, RunWrite, Store, Gone, TypeOK, TakenRow
<1>29. CASE RunReturn
  BY <1>29 DEF RunReturn, RunFrame, TypeOK, TakenRow
<1>30. CASE RunCancelled
  BY <1>30 DEF RunCancelled, RunFrame, TypeOK, TakenRow
<1>31. CASE RunUnwind
  BY <1>31 DEF RunUnwind, RunFrame, Store, Gone, TypeOK, TakenRow
<1>32. CASE RunUnwindFails
  BY <1>32 DEF RunUnwindFails, RunFrame, TypeOK, TakenRow
<1>33. CASE Startup
  BY <1>33 DEF Startup, TypeOK, TakenRow
<1>34. CASE Shutdown
  BY <1>34 DEF Shutdown, TypeOK, TakenRow
<1>35. CASE Exit
  BY <1>35 DEF Exit, Idle, TypeOK, TakenRow
<1>36. CASE UNCHANGED vars
  BY <1>36 DEF vars, TypeOK, TakenRow
<1>37. QED
  BY <1>1, <1>2, <1>3, <1>4, <1>5, <1>6, <1>7, <1>8, <1>9, <1>10, <1>11, <1>12, <1>13, <1>14,
     <1>15, <1>16, <1>17, <1>18, <1>19, <1>20, <1>21, <1>22, <1>23, <1>24, <1>25, <1>26,
     <1>27, <1>28, <1>29, <1>30, <1>31, <1>32, <1>33, <1>34, <1>35, <1>36
  DEF Next, RequestStart, RequestStep, Worker, Run

-----------------------------------------------------------------------------
(* The simulation.                                                           *)

Simulated == [Life!LifeNext]_Life!lifeVars

\* A step that leaves the rows and the execution alone is a stutter.
LEMMA Stutters ==
    ASSUME UNCHANGED <<status, rpc>>, rpc \in {"none", "ended"} \/ UNCHANGED hand
    PROVE  Simulated
BY DEF Simulated, Life!lifeVars, ActiveTask, Stage

\* A write by a request, the execution going on as before.
LEMMA UserSteps ==
    ASSUME UNCHANGED <<rpc, hand>>, NEW t \in Tasks,
           \/ Life!Create(t) \/ Life!Retry(t) \/ Life!Cancel(t)
           \/ Life!Publish(t) \/ Life!Delete(t)
    PROVE  Simulated
<1>1. UNCHANGED <<ActiveTask, Stage>>
  BY DEF ActiveTask, Stage
<1>2. Life!ByUser
  BY <1>1 DEF Life!ByUser
<1>3. QED
  BY <1>2 DEF Simulated, Life!LifeNext

\* Every step of the runner is a step of the life of a task, or a stutter.
LEMMA SimulationStep ==
    TypeOK /\ ExecutionExclusive /\ RowsExist /\ TakenRow /\ [Next]_vars => Simulated
<1> SUFFICES ASSUME TypeOK, ExecutionExclusive, RowsExist, TakenRow, [Next]_vars
             PROVE  Simulated
  OBVIOUS
<1> USE DEF dbVars, memVars, workVars, history
<1>a. rpc \notin {"none", "ended"} => hand \in Tasks /\ hand # None
  BY ConstantsAssumption DEF TypeOK, ConstantsAssumption
<1>1. ASSUME NEW r \in Requests, NEW t \in Tasks, CreateTask(r, t) PROVE Simulated
  <2>1. Life!Create(t) /\ UNCHANGED <<rpc, hand>>
    BY <1>1 DEF CreateTask, Store, Life!Create, Life!Set
  <2>2. QED
    BY <2>1, UserSteps
<1>2. ASSUME NEW r \in Requests, NEW t \in Tasks, RetryRead(r, t) PROVE Simulated
  BY <1>2, Stutters DEF RetryRead
<1>3. ASSUME NEW r \in Requests, NEW t \in Tasks, CancelRead(r, t) PROVE Simulated
  BY <1>3, Stutters DEF CancelRead
<1>4. ASSUME NEW r \in Requests, NEW t \in Tasks, DeleteRead(r, t) PROVE Simulated
  BY <1>4, Stutters DEF DeleteRead
<1>5. ASSUME NEW r \in Requests, NEW t \in Tasks, PublishRead(r, t) PROVE Simulated
  BY <1>5, Stutters DEF PublishRead
<1>6. ASSUME NEW r \in Requests, NEW p \in Projects, PauseProject(r, p) PROVE Simulated
  BY <1>6, Stutters DEF PauseProject
<1>7. ASSUME NEW r \in Requests, NEW p \in Projects, ResumeProject(r, p) PROVE Simulated
  BY <1>7, Stutters DEF ResumeProject
<1>8. ASSUME NEW r \in Requests, ScheduleTask(r) PROVE Simulated
  BY <1>8, Stutters DEF ScheduleTask
<1>9. ASSUME NEW r \in Requests, RetryWrite(r) PROVE Simulated
  <2>1. req[r].task \in Tasks /\ req[r].seen \in {"done", "failed"}
    BY <1>9 DEF RetryWrite, At, TypeOK, RequestsOK, RequestOK, HasTask
  <2>2. UNCHANGED <<rpc, hand>> /\ (UNCHANGED status \/ Life!Retry(req[r].task))
    BY <1>9, <2>1 DEF RetryWrite, Store, Life!Retry, Life!Set
  <2>3. QED
    BY <2>1, <2>2, UserSteps, Stutters
<1>10. ASSUME NEW r \in Requests, CancelWrite(r) PROVE Simulated
  <2>1. req[r].task \in Tasks /\ status[req[r].task] # "absent"
    BY <1>10 DEF CancelWrite, At, TypeOK, RequestsOK, RequestOK, HasTask, RowsExist
  <2>2. UNCHANGED <<rpc, hand>> /\ (UNCHANGED status \/ Life!Cancel(req[r].task))
    BY <1>10, <2>1 DEF CancelWrite, Store, Gone, Life!Cancel, Life!Stored, Life!Set
  <2>3. QED
    BY <2>1, <2>2, UserSteps, Stutters
<1>11. ASSUME NEW r \in Requests, CancelSignal(r) PROVE Simulated
  BY <1>11, Stutters DEF CancelSignal
<1>12. ASSUME NEW r \in Requests, DeleteWrite(r) PROVE Simulated
  <2>1. req[r].task \in Tasks /\ status[req[r].task] # "absent"
    BY <1>12 DEF DeleteWrite, At, TypeOK, RequestsOK, RequestOK, HasTask, RowsExist
  <2>2. UNCHANGED <<rpc, hand>> /\ (UNCHANGED status \/ Life!Delete(req[r].task))
    BY <1>12, <2>1 DEF DeleteWrite, Store, Gone, Life!Delete, Life!Stored, Life!Set
  <2>3. QED
    BY <2>1, <2>2, UserSteps, Stutters
<1>13. ASSUME NEW r \in Requests, PublishWrite(r) PROVE Simulated
  <2>1. req[r].task \in Tasks /\ status[req[r].task] # "absent"
    BY <1>13 DEF PublishWrite, At, TypeOK, RequestsOK, RequestOK, HasTask, RowsExist
  <2>2. UNCHANGED <<rpc, hand>> /\ (UNCHANGED status \/ Life!Publish(req[r].task))
    BY <1>13, <2>1 DEF PublishWrite, Store, Gone, Life!Publish, Life!Stored, Life!Set
  <2>3. QED
    BY <2>1, <2>2, UserSteps, Stutters
<1>14. ASSUME NEW r \in Requests, PauseMemory(r) PROVE Simulated
  BY <1>14, Stutters DEF PauseMemory
<1>15. ASSUME NEW r \in Requests, PauseApply(r) PROVE Simulated
  BY <1>15, Stutters DEF PauseApply
<1>16. ASSUME NEW r \in Requests, ResumeMemory(r) PROVE Simulated
  BY <1>16, Stutters DEF ResumeMemory
<1>17. ASSUME NEW r \in Requests, ResumeScan(r) PROVE Simulated
  BY <1>17, Stutters DEF ResumeScan
<1>18. ASSUME NEW p \in Projects, PatchPaused(p) PROVE Simulated
  BY <1>18, Stutters DEF PatchPaused
<1>19. ASSUME NEW p \in Projects, DeleteProject(p) PROVE Simulated
  BY <1>19, Stutters DEF DeleteProject
<1>20. CASE WorkerGet
  <2>1. UNCHANGED <<status, rpc>> /\ rpc = "none"
    BY <1>20 DEF WorkerGet, TypeOK
  <2>2. QED
    BY <2>1, Stutters
<1>21. CASE WorkerSkip
  <2>1. UNCHANGED <<status, rpc>> /\ rpc = "none"
    BY <1>21 DEF WorkerSkip, TypeOK
  <2>2. QED
    BY <2>1, Stutters
<1>22. CASE WorkerDefer
  <2>1. UNCHANGED <<status, rpc>> /\ rpc = "none"
    BY <1>22 DEF WorkerDefer, TypeOK
  <2>2. QED
    BY <2>1, Stutters
<1>23. CASE WorkerDispatch
  <2>1. hand \in Tasks /\ rpc = "none" /\ status[hand] = "queued"
    BY <1>23 DEF WorkerDispatch, HandIsQueued, TypeOK
  <2>2. Life!Take(hand)
    BY <1>23, <2>1 DEF WorkerDispatch, Life!Take, ActiveTask, Stage
  <2>3. QED
    BY <2>1, <2>2 DEF Simulated, Life!LifeNext
<1>24. CASE WorkerCollect
  <2>1. UNCHANGED status /\ UNCHANGED <<ActiveTask, Stage>>
    BY <1>24 DEF WorkerCollect, ActiveTask, Stage
  <2>2. QED
    BY <2>1 DEF Simulated, Life!lifeVars
<1>25. CASE RunLoad
  <2>1. CASE rpc' = "start"
    BY <1>25, <2>1 DEF RunLoad, RunFrame, Simulated, Life!lifeVars, ActiveTask, Stage
  <2>2. CASE rpc' = "ended"
    <3>1. Life!Vanish
      BY <1>25, <2>2, <1>a DEF RunLoad, Life!Vanish, Life!Leave, ActiveTask, Stage
    <3>2. QED
      BY <3>1 DEF Simulated, Life!LifeNext
  <2>3. QED
    BY <1>25, <2>1, <2>2 DEF RunLoad
<1>26. CASE RunStart
  <2>1. CASE Gone(hand)
    <3>1. Life!Vanish
      BY <1>26, <2>1, <1>a DEF RunStart, RunWrite, Life!Vanish, Life!Leave, ActiveTask, Stage
    <3>2. QED
      BY <3>1 DEF Simulated, Life!LifeNext
  <2>2. CASE ~Gone(hand)
    <3>1. hand \in Tasks /\ UNCHANGED hand
      BY <1>26, <1>a DEF RunStart, RunWrite, RunFrame
    <3>2. status[hand] \in {"queued", "cancelled", "published", "conflict"}
      BY <1>26, <2>2, <3>1 DEF RunStart, Gone, TakenRow, TypeOK, Status
    <3>3. Life!Start
      BY <1>26, <2>2, <3>1, <3>2, <1>a DEF RunStart, RunWrite, Store, Life!Start, Life!Set, Life!Leave, ActiveTask, Stage
    <3>4. QED
      BY <3>3 DEF Simulated, Life!LifeNext
  <2>3. QED
    BY <2>1, <2>2
<1>27. CASE RunDone
  <2>1. CASE Gone(hand)
    <3>1. Life!Vanish
      BY <1>27, <2>1, <1>a DEF RunDone, RunWrite, Life!Vanish, Life!Leave, ActiveTask, Stage
    <3>2. QED
      BY <3>1 DEF Simulated, Life!LifeNext
  <2>2. CASE ~Gone(hand)
    <3>1. hand \in Tasks /\ UNCHANGED hand
      BY <1>27, <1>a DEF RunDone, RunWrite, RunFrame
    <3>2. status[hand] \in {"running", "cancelled", "published", "conflict"}
      BY <1>27, <2>2, <3>1 DEF RunDone, Gone, ExecutionExclusive, TypeOK, Status
    <3>3. Life!Succeed
      BY <1>27, <2>2, <3>1, <3>2, <1>a DEF RunDone, RunWrite, Store, Life!Succeed, Life!Set, Life!Leave, ActiveTask, Stage
    <3>4. QED
      BY <3>3 DEF Simulated, Life!LifeNext
  <2>3. QED
    BY <2>1, <2>2
<1>28. CASE RunFailed
  <2>1. CASE Gone(hand)
    <3>1. Life!Vanish
      BY <1>28, <2>1, <1>a DEF RunFailed, RunWrite, Life!Vanish, Life!Leave, ActiveTask, Stage
    <3>2. QED
      BY <3>1 DEF Simulated, Life!LifeNext
  <2>2. CASE ~Gone(hand)
    <3>1. hand \in Tasks /\ UNCHANGED hand
      BY <1>28, <1>a DEF RunFailed, RunWrite, RunFrame
    <3>2. status[hand] \in {"running", "cancelled", "published", "conflict"}
      BY <1>28, <2>2, <3>1 DEF RunFailed, Gone, ExecutionExclusive, TypeOK, Status
    <3>3. Life!GiveUp
      BY <1>28, <2>2, <3>1, <3>2, <1>a DEF RunFailed, RunWrite, Store, Life!GiveUp, Life!Set, Life!Leave, ActiveTask, Stage
    <3>4. QED
      BY <3>3 DEF Simulated, Life!LifeNext
  <2>3. QED
    BY <2>1, <2>2
<1>29. CASE RunReturn
  <2>1. Life!Vanish
    BY <1>29, <1>a DEF RunReturn, Life!Vanish, Life!Leave, ActiveTask, Stage
  <2>2. QED
    BY <2>1 DEF Simulated, Life!LifeNext
<1>30. CASE RunCancelled
  <2>1. CASE rpc = "load"
    <3>1. Life!Vanish
      BY <1>30, <2>1, <1>a DEF RunCancelled, Life!Vanish, Life!Leave, ActiveTask, Stage
    <3>2. QED
      BY <3>1 DEF Simulated, Life!LifeNext
  <2>2. CASE rpc \in {"start", "work", "saved"}
    <3>1. rpc' \in {"toQueued", "toCancelled"} /\ UNCHANGED <<status, hand>>
      BY <1>30, <2>2 DEF RunCancelled, RunFrame
    <3>2. Life!Told
      BY <2>2, <3>1 DEF Life!Told, ActiveTask, Stage
    <3>3. QED
      BY <3>2 DEF Simulated, Life!LifeNext
  <2>3. QED
    BY <1>30, <2>1, <2>2 DEF RunCancelled
<1>31. CASE RunUnwind
  <2>1. CASE Gone(hand)
    <3>1. Life!Vanish
      BY <1>31, <2>1, <1>a DEF RunUnwind, Life!Vanish, Life!Leave, ActiveTask, Stage
    <3>2. QED
      BY <3>1 DEF Simulated, Life!LifeNext
  <2>2. CASE ~Gone(hand)
    <3>1. status[hand] \notin {"absent", "deleted"}
      BY <1>31, <2>2 DEF RunUnwind, Gone, RowsExist
    <3>2. Life!Stop
      BY <1>31, <2>2, <3>1, <1>a DEF RunUnwind, Store, Life!Stop, Life!Stored, Life!Set, Life!Leave, ActiveTask, Stage
    <3>3. QED
      BY <3>2 DEF Simulated, Life!LifeNext
  <2>3. QED
    BY <2>1, <2>2
<1>32. CASE RunUnwindFails
  <2>1. Life!Vanish
    BY <1>32, <1>a DEF RunUnwindFails, Life!Vanish, Life!Leave, ActiveTask, Stage
  <2>2. QED
    BY <2>1 DEF Simulated, Life!LifeNext
<1>33. CASE Startup
  <2>1. rpc = "none" /\ UNCHANGED <<rpc, hand>>
    BY <1>33 DEF Startup, TypeOK
  <2>2. Life!Restart
    BY <1>33, <2>1 DEF Startup, Life!Restart, ActiveTask, Stage
  <2>3. QED
    BY <2>2 DEF Simulated, Life!LifeNext
<1>34. CASE Shutdown
  BY <1>34, Stutters DEF Shutdown
<1>35. CASE Exit
  <2>1. CASE rpc \in {"none", "ended"}
    BY <1>35, <2>1 DEF Exit, Simulated, Life!lifeVars, ActiveTask, Stage
  <2>2. CASE rpc \notin {"none", "ended"}
    <3>1. Life!Vanish
      BY <1>35, <2>2, <1>a DEF Exit, Life!Vanish, Life!Leave, ActiveTask, Stage
    <3>2. QED
      BY <3>1 DEF Simulated, Life!LifeNext
  <2>3. QED
    BY <2>1, <2>2
<1>36. CASE UNCHANGED vars
  BY <1>36, Stutters DEF vars
<1>37. QED
  BY <1>1, <1>2, <1>3, <1>4, <1>5, <1>6, <1>7, <1>8, <1>9, <1>10, <1>11, <1>12, <1>13, <1>14,
     <1>15, <1>16, <1>17, <1>18, <1>19, <1>20, <1>21, <1>22, <1>23, <1>24, <1>25, <1>26,
     <1>27, <1>28, <1>29, <1>30, <1>31, <1>32, <1>33, <1>34, <1>35, <1>36
  DEF Next, RequestStart, RequestStep, Worker, Run

\* The server implements the life of a task as TaskLifecycle states it: whatever
\* requests, worker, pauses, crashes and restarts do, each step is one of its
\* steps or leaves the rows and the execution as they are.
THEOREM Implements == Spec => LifecycleImplemented
<1>1. Init => Life!LifeInit /\ RowsExist /\ TakenRow
  BY DEF Init, Life!LifeInit, ActiveTask, Stage, RowsExist, TakenRow, Idle
<1>2. TypeOK /\ RowsExist /\ [Next]_vars => RowsExist'
  BY RowsStep
<1>3. TypeOK /\ TakenRow /\ [Next]_vars => TakenRow'
  BY TakenStep
<1>4. TypeOK /\ ExecutionExclusive /\ RowsExist /\ TakenRow /\ [Next]_vars
        => [Life!LifeNext]_Life!lifeVars
  BY SimulationStep DEF Simulated
<1>5. QED
  BY <1>1, <1>2, <1>3, <1>4, TypeCorrect, Exclusive, PTL
  DEF Spec, LifecycleImplemented, Life!LifeSpec
=============================================================================
