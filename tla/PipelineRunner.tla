--------------------------- MODULE PipelineRunner ---------------------------
(***************************************************************************)
(* The life of a translation task: the row in table tasks, the in-memory   *)
(* queue of backend/app/services/pipeline_runner.py, the one worker that    *)
(* drains it, the execution of a task, and every request handler that       *)
(* writes Task.status (routes/tasks.py, routes/projects.py, the creators of *)
(* routes/webhook.py and services/tasks.py, the startup of main.py).        *)
(*                                                                          *)
(* The process is a single asyncio event loop, so what lies between two     *)
(* awaits is one step here and everything may interleave at an await.  A    *)
(* handler that reads a row, awaits and writes it back is therefore a Read  *)
(* and a Write action linked by the request's program counter.              *)
(***************************************************************************)
EXTENDS Naturals, Sequences, FiniteSets, Functions

CONSTANTS
    Tasks,           \* rows of table tasks, created or still to be created
    Projects,        \* rows of table projects
    InitialProject,  \* project_id a task is created with (None for an upload)
    Uploads,         \* the tasks is_manual_upload_task() is true of
    Requests,        \* HTTP requests the server handles at the same time
    None,            \* Python's None / SQL NULL
    Ops,             \* the operations of the environment (see AllOps)
    MaxQueue         \* bound: longest in-memory queue or deferred list

AllOps == {"create", "cancel", "delete", "retry", "publish", "pause", "resume",
           "patch", "deleteProject", "crash", "shutdown"}

ASSUME ConstantsAssumption ==
    /\ IsFiniteSet(Tasks)
    /\ None \notin Tasks \cup Projects
    /\ InitialProject \in [Tasks -> Projects \cup {None}]
    /\ Uploads \subseteq Tasks
    /\ Ops \subseteq AllOps
    /\ MaxQueue \in Nat

VARIABLES
    \* --- PostgreSQL
    status,      \* tasks.status, "absent" before INSERT, "deleted" after DELETE
    project,     \* tasks.project_id
    projects,    \* rows of table projects that exist
    pausedDb,    \* projects.pipeline_paused
    \* --- memory of the server process
    server,      \* "up", "stopping" (the lifespan is shutting down), "down"
    queue,       \* _PIPELINE_QUEUE
    scheduled,   \* keys of _SCHEDULED_PIPELINES
    deferred,    \* _DEFERRED_TASKS
    pausedMem,   \* _PAUSED_PROJECTS
    wpc,         \* where _queue_worker stands
    hand,        \* its local task_id; _CURRENT_TASK_ID while wpc = "await"
    rpc,         \* where run_task(hand) stands
    signalled,   \* cancel() was called on it, CancelledError not yet raised
    req,         \* the requests in progress
    \* --- history
    asked,       \* tasks a user cancelled through POST /tasks/{id}/cancel
    interrupted, \* since startup: tasks whose CancelledError handler failed to commit
    missed       \* since startup: queued tasks a resume can no longer find

dbVars   == <<status, project, projects, pausedDb>>
memVars  == <<queue, scheduled, deferred, pausedMem>>
workVars == <<wpc, hand, rpc, signalled>>
history  == <<asked, interrupted, missed>>
vars     == <<dbVars, server, memVars, workVars, req, history>>

TaskIds  == Tasks \cup {None}
Status   == {"absent", "queued", "running", "done", "failed", "cancelled",
             "conflict", "published", "deleted"}

RequestPc == {"idle", "schedule", "cancelWrite", "cancelSignal", "deleteWrite",
              "retryWrite", "publishWrite", "pauseMemory", "pauseApply",
              "resumeMemory", "resumeScan"}

Idle == [pc |-> "idle", task |-> None, project |-> None, seen |-> "absent",
         keys |-> {}]

\* A request moves to pc, keeping the fields its handler has already read.
Goto(r, pc) == req' = [req EXCEPT ![r].pc = pc]
Finish(r)   == req' = [req EXCEPT ![r] = Idle]

\* The handler of r starts with task t (or project p) in the URL.
StartOn(r, t, pc) ==
    /\ server = "up"
    /\ req[r] = Idle
    /\ req' = [req EXCEPT ![r] = [Idle EXCEPT !.pc = pc, !.task = t,
                                              !.seen = status[t]]]

StartOnProject(r, p, pc) ==
    /\ server = "up"
    /\ req[r] = Idle
    /\ p \in projects
    /\ req' = [req EXCEPT ![r] = [Idle EXCEPT !.pc = pc, !.project = p]]

At(r, pc) == server = "up" /\ req[r].pc = pc

\* ORM write of tasks.status: UPDATE ... WHERE id = t, whatever the row holds;
\* callers handle the row being gone (StaleDataError).
Gone(t) == status[t] = "deleted"
Store(t, s) == status' = [status EXCEPT ![t] = s]

\* Sequences that list every element of S once: ORDER BY created_at, with the
\* creation times left open.
Orderings(S) == {s \in [1..Cardinality(S) -> S] : Range(s) = S}

\* _CURRENT_TASK_ID; _CURRENT_EXECUTION is set exactly when this is not None.
CurrentTask == IF wpc = "await" THEN hand ELSE None

\* _CURRENT_EXECUTION.cancel(): no effect on an execution that has finished.
CancelExecution == signalled' = (rpc # "ended")

Init ==
    /\ status \in [Tasks -> {"absent", "queued"}]
    /\ project = InitialProject
    /\ projects = Projects
    /\ pausedDb \in SUBSET Projects
    /\ server = "down"
    /\ queue = << >>
    /\ scheduled = {}
    /\ deferred = [p \in Projects |-> << >>]
    /\ pausedMem = {}
    /\ wpc = "dead"
    /\ hand = None
    /\ rpc = "none"
    /\ signalled = FALSE
    /\ req = [r \in Requests |-> Idle]
    /\ asked = {}
    /\ interrupted = {}
    /\ missed = {}

-----------------------------------------------------------------------------
(* Requests that create a task, or bring one back to queued.                *)

\* Webhook, manual form or confirmed commit group: INSERT status = queued.
CreateTask(r, t) ==
    /\ "create" \in Ops
    /\ status[t] = "absent"
    /\ project[t] \in projects \cup {None}
    /\ StartOn(r, t, "schedule")
    /\ Store(t, "queued")
    /\ UNCHANGED <<project, projects, pausedDb, server, memVars, workVars, history>>

\* schedule_task after the commit has returned.
ScheduleTask(r) ==
    /\ At(r, "schedule")
    /\ LET t == req[r].task IN
         \/ /\ t \in scheduled
            /\ UNCHANGED <<queue, scheduled>>
         \/ /\ t \notin scheduled
            /\ Len(queue) < MaxQueue
            /\ queue' = Append(queue, t)
            /\ scheduled' = scheduled \cup {t}
    /\ Finish(r)
    /\ UNCHANGED <<dbVars, server, deferred, pausedMem, workVars, history>>

\* reset_task_for_retry reads the row and asks GitHub for the source sha ...
RetryRead(r, t) ==
    /\ "retry" \in Ops
    /\ status[t] \in {"done", "failed"}
    /\ t \in Uploads \/ project[t] # None
    /\ StartOn(r, t, "retryWrite")
    /\ UNCHANGED <<dbVars, server, memVars, workVars, history>>

\* Mutated form of RetryWrite: no comparison with the status that was read.
RetryWriteNoCas(r) ==
    /\ At(r, "retryWrite")
    /\ Store(req[r].task, "queued")
    /\ Goto(r, "schedule")
    /\ UNCHANGED <<project, projects, pausedDb, server, memVars, workVars, history>>

\* ... and then updates it only if the status is still the one it read.
RetryWrite(r) ==
    /\ At(r, "retryWrite")
    /\ LET t == req[r].task IN
         \/ /\ status[t] = req[r].seen
            /\ Store(t, "queued")
            /\ Goto(r, "schedule")
         \/ /\ status[t] # req[r].seen     \* 409
            /\ Finish(r)
            /\ UNCHANGED status
    /\ UNCHANGED <<project, projects, pausedDb, server, memVars, workVars, history>>

-----------------------------------------------------------------------------
(* Requests that end a task.                                                *)

CancelRead(r, t) ==
    /\ "cancel" \in Ops
    /\ status[t] \in {"queued", "running"}
    /\ StartOn(r, t, "cancelWrite")
    /\ UNCHANGED <<dbVars, server, memVars, workVars, history>>

\* Both branches commit status = cancelled; only the branch that read running
\* goes on to signal the execution.
CancelWrite(r) ==
    /\ At(r, "cancelWrite")
    /\ LET t == req[r].task IN
         \/ /\ Gone(t)
            /\ Finish(r)
            /\ UNCHANGED <<status, asked>>
         \/ /\ ~Gone(t)
            /\ Store(t, "cancelled")
            /\ asked' = asked \cup {t}
            /\ IF req[r].seen = "queued" THEN Finish(r) ELSE Goto(r, "cancelSignal")
    /\ UNCHANGED <<project, projects, pausedDb, server, memVars, workVars, interrupted, missed>>

\* cancel_task(task_id).
CancelSignal(r) ==
    /\ At(r, "cancelSignal")
    /\ IF CurrentTask = req[r].task THEN CancelExecution ELSE UNCHANGED signalled
    /\ Finish(r)
    /\ UNCHANGED <<dbVars, server, memVars, wpc, hand, rpc, history>>

DeleteRead(r, t) ==
    /\ "delete" \in Ops
    /\ status[t] = "queued"
    /\ StartOn(r, t, "deleteWrite")
    /\ UNCHANGED <<dbVars, server, memVars, workVars, history>>

\* DELETE FROM tasks WHERE id = t; a copy of the id may stay in the queue.
DeleteWrite(r) ==
    /\ At(r, "deleteWrite")
    /\ Store(req[r].task, "deleted")
    /\ project' = [project EXCEPT ![req[r].task] = None]
    /\ Finish(r)
    /\ UNCHANGED <<projects, pausedDb, server, memVars, workVars, history>>

\* publish_task reads the row, talks to GitHub for a while ...
PublishRead(r, t) ==
    /\ "publish" \in Ops
    /\ status[t] \in {"done", "conflict"}
    /\ project[t] # None
    /\ StartOn(r, t, "publishWrite")
    /\ UNCHANGED <<dbVars, server, memVars, workVars, history>>

\* ... and stores published or conflict without comparing the status again.
\* A conflict found on a task read as conflict changes no ORM attribute.
PublishWrite(r) ==
    /\ At(r, "publishWrite")
    /\ LET t == req[r].task IN
         \/ Gone(t) /\ UNCHANGED status
         \/ ~Gone(t) /\ Store(t, "published")
         \/ /\ ~Gone(t)
            /\ IF req[r].seen = "conflict" THEN UNCHANGED status ELSE Store(t, "conflict")
    /\ Finish(r)
    /\ UNCHANGED <<project, projects, pausedDb, server, memVars, workVars, history>>

-----------------------------------------------------------------------------
(* Pausing and resuming a project.                                          *)

PauseProject(r, p) ==
    /\ "pause" \in Ops
    /\ StartOnProject(r, p, "pauseMemory")
    /\ pausedDb' = pausedDb \cup {p}
    /\ UNCHANGED <<status, project, projects, server, memVars, workVars, history>>

\* pause_project up to the await: the id of the current task is the argument
\* of session.get.
PauseMemory(r) ==
    /\ At(r, "pauseMemory")
    /\ pausedMem' = pausedMem \cup {req[r].project}
    /\ IF CurrentTask = None
         THEN Finish(r)
         ELSE req' = [req EXCEPT ![r].pc = "pauseApply", ![r].task = CurrentTask]
    /\ UNCHANGED <<dbVars, server, queue, scheduled, deferred, workVars, history>>

\* ... and after it: the row read is the old current task's, what is parked
\* and cancelled is whatever is current now.  With nothing current, None is
\* parked and .cancel() raises AttributeError.
PauseApply(r) ==
    /\ At(r, "pauseApply")
    /\ LET p == req[r].project IN
         \/ /\ project[req[r].task] # p
            /\ UNCHANGED <<deferred, signalled>>
         \/ /\ project[req[r].task] = p
            /\ Len(deferred[p]) < MaxQueue
            /\ deferred' = [deferred EXCEPT ![p] = Append(@, CurrentTask)]
            /\ IF CurrentTask # None THEN CancelExecution ELSE UNCHANGED signalled
    /\ Finish(r)
    /\ UNCHANGED <<dbVars, server, queue, scheduled, pausedMem, wpc, hand, rpc, history>>

ResumeProject(r, p) ==
    /\ "resume" \in Ops
    /\ StartOnProject(r, p, "resumeMemory")
    /\ pausedDb' = pausedDb \ {p}
    /\ UNCHANGED <<status, project, projects, server, memVars, workVars, history>>

\* Mutated form of ResumeMemory: the parked ids are marked but not put back.
ResumeMemoryMarksOnly(r) ==
    /\ At(r, "resumeMemory")
    /\ pausedMem' = pausedMem \ {req[r].project}
    /\ scheduled' = scheduled \cup Range(deferred[req[r].project])
    /\ deferred' = [deferred EXCEPT ![req[r].project] = << >>]
    /\ req' = [req EXCEPT ![r].pc = "resumeScan", ![r].keys = scheduled']
    /\ UNCHANGED <<dbVars, server, queue, workVars, history>>

\* resume_project up to the await: the deferred list goes back to the queue,
\* without a look at _SCHEDULED_PIPELINES, and the keys for the scan are fixed.
ResumeMemory(r) ==
    /\ At(r, "resumeMemory")
    /\ LET p == req[r].project IN
         /\ Len(queue) + Len(deferred[p]) <= MaxQueue
         /\ pausedMem' = pausedMem \ {p}
         /\ queue' = queue \o deferred[p]
         /\ scheduled' = scheduled \cup Range(deferred[p])
         /\ deferred' = [deferred EXCEPT ![p] = << >>]
    /\ req' = [req EXCEPT ![r].pc = "resumeScan", ![r].keys = scheduled']
    /\ UNCHANGED <<dbVars, server, workVars, history>>

\* SELECT id ... WHERE id NOT IN (keys): never true once keys holds a NULL.
Unscheduled(p, keys) ==
    {t \in Tasks : project[t] = p /\ status[t] = "queued" /\ t \notin keys}

ScanResult(p, keys) == IF None \in keys THEN {} ELSE Unscheduled(p, keys)

ResumeScan(r) ==
    /\ At(r, "resumeScan")
    /\ LET p == req[r].project
           keys == req[r].keys
       IN /\ \E found \in Orderings(ScanResult(p, keys)) :
               /\ Len(queue) + Len(found) <= MaxQueue
               /\ queue' = queue \o found
               /\ scheduled' = scheduled \cup Range(found)
          /\ missed' = missed \cup (Unscheduled(p, keys) \ ScanResult(p, keys))
    /\ Finish(r)
    /\ UNCHANGED <<dbVars, server, deferred, pausedMem, workVars, asked, interrupted>>

\* The scan of a resume, this one or the next, is to find task t.
AwaitsScan(t) ==
    \/ project[t] \in pausedMem
    \/ \E r \in Requests : /\ req[r].pc = "resumeScan"
                           /\ req[r].project = project[t]
                           /\ t \notin req[r].keys

\* PATCH /projects/{id} accepts pipeline_paused and changes the row only.
PatchPaused(p) ==
    /\ "patch" \in Ops
    /\ server = "up"
    /\ p \in projects
    /\ pausedDb' = IF p \in pausedDb THEN pausedDb \ {p} ELSE pausedDb \cup {p}
    /\ UNCHANGED <<status, project, projects, server, memVars, workVars, req, history>>

\* DELETE /projects/{id}: its tasks stay, with project_id NULL.
DeleteProject(p) ==
    /\ "deleteProject" \in Ops
    /\ server = "up"
    /\ p \in projects
    /\ projects' = projects \ {p}
    /\ pausedDb' = pausedDb \ {p}
    /\ project' = [t \in Tasks |->
                     IF project[t] = p /\ status[t] # "absent" THEN None ELSE project[t]]
    /\ missed' = missed \cup {t \in Tasks : /\ project[t] = p
                                            /\ status[t] = "queued"
                                            /\ AwaitsScan(t)}
    /\ UNCHANGED <<status, server, memVars, workVars, req, asked, interrupted>>

-----------------------------------------------------------------------------
(* The worker.                                                              *)

\* Mutated form of WorkerGet: the mark outlives the queue entry.
WorkerGetKeepsMark ==
    /\ wpc = "get"
    /\ queue # << >>
    /\ hand' = Head(queue)
    /\ queue' = Tail(queue)
    /\ wpc' = "lookup"
    /\ UNCHANGED <<dbVars, server, scheduled, deferred, pausedMem, rpc, signalled, req, history>>

WorkerGet ==
    /\ wpc = "get"
    /\ queue # << >>
    /\ hand' = Head(queue)
    /\ queue' = Tail(queue)
    /\ scheduled' = scheduled \ {Head(queue)}
    /\ wpc' = "lookup"
    /\ UNCHANGED <<dbVars, server, deferred, pausedMem, rpc, signalled, req, history>>

NextTask == wpc' = "get" /\ hand' = None

HandIsQueued == hand \in Tasks /\ status[hand] = "queued"

\* Not a queued row any more, or id None: take the next one.
WorkerSkip ==
    /\ wpc = "lookup"
    /\ ~HandIsQueued
    /\ NextTask
    /\ UNCHANGED <<dbVars, server, memVars, rpc, signalled, req, history>>

WorkerDefer ==
    /\ wpc = "lookup"
    /\ HandIsQueued
    /\ project[hand] \in pausedMem
    /\ Len(deferred[project[hand]]) < MaxQueue
    /\ deferred' = [deferred EXCEPT ![project[hand]] = Append(@, hand)]
    /\ NextTask
    /\ UNCHANGED <<dbVars, server, queue, scheduled, pausedMem, rpc, signalled, req, history>>

\* Mutated form of WorkerDispatch: the paused projects are not looked at.
WorkerDispatchPaused ==
    /\ wpc = "lookup"
    /\ HandIsQueued
    /\ wpc' = "await"
    /\ rpc' = "load"
    /\ UNCHANGED <<dbVars, server, memVars, hand, signalled, req, history>>

WorkerDispatch ==
    /\ wpc = "lookup"
    /\ HandIsQueued
    /\ project[hand] \notin pausedMem
    /\ wpc' = "await"
    /\ rpc' = "load"
    /\ UNCHANGED <<dbVars, server, memVars, hand, signalled, req, history>>

\* Mutated form of WorkerCollect: an exception of run_task leaves the loop.
WorkerCollectDies ==
    /\ wpc = "await"
    /\ rpc = "ended"
    /\ wpc' = "dead"
    /\ hand' = None
    /\ rpc' = "none"
    /\ signalled' = FALSE
    /\ UNCHANGED <<dbVars, server, memVars, req, history>>

\* Mutated form of WorkerCollect: _CURRENT_TASK_ID is not cleared.
WorkerCollectKeepsCurrent ==
    /\ wpc = "await"
    /\ rpc = "ended"
    /\ wpc' = "get"
    /\ UNCHANGED <<dbVars, server, memVars, hand, rpc, signalled, req, history>>

\* The execution ended, by whatever exception: clear _CURRENT_*, go on.
WorkerCollect ==
    /\ wpc = "await"
    /\ rpc = "ended"
    /\ NextTask
    /\ rpc' = "none"
    /\ signalled' = FALSE
    /\ UNCHANGED <<dbVars, server, memVars, req, history>>

Worker == WorkerGet \/ WorkerSkip \/ WorkerDefer \/ WorkerDispatch \/ WorkerCollect

-----------------------------------------------------------------------------
(* run_task(hand).                                                          *)

RunFrame == UNCHANGED <<project, projects, pausedDb, server, memVars, wpc, hand, req, asked, missed>>

\* session.get and the check that the row is still queued.
RunLoad ==
    /\ rpc = "load" /\ ~signalled
    /\ rpc' = IF status[hand] = "queued" THEN "start" ELSE "ended"
    /\ UNCHANGED <<status, signalled, interrupted>>
    /\ RunFrame

\* One write of run_task outside its CancelledError handler.
RunWrite(s, next) ==
    /\ ~signalled
    /\ \/ Gone(hand) /\ UNCHANGED status /\ rpc' = "ended"
       \/ ~Gone(hand) /\ Store(hand, s) /\ rpc' = next
    /\ UNCHANGED <<signalled, interrupted>>
    /\ RunFrame

RunStart  == rpc = "start" /\ RunWrite("running", "work")
RunDone   == rpc = "work" /\ RunWrite("done", "saved")
RunFailed == rpc = "work" /\ RunWrite("failed", "ended")

\* done is in the database and the coroutine is on its way out.
RunReturn ==
    /\ rpc = "saved"
    /\ rpc' = "ended"
    /\ UNCHANGED <<status, signalled, interrupted>>
    /\ RunFrame

IsDeferred == \E p \in Projects : hand \in Range(deferred[p])

\* CancelledError reaches the coroutine: before the try block it just ends it,
\* afterwards the handler chooses by the deferred lists.  It may still hit the
\* await of the last commit, when done has been stored.
RunCancelled ==
    /\ signalled
    /\ signalled' = FALSE
    /\ \/ rpc = "load" /\ rpc' = "ended"
       \/ /\ rpc \in {"start", "work", "saved"}
          /\ rpc' = IF IsDeferred THEN "toQueued" ELSE "toCancelled"
    /\ UNCHANGED <<status, interrupted>>
    /\ RunFrame

\* The handler's commit.
RunUnwind ==
    /\ rpc \in {"toQueued", "toCancelled"}
    /\ rpc' = "ended"
    /\ IF Gone(hand) THEN UNCHANGED status
       ELSE Store(hand, IF rpc = "toQueued" THEN "queued" ELSE "cancelled")
    /\ UNCHANGED <<signalled, interrupted>>
    /\ RunFrame

\* The handler's commit raises: a second cancel() interrupts it, or the session's
\* connection died with the await the first one hit.  Nothing catches it, as
\* nothing catches a CancelledError that hits the commit of failed ("work").
RunUnwindFails ==
    /\ rpc \in {"work", "toQueued", "toCancelled"}
    /\ rpc = "work" => signalled
    /\ rpc' = "ended"
    /\ interrupted' = interrupted \cup {hand}
    /\ UNCHANGED <<status, signalled>>
    /\ RunFrame

Run == \/ RunLoad \/ RunStart \/ RunDone \/ RunFailed \/ RunReturn
       \/ RunCancelled \/ RunUnwind \/ RunUnwindFails

-----------------------------------------------------------------------------
(* The process.                                                             *)

\* Mutated form of Startup: running rows are left as they are.
StartupNoReset ==
    /\ server = "down"
    /\ pausedMem' = pausedDb
    /\ \E ids \in Orderings({t \in Tasks : status[t] = "queued" /\ project[t] \notin pausedDb}) :
         /\ Len(ids) <= MaxQueue
         /\ queue' = ids
         /\ scheduled' = Range(ids)
    /\ server' = "up"
    /\ wpc' = "get"
    /\ interrupted' = {}
    /\ missed' = {}
    /\ UNCHANGED <<dbVars, deferred, hand, rpc, signalled, req, asked>>

\* Lifespan before yield: running rows back to queued, paused flags loaded,
\* queued tasks of projects that are not paused enqueued, worker started.
Startup ==
    /\ server = "down"
    /\ status' = [t \in Tasks |-> IF status[t] = "running" THEN "queued" ELSE status[t]]
    /\ pausedMem' = pausedDb
    /\ \E ids \in Orderings({t \in Tasks : status'[t] = "queued" /\ project[t] \notin pausedDb}) :
         /\ Len(ids) <= MaxQueue
         /\ queue' = ids
         /\ scheduled' = Range(ids)
    /\ server' = "up"
    /\ wpc' = "get"
    /\ interrupted' = {}
    /\ missed' = {}
    /\ UNCHANGED <<project, projects, pausedDb, deferred, hand, rpc, signalled, req, asked>>

\* Lifespan after yield, once the requests in flight have been answered:
\* worker.cancel() ends a worker waiting for its queue or its session, but a
\* worker awaiting an execution hands the cancellation on and swallows it.
Shutdown ==
    /\ "shutdown" \in Ops
    /\ server = "up"
    /\ \A r \in Requests : req[r] = Idle
    /\ server' = "stopping"
    /\ IF wpc = "await"
         THEN CancelExecution /\ UNCHANGED wpc
         ELSE wpc' = "dead" /\ UNCHANGED signalled
    /\ UNCHANGED <<dbVars, memVars, hand, rpc, req, history>>

\* The process is gone: it crashed, or the lifespan returned.
Exit ==
    /\ \/ "crash" \in Ops /\ server # "down"
       \/ server = "stopping" /\ wpc = "dead"
    /\ server' = "down"
    /\ queue' = << >>
    /\ scheduled' = {}
    /\ deferred' = [p \in Projects |-> << >>]
    /\ pausedMem' = {}
    /\ wpc' = "dead"
    /\ hand' = None
    /\ rpc' = "none"
    /\ signalled' = FALSE
    /\ req' = [r \in Requests |-> Idle]
    /\ UNCHANGED <<dbVars, history>>

RequestStart(r) ==
    \/ \E t \in Tasks : \/ CreateTask(r, t) \/ RetryRead(r, t) \/ CancelRead(r, t)
                        \/ DeleteRead(r, t) \/ PublishRead(r, t)
    \/ \E p \in Projects : PauseProject(r, p) \/ ResumeProject(r, p)

RequestStep(r) ==
    \/ ScheduleTask(r) \/ RetryWrite(r) \/ CancelWrite(r) \/ CancelSignal(r)
    \/ DeleteWrite(r) \/ PublishWrite(r) \/ PauseMemory(r) \/ PauseApply(r)
    \/ ResumeMemory(r) \/ ResumeScan(r)

Next ==
    \/ \E r \in Requests : RequestStart(r) \/ RequestStep(r)
    \/ \E p \in Projects : PatchPaused(p) \/ DeleteProject(p)
    \/ Worker
    \/ Run
    \/ Startup \/ Shutdown \/ Exit

Spec == Init /\ [][Next]_vars

\* The event loop resumes every coroutine whose await has returned; GitHub, the
\* database and the pipeline are assumed to answer.  Users owe nothing.
Fairness ==
    /\ WF_vars(Startup)
    /\ WF_vars(Worker)
    /\ WF_vars(Run)
    /\ \A r \in Requests : WF_vars(RequestStep(r))

FairSpec == Spec /\ Fairness

-----------------------------------------------------------------------------
(* Properties.                                                              *)

RequestRecord == [pc : RequestPc, task : TaskIds, project : Projects \cup {None},
                  seen : Status, keys : SUBSET TaskIds]

\* What a handler has read before it gets to a place that uses it.
HasTask == {"schedule", "cancelWrite", "cancelSignal", "deleteWrite", "retryWrite",
            "publishWrite", "pauseApply"}
HasProject == {"pauseMemory", "pauseApply", "resumeMemory", "resumeScan"}

RequestOK(q) ==
    /\ q \in RequestRecord
    /\ q.pc \in HasTask => q.task \in Tasks
    /\ q.pc \in HasProject => q.project \in Projects
    /\ q.pc = "retryWrite" => q.seen \in {"done", "failed"}

RequestsOK ==
    /\ req \in [Requests -> RequestRecord]
    /\ \A r \in Requests : RequestOK(req[r])

\* Types, and the fields that are set exactly in certain places of the code:
\* the worker's local task_id while it has one, run_task while it is awaited,
\* and what each request in progress has read.
TypeOK ==
    /\ status \in [Tasks -> Status]
    /\ project \in [Tasks -> Projects \cup {None}]
    /\ projects \in SUBSET Projects
    /\ pausedDb \in SUBSET Projects
    /\ server \in {"up", "stopping", "down"}
    /\ queue \in Seq(TaskIds)
    /\ scheduled \in SUBSET TaskIds
    /\ deferred \in [Projects -> Seq(TaskIds)]
    /\ pausedMem \in SUBSET Projects
    /\ wpc \in {"get", "lookup", "await", "dead"}
    /\ hand \in TaskIds
    /\ (wpc = "await" => hand \in Tasks)
    /\ rpc \in {"none", "load", "start", "work", "saved", "toQueued", "toCancelled", "ended"}
    /\ (rpc # "none" <=> wpc = "await")
    /\ signalled \in BOOLEAN
    /\ (signalled => wpc = "await")
    /\ (server = "down" => wpc = "dead")
    /\ (server # "up" => \A r \in Requests : req[r] = Idle)
    /\ RequestsOK
    /\ asked \in SUBSET Tasks
    /\ interrupted \in SUBSET Tasks
    /\ missed \in SUBSET Tasks

\* An id marked in _SCHEDULED_PIPELINES is in the queue: the early return of
\* schedule_task, and the NOT IN of the resume scan, never drop a task because
\* of a mark that outlived its queue entry.
ScheduledIsQueued == scheduled \subseteq Range(queue)

\* A row says running only while its execution is alive; the one way out is a
\* CancelledError handler that could not commit.  No zombie after a restart.
RunningHasExecution ==
    server # "down" =>
        \A t \in Tasks :
            status[t] = "running" =>
                \/ hand = t /\ rpc \in {"work", "toQueued", "toCancelled"}
                \/ t \in interrupted

\* While a task is being translated its row cannot be picked up again: no
\* retry, cancel or resume makes it queued, done or failed under the execution.
ExecutionExclusive ==
    rpc = "work" => status[hand] \notin {"absent", "queued", "done", "failed"}

\* The current execution, still heading for its result.
Executing == rpc \in {"load", "start", "work"} /\ ~signalled

\* A pause request of the current task's project is about to cancel it.
BeingPaused == \E r \in Requests :
    req[r].pc = "pauseApply" /\ req[r].task = hand /\ req[r].project = project[hand]

\* Once POST /projects/{id}/pause has returned and until it is resumed, no task
\* of the project is being translated, whatever the worker was doing meanwhile.
PauseStops ==
    server = "up" /\ Executing /\ project[hand] \in pausedMem => BeingPaused

\* Where a queued task waits for its turn when it is not in the worker's hand.
Parked(t) ==
    \/ t \in Range(queue)
    \/ \E p \in Projects : t \in Range(deferred[p])

TrackedElsewhere(t) ==
    \/ Parked(t)
    \/ \E r \in Requests : req[r].pc = "schedule" /\ req[r].task = t
    \/ AwaitsScan(t)

Tracked(t) == hand = t \/ TrackedElsewhere(t)

\* A queued row nobody asked to cancel is in the queue, in the worker's hands,
\* parked for a resume, or about to be scheduled or scanned.  It is forgotten
\* until the next restart in two cases only, collected in missed: a resume scan
\* with a NULL among its keys, and the deletion of a paused project.
QueuedIsTracked ==
    server = "up" =>
        \A t \in Tasks : status[t] = "queued" => Tracked(t) \/ t \in asked \cup missed

\* The same without the two cases: resume finds every queued task.
NoLostTask ==
    server = "up" =>
        \A t \in Tasks : status[t] = "queued" => Tracked(t) \/ t \in asked

\* A task ends as cancelled only if a user cancelled it.
CancelledOnlyByUser == \A t \in Tasks : status[t] = "cancelled" => t \in asked

\* A task the API answered cancelled for stays cancelled.
CancelledIsFinal ==
    [][\A t \in Tasks : status[t] = "cancelled" => status'[t] \in {"cancelled", "deleted"}]_vars

\* A queued task of a project that is not paused is eventually taken up, unless
\* its project is paused or a user cancels it first.
Waiting(t) == status[t] = "queued" /\ t \notin asked /\ project[t] \notin pausedMem

QueuedIsServed ==
    \A t \in Tasks : (server = "up" /\ Waiting(t)) ~> ~Waiting(t)

-----------------------------------------------------------------------------
(* The life of a task as its users know it, implemented by all of the above. *)

\* The task whose execution is alive and the stage of its life it is in.
ActiveTask == IF rpc \in {"none", "ended"} THEN None ELSE hand

Stage == CASE rpc \in {"none", "ended"} -> "idle"
           [] rpc \in {"load", "start"} -> "taken"
           [] rpc = "work" -> "working"
           [] rpc = "saved" -> "saved"
           [] rpc \in {"toQueued", "toCancelled"} -> "stopping"

Life == INSTANCE TaskLifecycle WITH active <- ActiveTask, stage <- Stage

\* Whatever the awaits of handlers, worker and execution let in between, every
\* step is one of the life of a task, or none: a task is taken up from queued
\* only, executed alone, and revived by a retry of an ended task, by the stop
\* of its own execution or by a restart, and by nothing else.
LifecycleImplemented == Life!LifeSpec

-----------------------------------------------------------------------------
(* What makes QueuedIsTracked inductive, with TypeOK and ScheduledIsQueued.  *)

\* Only a task whose row says cancelled by a user is signalled by cancel_task.
CancelsAreAsked == \A r \in Requests : req[r].pc = "cancelSignal" => req[r].task \in asked

\* An execution cancelled by anything but a user is parked for its resume
\* before it is told, and stays parked, or back in the queue, until it ends.
SignalledIsParked ==
    server = "up" /\ (signalled \/ rpc \in {"toQueued", "toCancelled"}) =>
        Parked(hand) \/ hand \in asked

\* A queued row is in the worker's hand only until its execution has started.
Held(t) ==
    \/ TrackedElsewhere(t)
    \/ hand = t /\ (wpc = "lookup" \/ rpc \in {"load", "start"})
    \/ t \in asked \cup missed

QueuedIsHeld == server = "up" => \A t \in Tasks : status[t] = "queued" => Held(t)

\* Why no queued task is forgotten: where it waits, and what becomes of the task
\* in the worker's hand when its execution is told to stop.
Accounted == CancelsAreAsked /\ SignalledIsParked /\ QueuedIsHeld

-----------------------------------------------------------------------------
(* What makes every step one of Life, with TypeOK and ExecutionExclusive.     *)

\* The row a request is about to write, and that of the execution, was created.
RowsExist ==
    /\ \A r \in Requests : req[r].pc \in {"cancelWrite", "deleteWrite", "publishWrite"} =>
                                status[req[r].task] # "absent"
    /\ rpc # "none" => status[hand] # "absent"

\* What users can have made of a task between its being taken up and its start.
TakenRow == rpc = "start" =>
                status[hand] \in {"queued", "cancelled", "published", "conflict", "deleted"}
=============================================================================
