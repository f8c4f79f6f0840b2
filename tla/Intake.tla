------------------------------- MODULE Intake -------------------------------
(***************************************************************************)
(* How tasks of one project come into being: the push webhook               *)
(* (backend/app/api/routes/webhook.py), manual starts and uploads           *)
(* (backend/app/services/tasks.py) and commit groups that wait for a        *)
(* confirmation (backend/app/services/commit_groups.py). Every one of them  *)
(* first looks for active tasks of its files and stores its own later.      *)
(***************************************************************************)
EXTENDS Naturals, FiniteSets, SequencesExt

CONSTANTS
    Files,      \* translatable paths of the project that are not excluded
    Requests,   \* HTTP requests handled at the same time
    Limit,      \* Project.webhook_file_limit
    MaxTasks,   \* bound: tasks created
    MaxGroups   \* bound: commit groups created

ASSUME IntakeAssumption ==
    /\ IsFiniteSet(Files)
    /\ Limit \in Nat /\ MaxTasks \in Nat /\ MaxGroups \in Nat

VARIABLES
    tasks,    \* rows of table tasks, in the order of their creation
    groups,   \* rows of table commit_groups
    req,      \* requests in progress
    run,      \* the one execution: its task, and where run_task stands
    lost      \* history: groups whose confirmation was cut off after its first commit

vars == <<tasks, groups, req, run, lost>>

\* "ended" is done or failed, "closed" is cancelled, published or conflict.
TaskStatus  == {"queued", "running", "ended", "closed", "deleted"}
GroupStatus == {"pending_confirmation", "processing", "done", "cancelled"}
ActiveTaskStatuses == {"queued", "running"}

\* looked: how many tasks there were when the request looked for active ones.
Idle == [pc |-> "idle", files |-> {}, group |-> 0, looked |-> 0]

NoRun == [task |-> 0, pc |-> "none"]

Init ==
    /\ tasks = <<>>
    /\ groups = <<>>
    /\ req = [r \in Requests |-> Idle]
    /\ run = NoRun
    /\ lost = {}

\* Mutated form of Active: a task that runs does not count.
ActiveQueuedOnly(file) == \E i \in DOMAIN tasks : tasks[i].file = file /\ tasks[i].status = "queued"

Active(file) ==
    \E i \in DOMAIN tasks : tasks[i].file = file /\ tasks[i].status \in ActiveTaskStatuses

\* The query for active tasks; the other files go on.
Look(r, pc, files, group) ==
    req' = [req EXCEPT ![r] = [pc |-> pc, files |-> {f \in files : ~Active(f)},
                               group |-> group, looked |-> Len(tasks)]]

Finish(r) == req' = [req EXCEPT ![r] = Idle]

\* Bound: every request in progress may still create a task for each file.
Room ==
    Len(tasks) + (1 + Cardinality({r \in Requests : req[r] # Idle})) * Cardinality(Files)
        <= MaxTasks

-----------------------------------------------------------------------------
(* _process_push. A webhook may be delivered late, twice or not at all.     *)

Webhook(r, files) ==
    /\ req[r] = Idle
    /\ Room
    /\ LET new == {f \in files : ~Active(f)} IN
         /\ new # {}
         /\ Look(r, IF Cardinality(new) > Limit THEN "storeGroup" ELSE "fetch", files, 0)
    /\ UNCHANGED <<tasks, groups, run, lost>>

\* Too many files: a CommitGroup waits for a person instead.
StoreGroup(r) ==
    /\ req[r].pc = "storeGroup"
    /\ Len(groups) < MaxGroups
    /\ groups' = Append(groups, [files |-> req[r].files, status |-> "pending_confirmation"])
    /\ Finish(r)
    /\ UNCHANGED <<tasks, run, lost>>

(* create_manual_tasks_from_repo; create_manual_task_from_upload, which has  *)
(* nothing to fetch.                                                         *)
Manual(r, files, pc) ==
    /\ req[r] = Idle
    /\ Room
    /\ pc \in {"fetch", "store"}
    /\ Look(r, pc, files, 0)
    /\ UNCHANGED <<tasks, groups, run, lost>>

-----------------------------------------------------------------------------
(* confirm_group_route and confirm_commit_group; cancel_group_route.        *)

\* The route has loaded group g.
Take(r, pc, g) ==
    req' = [req EXCEPT ![r] = [pc |-> pc, files |-> {}, group |-> g, looked |-> 0]]

ConfirmRead(r, g) ==
    /\ req[r] = Idle
    /\ Room
    /\ g \in DOMAIN groups
    /\ groups[g].status = "pending_confirmation"
    /\ Take(r, "confirm", g)
    /\ UNCHANGED <<tasks, groups, run, lost>>

ConfirmProcessing(r) ==
    /\ req[r].pc = "confirm"
    /\ groups' = [groups EXCEPT ![req[r].group].status = "processing"]
    /\ req' = [req EXCEPT ![r].pc = "look"]
    /\ UNCHANGED <<tasks, run, lost>>

ConfirmLook(r) ==
    /\ req[r].pc = "look"
    /\ Look(r, "fetch", groups[req[r].group].files, req[r].group)
    /\ UNCHANGED <<tasks, groups, run, lost>>

CancelRead(r, g) ==
    /\ req[r] = Idle
    /\ g \in DOMAIN groups
    /\ groups[g].status = "pending_confirmation"
    /\ Take(r, "cancel", g)
    /\ UNCHANGED <<tasks, groups, run, lost>>

\* Mutated form of CancelWrite: the group is deleted instead.
CancelWriteDeletes(r) ==
    /\ req[r].pc = "cancel"
    /\ groups' = RemoveAt(groups, req[r].group)
    /\ Finish(r)
    /\ UNCHANGED <<tasks, run, lost>>

CancelWrite(r) ==
    /\ req[r].pc = "cancel"
    /\ groups' = [groups EXCEPT ![req[r].group].status = "cancelled"]
    /\ Finish(r)
    /\ UNCHANGED <<tasks, run, lost>>

-----------------------------------------------------------------------------
(* Fetching and storing, the same for all.                                  *)

SetGroup(g, status) ==
    groups' = IF g = 0 THEN groups ELSE [groups EXCEPT ![g].status = status]

FetchSucceeds(r) ==
    /\ req[r].pc = "fetch"
    /\ req' = [req EXCEPT ![r].pc = "store"]
    /\ UNCHANGED <<tasks, groups, run, lost>>

\* Mutated form of FetchFails: the group is not given back.
FetchFailsKeepsGroup(r) ==
    /\ req[r].pc = "fetch"
    /\ Finish(r)
    /\ UNCHANGED <<tasks, groups, run, lost>>

\* GitHub does not answer for one of the files: no task at all, and the group
\* waits again.
FetchFails(r) ==
    /\ req[r].pc = "fetch"
    /\ SetGroup(req[r].group, "pending_confirmation")
    /\ Finish(r)
    /\ UNCHANGED <<tasks, run, lost>>

NewTasks(r) ==
    LET order == SetToSeq(req[r].files)
    IN [k \in DOMAIN order |->
          [file |-> order[k], status |-> "queued", group |-> req[r].group,
           looked |-> req[r].looked, revived |-> FALSE]]

\* One transaction: the tasks, and the group is done.
Store(r) ==
    /\ req[r].pc = "store"
    /\ tasks' = tasks \o NewTasks(r)
    /\ SetGroup(req[r].group, "done")
    /\ Finish(r)
    /\ UNCHANGED <<run, lost>>

\* Groups that a request has taken and not settled.
Held(r) == IF req[r].group # 0 /\ req[r].pc \in {"look", "fetch", "store"}
           THEN {req[r].group} ELSE {}

\* The database refuses a commit or a query.
RequestFails(r) ==
    /\ req[r] # Idle
    /\ Finish(r)
    /\ lost' = lost \cup Held(r)
    /\ UNCHANGED <<tasks, groups, run>>

\* The process dies and comes back: nothing in _lifespan looks at groups.
Restart ==
    /\ req' = [r \in Requests |-> Idle]
    /\ run' = NoRun
    /\ lost' = lost \cup UNION {Held(r) : r \in Requests}
    /\ tasks' = [i \in DOMAIN tasks |->
                   IF tasks[i].status = "running" THEN [tasks[i] EXCEPT !.status = "queued"]
                   ELSE tasks[i]]
    /\ UNCHANGED groups

-----------------------------------------------------------------------------
(* The life of a task after its creation, as far as it is active or not.    *)

\* The task was active, was not, and is again.
Revives(i, status) ==
    tasks[i].status \notin ActiveTaskStatuses /\ status \in ActiveTaskStatuses

\* A retry, or a write by somebody who read the row earlier; a deleted row cannot
\* be written.
Write(i, status) ==
    IF tasks[i].status = "deleted" THEN tasks
    ELSE [tasks EXCEPT ![i].status = status, ![i].revived = @ \/ Revives(i, status)]

\* Cancelled, or published, or found in conflict; all three may come late.
Close(i) ==
    /\ tasks[i].status \in {"queued", "running", "ended"}
    /\ tasks' = Write(i, "closed")
    /\ UNCHANGED <<groups, req, run, lost>>

Delete(i) ==
    /\ tasks[i].status = "queued"
    /\ tasks' = Write(i, "deleted")
    /\ UNCHANGED <<groups, req, run, lost>>

\* reset_task_for_retry looks at this task and at no other.
Retry(i) ==
    /\ tasks[i].status = "ended"
    /\ tasks' = Write(i, "queued")
    /\ UNCHANGED <<groups, req, run, lost>>

RunLoad(i) ==
    /\ run = NoRun
    /\ tasks[i].status = "queued"
    /\ run' = [task |-> i, pc |-> "start"]
    /\ UNCHANGED <<tasks, groups, req, lost>>

RunStart ==
    /\ run.pc = "start"
    /\ tasks' = Write(run.task, "running")
    /\ run' = [run EXCEPT !.pc = "work"]
    /\ UNCHANGED <<groups, req, lost>>

\* Done, failed, cancelled, or given back because its project is paused.
RunEnd ==
    /\ run.pc = "work"
    /\ \E status \in {"ended", "closed", "queued"} : tasks' = Write(run.task, status)
    /\ run' = NoRun
    /\ UNCHANGED <<groups, req, lost>>

Serve(r) ==
    \/ StoreGroup(r) \/ ConfirmProcessing(r) \/ ConfirmLook(r) \/ CancelWrite(r)
    \/ FetchSucceeds(r) \/ FetchFails(r) \/ Store(r)

Next ==
    \/ \E r \in Requests :
          \/ \E files \in SUBSET Files \ {{}} :
                Webhook(r, files) \/ \E pc \in {"fetch", "store"} : Manual(r, files, pc)
          \/ \E g \in 1..MaxGroups : ConfirmRead(r, g) \/ CancelRead(r, g)
          \/ Serve(r)
          \/ RequestFails(r)
    \/ Restart
    \/ \E i \in DOMAIN tasks : Close(i) \/ Delete(i) \/ Retry(i) \/ RunLoad(i)
    \/ RunStart \/ RunEnd

Spec == Init /\ [][Next]_vars

-----------------------------------------------------------------------------
(* Properties.                                                              *)

RequestRecord ==
    [pc : {"idle", "storeGroup", "fetch", "store", "confirm", "look", "cancel"},
     files : SUBSET Files, group : Nat, looked : Nat]

TaskRow == [file : Files, status : TaskStatus, group : Nat, looked : Nat, revived : BOOLEAN]
GroupRow == [files : SUBSET Files, status : GroupStatus]

\* Types, and what the fields of a request, an execution and the history refer to:
\* groups that exist, tasks that were there when it looked.
TypeOK ==
    /\ tasks \in Seq(TaskRow)
    /\ groups \in Seq(GroupRow)
    /\ req \in [Requests -> RequestRecord]
    /\ \A r \in Requests :
          /\ req[r].group \in 0..Len(groups)
          /\ req[r].looked <= Len(tasks)
          /\ req[r].pc \in {"confirm", "look", "cancel"} => req[r].group # 0
    /\ run \in [task : 0..Len(tasks), pc : {"none", "start", "work"}]
    /\ run.pc = "none" <=> run.task = 0
    /\ lost \subseteq DOMAIN groups

\* Active since its creation.
Unrevived(i) == tasks[i].status \in ActiveTaskStatuses /\ ~tasks[i].revived

\* Two tasks of one file are active together only if the request that created
\* the later one had looked before the earlier one was stored, or if one of them
\* was active again after it had ended (a retry, or a write that a cancel did not
\* stop): otherwise a file is translated once at a time, whatever runs, fails,
\* restarts or is deleted meanwhile.
DuplicatesOverlap ==
    \A i, j \in DOMAIN tasks :
        i < j /\ tasks[i].file = tasks[j].file /\ Unrevived(i) /\ Unrevived(j)
            => tasks[j].looked < i

\* What makes it inductive: the files a request goes on with were free when it
\* looked, and a task of theirs that was there can only have been revived since.
FreeWhenLooked ==
    \A r \in Requests : \A i \in DOMAIN tasks :
        i <= req[r].looked /\ tasks[i].file \in req[r].files => ~Unrevived(i)

\* A group that is being processed is in the hands of a request, so that it ends
\* as done, cancelled or waiting again, unless the process died or the database
\* failed in the middle of its confirmation.
ProcessingIsServed ==
    \A g \in DOMAIN groups :
        groups[g].status = "processing" => g \in lost \/ \E r \in Requests : g \in Held(r)
=============================================================================
