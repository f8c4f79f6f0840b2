----------------------------- MODULE Publishing -----------------------------
(***************************************************************************)
(* Publishing a finished translation to the target repository: publish_task *)
(* and publish_tasks_batch of backend/app/services/tasks.py with the GitHub *)
(* calls they make, the PATCH and the retry of the same tasks, the          *)
(* translation that follows a retry, and the people who push to the branch. *)
(*                                                                          *)
(* GitHub names a file by the hash of its content, so a blob sha is the     *)
(* content itself here, and None is a file that does not exist.             *)
(***************************************************************************)
EXTENDS Naturals, FiniteSets

CONSTANTS
    Tasks,      \* tasks of the project that have been translated once
    Paths,      \* files of target_branch in target_repo
    PathOf,     \* Task.file_path
    Contents,   \* contents a file or a translation may have
    Requests,   \* HTTP requests handled at the same time
    None,       \* Python's None
    Ops,        \* "publish", "rename", "batch", "edit", "retry"
    Faults,     \* "error": a call raises, "crash": the process restarts
    MaxPushes   \* bound: commits other people push to the branch

ASSUME PublishingAssumption ==
    /\ PathOf \in [Tasks -> Paths]
    /\ None \notin Contents
    /\ MaxPushes \in Nat

Blob == Contents \cup {None}

VARIABLES
    \* --- PostgreSQL
    status,        \* tasks.status
    content,       \* tasks.translated_content
    targetSha,     \* tasks.target_file_sha
    publications,  \* rows of table publications
    \* --- GitHub
    remote,        \* the files at the head of target_branch
    \* --- the server
    executing,     \* tasks whose run_task is translating
    req,           \* publish, batch and edit requests in progress
    upToDate,      \* batches whose parent commit is still the head of the branch
    \* --- history
    recorded,      \* target_file_sha's a task has ever held
    commits,       \* tasks and paths that commits of the server have written
    pushes         \* commits other people have pushed

dbVars  == <<status, content, targetSha, publications>>
history == <<recorded, commits, pushes>>
vars    == <<dbVars, remote, executing, req, upToDate, history>>

Status == {"queued", "running", "done", "conflict", "published"}

RequestPc == {"idle", "check", "theirs", "conflictWrite", "put", "commit",
              "batchCheck", "batchHead", "batchRef", "batchCommit", "editWrite"}

Nothing == [t \in Tasks |-> None]

\* What a request has read: the ORM objects of its tasks, the paths it writes,
\* the shas GitHub reported and the tree of the branch head it builds upon.
Idle == [pc |-> "idle", tasks |-> {}, paths |-> PathOf, seen |-> [t \in Tasks |-> "done"],
         ours |-> Nothing, known |-> Nothing, current |-> Nothing,
         base |-> [p \in Paths |-> None]]

Finish(r)   == req' = [req EXCEPT ![r] = Idle]
Goto(r, pc) == req' = [req EXCEPT ![r].pc = pc]

\* The tasks of request r that its check found clean, respectively in conflict.
InConflict(q, t) == q.known[t] # None /\ q.current[t] # q.known[t]
Conflicts(q) == {t \in q.tasks : InConflict(q, t)}
Clean(q)     == q.tasks \ Conflicts(q)

\* Tasks as intake and the first translation leave them: target_file_sha is the
\* version of the target file of that time, pushes since then are still to come.
Init ==
    /\ status \in [Tasks -> {"done"}]
    /\ content \in [Tasks -> Contents]
    /\ publications = {}
    /\ remote \in [Paths -> Blob]
    /\ targetSha = [t \in Tasks |-> remote[PathOf[t]]]
    /\ executing = {}
    /\ req = [r \in Requests |-> Idle]
    /\ upToDate = {}
    /\ recorded = [t \in Tasks |-> {remote[PathOf[t]]}]
    /\ commits = {}
    /\ pushes = 0

\* The values f of the tasks in S, those of an idle request for the others.
Of(S, f, idle) == [t \in Tasks |-> IF t \in S THEN f[t] ELSE idle[t]]

\* A request loads its tasks; the ORM objects keep these values to the end.
Load(r, pc, S, paths) ==
    /\ req[r] = Idle
    /\ req' = [req EXCEPT ![r] =
         [pc |-> pc, tasks |-> S, paths |-> paths, seen |-> Of(S, status, Idle.seen),
          ours |-> Of(S, content, Nothing), known |-> Of(S, targetSha, Nothing),
          current |-> Nothing, base |-> Idle.base]]

\* A publish request names other paths than those of its tasks.
MayWrite(S, paths) ==
    /\ paths # PathOf => "rename" \in Ops
    /\ \A t \in Tasks \ S : paths[t] = PathOf[t]

\* The branch moves: the files of paths get new contents, and a parent commit
\* read before is the head no longer.
Commit(files) ==
    /\ remote' = [p \in Paths |-> IF p \in DOMAIN files THEN files[p] ELSE remote[p]]
    /\ upToDate' = {}

-----------------------------------------------------------------------------
(* publish_task.                                                            *)

\* The only task of a request that is not a batch, and the path it writes.
TaskOf(r) == CHOOSE t \in Tasks : req[r].tasks = {t}
PathFor(r) == req[r].paths[TaskOf(r)]

PublishRead(r, t, p) ==
    /\ "publish" \in Ops
    /\ status[t] \in {"done", "conflict"}
    /\ MayWrite({t}, [PathOf EXCEPT ![t] = p])
    /\ Load(r, "check", {t}, [PathOf EXCEPT ![t] = p])
    /\ UNCHANGED <<dbVars, remote, executing, upToDate, history>>

\* get_file_sha, and the comparison with target_file_sha unless the path was
\* changed.
PublishCheck(r) ==
    /\ req[r].pc = "check"
    /\ LET t == TaskOf(r)
           sha == remote[PathFor(r)]
           conflict == PathFor(r) = PathOf[t] /\ sha # req[r].known[t]
           pc == IF ~conflict THEN "put" ELSE IF sha = None THEN "conflictWrite" ELSE "theirs"
       IN req' = [req EXCEPT ![r].pc = pc, ![r].current[t] = sha]
    /\ UNCHANGED <<dbVars, remote, executing, upToDate, history>>

\* get_file_content: a file deleted meanwhile is a 404, an error of the request.
PublishTheirs(r) ==
    /\ req[r].pc = "theirs"
    /\ IF remote[PathOf[TaskOf(r)]] = None THEN Finish(r) ELSE Goto(r, "conflictWrite")
    /\ UNCHANGED <<dbVars, remote, executing, upToDate, history>>

\* The ORM writes status only when it differs from the value that was read.
Conflicted(q, S) ==
    /\ status' = [t \in Tasks |->
                    IF t \in S /\ q.seen[t] # "conflict" THEN "conflict" ELSE status[t]]
    /\ targetSha' = [t \in Tasks |-> IF t \in S THEN q.current[t] ELSE targetSha[t]]
    /\ recorded' = [t \in Tasks |->
                    IF t \in S THEN recorded[t] \cup {q.current[t]} ELSE recorded[t]]

\* Mutated form of ConflictWrite: target_file_sha stays what it was.
ConflictWriteKeepsSha(r) ==
    /\ req[r].pc = "conflictWrite"
    /\ status' = [status EXCEPT ![TaskOf(r)] = "conflict"]
    /\ Finish(r)
    /\ UNCHANGED <<content, targetSha, publications, remote, executing, upToDate, history>>

ConflictWrite(r) ==
    /\ req[r].pc = "conflictWrite"
    /\ Conflicted(req[r], req[r].tasks)
    /\ Finish(r)
    /\ UNCHANGED <<content, publications, remote, executing, upToDate, commits, pushes>>

Publication(t, p) == [task |-> t, path |-> p]

\* Mutated form of PublishPut: the sha is not sent, the file is overwritten.
PublishPutForced(r) ==
    /\ req[r].pc = "put"
    /\ LET t == TaskOf(r) IN
         /\ Commit([p \in {PathFor(r)} |-> req[r].ours[t]])
         /\ commits' = commits \cup {Publication(t, PathFor(r))}
    /\ Goto(r, "commit")
    /\ UNCHANGED <<dbVars, executing, recorded, pushes>>

\* PUT contents/{path} with the sha just read: GitHub refuses it when the file
\* is another one by now.
PublishPut(r) ==
    /\ req[r].pc = "put"
    /\ LET t == TaskOf(r)
           p == PathFor(r)
           ours == req[r].ours[t]
       IN \/ /\ remote[p] = req[r].current[t]
             /\ Commit([f \in {p} |-> ours])
             /\ commits' = commits \cup {Publication(t, p)}
             /\ Goto(r, "commit")
          \/ /\ remote[p] # req[r].current[t]
             /\ Finish(r)
             /\ UNCHANGED <<remote, upToDate, commits>>
    /\ UNCHANGED <<dbVars, executing, recorded, pushes>>

\* Publication and status in one transaction.
PublishCommit(r) ==
    /\ req[r].pc = "commit"
    /\ LET t == TaskOf(r) IN
         /\ status' = [status EXCEPT ![t] = "published"]
         /\ publications' = publications \cup {Publication(t, PathFor(r))}
    /\ Finish(r)
    /\ UNCHANGED <<content, targetSha, remote, executing, upToDate, history>>

-----------------------------------------------------------------------------
(* publish_tasks_batch, for the tasks of one repository and branch.         *)

BatchRead(r, S, paths) ==
    /\ "batch" \in Ops
    /\ S # {}
    /\ \A t \in S : status[t] \in {"done", "conflict"}
    /\ MayWrite(S, paths)
    /\ Load(r, "batchCheck", S, paths)
    /\ UNCHANGED <<dbVars, remote, executing, upToDate, history>>

\* Mutated form of BatchCheck: a group without clean tasks is committed too.
BatchCheckNoContinue(r) ==
    /\ req[r].pc = "batchCheck"
    /\ req' = [req EXCEPT ![r].pc = "batchHead", ![r].current = [t \in Tasks |->
                 IF t \in req[r].tasks THEN remote[PathOf[t]] ELSE None]]
    /\ UNCHANGED <<dbVars, remote, executing, upToDate, history>>

\* get_file_sha of all files at once, at the path of the task even when it will
\* be written elsewhere; then theirs of the conflicting ones, where a file that
\* is gone by then fails the batch.
BatchCheck(r) ==
    /\ req[r].pc = "batchCheck"
    /\ LET q == [req[r] EXCEPT !.current = [t \in Tasks |->
                                  IF t \in req[r].tasks THEN remote[PathOf[t]] ELSE None]]
           pc == IF Clean(q) = {} THEN "batchCommit" ELSE "batchHead"
       IN req' = [req EXCEPT ![r] = [q EXCEPT !.pc = pc]]
    /\ UNCHANGED <<dbVars, remote, executing, upToDate, history>>

\* The head of the branch and its tree; blobs, new tree and new commit follow
\* without touching the branch.
BatchHead(r) ==
    /\ req[r].pc = "batchHead"
    /\ req' = [req EXCEPT ![r].pc = "batchRef", ![r].base = remote]
    /\ upToDate' = upToDate \cup {r}
    /\ UNCHANGED <<dbVars, remote, executing, history>>

\* The contents a batch gives to its files; of two tasks written to one path
\* either may win.
BatchFiles(q) ==
    LET paths == {q.paths[t] : t \in Clean(q)} IN
      {f \in [paths -> Contents] :
         \A p \in paths : \E t \in Clean(q) : q.paths[t] = p /\ f[p] = q.ours[t]}

PublicationsOf(q) == {Publication(t, q.paths[t]) : t \in Clean(q)}

\* The new tree: the one that was read with the files of the batch over it.
NewTree(q, f) == [p \in Paths |-> IF p \in DOMAIN f THEN f[p] ELSE q.base[p]]

\* Mutated form of BatchUpdateRef: the ref is forced to the new commit.
BatchUpdateRefForced(r) ==
    /\ req[r].pc = "batchRef"
    /\ \E f \in BatchFiles(req[r]) : Commit(NewTree(req[r], f))
    /\ commits' = commits \cup PublicationsOf(req[r])
    /\ Goto(r, "batchCommit")
    /\ UNCHANGED <<dbVars, executing, recorded, pushes>>

\* Mutated form of BatchUpdateRef: a refusal is taken for an answer.
BatchUpdateRefUnchecked(r) ==
    /\ req[r].pc = "batchRef"
    /\ \/ /\ r \in upToDate
          /\ \E f \in BatchFiles(req[r]) : Commit(NewTree(req[r], f))
          /\ commits' = commits \cup PublicationsOf(req[r])
       \/ /\ r \notin upToDate
          /\ UNCHANGED <<remote, upToDate, commits>>
    /\ Goto(r, "batchCommit")
    /\ UNCHANGED <<dbVars, executing, recorded, pushes>>

\* PATCH refs/heads: GitHub accepts a fast-forward only.
BatchUpdateRef(r) ==
    /\ req[r].pc = "batchRef"
    /\ \/ /\ r \in upToDate
          /\ \E f \in BatchFiles(req[r]) : Commit(NewTree(req[r], f))
          /\ commits' = commits \cup PublicationsOf(req[r])
          /\ Goto(r, "batchCommit")
       \/ /\ r \notin upToDate
          /\ Finish(r)
          /\ UNCHANGED <<remote, upToDate, commits>>
    /\ UNCHANGED <<dbVars, executing, recorded, pushes>>

\* One transaction for the conflicts and publications of the group.
BatchCommit(r) ==
    /\ req[r].pc = "batchCommit"
    /\ LET q == req[r] IN
         /\ status' = [t \in Tasks |->
              IF t \in Clean(q) THEN "published"
              ELSE IF t \in Conflicts(q) /\ q.seen[t] # "conflict" THEN "conflict"
              ELSE status[t]]
         /\ targetSha' = [t \in Tasks |->
              IF t \in Conflicts(q) THEN q.current[t] ELSE targetSha[t]]
         /\ recorded' = [t \in Tasks |->
              IF t \in Conflicts(q) THEN recorded[t] \cup {q.current[t]} ELSE recorded[t]]
         /\ publications' = publications \cup PublicationsOf(q)
    /\ Finish(r)
    /\ UNCHANGED <<content, remote, executing, upToDate, commits, pushes>>

-----------------------------------------------------------------------------
(* Other writers of the same rows and files.                                *)

\* PATCH /tasks/{id}: the status is looked at when the row is loaded, the UPDATE
\* follows one round trip to the database later.
EditRead(r, t) ==
    /\ "edit" \in Ops
    /\ status[t] \in {"done", "conflict"}
    /\ Load(r, "editWrite", {t}, PathOf)
    /\ UNCHANGED <<dbVars, remote, executing, upToDate, history>>

EditWrite(r) ==
    /\ req[r].pc = "editWrite"
    /\ \E c \in Contents : content' = [content EXCEPT ![TaskOf(r)] = c]
    /\ Finish(r)
    /\ UNCHANGED <<status, targetSha, publications, remote, executing, upToDate, history>>

\* reset_task_for_retry, whose UPDATE compares the status.
Retry(t) ==
    /\ "retry" \in Ops
    /\ status[t] = "done"
    /\ status' = [status EXCEPT ![t] = "queued"]
    /\ content' = [content EXCEPT ![t] = None]
    /\ UNCHANGED <<targetSha, publications, remote, executing, req, upToDate, history>>

\* run_task: one execution at a time, started on a queued row ...
RunStart(t) ==
    /\ status[t] = "queued"
    /\ executing = {}
    /\ status' = [status EXCEPT ![t] = "running"]
    /\ executing' = {t}
    /\ UNCHANGED <<content, targetSha, publications, remote, req, upToDate, history>>

\* ... which stores its result whatever the row says by then.
RunDone(t) ==
    /\ t \in executing
    /\ status' = [status EXCEPT ![t] = "done"]
    /\ \E c \in Contents : content' = [content EXCEPT ![t] = c]
    /\ executing' = {}
    /\ UNCHANGED <<targetSha, publications, remote, req, upToDate, history>>

\* Somebody pushes to target_branch: a file is changed, created or deleted.
Push(p, c) ==
    /\ pushes < MaxPushes
    /\ remote[p] # c
    /\ Commit([f \in {p} |-> c])
    /\ pushes' = pushes + 1
    /\ UNCHANGED <<dbVars, executing, req, recorded, commits>>

\* A call of the handler raises: GitHub says no, its answer is lost after it did
\* what it was asked, the transaction cannot be committed.
RequestFails(r) ==
    /\ "error" \in Faults
    /\ req[r] # Idle
    /\ Finish(r)
    /\ upToDate' = upToDate \ {r}
    /\ UNCHANGED <<dbVars, remote, executing, history>>

\* The process dies and comes back: running rows are queued again.
Restart ==
    /\ "crash" \in Faults
    /\ req' = [r \in Requests |-> Idle]
    /\ executing' = {}
    /\ status' = [t \in Tasks |-> IF status[t] = "running" THEN "queued" ELSE status[t]]
    /\ upToDate' = {}
    /\ UNCHANGED <<content, targetSha, publications, remote, history>>

PublishStep(r) ==
    \/ PublishCheck(r) \/ PublishTheirs(r) \/ ConflictWrite(r)
    \/ PublishPut(r) \/ PublishCommit(r)

BatchStep(r) == BatchCheck(r) \/ BatchHead(r) \/ BatchUpdateRef(r) \/ BatchCommit(r)

Step(r) == PublishStep(r) \/ BatchStep(r) \/ EditWrite(r)

Start(r) ==
    \/ \E t \in Tasks, p \in Paths : PublishRead(r, t, p)
    \/ \E S \in SUBSET Tasks, paths \in [Tasks -> Paths] : BatchRead(r, S, paths)
    \/ \E t \in Tasks : EditRead(r, t)

Next ==
    \/ \E r \in Requests : Start(r) \/ Step(r) \/ RequestFails(r)
    \/ \E t \in Tasks : Retry(t) \/ RunStart(t) \/ RunDone(t)
    \/ \E p \in Paths, c \in Blob : Push(p, c)
    \/ Restart

Spec == Init /\ [][Next]_vars

\* The server finishes what it began, and the user of an unpublished task keeps
\* pressing Publish.
InsistingUser(t) == \E r \in Requests : PublishRead(r, t, PathOf[t])

FairSpec ==
    /\ Spec
    /\ \A r \in Requests : WF_vars(Step(r))
    /\ \A t \in Tasks : WF_vars(RunStart(t)) /\ WF_vars(RunDone(t)) /\ WF_vars(InsistingUser(t))

-----------------------------------------------------------------------------
(* Properties.                                                              *)

RequestRecord ==
    [pc : RequestPc, tasks : SUBSET Tasks, paths : [Tasks -> Paths],
     seen : [Tasks -> Status], ours : [Tasks -> Blob], known : [Tasks -> Blob],
     current : [Tasks -> Blob], base : [Paths -> Blob]]

Single == {"check", "theirs", "conflictWrite", "put", "commit", "editWrite"}

RequestOK(q) ==
    /\ q \in RequestRecord
    /\ q.pc \in Single => \E t \in Tasks : q.tasks = {t}
    /\ q.pc \in {"batchHead", "batchRef"} => Clean(q) # {}

\* Types; a request that is not a batch has one task, and a batch that goes on to
\* GitHub has something to commit.
TypeOK ==
    /\ status \in [Tasks -> Status]
    /\ content \in [Tasks -> Blob]
    /\ targetSha \in [Tasks -> Blob]
    /\ publications \subseteq [task : Tasks, path : Paths]
    /\ remote \in [Paths -> Blob]
    /\ executing \in SUBSET Tasks
    /\ req \in [Requests -> RequestRecord]
    /\ \A r \in Requests : RequestOK(req[r])
    /\ upToDate \in SUBSET Requests
    /\ recorded \in [Tasks -> SUBSET Blob]
    /\ commits \subseteq [task : Tasks, path : Paths]
    /\ pushes \in 0..MaxPushes

\* A step in which GitHub accepts the commit of request r.
Accepted(r) ==
    \/ req[r].pc = "put" /\ req'[r].pc = "commit"
    \/ req[r].pc = "batchRef" /\ req'[r].pc = "batchCommit"

\* The tasks whose files the commit of a request holds.
Sent(q) == IF q.pc = "put" THEN q.tasks ELSE Clean(q)

\* A version of the file of task t that the server has recorded for it.
KnownVersion(t) == remote[PathOf[t]] \in recorded[t]

\* Publishing a task never replaces a version of its file other than one that
\* was recorded in its target_file_sha, at intake or by a conflict the user was
\* shown: no edit somebody made to the target file is lost unseen, however
\* publish requests, pushes, retries and failures interleave.
PublishKeepsEdits ==
    [][\A r \in Requests : req[r].pc = "put" /\ Accepted(r) =>
         LET t == TaskOf(r) IN PathFor(r) = PathOf[t] => KnownVersion(t)]_vars

\* The same of publish_tasks_batch.
BatchKeepsEdits ==
    [][\A r \in Requests : req[r].pc = "batchRef" /\ Accepted(r) =>
         \A t \in Sent(req[r]) : req[r].paths[t] = PathOf[t] => KnownVersion(t)]_vars

\* A row of publications stands for a commit that did reach the branch with the
\* task's file, and a task is published only with such a row, whatever failed
\* meanwhile.
PublicationsAreReal ==
    /\ publications \subseteq commits
    /\ \A t \in Tasks : status[t] = "published" => \E x \in publications : x.task = t

\* What makes PublishKeepsEdits inductive: the sha a task holds, and the one a
\* request has loaded, have been recorded for it, and a request that writes to the
\* path of its task has seen exactly that version on GitHub.
ShasAreRecorded ==
    /\ \A t \in Tasks : targetSha[t] \in recorded[t]
    /\ \A r \in Requests : req[r].pc # "idle" =>
          \A t \in req[r].tasks : req[r].known[t] \in recorded[t]
    /\ \A r \in Requests : req[r].pc = "put" =>
          \A t \in req[r].tasks :
             req[r].paths[t] = PathOf[t] => req[r].current[t] = req[r].known[t]

\* What makes PublicationsAreReal inductive: a request that is about to record a
\* publication has its commit.
CommittedFirst ==
    \A r \in Requests :
        /\ req[r].pc = "commit" => \A t \in req[r].tasks :
                                     Publication(t, req[r].paths[t]) \in commits
        /\ req[r].pc = "batchCommit" => PublicationsOf(req[r]) \subseteq commits

\* A commit of the server changes the files of its tasks and nothing else: what
\* was pushed to the other files while a batch was being prepared stays.
CommitsOnlyOwnFiles ==
    [][\A p \in Paths : remote'[p] # remote[p] /\ pushes' = pushes =>
         \E r \in Requests : \E t \in Sent(req[r]) :
            /\ Accepted(r)
            /\ p = req[r].paths[t]
            /\ remote'[p] = req[r].ours[t]]_vars

\* A user who keeps publishing gets a task in conflict published once others no
\* longer push: the conflict brings the task up to date with the target file.
ConflictsEnd == \A t \in Tasks : status[t] = "conflict" ~> status[t] = "published"
=============================================================================
