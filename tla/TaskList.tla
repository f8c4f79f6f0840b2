------------------------------ MODULE TaskList ------------------------------
(***************************************************************************)
(* The task list page (features/tasks/ui/TaskListPage with TaskRow,         *)
(* CommitGroup, BatchFloatingBar, BatchPublishDialog and model/uiSlice):    *)
(* the selection, the dialogs, and the requests they start, while the list  *)
(* itself changes under the user (the feed is module TaskFeed).             *)
(***************************************************************************)
EXTENDS Naturals, FiniteSets, Sequences, Functions

CONSTANTS
    TaskOrder,   \* every task, in the order of the list
    CommitOf,    \* the group of each task: its commit, or what a manual one goes by
    HasProject,  \* tasks with a project_id
    MaxRequests  \* bound: requests in flight

NoTask == "no task"
Tasks  == Range(TaskOrder)
\* "other" stands for running, conflict and published: rows without a request
\* of this page.
ListStatus == {"queued", "done", "failed", "other"}

TaskListAssumption ==
    /\ TaskOrder \in Seq(Tasks) /\ IsInjective(TaskOrder) /\ NoTask \notin Tasks
    /\ HasProject \subseteq Tasks
    /\ Tasks \subseteq DOMAIN CommitOf

VARIABLES
    rows,       \* the items of the list query; their order is that of TaskOrder
    status,     \* the status each task has in the list
    selection,  \* tasksUI: selectedTaskIds and batchMode; the index clicked last
    publish,    \* PublishDialog: the pending task, and whether it is open
    batch,      \* BatchPublishDialog: pending ids, open, path overrides
    removing,   \* taskToRemove
    flags,      \* publishingIds, retryingIds, isBatchPublishing
    requests    \* in flight: what was sent, numbered by what it acts on

listVars == <<rows, status, selection, publish, batch, removing, flags, requests>>
dialogs  == <<publish, batch, removing, flags, requests>>

----------------------------------------------------------------------------
(* The order of the screen. *)

Rank(t) == CHOOSE i \in DOMAIN TaskOrder : TaskOrder[i] = t

\* lib/groupByCommit.
GroupOf(t) == {u \in rows : CommitOf[u] = CommitOf[t]}

\* The groups come in the order of their first task, their tasks in that of the list.
Above(u, t) ==
    IF CommitOf[u] = CommitOf[t] THEN Rank(u) < Rank(t)
    ELSE \E v \in GroupOf(u) : \A w \in GroupOf(t) : Rank(v) < Rank(w)

\* The index of a row in flatTasks.
IndexOf(t) == Cardinality({u \in rows : Above(u, t)}) + 1

\* DialogShell is modal: the page behind an open dialog takes no clicks.
Modal == (publish.open /\ publish.task # NoTask) \/ batch.open \/ removing # NoTask

Publishable(t) == status[t] = "done" /\ t \in HasProject

----------------------------------------------------------------------------
ListInit ==
    /\ rows = {}
    /\ status = [t \in Tasks |-> "queued"]
    /\ selection = [ids |-> {}, batchMode |-> FALSE, anchor |-> 0]
    /\ publish = [task |-> NoTask, open |-> FALSE]
    /\ batch = [ids |-> {}, open |-> FALSE, overrides |-> {}]
    /\ removing = NoTask
    /\ flags = [publishing |-> {}, retrying |-> {}, batch |-> FALSE]
    /\ requests = {}

(* model/uiSlice *)

\* setSelectedTaskIds, toggleTask and selectRange: the mode follows the selection.
SetSelected(ids) == selection' = [selection EXCEPT !.ids = ids, !.batchMode = ids # {}]

\* Mutated form of Prune: the rows a selection has lost are not looked for.
NoPrune(list) == UNCHANGED selection

\* The effect that keeps the selection in step with the list: it runs after
\* every change of the list, with the rows the list has then.
Prune(list) ==
    IF selection.ids \subseteq list THEN UNCHANGED selection
    ELSE SetSelected(selection.ids \cap list)

----------------------------------------------------------------------------
(* The list changes: an event, an answer, another filter. *)

ShowRows(list, st) ==
    /\ rows' = list /\ status' = st
    /\ Prune(list)
    /\ UNCHANGED dialogs

RowMoves == \E t \in rows, s \in ListStatus : ShowRows(rows, [status EXCEPT ![t] = s])

RowLeaves == \E t \in rows : ShowRows(rows \ {t}, status)

RowEnters == \E t \in Tasks \ rows, s \in ListStatus :
    ShowRows(rows \cup {t}, [status EXCEPT ![t] = s])

----------------------------------------------------------------------------
(* Selecting *)

\* handleToggleSelect. The anchor is an index: after the list has changed it
\* is another row, or none.
Toggle(t, shift) ==
    LET at == IndexOf(t)
        between == {u \in rows : \/ selection.anchor <= IndexOf(u) /\ IndexOf(u) <= at
                                 \/ at <= IndexOf(u) /\ IndexOf(u) <= selection.anchor}
        ids == IF shift /\ selection.anchor > 0 /\ selection.batchMode
               THEN selection.ids \cup between
               ELSE IF t \in selection.ids THEN selection.ids \ {t} ELSE selection.ids \cup {t}
    IN /\ ~Modal
       /\ selection' = [ids |-> ids, batchMode |-> ids # {}, anchor |-> at]
       /\ UNCHANGED <<rows, status, dialogs>>

\* The checkbox, and the row itself with Ctrl or in the mode; a plain click on
\* a row opens the task instead.
ClickRow == \E t \in rows, shift \in BOOLEAN : Toggle(t, shift)

ToggleBatchMode ==
    /\ ~Modal /\ rows # {}
    /\ selection' = [selection EXCEPT !.ids = IF selection.batchMode THEN {} ELSE @,
                                      !.batchMode = ~@]
    /\ UNCHANGED <<rows, status, dialogs>>

ClearBar ==
    /\ ~Modal /\ selection.ids # {}
    /\ SetSelected({})
    /\ UNCHANGED <<rows, status, dialogs>>

----------------------------------------------------------------------------
(* Requests: what they act on, and what their end does to flags and dialogs. *)

Send(kind, ids, overrides) ==
    /\ Cardinality(requests) < MaxRequests
    /\ requests' = requests \cup {[kind |-> kind, ids |-> ids, overrides |-> overrides]}

OpenPublish(t) ==
    /\ ~Modal /\ t \in rows /\ Publishable(t) /\ t \notin flags.publishing
    /\ publish' = [task |-> t, open |-> TRUE]
    /\ UNCHANGED <<rows, status, selection, batch, removing, flags, requests>>

ClosePublish ==
    /\ publish.open /\ publish.task # NoTask
    /\ publish' = [task |-> NoTask, open |-> FALSE]
    /\ UNCHANGED <<rows, status, selection, batch, removing, flags, requests>>

\* handlePublishConfirmed: the dialog closes at once, the pending task stays.
ConfirmPublish ==
    /\ publish.open /\ publish.task # NoTask /\ publish.task \notin flags.publishing
    /\ Send("publish", {publish.task}, {})
    /\ publish' = [publish EXCEPT !.open = FALSE]
    /\ flags' = [flags EXCEPT !.publishing = @ \cup {publish.task}]
    /\ UNCHANGED <<rows, status, selection, batch, removing>>

\* Its end, success or not, drops whatever task is pending by then.
PublishEnds(r) ==
    /\ r.kind = "publish"
    /\ publish' = [publish EXCEPT !.task = NoTask]
    /\ flags' = [flags EXCEPT !.publishing = @ \ r.ids]
    /\ UNCHANGED <<batch, removing>>

OpenBatch(ids) ==
    /\ ~Modal /\ ids # {}
    /\ batch' = [ids |-> ids, open |-> TRUE, overrides |-> {}]
    /\ UNCHANGED <<rows, status, selection, publish, removing, flags, requests>>

\* The button of a group: its ready tasks, unless one of them is publishing.
PublishGroup ==
    \E t \in rows :
        LET ready == {u \in GroupOf(t) : Publishable(u)} IN
        ready \cap flags.publishing = {} /\ OpenBatch(ready)

\* The button of the floating bar does not look at what is publishing.
PublishSelected == OpenBatch({t \in rows \cap selection.ids : Publishable(t)})

\* The dialog lists those of its tasks that are still in the list.
BatchItems == batch.ids \cap rows \cap HasProject

EditPath(t) ==
    /\ batch.open /\ t \in BatchItems
    /\ batch' = [batch EXCEPT !.overrides = @ \cup {t}]
    /\ UNCHANGED <<rows, status, selection, publish, removing, flags, requests>>

CloseBatch ==
    /\ batch.open
    /\ batch' = [batch EXCEPT !.open = FALSE, !.ids = {}]
    /\ UNCHANGED <<rows, status, selection, publish, removing, flags, requests>>

\* Enter in the message field submits as the button does, loading or not.
ConfirmBatch ==
    /\ batch.open /\ batch.ids # {}
    /\ Send("batch", batch.ids, batch.overrides)
    /\ batch' = [batch EXCEPT !.open = FALSE]
    /\ flags' = [flags EXCEPT !.batch = TRUE, !.publishing = @ \cup batch.ids]
    /\ UNCHANGED <<rows, status, selection, publish, removing>>

\* Its end empties the pending ids, also those of a dialog opened meanwhile.
BatchEnds(r) ==
    /\ r.kind = "batch"
    /\ batch' = [batch EXCEPT !.ids = {}]
    /\ flags' = [flags EXCEPT !.batch = FALSE, !.publishing = @ \ r.ids]
    /\ UNCHANGED <<publish, removing>>

Retry(t) ==
    /\ ~Modal /\ t \in rows /\ status[t] = "failed" /\ t \notin flags.retrying
    /\ Send("retry", {t}, {})
    /\ flags' = [flags EXCEPT !.retrying = @ \cup {t}]
    /\ UNCHANGED <<rows, status, selection, publish, batch, removing>>

RetryEnds(r) ==
    /\ r.kind = "retry"
    /\ flags' = [flags EXCEPT !.retrying = @ \ r.ids]
    /\ UNCHANGED <<publish, batch, removing>>

AskRemove(t) ==
    /\ ~Modal /\ t \in rows /\ status[t] = "queued"
    /\ removing' = t
    /\ UNCHANGED <<rows, status, selection, publish, batch, flags, requests>>

KeepTask ==
    /\ removing # NoTask /\ removing' = NoTask
    /\ UNCHANGED <<rows, status, selection, publish, batch, flags, requests>>

ConfirmRemove ==
    /\ removing # NoTask /\ \A r \in requests : r.kind # "remove"
    /\ Send("remove", {removing}, {})
    /\ UNCHANGED <<rows, status, selection, publish, batch, removing, flags>>

RemoveEnds(r) ==
    /\ r.kind = "remove"
    /\ removing' \in {removing, NoTask}
    /\ UNCHANGED <<publish, batch, flags>>

RequestEnds(r) ==
    /\ requests' = requests \ {r}
    /\ PublishEnds(r) \/ BatchEnds(r) \/ RetryEnds(r) \/ RemoveEnds(r)
    /\ UNCHANGED <<rows, status, selection>>

----------------------------------------------------------------------------
ListNext ==
    \/ RowMoves \/ RowLeaves \/ RowEnters
    \/ ClickRow \/ ToggleBatchMode \/ ClearBar
    \/ \E t \in Tasks : OpenPublish(t) \/ EditPath(t) \/ Retry(t) \/ AskRemove(t)
    \/ ClosePublish \/ ConfirmPublish
    \/ PublishGroup \/ PublishSelected \/ CloseBatch \/ ConfirmBatch
    \/ KeepTask \/ ConfirmRemove
    \/ \E r \in requests : RequestEnds(r)

ListSpec == ListInit /\ [][ListNext]_listVars

----------------------------------------------------------------------------
(* Properties *)

ListTypeOK ==
    /\ rows \subseteq Tasks
    /\ status \in [Tasks -> ListStatus]
    /\ selection \in [ids : SUBSET Tasks, batchMode : BOOLEAN, anchor : 0 .. Cardinality(Tasks)]
    /\ publish \in [task : Tasks \cup {NoTask}, open : BOOLEAN]
    /\ batch \in [ids : SUBSET Tasks, open : BOOLEAN, overrides : SUBSET Tasks]
    /\ removing \in Tasks \cup {NoTask}
    /\ flags \in [publishing : SUBSET Tasks, retrying : SUBSET Tasks, batch : BOOLEAN]
    /\ \A r \in requests : r.ids \subseteq Tasks /\ (r.kind = "batch" => r.overrides \subseteq r.ids)

\* Whatever the list loses, through an event, an answer or another filter, what
\* is selected is on the screen, and a selection is never left without its mode.
SelectionOnScreen ==
    selection.ids \subseteq rows /\ (selection.ids # {} => selection.batchMode)

----------------------------------------------------------------------------
(* What makes ListTypeOK and SelectionOnScreen inductive: path overrides are of *)
(* the tasks of the dialog, unless an answer has emptied it.                 *)

OverridesFit == batch.ids # {} => batch.overrides \subseteq batch.ids

ListInv == ListTypeOK /\ OverridesFit /\ SelectionOnScreen
=============================================================================
