------------------------------ MODULE TaskPage ------------------------------
(***************************************************************************)
(* The page of a task (features/tasks/ui/TaskDetailPage with its editors    *)
(* and dialogs, hooks/useSSE, hooks/useTaskDetailTab): what the page shows  *)
(* is a copy of the row, read by GET, polled while queued and replaced when *)
(* the event stream ends; the user's drafts, dialogs and requests live       *)
(* beside it, and all of it outlives a change of the task in the URL.       *)
(* Text is abstracted to a small set; logs, counters and metadata are left  *)
(* out. A GET reads the row when it is answered.                            *)
(***************************************************************************)
CONSTANTS
    Tasks,     \* tasks that can be opened
    Shared,    \* bound: those that executions and other users change
    First,     \* the task opened first; the others are reached from it
    Texts,     \* contents of a translation
    None,      \* null
    Slots      \* bound: requests of the page in flight

TaskPageAssumption ==
    /\ First \in Tasks /\ Shared \subseteq Tasks /\ Texts # {}
    /\ None \notin Texts /\ None \notin Tasks /\ None \notin Slots

VARIABLES
    server,   \* the rows
    url,      \* the task in the URL, None when the page is left
    view,     \* the row the page shows (useGetTaskQuery keeps the last data)
    fetch,    \* its GET: in flight, or the last one failed
    drafts,   \* diffDraft and conflictDraft
    tab,      \* ?tab= of the URL
    open,     \* dialogs on the screen
    captured, \* pendingPublishContent
    ops,      \* requests of the page
    source,   \* useSSE's EventSource
    retried   \* history: a task was retried while the page showed it as running

pageVars == <<server, url, view, fetch, drafts, tab, open, captured, ops, source, retried>>

Statuses == {"queued", "running", "done", "failed", "conflict", "published", "cancelled",
             "gone"}   \* removed from the queue and deleted
Ended(status) == status \notin {"queued", "running"}

NoDrafts == [diff |-> None, conflict |-> None]

NoOp == [kind |-> "none", id |-> None, text |-> None, phase |-> "none", fresh |-> TRUE,
         status |-> None]

InFlight(kind) == \E s \in Slots : ops[s].kind = kind /\ ops[s].phase # "reread"
IsSaving == InFlight("save") \/ \E s \in Slots : ops[s].phase = "patch"

----------------------------------------------------------------------------
(* What is derived from the state on every render *)

BaseConflict == IF view.theirs # None THEN view.theirs ELSE view.text
DiffContent ==
    IF drafts.diff # None THEN drafts.diff ELSE view.text
ConflictContent ==
    IF drafts.conflict # None THEN drafts.conflict ELSE BaseConflict
IsDiffEditable == view.status \in {"done", "failed"}
HasDirtyChanges ==
    \/ IsDiffEditable /\ drafts.diff # None
    \/ view.status = "conflict" /\ drafts.conflict # None

AvailableTabs(status) ==
    {"diff", "logs"} \cup IF status = "conflict" THEN {"conflict"} ELSE {}
DefaultTab(status) ==
    CASE status \in {"failed", "running"} -> "logs"
      [] status = "conflict" -> "conflict"
      [] OTHER -> "diff"
ResolvedTab(t, status) == IF t \in AvailableTabs(status) THEN t ELSE DefaultTab(status)

\* The content is mounted, and no dialog covers it.
Mounted == url # None /\ view.id # None /\ ~fetch.error
Free == Mounted /\ open = {}

----------------------------------------------------------------------------
Row(status) == [status |-> status, text |-> CHOOSE x \in Texts : TRUE, theirs |-> None]

NoView == [id |-> None, status |-> "queued", text |-> None, theirs |-> None, fresh |-> TRUE]

PageInit ==
    /\ \E s \in {"queued", "failed"} :
         server = [t \in Tasks |-> Row(IF t = First THEN s ELSE "queued")]
    /\ url = First /\ view = NoView /\ fetch = [active |-> TRUE, error |-> FALSE]
    /\ drafts = NoDrafts /\ tab = None /\ open = {} /\ captured = None
    /\ ops = [s \in Slots |-> NoOp]
    /\ source = FALSE /\ retried = FALSE

\* A row changes. When its text does, copies and requests taken from it before,
\* other than the request in slot s, are no longer fresh (history).
Store(t, row, s) ==
    /\ server' = [server EXCEPT ![t] = row]
    /\ view' = IF view.id = t /\ row.text # server[t].text
               THEN [view EXCEPT !.fresh = FALSE] ELSE view

Outdate(t, row, s) ==
    [r \in Slots |-> IF r # s /\ ops[r].id = t /\ row.text # server[t].text
                     THEN [ops[r] EXCEPT !.fresh = FALSE] ELSE ops[r]]

----------------------------------------------------------------------------
(* The server without this page: the execution and other users *)

Elsewhere(t, row) ==
    /\ Store(t, row, None)
    /\ ops' = Outdate(t, row, None)
    /\ UNCHANGED <<url, fetch, drafts, tab, open, captured, source>>

Starts(t) ==
    /\ server[t].status = "queued"
    /\ Elsewhere(t, [server[t] EXCEPT !.status = "running"])
    /\ UNCHANGED retried

Finishes(t) ==
    /\ server[t].status = "running"
    /\ \/ Elsewhere(t, [server[t] EXCEPT !.status = "failed"])
       \/ \E x \in Texts : Elsewhere(t, [server[t] EXCEPT !.status = "done", !.text = x])
    /\ UNCHANGED retried

OtherUserCancels(t) ==
    /\ server[t].status \in {"queued", "running"}
    /\ Elsewhere(t, [server[t] EXCEPT !.status = "cancelled"])
    /\ UNCHANGED retried

ShownRunning(t) == view.id = t /\ view.status = "running"

OtherUserRetries(t) ==
    /\ server[t].status \in {"done", "failed"}
    /\ Elsewhere(t, [server[t] EXCEPT !.status = "queued"])
    /\ retried' = (retried \/ ShownRunning(t))

OtherUserEdits(t) ==
    /\ server[t].status \in {"done", "failed", "conflict"}
    /\ \E x \in Texts : x # server[t].text /\ Elsewhere(t, [server[t] EXCEPT !.text = x])
    /\ UNCHANGED retried

----------------------------------------------------------------------------
(* GET, polling and the event stream *)

\* useTaskDetailTab's effect puts the tab that is shown into the URL.
\* useSSE's effect runs when status or task change.
FetchAnswers ==
    /\ fetch.active /\ url # None /\ server[url].status # "gone"
    /\ LET row == server[url] IN
       /\ view' = [id |-> url, status |-> row.status, text |-> row.text,
                   theirs |-> row.theirs, fresh |-> TRUE]
       /\ tab' = ResolvedTab(tab, row.status)
       /\ source' = IF <<view.id, view.status>> # <<url, row.status>> \/ fetch.error
                    THEN row.status = "running" ELSE source
    /\ fetch' = [active |-> FALSE, error |-> FALSE]
    /\ UNCHANGED <<server, url, drafts, open, captured, ops, retried>>

\* The page shows the error instead of the content, whose state is lost.
Unmount ==
    /\ drafts' = NoDrafts /\ open' = {} /\ captured' = None /\ source' = FALSE

FetchFails ==
    /\ fetch.active
    /\ fetch' = [active |-> FALSE, error |-> TRUE]
    /\ Unmount
    /\ UNCHANGED <<server, url, view, tab, ops, retried>>

Refetch == fetch' = [fetch EXCEPT !.active = TRUE]

Poll ==
    /\ url # None /\ view.id # None /\ view.status = "queued" /\ ~fetch.active
    /\ Refetch
    /\ UNCHANGED <<server, url, view, drafts, tab, open, captured, ops, source, retried>>

\* Mutated form of StatusEvent: the source is closed and nothing is fetched.
StatusEventOnly ==
    /\ source /\ Mounted /\ Ended(server[view.id].status)
    /\ source' = FALSE
    /\ drafts' = NoDrafts
    /\ UNCHANGED <<server, url, view, fetch, tab, open, captured, ops, retried>>

\* status_change with a final status, from the queue of the execution or, when
\* that is gone, as the only event of a new connection; EventSource connects
\* again whenever the stream ends. Other events do not matter here.
StatusEvent ==
    /\ source /\ Mounted /\ Ended(server[view.id].status)
    /\ source' = FALSE
    /\ drafts' = NoDrafts
    /\ Refetch
    /\ UNCHANGED <<server, url, view, tab, open, captured, ops, retried>>

----------------------------------------------------------------------------
(* Editing *)

Edit ==
    /\ Free
    /\ UNCHANGED <<server, url, view, fetch, tab, open, captured, ops, source, retried>>

Draft(kind, text, base) ==
    drafts' = [drafts EXCEPT ![kind] = IF text = base THEN None ELSE text]

TypeDiff(text) ==
    Edit /\ tab = "diff" /\ IsDiffEditable /\ Draft("diff", text, view.text)

\* The editor and the two presets of ConflictView.
TypeConflict(text) ==
    Edit /\ tab = "conflict" /\ view.status = "conflict" /\ Draft("conflict", text, BaseConflict)

Discard ==
    /\ Edit /\ tab = "diff" /\ IsDiffEditable
    /\ drafts' = [drafts EXCEPT !.diff = None]

\* useBlocker asks before every navigation while something is dirty, a change
\* of the tab included; the user may refuse.
SwitchTab(t) ==
    /\ Free /\ t \in AvailableTabs(view.status) \ {tab}
    /\ tab' = t
    /\ UNCHANGED <<server, url, view, fetch, drafts, open, captured, ops, source, retried>>

\* Links, the palette and answers lead to another task or away.
\* A content that was replaced by an error is mounted again.
ShownAgain == IF fetch.error THEN view.status = "running" ELSE source

GoTo(t) ==
    /\ url' = t
    /\ fetch' = [active |-> t # None, error |-> FALSE]
    /\ IF t = None
       THEN Unmount /\ tab' = None /\ view' = NoView
       ELSE /\ tab' = None
            /\ source' = ShownAgain
            /\ UNCHANGED <<view, drafts, captured, open>>

Leave(t) ==
    /\ open = {} /\ t # url
    /\ GoTo(t)
    /\ UNCHANGED <<server, ops, retried>>

----------------------------------------------------------------------------
(* Requests *)

Free1 == {s \in Slots : ops[s] = NoOp}

Request(op) ==
    /\ Free1 # {}
    /\ ops' = [ops EXCEPT ![CHOOSE s \in Free1 : TRUE] = op]

Op(kind, text, phase) ==
    [kind |-> kind, id |-> view.id, text |-> text, phase |-> phase, fresh |-> view.fresh,
     status |-> IF kind = "publish" THEN view.status ELSE None]

Press ==
    Free /\ UNCHANGED <<server, url, view, fetch, drafts, tab, source, retried>>

SaveDiff ==
    /\ Press /\ tab = "diff" /\ IsDiffEditable /\ drafts.diff # None /\ ~IsSaving
    /\ Request(Op("save", drafts.diff, "patch"))
    /\ UNCHANGED <<open, captured>>

\* openPublishDialog: from the header of a done task, or the conflict editor.
OpenPublish ==
    /\ Press
    /\ \/ view.status = "done" /\ ~InFlight("publish") /\ captured' = DiffContent
       \/ /\ tab = "conflict" /\ view.status = "conflict"
          /\ ~IsSaving /\ ~InFlight("publish") /\ captured' = ConflictContent
    /\ open' = {"publish"}
    /\ UNCHANGED ops

Retry ==
    /\ Press /\ view.status = "failed" /\ ~InFlight("retry")
    /\ Request(Op("retry", None, "patient"))
    /\ UNCHANGED <<open, captured>>

OpenRemove ==
    /\ Press /\ view.status = "queued" /\ ~InFlight("remove")
    /\ open' = {"remove"}
    /\ UNCHANGED <<captured, ops>>

InDialog(d) ==
    Mounted /\ d \in open /\ UNCHANGED <<server, url, view, fetch, drafts, source, retried>>

\* Mutated form of PatchFirst: the text is stored when there is a draft.
PatchDrafts(text) == drafts # NoDrafts

\* handlePublish stores the text first if it differs from the row shown.
PatchFirst(text) == text # view.text

\* The button is loading while the publish request itself is in flight.
ConfirmPublish ==
    /\ InDialog("publish") /\ ~\E s \in Slots : ops[s].phase = "publish"
    /\ open' = open \ {"publish"} /\ captured' = None
    /\ Request(Op("publish", captured, IF PatchFirst(captured) THEN "patch" ELSE "publish"))
    /\ UNCHANGED tab

\* The content captured is not used again once the dialog is closed.
CloseDialog(d) ==
    /\ InDialog(d) /\ open' = open \ {d}
    /\ captured' = IF d = "publish" THEN None ELSE captured
    /\ UNCHANGED <<tab, ops>>

\* PublishConflictDialog: its button, by then, sees the status of the row shown.
OpenConflict ==
    /\ InDialog("conflict") /\ open' = open \ {"conflict"}
    /\ tab' = IF view.status = "conflict" THEN "conflict" ELSE tab
    /\ UNCHANGED <<captured, ops>>

RetryAnyway ==
    /\ InDialog("retry") /\ ~InFlight("retry") /\ ~InFlight("create")
    /\ Request(Op("retry", None, "force"))
    /\ UNCHANGED <<open, tab, captured>>

CreateNew ==
    /\ InDialog("retry") /\ ~InFlight("retry") /\ ~InFlight("create")
    /\ Request(Op("create", None, "create"))
    /\ UNCHANGED <<open, tab, captured>>

ConfirmRemove ==
    /\ InDialog("remove") /\ ~InFlight("remove")
    /\ Request(Op("remove", None, "remove"))
    /\ UNCHANGED <<open, tab, captured>>

----------------------------------------------------------------------------
(* What the server does with a request *)

Served(s, row, phase) ==
    /\ Store(ops[s].id, row, s)
    /\ ops' = [Outdate(ops[s].id, row, s) EXCEPT ![s].phase = phase]
    /\ retried' = (retried \/ (phase = "ok" /\ ops[s].kind = "retry" /\ ShownRunning(ops[s].id)))
    /\ UNCHANGED <<url, fetch, drafts, tab, open, captured, source>>

ServePatch(s) ==
    LET op == ops[s] row == server[op.id] IN
    /\ op.phase = "patch"
    /\ IF row.status \in {"done", "failed", "conflict"}
       THEN Served(s, [row EXCEPT !.text = op.text],
                   IF op.kind = "publish" THEN "publish" ELSE "ok")
       ELSE Served(s, row, "error")

\* publish_task: the target may have been changed by hand.
ServePublish(s) ==
    LET op == ops[s] row == server[op.id] IN
    /\ op.phase = "publish"
    /\ IF row.status \in {"done", "conflict"}
       THEN \/ Served(s, [row EXCEPT !.status = "published"], "ok")
            \/ \E x \in Texts \ {row.text} :
                 Served(s, [row EXCEPT !.status = "conflict", !.theirs = x], "clash")
       ELSE Served(s, row, "error")

\* The source file may have changed since the task was created.
ServeRetry(s) ==
    LET op == ops[s] row == server[op.id] IN
    /\ op.kind = "retry" /\ op.phase \in {"patient", "force"}
    /\ IF row.status \in {"done", "failed"}
       THEN \/ Served(s, [row EXCEPT !.status = "queued", !.theirs = None], "ok")
            \/ op.phase = "patient" /\ Served(s, row, "clash")
       ELSE Served(s, row, "error")

ServeRemove(s) ==
    /\ ops[s].phase = "remove"
    /\ LET row == server[ops[s].id] IN
       IF row.status = "queued" THEN Served(s, [row EXCEPT !.status = "gone"], "ok")
       ELSE Served(s, row, "error")

\* Any request may fail, or its answer be lost.
Breaks(s) ==
    /\ ops[s].phase \notin {"none", "ok", "clash", "error", "reread"}
    /\ Served(s, server[ops[s].id], "error")

----------------------------------------------------------------------------
(* Answers. The handlers set the state of the page as it is by then. *)

Done(s) == ops' = [ops EXCEPT ![s] = NoOp]

\* A failed request changes nothing but toasts; the dialog of remove stays.
AnswerError(s) ==
    /\ ops[s].phase = "error"
    /\ Done(s)
    /\ UNCHANGED <<server, url, view, fetch, drafts, tab, open, captured, source, retried>>

\* updateTask, publishTask and retryTask invalidate the row as well.
RefetchIfShown == IF url = None THEN UNCHANGED fetch ELSE Refetch

AnswerSave(s) ==
    /\ ops[s].kind = "save" /\ ops[s].phase = "ok"
    /\ Done(s) /\ RefetchIfShown
    /\ drafts' = [drafts EXCEPT !.diff = None]
    /\ UNCHANGED <<server, url, view, tab, open, captured, source, retried>>

AnswerPublish(s) ==
    /\ ops[s].kind = "publish" /\ ops[s].phase = "ok"
    /\ Done(s) /\ RefetchIfShown
    /\ drafts' = NoDrafts
    /\ UNCHANGED <<server, url, view, tab, open, captured, source, retried>>

\* 409: the dialog opens and the row is read again.
AnswerClash(s) ==
    /\ ops[s].kind = "publish" /\ ops[s].phase = "clash"
    /\ ops' = [ops EXCEPT ![s].phase = "reread"]
    /\ RefetchIfShown
    /\ open' = IF Mounted THEN open \cup {"conflict"} ELSE open
    /\ UNCHANGED <<server, url, view, drafts, tab, captured, source, retried>>

\* If it now is a conflict, the tab is changed by the setActiveTab of the render
\* that sent the request, which knows the status of that time.
RowReread(s) ==
    /\ ops[s].phase = "reread" /\ (url = None \/ ~fetch.active)
    /\ Done(s)
    /\ LET row == IF view.id = ops[s].id THEN view ELSE server[ops[s].id] IN
       tab' = IF url # None /\ ~fetch.error /\ row.status = "conflict"
              THEN ResolvedTab("conflict", ops[s].status) ELSE tab
    /\ UNCHANGED <<server, url, view, fetch, drafts, open, captured, source, retried>>

AnswerRetry(s) ==
    /\ ops[s].kind = "retry" /\ ops[s].phase = "ok"
    /\ Done(s) /\ RefetchIfShown
    /\ drafts' = NoDrafts
    /\ open' = open \ {"retry"}
    /\ UNCHANGED <<server, url, view, tab, captured, source, retried>>

AnswerChanged(s) ==
    /\ ops[s].kind = "retry" /\ ops[s].phase = "clash"
    /\ Done(s)
    /\ open' = IF Mounted THEN open \cup {"retry"} ELSE open
    /\ UNCHANGED <<server, url, view, fetch, drafts, tab, captured, source, retried>>

\* handleCreateNewTask opens the task created, or the active one of the file,
\* which may be this one after all when it was retried in the meantime.
AnswerCreate(s) ==
    /\ ops[s].phase = "create"
    /\ Done(s)
    /\ IF url = None
       THEN UNCHANGED <<url, view, fetch, drafts, tab, open, captured, source>>
       ELSE /\ \E t \in Tasks :
                 /\ ~Ended(server[t].status)
                 /\ url' = t /\ fetch' = [active |-> TRUE, error |-> FALSE]
            /\ tab' = None /\ open' = open \ {"retry"}
            /\ source' = ShownAgain
            /\ UNCHANGED <<view, drafts, captured>>
    /\ UNCHANGED <<server, retried>>

AnswerRemove(s) ==
    /\ ops[s].kind = "remove" /\ ops[s].phase = "ok"
    /\ Done(s)
    /\ GoTo(None)
    /\ UNCHANGED <<server, retried>>

----------------------------------------------------------------------------
ServerNext ==
    \/ \E t \in Shared :
         Starts(t) \/ Finishes(t) \/ OtherUserCancels(t) \/ OtherUserRetries(t) \/ OtherUserEdits(t)
    \/ \E s \in Slots :
         ServePatch(s) \/ ServePublish(s) \/ ServeRetry(s) \/ ServeRemove(s) \/ Breaks(s)

UserNext ==
    \/ \E x \in Texts : TypeDiff(x) \/ TypeConflict(x)
    \/ Discard \/ SaveDiff \/ OpenPublish \/ Retry \/ OpenRemove
    \/ \E t \in {"diff", "logs", "conflict"} : SwitchTab(t)
    \/ \E t \in Tasks \cup {None} : Leave(t)
    \/ ConfirmPublish \/ OpenConflict \/ RetryAnyway \/ CreateNew \/ ConfirmRemove
    \/ \E d \in {"publish", "conflict", "retry", "remove"} : CloseDialog(d)

AnswerNext ==
    \/ FetchAnswers \/ FetchFails \/ Poll \/ StatusEvent
    \/ \E s \in Slots :
         AnswerError(s) \/ AnswerSave(s) \/ AnswerPublish(s) \/ AnswerClash(s) \/ RowReread(s)
         \/ AnswerRetry(s) \/ AnswerChanged(s) \/ AnswerCreate(s) \/ AnswerRemove(s)

PageNext == ServerNext \/ UserNext \/ AnswerNext

\* The timer ticks, requests are answered, EventSource keeps connecting.
PageFairness ==
    /\ WF_pageVars(Poll) /\ WF_pageVars(StatusEvent)
    /\ WF_pageVars(FetchAnswers \/ FetchFails)

PageSpec == PageInit /\ [][PageNext]_pageVars /\ PageFairness

----------------------------------------------------------------------------
(* Properties *)

PageTypeOK ==
    /\ \A t \in Tasks : server[t].status \in Statuses /\ server[t].text \in Texts
    /\ url \in Tasks \cup {None} /\ view.id \in Tasks \cup {None}
    /\ open \subseteq {"publish", "conflict", "retry", "remove"}
    /\ "publish" \in open => captured # None
    /\ source => Mounted /\ view.status = "running"

\* handlePublish publishes what the dialog was opened with: another text only
\* if the row was changed after the page's copy was read, by another user or by
\* a save of this page that was still on its way.
ConfirmedTextPublished ==
    [][\A s \in Slots :
         ops[s].kind = "publish" /\ ops[s].phase = "publish" /\ ops'[s].phase = "ok"
         => server[ops[s].id].text = ops[s].text \/ ~ops[s].fresh]_pageVars

\* A task that has ended is not shown as queued or running for ever, between
\* polling, the event stream and the requests that change its status, unless
\* it was retried while the page still showed it running.
EndMissed ==
    Mounted /\ url = view.id /\ ~Ended(view.status) /\ Ended(server[url].status)

EndIsShown == EndMissed ~> (~EndMissed \/ retried)

----------------------------------------------------------------------------
(* The inductive invariant behind PageTypeOK and ConfirmedTextPublished.     *)

Kinds  == {"none", "save", "publish", "retry", "create", "remove"}
Phases == {"none", "patch", "publish", "patient", "force", "create", "remove",
           "ok", "clash", "error", "reread"}

RowRecord  == [status : Statuses, text : Texts, theirs : Texts \cup {None}]
ViewRecord == [id : Tasks \cup {None}, status : Statuses, text : Texts \cup {None},
               theirs : Texts \cup {None}, fresh : BOOLEAN]
OpRecord   == [kind : Kinds, id : Tasks \cup {None}, text : Texts \cup {None}, phase : Phases,
               fresh : BOOLEAN, status : Statuses \cup {None}]

PageTypes ==
    /\ server \in [Tasks -> RowRecord] /\ url \in Tasks \cup {None} /\ view \in ViewRecord
    /\ fetch \in [active : BOOLEAN, error : BOOLEAN]
    /\ drafts \in [diff : Texts \cup {None}, conflict : Texts \cup {None}]
    /\ open \subseteq {"publish", "conflict", "retry", "remove"}
    /\ captured \in Texts \cup {None} /\ ops \in [Slots -> OpRecord]

\* What is shown is a task's row, and the source is open only for a running one.
ViewFits ==
    /\ view.id = None => view.status = "queued"
    /\ view.id # None => view.text \in Texts
    /\ source => Mounted /\ view.status = "running"

DialogFits == "publish" \in open => captured # None

\* A request in flight is about a task, and the text to store is one.
RequestsFit ==
    \A s \in Slots : /\ ops[s].phase # "none" => ops[s].id # None
                     /\ ops[s].phase = "patch" => ops[s].text # None

\* A copy that is fresh has the text of the row; so has what is about to be published.
FreshCopy    == view.id # None /\ view.fresh => server[view.id].text = view.text
FreshPublish ==
    \A s \in Slots :
        ops[s].kind = "publish" /\ ops[s].phase = "publish" /\ ops[s].fresh
        => server[ops[s].id].text = ops[s].text

PageInv == PageTypes /\ ViewFits /\ DialogFits /\ RequestsFit /\ FreshCopy /\ FreshPublish
=============================================================================
