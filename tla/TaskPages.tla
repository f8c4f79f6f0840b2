------------------------------ MODULE TaskPages ------------------------------
(* The list of the tasks and the page of one task: two pages of the tab, side *)
(* by side.                                                                   *)
EXTENDS TaskFeed

CONSTANTS Tasks, Shared, First, Texts, None, Slots

VARIABLES part, row, url, view, fetch, drafts, tab, open, captured, ops, source, retried

Task == INSTANCE TaskPage WITH server <- row

ASSUME PagesAssumption == Task!TaskPageAssumption

onePageVars == <<row, url, view, fetch, drafts, tab, open, captured, ops, source, retried>>

TaskPagesInit ==
    /\ part \in {"list", "task"} /\ FeedInit /\ Task!PageInit
    /\ part = "list" => row[First].status = "queued"

TaskPagesNext ==
    /\ UNCHANGED part
    /\ \/ part = "list" /\ FeedNext /\ UNCHANGED onePageVars
       \/ part = "task" /\ Task!PageNext /\ UNCHANGED feedVars

taskPagesVars == <<part, feedVars, onePageVars>>

\* FeedFairness and PageFairness, each for the page that is on the screen.
TaskPagesFairness ==
    /\ WF_taskPagesVars(part = "list" /\ ServerReads /\ UNCHANGED <<part, onePageVars>>)
    /\ WF_taskPagesVars(part = "list" /\ AnswerArrives /\ UNCHANGED <<part, onePageVars>>)
    /\ WF_taskPagesVars(part = "list" /\ Scroll /\ UNCHANGED <<part, onePageVars>>)
    /\ WF_taskPagesVars(part = "list" /\ RetryList /\ UNCHANGED <<part, onePageVars>>)
    /\ WF_taskPagesVars(part = "task" /\ Task!Poll /\ UNCHANGED <<part, feedVars>>)
    /\ WF_taskPagesVars(part = "task" /\ Task!StatusEvent /\ UNCHANGED <<part, feedVars>>)
    /\ WF_taskPagesVars(part = "task" /\ (Task!FetchAnswers \/ Task!FetchFails) /\ UNCHANGED <<part, feedVars>>)

TaskPagesSpec == TaskPagesInit /\ [][TaskPagesNext]_taskPagesVars /\ TaskPagesFairness

----------------------------------------------------------------------------
\* Types of both pages; the observer of the list watches only while there is
\* more and nothing is fetched, the stream of the page only a running task.
TaskPagesTypeOK == FeedTypeOK /\ Task!PageTypeOK

\* What the publish dialog was opened with is what is published.
ConfirmedTextPublished == Task!ConfirmedTextPublished

\* The end of a translation reaches the page of the task.
EndIsShown == Task!EndIsShown
=============================================================================
