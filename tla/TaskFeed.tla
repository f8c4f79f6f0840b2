------------------------------ MODULE TaskFeed ------------------------------
(***************************************************************************)
(* How the task list is fetched: infinite scroll over one cache entry       *)
(* (features/tasks/api/tasksApi getTasks, TaskListPage), the events that    *)
(* change or refetch it (hooks/useTaskListSSE) and the banner of new tasks  *)
(* (hooks/useTaskListNotifications). One filter scope; the tasks of the     *)
(* server are those inside it, newest first.                                *)
(***************************************************************************)
EXTENDS Naturals, FiniteSets, SequencesExt

CONSTANTS
    PageSize,   \* PAGE_SIZE
    MaxTasks,   \* bound: tasks that ever enter the scope, numbered by age
    MaxEvents,  \* bound: disturbances of each kind other than a new task
    MaxOffset   \* bound: the page scrolled to; rows that left the list make the
                \* page ask for further ones without end

ASSUME FeedAssumption == PageSize \in Nat \ {0} /\ MaxTasks \in Nat /\ MaxEvents \in Nat /\ MaxOffset \in Nat

VARIABLES
    server,    \* tasks in the scope, newest first
    created,   \* how many tasks have entered it
    cache,     \* the cache entry: rows, total, argument of its last request, error
    request,   \* the request in flight: its offset and the server's answer, if read
    stale,     \* the tag Task was invalidated while the request was in flight
    offset,    \* TaskListPage: offset
    armed,     \* the IntersectionObserver watches the sentinel
    stream,    \* useTaskListSSE's source is open
    banner,    \* useTaskListNotifications: new task ids stored, ids dismissed
    told,      \* history: ids announced by an event and not cleared since
    spent      \* history: how often each bounded disturbance happened

feedVars == <<server, created, cache, request, stale, offset, armed, stream, banner, told, spent>>

NoRequest == [offset |-> 0, read |-> FALSE, items |-> <<>>, total |-> 0, active |-> FALSE]

Asked(at) == [NoRequest EXCEPT !.offset = at, !.active = TRUE]

Visible(c) == Range(c.rows)

\* hasMore, of the cache entry c; a page being loaded still shows its rows.
HasMore(c) == ~c.error /\ Len(c.rows) < c.total

\* Mutated form of Rearm: the effect does not depend on isFetching.
RearmForMore(c, r) ==
    armed' = IF HasMore(c) # HasMore(cache) THEN HasMore(c) /\ ~r.active ELSE armed

\* The effect around the observer runs when hasMore or isFetching changes.
Rearm(c, r) ==
    armed' = IF <<HasMore(c), r.active>> # <<HasMore(cache), request.active>>
             THEN HasMore(c) /\ ~r.active ELSE armed

\* Every visible id becomes a dismissed one when the list has been drawn.
Draw(c, b) == banner' = [b EXCEPT !.dismissed = @ \cup Visible(c)]

NewTaskIds == banner.ids \ (banner.dismissed \cup Visible(cache))

----------------------------------------------------------------------------
FeedInit ==
    /\ server = <<>> /\ created = 0
    /\ cache = [rows |-> <<>>, total |-> 0, arg |-> 0, error |-> FALSE]
    /\ request = Asked(0)
    /\ stale = FALSE
    /\ offset = 0
    /\ armed = FALSE
    /\ stream = TRUE
    /\ banner = [ids |-> {}, dismissed |-> {}]
    /\ told = {}
    /\ spent = [leave |-> 0, fail |-> 0, press |-> 0]

\* A request for this cache entry: none is started while one is in flight.
Ask(at) ==
    IF request.active THEN UNCHANGED <<request, cache>>
    ELSE /\ request' = Asked(at)
         /\ cache' = [cache EXCEPT !.arg = at]

\* invalidateTags(Task): the entry is fetched again with its last argument, at
\* once or when the request in flight has been answered.
Invalidate ==
    /\ Ask(cache.arg)
    /\ stale' = (stale \/ request.active)

----------------------------------------------------------------------------
(* The server *)

\* Mutated form of Announce: the ids stored before are replaced.
AnnounceOnly(t) == [banner EXCEPT !.ids = {t}]

Announce(t) ==
    IF t \in Visible(cache) THEN banner
    ELSE [banner EXCEPT !.ids = (@ \ (banner.dismissed \cup Visible(cache))) \cup {t}]

\* A task enters the scope. task_entered reaches both subscriptions of the page.
TaskEnters ==
    /\ created < MaxTasks
    /\ created' = created + 1
    /\ server' = <<created + 1>> \o server
    /\ IF stream THEN Invalidate ELSE UNCHANGED <<request, cache, stale>>
    /\ banner' = Announce(created + 1)
    /\ told' = told \cup {created + 1}
    /\ Rearm(cache', request')
    /\ UNCHANGED <<offset, stream, spent>>

Disturb(kind) ==
    /\ spent[kind] < MaxEvents
    /\ spent' = [spent EXCEPT ![kind] = @ + 1]

\* A task leaves it. A change of status is announced, and the row is taken out
\* of the cache; a task deleted or published by somebody else is not announced.
TaskLeaves(t, announced) ==
    /\ Disturb("leave") /\ t \in Range(server)
    /\ server' = RemoveFirst(server, t)
    /\ cache' = IF announced /\ stream /\ t \in Visible(cache)
                THEN [cache EXCEPT !.rows = RemoveFirst(@, t), !.total = IF @ = 0 THEN 0 ELSE @ - 1]
                ELSE cache
    /\ Rearm(cache', request)
    /\ UNCHANGED <<created, request, stale, offset, stream, banner, told>>

\* es.onerror closes the source, which is not opened again.
StreamBreaks ==
    /\ stream /\ stream' = FALSE
    /\ UNCHANGED <<server, created, cache, request, stale, offset, armed, banner, told, spent>>

----------------------------------------------------------------------------
(* Answers *)

Page(at) == SubSeq(server, at + 1, Min({at + PageSize, Len(server)}))

ServerReads ==
    /\ request.active /\ ~request.read
    /\ request' = [request EXCEPT !.read = TRUE, !.total = Len(server),
                      !.items = Page(request.offset)]
    /\ UNCHANGED <<server, created, cache, stale, offset, armed, stream, banner, told, spent>>

\* Mutated form of Merge: pages are appended as they come.
AppendPage(c, r) ==
    [c EXCEPT !.rows = IF r.offset = 0 THEN r.items ELSE @ \o r.items,
              !.total = r.total, !.error = FALSE]

\* The rows of a list that are not in seen, in their order. Not SelectSeq, of whose
\* recursion nothing can be proved.
Unseen(list, seen) ==
    LET at == {i \in DOMAIN list : list[i] \notin seen}
        place(i) == Cardinality({j \in at : j <= i})
    IN [k \in 1 .. Cardinality(at) |-> list[CHOOSE i \in at : place(i) = k]]

\* merge: the first page replaces everything, another one adds the rows unseen.
Merge(c, r) ==
    [c EXCEPT !.rows = IF r.offset = 0 THEN r.items
                       ELSE @ \o Unseen(r.items, Visible(c)),
              !.total = r.total, !.error = FALSE]

AfterAnswer(c) ==
    /\ request' = IF stale THEN Asked(cache.arg) ELSE NoRequest
    /\ stale' = FALSE
    /\ cache' = c
    /\ Rearm(cache', request')
    /\ UNCHANGED <<server, created, offset, stream>>

AnswerArrives ==
    /\ request.active /\ request.read
    /\ AfterAnswer(Merge(cache, request))
    /\ Draw(Merge(cache, request), banner)
    /\ UNCHANGED <<told, spent>>

AnswerFails ==
    /\ request.active /\ Disturb("fail")
    /\ AfterAnswer([cache EXCEPT !.error = TRUE])
    /\ UNCHANGED <<banner, told>>

----------------------------------------------------------------------------
(* The page *)

\* offset changes: forceRefetch asks for the page if it is not the last one
\* asked for.
SetOffset(at) ==
    /\ offset' = at
    /\ IF at # cache.arg THEN Ask(at) ELSE UNCHANGED <<request, cache>>

\* The sentinel comes into view: the observer disconnects and asks for more.
Scroll ==
    /\ armed /\ offset + PageSize <= MaxOffset
    /\ SetOffset(offset + PageSize)
    /\ armed' = FALSE
    /\ UNCHANGED <<server, created, stale, stream, banner, told, spent>>

\* TaskListError: refetch() with the argument of the page.
RetryList ==
    /\ cache.error /\ ~request.active
    /\ Ask(offset)
    /\ Rearm(cache', request')
    /\ UNCHANGED <<server, created, stale, offset, stream, banner, told, spent>>

\* NewTasksBanner: clearNewTasks, setOffset(0), refetch(). refetch comes first
\* to the cache, with the offset before; the page's own request for offset 0
\* then finds it in flight.
PressRefresh ==
    /\ NewTaskIds # {} /\ Disturb("press")
    /\ offset' = 0
    /\ Ask(offset)
    /\ banner' = [banner EXCEPT !.ids = {}]
    /\ told' = {}
    /\ Rearm(cache', request')
    /\ UNCHANGED <<server, created, stale, stream>>

----------------------------------------------------------------------------
FeedNext ==
    \/ TaskEnters
    \/ \E t \in 1 .. created, announced \in BOOLEAN : TaskLeaves(t, announced)
    \/ StreamBreaks
    \/ ServerReads \/ AnswerArrives \/ AnswerFails
    \/ Scroll \/ RetryList \/ PressRefresh

\* Requests are answered; the user stays at the bottom of the list, where the
\* sentinel is in view, and presses the retry button of a list that failed.
FeedFairness ==
    /\ WF_feedVars(ServerReads) /\ WF_feedVars(AnswerArrives)
    /\ WF_feedVars(Scroll) /\ WF_feedVars(RetryList)

FeedSpec == FeedInit /\ [][FeedNext]_feedVars /\ FeedFairness

----------------------------------------------------------------------------
(* Properties *)

\* Types; the observer watches only while there is more and nothing is fetched.
FeedTypeOK ==
    /\ armed => HasMore(cache) /\ ~request.active
    /\ stale => request.active
    /\ Range(server) \subseteq 1 .. created /\ created <= MaxTasks
    /\ Visible(cache) \subseteq 1 .. created
    /\ cache.total \in 0 .. MaxTasks /\ cache.error \in BOOLEAN
    /\ request.active \in BOOLEAN /\ request.read \in BOOLEAN
    /\ {stale, armed, stream} \subseteq BOOLEAN
    /\ banner \in [{"ids", "dismissed"} -> SUBSET (1 .. created)]

\* No task has two rows, although every new task moves the pages below it and
\* the page fetched next repeats rows of the one before.
NoDuplicateRows == IsInjective(cache.rows)

\* A task whose arrival was announced is on the screen, counted by the banner,
\* or was on the screen before, until the user presses the banner's button; no
\* refetch, further event or lost row takes it out of the count.
EnteredIsAnnounced == told \subseteq banner.dismissed \cup NewTaskIds

\* As long as no task leaves the list and its refresh button is not pressed, a
\* user at its bottom gets to see every task older than the first one shown,
\* whatever new tasks move the pages, and whatever request fails on the way.
ScrollReachesEnd ==
    \/ <>(spent.leave > 0 \/ spent.press > 0)
    \/ <>[](\A t \in Range(server) : \A u \in Visible(cache) : t < u => t \in Visible(cache))

----------------------------------------------------------------------------
(* The inductive invariant behind FeedTypeOK, NoDuplicateRows and            *)
(* EnteredIsAnnounced.                                                       *)

FeedTypes ==
    /\ created \in 0 .. MaxTasks /\ server \in Seq(1 .. created) /\ offset \in Nat
    /\ cache \in [rows : Seq(1 .. created), total : 0 .. MaxTasks, arg : Nat, error : BOOLEAN]
    /\ request \in [offset : Nat, read : BOOLEAN, items : Seq(1 .. created), total : 0 .. MaxTasks,
                    active : BOOLEAN]
    /\ {stale, armed, stream} \subseteq BOOLEAN
    /\ banner \in [ids : SUBSET (1 .. created), dismissed : SUBSET (1 .. created)]
    /\ told \subseteq 1 .. created

\* The server counts no more tasks than have ever entered.
ServerFits == Len(server) <= created

\* No list holds a task twice: the rows stay distinct because the pages are.
ListsDistinct == IsInjective(server) /\ IsInjective(request.items) /\ NoDuplicateRows

\* Nothing is watched or invalidated twice.
WatchFits == (armed => HasMore(cache) /\ ~request.active) /\ (stale => request.active)

\* What is drawn has been dismissed, and what is neither dismissed nor on the screen
\* when it is announced stays stored.
DrawnIsDismissed  == Visible(cache) \subseteq banner.dismissed
AnnouncedIsStored == told \subseteq banner.dismissed \cup banner.ids

FeedInv == FeedTypes /\ ServerFits /\ ListsDistinct /\ WatchFits /\ DrawnIsDismissed /\ AnnouncedIsStored
=============================================================================
