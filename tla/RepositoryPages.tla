--------------------------- MODULE RepositoryPages ---------------------------
(***************************************************************************)
(* The pages of the repositories (features/projects/ui and api): the list   *)
(* with a delete dialog per row, the page of one repository with its        *)
(* drafts, dialogs and requests, and the page that creates one. The page of *)
(* a repository shows the last answer of its query; its requests name the   *)
(* repository of the URL. Of the settings the values are abstracted to      *)
(* 0 .. 1; a GET reads the repository when it is answered.                  *)
(***************************************************************************)
EXTENDS Naturals

CONSTANTS
    Repos,     \* repositories there are at first
    Fields,    \* settings with a draft: "patterns", "limit", "threshold"
    Rejected,  \* pairs <<field, value>> that the server refuses
    Edited,    \* bound: repositories whose drafts are changed
    Calls,     \* bound: requests in flight
    MaxMade    \* bound: repositories one visit of the form creates

NoRepo  == "no repository"
Values  == 0 .. 1
Default == [f \in Fields |-> 1]
NoCopy  == [f \in Fields |-> 2]

RepositoryAssumption ==
    /\ NoRepo \notin Repos /\ Edited \subseteq Repos /\ MaxMade \in Nat
    /\ Fields \subseteq {"patterns", "limit", "threshold"}
    /\ Rejected \subseteq Fields \X Values

VARIABLES
    stored,    \* the server: repositories and their settings
    route,     \* the page, and the repository in its URL
    known,     \* the query cache: a copy of each repository or NoCopy, which are
               \* fetched, the list and whether there is one
    content,   \* RepositoryDetailContent and the dialog of a row: the repository
               \* shown, drafts, dialogs, the repository whose secret is on the screen
    creation,  \* NewRepositoryPage: form offered, secret on the screen; (history)
               \* repositories its form has created, whether an answer got lost
    calls      \* the requests

repoVars == <<stored, route, known, content, creation, calls>>

NoContent == [shown |-> NoRepo, draft |-> Default, edited |-> {}, behind |-> FALSE,
              dialog |-> "none", named |-> NoRepo, row |-> NoRepo, secret |-> NoRepo, early |-> FALSE]

NoCreation == [linked |-> FALSE, secret |-> FALSE, made |-> 0, lost |-> FALSE]

\* live: the component that sent it is still mounted. early: it was sent from a
\* page that showed another repository.
NoCall == [kind |-> "none", repo |-> NoRepo, field |-> "none", value |-> 0, named |-> NoRepo,
           from |-> "none", live |-> FALSE, early |-> FALSE, answer |-> "none"]

Cached(p) == known.copy[p] # NoCopy

\* isLoading of a mutation: it belongs to the component.
Loading(kind) == \E i \in Calls : calls[i].kind = kind /\ calls[i].live

Detail == route.page = "detail" /\ content.shown # NoRepo
Rows   == IF route.page = "list" THEN known.list ELSE {}

----------------------------------------------------------------------------
RepoInit ==
    /\ stored = [repos |-> Repos, settings |-> [p \in Repos |-> Default]]
    /\ route = [page |-> "list", repo |-> NoRepo]
    /\ known = [copy |-> [p \in Repos |-> NoCopy], fetching |-> {}, list |-> Repos, listed |-> TRUE]
    /\ content = NoContent
    /\ creation = NoCreation
    /\ calls = [i \in Calls |-> NoCall]

----------------------------------------------------------------------------
(* What is mounted *)

\* A new content starts from the copy it is given (useState). History: it is
\* behind when that copy is being read again or an update is on its way.
NewContent(p, copy, fetching) ==
    [NoContent EXCEPT !.shown = p, !.draft = copy,
        !.behind = p \in fetching \/ \E i \in Calls : calls[i].kind = "update" /\ calls[i].repo = p]

\* Only a deletion is judged by where it was sent from.
Abandon == calls' = [i \in Calls |-> [calls[i] EXCEPT !.live = FALSE, !.early = @ /\ calls[i].kind = "delete"]]

\* Mutated form of Show: RepositoryDetailContent without its key.
ShowUnkeyed(p, copy, fetching) ==
    IF content.shown # NoRepo THEN content' = [content EXCEPT !.shown = p] /\ UNCHANGED calls
    ELSE content' = NewContent(p, copy, fetching) /\ Abandon

\* RepositoryDetailContent is keyed by the project's id.
Show(p, copy, fetching) ==
    IF content.shown = p THEN UNCHANGED <<content, calls>>
    ELSE content' = NewContent(p, copy, fetching) /\ Abandon

Hide == content' = NoContent /\ Abandon

\* From one repository to another (palette, history) the page stays mounted:
\* without a cached copy it goes on showing the one before, dialogs included.
OpenRepo(p) ==
    /\ route.repo # p
    /\ route' = [page |-> "detail", repo |-> p]
    /\ creation' = NoCreation
    /\ CASE Cached(p) -> Show(p, known.copy[p], known.fetching) /\ UNCHANGED known
         [] ~Cached(p) ->
              /\ known' = [known EXCEPT !.fetching = @ \cup {p}]
              /\ IF route.page = "detail" THEN UNCHANGED <<content, calls>> ELSE Hide
    /\ UNCHANGED stored

ToPage(page) ==
    /\ route' = [page |-> page, repo |-> NoRepo]
    /\ creation' = NoCreation

GoToPage(page) ==
    /\ page # route.page
    /\ ToPage(page) /\ Hide
    /\ UNCHANGED <<stored, known>>

\* An entry nobody shows is dropped after a minute.
Expire(p) ==
    /\ Cached(p) /\ route.repo # p
    /\ known' = [known EXCEPT !.copy[p] = NoCopy]
    /\ UNCHANGED <<stored, route, content, creation, calls>>

----------------------------------------------------------------------------
(* Queries *)

RepoArrives(p) ==
    /\ p \in known.fetching /\ p \in stored.repos
    /\ known' = [known EXCEPT !.copy[p] = stored.settings[p], !.fetching = @ \ {p}]
    /\ IF route.repo = p THEN Show(p, stored.settings[p], {}) ELSE UNCHANGED <<content, calls>>
    /\ UNCHANGED <<stored, route, creation>>

\* A repository that is gone, or a failing request: the page shows the error.
RepoFails(p) ==
    /\ p \in known.fetching
    /\ known' = [known EXCEPT !.copy[p] = NoCopy, !.fetching = @ \ {p}]
    /\ IF route.repo = p THEN Hide ELSE UNCHANGED <<content, calls>>
    /\ UNCHANGED <<stored, route, creation>>

\* Mutated form of ListArrives: one dialog for all rows.
ListArrivesUnderDialog ==
    /\ route.page = "list" /\ ~(known.listed /\ known.list = stored.repos)
    /\ known' = [known EXCEPT !.list = stored.repos, !.listed = TRUE]
    /\ UNCHANGED <<stored, route, content, calls, creation>>

\* A row that is gone takes its dialog along.
ListArrives ==
    /\ route.page = "list" /\ ~(known.listed /\ known.list = stored.repos)
    /\ known' = [known EXCEPT !.list = stored.repos, !.listed = TRUE]
    /\ IF content.row \in stored.repos THEN UNCHANGED <<content, calls>> ELSE Hide
    /\ UNCHANGED <<stored, route, creation>>

\* Mutated form of Invalidate: copies that nobody shows are kept.
InvalidateShown(scope) ==
    LET keep == scope # Repos \/ route.page = "list" IN
    known' = [known EXCEPT !.fetching = @ \cup (scope \cap {route.repo}),
                           !.list = IF keep THEN @ ELSE {}, !.listed = @ /\ keep]

\* invalidatesTags: what the page shows is read again, other entries are dropped.
\* Pausing names one repository, everything else all of them and the list.
Invalidate(scope) ==
    LET keep == scope # Repos \/ route.page = "list" IN
    known' = [copy     |-> [p \in Repos |-> IF p \in scope \ {route.repo} THEN NoCopy ELSE known.copy[p]],
              fetching |-> known.fetching \cup (scope \cap {route.repo}),
              list     |-> IF keep THEN known.list ELSE {},
              listed   |-> known.listed /\ keep]

----------------------------------------------------------------------------
(* The content: drafts and dialogs. A dialog covers what is behind it. *)

Touch ==
    /\ Detail /\ content.dialog = "none" /\ content.secret = NoRepo
    /\ UNCHANGED <<stored, route, known, creation>>

InDialog(d) ==
    /\ content.dialog = d /\ content.secret = NoRepo
    /\ UNCHANGED <<stored, route, known, creation>>

Idle == {i \in Calls : calls[i] = NoCall}

Call(call) ==
    /\ ~Loading(call.kind) /\ Idle # {}
    /\ calls' = [calls EXCEPT ![CHOOSE i \in Idle : TRUE] =
                    [call EXCEPT !.live = TRUE, !.from = route.page,
                                 !.early = route.page = "detail" /\ content.shown # route.repo]]

ForUrl(kind) == [NoCall EXCEPT !.kind = kind, !.repo = route.repo]

SetDraft(f, v) ==
    /\ Touch /\ v # content.draft[f] /\ content.shown \in Edited
    /\ content' = [content EXCEPT !.draft[f] = v, !.edited = @ \cup {f}]
    /\ UNCHANGED calls

\* One isUpdating for all of them. handleSaveThreshold refuses what is not
\* between 1 and 100; the limit is sent as it was typed.
SaveField(f) ==
    /\ Touch /\ (f = "threshold" => content.draft[f] # 0)
    /\ Call([ForUrl("update") EXCEPT !.field = f, !.value = content.draft[f]])
    /\ UNCHANGED content

PausePipeline == Touch /\ Call([ForUrl("pause") EXCEPT !.repo = content.shown]) /\ UNCHANGED content

OpenDialog(d) ==
    /\ Touch
    /\ content' = [content EXCEPT !.dialog = d]
    /\ UNCHANGED calls

\* The menu of a row.
AskDeleteRow(p) ==
    /\ p \in Rows /\ content.dialog = "none"
    /\ content' = [content EXCEPT !.dialog = "delete", !.row = p]
    /\ UNCHANGED <<stored, route, known, creation, calls>>

SaveBranches == InDialog("branches") /\ Call([ForUrl("update") EXCEPT !.field = "branches"]) /\ UNCHANGED content

\* OpenDeleteProjectDialog: the second step asks for the name of the project the
\* dialog was given.
TypeName ==
    /\ InDialog("delete")
    /\ content' = [content EXCEPT !.dialog = "typeName",
                      !.named = IF route.page = "list" THEN content.row ELSE content.shown]
    /\ UNCHANGED calls

ConfirmDelete ==
    /\ InDialog("typeName")
    /\ Call([ForUrl("delete") EXCEPT !.repo = IF route.page = "list" THEN content.row ELSE @,
                                     !.named = content.named])
    /\ UNCHANGED content

ConfirmRegenerate == InDialog("confirmSecret") /\ Call(ForUrl("regenerate")) /\ UNCHANGED content

CloseDialog ==
    /\ InDialog(content.dialog) /\ content.dialog # "none"
    /\ content' = [content EXCEPT !.dialog = "none", !.named = NoRepo, !.row = NoRepo]
    /\ UNCHANGED calls

\* WebhookSecretModal does not close but by Done.
SecretDone ==
    /\ content.secret # NoRepo
    /\ content' = [content EXCEPT !.secret = NoRepo, !.early = FALSE]
    /\ UNCHANGED <<stored, route, known, creation, calls>>

----------------------------------------------------------------------------
(* NewRepositoryPage *)

\* The query of the user is repeated on focus; without a GitHub account there is
\* no form, the page keeps its state.
GithubChanges ==
    /\ route.page = "new"
    /\ creation' = [creation EXCEPT !.linked = ~@]
    /\ UNCHANGED <<stored, route, known, content, calls>>

Create ==
    /\ route.page = "new" /\ creation.linked /\ ~creation.secret /\ creation.made < MaxMade
    /\ Call(ForUrl("create"))
    /\ UNCHANGED <<stored, route, known, content, creation>>

CreationDone ==
    /\ creation.secret
    /\ ToPage("list") /\ Hide
    /\ UNCHANGED <<stored, known>>

----------------------------------------------------------------------------
(* The server *)

Refused(c) == c.kind # "create" /\ (c.repo \notin stored.repos \/ <<c.field, c.value>> \in Rejected)

Store(c) ==
    CASE c.kind = "update" /\ c.field \in Fields ->
            [stored EXCEPT !.settings[c.repo][c.field] = c.value]
      [] c.kind = "delete" -> [stored EXCEPT !.repos = @ \ {c.repo}]
      [] OTHER -> stored

\* A request may fail, and so may the answer of one that was done.
Serve(i) ==
    LET c == calls[i] IN
    /\ c.kind # "none" /\ c.answer = "none"
    /\ \E done \in BOOLEAN, answer \in {"ok", "error"} :
          /\ answer = "ok" => done
          /\ done => ~Refused(c)
          /\ stored' = IF done THEN Store(c) ELSE stored
          /\ calls' = [calls EXCEPT ![i].answer = answer]
          /\ creation' = IF done /\ c.kind = "create" /\ c.live
                         THEN [creation EXCEPT !.made = @ + 1, !.lost = @ \/ answer = "error"]
                         ELSE creation
    /\ UNCHANGED <<route, known, content>>

----------------------------------------------------------------------------
(* Answers *)

Answered(i, kind, answer) ==
    /\ calls[i].kind = kind /\ calls[i].answer = answer
    /\ UNCHANGED stored

Done(i) == calls' = [calls EXCEPT ![i] = NoCall]

\* A toast, or the error over the form; queries are invalidated all the same.
AnswerError(i) ==
    /\ Answered(i, calls[i].kind, "error") /\ Done(i)
    /\ Invalidate(IF calls[i].kind = "pause" THEN {calls[i].repo} ELSE Repos)
    /\ UNCHANGED <<route, content, creation>>

Saved(c) == IF c.repo = content.shown THEN content.edited \ {c.field} ELSE content.edited

\* The patterns and the threshold of the answer replace what was typed since;
\* the limit has no handler; the branches close their dialog.
AnswerUpdate(i) ==
    LET c == calls[i] IN
    /\ Answered(i, "update", "ok") /\ Done(i) /\ Invalidate(Repos)
    /\ content' =
          IF ~c.live THEN content
          ELSE CASE c.field = "branches" ->
                      [content EXCEPT !.dialog = IF @ = "branches" THEN "none" ELSE @]
                 [] c.field = "limit" ->
                      [content EXCEPT !.edited = IF content.draft.limit = c.value THEN Saved(c) ELSE @]
                 [] OTHER -> [content EXCEPT !.draft[c.field] = c.value, !.edited = Saved(c)]
    /\ UNCHANGED <<route, creation>>

AnswerPause(i) ==
    /\ Answered(i, "pause", "ok") /\ Done(i) /\ Invalidate({calls[i].repo})
    /\ UNCHANGED <<route, content, creation>>

AnswerRegenerate(i) ==
    LET c == calls[i] IN
    /\ Answered(i, "regenerate", "ok") /\ Done(i) /\ Invalidate(Repos)
    /\ content' = IF ~c.live THEN content
                  ELSE [content EXCEPT !.secret = c.repo, !.early = c.early,
                           !.dialog = IF @ = "confirmSecret" THEN "none" ELSE @]
    /\ UNCHANGED <<route, creation>>

\* handleDelete of a row closes its dialog; handleDeleteProject goes to the list,
\* from wherever the user is by then.
AnswerDelete(i) ==
    LET c == calls[i] IN
    /\ Answered(i, "delete", "ok")
    /\ IF c.from = "list"
       THEN /\ Done(i) /\ Invalidate(Repos)
            /\ content' = IF c.live /\ content.row = c.repo THEN NoContent ELSE content
            /\ UNCHANGED <<route, creation>>
       ELSE /\ calls' = [j \in Calls |-> IF j = i THEN NoCall ELSE [calls[j] EXCEPT !.live = FALSE]]
            /\ Invalidate(Repos)
            /\ ToPage("list") /\ content' = NoContent

\* Mutated form of AnswerCreate: the secret is part of the form.
AnswerCreateInForm(i) ==
    LET c == calls[i] IN
    /\ Answered(i, "create", "ok") /\ Done(i) /\ Invalidate(Repos)
    /\ creation' = IF c.live THEN [creation EXCEPT !.secret = creation.linked] ELSE creation
    /\ UNCHANGED <<route, content>>

\* The secret exists in this answer only.
AnswerCreate(i) ==
    LET c == calls[i] IN
    /\ Answered(i, "create", "ok") /\ Done(i) /\ Invalidate(Repos)
    /\ creation' = IF c.live THEN [creation EXCEPT !.secret = TRUE] ELSE creation
    /\ UNCHANGED <<route, content>>

----------------------------------------------------------------------------
RepoNext ==
    \/ \E p \in Repos : OpenRepo(p) \/ Expire(p) \/ RepoArrives(p) \/ RepoFails(p) \/ AskDeleteRow(p)
    \/ \E page \in {"list", "new"} : GoToPage(page)
    \/ ListArrives
    \/ \E f \in Fields : SaveField(f) \/ \E v \in Values : SetDraft(f, v)
    \/ \E d \in {"branches", "delete", "confirmSecret"} : OpenDialog(d)
    \/ PausePipeline \/ SaveBranches \/ TypeName \/ ConfirmDelete \/ ConfirmRegenerate
    \/ CloseDialog \/ SecretDone
    \/ GithubChanges \/ Create \/ CreationDone
    \/ \E i \in Calls :
          \/ Serve(i) \/ AnswerError(i) \/ AnswerUpdate(i) \/ AnswerPause(i)
          \/ AnswerRegenerate(i) \/ AnswerDelete(i) \/ AnswerCreate(i)

RepoSpec == RepoInit /\ [][RepoNext]_repoVars

----------------------------------------------------------------------------
(* Properties *)

RepoTypeOK ==
    /\ stored.repos \subseteq Repos /\ stored.settings \in [Repos -> [Fields -> Values]]
    /\ route \in [page : {"list", "detail", "new"}, repo : Repos \cup {NoRepo}]
    /\ known.copy \in [Repos -> [Fields -> Values] \cup {NoCopy}] /\ known.fetching \subseteq Repos
    /\ content.shown # NoRepo => route.page = "detail"
    /\ content.row # NoRepo => content.row \in Rows
    /\ \A i \in Calls : calls[i].live => calls[i].repo \in Repos \/ calls[i].kind = "create"

\* A repository is deleted only after its own name was typed, on its page or on
\* its row, however the user went from one repository to another; but while a
\* page still shows the one before, its requests go to the next.
DeletedByName ==
    \A i \in Calls : calls[i].kind = "delete" /\ ~calls[i].early => calls[i].named = calls[i].repo

\* The secret on the screen belongs to the repository whose webhook URL is shown
\* beside it, whatever was opened since it was asked for; but for an early request.
SecretFitsPage ==
    content.secret # NoRepo /\ ~content.early => content.secret = content.shown

\* What the user has not touched is what the server has: an answer never leaves
\* an older value in a field, unless the content was mounted with a copy about
\* to be replaced, or a request is under way.
UntouchedDraftIsStored ==
    (/\ Detail /\ content.shown \in stored.repos /\ ~content.behind
     /\ \A i \in Calls : calls[i].kind # "update") =>
        \A f \in Fields \ content.edited : content.draft[f] = stored.settings[content.shown][f]

\* One visit of the form creates one repository, also when GitHub is unlinked
\* and linked meanwhile; two only after an answer was lost.
OneRepositoryPerForm == ~creation.lost => creation.made <= 1
----------------------------------------------------------------------------
(* What makes the properties above inductive.                               *)

Settings == [Fields -> Values]

PageNames == {"list", "detail", "new"}

CallRecord ==
    [kind : {"none", "update", "pause", "regenerate", "delete", "create"},
     repo : Repos \cup {NoRepo}, field : Fields \cup {"none", "branches"}, value : Values,
     named : Repos \cup {NoRepo}, from : PageNames \cup {"none"}, live : BOOLEAN, early : BOOLEAN,
     answer : {"none", "ok", "error"}]

KnownRecord ==
    [copy : [Repos -> Settings \cup {NoCopy}], fetching : SUBSET Repos,
     list : SUBSET Repos, listed : BOOLEAN]

ContentRecord ==
    [shown : Repos \cup {NoRepo}, draft : Settings, edited : SUBSET Fields, behind : BOOLEAN,
     dialog : {"none", "branches", "delete", "typeName", "confirmSecret"},
     named : Repos \cup {NoRepo}, row : Repos \cup {NoRepo},
     secret : Repos \cup {NoRepo}, early : BOOLEAN]

RepoTypes ==
    /\ stored \in [repos : SUBSET Repos, settings : [Repos -> Settings]]
    /\ route \in [page : PageNames, repo : Repos \cup {NoRepo}]
    /\ known \in KnownRecord
    /\ content \in ContentRecord
    /\ creation \in [linked : BOOLEAN, secret : BOOLEAN, made : Nat, lost : BOOLEAN]
    /\ calls \in [Calls -> CallRecord]

\* What is mounted fits the page: a content and its dialogs are of the page of a
\* repository, the dialog of a row is of the list, the secret of a new repository
\* of its form.
Mounted ==
    /\ route.page = "detail" <=> route.repo # NoRepo
    /\ content.shown # NoRepo => route.page = "detail"
    /\ content.row # NoRepo => content.row \in Rows
    /\ content.dialog # "none" =>
          \/ route.page = "list" /\ content.row # NoRepo /\ content.dialog \in {"delete", "typeName"}
          \/ route.page = "detail" /\ content.shown # NoRepo
    /\ content.dialog = "typeName" =>
          content.named = (IF route.page = "list" THEN content.row ELSE content.shown)

\* A request that is live was sent from what is still on the screen.
LiveFits ==
    /\ \A i \in Calls :
          LET c == calls[i] IN
          /\ c.kind = "update" => c.field \in Fields \cup {"branches"}
          /\ c.live => c.kind # "none"
          /\ c.kind \in {"none", "create"} \/ c.repo \in Repos
          /\ c.live /\ c.kind = "create" => route.page = "new"
          /\ c.live /\ c.kind = "regenerate" =>
                route.page = "detail" /\ (c.repo = content.shown \/ c.early)
    /\ \A i, j \in Calls :
          /\ calls[i].live /\ calls[j].live /\ calls[i].kind = calls[j].kind
          /\ calls[i].kind \in {"update", "create"}
          => i = j

\* A form has made a repository only if its secret is shown or its answer is on
\* the way; then nothing else is asked for.
MadeOnce ==
    /\ creation.secret => \A i \in Calls : ~(calls[i].live /\ calls[i].kind = "create")
    /\ ~creation.lost /\ creation.made # 0 =>
          /\ creation.made = 1
          /\ creation.secret \/ \E i \in Calls :
                calls[i].live /\ calls[i].kind = "create" /\ calls[i].answer = "ok"

\* A copy that is not being read again is what is stored, unless an update of the
\* repository is in flight.
CopyIsStored ==
    \A p \in Repos :
        Cached(p) /\ p \notin known.fetching /\ (\A i \in Calls : ~(calls[i].kind = "update" /\ calls[i].repo = p))
        => known.copy[p] = stored.settings[p]

\* The draft, what is stored and the update in flight: there is at most one of the
\* repository shown, and it is of this content.
DraftFits ==
    content.shown # NoRepo /\ ~content.behind =>
        /\ \A f \in Fields \ content.edited : content.draft[f] = stored.settings[content.shown][f]
        /\ \A i \in Calls :
              LET c == calls[i] IN
              c.kind = "update" =>
                  /\ c.repo = content.shown => c.live
                  /\ c.live /\ c.field \in Fields \ content.edited => c.value = content.draft[c.field]
                  /\ c.repo = content.shown /\ c.answer = "ok" /\ c.field \in Fields =>
                        stored.settings[content.shown][c.field] = c.value

RepoInv ==
    /\ RepoTypes /\ Mounted /\ LiveFits /\ MadeOnce /\ CopyIsStored /\ DraftFits
    /\ DeletedByName /\ SecretFitsPage
=============================================================================
