------------------------ MODULE TriggerTranslation ------------------------
(***************************************************************************)
(* The dialog that starts translations by hand                              *)
(* (features/tasks/ui/TriggerTranslationDialog and lib/repoFileSelection):  *)
(* a tree of a repository's files with a selection, and a list of files to  *)
(* upload. The dialog stays mounted while it is closed, its lists are       *)
(* fetched per repository, and its requests outlive it.                     *)
(*                                                                          *)
(* A path is a sequence of names; a folder is the prefix of its files.      *)
(***************************************************************************)
EXTENDS Naturals, FiniteSets, SequencesExt

CONSTANTS
    Projects,        \* repositories offered
    DefaultProject,  \* projects[0]
    RepoFiles,       \* the translatable files of each repository
    DiskFiles,       \* files the user may pick for an upload
    Translatable,    \* those of them that TRANSLATABLE_RE accepts
    SearchNames,     \* names the user may search for
    Paths,           \* target paths the user may type
    GithubLinked,    \* user.github_linked
    MaxUploads,      \* bound: rows of the upload list
    MaxSubmits       \* bound: presses of the submit button

None == "none"

TriggerAssumption ==
    /\ DefaultProject \in Projects /\ None \notin Projects
    /\ \A p \in Projects : RepoFiles[p] \subseteq Seq(STRING)
    /\ Translatable \subseteq DiskFiles /\ IsFiniteSet(DiskFiles)
    /\ GithubLinked \in BOOLEAN /\ MaxUploads \in Nat /\ MaxSubmits \in Nat

VARIABLES
    dialog,    \* open, tab, chosen repository, folder browsed, search, result shown
    selected,  \* selectedFiles
    lists,     \* the file list queries: cached, in flight, failed, and the one shown
    uploads,   \* uploadedFiles: file and target path of each row
    upTarget,  \* uploadProjectId
    pending,   \* submissions not wholly answered: what was sent, the answers so far
    latest     \* the number of the last submission of each kind

triggerVars == <<dialog, selected, lists, uploads, upTarget, pending, latest>>

----------------------------------------------------------------------------
(* lib/repoFileSelection *)

FilesUnder(files, prefix) == {f \in files : IsStrictPrefix(prefix, f)}

\* Mutated form of Folders: a folder is cut before its own name.
FoldersCutShort(files, prefix) ==
    {SubSeq(f, 1, Len(prefix)) : f \in {g \in FilesUnder(files, prefix) : Len(g) > Len(prefix) + 1}}

\* getTreeLevel: the folders and the files directly under a prefix.
Folders(files, prefix) ==
    {SubSeq(f, 1, Len(prefix) + 1) : f \in {g \in FilesUnder(files, prefix) : Len(g) > Len(prefix) + 1}}

FilesAtLevel(files, prefix) == {f \in FilesUnder(files, prefix) : Len(f) = Len(prefix) + 1}

Breadcrumbs(path) == {SubSeq(path, 1, i) : i \in 0 .. Len(path)}

FolderSelection(sel, files, prefix) ==
    LET under == FilesUnder(files, prefix) IN
    IF under \cap sel = {} THEN "none" ELSE IF under \subseteq sel THEN "all" ELSE "partial"

FilterFiles(files, name) == {f \in files : \E i \in DOMAIN f : f[i] = name}

----------------------------------------------------------------------------
(* What the dialog shows *)

Closed == [open |-> FALSE, tab |-> "repo", chosen |-> None, browse |-> <<>>,
           query |-> None, result |-> FALSE]

Resolved == IF dialog.chosen = None THEN DefaultProject ELSE dialog.chosen

\* The query hook returns the last list it received, whatever it asks for now.
AllFiles == IF lists.shown = None THEN {} ELSE RepoFiles[lists.shown]

Fetching == Resolved \in lists.fetching
Settled  == ~Fetching /\ Resolved \notin lists.failed

RepoForm   == dialog.open /\ ~dialog.result /\ dialog.tab = "repo" /\ GithubLinked
UploadForm == dialog.open /\ ~dialog.result /\ dialog.tab = "upload"

\* Rows of the browser: search results or one level of the tree.
RowsOffered == IF dialog.query # None THEN FilterFiles(AllFiles, dialog.query)
               ELSE FilesAtLevel(AllFiles, dialog.browse)

FoldersOffered == IF dialog.query # None THEN {} ELSE Folders(AllFiles, dialog.browse)

\* Only the last request of each mutation is tracked by its hook.
Loading == \E s \in pending : s.n = latest[s.kind] /\ Last(s.answers) = "wait"

Sent == IF latest.repo > latest.upload THEN latest.repo ELSE latest.upload

----------------------------------------------------------------------------
TriggerInit ==
    /\ dialog = Closed
    /\ selected = {}
    /\ lists = [cached |-> {}, fetching |-> {DefaultProject}, failed |-> {}, shown |-> None]
    /\ uploads = <<>>
    /\ upTarget = None
    /\ pending = {}
    /\ latest = [repo |-> 0, upload |-> 0]

\* Mutated form of Subscribe: a list that was cached does not reset the selection.
SubscribeKeepingSelection(p, sel) ==
    IF p \in lists.cached
    THEN /\ lists' = [lists EXCEPT !.shown = p]
         /\ selected' = sel
    ELSE /\ lists' = [lists EXCEPT !.fetching = @ \cup {p}, !.failed = @ \ {p}]
         /\ selected' = sel

\* The query is asked for the list of p; sel is the selection unless the list
\* shown changes, which selects everything.
Subscribe(p, sel) ==
    IF p \in lists.cached
    THEN /\ lists' = [lists EXCEPT !.shown = p]
         /\ selected' = IF lists.shown = p THEN sel ELSE RepoFiles[p]
    ELSE /\ lists' = [lists EXCEPT !.fetching = @ \cup {p}, !.failed = @ \ {p}]
         /\ selected' = sel

\* An answer counts for the list shown when its repository is still asked for.
ListArrives(p) ==
    /\ p \in lists.fetching
    /\ lists' = [lists EXCEPT !.cached = @ \cup {p}, !.fetching = @ \ {p},
                              !.shown = IF p = Resolved THEN p ELSE @]
    /\ selected' = IF p = Resolved /\ lists.shown # p THEN RepoFiles[p] ELSE selected
    /\ UNCHANGED <<dialog, uploads, upTarget, pending, latest>>

ListFails(p) ==
    /\ p \in lists.fetching
    /\ lists' = [lists EXCEPT !.failed = @ \cup {p}, !.fetching = @ \ {p}]
    /\ UNCHANGED <<dialog, selected, uploads, upTarget, pending, latest>>

----------------------------------------------------------------------------
(* Opening, closing, tabs *)

Open(tab) ==
    /\ ~dialog.open
    /\ dialog' = [dialog EXCEPT !.open = TRUE, !.tab = tab]
    /\ UNCHANGED <<selected, lists, uploads, upTarget, pending, latest>>

SwitchTab(tab) ==
    /\ dialog.open /\ ~dialog.result /\ tab # dialog.tab
    /\ dialog' = [dialog EXCEPT !.tab = tab]
    /\ IF tab = "repo" THEN Subscribe(Resolved, selected) ELSE UNCHANGED <<selected, lists>>
    /\ UNCHANGED <<uploads, upTarget, pending, latest>>

\* closeAndReset(false), and the page that goes back to the tab "repo".
CloseAndReset ==
    /\ dialog' = Closed
    /\ Subscribe(DefaultProject, {})
    /\ uploads' = <<>>
    /\ upTarget' = None

Close == dialog.open /\ CloseAndReset /\ UNCHANGED <<pending, latest>>

----------------------------------------------------------------------------
(* The tab "repo" *)

ChooseProject(p) ==
    /\ RepoForm /\ p # Resolved
    /\ dialog' = [dialog EXCEPT !.chosen = p, !.browse = <<>>, !.query = None]
    /\ Subscribe(p, selected)
    /\ UNCHANGED <<uploads, upTarget, pending, latest>>

Browse(folder) ==
    /\ RepoForm /\ dialog.query = None
    /\ folder \in Breadcrumbs(dialog.browse) \cup (IF Settled THEN FoldersOffered ELSE {})
    /\ dialog' = [dialog EXCEPT !.browse = folder]
    /\ UNCHANGED <<selected, lists, uploads, upTarget, pending, latest>>

Search(name) ==
    /\ RepoForm /\ Settled /\ AllFiles # {}
    /\ dialog' = [dialog EXCEPT !.query = name]
    /\ UNCHANGED <<selected, lists, uploads, upTarget, pending, latest>>

Select(sel) ==
    /\ RepoForm /\ Settled
    /\ selected' = sel
    /\ UNCHANGED <<dialog, lists, uploads, upTarget, pending, latest>>

ToggleFile == \E f \in RowsOffered : Select((selected \ {f}) \cup ({f} \ selected))

ToggleFolder ==
    \E folder \in FoldersOffered :
        LET under == FilesUnder(AllFiles, folder) IN
        Select(IF FolderSelection(selected, AllFiles, folder) = "all"
               THEN selected \ under ELSE selected \cup under)

SelectAll == selected # AllFiles /\ Select(AllFiles)

ClearSelection == selected # {} /\ Select({})

Submit(kind, project, files, answers) ==
    /\ Sent < MaxSubmits
    /\ latest' = [latest EXCEPT ![kind] = Sent + 1]
    /\ pending' = pending \cup {[n |-> Sent + 1, kind |-> kind, project |-> project, files |-> files,
                                 shown |-> lists.shown, settled |-> Settled, answers |-> answers]}
    /\ UNCHANGED <<dialog, selected, lists, uploads, upTarget>>

\* handleSubmitRepo: the button asks for a repository and a selection only, not
\* for the list to have arrived.
SubmitRepo ==
    /\ RepoForm /\ ~Loading /\ selected # {}
    /\ Submit("repo", Resolved, selected, <<"wait">>)

\* With skipped files the dialog shows them, otherwise it closes; an error
\* leaves it as it is. The answer finds whatever the dialog shows by then.
RepoAnswered(s, answer) ==
    /\ s.kind = "repo"
    /\ pending' = pending \ {s}
    /\ UNCHANGED latest
    /\ CASE answer = "skipped" -> /\ dialog' = [dialog EXCEPT !.result = TRUE]
                                  /\ UNCHANGED <<selected, lists, uploads, upTarget>>
         [] answer = "ok"      -> CloseAndReset
         [] answer = "error"   -> UNCHANGED <<dialog, selected, lists, uploads, upTarget>>

----------------------------------------------------------------------------
(* The tab "upload" *)

ChooseUploadProject(p) ==
    /\ UploadForm /\ p # upTarget
    /\ upTarget' = p
    /\ UNCHANGED <<dialog, selected, lists, uploads, pending, latest>>

\* addFiles: only translatable files, and none whose path is a target already.
AddFiles(files) ==
    LET new == {f \in files \cap Translatable : \A i \in DOMAIN uploads : uploads[i].target # f} IN
    /\ UploadForm /\ new # {}
    /\ Len(uploads) + Cardinality(new) <= MaxUploads
    /\ uploads' = uploads \o [i \in 1 .. Cardinality(new) |->
                                 [file |-> SetToSeq(new)[i], target |-> SetToSeq(new)[i]]]
    /\ UNCHANGED <<dialog, selected, lists, upTarget, pending, latest>>

\* The target path can be edited once a repository is chosen; <<>> is blank.
EditTarget(i, path) ==
    /\ UploadForm /\ upTarget # None
    /\ uploads' = [uploads EXCEPT ![i].target = path]
    /\ UNCHANGED <<dialog, selected, lists, upTarget, pending, latest>>

RemoveUpload(i) ==
    /\ UploadForm
    /\ uploads' = RemoveAt(uploads, i)
    /\ UNCHANGED <<dialog, selected, lists, upTarget, pending, latest>>

\* handleSubmitUpload: one request per row. Without a repository the target is
\* the file's name, its folder is lost.
SubmitUpload ==
    /\ UploadForm /\ ~Loading /\ uploads # <<>>
    /\ upTarget = None \/ \A i \in DOMAIN uploads : uploads[i].target # <<>>
    /\ Submit("upload", upTarget,
              {IF upTarget = None THEN <<Last(uploads[i].file)>> ELSE uploads[i].target :
                  i \in DOMAIN uploads},
              [i \in DOMAIN uploads |-> "wait"])

AllAnswered(answers) == \A i \in DOMAIN answers : answers[i] # "wait"

\* Mutated form of AllCreated: Promise.allSettled.
AllCreatedOrFailed(answers) == AllAnswered(answers)

AllCreated(answers) == \A i \in DOMAIN answers : answers[i] = "ok"

\* Promise.all: the last success closes the dialog, a failure leaves every row
\* for another attempt, the requests still in flight are not stopped.
UploadAnswered(s, i, answer) ==
    LET answers == [s.answers EXCEPT ![i] = answer] IN
    /\ s.kind = "upload" /\ s.answers[i] = "wait"
    /\ pending' = (pending \ {s}) \cup
                     (IF AllAnswered(answers) THEN {} ELSE {[s EXCEPT !.answers = answers]})
    /\ UNCHANGED latest
    /\ IF AllCreated(answers) THEN CloseAndReset
       ELSE UNCHANGED <<dialog, selected, lists, uploads, upTarget>>

----------------------------------------------------------------------------
TriggerNext ==
    \/ \E p \in Projects : ListArrives(p) \/ ListFails(p) \/ ChooseProject(p)
    \/ \E tab \in {"repo", "upload"} : Open(tab) \/ SwitchTab(tab)
    \/ Close
    \/ \E folder \in Breadcrumbs(dialog.browse) \cup FoldersOffered : Browse(folder)
    \/ \E name \in SearchNames \cup {None} : Search(name)
    \/ ToggleFile \/ ToggleFolder \/ SelectAll \/ ClearSelection
    \/ SubmitRepo
    \/ \E s \in pending, answer \in {"ok", "skipped", "error"} : RepoAnswered(s, answer)
    \/ \E p \in Projects \cup {None} : ChooseUploadProject(p)
    \/ \E files \in SUBSET DiskFiles : AddFiles(files)
    \/ \E i \in DOMAIN uploads, path \in Paths \cup {<<>>} : EditTarget(i, path)
    \/ \E i \in DOMAIN uploads : RemoveUpload(i)
    \/ SubmitUpload
    \/ \E s \in pending : \E i \in DOMAIN s.answers, answer \in {"ok", "error"} :
           UploadAnswered(s, i, answer)

TriggerSpec == TriggerInit /\ [][TriggerNext]_triggerVars

----------------------------------------------------------------------------
(* Properties *)

TriggerTypeOK ==
    /\ dialog.open \in BOOLEAN /\ dialog.result \in BOOLEAN
    /\ dialog.tab \in {"repo", "upload"} /\ dialog.chosen \in Projects \cup {None}
    /\ selected \subseteq UNION {RepoFiles[p] : p \in Projects}
    /\ lists.shown \in Projects \cup {None}
    /\ lists.cached \subseteq Projects /\ lists.fetching \subseteq Projects
    /\ lists.failed \subseteq Projects
    /\ \A i \in DOMAIN uploads : uploads[i].file \in Translatable
    /\ upTarget \in Projects \cup {None}
    /\ Len(uploads) <= MaxUploads /\ Sent <= MaxSubmits

\* A request for tasks names files of one repository: those of the list the
\* dialog showed; and once that list has arrived, it is the list of the
\* repository the request names, whatever was chosen, searched, toggled,
\* closed and reopened before.
RequestFromOneRepository ==
    \A s \in pending : s.kind = "repo" =>
        /\ s.shown # None
        /\ s.files \subseteq RepoFiles[s.shown]
        /\ s.settled => s.shown = s.project

\* The folder browsed has files in the list shown: no change of repository, late
\* list, or closing leaves the dialog in a folder that is not there.
BrowsedFolderExists == dialog.browse # <<>> => FilesUnder(AllFiles, dialog.browse) # {}

\* getTreeLevel against its meaning: the level shown and the folders on it
\* reach every file under the folder, each by one way.
LevelReachesEveryFile ==
    LET at == FilesAtLevel(AllFiles, dialog.browse)
        folders == Folders(AllFiles, dialog.browse) IN
    /\ FilesUnder(AllFiles, dialog.browse) = at \cup UNION {FilesUnder(AllFiles, d) : d \in folders}
    /\ \A d \in folders : FilesUnder(AllFiles, d) \cap at = {}
    /\ \A d, e \in folders : d # e => FilesUnder(AllFiles, d) \cap FilesUnder(AllFiles, e) = {}

\* The dialog closes itself after an upload only when the server has created a
\* task for every row of it, in whatever order the answers come.
UploadClosesWhenAllCreated ==
    [][\A s \in pending :
          (s.kind = "upload" /\ dialog.open /\ ~dialog'.open /\ s \notin pending') =>
              Cardinality({i \in DOMAIN s.answers : s.answers[i] # "ok"}) = 1]_triggerVars

----------------------------------------------------------------------------
(* What makes the safety properties inductive.                              *)

DialogRecord ==
    [open : BOOLEAN, tab : {"repo", "upload"}, chosen : Projects \cup {None},
     browse : Seq(STRING), query : SearchNames \cup {None}, result : BOOLEAN]

ListsRecord ==
    [cached : SUBSET Projects, fetching : SUBSET Projects, failed : SUBSET Projects,
     shown : Projects \cup {None}]

TriggerTypes ==
    /\ dialog \in DialogRecord
    /\ lists \in ListsRecord
    /\ \A s \in pending :
          s = [n |-> s.n, kind |-> s.kind, project |-> s.project, files |-> s.files,
               shown |-> s.shown, settled |-> s.settled, answers |-> s.answers]

\* What is selected is in the list shown, and that is the list of the repository
\* chosen unless it is still on its way or has not come.
SelectedIsShown == selected \subseteq AllFiles

ShownIsResolved == Settled => lists.shown = Resolved

\* Only a list that was shown is browsed, and it stays.
BrowsedIsShown ==
    dialog.browse # <<>> => lists.shown = Resolved /\ FilesUnder(AllFiles, dialog.browse) # {}

TriggerInv ==
    /\ TriggerTypes /\ SelectedIsShown /\ ShownIsResolved /\ BrowsedIsShown
    /\ RequestFromOneRepository

\* The list of uploads and the counters of requests, which none of this looks at.
UploadsInv ==
    /\ uploads \in Seq([file : Translatable, target : Translatable \cup Paths \cup {<<>>}])
    /\ Len(uploads) <= MaxUploads
    /\ upTarget \in Projects \cup {None}
    /\ latest \in [repo : 0 .. MaxSubmits, upload : 0 .. MaxSubmits]
=============================================================================
