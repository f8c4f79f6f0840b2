------------------------------ MODULE Frontend ------------------------------
(* The parts of the frontend that share no state, side by side: a tab has one *)
(* of them on the screen, `part`. The constants are those of the parts.       *)
EXTENDS Teams, Sequences

CONSTANTS
    Projects, DefaultProject, RepoFiles, DiskFiles, Translatable, SearchNames, Paths,
    GithubLinked, MaxUploads, MaxSubmits,
    TaskOrder, CommitOf, HasProject, MaxRequests,
    TargetFiles, OwnPaths, TypedPaths,
    Repos, Edited, Fields, Rejected, Calls, MaxMade,
    Logins,    \* Session's Users
    Slots, MaxVersion

VARIABLES part, dialog, selected, lists, uploads, upTarget, pending, latest,
          rows, status, selection, publish, batch, removing, flags, listRequests,
          picker, chosen,
          stored, route, known, content, creation, calls,
          version, gateway, jar, store, requests, causes

Trigger  == INSTANCE TriggerTranslation
List     == INSTANCE TaskList WITH requests <- listRequests
Picker   == INSTANCE PathPicker
Repo     == INSTANCE RepositoryPages
Accounts == INSTANCE Session WITH Users <- Logins, tab <- store

ASSUME FrontendAssumption ==
    /\ Trigger!TriggerAssumption /\ List!TaskListAssumption /\ Picker!PickerAssumption
    /\ Repo!RepositoryAssumption /\ Accounts!SessionAssumption

PagesInit ==
    /\ part \in {"trigger", "list", "picker", "repositories", "session", "teams"}
    /\ Trigger!TriggerInit /\ List!ListInit /\ Picker!PickerInit
    /\ Repo!RepoInit /\ Accounts!SessionInit /\ TeamsInit
    /\ part # "session" => ~gateway

triggerVars == <<dialog, selected, lists, uploads, upTarget, pending, latest>>
listVars    == <<rows, status, selection, publish, batch, removing, flags, listRequests>>
pickerVars  == <<picker, chosen>>
repoVars    == <<stored, route, known, content, creation, calls>>
sessionVars == <<version, gateway, jar, store, requests, causes>>
pagesVars   == <<part, triggerVars, listVars, pickerVars, repoVars, sessionVars, teamsVars>>

PagesNext ==
    /\ UNCHANGED part
    /\ \/ /\ part = "trigger" /\ Trigger!TriggerNext
          /\ UNCHANGED <<listVars, pickerVars, repoVars, sessionVars, teamsVars>>
       \/ /\ part = "list" /\ List!ListNext
          /\ UNCHANGED <<triggerVars, pickerVars, repoVars, sessionVars, teamsVars>>
       \/ /\ part = "picker" /\ Picker!PickerNext
          /\ UNCHANGED <<triggerVars, listVars, repoVars, sessionVars, teamsVars>>
       \/ /\ part = "repositories" /\ Repo!RepoNext
          /\ UNCHANGED <<triggerVars, listVars, pickerVars, sessionVars, teamsVars>>
       \/ /\ part = "session" /\ Accounts!SessionNext
          /\ UNCHANGED <<triggerVars, listVars, pickerVars, repoVars, teamsVars>>
       \/ /\ part = "teams" /\ TeamsNext
          /\ UNCHANGED <<triggerVars, listVars, pickerVars, repoVars, sessionVars>>

PagesSpec == PagesInit /\ [][PagesNext]_pagesVars

----------------------------------------------------------------------------
(* The properties of each part while it is the one on the screen; the modules *)
(* say more about each of them.                                               *)

\* Types of the part on the screen, and the ties between its dialogs, queries
\* and forms that hold at all times.
PagesTypeOK ==
    CASE part = "trigger" -> Trigger!TriggerTypeOK
      [] part = "list" -> List!ListTypeOK
      [] part = "picker" -> Picker!PickerTypeOK
      [] part = "repositories" -> Repo!RepoTypeOK
      [] part = "session" -> Accounts!SessionTypeOK
      [] part = "teams" -> TeamsTypeOK

\* The dialog of TriggerTranslationDialog sends the files of one repository, and
\* of the one it names once the list of that has arrived.
RequestFromOneRepository == part = "trigger" => Trigger!RequestFromOneRepository

\* The dialog's tree is that of the list it shows: the folder browsed has files in
\* it, and getTreeLevel loses no file and shows none twice.
TreeShowsList ==
    part = "trigger" => Trigger!BrowsedFolderExists /\ Trigger!LevelReachesEveryFile

\* After an upload the dialog closes only when every row has become a task.
UploadClosesWhenAllCreated == Trigger!UploadClosesWhenAllCreated

\* The selection of the task list is of rows on the screen, and the batch mode
\* follows it, whatever rows leave.
SelectionOnScreen == part = "list" => List!SelectionOnScreen

\* What a click in PublishDialog's tree makes of the path names a file.
ClickedPathNamesFile == part = "picker" => Picker!ClickedPathNamesFile

\* The dialogs of a repository's page belong to it: it is deleted only after its
\* own name has been typed, and the webhook secret on the screen is its own.
DialogsFitPage ==
    part = "repositories" => Repo!DeletedByName /\ Repo!SecretFitsPage

\* A field the user has not touched shows what is stored.
UntouchedDraftIsStored == part = "repositories" => Repo!UntouchedDraftIsStored

\* The form of a new repository makes one, however often it is sent.
OneRepositoryPerForm == part = "repositories" => Repo!OneRepositoryPerForm

\* No answer to another account is in the cache of the user logged in.
CacheOfUser == part = "session" => Accounts!CacheOfUser

\* A session lasts until something that ends it.
SessionLasts == part = "session" => Accounts!SessionLasts
=============================================================================
