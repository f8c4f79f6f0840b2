----------------------------- MODULE PathPicker -----------------------------
(***************************************************************************)
(* Choosing the path a translation is published to: the tree and the text   *)
(* field of PublishDialog and of FilePathPickerDialog (features/tasks/ui).  *)
(* Both keep two states, the folder browsed and the target path, and every  *)
(* click moves one with the other. Trees are those of TriggerTranslation's  *)
(* getTreeLevel, of which each dialog has a copy of its own.                *)
(***************************************************************************)
EXTENDS Naturals, SequencesExt

CONSTANTS
    TargetFiles,  \* files of the target repository
    OwnPaths,     \* file_path of the tasks the dialog is opened for
    TypedPaths    \* what the user may type; <<>> is blank

\* The names in a path; "" is that of a blank one.
Names == STRING \cup {""}

PickerAssumption ==
    /\ TargetFiles \cup OwnPaths \cup TypedPaths \subseteq Seq(Names)
    /\ \A f \in TargetFiles \cup OwnPaths : f # <<>> /\ Last(f) # ""

VARIABLES
    picker,  \* dialog, own path, folder browsed, target path; whether the path was typed
    chosen   \* the path last applied, its own path, and whether it was typed

pickerVars == <<picker, chosen>>

PickerFolders(prefix) ==
    {SubSeq(f, 1, Len(prefix) + 1) :
        f \in {g \in TargetFiles : IsStrictPrefix(prefix, g) /\ Len(g) > Len(prefix) + 1}}

PickerFilesAt(prefix) ==
    {f \in TargetFiles : IsStrictPrefix(prefix, f) /\ Len(f) = Len(prefix) + 1}

PickerBreadcrumbs(path) == {SubSeq(path, 1, i) : i \in 0 .. Len(path)}

\* What can be clicked: folders and breadcrumbs, and the files of the folder.
FolderClicks == PickerFolders(picker.browse) \cup PickerBreadcrumbs(picker.browse)
FileClicks == PickerFilesAt(picker.browse)

NameOf(path) == IF path = <<>> THEN "" ELSE Last(path)

PickerClosed == [dialog |-> "none", own |-> <<>>, browse |-> <<>>, target |-> <<>>,
                 typed |-> FALSE]

PickerInit == picker = PickerClosed /\ chosen = [path |-> <<>>, own |-> <<>>, typed |-> TRUE]

\* PublishDialog opens at the root of the tree, whatever the task's own folder.
OpenPublishDialog(own) ==
    /\ picker.dialog = "none"
    /\ picker' = [PickerClosed EXCEPT !.dialog = "publish", !.own = own, !.target = own]
    /\ UNCHANGED chosen

\* The picker of a batch opens in the folder of the path it changes.
OpenFilePathPicker(own) ==
    /\ picker.dialog = "none"
    /\ picker' = [PickerClosed EXCEPT !.dialog = "batch", !.own = own, !.target = own,
                                      !.browse = Front(own)]
    /\ UNCHANGED chosen

\* Mutated form of Navigate: the folder alone becomes the target.
NavigateDroppingName(folder) ==
    /\ picker.dialog # "none" /\ folder \in FolderClicks
    /\ picker' = [picker EXCEPT !.browse = folder, !.target = folder]
    /\ UNCHANGED chosen

\* handleNavigate: the file's name moves along.
Navigate(folder) ==
    /\ picker.dialog # "none" /\ folder \in FolderClicks
    /\ picker' = [picker EXCEPT !.browse = folder,
                                !.target = Append(folder, NameOf(picker.target))]
    /\ UNCHANGED chosen

PickFile(file) ==
    /\ picker.dialog # "none" /\ file \in FileClicks
    /\ picker' = [picker EXCEPT !.target = file, !.browse = Front(file)]
    /\ UNCHANGED chosen

TypePath(path) ==
    /\ picker.dialog # "none"
    /\ picker' = [picker EXCEPT !.target = path, !.typed = TRUE]
    /\ UNCHANGED chosen

\* A blank path falls back to the task's own, here and in onConfirm.
EffectivePath == IF picker.target = <<>> THEN picker.own ELSE picker.target

Apply ==
    /\ picker.dialog # "none"
    /\ chosen' = [path |-> EffectivePath, own |-> picker.own, typed |-> picker.typed]
    /\ picker' = PickerClosed

Dismiss == picker.dialog # "none" /\ picker' = PickerClosed /\ UNCHANGED chosen

PickerNext ==
    \/ \E own \in OwnPaths : OpenPublishDialog(own) \/ OpenFilePathPicker(own)
    \/ \E folder \in FolderClicks : Navigate(folder)
    \/ \E file \in TargetFiles : PickFile(file)
    \/ \E path \in TypedPaths : TypePath(path)
    \/ Apply \/ Dismiss

PickerSpec == PickerInit /\ [][PickerNext]_pickerVars

----------------------------------------------------------------------------
(* Properties *)

PickerTypeOK ==
    /\ picker.dialog \in {"none", "publish", "batch"}
    /\ picker.own \in OwnPaths \cup {<<>>}
    /\ picker.dialog # "none" => picker.own # <<>>

\* A path that was clicked together names a file: however the user went up and
\* down the tree and picked files on the way, the path applied ends in the name
\* of the task's file or of a file of the repository, and lies in the task's own
\* folder or in a folder the repository has.
ClickedPathNamesFile ==
    ~chosen.typed =>
        /\ Last(chosen.path) \in {Last(f) : f \in TargetFiles \cup {chosen.own}}
        /\ \E f \in TargetFiles \cup {chosen.own} :
               IsStrictPrefix(Front(chosen.path), f) \/ Front(chosen.path) = <<>>

----------------------------------------------------------------------------
(* What makes ClickedPathNamesFile inductive.                               *)

PickerRecord ==
    [dialog : {"none", "publish", "batch"}, own : OwnPaths \cup {<<>>},
     browse : Seq(Names), target : Seq(Names), typed : BOOLEAN]

PickerTypes ==
    /\ picker \in PickerRecord
    /\ picker.dialog # "none" => picker.own \in OwnPaths

\* A folder of the repository, the task's own folder, or the root.
IsFolder(folder, own) ==
    folder = <<>> \/ \E f \in TargetFiles \cup {own} : IsStrictPrefix(folder, f)

FolderExists == picker.dialog # "none" => IsFolder(picker.browse, picker.own)

TargetNamesFile ==
    picker.dialog # "none" /\ ~picker.typed =>
        /\ picker.target # <<>>
        /\ Last(picker.target) \in {Last(f) : f \in TargetFiles \cup {picker.own}}
        /\ IsFolder(Front(picker.target), picker.own)

PickerInv == PickerTypes /\ FolderExists /\ TargetNamesFile /\ ClickedPathNamesFile
=============================================================================
