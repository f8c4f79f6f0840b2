---------------------------- MODULE Incremental ----------------------------
(***************************************************************************)
(* The versions of one file on their way through docflow-web: pushes to the *)
(* source branch, the tasks that intake makes of them, their incremental    *)
(* translation (backend/app/services/incremental_translate.py and its use   *)
(* in pipeline_runner.py), and the target branch they are published to.     *)
(*                                                                          *)
(* Translation is modelled by what it promises, to give every line of words *)
(* its translation and to keep blank lines and fences.                      *)
(***************************************************************************)
EXTENDS ParagraphDiff

CONSTANTS
    SourceTexts,   \* what authors may push
    HandWritten,   \* what people may write into the translation themselves
    Threshold,     \* Project.incremental_threshold, in percent
    MaxVersions,   \* bound: commits of the source file
    MaxTasks       \* bound: tasks created for it

ASSUME IncrementalAssumption ==
    /\ \A text \in SourceTexts \cup HandWritten : text \in Seq(ToSet(text))
    /\ Threshold \in 1..100
    /\ MaxVersions \in Nat /\ MaxTasks \in Nat

NoFile == <<NoFence>>   \* a file that does not exist

VARIABLES
    source,   \* the file after every commit of the source branch
    target,   \* the file at the head of the target branch
    tasks     \* the tasks of the file, in the order of their creation

vars == <<source, target, tasks>>

Newest == source[Len(source)]

Ru(text) == [i \in DOMAIN text |->
               IF text[i][1] = "en" THEN Words("ru", text[i][2]) ELSE text[i]]
RuAll(paragraphs) == [i \in DOMAIN paragraphs |-> Ru(paragraphs[i])]

\* before: index of before_sha, 0 for NULL; previous: previous_task_id is set.
Task(before, previous, original) ==
    [before |-> before, previous |-> previous, original |-> original,
     status |-> "queued", result |-> NoFile]

Init ==
    /\ source \in {<<text>> : text \in SourceTexts}
    /\ target = NoFile
    /\ tasks = <<>>

-----------------------------------------------------------------------------
(* Intake.                                                                  *)

\* Somebody pushes a new version of the file.
Push(text) ==
    /\ Len(source) < MaxVersions
    /\ text # Newest
    /\ source' = Append(source, text)
    /\ UNCHANGED <<target, tasks>>

Active == \E i \in DOMAIN tasks : tasks[i].status = "queued"

Create(task) ==
    /\ ~Active
    /\ Len(tasks) < MaxTasks
    /\ tasks' = Append(tasks, task)
    /\ UNCHANGED <<source, target>>

\* The webhook of the push that made version n arrives, late, twice or never, or
\* the commit group that was made of it is confirmed. The content is that of the
\* branch by now. A push that meets an active task is skipped.
Deliver(n) ==
    /\ n \in 2..Len(source)
    /\ Create(Task(n - 1, \E i \in DOMAIN tasks : tasks[i].status = "published", Newest))

\* A translation started by hand knows no earlier version.
StartByHand == Create(Task(0, FALSE, Newest))

-----------------------------------------------------------------------------
(* run_task, for a pipeline that keeps its promise.                         *)

SetTask(i, status, result) ==
    /\ tasks' = [tasks EXCEPT ![i].status = status, ![i].result = result]
    /\ UNCHANGED <<source, target>>

\* build_translation_context, when nothing it reads is missing.
Reusable(task, A) ==
    /\ task.previous
    /\ task.before # 0
    /\ target # NoFile
    /\ LET new == Split(task.original)
           old == Split(source[task.before])
       IN /\ Len(old) = Len(Split(target))
          /\ new # <<>>
          /\ Cardinality(FindDirty(new, old, A)) * 100 <= Threshold * Len(new)

\* The dirty paragraphs go through the pipeline as a text of their own, and its
\* output is taken apart again.
Pipeline(new, dirty) ==
    LET order == Sorted(dirty)
    IN Split(Ru(Join([k \in DOMAIN order |-> new[order[k]]])))

\* _assemble_translation; out[k] belongs to the k-th dirty paragraph.
Assemble(new, dirty, out, aligned) ==
    LET order == Sorted(dirty)
        translated == [i \in dirty |-> out[CHOOSE k \in DOMAIN order : order[k] = i]]
    IN Join(Merge(new, dirty, translated, aligned))

TranslateIncrement(i) ==
    /\ tasks[i].status = "queued"
    /\ tasks[i].before # 0
    /\ LET new == Split(tasks[i].original)
           old == Split(source[tasks[i].before])
       IN \E A \in Alignments(new, old) :
            LET dirty == FindDirty(new, old, A)
                aligned == AlignOld(A, Split(target))
                out == Pipeline(new, dirty)
            IN /\ Reusable(tasks[i], A)
               /\ Len(out) = Cardinality(dirty)
               /\ DOMAIN new \subseteq dirty \cup DOMAIN aligned
               /\ SetTask(i, "done", Assemble(new, dirty, out, aligned))

\* The whole text: nothing to reuse, too much has changed, GitHub did not
\* answer, or the increment could not be put together.
TranslateAll(i) ==
    /\ tasks[i].status = "queued"
    /\ SetTask(i, "done", Ru(tasks[i].original))

\* The pipeline fails, or the task is cancelled.
Fail(i) ==
    /\ tasks[i].status = "queued"
    /\ SetTask(i, "failed", NoFile)

\* reset_task_for_retry: original_content, before_sha and previous_task_id stay.
Retry(i) ==
    /\ tasks[i].status \in {"done", "failed"}
    /\ SetTask(i, "queued", NoFile)

\* PATCH /tasks/{id}
EditTask(i, text) ==
    /\ tasks[i].status = "done"
    /\ SetTask(i, "done", text)

-----------------------------------------------------------------------------
(* The target branch.                                                       *)

\* The result is committed to the file, or to another path.
Publish(i) ==
    /\ tasks[i].status = "done"
    /\ tasks' = [tasks EXCEPT ![i].status = "published"]
    /\ target' \in {target, tasks[i].result}
    /\ UNCHANGED source

\* Somebody changes or deletes the file on the target branch.
EditTarget(text) ==
    /\ target' = text
    /\ UNCHANGED <<source, tasks>>

Next ==
    \/ \E text \in SourceTexts : Push(text)
    \/ \E n \in 2..MaxVersions : Deliver(n)
    \/ StartByHand
    \/ \E i \in DOMAIN tasks :
          \/ TranslateIncrement(i) \/ TranslateAll(i) \/ Fail(i) \/ Retry(i)
          \/ Publish(i)
          \/ \E text \in HandWritten : EditTask(i, text)
    \/ \E text \in HandWritten \cup {NoFile} : EditTarget(text)

Spec == Init /\ [][Next]_vars

-----------------------------------------------------------------------------
(* Properties.                                                              *)

\* Task i gets its translation.
Translated(i) == tasks[i].status = "queued" /\ tasks'[i].status = "done"

\* The target branch holds the translation of the version task i starts from.
FollowsBefore(i) ==
    /\ tasks[i].before # 0
    /\ Split(target) = RuAll(Split(source[tasks[i].before]))

\* If the file on the target branch is the translation of the version before the
\* push, the result is, paragraph by paragraph, the translation of the new
\* version: wherever paragraphs were added, removed or moved, reusing old ones
\* puts none in the place of another.
IncrementIsTranslation ==
    [][\A i \in DOMAIN tasks : Translated(i) /\ FollowsBefore(i) =>
         Split(tasks'[i].result) = RuAll(Split(tasks[i].original))]_vars

\* A result has the paragraphs of its source one to one, whatever the target
\* file holds: the next increment finds the two texts parallel. Excepted is a target
\* file that leaves a block of code open and is not the translation of the version
\* before: a paragraph reused from its end takes in the ones after it.
ResultIsParallel ==
    [][\A i \in DOMAIN tasks :
         Translated(i) /\ (FollowsBefore(i) \/ ClosesBlocks(target)) =>
           Len(Split(tasks'[i].result)) = Len(Split(tasks[i].original))]_vars

Paragraphs(text) == ToSet(Split(text))

\* The translated paragraphs of all versions and those written by hand.
Origins == (UNION {ToSet(RuAll(Split(source[n]))) : n \in DOMAIN source})
           \cup UNION {Paragraphs(text) : text \in HandWritten}

\* Nobody has left a block of code open.
TextsClose ==
    /\ \A n \in DOMAIN source : ClosesBlocks(source[n])
    /\ \A text \in HandWritten : ClosesBlocks(text)

\* Every paragraph a task offers is the translation of a paragraph of some
\* version or was written by hand: none is left in English, cut or glued,
\* as long as no block of code is left open.
ParagraphsHaveOrigin ==
    TextsClose => \A i \in DOMAIN tasks : tasks[i].result # NoFile =>
                     Paragraphs(tasks[i].result) \subseteq Origins

\* An increment gives what a translation of the whole text would give, unless
\* somebody has written into the target file.
ResultIsCurrent ==
    [][\A i \in DOMAIN tasks : Translated(i) =>
         Split(tasks'[i].result) = RuAll(Split(tasks[i].original))]_vars
=============================================================================
