---------------------------- MODULE TaskLifecycle ----------------------------
(***************************************************************************)
(* What the server promises about tasks.status, without its queue, its      *)
(* pauses, its awaits and its requests: a task is taken up only while it is  *)
(* queued, one task is executed at a time, only its own execution makes it   *)
(* running, done or failed, it comes back to queued only as the code says,   *)
(* and a deleted row stays deleted. PipelineRunner implements it.            *)
(***************************************************************************)
CONSTANTS Tasks, None

VARIABLES
    status,  \* tasks.status
    active,  \* the task whose execution is alive, or None
    stage    \* how far it is

lifeVars == <<status, active, stage>>

LifeInit ==
    /\ status \in [Tasks -> {"absent", "queued"}]
    /\ active = None /\ stage = "idle"

Set(t, s) == status' = [status EXCEPT ![t] = s]
Stored(t) == status[t] \notin {"absent", "deleted"}

-----------------------------------------------------------------------------
(* Users. A cancel and a publication write over whatever the row holds by     *)
(* then; a retry does not.                                                    *)

Create(t)  == status[t] = "absent" /\ Set(t, "queued")
Retry(t)   == status[t] \in {"done", "failed"} /\ Set(t, "queued")
Cancel(t)  == Stored(t) /\ Set(t, "cancelled")
Publish(t) == Stored(t) /\ \E s \in {"published", "conflict"} : Set(t, s)
Delete(t)  == status[t] # "absent" /\ Set(t, "deleted")

ByUser == /\ \E t \in Tasks : Create(t) \/ Retry(t) \/ Cancel(t) \/ Publish(t) \/ Delete(t)
          /\ UNCHANGED <<active, stage>>

-----------------------------------------------------------------------------
(* The execution.                                                             *)

Take(t) ==
    /\ active = None /\ status[t] = "queued"
    /\ active' = t /\ stage' = "taken"
    /\ UNCHANGED status

\* A user may have cancelled or published the task since it was taken up.
Start ==
    /\ stage = "taken" /\ status[active] \in {"queued", "cancelled", "published", "conflict"}
    /\ Set(active, "running") /\ stage' = "working"
    /\ UNCHANGED active

\* The result is written under the execution's own running, or over what a
\* user wrote meanwhile, never over a task that was made queued again.
Succeed ==
    /\ stage = "working" /\ status[active] \in {"running", "cancelled", "published", "conflict"}
    /\ Set(active, "done") /\ stage' = "saved"
    /\ UNCHANGED active

Leave == active' = None /\ stage' = "idle"

GiveUp ==
    /\ stage = "working" /\ status[active] \in {"running", "cancelled", "published", "conflict"}
    /\ Set(active, "failed") /\ Leave

\* Told to stop, by a cancel, a pause or the end of the server ...
Told ==
    /\ stage \in {"taken", "working", "saved"}
    /\ stage' = "stopping"
    /\ UNCHANGED <<status, active>>

\* ... it puts the task back or closes it.
Stop ==
    /\ stage = "stopping" /\ Stored(active)
    /\ \E s \in {"queued", "cancelled"} : Set(active, s)
    /\ Leave

\* It ends without a word: the row is gone or no longer queued, all has been
\* written, the write failed, or the process is gone.
Vanish == active # None /\ Leave /\ UNCHANGED status

\* The next process finds nothing running.
Restart ==
    /\ active = None
    /\ status' = [t \in Tasks |-> IF status[t] = "running" THEN "queued" ELSE status[t]]
    /\ UNCHANGED <<active, stage>>

LifeNext ==
    \/ ByUser
    \/ \E t \in Tasks : Take(t)
    \/ Start \/ Succeed \/ GiveUp \/ Told \/ Stop \/ Vanish \/ Restart

LifeSpec == LifeInit /\ [][LifeNext]_lifeVars
=============================================================================
