---------------------------- MODULE IntakeProofs ----------------------------
(* Theorems about Intake, for every value of its constants.                 *)
EXTENDS Intake, FiniteSetTheorems, SequenceTheorems, TLAPS

\* SetToSeq lists a finite set, every element once.
LEMMA SetToSeqLists ==
    ASSUME NEW S, IsFiniteSet(S)
    PROVE  /\ SetToSeq(S) \in Seq(S)
           /\ \A k, l \in DOMAIN SetToSeq(S) : SetToSeq(S)[k] = SetToSeq(S)[l] => k = l
<1>1. Cardinality(S) \in Nat /\ ExistsBijection(1..Cardinality(S), S)
  BY FS_CardinalityType
<1>2. \E f \in [1..Cardinality(S) -> S] : IsInjective(f)
  BY <1>1 DEF ExistsBijection, Bijection, Injection
<1>3. SetToSeq(S) \in [1..Cardinality(S) -> S] /\ IsInjective(SetToSeq(S))
  BY <1>2 DEF SetToSeq
<1> QED
  BY <1>1, <1>3 DEF IsInjective

\* The rows a request inserts: one for each of its files.
LEMMA NewTasksAreRows ==
    ASSUME TypeOK, NEW r \in Requests
    PROVE  /\ NewTasks(r) \in Seq(TaskRow)
           /\ \A k \in 1..Len(NewTasks(r)) :
                 /\ NewTasks(r)[k].file \in req[r].files
                 /\ NewTasks(r)[k].looked = req[r].looked
           /\ \A k, l \in 1..Len(NewTasks(r)) :
                 NewTasks(r)[k].file = NewTasks(r)[l].file => k = l
<1> DEFINE order == SetToSeq(req[r].files)
<1>1. req[r] \in RequestRecord
  BY DEF TypeOK
<1>2. IsFiniteSet(req[r].files)
  BY <1>1, IntakeAssumption, FS_Subset DEF IntakeAssumption, RequestRecord
<1>3. order \in Seq(req[r].files) /\ \A k, l \in DOMAIN order : order[k] = order[l] => k = l
  BY <1>2, SetToSeqLists
<1>4. DOMAIN order = 1..Len(order) /\ Len(order) \in Nat
  BY <1>3
<1>5. NewTasks(r) = [k \in 1..Len(order) |->
          [file |-> order[k], status |-> "queued", group |-> req[r].group,
           looked |-> req[r].looked, revived |-> FALSE]]
  BY <1>4 DEF NewTasks
<1> HIDE DEF order
<1>6. \A k \in 1..Len(order) : order[k] \in req[r].files
  BY <1>3
<1>7. \A k \in 1..Len(order) : NewTasks(r)[k] \in TaskRow
  BY <1>1, <1>5, <1>6 DEF TaskRow, TaskStatus, RequestRecord
<1>8. NewTasks(r) \in Seq(TaskRow) /\ Len(NewTasks(r)) = Len(order)
  BY <1>4, <1>5, <1>7
<1> QED
  BY <1>3, <1>4, <1>5, <1>6, <1>8

\* What every step does to the rows that are there: file and looked stay, and
\* nothing becomes active without being marked as revived.
Keeps(rows) ==
    /\ rows \in Seq(TaskRow)
    /\ Len(tasks) <= Len(rows)
    /\ \A i \in 1..Len(tasks) :
          /\ rows[i].file = tasks[i].file
          /\ rows[i].looked = tasks[i].looked
          /\ rows[i].status \in ActiveTaskStatuses /\ ~rows[i].revived => Unrevived(i)

LEMMA WriteKeeps ==
    ASSUME TypeOK, NEW i \in 1..Len(tasks), NEW s \in TaskStatus
    PROVE  Keeps(Write(i, s)) /\ Len(Write(i, s)) = Len(tasks)
<1>1. tasks \in Seq(TaskRow) /\ tasks[i] \in TaskRow
  BY DEF TypeOK
<1>2. CASE tasks[i].status = "deleted"
  BY <1>1, <1>2 DEF Write, Keeps, Unrevived
<1>3. CASE tasks[i].status # "deleted"
  <2> DEFINE row == [tasks[i] EXCEPT !.status = s, !.revived = @ \/ Revives(i, s)]
  <2>1. Write(i, s) = [tasks EXCEPT ![i] = row]
    BY <1>1, <1>3 DEF Write
  <2>2. Revives(i, s) \in BOOLEAN
    BY DEF Revives
  <2>3. row \in TaskRow /\ row.file = tasks[i].file /\ row.looked = tasks[i].looked
    BY <1>1, <2>2 DEF TaskRow
  <2>4. row.status = s /\ row.revived = (tasks[i].revived \/ Revives(i, s))
    BY <1>1 DEF TaskRow
  <2> HIDE DEF row
  <2>5. row.status \in ActiveTaskStatuses /\ ~row.revived => Unrevived(i)
    BY <2>4 DEF Revives, Unrevived
  <2> QED
    BY <1>1, <2>1, <2>3, <2>5 DEF Keeps, Unrevived
<1> QED
  BY <1>2, <1>3

LEMMA StoreKeeps ==
    ASSUME TypeOK, NEW r \in Requests
    PROVE  /\ Keeps(tasks \o NewTasks(r))
           /\ Len(tasks \o NewTasks(r)) = Len(tasks) + Len(NewTasks(r))
           /\ \A k \in 1..Len(NewTasks(r)) :
                 (tasks \o NewTasks(r))[Len(tasks) + k] = NewTasks(r)[k]
<1>1. tasks \in Seq(TaskRow) /\ NewTasks(r) \in Seq(TaskRow)
  BY NewTasksAreRows DEF TypeOK
<1>2. /\ tasks \o NewTasks(r) \in Seq(TaskRow)
      /\ Len(tasks \o NewTasks(r)) = Len(tasks) + Len(NewTasks(r))
      /\ \A i \in 1..Len(tasks) + Len(NewTasks(r)) :
            (tasks \o NewTasks(r))[i] =
                IF i <= Len(tasks) THEN tasks[i] ELSE NewTasks(r)[i - Len(tasks)]
  BY <1>1, ConcatProperties
<1>3. Len(tasks) \in Nat /\ Len(NewTasks(r)) \in Nat
  BY <1>1
<1> QED
  BY <1>2, <1>3 DEF Keeps, Unrevived

\* The start-up of the server gives running rows back to the queue.
LEMMA RestartKeeps ==
    ASSUME TypeOK, Restart
    PROVE  Keeps(tasks') /\ Len(tasks') = Len(tasks)
<1>1. tasks \in Seq(TaskRow) /\ DOMAIN tasks = 1..Len(tasks) /\ Len(tasks) \in Nat
  BY DEF TypeOK
<1>2. tasks' = [i \in 1..Len(tasks) |->
                  IF tasks[i].status = "running" THEN [tasks[i] EXCEPT !.status = "queued"]
                  ELSE tasks[i]]
  BY <1>1 DEF Restart
<1>3. ASSUME NEW i \in 1..Len(tasks)
      PROVE  /\ tasks'[i] \in TaskRow
             /\ tasks'[i].file = tasks[i].file
             /\ tasks'[i].looked = tasks[i].looked
             /\ tasks'[i].revived = tasks[i].revived
             /\ tasks'[i].status \in ActiveTaskStatuses => tasks[i].status \in ActiveTaskStatuses
  <2>1. tasks[i] \in TaskRow
    BY <1>1
  <2> QED
    BY <1>2, <2>1 DEF TaskRow, TaskStatus, ActiveTaskStatuses
<1>4. tasks' \in Seq(TaskRow) /\ Len(tasks') = Len(tasks)
  BY <1>1, <1>2, <1>3
<1> QED
  BY <1>1, <1>3, <1>4 DEF Keeps, Unrevived

-----------------------------------------------------------------------------
\* The steps of requests, by what they do to the record of the request.
LEMMA LookType ==
    ASSUME TypeOK, NEW r \in Requests, NEW files \in SUBSET Files, NEW g \in 0..Len(groups),
           NEW pc \in {"storeGroup", "fetch", "store"}, Look(r, pc, files, g)
    PROVE  /\ req' \in [Requests -> RequestRecord]
           /\ \A q \in Requests :
                 /\ req'[q].group \in 0..Len(groups)
                 /\ req'[q].looked <= Len(tasks)
                 /\ req'[q].pc \in {"confirm", "look", "cancel"} => req'[q].group # 0
<1>1. Len(tasks) \in Nat /\ g \in Nat
  BY DEF TypeOK
<1> DEFINE record == [pc |-> pc, files |-> {f \in files : ~Active(f)},
                      group |-> g, looked |-> Len(tasks)]
<1>2. record \in RequestRecord
  BY <1>1 DEF RequestRecord
<1>3. req' = [req EXCEPT ![r] = record]
  BY DEF Look
<1>4. record.group = g /\ record.looked = Len(tasks) /\ record.pc = pc
  OBVIOUS
<1> HIDE DEF record
<1> QED
  BY <1>1, <1>2, <1>3, <1>4 DEF TypeOK

LEMMA FinishType ==
    ASSUME TypeOK, NEW r \in Requests, Finish(r)
    PROVE  /\ req' \in [Requests -> RequestRecord]
           /\ \A q \in Requests :
                 /\ req'[q].group \in 0..Len(groups)
                 /\ req'[q].looked <= Len(tasks)
                 /\ req'[q].pc \in {"confirm", "look", "cancel"} => req'[q].group # 0
<1>1. Idle \in RequestRecord /\ Idle.group = 0 /\ Idle.looked = 0 /\ Idle.pc = "idle"
  BY DEF Idle, RequestRecord
<1>2. Len(tasks) \in Nat /\ Len(groups) \in Nat
  BY DEF TypeOK
<1> QED
  BY <1>1, <1>2 DEF TypeOK, Finish

\* A group gets another status; the others and the files stay.
LEMMA SetGroupType ==
    ASSUME TypeOK, NEW g \in 0..Len(groups), NEW s \in GroupStatus, SetGroup(g, s)
    PROVE  /\ groups' \in Seq(GroupRow)
           /\ Len(groups') = Len(groups)
           /\ \A h \in 1..Len(groups) :
                 groups'[h].status = IF h = g THEN s ELSE groups[h].status
<1>1. groups \in Seq(GroupRow) /\ Len(groups) \in Nat
  BY DEF TypeOK
<1>2. CASE g = 0
  BY <1>1, <1>2 DEF SetGroup
<1>3. CASE g # 0
  <2>1. g \in 1..Len(groups)
    BY <1>1, <1>3
  <2>2. groups' = [groups EXCEPT ![g] = [groups[g] EXCEPT !.status = s]]
    BY <1>3 DEF SetGroup
  <2>3. groups[g] \in GroupRow
    BY <1>1, <2>1
  <2>4. /\ [groups[g] EXCEPT !.status = s] \in GroupRow
        /\ [groups[g] EXCEPT !.status = s].status = s
    BY <2>3 DEF GroupRow
  <2> QED
    BY <1>1, <2>1, <2>2, <2>4
<1> QED
  BY <1>2, <1>3

\* What TypeOK says of the requests.
RequestsOK ==
    /\ req \in [Requests -> RequestRecord]
    /\ \A r \in Requests :
          /\ req[r].group \in 0..Len(groups)
          /\ req[r].looked <= Len(tasks)
          /\ req[r].pc \in {"confirm", "look", "cancel"} => req[r].group # 0

\* Requests refer to groups and tasks that stay where they are.
LEMMA RequestsStay ==
    ASSUME TypeOK, UNCHANGED req, Len(tasks) <= Len(tasks'), Len(groups) <= Len(groups'),
           Len(tasks') \in Nat, Len(groups') \in Nat
    PROVE  RequestsOK'
<1>1. ASSUME NEW r \in Requests
      PROVE  /\ req[r].group \in 0..Len(groups')
             /\ req[r].looked <= Len(tasks')
  <2>1. req[r] \in RequestRecord /\ Len(tasks) \in Nat /\ Len(groups) \in Nat
    BY DEF TypeOK
  <2>2. req[r].looked \in Nat /\ req[r].group \in 0..Len(groups) /\ req[r].looked <= Len(tasks)
    BY <2>1 DEF TypeOK, RequestRecord
  <2> QED
    BY <2>1, <2>2
<1> QED
  BY <1>1 DEF TypeOK, RequestsOK

\* A request goes on to another place of its handler.
LEMMA GotoType ==
    ASSUME TypeOK, NEW r \in Requests,
           NEW pc \in {"idle", "storeGroup", "fetch", "store", "confirm", "look", "cancel"},
           req' = [req EXCEPT ![r].pc = pc],
           pc \in {"confirm", "look", "cancel"} => req[r].group # 0
    PROVE  /\ req' \in [Requests -> RequestRecord]
           /\ \A q \in Requests :
                 /\ req'[q].group \in 0..Len(groups)
                 /\ req'[q].looked <= Len(tasks)
                 /\ req'[q].pc \in {"confirm", "look", "cancel"} => req'[q].group # 0
<1> DEFINE record == [req[r] EXCEPT !.pc = pc]
<1>1. req[r] \in RequestRecord
  BY DEF TypeOK
<1>2. /\ record \in RequestRecord
      /\ record.pc = pc /\ record.group = req[r].group /\ record.looked = req[r].looked
  BY <1>1 DEF RequestRecord
<1>3. req' = [req EXCEPT ![r] = record]
  OBVIOUS
<1> HIDE DEF record
<1> QED
  BY <1>2, <1>3 DEF TypeOK

\* An idle request takes up a group that waits for a confirmation.
LEMMA TakeGroupType ==
    ASSUME TypeOK, NEW r \in Requests, NEW g \in DOMAIN groups, NEW pc \in {"confirm", "cancel"},
           Take(r, pc, g)
    PROVE  /\ req' \in [Requests -> RequestRecord]
           /\ \A q \in Requests :
                 /\ req'[q].group \in 0..Len(groups)
                 /\ req'[q].looked <= Len(tasks)
                 /\ req'[q].pc \in {"confirm", "look", "cancel"} => req'[q].group # 0
<1> DEFINE record == [pc |-> pc, files |-> {}, group |-> g, looked |-> 0]
<1>1. g \in 0..Len(groups) /\ g # 0 /\ g \in Nat /\ Len(tasks) \in Nat
  BY DEF TypeOK
<1>2. record \in RequestRecord
  BY <1>1 DEF RequestRecord
<1>3. record.group = g /\ record.looked = 0
  OBVIOUS
<1>4. req' = [req EXCEPT ![r] = record]
  BY DEF Take
<1> HIDE DEF record
<1> QED
  BY <1>1, <1>2, <1>3, <1>4 DEF TypeOK

-----------------------------------------------------------------------------
\* Every action keeps TypeOK: requests and the execution refer to rows that are
\* there, since no action removes one.
LEMMA TypeStep ==
    ASSUME TypeOK, Next
    PROVE  TypeOK'
<1>0. /\ tasks \in Seq(TaskRow) /\ Len(tasks) \in Nat /\ DOMAIN tasks = 1..Len(tasks)
      /\ groups \in Seq(GroupRow) /\ Len(groups) \in Nat /\ DOMAIN groups = 1..Len(groups)
  BY DEF TypeOK
<1>1. ASSUME NEW r \in Requests, NEW files \in SUBSET Files, Webhook(r, files)
      PROVE  TypeOK'
  <2> DEFINE pc == IF Cardinality({f \in files : ~Active(f)}) > Limit
                     THEN "storeGroup" ELSE "fetch"
  <2>1. Look(r, pc, files, 0) /\ pc \in {"storeGroup", "fetch", "store"} /\ 0 \in 0..Len(groups)
    BY <1>0, <1>1 DEF Webhook
  <2> HIDE DEF pc
  <2> QED
    BY <1>1, <2>1, LookType DEF Webhook, TypeOK
<1>2. ASSUME NEW r \in Requests, StoreGroup(r)
      PROVE  TypeOK'
  <2> DEFINE row == [files |-> req[r].files, status |-> "pending_confirmation"]
  <2>1. row \in GroupRow
    BY DEF GroupRow, GroupStatus, TypeOK, RequestRecord
  <2>2. groups' = Append(groups, row)
    BY <1>2 DEF StoreGroup
  <2> HIDE DEF row
  <2>3. groups' \in Seq(GroupRow) /\ Len(groups') = Len(groups) + 1
    BY <1>0, <2>1, <2>2
  <2>4. DOMAIN groups \subseteq DOMAIN groups'
    BY <1>0, <2>3
  <2>5. /\ req' \in [Requests -> RequestRecord]
        /\ \A q \in Requests :
              /\ req'[q].group \in 0..Len(groups)
              /\ req'[q].looked <= Len(tasks)
              /\ req'[q].pc \in {"confirm", "look", "cancel"} => req'[q].group # 0
    BY <1>2, FinishType DEF StoreGroup
  <2>6. \A q \in Requests : req'[q].group \in 0..Len(groups')
    BY <1>0, <2>3, <2>5
  <2> QED
    BY <1>2, <2>3, <2>4, <2>5, <2>6 DEF StoreGroup, TypeOK
<1>3. ASSUME NEW r \in Requests, NEW files \in SUBSET Files, NEW pc \in {"fetch", "store"},
             Manual(r, files, pc)
      PROVE  TypeOK'
  <2>1. Look(r, pc, files, 0) /\ 0 \in 0..Len(groups) /\ pc \in {"storeGroup", "fetch", "store"}
    BY <1>0, <1>3 DEF Manual
  <2>2. /\ req' \in [Requests -> RequestRecord]
        /\ \A q \in Requests :
              /\ req'[q].group \in 0..Len(groups)
              /\ req'[q].looked <= Len(tasks)
              /\ req'[q].pc \in {"confirm", "look", "cancel"} => req'[q].group # 0
    BY <2>1, LookType, Zenon
  <2> QED
    BY <1>3, <2>2 DEF Manual, TypeOK
<1>4. ASSUME NEW r \in Requests, NEW g \in 1..MaxGroups, ConfirmRead(r, g) \/ CancelRead(r, g)
      PROVE  TypeOK'
  BY <1>4, TakeGroupType DEF ConfirmRead, CancelRead, TypeOK
<1>5. ASSUME NEW r \in Requests, ConfirmProcessing(r)
      PROVE  TypeOK'
  <2>1. req[r].group # 0 /\ req[r].group \in 0..Len(groups)
    BY <1>5 DEF ConfirmProcessing, TypeOK
  <2>2. SetGroup(req[r].group, "processing")
    BY <1>5, <2>1 DEF ConfirmProcessing, SetGroup
  <2>3. groups' \in Seq(GroupRow) /\ Len(groups') = Len(groups)
    BY <2>1, <2>2, SetGroupType DEF GroupStatus
  <2>4. req' = [req EXCEPT ![r].pc = "look"]
    BY <1>5 DEF ConfirmProcessing
  <2> QED
    BY <1>0, <1>5, <2>1, <2>3, <2>4, GotoType DEF ConfirmProcessing, TypeOK
<1>6. ASSUME NEW r \in Requests, ConfirmLook(r)
      PROVE  TypeOK'
  <2>1. req[r].group # 0 /\ req[r].group \in 0..Len(groups)
    BY <1>6 DEF ConfirmLook, TypeOK
  <2>2. groups[req[r].group].files \in SUBSET Files
    <3>1. groups[req[r].group] \in GroupRow
      BY <1>0, <2>1
    <3> QED
      BY <3>1 DEF GroupRow
  <2> QED
    BY <1>6, <2>1, <2>2, LookType DEF ConfirmLook, TypeOK
<1>7. ASSUME NEW r \in Requests, CancelWrite(r)
      PROVE  TypeOK'
  <2>1. req[r].group # 0 /\ req[r].group \in 0..Len(groups)
    BY <1>7 DEF CancelWrite, TypeOK
  <2>2. SetGroup(req[r].group, "cancelled")
    BY <1>7, <2>1 DEF CancelWrite, SetGroup
  <2>3. groups' \in Seq(GroupRow) /\ Len(groups') = Len(groups)
    BY <2>1, <2>2, SetGroupType DEF GroupStatus
  <2> QED
    BY <1>0, <1>7, <2>3, FinishType DEF CancelWrite, TypeOK
<1>8. ASSUME NEW r \in Requests, FetchSucceeds(r)
      PROVE  TypeOK'
  BY <1>8, GotoType DEF FetchSucceeds, TypeOK
<1>9. ASSUME NEW r \in Requests, FetchFails(r)
      PROVE  TypeOK'
  <2>1. req[r].group \in 0..Len(groups) /\ SetGroup(req[r].group, "pending_confirmation")
    BY <1>9 DEF FetchFails, TypeOK
  <2>2. groups' \in Seq(GroupRow) /\ Len(groups') = Len(groups)
    BY <2>1, SetGroupType DEF GroupStatus
  <2> QED
    BY <1>0, <1>9, <2>2, FinishType DEF FetchFails, TypeOK
<1>10. ASSUME NEW r \in Requests, Store(r)
       PROVE  TypeOK'
  <2>1. req[r].group \in 0..Len(groups) /\ SetGroup(req[r].group, "done")
    BY <1>10 DEF Store, TypeOK
  <2>2. groups' \in Seq(GroupRow) /\ Len(groups') = Len(groups)
    BY <2>1, SetGroupType DEF GroupStatus
  <2>3. tasks' \in Seq(TaskRow) /\ Len(tasks) <= Len(tasks') /\ Len(tasks') \in Nat
    BY <1>10, StoreKeeps DEF Store, Keeps
  <2>4. /\ req' \in [Requests -> RequestRecord]
        /\ \A q \in Requests :
              /\ req'[q].group \in 0..Len(groups)
              /\ req'[q].looked <= Len(tasks)
              /\ req'[q].pc \in {"confirm", "look", "cancel"} => req'[q].group # 0
    BY <1>10, FinishType DEF Store
  <2>5. \A q \in Requests : req'[q].looked <= Len(tasks')
    BY <1>0, <2>3, <2>4 DEF RequestRecord
  <2>6. run' \in [task : 0..Len(tasks'), pc : {"none", "start", "work"}]
    BY <1>0, <1>10, <2>3 DEF Store, TypeOK
  <2> QED
    BY <1>0, <1>10, <2>2, <2>3, <2>4, <2>5, <2>6 DEF Store, TypeOK
<1>11. ASSUME NEW r \in Requests, RequestFails(r)
       PROVE  TypeOK'
  <2>1. Held(r) \subseteq DOMAIN groups
    BY <1>0 DEF Held, TypeOK
  <2> QED
    BY <1>11, <2>1, FinishType DEF RequestFails, TypeOK
<1>12. CASE Restart
  <2>1. \A r \in Requests : Held(r) \subseteq DOMAIN groups
    BY <1>0 DEF Held, TypeOK
  <2>2. tasks' \in Seq(TaskRow) /\ Len(tasks') = Len(tasks)
    BY <1>12, RestartKeeps DEF Keeps
  <2>3. Idle \in RequestRecord /\ Idle.group = 0 /\ Idle.looked = 0 /\ Idle.pc = "idle"
    BY DEF Idle, RequestRecord
  <2>4. run' \in [task : 0..Len(tasks'), pc : {"none", "start", "work"}]
        /\ (run'.pc = "none" <=> run'.task = 0)
    BY <1>0, <1>12, <2>2 DEF Restart, NoRun
  <2>5. lost' \subseteq DOMAIN groups'
    BY <1>12, <2>1 DEF Restart, TypeOK
  <2>6. RequestsOK'
    BY <1>0, <1>12, <2>2, <2>3 DEF Restart, RequestsOK
  <2> QED
    BY <1>0, <1>12, <2>2, <2>4, <2>5, <2>6 DEF Restart, TypeOK, RequestsOK
<1>13. ASSUME NEW i \in 1..Len(tasks), NEW s \in TaskStatus, tasks' = Write(i, s),
              UNCHANGED <<groups, req, lost>>,
              run' \in [task : 0..Len(tasks), pc : {"none", "start", "work"}],
              run'.pc = "none" <=> run'.task = 0
       PROVE  TypeOK'
  <2>1. tasks' \in Seq(TaskRow) /\ Len(tasks') = Len(tasks)
    BY <1>13, WriteKeeps DEF Keeps
  <2>2. RequestsOK'
    BY <1>0, <1>13, <2>1, RequestsStay
  <2> QED
    BY <1>13, <2>1, <2>2 DEF TypeOK, RequestsOK
<1>14. ASSUME NEW i \in DOMAIN tasks, Close(i) \/ Delete(i) \/ Retry(i)
       PROVE  TypeOK'
  BY <1>0, <1>13, <1>14 DEF Close, Delete, Retry, TaskStatus, TypeOK
<1>15. ASSUME NEW i \in DOMAIN tasks, RunLoad(i)
       PROVE  TypeOK'
  <2>1. RequestsOK'
    BY <1>0, <1>15, RequestsStay DEF RunLoad
  <2> QED
    BY <1>0, <1>15, <2>1 DEF RunLoad, TypeOK, RequestsOK
<1>16. CASE RunStart
  <2>1. run.task \in 1..Len(tasks)
    BY <1>0, <1>16 DEF RunStart, TypeOK
  <2> QED
    BY <1>0, <1>13, <1>16, <2>1 DEF RunStart, TaskStatus, TypeOK
<1>17. CASE RunEnd
  <2>1. run.task \in 1..Len(tasks)
    BY <1>0, <1>17 DEF RunEnd, TypeOK
  <2>2. NoRun \in [task : 0..Len(tasks), pc : {"none", "start", "work"}]
        /\ (NoRun.pc = "none" <=> NoRun.task = 0)
    BY <1>0 DEF NoRun
  <2> QED
    BY <1>13, <1>17, <2>1, <2>2 DEF RunEnd, TaskStatus
<1> QED
  BY <1>1, <1>2, <1>3, <1>4, <1>5, <1>6, <1>7, <1>8, <1>9, <1>10, <1>11, <1>12,
     <1>14, <1>15, <1>16, <1>17 DEF Next, Serve

\* The service starts without tasks, groups and requests.
LEMMA TypeInit == Init => TypeOK
<1> SUFFICES ASSUME Init PROVE TypeOK
  OBVIOUS
<1>1. Idle \in RequestRecord /\ Idle.group = 0 /\ Idle.looked = 0 /\ Idle.pc = "idle"
  BY DEF Idle, RequestRecord
<1> QED
  BY <1>1 DEF Init, NoRun, TypeOK

\* Rows, requests and the execution are well typed in every reachable state.
THEOREM TypeCorrect == Spec => []TypeOK
<1>1. TypeOK /\ UNCHANGED vars => TypeOK'
  BY DEF TypeOK, vars
<1> QED
  BY TypeInit, TypeStep, <1>1, PTL DEF Spec

-----------------------------------------------------------------------------
\* No step takes a row away or changes its file, and only Store adds rows.
LEMMA NextKeeps ==
    ASSUME TypeOK, Next
    PROVE  Keeps(tasks') /\ (Len(tasks') = Len(tasks) \/ \E r \in Requests : Store(r))
<1>0. tasks \in Seq(TaskRow) /\ Len(tasks) \in Nat /\ DOMAIN tasks = 1..Len(tasks)
  BY DEF TypeOK
<1>1. CASE tasks' = tasks
  BY <1>0, <1>1 DEF Keeps, Unrevived
<1>2. ASSUME NEW i \in 1..Len(tasks), NEW s \in TaskStatus, tasks' = Write(i, s)
      PROVE  Keeps(tasks') /\ Len(tasks') = Len(tasks)
  BY <1>2, WriteKeeps
<1>3. ASSUME NEW r \in Requests, Store(r)
      PROVE  Keeps(tasks')
  BY <1>3, StoreKeeps DEF Store
<1>4. CASE Restart
  BY <1>4, RestartKeeps
<1>5. ASSUME NEW i \in DOMAIN tasks, Close(i) \/ Delete(i) \/ Retry(i)
      PROVE  Keeps(tasks') /\ Len(tasks') = Len(tasks)
  BY <1>0, <1>2, <1>5 DEF Close, Delete, Retry, TaskStatus
<1>6. CASE RunStart
  <2>1. run.task \in 1..Len(tasks)
    BY <1>0, <1>6 DEF RunStart, TypeOK
  <2> QED
    BY <1>2, <1>6, <2>1 DEF RunStart, TaskStatus
<1>7. CASE RunEnd
  <2>1. run.task \in 1..Len(tasks)
    BY <1>0, <1>7 DEF RunEnd, TypeOK
  <2> QED
    BY <1>2, <1>7, <2>1 DEF RunEnd, TaskStatus
<1> QED
  BY <1>1, <1>3, <1>4, <1>5, <1>6, <1>7
     DEF Next, Serve, Webhook, StoreGroup, Manual, ConfirmRead, CancelRead, ConfirmProcessing,
         ConfirmLook, CancelWrite, FetchSucceeds, FetchFails, RequestFails, RunLoad

\* A request keeps what it has found, drops it, or looks now.
FoundStays(q) ==
    \/ req'[q].files = {}
    \/ req'[q].files = req[q].files /\ req'[q].looked = req[q].looked
    \/ tasks' = tasks /\ \A f \in req'[q].files : ~Active(f)

LEMMA NextFound ==
    ASSUME TypeOK, Next, NEW q \in Requests
    PROVE  FoundStays(q)
<1>0. req \in [Requests -> RequestRecord] /\ Idle.files = {}
  BY DEF TypeOK, Idle
<1>1. CASE req' = req
  BY <1>1 DEF FoundStays
<1>2. ASSUME NEW r \in Requests, Finish(r)
      PROVE  FoundStays(q)
  BY <1>0, <1>2 DEF Finish, FoundStays
<1>3. ASSUME NEW r \in Requests, NEW pc, NEW files, NEW g, Look(r, pc, files, g), tasks' = tasks
      PROVE  FoundStays(q)
  <2> DEFINE record == [pc |-> pc, files |-> {f \in files : ~Active(f)},
                        group |-> g, looked |-> Len(tasks)]
  <2>1. req' = [req EXCEPT ![r] = record] /\ \A f \in record.files : ~Active(f)
    BY <1>3 DEF Look
  <2> HIDE DEF record
  <2> QED
    BY <1>0, <1>3, <2>1 DEF FoundStays
<1>4. ASSUME NEW r \in Requests, NEW pc, req' = [req EXCEPT ![r].pc = pc]
      PROVE  FoundStays(q)
  <2> DEFINE record == [req[r] EXCEPT !.pc = pc]
  <2>1. req[r] \in RequestRecord
    BY <1>0
  <2>2. record.files = req[r].files /\ record.looked = req[r].looked
    BY <2>1 DEF RequestRecord
  <2>3. req' = [req EXCEPT ![r] = record]
    BY <1>4
  <2> HIDE DEF record
  <2> QED
    BY <1>0, <2>2, <2>3 DEF FoundStays
<1>5. ASSUME NEW r \in Requests, NEW pc, NEW g, Take(r, pc, g)
      PROVE  FoundStays(q)
  <2> DEFINE record == [pc |-> pc, files |-> {}, group |-> g, looked |-> 0]
  <2>1. req' = [req EXCEPT ![r] = record] /\ record.files = {}
    BY <1>5 DEF Take
  <2> HIDE DEF record
  <2> QED
    BY <1>0, <2>1 DEF FoundStays
<1>6. CASE Restart
  BY <1>0, <1>6 DEF Restart, FoundStays
<1>7. ASSUME NEW r \in Requests, NEW files \in SUBSET Files, Webhook(r, files)
      PROVE  FoundStays(q)
  BY <1>3, <1>7 DEF Webhook
<1>8. ASSUME NEW r \in Requests, NEW files \in SUBSET Files, NEW pc, Manual(r, files, pc)
      PROVE  FoundStays(q)
  BY <1>3, <1>8 DEF Manual
<1>9. ASSUME NEW r \in Requests, NEW g, ConfirmRead(r, g) \/ CancelRead(r, g)
      PROVE  FoundStays(q)
  BY <1>5, <1>9 DEF ConfirmRead, CancelRead
<1>10. ASSUME NEW r \in Requests, Serve(r) \/ RequestFails(r)
       PROVE  FoundStays(q)
  <2>1. CASE StoreGroup(r) \/ CancelWrite(r) \/ FetchFails(r) \/ Store(r) \/ RequestFails(r)
    BY <1>2, <2>1 DEF StoreGroup, CancelWrite, FetchFails, Store, RequestFails
  <2>2. CASE ConfirmProcessing(r) \/ FetchSucceeds(r)
    BY <1>4, <2>2 DEF ConfirmProcessing, FetchSucceeds
  <2>3. CASE ConfirmLook(r)
    BY <1>3, <2>3 DEF ConfirmLook
  <2> QED
    BY <1>10, <2>1, <2>2, <2>3 DEF Serve
<1>11. ASSUME NEW i, Close(i) \/ Delete(i) \/ Retry(i) \/ RunLoad(i)
       PROVE  FoundStays(q)
  BY <1>1, <1>11 DEF Close, Delete, Retry, RunLoad
<1>12. CASE RunStart \/ RunEnd
  BY <1>1, <1>12 DEF RunStart, RunEnd
<1> QED
  BY <1>6, <1>7, <1>8, <1>9, <1>10, <1>11, <1>12 DEF Next

\* What a request found free can since have been revived only.
LEMMA FreeStep ==
    ASSUME TypeOK, FreeWhenLooked, Next
    PROVE  FreeWhenLooked'
<1> SUFFICES ASSUME NEW q \in Requests, NEW i \in DOMAIN tasks',
                    i <= req'[q].looked, tasks'[i].file \in req'[q].files
             PROVE  ~(Unrevived(i)')
  BY DEF FreeWhenLooked
<1>0. /\ tasks \in Seq(TaskRow) /\ Len(tasks) \in Nat /\ DOMAIN tasks = 1..Len(tasks)
      /\ req[q] \in RequestRecord /\ req[q].looked \in Nat /\ req[q].looked <= Len(tasks)
  BY DEF TypeOK, RequestRecord
<1>1. Keeps(tasks') /\ FoundStays(q)
  BY NextKeeps, NextFound
<1>2. tasks' \in Seq(TaskRow) /\ DOMAIN tasks' = 1..Len(tasks') /\ Len(tasks') \in Nat
  BY <1>1 DEF Keeps
<1>3. CASE req'[q].files = req[q].files /\ req'[q].looked = req[q].looked
  <2>1. i \in 1..Len(tasks)
    BY <1>0, <1>2, <1>3
  <2>2. tasks[i].file = tasks'[i].file
    BY <1>1, <2>1 DEF Keeps
  <2>3. ~Unrevived(i)
    BY <1>0, <1>3, <2>1, <2>2 DEF FreeWhenLooked
  <2> QED
    BY <1>1, <2>1, <2>3 DEF Keeps, Unrevived
<1>4. CASE tasks' = tasks /\ \A f \in req'[q].files : ~Active(f)
  BY <1>0, <1>4 DEF Active, Unrevived
<1> QED
  BY <1>1, <1>3, <1>4 DEF FoundStays

\* Store is the only step that can make a second active task of a file.
LEMMA OverlapStep ==
    ASSUME TypeOK, FreeWhenLooked, DuplicatesOverlap, Next
    PROVE  DuplicatesOverlap'
<1> SUFFICES ASSUME NEW i \in DOMAIN tasks', NEW j \in DOMAIN tasks', i < j,
                    tasks'[i].file = tasks'[j].file, Unrevived(i)', Unrevived(j)'
             PROVE  tasks'[j].looked < i
  BY DEF DuplicatesOverlap
<1>0. tasks \in Seq(TaskRow) /\ Len(tasks) \in Nat /\ DOMAIN tasks = 1..Len(tasks)
  BY DEF TypeOK
<1>1. Keeps(tasks')
  BY NextKeeps
<1>2. /\ DOMAIN tasks' = 1..Len(tasks') /\ Len(tasks') \in Nat /\ Len(tasks) <= Len(tasks')
      /\ i \in 1..Len(tasks') /\ j \in 1..Len(tasks')
  BY <1>1 DEF Keeps
<1>2a. Len(tasks) \in Nat /\ Len(tasks') \in Nat /\ j \in Nat /\ j <= Len(tasks')
  BY <1>0, <1>2
<1>3. ASSUME NEW k \in 1..Len(tasks), Unrevived(k)'
      PROVE  tasks'[k].file = tasks[k].file /\ tasks'[k].looked = tasks[k].looked /\ Unrevived(k)
  BY <1>1, <1>3 DEF Keeps, Unrevived
<1>4. CASE j <= Len(tasks)
  <2>1. i \in 1..Len(tasks) /\ j \in 1..Len(tasks)
    BY <1>0, <1>2, <1>4
  <2> QED
    BY <1>0, <1>3, <2>1 DEF DuplicatesOverlap
<1>5. CASE j > Len(tasks)
  <2>0. Len(tasks') # Len(tasks)
    BY <1>5, <1>2a
  <2>1. PICK r \in Requests : Store(r)
    BY <2>0, NextKeeps, Zenon
  <2> DEFINE new == NewTasks(r)
             k == j - Len(tasks)
  <2>2. /\ tasks' = tasks \o new /\ Len(tasks') = Len(tasks) + Len(new)
        /\ \A l \in 1..Len(new) : tasks'[Len(tasks) + l] = new[l]
    BY <2>1, StoreKeeps DEF Store
  <2>3. /\ \A l \in 1..Len(new) : new[l].file \in req[r].files /\ new[l].looked = req[r].looked
        /\ \A l, m \in 1..Len(new) : new[l].file = new[m].file => l = m
        /\ Len(new) \in Nat
    BY NewTasksAreRows
  <2> HIDE DEF new
  <2>4. k \in 1..Len(new) /\ Len(tasks) + k = j
    BY <1>0, <1>2, <1>5, <2>2, <2>3
  <2>5. tasks'[j] = new[k]
    BY <2>2, <2>4
  <2>6. CASE i > Len(tasks)
    <3>1. i - Len(tasks) \in 1..Len(new) /\ Len(tasks) + (i - Len(tasks)) = i
      BY <1>0, <1>2, <2>2, <2>3, <2>6
    <3>2. tasks'[i] = new[i - Len(tasks)]
      BY <2>2, <3>1
    <3>3. i - Len(tasks) = k
      BY <2>3, <2>4, <2>5, <3>1, <3>2
    <3>4. i \in Nat /\ j \in Nat /\ i = j
      BY <1>2, <2>4, <3>1, <3>3
    <3> QED
      BY <3>4
  <2>7. CASE i <= Len(tasks)
    <3>1. i \in 1..Len(tasks)
      BY <1>0, <1>2, <2>7
    <3>2. Unrevived(i) /\ tasks[i].file \in req[r].files
      BY <1>3, <2>3, <2>4, <2>5, <3>1
    <3>3. ~(i <= req[r].looked)
      BY <1>0, <3>1, <3>2 DEF FreeWhenLooked
    <3>4. req[r].looked \in Nat /\ tasks'[j].looked = req[r].looked
      BY <2>3, <2>4, <2>5 DEF TypeOK, RequestRecord
    <3> QED
      BY <3>1, <3>3, <3>4
  <2> QED
    BY <1>0, <1>2, <2>6, <2>7
<1> QED
  BY <1>0, <1>2, <1>4, <1>5

\* For every set of files and every number of requests: a file has two active
\* tasks only if the requests that made them overlapped, or if one was revived.
THEOREM NoDuplicates == Spec => []DuplicatesOverlap
<1>1. Init => FreeWhenLooked /\ DuplicatesOverlap
  BY DEF Init, FreeWhenLooked, DuplicatesOverlap
<1>2. TypeOK /\ FreeWhenLooked /\ DuplicatesOverlap /\ [Next]_vars
        => FreeWhenLooked' /\ DuplicatesOverlap'
  <2>1. FreeWhenLooked /\ UNCHANGED vars => FreeWhenLooked'
    BY DEF FreeWhenLooked, Unrevived, vars
  <2>2. DuplicatesOverlap /\ UNCHANGED vars => DuplicatesOverlap'
    BY DEF DuplicatesOverlap, Unrevived, vars
  <2> QED
    BY <2>1, <2>2, FreeStep, OverlapStep
<1> QED
  BY <1>1, <1>2, TypeCorrect, PTL DEF Spec

-----------------------------------------------------------------------------
\* Whoever changes the record of a request leaves those of the others alone.
OnlyChanges(r) == \A q \in Requests : q # r => req'[q] = req[q]

\* A group in processing is handed on, settled or counted as lost.
LEMMA ServedStep ==
    ASSUME TypeOK, ProcessingIsServed, Next
    PROVE  ProcessingIsServed'
<1> SUFFICES ASSUME NEW g \in DOMAIN groups', groups'[g].status = "processing"
             PROVE  g \in lost' \/ \E r \in Requests : g \in Held(r)'
  BY DEF ProcessingIsServed
<1>0. /\ groups \in Seq(GroupRow) /\ DOMAIN groups = 1..Len(groups) /\ Len(groups) \in Nat
      /\ req \in [Requests -> RequestRecord]
      /\ \A r \in Requests : req[r].group \in 0..Len(groups)
  BY DEF TypeOK
<1>1. ASSUME NEW r \in Requests, OnlyChanges(r), lost' = lost,
             g \in DOMAIN groups, groups[g].status = "processing",
             g \in Held(r) => g \in Held(r)'
      PROVE  g \in lost' \/ \E q \in Requests : g \in Held(q)'
  <2>1. g \in lost \/ \E q \in Requests : g \in Held(q)
    BY <1>1 DEF ProcessingIsServed
  <2>2. \A q \in Requests : q # r => Held(q)' = Held(q)
    BY <1>1 DEF OnlyChanges, Held
  <2> QED
    BY <1>1, <2>1, <2>2
<1>2. ASSUME NEW r \in Requests, NEW record, req' = [req EXCEPT ![r] = record]
      PROVE  OnlyChanges(r) /\ req'[r] = record
  BY <1>0, <1>2 DEF OnlyChanges
<1>3. ASSUME NEW r \in Requests, Finish(r)
      PROVE  OnlyChanges(r)
  BY <1>2, <1>3 DEF Finish
<1>4. ASSUME NEW r \in Requests, NEW pc, NEW files, NEW h, Look(r, pc, files, h)
      PROVE  OnlyChanges(r) /\ req'[r].pc = pc /\ req'[r].group = h
  <2> DEFINE record == [pc |-> pc, files |-> {f \in files : ~Active(f)},
                        group |-> h, looked |-> Len(tasks)]
  <2>1. req' = [req EXCEPT ![r] = record] /\ record.pc = pc /\ record.group = h
    BY <1>4 DEF Look
  <2> HIDE DEF record
  <2> QED
    BY <1>2, <2>1
<1>5. ASSUME NEW r \in Requests, NEW pc, req' = [req EXCEPT ![r].pc = pc]
      PROVE  OnlyChanges(r) /\ req'[r].pc = pc /\ req'[r].group = req[r].group
  <2> DEFINE record == [req[r] EXCEPT !.pc = pc]
  <2>1. req[r] \in RequestRecord
    BY <1>0
  <2>2. record.pc = pc /\ record.group = req[r].group
    BY <2>1 DEF RequestRecord
  <2>3. req' = [req EXCEPT ![r] = record]
    BY <1>5
  <2> HIDE DEF record
  <2> QED
    BY <1>2, <2>2, <2>3
<1>6. ASSUME NEW r \in Requests, NEW pc, NEW h, Take(r, pc, h)
      PROVE  OnlyChanges(r)
  BY <1>2, <1>6 DEF Take
<1>7. ASSUME NEW r \in Requests, NEW s \in GroupStatus, SetGroup(req[r].group, s)
      PROVE  /\ g \in DOMAIN groups
             /\ groups'[g].status = IF g = req[r].group THEN s ELSE groups[g].status
  BY <1>0, <1>7, SetGroupType
<1>8. ASSUME NEW r \in Requests, NEW files, Webhook(r, files)
      PROVE  g \in lost' \/ \E q \in Requests : g \in Held(q)'
  BY <1>1, <1>4, <1>8 DEF Webhook, Held, Idle
<1>9. ASSUME NEW r \in Requests, NEW files, NEW pc, Manual(r, files, pc)
      PROVE  g \in lost' \/ \E q \in Requests : g \in Held(q)'
  BY <1>1, <1>4, <1>9 DEF Manual, Held, Idle
<1>10. ASSUME NEW r \in Requests, NEW h, ConfirmRead(r, h) \/ CancelRead(r, h)
       PROVE  g \in lost' \/ \E q \in Requests : g \in Held(q)'
  BY <1>1, <1>6, <1>10 DEF ConfirmRead, CancelRead, Held, Idle
<1>11. ASSUME NEW r \in Requests, StoreGroup(r)
       PROVE  g \in lost' \/ \E q \in Requests : g \in Held(q)'
  <2> DEFINE row == [files |-> req[r].files, status |-> "pending_confirmation"]
  <2>1. groups' = Append(groups, row) /\ row.status = "pending_confirmation"
    BY <1>11 DEF StoreGroup
  <2>2. row \in GroupRow
    BY <1>0 DEF GroupRow, GroupStatus, RequestRecord
  <2> HIDE DEF row
  <2>3. g \in 1..(Len(groups) + 1) /\ groups'[g] = IF g = Len(groups) + 1 THEN row ELSE groups[g]
    BY <1>0, <2>1, <2>2
  <2>4. g \in DOMAIN groups /\ groups[g].status = "processing"
    BY <1>0, <2>1, <2>3
  <2> QED
    BY <1>1, <1>3, <1>11, <2>4 DEF StoreGroup, Held
<1>12. ASSUME NEW r \in Requests, ConfirmProcessing(r)
       PROVE  g \in lost' \/ \E q \in Requests : g \in Held(q)'
  <2>1. req[r].group # 0 /\ req' = [req EXCEPT ![r].pc = "look"] /\ lost' = lost
    BY <1>12 DEF ConfirmProcessing, TypeOK
  <2>2. SetGroup(req[r].group, "processing")
    BY <1>12, <2>1 DEF ConfirmProcessing, SetGroup
  <2>3. req'[r].pc = "look" /\ req'[r].group = req[r].group /\ OnlyChanges(r)
    BY <1>5, <2>1
  <2>4. CASE g = req[r].group
    BY <2>1, <2>3, <2>4 DEF Held
  <2>5. CASE g # req[r].group
    <3>1. g \in DOMAIN groups /\ groups[g].status = "processing"
      BY <1>7, <2>2, <2>5 DEF GroupStatus
    <3>2. g \notin Held(r)
      BY <2>5 DEF Held
    <3> QED
      BY <1>1, <2>1, <2>3, <3>1, <3>2
  <2> QED
    BY <2>4, <2>5
<1>13. ASSUME NEW r \in Requests, ConfirmLook(r) \/ FetchSucceeds(r)
       PROVE  g \in lost' \/ \E q \in Requests : g \in Held(q)'
  <2>1. /\ OnlyChanges(r) /\ req'[r].group = req[r].group
        /\ req'[r].pc \in {"fetch", "store"} /\ lost' = lost /\ groups' = groups
    BY <1>4, <1>5, <1>13 DEF ConfirmLook, FetchSucceeds
  <2>2. g \in Held(r) => g \in Held(r)'
    BY <2>1 DEF Held
  <2> QED
    BY <1>1, <2>1, <2>2
<1>14. ASSUME NEW r \in Requests, NEW s \in GroupStatus \ {"processing"}, Finish(r),
              SetGroup(req[r].group, s), lost' = lost
       PROVE  g \in lost' \/ \E q \in Requests : g \in Held(q)'
  <2>1. g # req[r].group /\ g \in DOMAIN groups /\ groups[g].status = "processing"
    BY <1>7, <1>14
  <2>2. g \notin Held(r)
    BY <2>1 DEF Held
  <2> QED
    BY <1>1, <1>3, <1>14, <2>1, <2>2
<1>15. ASSUME NEW r \in Requests, FetchFails(r) \/ Store(r)
       PROVE  g \in lost' \/ \E q \in Requests : g \in Held(q)'
  BY <1>14, <1>15 DEF FetchFails, Store, GroupStatus
<1>16. ASSUME NEW r \in Requests, CancelWrite(r)
       PROVE  g \in lost' \/ \E q \in Requests : g \in Held(q)'
  <2>1. req[r].group # 0
    BY <1>16 DEF CancelWrite, TypeOK
  <2>2. SetGroup(req[r].group, "cancelled")
    BY <1>16, <2>1 DEF CancelWrite, SetGroup
  <2> QED
    BY <1>14, <1>16, <2>2 DEF CancelWrite, GroupStatus
<1>17. ASSUME NEW r \in Requests, RequestFails(r)
       PROVE  g \in lost' \/ \E q \in Requests : g \in Held(q)'
  <2>1. OnlyChanges(r) /\ lost' = lost \cup Held(r) /\ groups' = groups
    BY <1>3, <1>17 DEF RequestFails
  <2>2. g \in lost \/ \E q \in Requests : g \in Held(q)
    BY <2>1 DEF ProcessingIsServed
  <2>3. \A q \in Requests : q # r => Held(q)' = Held(q)
    BY <2>1 DEF OnlyChanges, Held
  <2> QED
    BY <2>1, <2>2, <2>3
<1>18. CASE Restart
  BY <1>18 DEF Restart, ProcessingIsServed
<1>19. CASE UNCHANGED <<groups, req, lost>>
  BY <1>19 DEF ProcessingIsServed, Held
<1> QED
  BY <1>8, <1>9, <1>10, <1>11, <1>12, <1>13, <1>15, <1>16, <1>17, <1>18, <1>19
     DEF Next, Serve, Close, Delete, Retry, RunLoad, RunStart, RunEnd

\* For every number of groups and requests: a group in processing is in the hands
\* of a request unless its confirmation was cut off.
THEOREM GroupsAreServed == Spec => []ProcessingIsServed
<1>1. Init => ProcessingIsServed
  BY DEF Init, ProcessingIsServed
<1>2. TypeOK /\ ProcessingIsServed /\ [Next]_vars => ProcessingIsServed'
  <2>1. ProcessingIsServed /\ UNCHANGED vars => ProcessingIsServed'
    BY DEF ProcessingIsServed, Held, vars
  <2> QED
    BY <2>1, ServedStep
<1> QED
  BY <1>1, <1>2, TypeCorrect, PTL DEF Spec

=============================================================================
