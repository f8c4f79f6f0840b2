----------------------------- MODULE TeamsProofs -----------------------------
(* Theorems about Teams, for all tabs, accounts, teams and invites.          *)
EXTENDS Teams, TLAPS

TablesOK ==
    /\ owner \in [Ids -> Users \cup {Unborn, Gone}] /\ members \subseteq Ids \X Users
    /\ \A m \in members : owner[m[1]] \in Users
    /\ op \in [Tabs -> OpRecord]

TeamsInv == TablesOK /\ CheckedOwner /\ OwnerIsMember

LEMMA NoOpOK == NoOp \in OpRecord /\ NoOp.step = "none"
BY DEF NoOp, OpRecord

\* A tab's change is replaced, the others stay.
LEMMA OpWritten ==
    ASSUME op \in [Tabs -> OpRecord], NEW t \in Tabs, NEW o \in OpRecord,
           op' = [op EXCEPT ![t] = o]
    PROVE  /\ op' \in [Tabs -> OpRecord] /\ op'[t] = o
           /\ \A q \in Tabs \ {t} : op'[q] = op[q]
OBVIOUS

\* A change that is not checked leaves CheckedOwner to the others.
LEMMA CheckedKept ==
    ASSUME TablesOK, CheckedOwner, NEW t \in Tabs, NEW o \in OpRecord, o.step # "checked",
           op' = [op EXCEPT ![t] = o], UNCHANGED owner
    PROVE  CheckedOwner'
<1>1. op'[t] = o /\ \A q \in Tabs \ {t} : op'[q] = op[q]
  BY OpWritten DEF TablesOK
<1>2. QED
  BY <1>1 DEF CheckedOwner

\* The tables stay and the change of t is replaced by one that is not checked.
LEMMA OnlyOp ==
    ASSUME TeamsInv, NEW t \in Tabs, NEW o \in OpRecord, o.step # "checked",
           op' = [op EXCEPT ![t] = o], UNCHANGED <<owner, members>>
    PROVE  TeamsInv'
<1>1. CheckedOwner'
  BY CheckedKept DEF TeamsInv
<1>2. TablesOK'
  BY OpWritten DEF TeamsInv, TablesOK
<1>3. OwnerIsMember'
  BY DEF TeamsInv, OwnerIsMember
<1>4. QED
  BY <1>1, <1>2, <1>3 DEF TeamsInv

LEMMA SendKeeps ==
    ASSUME TeamsInv, NEW t \in Tabs,
           NEW kind \in {"create", "join", "leave", "remove", "delete", "invite", "revoke"},
           NEW arg \in Users \cup Invites \cup {NoTeam}, Send(t, kind, arg)
    PROVE  TeamsInv'
<1> DEFINE o == [NoOp EXCEPT !.kind = kind, !.arg = arg, !.step = "sent"]
<1>1. o \in OpRecord /\ o.step # "checked"
  BY DEF OpRecord, NoOp
<1>2. op' = [op EXCEPT ![t] = o] /\ UNCHANGED <<owner, members>>
  BY DEF Send
<1> HIDE DEF o
<1>3. QED
  BY <1>1, <1>2, OnlyOp

LEMMA FinishOp ==
    ASSUME op \in [Tabs -> OpRecord], NEW t \in Tabs, NEW s \in {"ok", "error"}, Finish(t, s)
    PROVE  \E o \in OpRecord : o.step # "checked" /\ op' = [op EXCEPT ![t] = o]
<1> DEFINE o == IF t \in Pages THEN [NoOp EXCEPT !.kind = op[t].kind, !.step = s] ELSE NoOp
<1>1. op[t] \in OpRecord
  OBVIOUS
<1>2. o \in OpRecord /\ o.step # "checked"
  BY <1>1 DEF OpRecord, NoOp
<1>3. op' = [op EXCEPT ![t] = o]
  BY DEF Finish
<1>4. QED
  BY <1>2, <1>3

-----------------------------------------------------------------------------
LEMMA CheckKeeps ==
    ASSUME TeamsInv, NEW t \in Tabs, Check(t)
    PROVE  TeamsInv'
<1> DEFINE u == UserOf[t]
<1>1. u \in Users
  BY DEF Users
<1>2. op[t] \in OpRecord /\ UNCHANGED <<owner, members>>
  BY DEF Check, TeamsInv, TablesOK
<1>3. PICK g \in PickOf(u) : IF Allowed(u, op[t], g) THEN Read(t, g) ELSE Finish(t, "error")
  BY DEF Check
<1>4. CASE ~Allowed(u, op[t], g)
  <2>1. Finish(t, "error") /\ op \in [Tabs -> OpRecord]
    BY <1>3, <1>4 DEF TeamsInv, TablesOK
  <2>2. PICK o \in OpRecord : o.step # "checked" /\ op' = [op EXCEPT ![t] = o]
    BY <2>1, FinishOp
  <2>3. QED
    BY <1>2, <2>2, OnlyOp
<1>5. CASE Allowed(u, op[t], g)
  <2> DEFINE o == [op[t] EXCEPT !.step = "checked", !.team = g]
  <2>1. g \in Ids \cup {NoTeam} /\ (g # NoTeam => <<g, u>> \in members)
    BY DEF PickOf, TeamsOf
  <2>2. o \in OpRecord /\ o.kind = op[t].kind /\ o.arg = op[t].arg /\ o.team = g
    BY <1>2, <2>1 DEF OpRecord
  <2>3. op' = [op EXCEPT ![t] = o]
    BY <1>3, <1>5 DEF Read, TeamsInv, TablesOK
  <2>4. o.kind = "leave" => g \in Ids /\ owner[g] \notin {u, Unborn}
    <3>1. o.kind = "leave" => g # NoTeam /\ owner[g] # u
      BY <1>5, <2>2 DEF Allowed, MayLeave
    <3>2. g # NoTeam => owner[g] \in Users
      BY <2>1 DEF TeamsInv, TablesOK
    <3>3. QED
      BY <2>1, <3>1, <3>2, TeamsAssumption DEF TeamsAssumption
  <2>5. /\ o.kind \in {"remove", "delete"} => g \in Ids /\ owner[g] \in {u, Gone}
        /\ o.kind = "remove" => o.arg # u
    BY <1>5, <2>1, <2>2 DEF Allowed
  <2> HIDE DEF o
  <2>6. op' \in [Tabs -> OpRecord] /\ op'[t] = o /\ \A q \in Tabs \ {t} : op'[q] = op[q]
    BY <2>2, <2>3, OpWritten DEF TeamsInv, TablesOK
  <2>7. CheckedOwner'
    BY <1>2, <2>2, <2>4, <2>5, <2>6 DEF CheckedOwner, TeamsInv
  <2>8. TablesOK' /\ OwnerIsMember'
    BY <1>2, <2>6 DEF TeamsInv, TablesOK, OwnerIsMember
  <2>9. QED
    BY <2>7, <2>8 DEF TeamsInv
<1>6. QED
  BY <1>4, <1>5
LEMMA CommitKeeps ==
    ASSUME TeamsInv, NEW t \in Tabs, Commit(t)
    PROVE  TeamsInv'
<1> DEFINE u == UserOf[t]
           o == op[t]
<1>1. u \in Users /\ u \notin {Unborn, Gone} /\ Unborn # Gone
  BY TeamsAssumption DEF Users, TeamsAssumption, Unborn, Gone
<1>2. o \in OpRecord /\ o.step = "checked" /\ ~Conflict(u, o) /\ Effect(u, o)
  BY DEF Commit, TeamsInv, TablesOK
<1>3. PICK f \in OpRecord : f.step # "checked" /\ op' = [op EXCEPT ![t] = f]
  BY FinishOp DEF Commit, TeamsInv, TablesOK
<1>4. op' \in [Tabs -> OpRecord] /\ op'[t] = f /\ \A q \in Tabs \ {t} : op'[q] = op[q]
  BY <1>3, OpWritten DEF TeamsInv, TablesOK
<1>5. CASE o.kind \in {"invite", "revoke"}
  <2>1. UNCHANGED <<owner, members>>
    BY <1>2, <1>5 DEF Effect
  <2>2. QED
    BY <1>3, <2>1, OnlyOp
<1>6. CASE o.kind = "create"
  <2>1. PICK g \in Ids : owner[g] = Unborn /\ owner' = [owner EXCEPT ![g] = u] /\ Insert(g, u)
    BY <1>2, <1>6 DEF Effect
  <2>2. owner' \in [Ids -> Users \cup {Unborn, Gone}] /\ owner'[g] = u
        /\ \A h \in Ids \ {g} : owner'[h] = owner[h]
    BY <1>1, <2>1 DEF TeamsInv, TablesOK
  <2>3. members' = members \cup {<<g, u>>}
    BY <2>1 DEF Insert
  <2>4. OwnerIsMember'
    BY <2>2, <2>3 DEF OwnerIsMember, TeamsInv
  <2>5. TablesOK'
    BY <1>1, <1>4, <2>2, <2>3 DEF TablesOK, TeamsInv
  <2>6. CheckedOwner'
    <3> SUFFICES ASSUME NEW q \in Tabs \ {t}, op[q].step = "checked"
                 PROVE  LET h == op[q].team IN
                        /\ op[q].kind = "leave"  => h \in Ids /\ owner'[h] \notin {UserOf[q], Unborn}
                        /\ op[q].kind \in {"remove", "delete"} => h \in Ids /\ owner'[h] \in {UserOf[q], Gone}
                        /\ op[q].kind = "remove" => op[q].arg # UserOf[q]
      BY <1>3, <1>4 DEF CheckedOwner
    <3>1. op[q].kind \in {"leave", "remove", "delete"} => op[q].team \in Ids /\ owner[op[q].team] # Unborn
      <4>1. UserOf[q] \in Users
        BY DEF Users
      <4>2. UserOf[q] # Unborn
        BY <4>1, TeamsAssumption DEF TeamsAssumption
      <4>3. QED
        BY <1>1, <4>2 DEF CheckedOwner, TeamsInv
    <3>2. QED
      BY <2>1, <2>2, <3>1 DEF CheckedOwner, TeamsInv
  <2>7. QED
    BY <2>4, <2>5, <2>6 DEF TeamsInv
<1>7. CASE o.kind = "join"
  <2> DEFINE g == invites[o.arg].team
  <2>1. g \in Ids /\ owner[g] \in Users
    BY <1>2, <1>7 DEF Conflict, Alive
  <2>2. members' = members \cup {<<g, u>>} /\ UNCHANGED owner
    BY <1>2, <1>7 DEF Effect, Insert
  <2>3. OwnerIsMember'
    BY <2>2 DEF OwnerIsMember, TeamsInv
  <2>4. TablesOK'
    BY <1>1, <1>4, <2>1, <2>2 DEF TablesOK, TeamsInv
  <2>5. CheckedOwner'
    BY <1>3, <2>2, CheckedKept DEF TeamsInv
  <2>6. QED
    BY <2>3, <2>4, <2>5 DEF TeamsInv
<1>8. CASE o.kind \in {"leave", "remove"}
  <2> DEFINE w == IF o.kind = "leave" THEN u ELSE o.arg
  <2>1. members' = members \ {<<o.team, w>>} /\ UNCHANGED owner
    BY <1>2, <1>8 DEF Effect, Remove
  <2>2. owner[o.team] \in Users => owner[o.team] # w
    <3>1. CASE o.kind = "leave"
      BY <1>2, <3>1 DEF CheckedOwner, TeamsInv
    <3>2. CASE o.kind = "remove"
      <4>1. owner[o.team] \in {u, Gone} /\ o.arg # u
        BY <1>2, <3>2 DEF CheckedOwner, TeamsInv
      <4>2. QED
        BY <3>2, <4>1, TeamsAssumption DEF TeamsAssumption
    <3>3. QED
      BY <1>8, <3>1, <3>2
  <2> HIDE DEF w
  <2>3. OwnerIsMember'
    BY <2>1, <2>2 DEF OwnerIsMember, TeamsInv
  <2>4. TablesOK'
    BY <1>4, <2>1 DEF TablesOK, TeamsInv
  <2>5. CheckedOwner'
    BY <1>3, <2>1, CheckedKept DEF TeamsInv
  <2>6. QED
    BY <2>3, <2>4, <2>5 DEF TeamsInv
<1>9. CASE o.kind = "delete"
  <2>1. owner' = [owner EXCEPT ![o.team] = Gone] /\ members' = {m \in members : m[1] # o.team}
    BY <1>2, <1>9 DEF Effect
  <2>2. owner' \in [Ids -> Users \cup {Unborn, Gone}]
        /\ \A h \in Ids : owner'[h] = IF h = o.team THEN Gone ELSE owner[h]
    BY <2>1 DEF TeamsInv, TablesOK
  <2>3. \A h \in Ids : owner'[h] \in Users => h # o.team /\ owner'[h] = owner[h]
    BY <2>2, TeamsAssumption DEF TeamsAssumption
  <2>4. OwnerIsMember'
    BY <2>1, <2>3 DEF OwnerIsMember, TeamsInv
  <2>5. TablesOK'
    <3>1. \A m \in members' : m \in members /\ m[1] # o.team /\ m[1] \in Ids
      BY <2>1 DEF TeamsInv, TablesOK
    <3>2. QED
      BY <1>4, <2>1, <2>2, <3>1 DEF TablesOK, TeamsInv
  <2>6. CheckedOwner'
    <3> SUFFICES ASSUME NEW q \in Tabs \ {t}, op[q].step = "checked"
                 PROVE  LET h == op[q].team IN
                        /\ op[q].kind = "leave"  => h \in Ids /\ owner'[h] \notin {UserOf[q], Unborn}
                        /\ op[q].kind \in {"remove", "delete"} => h \in Ids /\ owner'[h] \in {UserOf[q], Gone}
                        /\ op[q].kind = "remove" => op[q].arg # UserOf[q]
      BY <1>3, <1>4 DEF CheckedOwner
    <3>1. UserOf[q] \in Users /\ UserOf[q] # Gone
      BY TeamsAssumption DEF Users, TeamsAssumption
    <3>2. QED
      BY <1>1, <2>2, <3>1 DEF CheckedOwner, TeamsInv
  <2>7. QED
    BY <2>4, <2>5, <2>6 DEF TeamsInv
<1>10. QED
  BY <1>2, <1>5, <1>6, <1>7, <1>8, <1>9 DEF Effect

LEMMA TeamsStep == TeamsInv /\ [TeamsNext]_teamsVars => TeamsInv'
<1> SUFFICES ASSUME TeamsInv, [TeamsNext]_teamsVars PROVE TeamsInv'
  OBVIOUS
<1>1. ASSUME UNCHANGED <<owner, members, op>> PROVE TeamsInv'
  BY <1>1 DEF TeamsInv, TablesOK, CheckedOwner, OwnerIsMember
<1>2. ASSUME NEW t \in Tabs, ServeTeam(t) \/ TeamArrives(t) \/ InvitesArrive(t) PROVE TeamsInv'
  BY <1>1, <1>2 DEF ServeTeam, TeamArrives, InvitesArrive
<1>3. ASSUME NEW t \in Tabs, OpenSettings(t) \/ OpenJoin(t) PROVE TeamsInv'
  BY <1>1, <1>3 DEF OpenSettings, OpenJoin, GoTo
<1>4. ASSUME NEW t \in Tabs, Confirm(t) PROVE TeamsInv'
  <2>1. PICK d \in Dialogs : Send(t, d.kind, d.arg)
    BY <1>4 DEF Confirm
  <2>2. d.kind \in {"leave", "delete", "remove", "revoke"} /\ d.arg \in Users \cup Invites \cup {NoTeam}
    BY DEF Dialogs
  <2>3. QED
    BY <2>1, <2>2, SendKeeps
<1>5. ASSUME NEW t \in Tabs, CreateTeam(t) \/ CreateInvite(t) PROVE TeamsInv'
  BY <1>5, SendKeeps DEF CreateTeam, CreateInvite
<1>6. ASSUME NEW t \in Tabs, Join(t) PROVE TeamsInv'
  BY <1>6, SendKeeps DEF Join
<1>7. ASSUME NEW t \in Tabs, Request(t) PROVE TeamsInv'
  BY <1>7, SendKeeps DEF Request
<1>8. ASSUME NEW t \in Tabs, Fail(t) PROVE TeamsInv'
  <2>1. PICK o \in OpRecord : o.step # "checked" /\ op' = [op EXCEPT ![t] = o]
    BY <1>8, FinishOp DEF Fail, TeamsInv, TablesOK
  <2>2. QED
    BY <1>8, <2>1, OnlyOp DEF Fail
<1>9. ASSUME NEW t \in Tabs, Answer(t) PROVE TeamsInv'
  BY <1>9, NoOpOK, OnlyOp DEF Answer
<1>10. CASE UNCHANGED teamsVars
  BY <1>1, <1>10 DEF teamsVars
<1>11. QED
  BY <1>2, <1>3, <1>4, <1>5, <1>6, <1>7, <1>8, <1>9, <1>10, CheckKeeps, CommitKeeps DEF TeamsNext

LEMMA TeamsStarts == TeamsInit => TeamsInv
<1> SUFFICES ASSUME TeamsInit PROVE TeamsInv
  OBVIOUS
<1>1. TablesOK
  BY NoOpOK DEF TeamsInit, TablesOK
<1>2. CheckedOwner
  BY NoOpOK DEF TeamsInit, CheckedOwner
<1>3. OwnerIsMember
  BY TeamsAssumption DEF TeamsInit, OwnerIsMember, TeamsAssumption
<1>4. QED
  BY <1>1, <1>2, <1>3 DEF TeamsInv

\* Whatever two requests of different users do in between each other's read and
\* commit, the owner of a team that exists is one of its members.
THEOREM OwnersStay == TeamsSpec => []OwnerIsMember
<1>1. TeamsInit => TeamsInv
  BY TeamsStarts
<1>2. TeamsInv /\ [TeamsNext]_teamsVars => TeamsInv'
  BY TeamsStep
<1>3. TeamsInv => OwnerIsMember
  BY DEF TeamsInv
<1>4. QED
  BY <1>1, <1>2, <1>3, PTL DEF TeamsSpec

-----------------------------------------------------------------------------
(* One team for an account that is used in one place.                        *)

OneTeam == OneTeamPerClient /\ CheckedFree

\* Nobody joins and no change becomes checked.
LEMMA NobodyJoins ==
    ASSUME TablesOK, OneTeam, NEW t \in Tabs, NEW o \in OpRecord, o.step # "checked",
           op' = [op EXCEPT ![t] = o], members' \subseteq members
    PROVE  OneTeam'
<1>1. op'[t] = o /\ \A q \in Tabs \ {t} : op'[q] = op[q]
  BY OpWritten DEF TablesOK
<1>2. CheckedFree'
  BY <1>1 DEF CheckedFree, OneTeam
<1>3. OneTeamPerClient'
  BY DEF OneTeamPerClient, OneTeam
<1>4. QED
  BY <1>2, <1>3 DEF OneTeam

LEMMA SendKeepsOneTeam ==
    ASSUME TablesOK, OneTeam, NEW t \in Tabs,
           NEW kind \in {"create", "join", "leave", "remove", "delete", "invite", "revoke"},
           NEW arg \in Users \cup Invites \cup {NoTeam}, Send(t, kind, arg)
    PROVE  OneTeam'
<1> DEFINE o == [NoOp EXCEPT !.kind = kind, !.arg = arg, !.step = "sent"]
<1>1. o \in OpRecord /\ o.step # "checked"
  BY DEF OpRecord, NoOp
<1>2. op' = [op EXCEPT ![t] = o] /\ members' \subseteq members
  BY DEF Send
<1> HIDE DEF o
<1>3. QED
  BY <1>1, <1>2, NobodyJoins

LEMMA CheckKeepsOneTeam ==
    ASSUME TablesOK, OneTeam, NEW t \in Tabs, Check(t)
    PROVE  OneTeam'
<1> DEFINE u == UserOf[t]
<1>1. op[t] \in OpRecord /\ UNCHANGED members
  BY DEF Check, TablesOK
<1>2. PICK g \in PickOf(u) : IF Allowed(u, op[t], g) THEN Read(t, g) ELSE Finish(t, "error")
  BY DEF Check
<1>3. CASE ~Allowed(u, op[t], g)
  <2>1. PICK o \in OpRecord : o.step # "checked" /\ op' = [op EXCEPT ![t] = o]
    BY <1>2, <1>3, FinishOp DEF TablesOK
  <2>2. QED
    BY <1>1, <2>1, NobodyJoins
<1>4. CASE Allowed(u, op[t], g)
  <2>1. op[t].kind \in {"create", "join"} => g = NoTeam
    BY <1>4 DEF Allowed, NoMembership
  <2>2. g = NoTeam => \A h \in Ids : <<h, u>> \notin members
    BY TeamsAssumption DEF PickOf, TeamsOf, TeamsAssumption
  <2>3. op'[t].kind = op[t].kind /\ \A q \in Tabs \ {t} : op'[q] = op[q]
    BY <1>1, <1>2, <1>4 DEF Read, TablesOK, OpRecord
  <2>4. CheckedFree'
    BY <1>1, <2>1, <2>2, <2>3 DEF CheckedFree, OneTeam
  <2>5. OneTeamPerClient'
    BY <1>1 DEF OneTeamPerClient, OneTeam
  <2>6. QED
    BY <2>4, <2>5 DEF OneTeam
<1>5. QED
  BY <1>3, <1>4

LEMMA CommitKeepsOneTeam ==
    ASSUME TablesOK, OneTeam, NEW t \in Tabs, Commit(t)
    PROVE  OneTeam'
<1> DEFINE u == UserOf[t]
           o == op[t]
<1>1. o \in OpRecord /\ o.step = "checked" /\ Effect(u, o)
  BY DEF Commit, TablesOK
<1>2. PICK f \in OpRecord : f.step # "checked" /\ op' = [op EXCEPT ![t] = f]
  BY FinishOp DEF Commit, TablesOK
<1>3. CASE o.kind \in {"create", "join"}
  <2>1. PICK g : members' = members \cup {<<g, u>>}
    BY <1>1, <1>3 DEF Effect, Insert
  <2>2. Alone(t) => \A h \in Ids : <<h, u>> \notin members
    BY <1>1, <1>3 DEF CheckedFree, OneTeam
  <2>3. \A q \in Tabs \ {t} : Alone(q) => UserOf[q] # u
    BY DEF Alone
  <2>4. op'[t] = f /\ \A q \in Tabs \ {t} : op'[q] = op[q]
    BY <1>2, OpWritten DEF TablesOK
  <2>5. CheckedFree'
    BY <1>2, <2>1, <2>3, <2>4 DEF CheckedFree, OneTeam
  <2>6. OneTeamPerClient'
    <3> SUFFICES ASSUME NEW q \in Tabs, Alone(q), NEW h \in Ids, NEW i \in Ids,
                        <<h, UserOf[q]>> \in members', <<i, UserOf[q]>> \in members'
                 PROVE  h = i
      BY DEF OneTeamPerClient
    <3>1. CASE q = t
      BY <2>1, <2>2, <3>1
    <3>2. CASE q # t
      BY <2>1, <2>3, <3>2 DEF OneTeamPerClient, OneTeam
    <3>3. QED
      BY <3>1, <3>2
  <2>7. QED
    BY <2>5, <2>6 DEF OneTeam
<1>4. CASE o.kind \notin {"create", "join"}
  <2>1. members' \subseteq members
    BY <1>1, <1>4 DEF Effect, Remove
  <2>2. QED
    BY <1>2, <2>1, NobodyJoins
<1>5. QED
  BY <1>3, <1>4

LEMMA OneTeamStep == TablesOK /\ OneTeam /\ [TeamsNext]_teamsVars => OneTeam'
<1> SUFFICES ASSUME TablesOK, OneTeam, [TeamsNext]_teamsVars PROVE OneTeam'
  OBVIOUS
<1>1. ASSUME UNCHANGED <<members, op>> PROVE OneTeam'
  BY <1>1 DEF OneTeam, OneTeamPerClient, CheckedFree
<1>2. ASSUME NEW t \in Tabs, ServeTeam(t) \/ TeamArrives(t) \/ InvitesArrive(t) PROVE OneTeam'
  BY <1>1, <1>2 DEF ServeTeam, TeamArrives, InvitesArrive
<1>3. ASSUME NEW t \in Tabs, OpenSettings(t) \/ OpenJoin(t) PROVE OneTeam'
  BY <1>1, <1>3 DEF OpenSettings, OpenJoin, GoTo
<1>4. ASSUME NEW t \in Tabs, Confirm(t) PROVE OneTeam'
  <2>1. PICK d \in Dialogs : Send(t, d.kind, d.arg)
    BY <1>4 DEF Confirm
  <2>2. d.kind \in {"leave", "delete", "remove", "revoke"} /\ d.arg \in Users \cup Invites \cup {NoTeam}
    BY DEF Dialogs
  <2>3. QED
    BY <2>1, <2>2, SendKeepsOneTeam
<1>5. ASSUME NEW t \in Tabs, CreateTeam(t) \/ CreateInvite(t) PROVE OneTeam'
  BY <1>5, SendKeepsOneTeam DEF CreateTeam, CreateInvite
<1>6. ASSUME NEW t \in Tabs, Join(t) PROVE OneTeam'
  BY <1>6, SendKeepsOneTeam DEF Join
<1>7. ASSUME NEW t \in Tabs, Request(t) PROVE OneTeam'
  BY <1>7, SendKeepsOneTeam DEF Request
<1>8. ASSUME NEW t \in Tabs, Fail(t) PROVE OneTeam'
  <2>1. PICK o \in OpRecord : o.step # "checked" /\ op' = [op EXCEPT ![t] = o]
    BY <1>8, FinishOp DEF Fail, TablesOK
  <2>2. QED
    BY <1>8, <2>1, NobodyJoins DEF Fail
<1>9. ASSUME NEW t \in Tabs, Answer(t) PROVE OneTeam'
  BY <1>9, NoOpOK, NobodyJoins DEF Answer
<1>10. CASE UNCHANGED teamsVars
  BY <1>1, <1>10 DEF teamsVars
<1>11. QED
  BY <1>2, <1>3, <1>4, <1>5, <1>6, <1>7, <1>8, <1>9, <1>10, CheckKeepsOneTeam, CommitKeepsOneTeam DEF TeamsNext

\* The check of create_team and join_team suffices for an account with one client:
\* what other accounts do in between never gives it a second team.
THEOREM OneTeamEach == TeamsSpec => []OneTeamPerClient
<1>1. TeamsInit => TeamsInv /\ OneTeam
  <2> SUFFICES ASSUME TeamsInit PROVE TeamsInv /\ OneTeam
    OBVIOUS
  <2>1. OneTeam
    BY NoOpOK DEF TeamsInit, OneTeam, OneTeamPerClient, CheckedFree
  <2>2. QED
    BY <2>1, TeamsStarts
<1>2. TeamsInv /\ OneTeam /\ [TeamsNext]_teamsVars => TeamsInv' /\ OneTeam'
  BY TeamsStep, OneTeamStep DEF TeamsInv
<1>3. TeamsInv /\ OneTeam => OneTeamPerClient
  BY DEF OneTeam
<1>4. QED
  BY <1>1, <1>2, <1>3, PTL DEF TeamsSpec

-----------------------------------------------------------------------------
(* What a tab shows once its requests are answered.                          *)

\* Refetch asks anew and keeps the data.
LEMMA Refetched ==
    ASSUME NEW data, NEW e \in Entry(data)
    PROVE  /\ Refetch(e) \in Entry(data)
           /\ Refetch(e).read = "sent" /\ ~Refetch(e).dirty
           /\ Refetch(e).status = e.status /\ Refetch(e).data = e.data
BY DEF Refetch, Entry

LEMMA NoInvitesEntry == NoEntry({}) \in Entry(SUBSET Invites) /\ NoEntry({}).data = {} /\ ~NoEntry({}).dirty
BY DEF NoEntry, Entry

LEMMA EntriesOfCache ==
    ASSUME NEW c \in Cache
    PROVE  /\ c.team \in Entry(Data) /\ c.invites \in Entry(SUBSET Invites)
           /\ c.team.dirty \in BOOLEAN /\ c.invites.dirty \in BOOLEAN
           /\ c.team.read \in {"no", "sent", "served"} /\ c.invites.data \subseteq Invites
BY DEF Cache, Entry

\* What a handler leaves of the cache is flushed and mounted: nothing invalidated
\* is left without a request, and what is not read anew is as it was.
LEMMA ShownCache ==
    ASSUME NEW c \in Cache, NEW t, NEW o,
           NEW f, f = Mounted(Flushed(c, t, o), t)
    PROVE  /\ f \in Cache /\ DirtyWaits(f, o)
           /\ \/ f.team = c.team
              \/ f.team.read = "sent"
           /\ \/ f.invites = c.invites
              \/ f.invites.read = "sent"
              \/ f.invites.data = {}
<1> DEFINE m == Flushed(c, t, o)
<1>1. c.team \in Entry(Data) /\ c.invites \in Entry(SUBSET Invites)
  BY EntriesOfCache
<1>2. /\ m \in Cache
      /\ m.team = c.team \/ m.team = Refetch(c.team)
      /\ m.invites = c.invites \/ m.invites = Refetch(c.invites) \/ m.invites = NoEntry({})
  <2>1. CASE Pending(c, o)
    BY <2>1 DEF Flushed
  <2>2. CASE ~Pending(c, o)
    <3> DEFINE te == IF c.team.dirty THEN Refetch(c.team) ELSE c.team
               ie == IF ~c.invites.dirty THEN c.invites
                     ELSE IF Section(c, t) THEN Refetch(c.invites) ELSE NoEntry({})
    <3>1. te \in Entry(Data) /\ ie \in Entry(SUBSET Invites)
      BY <1>1, Refetched, NoInvitesEntry
    <3>2. m = [c EXCEPT !.team = te, !.invites = ie]
      BY <2>2 DEF Flushed
    <3>3. te = c.team \/ te = Refetch(c.team)
      OBVIOUS
    <3>4. ie = c.invites \/ ie = Refetch(c.invites) \/ ie = NoEntry({})
      OBVIOUS
    <3> HIDE DEF te, ie, m
    <3>5. QED
      BY <3>1, <3>2, <3>3, <3>4 DEF Cache
  <2>3. QED
    BY <2>1, <2>2
<1>3. DirtyWaits(m, o)
  <2>1. CASE Pending(c, o)
    BY <2>1 DEF Flushed, DirtyWaits
  <2>2. CASE ~Pending(c, o)
    <3> DEFINE te == IF c.team.dirty THEN Refetch(c.team) ELSE c.team
               ie == IF ~c.invites.dirty THEN c.invites
                     ELSE IF Section(c, t) THEN Refetch(c.invites) ELSE NoEntry({})
    <3>1. ~te.dirty /\ ~ie.dirty
      BY <1>1, Refetched, NoInvitesEntry
    <3>2. m = [c EXCEPT !.team = te, !.invites = ie]
      BY <2>2 DEF Flushed
    <3> HIDE DEF te, ie, m
    <3>3. m.team = te /\ m.invites = ie
      BY <3>2 DEF Cache
    <3>4. QED
      BY <3>1, <3>3 DEF DirtyWaits
  <2>3. QED
    BY <2>1, <2>2
<1> HIDE DEF m
<1> DEFINE again == Section(m, t) /\ m.invites.status = "none" /\ m.invites.read = "no"
           ie == IF again THEN Refetch(m.invites) ELSE m.invites
<1>4. f = [m EXCEPT !.invites = ie]
  BY DEF Mounted, m
<1>5. m.invites \in Entry(SUBSET Invites)
  BY <1>2, EntriesOfCache
<1>6. ie \in Entry(SUBSET Invites) /\ (ie = m.invites \/ ie = Refetch(m.invites))
  BY <1>5, Refetched
<1> HIDE DEF ie, again
<1>7. f \in Cache /\ f.team = m.team /\ f.invites = ie
  BY <1>2, <1>4, <1>6 DEF Cache
<1>8. f.team = c.team \/ f.team.read = "sent"
  BY <1>1, <1>2, <1>7, Refetched
<1>9. f.invites = c.invites \/ f.invites.read = "sent" \/ f.invites.data = {}
  BY <1>1, <1>2, <1>5, <1>6, <1>7, Refetched, NoInvitesEntry
<1>10. DirtyWaits(f, o)
  <2>1. CASE ie = m.invites
    BY <1>3, <1>7, <2>1 DEF DirtyWaits, Pending
  <2>2. CASE ie = Refetch(m.invites)
    BY <1>5, <1>7, <2>2, Refetched DEF DirtyWaits, Pending
  <2>3. QED
    BY <1>6, <2>1, <2>2
<1>11. QED
  BY <1>7, <1>8, <1>9, <1>10

LEMMA ShownFits ==
    ASSUME NEW c \in Cache, NEW t, NEW o, NEW u,
           NEW f, f = Mounted(Flushed(c, t, o), t)
    PROVE  /\ TeamCurrent(c, u, o) => TeamCurrent(f, u, o)
           /\ InvitesOwn(c, u, o) => InvitesOwn(f, u, o)
<1>1. /\ f.team = c.team \/ f.team.read = "sent"
      /\ f.invites = c.invites \/ f.invites.read = "sent" \/ f.invites.data = {}
  BY ShownCache
<1>2. TeamCurrent(c, u, o) => TeamCurrent(f, u, o)
  BY <1>1 DEF TeamCurrent, ShowsTeam
<1>3. InvitesOwn(c, u, o) => InvitesOwn(f, u, o)
  BY <1>1 DEF InvitesOwn
<1>4. QED
  BY <1>2, <1>3

\* The cache and the change of t are replaced, the tables stay.
LEMMA CacheReplaced ==
    ASSUME TeamsInv, CachesOK, CachesFit, NEW t \in Tabs, NEW f \in Cache, NEW o \in OpRecord,
           tab' = [tab EXCEPT ![t] = f], op' = [op EXCEPT ![t] = o],
           UNCHANGED <<owner, members, invites>>, stale \ {t} \subseteq stale',
           t \in Pages =>
               /\ DirtyWaits(f, o)
               /\ t \notin stale' => TeamCurrent(f, UserOf[t], o)
               /\ Alone(t) => InvitesOwn(f, UserOf[t], o)
    PROVE  CachesOK' /\ CachesFit'
<1>1. op'[t] = o /\ \A q \in Tabs \ {t} : op'[q] = op[q]
  BY OpWritten DEF TeamsInv, TablesOK
<1>2. tab' \in [Tabs -> Cache] /\ tab'[t] = f /\ \A q \in Tabs \ {t} : tab'[q] = tab[q]
  BY DEF CachesOK
<1>3. CachesFit'
  <2> SUFFICES ASSUME NEW q \in Pages
               PROVE  /\ DirtyWaits(tab'[q], op'[q])
                      /\ q \notin stale' => TeamCurrent(tab[q], UserOf[q], op[q])'
                      /\ Alone(q) => InvitesOwn(tab[q], UserOf[q], op[q])'
    BY DEF CachesFit, DirtyWaits, Pending, Alone
  <2>1. q \in Tabs
    BY TeamsAssumption DEF TeamsAssumption
  <2>2. CASE q = t
    BY <1>1, <1>2, <2>2 DEF TeamCurrent, InvitesOwn, ShowsTeam, TeamsOf, Membership
  <2>3. CASE q # t
    BY <1>1, <1>2, <2>1, <2>3 DEF CachesFit, TeamCurrent, InvitesOwn, ShowsTeam, TeamsOf, Membership
  <2>4. QED
    BY <2>2, <2>3
<1>4. QED
  BY <1>2, <1>3 DEF CachesOK

\* Only the change of t is replaced, by one that makes nothing current.
LEMMA ChangeReplaced ==
    ASSUME TeamsInv, CachesOK, CachesFit, NEW t \in Tabs, NEW o \in OpRecord,
           op' = [op EXCEPT ![t] = o], UNCHANGED <<owner, members, invites, tab, stale>>,
           t \in Pages /\ op[t].kind # "none" =>
               /\ o.kind # "none"
               /\ Answered(op[t]) => Answered(o) /\ o.kind = op[t].kind
    PROVE  CachesOK' /\ CachesFit'
<1>1. tab[t] \in Cache /\ tab' = [tab EXCEPT ![t] = tab[t]]
  BY DEF CachesOK
<1>2. t \in Pages =>
        /\ DirtyWaits(tab[t], o)
        /\ t \notin stale => TeamCurrent(tab[t], UserOf[t], o)
        /\ Alone(t) => InvitesOwn(tab[t], UserOf[t], o)
  <2> SUFFICES ASSUME t \in Pages
               PROVE  /\ DirtyWaits(tab[t], o)
                      /\ t \notin stale => TeamCurrent(tab[t], UserOf[t], o)
                      /\ Alone(t) => InvitesOwn(tab[t], UserOf[t], o)
    OBVIOUS
  <2>1. DirtyWaits(tab[t], o)
    BY DEF CachesFit, DirtyWaits, Pending
  <2>2. t \notin stale => TeamCurrent(tab[t], UserOf[t], o)
    BY DEF CachesFit, TeamCurrent, TeamTag
  <2>3. Alone(t) => InvitesOwn(tab[t], UserOf[t], o)
    BY DEF CachesFit, InvitesOwn, InviteTag
  <2>4. QED
    BY <2>1, <2>2, <2>3
<1>3. QED
  BY <1>1, <1>2, CacheReplaced

LEMMA FinishKeepsCaches ==
    ASSUME TeamsInv, CachesOK, CachesFit, NEW t \in Tabs, NEW s \in {"ok", "error"}, Finish(t, s),
           UNCHANGED <<owner, members, invites, tab, stale>>
    PROVE  CachesOK' /\ CachesFit'
<1> DEFINE o == IF t \in Pages THEN [NoOp EXCEPT !.kind = op[t].kind, !.step = s] ELSE NoOp
<1>1. op[t] \in OpRecord
  BY DEF TeamsInv, TablesOK
<1>2. o \in OpRecord /\ (t \in Pages => o.kind = op[t].kind /\ Answered(o))
  BY <1>1 DEF OpRecord, NoOp, Answered
<1>3. op' = [op EXCEPT ![t] = o]
  BY DEF Finish
<1> HIDE DEF o
<1>4. QED
  BY <1>2, <1>3, ChangeReplaced

LEMMA SendKeepsCaches ==
    ASSUME TeamsInv, CachesOK, CachesFit, NEW t \in Tabs,
           NEW kind \in {"create", "join", "leave", "remove", "delete", "invite", "revoke"},
           NEW arg \in Users \cup Invites \cup {NoTeam}, Send(t, kind, arg)
    PROVE  CachesOK' /\ CachesFit'
<1> DEFINE o == [NoOp EXCEPT !.kind = kind, !.arg = arg, !.step = "sent"]
<1>1. o \in OpRecord /\ o.kind # "none"
  BY DEF OpRecord, NoOp
<1>2. op' = [op EXCEPT ![t] = o] /\ UNCHANGED <<owner, members, invites, tab, stale>>
  BY DEF Send
<1>3. op[t].kind = "none"
  BY DEF Send, NoOp
<1> HIDE DEF o
<1>4. QED
  BY <1>1, <1>2, <1>3, ChangeReplaced

LEMMA CheckKeepsCaches ==
    ASSUME TeamsInv, CachesOK, CachesFit, NEW t \in Tabs, Check(t)
    PROVE  CachesOK' /\ CachesFit'
<1>1. PICK g \in PickOf(UserOf[t]) :
         IF Allowed(UserOf[t], op[t], g) THEN Read(t, g) ELSE Finish(t, "error")
  BY DEF Check
<1>2. CASE ~Allowed(UserOf[t], op[t], g)
  BY <1>1, <1>2, FinishKeepsCaches DEF Check
<1>3. CASE Allowed(UserOf[t], op[t], g)
  <2> DEFINE o == [op[t] EXCEPT !.step = "checked", !.team = g]
  <2>1. op[t] \in OpRecord /\ op[t].step = "sent"
    BY DEF Check, TeamsInv, TablesOK
  <2>2. g \in Ids \cup {NoTeam}
    BY DEF PickOf, TeamsOf
  <2>3. o \in OpRecord /\ o.kind = op[t].kind
    BY <2>1, <2>2 DEF OpRecord
  <2>4. op' = [op EXCEPT ![t] = o]
    BY <1>1, <1>3 DEF Read, TeamsInv, TablesOK
  <2>5. ~Answered(op[t])
    BY <2>1 DEF Answered
  <2> HIDE DEF o
  <2>6. QED
    BY <2>3, <2>4, <2>5, ChangeReplaced DEF Check
<1>4. QED
  BY <1>2, <1>3

\* A cache that is shown under the change there is: it fits if what the handler
\* left of it does.
LEMMA ShowKeepsCaches ==
    ASSUME TeamsInv, CachesOK, CachesFit, NEW t \in Tabs, NEW c \in Cache, NEW o \in OpRecord,
           Show(t, c, o), op' = [op EXCEPT ![t] = o], UNCHANGED <<owner, members, invites, stale>>,
           t \in Pages /\ t \notin stale => TeamCurrent(c, UserOf[t], o),
           t \in Pages /\ Alone(t) => InvitesOwn(c, UserOf[t], o)
    PROVE  CachesOK' /\ CachesFit'
<1> DEFINE f == Mounted(Flushed(c, t, o), t)
<1>1. f \in Cache /\ DirtyWaits(f, o)
  BY ShownCache
<1>2. /\ TeamCurrent(c, UserOf[t], o) => TeamCurrent(f, UserOf[t], o)
      /\ InvitesOwn(c, UserOf[t], o) => InvitesOwn(f, UserOf[t], o)
  BY ShownFits
<1>3. tab' = [tab EXCEPT ![t] = f]
  BY DEF Show
<1> HIDE DEF f
<1>4. QED
  BY <1>1, <1>2, <1>3, CacheReplaced

\* What the cache of a page says before a step.
LEMMA CacheOfTab ==
    ASSUME TeamsInv, CachesOK, CachesFit, NEW t \in Tabs
    PROVE  /\ tab[t] \in Cache /\ op[t] \in OpRecord /\ op = [op EXCEPT ![t] = op[t]]
           /\ t \in Pages /\ t \notin stale => TeamCurrent(tab[t], UserOf[t], op[t])
           /\ t \in Pages /\ Alone(t) => InvitesOwn(tab[t], UserOf[t], op[t])
BY DEF TeamsInv, TablesOK, CachesOK, CachesFit

\* What the server reads of a team, or of none.
LEMMA ReadData ==
    ASSUME TeamsInv, NEW u \in Users, NEW g \in PickOf(u)
    PROVE  /\ (IF g = NoTeam THEN NoData ELSE Membership(g)) \in Data
           /\ g = NoTeam => TeamsOf(u) = {}
           /\ g # NoTeam => g \in TeamsOf(u) /\ g \in Ids /\ Membership(g) # NoData
<1>1. g # NoTeam => g \in TeamsOf(u) /\ g \in Ids
  BY DEF PickOf, TeamsOf
<1>2. NoTeam \notin Ids
  BY TeamsAssumption DEF TeamsAssumption
<1>3. g = NoTeam => TeamsOf(u) = {}
  BY <1>2 DEF PickOf, TeamsOf
<1>4. g # NoTeam => Membership(g) \in Data /\ Membership(g) # NoData
  BY <1>1, <1>2 DEF Membership, Data, NoData, TeamsInv, TablesOK
<1>5. NoData \in Data
  BY DEF Data, NoData
<1>6. QED
  BY <1>1, <1>3, <1>4, <1>5

LEMMA ServeKeepsCaches ==
    ASSUME TeamsInv, CachesOK, CachesFit, NEW t \in Tabs, ServeTeam(t)
    PROVE  CachesOK' /\ CachesFit'
<1> DEFINE u == UserOf[t]
           c == tab[t]
<1>1. u \in Users
  BY DEF Users
<1>2. c \in Cache /\ op[t] \in OpRecord /\ op' = [op EXCEPT ![t] = op[t]]
  BY CacheOfTab DEF ServeTeam
<1>3. PICK g \in PickOf(u) :
         tab' = [tab EXCEPT ![t].team.read = "served",
                            ![t].team.got = IF g = NoTeam THEN NoData ELSE Membership(g)]
  BY DEF ServeTeam
<1> DEFINE d == IF g = NoTeam THEN NoData ELSE Membership(g)
           e == [c.team EXCEPT !.read = "served", !.got = d]
           f == [c EXCEPT !.team = e]
<1>4. d \in Data
  BY <1>1, ReadData
<1>5. d = NoData => TeamsOf(u) = {}
  BY <1>1, ReadData
<1>6. d # NoData => \E h \in TeamsOf(u) : d = Membership(h)
  BY <1>1, ReadData
<1>7. e \in Entry(Data) /\ e.read = "served" /\ e.got = d
  BY <1>2, <1>4 DEF Cache, Entry
<1>8. f \in Cache /\ f.team = e /\ f.invites = c.invites
  BY <1>2, <1>7 DEF Cache
<1>9. tab' = [tab EXCEPT ![t] = f]
  BY <1>2, <1>3 DEF Cache, Entry, CachesOK
<1> HIDE DEF d, e, f
<1>10. DirtyWaits(f, op[t])
  BY <1>7, <1>8 DEF DirtyWaits, Pending
<1>11. TeamCurrent(f, u, op[t])
  BY <1>5, <1>6, <1>7, <1>8 DEF TeamCurrent
<1>12. t \in Pages /\ Alone(t) => InvitesOwn(f, u, op[t])
  BY <1>8, CacheOfTab DEF InvitesOwn
<1>13. QED
  BY <1>2, <1>8, <1>9, <1>10, <1>11, <1>12, CacheReplaced DEF ServeTeam

LEMMA TeamArrivesKeepsCaches ==
    ASSUME TeamsInv, CachesOK, CachesFit, NEW t \in Tabs, TeamArrives(t)
    PROVE  CachesOK' /\ CachesFit'
<1> DEFINE u == UserOf[t]
           c == tab[t]
           o == op[t]
           e == [c.team EXCEPT !.status = IF c.team.got = NoData THEN "404" ELSE "ok",
                               !.data = IF c.team.got = NoData THEN c.team.data ELSE c.team.got,
                               !.read = "no", !.got = NoData]
           f == [c EXCEPT !.team = e]
<1>1. c \in Cache /\ o \in OpRecord /\ op' = [op EXCEPT ![t] = o]
      /\ (t \in Pages /\ t \notin stale => TeamCurrent(c, u, o))
      /\ (t \in Pages /\ Alone(t) => InvitesOwn(c, u, o))
  BY CacheOfTab DEF TeamArrives
<1>2. c.team.read = "served" /\ UNCHANGED <<owner, members, invites, stale>>
  BY DEF TeamArrives
<1>3. NoData \in Data
  BY DEF NoData, Data
<1>4. /\ e \in Entry(Data) /\ e.read = "no" /\ e.dirty = c.team.dirty
      /\ c.team.got = NoData => e.status = "404"
      /\ c.team.got # NoData => e.status = "ok" /\ e.data = c.team.got
  BY <1>1, <1>3 DEF Cache, Entry
<1>5. f \in Cache /\ f.team = e /\ f.invites = c.invites
  BY <1>1, <1>4 DEF Cache
<1>6. Show(t, f, o)
  BY DEF TeamArrives
<1> HIDE DEF e, f
<1>7. TeamCurrent(c, u, o) => TeamCurrent(f, u, o)
  BY <1>2, <1>4, <1>5 DEF TeamCurrent, ShowsTeam
<1>8. InvitesOwn(c, u, o) => InvitesOwn(f, u, o)
  BY <1>5 DEF InvitesOwn
<1>9. QED
  BY <1>1, <1>2, <1>5, <1>6, <1>7, <1>8, ShowKeepsCaches

LEMMA InvitesArriveKeepsCaches ==
    ASSUME TeamsInv, OneTeam, CachesOK, CachesFit, NEW t \in Tabs, InvitesArrive(t)
    PROVE  CachesOK' /\ CachesFit'
<1> DEFINE u == UserOf[t]
           c == tab[t]
           o == op[t]
           e == c.invites
<1>1. c \in Cache /\ o \in OpRecord /\ op' = [op EXCEPT ![t] = o]
      /\ (t \in Pages /\ t \notin stale => TeamCurrent(c, u, o))
  BY CacheOfTab DEF InvitesArrive
<1>2. PICK g \in PickOf(u) :
         Show(t, [c EXCEPT !.invites =
                      IF g # NoTeam /\ owner[g] = u
                      THEN [e EXCEPT !.read = "no", !.status = "ok", !.data = Listed(g)]
                      ELSE [e EXCEPT !.read = "no", !.status = "404"]], o)
  BY DEF InvitesArrive
<1> DEFINE own == g # NoTeam /\ owner[g] = u
           i == IF own THEN [e EXCEPT !.read = "no", !.status = "ok", !.data = Listed(g)]
                ELSE [e EXCEPT !.read = "no", !.status = "404"]
           f == [c EXCEPT !.invites = i]
<1>3. /\ i \in Entry(SUBSET Invites)
      /\ own => i.data = Listed(g)
  BY <1>1 DEF Cache, Entry, Listed
<1>4. f \in Cache /\ f.team = c.team /\ f.invites = i
  BY <1>1, <1>3 DEF Cache
<1>5. Show(t, f, o)
  BY <1>2
<1>6. g \in TeamsOf(u) \/ (TeamsOf(u) = {} /\ g = NoTeam)
  BY DEF PickOf
<1>7. own => g \in Ids /\ \A k \in i.data : invites[k].team \in Ids /\ owner[invites[k].team] = u
  BY <1>3, <1>6 DEF Listed, TeamsOf
<1>8. Alone(t) /\ ~own => \A h \in Ids : owner[h] # u
  <2> SUFFICES ASSUME Alone(t), NEW h \in Ids, owner[h] = u PROVE own
    OBVIOUS
  <2>1. u \in Users
    BY DEF Users
  <2>2. <<h, u>> \in members
    BY <2>1 DEF TeamsInv, OwnerIsMember
  <2>3. g \in TeamsOf(u)
    BY <1>6, <2>2 DEF TeamsOf
  <2>4. g = h
    BY <2>2, <2>3 DEF TeamsOf, OneTeam, OneTeamPerClient
  <2>5. QED
    BY <2>4, TeamsAssumption DEF TeamsAssumption
<1> HIDE DEF own, i, f
<1>9. TeamCurrent(c, u, o) => TeamCurrent(f, u, o)
  BY <1>4 DEF TeamCurrent, ShowsTeam
<1>10. Alone(t) => InvitesOwn(f, u, o)
  BY <1>4, <1>7, <1>8 DEF InvitesOwn
<1>11. QED
  BY <1>1, <1>4, <1>5, <1>9, <1>10, ShowKeepsCaches DEF InvitesArrive

LEMMA GoToKeepsCaches ==
    ASSUME TeamsInv, CachesOK, CachesFit, NEW t \in Tabs, NEW page \in {"settings", "join"},
           NEW token \in Invites \cup {NoTeam}, GoTo(t, page, token)
    PROVE  CachesOK' /\ CachesFit'
<1> DEFINE u == UserOf[t]
           c == tab[t]
           o == op[t]
           f == [c EXCEPT !.page = page, !.token = token]
<1>1. c \in Cache /\ o \in OpRecord /\ op' = [op EXCEPT ![t] = o]
      /\ (t \in Pages /\ t \notin stale => TeamCurrent(c, u, o))
      /\ (t \in Pages /\ Alone(t) => InvitesOwn(c, u, o))
  BY CacheOfTab DEF GoTo
<1>2. f \in Cache /\ f.team = c.team /\ f.invites = c.invites
  BY <1>1 DEF Cache
<1>3. Show(t, f, o)
  BY DEF GoTo
<1> HIDE DEF f
<1>4. TeamCurrent(c, u, o) => TeamCurrent(f, u, o)
  BY <1>2 DEF TeamCurrent, ShowsTeam
<1>5. InvitesOwn(c, u, o) => InvitesOwn(f, u, o)
  BY <1>2 DEF InvitesOwn
<1>6. QED
  BY <1>1, <1>2, <1>3, <1>4, <1>5, ShowKeepsCaches DEF GoTo

LEMMA AnswerKeepsCaches ==
    ASSUME TeamsInv, CachesOK, CachesFit, NEW t \in Tabs, Answer(t)
    PROVE  CachesOK' /\ CachesFit'
<1> DEFINE u == UserOf[t]
           c == tab[t]
           o == op[t]
           joined == o.step = "ok" /\ o.kind = "join"
           v == Invalidated(c, o.kind)
           f == [v EXCEPT !.page = IF joined THEN "settings" ELSE @,
                          !.token = IF joined THEN NoTeam ELSE @]
<1>1. c \in Cache /\ o \in OpRecord
      /\ (t \in Pages /\ t \notin stale => TeamCurrent(c, u, o))
      /\ (t \in Pages /\ Alone(t) => InvitesOwn(c, u, o))
  BY CacheOfTab
<1>2. /\ Answered(o) /\ op' = [op EXCEPT ![t] = NoOp] /\ Show(t, f, NoOp)
      /\ UNCHANGED <<owner, members, invites, stale>>
  BY DEF Answer, Answered
<1> DEFINE tt == TeamTag(o.kind)
           it == InviteTag(o.kind)
           te == [c.team EXCEPT !.dirty = @ \/ tt]
           ie == [c.invites EXCEPT !.dirty = @ \/ it]
<1>3. /\ c.team \in Entry(Data) /\ c.invites \in Entry(SUBSET Invites)
      /\ c.team.dirty \in BOOLEAN /\ c.invites.dirty \in BOOLEAN
  BY <1>1, EntriesOfCache
<1>4. tt \in BOOLEAN
  BY DEF TeamTag
<1>5. it \in BOOLEAN
  BY DEF InviteTag
<1>6. (TeamTag(o.kind) <=> tt) /\ (InviteTag(o.kind) <=> it)
  OBVIOUS
<1>7. v = [c EXCEPT !.team = te, !.invites = ie]
  BY <1>1 DEF Invalidated, Cache, Entry
<1> HIDE DEF tt, it, v, f
<1>8. /\ te \in Entry(Data) /\ (te.dirty <=> c.team.dirty \/ tt) /\ te.status = c.team.status
      /\ te.data = c.team.data /\ te.read = c.team.read /\ te.got = c.team.got
  BY <1>3, <1>4 DEF Entry
<1>9. /\ ie \in Entry(SUBSET Invites) /\ (ie.dirty <=> c.invites.dirty \/ it)
      /\ ie.read = c.invites.read /\ ie.data = c.invites.data
  BY <1>3, <1>5 DEF Entry
<1> HIDE DEF te, ie
<1>10. v \in Cache /\ v.team = te /\ v.invites = ie
  BY <1>1, <1>7, <1>8, <1>9 DEF Cache
<1>11. f \in Cache /\ f.team = te /\ f.invites = ie
  BY <1>10 DEF Cache, f
<1>12. TeamCurrent(c, u, o) => TeamCurrent(f, u, NoOp)
  BY <1>2, <1>6, <1>8, <1>11 DEF TeamCurrent, ShowsTeam
<1>13. InvitesOwn(c, u, o) => InvitesOwn(f, u, NoOp)
  BY <1>2, <1>6, <1>9, <1>11 DEF InvitesOwn
<1>14. QED
  BY <1>1, <1>2, <1>11, <1>12, <1>13, NoOpOK, ShowKeepsCaches

\* What a commit does to the rows InvitesOwn speaks of: those of the other
\* accounts' teams and invites stay, whoever commits.
LEMMA EffectOnOthers ==
    ASSUME TeamsInv, CachesOK, NEW t \in Tabs, Commit(t)
    PROVE  /\ invites' \in [Invites -> InviteRecord]
           /\ \A i \in Invites : invites[i].team \in Ids => invites'[i].team = invites[i].team
           /\ \A g \in Ids, u \in Users \ {UserOf[t]} : owner'[g] = u <=> owner[g] = u
<1> DEFINE u == UserOf[t]
           o == op[t]
<1>1. u \in Users /\ Gone \notin Users /\ Unborn \notin Users /\ NoTeam \notin Ids
  BY TeamsAssumption DEF Users, TeamsAssumption
<1>2. o \in OpRecord /\ o.step = "checked" /\ Effect(u, o)
  BY DEF Commit, TeamsInv, TablesOK
<1>3. CASE o.kind = "create"
  <2>1. PICK g \in Ids : owner[g] = Unborn /\ owner' = [owner EXCEPT ![g] = u]
    BY <1>2, <1>3 DEF Effect
  <2>2. UNCHANGED invites
    BY <1>2, <1>3 DEF Effect
  <2>3. QED
    BY <1>1, <2>1, <2>2 DEF TeamsInv, TablesOK, CachesOK
<1>4. CASE o.kind = "delete"
  <2>1. owner' = [owner EXCEPT ![o.team] = Gone] /\ UNCHANGED invites
    BY <1>2, <1>4 DEF Effect
  <2>2. o.team \in Ids /\ owner[o.team] \in {u, Gone}
    BY <1>2, <1>4 DEF CheckedOwner, TeamsInv
  <2>3. QED
    BY <1>1, <2>1, <2>2 DEF TeamsInv, TablesOK, CachesOK
<1>5. CASE o.kind = "join"
  <2>1. invites' = [invites EXCEPT ![o.arg].usedBy = @ \cup {u}] /\ UNCHANGED owner
    BY <1>2, <1>5 DEF Effect
  <2>2. QED
    BY <1>1, <2>1 DEF CachesOK, InviteRecord
<1>6. CASE o.kind = "invite"
  <2> DEFINE r == [team |-> o.team, usedBy |-> {}, active |-> TRUE]
  <2>1. PICK i \in Invites : invites[i] = NoInvite /\ invites' = [invites EXCEPT ![i] = r]
    BY <1>2, <1>6 DEF Effect
  <2>2. UNCHANGED owner
    BY <1>2, <1>6 DEF Effect
  <2>3. r \in InviteRecord
    BY <1>2 DEF OpRecord, InviteRecord
  <2>4. invites[i].team = NoTeam
    BY <2>1 DEF NoInvite
  <2> HIDE DEF r
  <2>5. QED
    BY <1>1, <2>1, <2>2, <2>3, <2>4 DEF CachesOK
<1>7. CASE o.kind = "revoke"
  <2>1. invites' = [invites EXCEPT ![o.arg].active = FALSE] /\ UNCHANGED owner
    BY <1>2, <1>7 DEF Effect
  <2>2. QED
    BY <1>1, <2>1 DEF CachesOK, InviteRecord
<1>8. CASE o.kind \in {"leave", "remove"}
  <2>1. UNCHANGED <<owner, invites>>
    BY <1>2, <1>8 DEF Effect, Remove
  <2>2. QED
    BY <2>1 DEF CachesOK
<1>9. QED
  BY <1>2, <1>3, <1>4, <1>5, <1>6, <1>7, <1>8 DEF Effect

\* What a commit of a kind without a tag leaves alone.
LEMMA EffectByTag ==
    ASSUME NEW t \in Tabs, Commit(t)
    PROVE  /\ ~TeamTag(op[t].kind) => UNCHANGED <<owner, members>>
           /\ ~InviteTag(op[t].kind) => UNCHANGED <<owner, invites>>
BY DEF Commit, Effect, Remove, TeamTag, InviteTag

LEMMA CommitKeepsCaches ==
    ASSUME TeamsInv, CachesOK, CachesFit, NEW t \in Tabs, Commit(t)
    PROVE  CachesOK' /\ CachesFit'
<1>1. PICK f \in OpRecord : f.step # "checked" /\ op' = [op EXCEPT ![t] = f]
  BY FinishOp DEF Commit, TeamsInv, TablesOK
<1>2. op'[t] = f /\ (\A q \in Tabs \ {t} : op'[q] = op[q]) /\ op[t] \in OpRecord
  BY <1>1, OpWritten DEF TeamsInv, TablesOK
<1>3. t \in Pages => f.kind = op[t].kind /\ Answered(f)
  <2> SUFFICES ASSUME t \in Pages PROVE f.kind = op[t].kind /\ Answered(f)
    OBVIOUS
  <2>1. op'[t] = [NoOp EXCEPT !.kind = op[t].kind, !.step = "ok"]
    BY DEF Commit, Finish, TeamsInv, TablesOK
  <2>2. QED
    BY <1>2, <2>1 DEF NoOp, Answered
<1>4. UNCHANGED tab /\ stale' = stale \cup (Pages \ {t}) /\ op[t].step = "checked"
  BY DEF Commit
<1>5. /\ invites' \in [Invites -> InviteRecord]
      /\ \A i \in Invites : invites[i].team \in Ids => invites'[i].team = invites[i].team
      /\ \A g \in Ids, u \in Users \ {UserOf[t]} : owner'[g] = u <=> owner[g] = u
  BY EffectOnOthers
<1>6. /\ ~TeamTag(op[t].kind) => UNCHANGED <<owner, members>>
      /\ ~InviteTag(op[t].kind) => UNCHANGED <<owner, invites>>
  BY EffectByTag
<1>7. \A q \in Pages : DirtyWaits(tab[q], op'[q])
  <2> SUFFICES ASSUME NEW q \in Pages PROVE DirtyWaits(tab[q], op'[q])
    OBVIOUS
  <2>1. q \in Tabs /\ DirtyWaits(tab[q], op[q])
    BY TeamsAssumption DEF TeamsAssumption, CachesFit
  <2>2. op'[q].kind = op[q].kind
    BY <1>2, <1>3, <2>1
  <2>3. QED
    BY <2>1, <2>2 DEF DirtyWaits, Pending
<1>8. ASSUME NEW q \in Pages, q \notin stale'
      PROVE  TeamCurrent(tab[q], UserOf[q], op[q])'
  <2>1. q = t /\ t \notin stale
    BY <1>4, <1>8
  <2>2. CASE TeamTag(op[t].kind)
    BY <1>2, <1>3, <2>1, <2>2 DEF TeamCurrent
  <2>3. CASE ~TeamTag(op[t].kind)
    <3>1. TeamCurrent(tab[t], UserOf[t], op[t]) /\ ~Answered(op[t])
      BY <1>4, <2>1 DEF CachesFit, Answered
    <3>2. UNCHANGED <<owner, members>>
      BY <1>6, <2>3
    <3>3. QED
      BY <1>2, <1>3, <1>4, <2>1, <3>1, <3>2 DEF TeamCurrent, ShowsTeam, TeamsOf, Membership
  <2>4. QED
    BY <2>2, <2>3
<1>9. ASSUME NEW q \in Pages, Alone(q)
      PROVE  InvitesOwn(tab[q], UserOf[q], op[q])'
  <2>1. q \in Tabs /\ tab[q] \in Cache /\ InvitesOwn(tab[q], UserOf[q], op[q])
    BY <1>9, TeamsAssumption DEF TeamsAssumption, CachesFit, CachesOK
  <2>2. CASE q = t /\ InviteTag(op[t].kind)
    BY <1>2, <1>3, <2>2 DEF InvitesOwn
  <2>3. CASE q = t /\ ~InviteTag(op[t].kind)
    <3>1. UNCHANGED <<owner, invites>> /\ ~Answered(op[t])
      BY <1>4, <1>6, <2>3 DEF Answered
    <3>2. QED
      BY <1>4, <2>1, <2>3, <3>1 DEF InvitesOwn
  <2>4. CASE q # t
    <3>1. UserOf[q] \in Users \ {UserOf[t]}
      BY <1>9, <2>1, <2>4 DEF Alone, Users
    <3>2. tab[q].invites.data \subseteq Invites /\ op'[q] = op[q]
      BY <1>2, <2>1, <2>4, EntriesOfCache
    <3>3. QED
      BY <1>4, <1>5, <2>1, <3>1, <3>2 DEF InvitesOwn
  <2>5. QED
    BY <2>2, <2>3, <2>4
<1>10. CachesFit'
  BY <1>4, <1>7, <1>8, <1>9 DEF CachesFit, DirtyWaits, Pending, Alone
<1>11. QED
  BY <1>4, <1>5, <1>10 DEF CachesOK

LEMMA CachesStep ==
    TeamsInv /\ OneTeam /\ CachesOK /\ CachesFit /\ [TeamsNext]_teamsVars => CachesOK' /\ CachesFit'
<1> SUFFICES ASSUME TeamsInv, OneTeam, CachesOK, CachesFit, [TeamsNext]_teamsVars
             PROVE  CachesOK' /\ CachesFit'
  OBVIOUS
<1>1. ASSUME NEW t \in Tabs, OpenSettings(t) PROVE CachesOK' /\ CachesFit'
  BY <1>1, GoToKeepsCaches DEF OpenSettings
<1>2. ASSUME NEW t \in Tabs, OpenJoin(t) PROVE CachesOK' /\ CachesFit'
  BY <1>2, GoToKeepsCaches DEF OpenJoin
<1>3. ASSUME NEW t \in Tabs, Confirm(t) PROVE CachesOK' /\ CachesFit'
  <2>1. PICK d \in Dialogs : Send(t, d.kind, d.arg)
    BY <1>3 DEF Confirm
  <2>2. d.kind \in {"leave", "delete", "remove", "revoke"} /\ d.arg \in Users \cup Invites \cup {NoTeam}
    BY DEF Dialogs
  <2>3. QED
    BY <2>1, <2>2, SendKeepsCaches
<1>4. ASSUME NEW t \in Tabs, CreateTeam(t) \/ CreateInvite(t) PROVE CachesOK' /\ CachesFit'
  BY <1>4, SendKeepsCaches DEF CreateTeam, CreateInvite
<1>5. ASSUME NEW t \in Tabs, Join(t) PROVE CachesOK' /\ CachesFit'
  BY <1>5, SendKeepsCaches DEF Join
<1>6. ASSUME NEW t \in Tabs, Request(t) PROVE CachesOK' /\ CachesFit'
  BY <1>6, SendKeepsCaches DEF Request
<1>7. ASSUME NEW t \in Tabs, Fail(t) PROVE CachesOK' /\ CachesFit'
  BY <1>7, FinishKeepsCaches DEF Fail
<1>8. CASE UNCHANGED teamsVars
  BY <1>8 DEF teamsVars, CachesOK, CachesFit, DirtyWaits, Pending, Alone, TeamCurrent, InvitesOwn,
              ShowsTeam, TeamsOf, Membership
<1>9. QED
  BY <1>1, <1>2, <1>3, <1>4, <1>5, <1>6, <1>7, <1>8, ServeKeepsCaches, TeamArrivesKeepsCaches,
     InvitesArriveKeepsCaches, CheckKeepsCaches, CommitKeepsCaches, AnswerKeepsCaches DEF TeamsNext

LEMMA CachesStart == TeamsInit => CachesOK /\ CachesFit
<1> SUFFICES ASSUME TeamsInit PROVE CachesOK /\ CachesFit
  OBVIOUS
<1>1. NoEntry(NoData) \in Entry(Data) /\ NoEntry({}) \in Entry(SUBSET Invites)
  BY DEF NoEntry, NoData, Entry, Data
<1>2. Closed \in Cache /\ Closed.team = NoEntry(NoData) /\ Closed.invites = NoEntry({})
  BY <1>1 DEF Closed, Cache
<1> DEFINE e == Refetch(Closed.team)
           c == [Closed EXCEPT !.page = "settings", !.team = e]
<1>3. e \in Entry(Data) /\ e.read = "sent" /\ ~e.dirty
  BY <1>1, <1>2, Refetched
<1>4. tab = [t \in Tabs |-> IF t \in Pages THEN c ELSE Closed]
  BY DEF TeamsInit
<1> HIDE DEF e
<1>5. c \in Cache /\ c.team = e /\ c.invites = NoEntry({})
  BY <1>2, <1>3 DEF Cache
<1> HIDE DEF c
<1>6. NoInvite \in InviteRecord
  BY DEF NoInvite, InviteRecord
<1>7. CachesOK
  BY <1>2, <1>4, <1>5, <1>6 DEF CachesOK, TeamsInit
<1>8. \A t \in Pages : tab[t] = c
  BY <1>4, TeamsAssumption DEF TeamsAssumption
<1>9. ~NoEntry({}).dirty /\ NoEntry({}).data = {}
  BY DEF NoEntry
<1>10. DirtyWaits(c, NoOp)
  BY <1>3, <1>5, <1>9 DEF DirtyWaits
<1>11. \A u : TeamCurrent(c, u, NoOp) /\ InvitesOwn(c, u, NoOp)
  BY <1>3, <1>5, <1>9 DEF TeamCurrent, InvitesOwn
<1>12. \A t \in Pages : op[t] = NoOp
  BY TeamsAssumption DEF TeamsInit, TeamsAssumption
<1>13. CachesFit
  BY <1>8, <1>10, <1>11, <1>12 DEF CachesFit
<1>14. QED
  BY <1>7, <1>13

TabsInv == TeamsInv /\ OneTeam /\ CachesOK /\ CachesFit

LEMMA TabsAlways == TeamsSpec => []TabsInv
<1>1. TeamsInit => TabsInv
  <2> SUFFICES ASSUME TeamsInit PROVE TabsInv
    OBVIOUS
  <2>1. OneTeam
    BY NoOpOK DEF TeamsInit, OneTeam, OneTeamPerClient, CheckedFree
  <2>2. QED
    BY <2>1, TeamsStarts, CachesStart DEF TabsInv
<1>2. TabsInv /\ [TeamsNext]_teamsVars => TabsInv'
  BY TeamsStep, OneTeamStep, CachesStep DEF TabsInv, TeamsInv
<1>3. QED
  BY <1>1, <1>2, PTL DEF TeamsSpec

LEMMA QuietIsCurrent ==
    ASSUME TabsInv, NEW t \in Pages, Quiet(t)
    PROVE  /\ t \notin stale => ShowsTeam(tab[t], UserOf[t])
           /\ Alone(t) => \/ \A i \in tab[t].invites.data :
                                 invites[i].team \in Ids /\ owner[invites[i].team] = UserOf[t]
                          \/ \A g \in Ids : owner[g] # UserOf[t]
<1>1. ~Pending(tab[t], op[t])
  BY DEF Quiet
<1>2. tab[t].team.read = "no" /\ tab[t].invites.read = "no" /\ op[t].kind = "none"
  BY <1>1 DEF Pending
<1>3. ~TeamTag(op[t].kind) /\ ~InviteTag(op[t].kind)
  BY <1>2 DEF TeamTag, InviteTag
<1>4. ~tab[t].team.dirty /\ ~tab[t].invites.dirty
  BY <1>1 DEF TabsInv, CachesFit, DirtyWaits
<1>5. t \notin stale => TeamCurrent(tab[t], UserOf[t], op[t])
  BY DEF TabsInv, CachesFit
<1>6. Alone(t) => InvitesOwn(tab[t], UserOf[t], op[t])
  BY DEF TabsInv, CachesFit
<1>7. QED
  BY <1>2, <1>3, <1>4, <1>5, <1>6 DEF TeamCurrent, InvitesOwn

\* When nothing is under way, the settings of a team show the team of the account
\* as the tables have it, whatever the tab has changed and whichever of its answers
\* were lost or came late, unless somebody else's commit came after its last read.
THEOREM PageShowsTeam == TeamsSpec => []OwnTeamShown
<1>1. TabsInv => OwnTeamShown
  BY QuietIsCurrent DEF OwnTeamShown
<1>2. QED
  BY <1>1, TabsAlways, PTL

\* The invites on such a page are those of the team it shows.
THEOREM PageShowsOwnInvites == TeamsSpec => []InvitesOfShownTeam
<1>1. TabsInv => InvitesOfShownTeam
  <2> SUFFICES ASSUME TabsInv, NEW t \in Pages, Alone(t), Quiet(t), t \notin stale,
                      Section(tab[t], t), NEW i \in tab[t].invites.data
               PROVE  invites[i].team = tab[t].team.data.team
    BY DEF InvitesOfShownTeam
  <2> DEFINE u == UserOf[t]
  <2>1. t \in Tabs /\ u \in Users
    BY TeamsAssumption DEF TeamsAssumption, Users
  <2>2. tab[t].team.status = "ok" /\ tab[t].team.data.owner = u
    BY DEF Section, HasTeam
  <2>3. PICK g \in TeamsOf(u) : tab[t].team.data = Membership(g)
    BY <2>2, QuietIsCurrent DEF ShowsTeam
  <2>4. g \in Ids /\ <<g, u>> \in members /\ owner[g] = u /\ tab[t].team.data.team = g
    BY <2>2, <2>3 DEF TeamsOf, Membership
  <2>5. invites[i].team \in Ids /\ owner[invites[i].team] = u
    BY <2>4, QuietIsCurrent
  <2>6. <<invites[i].team, u>> \in members
    BY <2>1, <2>5 DEF TabsInv, TeamsInv, OwnerIsMember
  <2>7. QED
    BY <2>1, <2>4, <2>5, <2>6 DEF TabsInv, OneTeam, OneTeamPerClient
<1>2. QED
  BY <1>1, TabsAlways, PTL
==============================================================================
