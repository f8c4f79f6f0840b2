-------------------------------- MODULE Teams --------------------------------
(***************************************************************************)
(* Teams, members and invites: the handlers of api/routes/teams.py, each a  *)
(* read of the tables and, after an await, a commit, and the pages of       *)
(* features/teams with the query cache of their tab. Names, dates and the   *)
(* renaming of a team are left out. A tab has one change in flight.         *)
(***************************************************************************)
EXTENDS FiniteSets

CONSTANTS
    Tabs,    \* browser tabs, and other clients of the API
    Pages,   \* the tabs that show the pages; the others send what they like
    UserOf,  \* the account of each tab
    Ids,     \* bound: teams that are ever created
    Invites  \* bound: invites that are ever created

Unborn == "unborn"
Gone   == "gone"
NoTeam == "no team"
Users  == {UserOf[t] : t \in Tabs}

ASSUME TeamsAssumption ==
    /\ {Unborn, Gone} \cap Users = {}
    /\ Pages \subseteq Tabs /\ NoTeam \notin Ids /\ IsFiniteSet(Ids) /\ IsFiniteSet(Invites)

VARIABLES
    owner,    \* teams.owner_id, Unborn or Gone
    members,  \* team_members: pairs <<team, user>>
    invites,  \* team_invites
    tab,      \* each tab: page, and cache
    op,       \* the change each tab has in flight
    stale     \* history: tabs of whose last read something has been changed by others

teamsVars == <<owner, members, invites, tab, op, stale>>

NoInvite == [team |-> NoTeam, usedBy |-> {}, active |-> FALSE]
NoOp     == [kind |-> "none", arg |-> NoTeam, team |-> NoTeam, step |-> "none"]
NoData   == [team |-> NoTeam, owner |-> Unborn, members |-> {}]

\* A query: its status, the last data there was, the read under way and what it
\* has read, and whether it has been invalidated.
NoEntry(data) == [status |-> "none", data |-> data, read |-> "no", got |-> data, dirty |-> FALSE]

TeamsOf(u)  == {g \in Ids : <<g, u>> \in members}
PickOf(u)   == IF TeamsOf(u) = {} THEN {NoTeam} ELSE TeamsOf(u)   \* _get_membership: any row
Alive(g)    == g \in Ids /\ owner[g] \in Users
Usable(i)   == Alive(invites[i].team) /\ invites[i].usedBy = {} /\ invites[i].active
Membership(g) == [team |-> g, owner |-> owner[g], members |-> {u \in Users : <<g, u>> \in members}]

\* Mutated form of Listed: the query without its team.
ListedAll(g) == {i \in Invites : invites[i] # NoInvite}

Listed(g) == {i \in Invites : invites[i].team = g}

----------------------------------------------------------------------------
(* The cache of a tab *)

HasTeam(c) == c.page = "settings" /\ c.team.status = "ok"
Section(c, t) == HasTeam(c) /\ c.team.data.owner = UserOf[t]   \* TeamInvitesSection

Pending(c, o) == c.team.read # "no" \/ c.invites.read # "no" \/ o.kind # "none"

Refetch(e) == [e EXCEPT !.read = "sent", !.dirty = FALSE]

\* What is invalidated is read again once nothing is pending, or dropped where
\* no component shows it.
Flushed(c, t, o) ==
    IF Pending(c, o) THEN c
    ELSE [c EXCEPT !.team = IF @.dirty THEN Refetch(@) ELSE @,
                   !.invites = IF ~@.dirty THEN @
                               ELSE IF Section(c, t) THEN Refetch(@) ELSE NoEntry({})]

\* A section that appears asks for what the cache does not have.
Mounted(c, t) ==
    [c EXCEPT !.invites = IF Section(c, t) /\ @.status = "none" /\ @.read = "no" THEN Refetch(@) ELSE @]

Show(t, c, o) == tab' = [tab EXCEPT ![t] = Mounted(Flushed(c, t, o), t)]

Closed == [page |-> "none", team |-> NoEntry(NoData), invites |-> NoEntry({}),
           token |-> NoTeam]

TeamsInit ==
    /\ owner = [g \in Ids |-> Unborn] /\ members = {}
    /\ invites = [i \in Invites |-> NoInvite]
    /\ tab = [t \in Tabs |-> IF t \in Pages
                             THEN [Closed EXCEPT !.page = "settings", !.team = Refetch(@)] ELSE Closed]
    /\ op = [t \in Tabs |-> NoOp]
    /\ stale = {}

ServeTeam(t) ==
    /\ tab[t].team.read = "sent"
    /\ \E g \in PickOf(UserOf[t]) :
          tab' = [tab EXCEPT ![t].team.read = "served",
                             ![t].team.got = IF g = NoTeam THEN NoData ELSE Membership(g)]
    /\ stale' = stale \ {t}
    /\ UNCHANGED <<owner, members, invites, op>>

\* A 404 keeps the data of the team there was.
TeamArrives(t) ==
    LET e == tab[t].team IN
    /\ e.read = "served"
    /\ Show(t, [tab[t] EXCEPT !.team =
                    [e EXCEPT !.status = IF e.got = NoData THEN "404" ELSE "ok",
                              !.data = IF e.got = NoData THEN e.data ELSE e.got,
                              !.read = "no", !.got = NoData]], op[t])
    /\ UNCHANGED <<owner, members, invites, op, stale>>

\* Read when it arrives; refused for who is not the owner, which keeps the data.
InvitesArrive(t) ==
    LET e == tab[t].invites IN
    /\ e.read = "sent"
    /\ \E g \in PickOf(UserOf[t]) :
          Show(t, [tab[t] EXCEPT !.invites =
                       IF g # NoTeam /\ owner[g] = UserOf[t]
                       THEN [e EXCEPT !.read = "no", !.status = "ok", !.data = Listed(g)]
                       ELSE [e EXCEPT !.read = "no", !.status = "404"]], op[t])
    /\ UNCHANGED <<owner, members, invites, op, stale>>

----------------------------------------------------------------------------
(* What the user does *)

GoTo(t, page, token) ==
    /\ t \in Pages /\ tab[t].page # page
    /\ Show(t, [tab[t] EXCEPT !.page = page, !.token = token], op[t])
    /\ UNCHANGED <<owner, members, invites, op, stale>>

OpenSettings(t) == GoTo(t, "settings", NoTeam)

\* The link of an invite somebody has made.
OpenJoin(t) == \E i \in Invites : invites[i] # NoInvite /\ GoTo(t, "join", i)

\* Buttons of the page, each with a dialog that confirms: who is not the owner
\* leaves, the owner does the rest.
Offered(t, d) ==
    LET c == tab[t] IN
    /\ HasTeam(c)
    /\ CASE d.kind = "leave"  -> c.team.data.owner # UserOf[t]
         [] d.kind = "delete" -> Section(c, t)
         [] d.kind = "remove" -> Section(c, t) /\ d.arg \in c.team.data.members \ {c.team.data.owner}
         [] d.kind = "revoke" -> Section(c, t) /\ d.arg \in c.invites.data

Dialogs == [kind : {"leave", "delete"}, arg : {NoTeam}] \cup [kind : {"remove"}, arg : Users]
           \cup [kind : {"revoke"}, arg : Invites]

Send(t, kind, arg) ==
    /\ op[t] = NoOp
    /\ op' = [op EXCEPT ![t] = [NoOp EXCEPT !.kind = kind, !.arg = arg, !.step = "sent"]]
    /\ UNCHANGED <<owner, members, invites, tab, stale>>

Confirm(t) == \E d \in Dialogs : Offered(t, d) /\ Send(t, d.kind, d.arg)

CreateTeam(t) == tab[t].page = "settings" /\ tab[t].team.status = "404" /\ Send(t, "create", NoTeam)

CreateInvite(t) == Section(tab[t], t) /\ Send(t, "invite", NoTeam)

\* The preview is that of a usable invite; data of a former team hides the button.
Join(t) ==
    /\ tab[t].page = "join" /\ tab[t].team.status = "404" /\ tab[t].team.data = NoData
    /\ \E i \in Invites : tab[t].token = i /\ Usable(i) /\ Send(t, "join", i)

\* Bound: the others neither delete a team nor revoke an invite.
Request(t) ==
    /\ t \notin Pages
    /\ \/ \E kind \in {"create", "invite", "leave"} : Send(t, kind, NoTeam)
       \/ \E i \in Invites : invites[i] # NoInvite /\ Send(t, "join", i)
       \/ \E u \in Users : Send(t, "remove", u)

----------------------------------------------------------------------------
(* The server. Check reads, Commit writes; other requests come in between. *)

Read(t, g) == op' = [op EXCEPT ![t].step = "checked", ![t].team = g]

\* What another client does with its answer is not modelled.
Finish(t, step) ==
    op' = [op EXCEPT ![t] = IF t \in Pages THEN [NoOp EXCEPT !.kind = op[t].kind, !.step = step] ELSE NoOp]

\* Mutated form of NoMembership: a second team is not looked for.
NoMembershipUnchecked(g) == TRUE

NoMembership(g) == g = NoTeam

\* Mutated form of MayLeave: the owner may, too.
MayLeaveAnyone(u, g) == TRUE

MayLeave(u, g) == owner[g] # u

Allowed(u, o, g) ==
    CASE o.kind = "create" -> NoMembership(g)
      [] o.kind = "join"   -> NoMembership(g) /\ Usable(o.arg)
      [] o.kind = "leave"  -> g # NoTeam /\ MayLeave(u, g)
      [] o.kind = "remove" -> g # NoTeam /\ owner[g] = u /\ o.arg # u /\ <<g, o.arg>> \in members
      [] o.kind = "revoke" -> g # NoTeam /\ owner[g] = u /\ invites[o.arg].team = g /\ invites[o.arg].usedBy = {}
      [] OTHER             -> g # NoTeam /\ owner[g] = u

Check(t) ==
    /\ op[t].step = "sent"
    /\ \E g \in PickOf(UserOf[t]) :
          IF Allowed(UserOf[t], op[t], g) THEN Read(t, g) ELSE Finish(t, "error")
    /\ UNCHANGED <<owner, members, invites, tab, stale>>

Insert(g, u) == members' = members \cup {<<g, u>>}
Remove(g, u) == members' = members \ {<<g, u>>} /\ UNCHANGED <<owner, invites>>

\* The tables as the commit leaves them; what was read is not read again.
Effect(u, o) ==
    \/ /\ o.kind = "create"
       /\ \E g \in Ids : /\ owner[g] = Unborn
                         /\ owner' = [owner EXCEPT ![g] = u] /\ Insert(g, u)
       /\ UNCHANGED invites
    \/ /\ o.kind = "join" /\ invites' = [invites EXCEPT ![o.arg].usedBy = @ \cup {u}]
       /\ Insert(invites[o.arg].team, u) /\ UNCHANGED owner
    \/ o.kind = "leave" /\ Remove(o.team, u)
    \/ o.kind = "remove" /\ Remove(o.team, o.arg)
    \/ /\ o.kind = "delete" /\ owner' = [owner EXCEPT ![o.team] = Gone]
       /\ members' = {m \in members : m[1] # o.team} /\ UNCHANGED invites
    \/ /\ o.kind = "invite"
       /\ \E i \in Invites : /\ invites[i] = NoInvite
                             /\ invites' = [invites EXCEPT ![i] = [team |-> o.team, usedBy |-> {}, active |-> TRUE]]
       /\ UNCHANGED <<owner, members>>
    \/ /\ o.kind = "revoke" /\ invites' = [invites EXCEPT ![o.arg].active = FALSE]
       /\ UNCHANGED <<owner, members>>

\* A foreign key, the unique pair of team and user, or an UPDATE of a row that
\* went with its team: the commit fails.
Conflict(u, o) ==
    CASE o.kind = "invite" -> ~Alive(o.team)
      [] o.kind = "revoke" -> ~Alive(o.team)
      [] o.kind = "join"   -> ~Alive(invites[o.arg].team) \/ <<invites[o.arg].team, u>> \in members
      [] OTHER             -> FALSE

Commit(t) ==
    /\ op[t].step = "checked" /\ ~Conflict(UserOf[t], op[t])
    /\ Effect(UserOf[t], op[t]) /\ Finish(t, "ok")
    /\ stale' = stale \cup (Pages \ {t})
    /\ UNCHANGED tab

\* A conflict, or the answer of what was done is lost.
Fail(t) ==
    /\ op[t].step = "checked" => Conflict(UserOf[t], op[t])
    /\ op[t].step \in {"checked", "ok"}
    /\ Finish(t, "error")
    /\ UNCHANGED <<owner, members, invites, tab, stale>>

----------------------------------------------------------------------------
(* Answers *)

TeamTag(kind)   == kind \in {"create", "delete", "remove", "leave", "join"}

InviteTag(kind) == kind \in {"create", "delete", "leave", "join", "invite", "revoke"}

\* Mutated form of Invalidated: a read under way counts as the new one.
InvalidatedIdle(c, kind) ==
    [c EXCEPT !.team.dirty = @ \/ (TeamTag(kind) /\ c.team.read = "no"),
              !.invites.dirty = @ \/ (InviteTag(kind) /\ c.invites.read = "no")]

Invalidated(c, kind) ==
    [c EXCEPT !.team.dirty = @ \/ TeamTag(kind), !.invites.dirty = @ \/ InviteTag(kind)]

\* Joining goes to the settings. An error invalidates, too.
Answer(t) ==
    LET o == op[t]
        joined == o.step = "ok" /\ o.kind = "join"
        c == Invalidated(tab[t], o.kind)
    IN
    /\ o.step \in {"ok", "error"}
    /\ op' = [op EXCEPT ![t] = NoOp]
    /\ Show(t, [c EXCEPT !.page = IF joined THEN "settings" ELSE @,
                         !.token = IF joined THEN NoTeam ELSE @], NoOp)
    /\ UNCHANGED <<owner, members, invites, stale>>

----------------------------------------------------------------------------
TeamsNext ==
    \E t \in Tabs :
       \/ ServeTeam(t) \/ TeamArrives(t) \/ InvitesArrive(t)
       \/ OpenSettings(t) \/ OpenJoin(t) \/ Confirm(t)
       \/ CreateTeam(t) \/ CreateInvite(t) \/ Join(t) \/ Request(t)
       \/ Check(t) \/ Commit(t) \/ Fail(t) \/ Answer(t)

TeamsSpec == TeamsInit /\ [][TeamsNext]_teamsVars

----------------------------------------------------------------------------
(* Properties *)

Quiet(t) == ~Pending(tab[t], op[t])

OpRecord == [kind : {"none", "create", "join", "leave", "remove", "delete", "invite", "revoke"},
             arg : Users \cup Invites \cup {NoTeam}, team : Ids \cup {NoTeam},
             step : {"none", "sent", "checked", "ok", "error"}]

\* Types, and: who is a member is a member of a team there is.
TeamsTypeOK ==
    /\ owner \in [Ids -> Users \cup {Unborn, Gone}] /\ members \subseteq Ids \X Users
    /\ \A m \in members : owner[m[1]] \in Users
    /\ \A i \in Invites : invites[i].team \in Ids \cup {NoTeam} /\ invites[i].usedBy \subseteq Users
    /\ op \in [Tabs -> OpRecord]
    /\ \A t \in Tabs : tab[t].page \in {"none", "settings", "join"}

\* The owner of a team is a member of it however joining, leaving, removing and
\* deleting interleave, so that /teams/me always shows him a team he can manage.
OwnerIsMember == \A g \in Ids : owner[g] \in Users => <<g, owner[g]>> \in members

\* One team at most for an account that is used in one place: what create_team and
\* join_team read still holds when they insert, whatever others change meanwhile.
\* Two clients of one account do get it into two teams.
Alone(t) == \A s \in Tabs : UserOf[s] = UserOf[t] => s = t

OneTeamPerClient ==
    \A t \in Tabs : Alone(t) =>
        \A g, h \in Ids : <<g, UserOf[t]>> \in members /\ <<h, UserOf[t]>> \in members => g = h

ShowsTeam(c, u) ==
    \/ c.team.status = "404" /\ TeamsOf(u) = {}
    \/ c.team.status = "ok" /\ \E g \in TeamsOf(u) : c.team.data = Membership(g)

\* Once all its requests are answered, lost answers included, a tab shows the
\* team its user is in by then, with its members, or that there is none, unless
\* somebody else has changed a team since its last read.
OwnTeamShown ==
    \A t \in Pages : Quiet(t) /\ t \notin stale => ShowsTeam(tab[t], UserOf[t])

\* The links the owner copies are those of the team on the page, if his account is
\* used in one place: of two teams, which two clients of one account can create, the
\* page may show one and list the links of the other.
InvitesOfShownTeam ==
    \A t \in Pages : Alone(t) /\ Quiet(t) /\ t \notin stale /\ Section(tab[t], t) =>
        \A i \in tab[t].invites.data : invites[i].team = tab[t].team.data.team

----------------------------------------------------------------------------
(* What makes OwnerIsMember inductive, with TeamsTypeOK.                    *)

\* What leave, remove and delete have read of the owner still holds when they
\* commit, unless the team has been deleted since.
CheckedOwner ==
    \A t \in Tabs :
        LET g == op[t].team IN
        op[t].step = "checked" =>
            /\ op[t].kind = "leave"  => g \in Ids /\ owner[g] \notin {UserOf[t], Unborn}
            /\ op[t].kind \in {"remove", "delete"} => g \in Ids /\ owner[g] \in {UserOf[t], Gone}
            /\ op[t].kind = "remove" => op[t].arg # UserOf[t]

\* What makes OneTeamPerClient inductive: a checked create or join of such an
\* account finds it in no team.
CheckedFree ==
    \A t \in Tabs :
        Alone(t) /\ op[t].step = "checked" /\ op[t].kind \in {"create", "join"}
        => \A g \in Ids : <<g, UserOf[t]>> \notin members

----------------------------------------------------------------------------
(* What makes OwnTeamShown and InvitesOfShownTeam inductive: what a tab has read *)
(* between its answers, and that what is invalidated is read again.          *)

InviteRecord == [team : Ids \cup {NoTeam}, usedBy : SUBSET Users, active : BOOLEAN]

Data == [team : Ids \cup {NoTeam}, owner : Users \cup {Unborn, Gone}, members : SUBSET Users]

Entry(data) == [status : {"none", "404", "ok"}, data : data, read : {"no", "sent", "served"},
                got : data, dirty : BOOLEAN]

Cache == [page : {"none", "settings", "join"}, team : Entry(Data), invites : Entry(SUBSET Invites),
          token : Invites \cup {NoTeam}]

CachesOK == tab \in [Tabs -> Cache] /\ invites \in [Invites -> InviteRecord]

\* What is invalidated waits for an answer, after which it is read again.
DirtyWaits(c, o) == c.team.dirty \/ c.invites.dirty => Pending(c, o)

Answered(o) == o.step \in {"ok", "error"}

\* A read of the team that no change of the tab itself has made obsolete holds the
\* team of the user, on its way and on the page.
TeamCurrent(c, u, o) ==
    ~c.team.dirty /\ ~(Answered(o) /\ TeamTag(o.kind)) =>
        /\ c.team.read = "no" => ShowsTeam(c, u)
        /\ c.team.read = "served" => IF c.team.got = NoData THEN TeamsOf(u) = {}
                                     ELSE \E g \in TeamsOf(u) : c.team.got = Membership(g)

\* Only the owner makes links for a team and deletes it, so that the links read
\* are those of a team of his, or he has none by now.
InvitesOwn(c, u, o) ==
    c.invites.read = "no" /\ ~c.invites.dirty /\ ~(Answered(o) /\ InviteTag(o.kind)) =>
        \/ \A i \in c.invites.data : invites[i].team \in Ids /\ owner[invites[i].team] = u
        \/ \A g \in Ids : owner[g] # u

CachesFit ==
    \A t \in Pages :
        /\ DirtyWaits(tab[t], op[t])
        /\ t \notin stale => TeamCurrent(tab[t], UserOf[t], op[t])
        /\ Alone(t) => InvitesOwn(tab[t], UserOf[t], op[t])
=============================================================================
