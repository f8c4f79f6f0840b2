------------------------------- MODULE Session -------------------------------
(***************************************************************************)
(* Who is logged in (features/auth, app/auth, shared/api, shared/store):    *)
(* the token in localStorage and the cookie, the user in the store, the     *)
(* cached answers, and the requests that set and clear them. One tab; the   *)
(* server's part is what app/services/auth.py and api/routes/auth.py do     *)
(* with token_version. Behind the gateway cookies never reach the browser.  *)
(***************************************************************************)
EXTENDS Naturals

CONSTANTS
    Users,       \* accounts that are used in this browser
    Slots,       \* bound: requests in flight
    MaxVersion   \* bound: token_version

Nobody == "nobody"

SessionAssumption == Nobody \notin Users /\ Slots # {} /\ MaxVersion \in Nat

VARIABLES
    version,   \* User.token_version
    gateway,   \* Set-Cookie is cut
    jar,       \* the token in localStorage and the session cookie
    tab,       \* the store: ready, user; whose answers are cached; whether /auth/me
               \* is subscribed to
    requests,  \* requests of this tab
    causes     \* history: what may have ended the session since it began

sessionVars == <<version, gateway, jar, tab, requests, causes>>

\* A JWT: the user and the token_version it was made for.
NoJwt == [user |-> Nobody, version |-> 0]

Authentic(jwt) == jwt # NoJwt /\ jwt.version = version[jwt.user]

\* The interceptor adds the token; the server prefers it to the cookie.
Credential(j) == IF j.token # NoJwt THEN j.token ELSE j.cookie

NoRequest == [kind |-> "none", login |-> Nobody, jwt |-> NoJwt, cached |-> FALSE,
              answer |-> "none", made |-> NoJwt]

\* Sent for the cache as it is; resetApiState forgets what is in flight.
Ask(kind, login) ==
    [NoRequest EXCEPT !.kind = kind, !.login = login, !.jwt = Credential(jar), !.cached = TRUE]

Free == {s \in Slots : requests[s] = NoRequest}
Send(r) == Free # {} /\ requests' = [requests EXCEPT ![CHOOSE s \in Free : TRUE] = r]
InFlight(kinds) == \E s \in Slots : requests[s].kind \in kinds

Forget == [s \in Slots |-> [requests[s] EXCEPT !.cached = FALSE]]

----------------------------------------------------------------------------
(* Loading the page: AuthBootstrap *)

Loaded == [ready |-> FALSE, user |-> Nobody, data |-> {}, me |-> TRUE]

FirstSlot == CHOOSE s \in Slots : TRUE

FirstRequest(j) ==
    [s \in Slots |-> IF s = FirstSlot
                     THEN [NoRequest EXCEPT !.kind = "boot", !.jwt = Credential(j), !.cached = TRUE]
                     ELSE NoRequest]

SessionInit ==
    /\ version = [u \in Users |-> 0]
    /\ gateway \in BOOLEAN
    /\ jar = [token |-> NoJwt, cookie |-> NoJwt]
    /\ tab = Loaded
    /\ requests = FirstRequest(jar)
    /\ causes = {}

\* A new document: nothing of the old one is left.
Load(j) ==
    /\ jar' = j
    /\ tab' = Loaded
    /\ requests' = FirstRequest(j)

Reload == tab.ready /\ Load(jar) /\ UNCHANGED <<version, gateway, causes>>

Done(s) == requests' = [requests EXCEPT ![s] = NoRequest]

Answered(s, kind, answer) == requests[s].kind = kind /\ requests[s].answer = answer

\* Mutated form of ClearUser: the listener is gone.
ClearUserOnly == [tab EXCEPT !.user = Nobody]

\* clearUser, and the listener that resets the cache.
ClearUser == [tab EXCEPT !.user = Nobody, !.data = {}, !.me = FALSE]

WithoutToken == [jar EXCEPT !.token = NoJwt]

\* History: a session begins, unless its token has been revoked by then.
Begun(jwt) == IF Authentic(jwt) THEN {} ELSE causes

BootAnswered(s) ==
    /\ Answered(s, "boot", "ok") /\ Done(s)
    /\ tab' = [tab EXCEPT !.ready = TRUE, !.user = requests[s].jwt.user]
    /\ causes' = Begun(requests[s].jwt)
    /\ UNCHANGED <<version, gateway, jar>>

BootRefused(s) ==
    /\ Answered(s, "boot", "401")
    /\ jar' = WithoutToken
    /\ tab' = [ClearUser EXCEPT !.ready = TRUE]
    /\ requests' = [Forget EXCEPT ![s] = NoRequest]
    /\ UNCHANGED <<version, gateway, causes>>

\* Any other failure makes a guest, too, who keeps the token.
BootFailed(s) ==
    /\ Answered(s, "boot", "error")
    /\ tab' = [ClearUser EXCEPT !.ready = TRUE]
    /\ requests' = [Forget EXCEPT ![s] = NoRequest]
    /\ UNCHANGED <<version, gateway, jar, causes>>

----------------------------------------------------------------------------
(* Pages. A guest is on /login, a user elsewhere (PublicRoute, ProtectedRoute). *)

Query ==
    /\ tab.user # Nobody
    /\ Send(Ask("query", Nobody))
    /\ UNCHANGED <<version, gateway, jar, tab, causes>>

\* The form of /login, and that of /register, which behaves alike once the
\* account exists.
Login(u) ==
    /\ tab.ready /\ tab.user = Nobody /\ ~InFlight({"login"})
    /\ Send(Ask("login", u))
    /\ UNCHANGED <<version, gateway, jar, tab, causes>>

Logout ==
    /\ tab.user # Nobody /\ ~InFlight({"logout"})
    /\ Send(Ask("logout", Nobody))
    /\ causes' = causes \cup {"logout"}
    /\ UNCHANGED <<version, gateway, jar, tab>>

ChangePassword ==
    /\ tab.user # Nobody /\ ~InFlight({"password"})
    /\ Send(Ask("password", Nobody))
    /\ UNCHANGED <<version, gateway, jar, tab, causes>>

----------------------------------------------------------------------------
(* The server *)

Bump(u) == version[u] < MaxVersion /\ version' = [version EXCEPT ![u] = @ + 1]

Answer(s, answer, jwt) == requests' = [requests EXCEPT ![s].answer = answer, ![s].made = jwt]

\* _resolve_user_from_token refuses a token of another version, login a wrong
\* password.
Refuse(s) ==
    /\ requests[s].kind # "none" /\ requests[s].answer = "none"
    /\ requests[s].kind = "login" \/ ~Authentic(requests[s].jwt)
    /\ Answer(s, "401", NoJwt)
    /\ UNCHANGED <<version, gateway, jar, tab, causes>>

\* logout and change_password raise token_version; login and change_password
\* make a JWT of the version it has then.
Serve(s) ==
    LET r == requests[s]
        user == IF r.kind = "login" THEN r.login ELSE r.jwt.user
    IN
    /\ r.kind # "none" /\ r.answer = "none" /\ (r.kind = "login" \/ Authentic(r.jwt))
    /\ IF r.kind \in {"logout", "password"} THEN Bump(user) ELSE UNCHANGED version
    /\ Answer(s, "ok", IF r.kind \in {"login", "password"}
                       THEN [user |-> user, version |-> version'[user]] ELSE NoJwt)
    /\ causes' = IF r.kind = "password" /\ r.jwt.user = tab.user
                 THEN causes \cup {"password"} ELSE causes
    /\ UNCHANGED <<gateway, jar, tab>>

\* A failure, the wrong password included; the answer of what was done may be lost.
Fail(s) ==
    /\ requests[s].kind # "none" /\ requests[s].answer \in {"none", "ok"}
    /\ Answer(s, "error", NoJwt)
    /\ causes' = IF requests[s].answer = "ok" THEN causes \cup {"lost answer"} ELSE causes
    /\ UNCHANGED <<version, gateway, jar, tab>>

\* Another browser of the user logs out or changes the password.
Elsewhere(u) ==
    /\ Bump(u)
    /\ causes' = causes \cup {"elsewhere"}
    /\ UNCHANGED <<gateway, jar, tab, requests>>

----------------------------------------------------------------------------
(* Answers *)

QueryAnswered(s) ==
    /\ Answered(s, "query", "ok") /\ Done(s)
    /\ tab' = IF requests[s].cached THEN [tab EXCEPT !.data = @ \cup {requests[s].jwt.user}] ELSE tab
    /\ UNCHANGED <<version, gateway, jar, causes>>

\* /auth/me was asked for by a logout; nobody waits for it any more.
MeAnswered(s) ==
    /\ Answered(s, "me", "ok") /\ Done(s)
    /\ UNCHANGED <<version, gateway, jar, tab, causes>>

ErrorAnswered(s) ==
    /\ \E kind \in {"query", "me", "login", "password"} : Answered(s, kind, "error")
    /\ Done(s)
    /\ UNCHANGED <<version, gateway, jar, tab, causes>>

\* History: a 401 for a token that is not the one stored by now.
Late(r) == IF r.jwt # Credential(jar) THEN {"late 401"} ELSE {}

\* axiosBaseQuery: the token is cleared whatever it is by then; then the user,
\* and the login page is loaded, unless the tab shows it.
Unauthorized(s) ==
    /\ requests[s].kind \in {"query", "password", "logout"} /\ requests[s].answer = "401"
    /\ causes' = causes \cup Late(requests[s])
    /\ IF tab.user = Nobody
       THEN /\ jar' = WithoutToken
            /\ tab' = ClearUser
            /\ requests' = [Forget EXCEPT ![s] = NoRequest]
       ELSE Load(WithoutToken)
    /\ UNCHANGED <<version, gateway>>

\* skipAuthRedirect: of login, and of /auth/me.
RefusedInPlace(s) ==
    /\ requests[s].kind \in {"me", "login"} /\ requests[s].answer = "401" /\ Done(s)
    /\ jar' = WithoutToken
    /\ causes' = causes \cup Late(requests[s])
    /\ UNCHANGED <<version, gateway, tab>>

SetCookie(jwt) == IF gateway THEN jar.cookie ELSE jwt

\* Mutated form of LoggedIn: the session is the cookie's.
LoggedInByCookie(s) ==
    LET r == requests[s] IN
    /\ Answered(s, "login", "ok") /\ Done(s)
    /\ jar' = [jar EXCEPT !.cookie = SetCookie(r.made)]
    /\ tab' = [tab EXCEPT !.user = r.login]
    /\ causes' = Begun(r.made)
    /\ UNCHANGED <<version, gateway>>

\* transformResponse stores the token before the form sets the user.
LoggedIn(s) ==
    LET r == requests[s] IN
    /\ Answered(s, "login", "ok") /\ Done(s)
    /\ jar' = [token |-> r.made, cookie |-> SetCookie(r.made)]
    /\ tab' = [tab EXCEPT !.user = r.login]
    /\ causes' = Begun(r.made)
    /\ UNCHANGED <<version, gateway>>

\* Invalidating the tag User asks for /auth/me again, which then outlives the
\* reset; the token is cleared by onQueryStarted, the user by the page.
LoggedOut(s) ==
    /\ Answered(s, "logout", "ok")
    /\ jar' = [token |-> NoJwt, cookie |-> SetCookie(NoJwt)]
    /\ tab' = ClearUser
    /\ requests' = [Forget EXCEPT ![s] = IF tab.me THEN [Ask("me", Nobody) EXCEPT !.cached = FALSE]
                                         ELSE NoRequest]
    /\ UNCHANGED <<version, gateway, causes>>

\* The finally of onQueryStarted clears the token also when the logout failed,
\* the user stays; a 401 goes the way of every other one.
LogoutFailed(s) ==
    /\ Answered(s, "logout", "error") /\ Done(s)
    /\ jar' = WithoutToken
    /\ UNCHANGED <<version, gateway, tab, causes>>

\* change_password answers { ok }: its new token is in the cookie only.
PasswordChanged(s) ==
    /\ Answered(s, "password", "ok") /\ Done(s)
    /\ jar' = [jar EXCEPT !.cookie = SetCookie(requests[s].made)]
    /\ UNCHANGED <<version, gateway, tab, causes>>

----------------------------------------------------------------------------
SessionNext ==
    \/ Reload \/ Query \/ Logout \/ ChangePassword
    \/ \E u \in Users : Login(u) \/ Elsewhere(u)
    \/ \E s \in Slots :
          \/ BootAnswered(s) \/ BootRefused(s) \/ BootFailed(s)
          \/ Refuse(s) \/ Serve(s) \/ Fail(s)
          \/ QueryAnswered(s) \/ MeAnswered(s) \/ ErrorAnswered(s) \/ Unauthorized(s) \/ RefusedInPlace(s)
          \/ LoggedIn(s) \/ LoggedOut(s) \/ LogoutFailed(s) \/ PasswordChanged(s)

SessionSpec == SessionInit /\ [][SessionNext]_sessionVars

----------------------------------------------------------------------------
(* Properties *)

SessionTypeOK ==
    /\ version \in [Users -> 0 .. MaxVersion] /\ gateway \in BOOLEAN
    /\ {jar.token.user, jar.cookie.user, tab.user} \subseteq Users \cup {Nobody}
    /\ gateway => jar.cookie = NoJwt
    /\ ~tab.ready => tab.user = Nobody /\ InFlight({"boot"})
    /\ tab.data \subseteq Users

\* What the pages show was answered to the user who is logged in: no answer of
\* another account is in the cache, however accounts follow each other in one
\* tab and however late the answers come.
CacheOfUser == tab.data \subseteq {tab.user}

\* A session that has begun goes on: the tab holds a token or a cookie the
\* server accepts for its user, until the user logs out or changes the password,
\* here or elsewhere, an answer is lost, or a 401 for an older token comes late.
SessionLasts ==
    tab.user # Nobody /\ causes = {} =>
        Credential(jar).user = tab.user /\ Authentic(Credential(jar))

\* The token is the source of truth, and change_password makes a new one: whoever
\* changes the password stays logged in.
PasswordChangeKeepsSession ==
    tab.user # Nobody /\ causes = {"password"} /\ ~InFlight({"password"}) =>
        Credential(jar).user = tab.user /\ Authentic(Credential(jar))
----------------------------------------------------------------------------
(* What makes CacheOfUser and SessionLasts inductive.                       *)

Jwts == {NoJwt} \cup [user : Users, version : Nat]

RequestRecord ==
    [kind : {"none", "boot", "query", "login", "logout", "password", "me"},
     login : Users \cup {Nobody}, jwt : Jwts, cached : BOOLEAN,
     answer : {"none", "ok", "401", "error"}, made : Jwts]

TabRecord == [ready : BOOLEAN, user : Users \cup {Nobody}, data : SUBSET Users, me : BOOLEAN]

SessionTypes ==
    /\ version \in [Users -> Nat] /\ gateway \in BOOLEAN
    /\ jar \in [token : Jwts, cookie : Jwts]
    /\ tab \in TabRecord
    /\ requests \in [Slots -> RequestRecord]

\* No JWT is of a version still to come.
Issued(jwt) == jwt # NoJwt => jwt.version <= version[jwt.user]

AllIssued ==
    /\ Issued(jar.token) /\ Issued(jar.cookie)
    /\ \A s \in Slots : Issued(requests[s].jwt) /\ Issued(requests[s].made)

\* Token and cookie are of one account, that of the user logged in.
OneAccount ==
    /\ jar.token # NoJwt /\ jar.cookie # NoJwt => jar.token.user = jar.cookie.user
    /\ tab.user # Nobody => {jar.token.user, jar.cookie.user} \subseteq {tab.user, Nobody}
    /\ gateway => jar.cookie = NoJwt

\* What is in flight fits who is logged in; nothing but the first request is in
\* flight while the page loads.
FitsTab ==
    /\ ~tab.ready => /\ tab.user = Nobody /\ requests[FirstSlot].kind = "boot"
                     /\ \A s \in Slots \ {FirstSlot} : requests[s] = NoRequest
    /\ \A s \in Slots :
          LET r == requests[s] IN
          /\ r.kind = "none" => r = NoRequest
          /\ r.kind = "boot" => ~tab.ready /\ r.jwt = Credential(jar)
          /\ r.kind = "login" => tab.user = Nobody /\ r.login # Nobody
          /\ r.kind = "logout" => tab.user # Nobody /\ causes # {}
          /\ r.kind = "query" /\ r.cached => tab.user # Nobody /\ r.jwt.user \in {tab.user, Nobody}
    /\ \A s, t \in Slots : requests[s].kind \in {"login", "logout"} /\ requests[s].kind = requests[t].kind
                           => s = t

\* What the answers say of the JWT that was sent and of the one that was made.
FitsServer ==
    \A s \in Slots :
        LET r == requests[s] IN
        /\ r.answer = "ok" /\ r.kind # "login" => r.jwt # NoJwt
        /\ r.answer = "ok" /\ r.kind = "login" => r.made.user = r.login
        /\ r.answer = "ok" /\ r.kind = "password" => r.made.user = r.jwt.user
        /\ r.answer = "401" /\ r.kind # "login" => ~Authentic(r.jwt)

\* Requests that an earlier session left behind are refused.
LeftoversRefused ==
    \A s \in Slots :
        LET r == requests[s] IN
        r.kind \in {"query", "logout", "password", "me"} /\ r.jwt.user # tab.user => ~Authentic(r.jwt)

\* A logout or a change of the password that has been served.
Revoked(s) == requests[s].kind \in {"logout", "password"} /\ requests[s].answer = "ok"

\* It leaves the tab with nothing the server accepts until its answer comes: no
\* other request that ends a session is served meanwhile.
NothingAccepted ==
    \A s \in Slots : Revoked(s) =>
        /\ requests[s].jwt.user = tab.user /\ causes # {}
        /\ ~Authentic(jar.token) /\ ~Authentic(jar.cookie)
        /\ \A t \in Slots : ~Authentic(requests[t].jwt) /\ (Revoked(t) => t = s)

\* A session that begins with a revoked token has a cause to end.
RevokedHasCause ==
    \A s \in Slots :
        LET r == requests[s] IN
        /\ r.kind = "login" /\ r.answer = "ok" /\ ~Authentic(r.made) => causes # {}
        /\ r.kind = "boot" /\ r.answer = "ok" /\ ~Authentic(r.jwt) => causes # {}

SessionInv ==
    /\ SessionTypes /\ AllIssued /\ OneAccount /\ FitsTab /\ FitsServer
    /\ LeftoversRefused /\ NothingAccepted /\ RevokedHasCause
    /\ CacheOfUser /\ SessionLasts

\* Which none of this needs: Bump respects the bound of token_version.
VersionsBounded == version \in [Users -> 0 .. MaxVersion]
=============================================================================
