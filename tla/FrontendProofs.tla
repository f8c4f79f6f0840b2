---------------------------- MODULE FrontendProofs ----------------------------
(***************************************************************************)
(* The invariants of the parts of Frontend, proved for every value of the   *)
(* constants. Each part has an inductive invariant of its own, stated in    *)
(* its module; here it is shown that the part's Init implies it and that    *)
(* every step of the part, and every step that leaves the part alone,       *)
(* preserves it.                                                            *)
(***************************************************************************)
EXTENDS Frontend, TeamsProofs, FiniteSetTheorems, SequenceTheorems, TLAPS

----------------------------------------------------------------------------
(* The session: Accounts!SessionInv is inductive. *)

USE DEF Accounts!TabRecord, Accounts!Nobody

LEMMA SessionAssumed == Accounts!Nobody \notin Logins /\ Slots # {}
BY FrontendAssumption DEF FrontendAssumption, Accounts!SessionAssumption

LEMMA JwtFacts ==
    /\ Accounts!NoJwt \in Accounts!Jwts
    /\ \A j \in Accounts!Jwts : /\ j = Accounts!NoJwt <=> j.user = Accounts!Nobody
                                /\ j # Accounts!NoJwt => j \in [user : Logins, version : Nat]
BY SessionAssumed DEF Accounts!Jwts, Accounts!NoJwt

LEMMA NoRequestFacts ==
    /\ Accounts!NoRequest \in Accounts!RequestRecord /\ Accounts!NoRequest.kind = "none"
    /\ Accounts!NoRequest.answer = "none"
    /\ Accounts!NoRequest.jwt = Accounts!NoJwt /\ Accounts!NoRequest.made = Accounts!NoJwt
    /\ ~Accounts!Authentic(Accounts!NoJwt)
BY JwtFacts DEF Accounts!NoRequest, Accounts!RequestRecord, Accounts!Authentic

LEMMA SameRecord ==
    ASSUME NEW r \in Accounts!RequestRecord, NEW q \in Accounts!RequestRecord,
           r.kind = q.kind, r.login = q.login, r.jwt = q.jwt, r.cached = q.cached,
           r.answer = q.answer, r.made = q.made
    PROVE  r = q
BY DEF Accounts!RequestRecord

LEMMA FirstIsSlot == Accounts!FirstSlot \in Slots
BY SessionAssumed DEF Accounts!FirstSlot

LEMMA CredentialFacts ==
    ASSUME Accounts!SessionTypes
    PROVE  /\ Accounts!Credential(jar) \in {jar.token, jar.cookie}
           /\ Accounts!Credential(jar) \in Accounts!Jwts
           /\ Accounts!Credential(jar) = Accounts!NoJwt <=> jar.token = Accounts!NoJwt /\ jar.cookie = Accounts!NoJwt
BY DEF Accounts!SessionTypes, Accounts!Credential

\* What the proofs use of the tables of requests.
LEMMA RequestWritten ==
    ASSUME Accounts!SessionTypes, NEW s \in Slots, NEW r \in Accounts!RequestRecord,
           requests' = [requests EXCEPT ![s] = r]
    PROVE  /\ requests' \in [Slots -> Accounts!RequestRecord] /\ requests'[s] = r
           /\ \A t \in Slots \ {s} : requests'[t] = requests[t]
BY DEF Accounts!SessionTypes

FrameInv ==
    /\ Accounts!SessionTypes /\ Accounts!AllIssued /\ Accounts!OneAccount /\ Accounts!FitsTab
    /\ Accounts!FitsServer
    /\ Accounts!LeftoversRefused /\ Accounts!NothingAccepted /\ Accounts!RevokedHasCause

\* An answer takes its request away; what it does to the tab and the jar is at
\* most to clear the token and to add answers to the cache.
LEMMA TakenAway ==
    ASSUME FrameInv, NEW s \in Slots, requests[s].kind \notin {"none", "boot"},
           requests' = [requests EXCEPT ![s] = Accounts!NoRequest],
           UNCHANGED <<version, gateway>>,
           jar' = jar \/ jar' = Accounts!WithoutToken,
           NEW d \in SUBSET Logins, store' = [store EXCEPT !.data = d],
           causes \subseteq causes'
    PROVE  FrameInv'
<1>1. /\ requests' \in [Slots -> Accounts!RequestRecord] /\ requests'[s] = Accounts!NoRequest
      /\ \A t \in Slots \ {s} : requests'[t] = requests[t]
  BY RequestWritten, NoRequestFacts DEF FrameInv
<1>2. /\ jar' \in [token : Accounts!Jwts, cookie : Accounts!Jwts] /\ jar'.cookie = jar.cookie
      /\ jar'.token \in {jar.token, Accounts!NoJwt}
  BY JwtFacts DEF FrameInv, Accounts!SessionTypes, Accounts!WithoutToken
<1>3. /\ store' \in Accounts!TabRecord
      /\ store'.user = store.user /\ store'.ready = store.ready
  BY DEF FrameInv, Accounts!SessionTypes
<1>4. store.ready /\ \A t \in Slots : requests'[t].kind # "boot"
  BY <1>1, NoRequestFacts DEF FrameInv, Accounts!FitsTab
<1>5. \A j : Accounts!Authentic(j)' <=> Accounts!Authentic(j)
  BY DEF Accounts!Authentic
<1>6. Accounts!SessionTypes'
  BY <1>1, <1>2, <1>3 DEF FrameInv, Accounts!SessionTypes
<1>7. Accounts!AllIssued'
  BY <1>1, <1>2, NoRequestFacts DEF FrameInv, Accounts!AllIssued, Accounts!Issued
<1>8. Accounts!OneAccount'
  BY <1>2, <1>3, JwtFacts DEF FrameInv, Accounts!OneAccount, Accounts!SessionTypes
<1>9. Accounts!FitsTab'
  BY <1>1, <1>3, <1>4, NoRequestFacts DEF FrameInv, Accounts!FitsTab
<1>10. Accounts!FitsServer'
  BY <1>1, <1>5, NoRequestFacts DEF FrameInv, Accounts!FitsServer
<1>11. Accounts!LeftoversRefused'
  BY <1>1, <1>3, <1>5, NoRequestFacts DEF FrameInv, Accounts!LeftoversRefused
<1>12. Accounts!NothingAccepted'
  <2>1. \A t \in Slots : Accounts!Revoked(t)' => Accounts!Revoked(t) /\ t # s
    BY <1>1, NoRequestFacts DEF Accounts!Revoked
  <2>2. QED
    BY <1>1, <1>2, <1>3, <1>5, <2>1, NoRequestFacts DEF FrameInv, Accounts!NothingAccepted
<1>13. Accounts!RevokedHasCause'
  BY <1>1, <1>5, NoRequestFacts DEF FrameInv, Accounts!RevokedHasCause
<1>14. QED
  BY <1>6, <1>7, <1>8, <1>9, <1>10, <1>11, <1>12, <1>13 DEF FrameInv

\* A request is sent with the credential the tab has.
LEMMA Sent ==
    ASSUME FrameInv, NEW kind \in {"query", "login", "logout", "password"},
           NEW login \in Logins \cup {Accounts!Nobody}, Accounts!Send(Accounts!Ask(kind, login)),
           UNCHANGED <<version, gateway, jar, store>>, causes \subseteq causes',
           store.ready,
           kind = "login" => store.user = Accounts!Nobody /\ login # Accounts!Nobody,
           kind # "login" => store.user # Accounts!Nobody,
           kind \in {"login", "logout"} => ~Accounts!InFlight({kind}),
           kind = "logout" => causes' # {}
    PROVE  FrameInv'
<1> DEFINE r == Accounts!Ask(kind, login)
<1>1. PICK s \in Slots : requests[s] = Accounts!NoRequest /\ requests' = [requests EXCEPT ![s] = r]
  BY DEF Accounts!Send, Accounts!Free
<1>2. /\ r \in Accounts!RequestRecord /\ r.kind = kind /\ r.login = login
      /\ r.jwt = Accounts!Credential(jar)
      /\ r.made = Accounts!NoJwt /\ r.answer = "none"
  BY CredentialFacts, JwtFacts DEF FrameInv, Accounts!Ask, Accounts!NoRequest,
     Accounts!RequestRecord
<1> HIDE DEF r
<1>3. /\ requests' \in [Slots -> Accounts!RequestRecord] /\ requests'[s] = r
      /\ \A t \in Slots \ {s} : requests'[t] = requests[t]
  BY <1>1, <1>2, RequestWritten DEF FrameInv
<1>4. \A j : Accounts!Authentic(j)' <=> Accounts!Authentic(j)
  BY DEF Accounts!Authentic
<1>5. Accounts!SessionTypes'
  BY <1>3 DEF FrameInv, Accounts!SessionTypes
<1>6. Accounts!AllIssued'
  BY <1>2, <1>3, CredentialFacts DEF FrameInv, Accounts!AllIssued, Accounts!Issued
<1>7. Accounts!OneAccount'
  BY DEF FrameInv, Accounts!OneAccount
<1>8. r.jwt.user = store.user \/ r.jwt.user = Accounts!Nobody \/ store.user = Accounts!Nobody
  BY <1>2, CredentialFacts DEF FrameInv, Accounts!OneAccount
<1>9. Accounts!FitsTab'
  <2>1. Accounts!Credential(jar)' = Accounts!Credential(jar)
    BY DEF Accounts!Credential
  <2>2. \A t \in Slots : requests[t].kind # "boot"
    BY DEF FrameInv, Accounts!FitsTab
  <2>3. \A t \in Slots : kind \in {"login", "logout"} => requests[t].kind # kind
    BY DEF Accounts!InFlight
  <2>4. QED
    BY <1>2, <1>3, <1>8, <2>1, <2>2, <2>3 DEF FrameInv, Accounts!FitsTab
<1>10. Accounts!FitsServer'
  BY <1>2, <1>3, <1>4 DEF FrameInv, Accounts!FitsServer
<1>11. Accounts!LeftoversRefused'
  <2>1. r.jwt \in Accounts!Jwts
    BY <1>2 DEF Accounts!RequestRecord
  <2>2. kind # "login" /\ r.jwt.user # store.user => ~Accounts!Authentic(r.jwt)
    BY <1>8, <2>1, JwtFacts DEF Accounts!Authentic
  <2>3. QED
    BY <1>2, <1>3, <1>4, <2>2 DEF FrameInv, Accounts!LeftoversRefused
<1>12. Accounts!NothingAccepted'
  <2>1. \A t \in Slots : Accounts!Revoked(t)' => Accounts!Revoked(t) /\ t # s
    BY <1>1, <1>2, <1>3 DEF Accounts!Revoked
  <2>2. QED
    BY <1>2, <1>3, <1>4, <2>1, CredentialFacts DEF FrameInv, Accounts!NothingAccepted
<1>13. Accounts!RevokedHasCause'
  BY <1>2, <1>3, <1>4 DEF FrameInv, Accounts!RevokedHasCause
<1>14. QED
  BY <1>5, <1>6, <1>7, <1>9, <1>10, <1>11, <1>12, <1>13 DEF FrameInv

\* What the server says of a request without raising a version.
LEMMA Judged ==
    ASSUME FrameInv, NEW s \in Slots, NEW a \in {"ok", "401", "error"}, NEW m \in Accounts!Jwts,
           requests[s].kind # "none",
           requests' = [requests EXCEPT ![s].answer = a, ![s].made = m],
           UNCHANGED <<version, gateway, jar, store>>, causes \subseteq causes',
           Accounts!Issued(m),
           a = "ok" => /\ requests[s].kind \notin {"logout", "password"}
                       /\ requests[s].kind = "login" => m.user = requests[s].login /\ Accounts!Authentic(m)
                       /\ requests[s].kind # "login" => Accounts!Authentic(requests[s].jwt),
           a = "401" /\ requests[s].kind # "login" => ~Accounts!Authentic(requests[s].jwt)
    PROVE  FrameInv'
<1> DEFINE r == [requests[s] EXCEPT !.answer = a, !.made = m]
<1>1. requests[s] \in Accounts!RequestRecord
  BY DEF FrameInv, Accounts!SessionTypes
<1>2. /\ r \in Accounts!RequestRecord /\ r.answer = a /\ r.made = m
      /\ r.kind = requests[s].kind /\ r.login = requests[s].login /\ r.jwt = requests[s].jwt
      /\ r.cached = requests[s].cached
  BY <1>1 DEF Accounts!RequestRecord
<1>3. requests' = [requests EXCEPT ![s] = r]
  BY <1>1 DEF FrameInv, Accounts!SessionTypes, Accounts!RequestRecord
<1> HIDE DEF r
<1>4. /\ requests' \in [Slots -> Accounts!RequestRecord] /\ requests'[s] = r
      /\ \A t \in Slots \ {s} : requests'[t] = requests[t]
  BY <1>2, <1>3, RequestWritten DEF FrameInv
<1>5. \A j : Accounts!Authentic(j)' <=> Accounts!Authentic(j)
  BY DEF Accounts!Authentic
<1>6. Accounts!SessionTypes'
  BY <1>4 DEF FrameInv, Accounts!SessionTypes
<1>7. Accounts!AllIssued'
  BY <1>2, <1>4 DEF FrameInv, Accounts!AllIssued, Accounts!Issued
<1>8. Accounts!OneAccount'
  BY DEF FrameInv, Accounts!OneAccount
<1>9. Accounts!FitsTab'
  <2>1. Accounts!Credential(jar)' = Accounts!Credential(jar)
    BY DEF Accounts!Credential
  <2>2. ~store.ready => s = Accounts!FirstSlot
    BY NoRequestFacts DEF FrameInv, Accounts!FitsTab
  <2>3. QED
    BY <1>2, <1>4, <2>1, <2>2, FirstIsSlot DEF FrameInv, Accounts!FitsTab
<1>10. Accounts!FitsServer'
  BY <1>2, <1>4, <1>5, NoRequestFacts DEF FrameInv, Accounts!FitsServer
<1>11. Accounts!LeftoversRefused'
  BY <1>2, <1>4, <1>5 DEF FrameInv, Accounts!LeftoversRefused
<1>12. Accounts!NothingAccepted'
  <2>1. \A t \in Slots : Accounts!Revoked(t)' => Accounts!Revoked(t) /\ t # s
    BY <1>2, <1>4 DEF Accounts!Revoked
  <2>2. QED
    BY <1>2, <1>4, <1>5, <2>1 DEF FrameInv, Accounts!NothingAccepted
<1>13. Accounts!RevokedHasCause'
  BY <1>2, <1>4, <1>5 DEF FrameInv, Accounts!RevokedHasCause
<1>14. QED
  BY <1>6, <1>7, <1>8, <1>9, <1>10, <1>11, <1>12, <1>13 DEF FrameInv

\* A version is raised: what was refused stays refused.
LEMMA VersionRaised ==
    ASSUME Accounts!SessionTypes, Accounts!AllIssued, NEW u \in Logins, Accounts!Bump(u)
    PROVE  /\ version' \in [Logins -> Nat] /\ version'[u] = version[u] + 1
           /\ \A w \in Logins \ {u} : version'[w] = version[w]
           /\ \A j \in Accounts!Jwts : Accounts!Issued(j) => Accounts!Issued(j)'
           /\ \A j \in Accounts!Jwts : Accounts!Issued(j) /\ Accounts!Authentic(j)' => Accounts!Authentic(j) /\ j.user # u
<1>1. /\ version' \in [Logins -> Nat] /\ version'[u] = version[u] + 1
      /\ \A w \in Logins \ {u} : version'[w] = version[w]
  BY DEF Accounts!SessionTypes, Accounts!Bump
<1>2. ASSUME NEW j \in Accounts!Jwts, Accounts!Issued(j), j # Accounts!NoJwt
      PROVE  /\ Accounts!Issued(j)'
             /\ (Accounts!Authentic(j)' => Accounts!Authentic(j) /\ j.user # u)
  <2>1. j.user \in Logins /\ j.version \in Nat
    BY <1>2, JwtFacts
  <2>2. version[j.user] \in Nat
    BY <2>1 DEF Accounts!SessionTypes
  <2>3. CASE j.user = u
    BY <1>1, <1>2, <2>1, <2>2, <2>3 DEF Accounts!Issued, Accounts!Authentic
  <2>4. CASE j.user # u
    BY <1>1, <1>2, <2>1, <2>2, <2>4 DEF Accounts!Issued, Accounts!Authentic
  <2>5. QED
    BY <2>3, <2>4
<1>3. QED
  BY <1>1, <1>2 DEF Accounts!Issued, Accounts!Authentic

LEMMA ElsewhereFrame ==
    ASSUME FrameInv, NEW u \in Logins, Accounts!Elsewhere(u)
    PROVE  FrameInv'
<1>1. /\ version' \in [Logins -> Nat]
      /\ \A j \in Accounts!Jwts : Accounts!Issued(j) => Accounts!Issued(j)'
      /\ \A j \in Accounts!Jwts : Accounts!Issued(j) /\ Accounts!Authentic(j)' => Accounts!Authentic(j)
  BY VersionRaised DEF FrameInv, Accounts!Elsewhere
<1>2. /\ UNCHANGED <<gateway, jar, store, requests>> /\ causes' # {}
      /\ Accounts!Credential(jar)' = Accounts!Credential(jar)
  BY DEF Accounts!Elsewhere, Accounts!Credential
<1>3. \A s \in Slots : requests[s].jwt \in Accounts!Jwts /\ requests[s].made \in Accounts!Jwts
  BY DEF FrameInv, Accounts!SessionTypes, Accounts!RequestRecord
<1>4. jar.token \in Accounts!Jwts /\ jar.cookie \in Accounts!Jwts
  BY DEF FrameInv, Accounts!SessionTypes
<1>5. Accounts!SessionTypes'
  BY <1>1, <1>2 DEF FrameInv, Accounts!SessionTypes
<1>6. Accounts!AllIssued'
  BY <1>1, <1>2, <1>3, <1>4 DEF FrameInv, Accounts!AllIssued
<1>7. Accounts!OneAccount' /\ Accounts!FitsTab'
  BY <1>2 DEF FrameInv, Accounts!OneAccount, Accounts!FitsTab
<1>8. Accounts!FitsServer' /\ Accounts!LeftoversRefused'
  BY <1>1, <1>2, <1>3 DEF FrameInv, Accounts!FitsServer, Accounts!LeftoversRefused,
     Accounts!AllIssued
<1>9. Accounts!NothingAccepted'
  BY <1>1, <1>2, <1>3, <1>4 DEF FrameInv, Accounts!NothingAccepted, Accounts!AllIssued,
     Accounts!Revoked
<1>10. Accounts!RevokedHasCause'
  BY <1>2 DEF Accounts!RevokedHasCause
<1>11. QED
  BY <1>5, <1>6, <1>7, <1>8, <1>9, <1>10 DEF FrameInv

\* A logout or a change of the password is served.
LEMMA RevokeFrame ==
    ASSUME FrameInv, NEW s \in Slots, Accounts!Serve(s),
           requests[s].kind \in {"logout", "password"}
    PROVE  /\ FrameInv' /\ requests[s].jwt.user = store.user /\ store.user # Accounts!Nobody
           /\ causes' # {}
<1> DEFINE q == requests[s]
           u == q.jwt.user
           m == IF q.kind = "password" THEN [user |-> u, version |-> version'[u]] ELSE Accounts!NoJwt
           r == [q EXCEPT !.answer = "ok", !.made = m]
<1>1. q \in Accounts!RequestRecord /\ q.answer = "none" /\ Accounts!Authentic(q.jwt)
  BY DEF Accounts!Serve, FrameInv, Accounts!SessionTypes
<1>2. u \in Logins /\ u # Accounts!Nobody /\ Accounts!Bump(u)
  BY <1>1, JwtFacts, SessionAssumed DEF Accounts!Serve, Accounts!Authentic, Accounts!RequestRecord
<1>3. /\ version' \in [Logins -> Nat]
      /\ \A j \in Accounts!Jwts : Accounts!Issued(j) => Accounts!Issued(j)'
      /\ \A j \in Accounts!Jwts : Accounts!Issued(j) /\ Accounts!Authentic(j)' => Accounts!Authentic(j) /\ j.user # u
  BY <1>2, VersionRaised DEF FrameInv
<1>4. /\ m \in Accounts!Jwts /\ (q.kind = "password" => m.user = u)
      /\ m # Accounts!NoJwt => m.version <= version'[m.user]
  BY <1>2, <1>3, JwtFacts DEF Accounts!Jwts
<1>5. /\ r \in Accounts!RequestRecord /\ r.answer = "ok" /\ r.made = m /\ r.kind = q.kind
      /\ r.login = q.login /\ r.jwt = q.jwt /\ r.cached = q.cached
  BY <1>1, <1>4 DEF Accounts!RequestRecord
<1>6. requests' = [requests EXCEPT ![s] = r]
  BY <1>1 DEF Accounts!Serve, Accounts!Answer, FrameInv, Accounts!SessionTypes,
     Accounts!RequestRecord
<1>7. u = store.user
  BY <1>1 DEF FrameInv, Accounts!LeftoversRefused
<1>8. /\ UNCHANGED <<gateway, jar, store>> /\ causes \subseteq causes' /\ causes' # {}
      /\ Accounts!Credential(jar)' = Accounts!Credential(jar)
  BY <1>7 DEF Accounts!Serve, Accounts!Credential, FrameInv, Accounts!FitsTab
<1> HIDE DEF m, r
<1>9. /\ requests' \in [Slots -> Accounts!RequestRecord] /\ requests'[s] = r
      /\ \A t \in Slots \ {s} : requests'[t] = requests[t]
  BY <1>5, <1>6, RequestWritten DEF FrameInv
<1>10. \A t \in Slots : /\ requests[t].jwt \in Accounts!Jwts /\ requests[t].made \in Accounts!Jwts
                         /\ requests'[t].jwt = requests[t].jwt
  BY <1>5, <1>9 DEF FrameInv, Accounts!SessionTypes, Accounts!RequestRecord
<1>11. jar.token \in Accounts!Jwts /\ jar.cookie \in Accounts!Jwts
  BY DEF FrameInv, Accounts!SessionTypes
<1>12. store.ready
  BY <1>2, <1>7 DEF FrameInv, Accounts!FitsTab
<1>13. Accounts!SessionTypes'
  BY <1>3, <1>8, <1>9 DEF FrameInv, Accounts!SessionTypes
<1>14. Accounts!AllIssued'
  <2>1. Accounts!Issued(jar.token)' /\ Accounts!Issued(jar.cookie)'
    BY <1>3, <1>8, <1>11 DEF FrameInv, Accounts!AllIssued
  <2>2. \A t \in Slots : Accounts!Issued(requests[t].jwt)' /\ Accounts!Issued(requests[t].made)'
    BY <1>4, <1>5, <1>9, <1>10, <1>3, <1>8 DEF FrameInv, Accounts!AllIssued, Accounts!Issued
  <2>3. QED
    BY <2>1, <2>2 DEF Accounts!AllIssued
<1>15. Accounts!OneAccount'
  BY <1>8 DEF FrameInv, Accounts!OneAccount
<1>16. Accounts!FitsTab'
  BY <1>2, <1>5, <1>7, <1>8, <1>9, <1>12 DEF FrameInv, Accounts!FitsTab
<1>17. Accounts!FitsServer'
  BY <1>1, <1>3, <1>4, <1>5, <1>9, <1>10, NoRequestFacts DEF FrameInv, Accounts!FitsServer,
     Accounts!AllIssued, Accounts!Authentic
<1>18. Accounts!LeftoversRefused'
  BY <1>3, <1>5, <1>8, <1>9, <1>10 DEF FrameInv, Accounts!LeftoversRefused, Accounts!AllIssued
<1>19. Accounts!NothingAccepted'
  <2>1. \A j \in {jar.token, jar.cookie} : ~Accounts!Authentic(j)'
    <3>1. ASSUME NEW j \in {jar.token, jar.cookie}, Accounts!Authentic(j)' PROVE FALSE
      <4>1. j \in Accounts!Jwts /\ Accounts!Issued(j) /\ j.user \in {store.user, Accounts!Nobody}
        BY <1>2, <1>7, <1>11 DEF FrameInv, Accounts!AllIssued, Accounts!OneAccount
      <4>2. Accounts!Authentic(j) /\ j.user # u
        BY <1>3, <3>1, <4>1
      <4>3. QED
        BY <1>7, <4>1, <4>2, JwtFacts DEF Accounts!Authentic
    <3>2. QED
      BY <3>1
  <2>2. ASSUME NEW t \in Slots, Accounts!Authentic(requests[t].jwt)' PROVE FALSE
    <3>1. Accounts!Authentic(requests[t].jwt) /\ requests[t].jwt.user # u
      BY <1>3, <1>10, <2>2 DEF FrameInv, Accounts!AllIssued, Accounts!Authentic
    <3>2. requests[t].kind \in {"none", "boot", "login"}
      BY <1>7, <3>1, <1>10 DEF FrameInv, Accounts!LeftoversRefused, Accounts!SessionTypes,
         Accounts!RequestRecord
    <3>3. QED
      BY <1>2, <1>7, <1>12, <3>1, <3>2, NoRequestFacts DEF FrameInv, Accounts!FitsTab
  <2>3. \A t \in Slots : Accounts!Revoked(t)' => t = s
    <3>1. ASSUME NEW t \in Slots, t # s, Accounts!Revoked(t)' PROVE FALSE
      BY <1>1, <1>9, <3>1 DEF FrameInv, Accounts!NothingAccepted, Accounts!Revoked
    <3>2. QED
      BY <3>1
  <2>4. requests'[s].jwt.user = store'.user
    BY <1>5, <1>7, <1>8, <1>9
  <2>5. QED
    BY <1>8, <2>1, <2>2, <2>3, <2>4 DEF Accounts!NothingAccepted
<1>20. Accounts!RevokedHasCause'
  BY <1>8 DEF Accounts!RevokedHasCause
<1>21. FrameInv'
  BY <1>13, <1>14, <1>15, <1>16, <1>17, <1>18, <1>19, <1>20 DEF FrameInv
<1>22. QED
  BY <1>2, <1>7, <1>8, <1>21

\* A new document asks with what the jar holds.
LEMMA LoadFrame ==
    ASSUME FrameInv, NEW j \in {jar, Accounts!WithoutToken}, Accounts!Load(j),
           UNCHANGED <<version, gateway>>
    PROVE  FrameInv' /\ store'.user = Accounts!Nobody /\ store'.data = {}
<1> DEFINE r == [Accounts!NoRequest EXCEPT !.kind = "boot", !.jwt = Accounts!Credential(j), !.cached = TRUE]
<1>1. /\ j \in [token : Accounts!Jwts, cookie : Accounts!Jwts] /\ j.cookie = jar.cookie
      /\ j.token \in {jar.token, Accounts!NoJwt}
      /\ Accounts!Credential(j) \in {jar.token, jar.cookie, Accounts!NoJwt}
      /\ Accounts!Credential(j) \in Accounts!Jwts
  BY JwtFacts DEF FrameInv, Accounts!SessionTypes, Accounts!WithoutToken, Accounts!Credential
<1>2. /\ r \in Accounts!RequestRecord /\ r.kind = "boot" /\ r.jwt = Accounts!Credential(j)
      /\ r.answer = "none"
      /\ r.made = Accounts!NoJwt
  BY <1>1, JwtFacts DEF Accounts!NoRequest, Accounts!RequestRecord
<1>3. requests' = [s \in Slots |-> IF s = Accounts!FirstSlot THEN r ELSE Accounts!NoRequest]
  BY DEF Accounts!Load, Accounts!FirstRequest
<1> HIDE DEF r
<1>4. /\ requests' \in [Slots -> Accounts!RequestRecord] /\ requests'[Accounts!FirstSlot] = r
      /\ \A t \in Slots \ {Accounts!FirstSlot} : requests'[t] = Accounts!NoRequest
  BY <1>2, <1>3, FirstIsSlot, NoRequestFacts
<1>5. /\ store' = Accounts!Loaded /\ jar' = j /\ store'.ready = FALSE
      /\ store'.user = Accounts!Nobody /\ store'.data = {}
      /\ store' \in Accounts!TabRecord
  BY DEF Accounts!Load, Accounts!Loaded
<1>6. Accounts!Credential(jar)' = Accounts!Credential(j)
  BY <1>5 DEF Accounts!Credential
<1>7. Accounts!SessionTypes'
  BY <1>1, <1>4, <1>5 DEF FrameInv, Accounts!SessionTypes
<1>8. Accounts!AllIssued'
  BY <1>1, <1>2, <1>4, <1>5, NoRequestFacts DEF FrameInv, Accounts!AllIssued, Accounts!Issued
<1>9. Accounts!OneAccount'
  BY <1>1, <1>5 DEF FrameInv, Accounts!OneAccount
<1>10. Accounts!FitsTab'
  BY <1>2, <1>4, <1>5, <1>6, NoRequestFacts DEF Accounts!FitsTab
<1>11. Accounts!FitsServer' /\ Accounts!LeftoversRefused' /\ Accounts!RevokedHasCause'
  BY <1>2, <1>4, NoRequestFacts DEF Accounts!FitsServer, Accounts!LeftoversRefused,
     Accounts!RevokedHasCause
<1>12. Accounts!NothingAccepted'
  BY <1>2, <1>4, NoRequestFacts DEF Accounts!NothingAccepted, Accounts!Revoked
<1>13. QED
  BY <1>5, <1>7, <1>8, <1>9, <1>10, <1>11, <1>12 DEF FrameInv

\* The cache is reset: what is in flight stays, unheard.
LEMMA ForgetFacts ==
    ASSUME Accounts!SessionTypes, NEW s \in Slots, NEW r \in Accounts!RequestRecord,
           requests' = [Accounts!Forget EXCEPT ![s] = r]
    PROVE  /\ requests' \in [Slots -> Accounts!RequestRecord] /\ requests'[s] = r
           /\ \A t \in Slots \ {s} :
                 /\ requests'[t].kind = requests[t].kind /\ requests'[t].login = requests[t].login
                 /\ requests'[t].jwt = requests[t].jwt /\ requests'[t].answer = requests[t].answer
                 /\ requests'[t].made = requests[t].made /\ requests'[t].cached = FALSE
                 /\ (requests[t] = Accounts!NoRequest => requests'[t] = Accounts!NoRequest)
<1> DEFINE g(t) == [requests[t] EXCEPT !.cached = FALSE]
<1>1. ASSUME NEW t \in Slots
      PROVE  /\ g(t) \in Accounts!RequestRecord /\ g(t).kind = requests[t].kind
             /\ g(t).login = requests[t].login
             /\ g(t).jwt = requests[t].jwt /\ g(t).answer = requests[t].answer
             /\ g(t).made = requests[t].made /\ g(t).cached = FALSE
             /\ (requests[t] = Accounts!NoRequest => g(t) = Accounts!NoRequest)
  <2>1. requests[t] \in Accounts!RequestRecord
    BY DEF Accounts!SessionTypes
  <2>2. /\ g(t) \in Accounts!RequestRecord /\ g(t).kind = requests[t].kind
        /\ g(t).login = requests[t].login
        /\ g(t).jwt = requests[t].jwt /\ g(t).answer = requests[t].answer
        /\ g(t).made = requests[t].made /\ g(t).cached = FALSE
    BY <2>1 DEF Accounts!RequestRecord
  <2> HIDE DEF g
  <2>3. requests[t] = Accounts!NoRequest => g(t) = Accounts!NoRequest
    BY <2>2, NoRequestFacts, SameRecord DEF Accounts!NoRequest
  <2>4. QED
    BY <2>2, <2>3
<1>2. Accounts!Forget = [t \in Slots |-> g(t)]
  BY DEF Accounts!Forget
<1> HIDE DEF g
<1>3. /\ requests' \in [Slots -> Accounts!RequestRecord] /\ requests'[s] = r
      /\ \A t \in Slots \ {s} : requests'[t] = g(t)
  BY <1>1, <1>2
<1>4. QED
  BY <1>1, <1>3

\* Who is a guest, or whose session is refused, is a guest afterwards.
LEMMA GuestFrame ==
    ASSUME FrameInv, NEW s \in Slots, requests[s].kind # "none", store.user = Accounts!Nobody,
           requests' = [Accounts!Forget EXCEPT ![s] = Accounts!NoRequest],
           UNCHANGED <<version, gateway>>,
           jar' = jar \/ jar' = Accounts!WithoutToken, causes \subseteq causes',
           store' = Accounts!ClearUser \/ store' = [Accounts!ClearUser EXCEPT !.ready = TRUE],
           requests[s].kind = "boot" => store'.ready
    PROVE  FrameInv'
<1>1. /\ requests' \in [Slots -> Accounts!RequestRecord] /\ requests'[s] = Accounts!NoRequest
      /\ \A t \in Slots \ {s} :
            /\ requests'[t].kind = requests[t].kind /\ requests'[t].login = requests[t].login
            /\ requests'[t].jwt = requests[t].jwt /\ requests'[t].answer = requests[t].answer
            /\ requests'[t].made = requests[t].made /\ requests'[t].cached = FALSE
            /\ (requests[t] = Accounts!NoRequest => requests'[t] = Accounts!NoRequest)
  BY ForgetFacts, NoRequestFacts DEF FrameInv
<1>2. /\ jar' \in [token : Accounts!Jwts, cookie : Accounts!Jwts] /\ jar'.cookie = jar.cookie
      /\ jar'.token \in {jar.token, Accounts!NoJwt}
  BY JwtFacts DEF FrameInv, Accounts!SessionTypes, Accounts!WithoutToken
<1>3. /\ store' \in Accounts!TabRecord
      /\ store'.user = Accounts!Nobody /\ (store.ready => store'.ready)
  BY DEF FrameInv, Accounts!SessionTypes, Accounts!ClearUser
<1>4. store'.ready /\ \A t \in Slots : requests'[t].kind # "boot"
  <2>1. CASE store.ready
    BY <1>1, <1>3, <2>1, NoRequestFacts DEF FrameInv, Accounts!FitsTab
  <2>2. CASE ~store.ready
    <3>1. s = Accounts!FirstSlot /\ requests[s].kind = "boot"
      BY <2>2, NoRequestFacts DEF FrameInv, Accounts!FitsTab
    <3>2. QED
      BY <1>1, <2>2, <3>1, NoRequestFacts DEF FrameInv, Accounts!FitsTab
  <2>3. QED
    BY <2>1, <2>2
<1>5. \A j : Accounts!Authentic(j)' <=> Accounts!Authentic(j)
  BY DEF Accounts!Authentic
<1>6. Accounts!SessionTypes'
  BY <1>1, <1>2, <1>3 DEF FrameInv, Accounts!SessionTypes
<1>7. Accounts!AllIssued'
  BY <1>1, <1>2, NoRequestFacts DEF FrameInv, Accounts!AllIssued, Accounts!Issued
<1>8. Accounts!OneAccount'
  BY <1>2, <1>3 DEF FrameInv, Accounts!OneAccount
<1>9. Accounts!FitsTab'
  BY <1>1, <1>3, <1>4, NoRequestFacts DEF FrameInv, Accounts!FitsTab
<1>10. Accounts!FitsServer'
  BY <1>1, <1>5, NoRequestFacts DEF FrameInv, Accounts!FitsServer
<1>11. Accounts!LeftoversRefused'
  BY <1>1, <1>3, <1>5, NoRequestFacts DEF FrameInv, Accounts!LeftoversRefused
<1>12. Accounts!NothingAccepted'
  <2>1. \A t \in Slots : Accounts!Revoked(t)' => Accounts!Revoked(t) /\ t # s
    BY <1>1, NoRequestFacts DEF Accounts!Revoked
  <2>2. QED
    BY <1>1, <1>2, <1>3, <1>5, <2>1, NoRequestFacts DEF FrameInv, Accounts!NothingAccepted
<1>13. Accounts!RevokedHasCause'
  BY <1>1, <1>5, NoRequestFacts DEF FrameInv, Accounts!RevokedHasCause
<1>14. QED
  BY <1>6, <1>7, <1>8, <1>9, <1>10, <1>11, <1>12, <1>13 DEF FrameInv

LEMMA LoggedOutFrame ==
    ASSUME FrameInv, NEW s \in Slots, Accounts!LoggedOut(s)
    PROVE  FrameInv' /\ store'.user = Accounts!Nobody /\ store'.data = {}
<1> DEFINE r == IF store.me THEN [Accounts!Ask("me", Accounts!Nobody) EXCEPT !.cached = FALSE] ELSE Accounts!NoRequest
<1>1. Accounts!Revoked(s) /\ requests[s].kind = "logout"
  BY DEF Accounts!LoggedOut, Accounts!Answered, Accounts!Revoked
<1>2. /\ r \in Accounts!RequestRecord /\ r.kind \in {"me", "none"} /\ r.answer = "none"
      /\ r.made = Accounts!NoJwt
      /\ r.jwt \in {Accounts!Credential(jar), Accounts!NoJwt}
      /\ (r.kind = "none" => r = Accounts!NoRequest)
      /\ r.cached = FALSE
  BY CredentialFacts, NoRequestFacts, JwtFacts DEF FrameInv, Accounts!Ask, Accounts!NoRequest,
     Accounts!RequestRecord
<1>3. requests' = [Accounts!Forget EXCEPT ![s] = r]
  BY DEF Accounts!LoggedOut
<1> HIDE DEF r
<1>4. /\ requests' \in [Slots -> Accounts!RequestRecord] /\ requests'[s] = r
      /\ \A t \in Slots \ {s} :
            /\ requests'[t].kind = requests[t].kind /\ requests'[t].login = requests[t].login
            /\ requests'[t].jwt = requests[t].jwt /\ requests'[t].answer = requests[t].answer
            /\ requests'[t].made = requests[t].made /\ requests'[t].cached = FALSE
            /\ (requests[t] = Accounts!NoRequest => requests'[t] = Accounts!NoRequest)
  BY <1>2, <1>3, ForgetFacts DEF FrameInv
<1>5. jar' = [token |-> Accounts!NoJwt, cookie |-> Accounts!NoJwt]
  BY DEF Accounts!LoggedOut, Accounts!SetCookie, FrameInv, Accounts!OneAccount
<1>6. /\ store' \in Accounts!TabRecord
      /\ store'.user = Accounts!Nobody /\ store'.ready = store.ready /\ store'.data = {}
  BY DEF FrameInv, Accounts!SessionTypes, Accounts!ClearUser, Accounts!LoggedOut
<1>7. /\ UNCHANGED <<version, gateway, causes>>
      /\ \A j : Accounts!Authentic(j)' <=> Accounts!Authentic(j)
  BY DEF Accounts!LoggedOut, Accounts!Authentic
<1>8. \A t \in Slots : ~Accounts!Authentic(requests'[t].jwt)
  BY <1>1, <1>2, <1>4, CredentialFacts, NoRequestFacts DEF FrameInv, Accounts!NothingAccepted
<1>9. store.ready /\ store.user # Accounts!Nobody
  BY <1>1 DEF FrameInv, Accounts!FitsTab
<1>10. Accounts!SessionTypes'
  BY <1>4, <1>5, <1>6, <1>7, JwtFacts DEF FrameInv, Accounts!SessionTypes
<1>11. Accounts!AllIssued'
  BY <1>2, <1>4, <1>5, <1>7, CredentialFacts DEF FrameInv, Accounts!AllIssued, Accounts!Issued
<1>12. Accounts!OneAccount'
  BY <1>5, <1>6 DEF Accounts!OneAccount
<1>13. Accounts!FitsTab'
  BY <1>1, <1>2, <1>4, <1>6, <1>7, <1>9 DEF FrameInv, Accounts!FitsTab
<1>14. Accounts!FitsServer'
  BY <1>2, <1>4, <1>7 DEF FrameInv, Accounts!FitsServer
<1>15. Accounts!LeftoversRefused'
  BY <1>7, <1>8 DEF Accounts!LeftoversRefused
<1>16. Accounts!NothingAccepted'
  <2>1. \A t \in Slots : ~Accounts!Revoked(t)'
    BY <1>1, <1>2, <1>4 DEF FrameInv, Accounts!NothingAccepted, Accounts!Revoked
  <2>2. QED
    BY <2>1 DEF Accounts!NothingAccepted
<1>17. Accounts!RevokedHasCause'
  BY <1>2, <1>4, <1>7 DEF FrameInv, Accounts!RevokedHasCause
<1>18. QED
  BY <1>6, <1>10, <1>11, <1>12, <1>13, <1>14, <1>15, <1>16, <1>17 DEF FrameInv

LEMMA BootAnsweredFrame ==
    ASSUME FrameInv, NEW s \in Slots, Accounts!BootAnswered(s)
    PROVE  FrameInv' /\ store.user = Accounts!Nobody /\ store'.data = store.data
<1> DEFINE j == requests[s].jwt
<1>1. /\ ~store.ready /\ store.user = Accounts!Nobody /\ j = Accounts!Credential(jar)
      /\ s = Accounts!FirstSlot
      /\ \A t \in Slots \ {s} : requests[t] = Accounts!NoRequest
  BY NoRequestFacts DEF Accounts!BootAnswered, Accounts!Answered, FrameInv, Accounts!FitsTab
<1>2. j \in Accounts!Jwts /\ j # Accounts!NoJwt /\ j.user \in Logins
  BY <1>1, JwtFacts DEF Accounts!BootAnswered, Accounts!Answered, FrameInv, Accounts!FitsServer,
     Accounts!SessionTypes, Accounts!RequestRecord
<1>3. /\ requests' \in [Slots -> Accounts!RequestRecord]
      /\ \A t \in Slots : requests'[t] = Accounts!NoRequest
  BY <1>1, RequestWritten, NoRequestFacts DEF Accounts!BootAnswered, Accounts!Done, FrameInv
<1>4. /\ store' \in Accounts!TabRecord
      /\ store'.ready /\ store'.user = j.user /\ store'.data = store.data
  BY <1>2 DEF Accounts!BootAnswered, FrameInv, Accounts!SessionTypes
<1>5. UNCHANGED <<version, gateway, jar>>
  BY DEF Accounts!BootAnswered
<1>6. Accounts!SessionTypes'
  BY <1>3, <1>4, <1>5 DEF FrameInv, Accounts!SessionTypes
<1>7. Accounts!AllIssued'
  BY <1>3, <1>5, NoRequestFacts DEF FrameInv, Accounts!AllIssued, Accounts!Issued
<1>8. Accounts!OneAccount'
  BY <1>1, <1>2, <1>4, <1>5, JwtFacts DEF FrameInv, Accounts!OneAccount, Accounts!Credential,
     Accounts!SessionTypes
<1>9. /\ Accounts!FitsTab' /\ Accounts!FitsServer' /\ Accounts!LeftoversRefused'
      /\ Accounts!RevokedHasCause'
  BY <1>3, <1>4, NoRequestFacts DEF Accounts!FitsTab, Accounts!FitsServer,
     Accounts!LeftoversRefused, Accounts!RevokedHasCause
<1>10. Accounts!NothingAccepted'
  BY <1>3, NoRequestFacts DEF Accounts!NothingAccepted, Accounts!Revoked
<1>11. QED
  BY <1>1, <1>4, <1>6, <1>7, <1>8, <1>9, <1>10 DEF FrameInv

LEMMA LoggedInFrame ==
    ASSUME FrameInv, NEW s \in Slots, Accounts!LoggedIn(s)
    PROVE  /\ FrameInv' /\ store.user = Accounts!Nobody /\ store'.data = store.data
           /\ store'.user = requests[s].made.user /\ Accounts!Credential(jar)' = requests[s].made
<1> DEFINE r == requests[s]
<1>1. /\ r \in Accounts!RequestRecord /\ r.kind = "login" /\ r.answer = "ok"
      /\ r.made.user = r.login
      /\ r.login \in Logins /\ store.user = Accounts!Nobody
  BY DEF Accounts!LoggedIn, Accounts!Answered, FrameInv, Accounts!FitsTab, Accounts!FitsServer,
     Accounts!SessionTypes, Accounts!RequestRecord
<1>2. r.made \in Accounts!Jwts /\ r.made # Accounts!NoJwt
  BY <1>1, JwtFacts, SessionAssumed DEF Accounts!RequestRecord
<1>3. store.ready
  BY <1>1, NoRequestFacts DEF FrameInv, Accounts!FitsTab
<1>4. /\ requests' \in [Slots -> Accounts!RequestRecord] /\ requests'[s] = Accounts!NoRequest
      /\ \A t \in Slots \ {s} : requests'[t] = requests[t]
  BY RequestWritten, NoRequestFacts DEF Accounts!LoggedIn, Accounts!Done, FrameInv
<1>5. /\ jar' = [token |-> r.made, cookie |-> Accounts!SetCookie(r.made)]
      /\ Accounts!SetCookie(r.made) \in {Accounts!NoJwt, r.made}
      /\ (gateway => Accounts!SetCookie(r.made) = Accounts!NoJwt)
  BY DEF Accounts!LoggedIn, Accounts!SetCookie, FrameInv, Accounts!OneAccount
<1>6. /\ store' \in Accounts!TabRecord
      /\ store'.ready /\ store'.user = r.login /\ store'.data = store.data
  BY <1>1, <1>3 DEF Accounts!LoggedIn, FrameInv, Accounts!SessionTypes
<1>7. UNCHANGED <<version, gateway>> /\ \A j : Accounts!Authentic(j)' <=> Accounts!Authentic(j)
  BY DEF Accounts!LoggedIn, Accounts!Authentic
<1>8. \A t \in Slots : requests[t].jwt \in Accounts!Jwts
  BY DEF FrameInv, Accounts!SessionTypes, Accounts!RequestRecord
<1>9. \A t \in Slots : ~Accounts!Revoked(t)
  BY <1>1, <1>8, JwtFacts DEF FrameInv, Accounts!NothingAccepted, Accounts!FitsServer,
     Accounts!Revoked
<1>10. \A t \in Slots \ {s} : requests[t].kind \notin {"boot", "login", "logout"}
  BY <1>1, <1>3 DEF FrameInv, Accounts!FitsTab
<1>11. \A t \in Slots : requests[t].kind \in {"query", "logout", "password", "me"}
                         => ~Accounts!Authentic(requests[t].jwt)
  BY <1>1, <1>8, JwtFacts DEF FrameInv, Accounts!LeftoversRefused, Accounts!Authentic
<1>12. Accounts!SessionTypes'
  BY <1>2, <1>4, <1>5, <1>6, <1>7, JwtFacts DEF FrameInv, Accounts!SessionTypes
<1>13. Accounts!AllIssued'
  BY <1>4, <1>5, <1>7, NoRequestFacts DEF FrameInv, Accounts!AllIssued, Accounts!Issued
<1>14. Accounts!OneAccount'
  BY <1>1, <1>5, <1>6, <1>7, JwtFacts DEF Accounts!OneAccount
<1>15. Accounts!FitsTab'
  <2>1. \A t \in Slots \ {s} : ~(requests[t].kind = "query" /\ requests[t].cached)
    BY <1>1 DEF FrameInv, Accounts!FitsTab
  <2>2. QED
    BY <1>4, <1>6, <1>10, <2>1, NoRequestFacts DEF FrameInv, Accounts!FitsTab
<1>16. Accounts!FitsServer'
  BY <1>4, <1>7, NoRequestFacts DEF FrameInv, Accounts!FitsServer
<1>17. Accounts!LeftoversRefused'
  BY <1>4, <1>7, <1>11, NoRequestFacts DEF Accounts!LeftoversRefused
<1>18. Accounts!NothingAccepted'
  <2>1. \A t \in Slots : ~Accounts!Revoked(t)'
    BY <1>4, <1>9, NoRequestFacts DEF Accounts!Revoked
  <2>2. QED
    BY <2>1 DEF Accounts!NothingAccepted
<1>19. Accounts!RevokedHasCause'
  BY <1>4, <1>10, NoRequestFacts DEF Accounts!RevokedHasCause
<1>20. Accounts!Credential(jar)' = r.made
  BY <1>2, <1>5 DEF Accounts!Credential
<1>21. QED
  BY <1>1, <1>6, <1>12, <1>13, <1>14, <1>15, <1>16, <1>17, <1>18, <1>19, <1>20 DEF FrameInv

LEMMA PasswordChangedFrame ==
    ASSUME FrameInv, NEW s \in Slots, Accounts!PasswordChanged(s)
    PROVE  FrameInv' /\ causes' # {}
<1> DEFINE r == requests[s]
<1>1. /\ r \in Accounts!RequestRecord /\ r.kind = "password" /\ r.answer = "ok"
      /\ r.jwt # Accounts!NoJwt
      /\ Accounts!Revoked(s) /\ r.made.user = r.jwt.user
  BY DEF Accounts!PasswordChanged, Accounts!Answered, FrameInv, Accounts!FitsServer,
     Accounts!SessionTypes, Accounts!RequestRecord, Accounts!Revoked
<1>2. r.jwt.user = store.user /\ causes # {} /\ r.made \in Accounts!Jwts
  BY <1>1 DEF FrameInv, Accounts!NothingAccepted, Accounts!RequestRecord
<1>3. store.user # Accounts!Nobody /\ store.ready
  BY <1>1, <1>2, JwtFacts DEF FrameInv, Accounts!FitsTab, Accounts!RequestRecord
<1>4. /\ requests' \in [Slots -> Accounts!RequestRecord] /\ requests'[s] = Accounts!NoRequest
      /\ \A t \in Slots \ {s} : requests'[t] = requests[t]
  BY RequestWritten, NoRequestFacts DEF Accounts!PasswordChanged, Accounts!Done, FrameInv
<1>5. /\ UNCHANGED <<version, gateway, store, causes>> /\ (\A j : Accounts!Authentic(j)' <=> Accounts!Authentic(j))
      /\ jar' = [jar EXCEPT !.cookie = Accounts!SetCookie(r.made)]
  BY DEF Accounts!PasswordChanged, Accounts!Authentic
<1>6. /\ jar' \in [token : Accounts!Jwts, cookie : Accounts!Jwts] /\ jar'.token = jar.token
      /\ jar'.cookie \in {r.made, jar.cookie} /\ (gateway => jar'.cookie = jar.cookie)
  BY <1>2, <1>5 DEF FrameInv, Accounts!SessionTypes, Accounts!SetCookie
<1>7. \A t \in Slots : requests'[t].kind # "boot" /\ ~Accounts!Revoked(t)'
  BY <1>1, <1>3, <1>4, NoRequestFacts DEF FrameInv, Accounts!FitsTab, Accounts!NothingAccepted,
     Accounts!Revoked
<1>8. Accounts!SessionTypes'
  BY <1>4, <1>5, <1>6 DEF FrameInv, Accounts!SessionTypes
<1>9. Accounts!AllIssued'
  BY <1>4, <1>5, <1>6, NoRequestFacts DEF FrameInv, Accounts!AllIssued, Accounts!Issued
<1>10. Accounts!OneAccount'
  BY <1>1, <1>2, <1>3, <1>5, <1>6, JwtFacts DEF FrameInv, Accounts!OneAccount,
     Accounts!SessionTypes
<1>11. Accounts!FitsTab'
  BY <1>3, <1>4, <1>5, <1>7, NoRequestFacts DEF FrameInv, Accounts!FitsTab
<1>12. Accounts!FitsServer' /\ Accounts!LeftoversRefused' /\ Accounts!RevokedHasCause'
  BY <1>4, <1>5, NoRequestFacts DEF FrameInv, Accounts!FitsServer, Accounts!LeftoversRefused,
     Accounts!RevokedHasCause
<1>13. Accounts!NothingAccepted'
  BY <1>7 DEF Accounts!NothingAccepted
<1>14. QED
  BY <1>2, <1>5, <1>8, <1>9, <1>10, <1>11, <1>12, <1>13 DEF FrameInv

\* FrameInv by the kind of step: what a request does, what the server does, what
\* an answer does.
LEMMA SessionRequestStep ==
    ASSUME FrameInv,
           Accounts!Reload \/ Accounts!Query \/ Accounts!Logout \/ Accounts!ChangePassword \/ \E u \in Logins : Accounts!Login(u)
    PROVE  FrameInv'
<1>1. store.user # Accounts!Nobody => store.ready
  BY DEF FrameInv, Accounts!FitsTab
<1>2. CASE Accounts!Reload
  BY <1>2, LoadFrame DEF Accounts!Reload
<1>3. CASE Accounts!Query
  BY <1>1, <1>3, Sent DEF Accounts!Query
<1>4. CASE Accounts!Logout
  BY <1>1, <1>4, Sent DEF Accounts!Logout
<1>5. CASE Accounts!ChangePassword
  BY <1>1, <1>5, Sent DEF Accounts!ChangePassword
<1>6. ASSUME NEW u \in Logins, Accounts!Login(u) PROVE FrameInv'
  BY <1>6, SessionAssumed, Sent DEF Accounts!Login
<1>7. QED
  BY <1>2, <1>3, <1>4, <1>5, <1>6

LEMMA SessionServerStep ==
    ASSUME FrameInv, NEW s \in Slots, Accounts!Refuse(s) \/ Accounts!Serve(s) \/ Accounts!Fail(s)
    PROVE  FrameInv'
<1>1. CASE Accounts!Refuse(s)
  BY <1>1, Judged, JwtFacts DEF Accounts!Refuse, Accounts!Answer, Accounts!Issued
<1>2. CASE Accounts!Fail(s)
  BY <1>2, Judged, JwtFacts DEF Accounts!Fail, Accounts!Answer, Accounts!Issued
<1>3. CASE Accounts!Serve(s) /\ requests[s].kind \in {"logout", "password"}
  BY <1>3, RevokeFrame
<1>4. CASE Accounts!Serve(s) /\ requests[s].kind = "login"
  <2> DEFINE l == requests[s].login
             m == [user |-> l, version |-> version[l]]
  <2>1. l \in Logins
    BY <1>4 DEF FrameInv, Accounts!FitsTab, Accounts!SessionTypes, Accounts!RequestRecord
  <2>2. version[l] \in Nat
    BY <2>1 DEF FrameInv, Accounts!SessionTypes
  <2>3. /\ m \in Accounts!Jwts /\ m # Accounts!NoJwt /\ Accounts!Issued(m)
        /\ Accounts!Authentic(m) /\ m.user = l
    BY <2>1, <2>2, SessionAssumed, JwtFacts DEF Accounts!Jwts, Accounts!Issued, Accounts!Authentic
  <2>4. /\ UNCHANGED <<version, gateway, jar, store, causes>>
        /\ requests' = [requests EXCEPT ![s].answer = "ok", ![s].made = m]
    BY <1>4 DEF Accounts!Serve, Accounts!Answer
  <2> HIDE DEF m
  <2>5. QED
    BY <1>4, <2>3, <2>4, Judged
<1>5. CASE Accounts!Serve(s) /\ requests[s].kind \notin {"logout", "password", "login"}
  <2>1. /\ UNCHANGED <<version, gateway, jar, store, causes>>
        /\ Accounts!Authentic(requests[s].jwt)
        /\ requests' = [requests EXCEPT ![s].answer = "ok", ![s].made = Accounts!NoJwt]
    BY <1>5 DEF Accounts!Serve, Accounts!Answer
  <2>2. QED
    BY <1>5, <2>1, Judged, JwtFacts DEF Accounts!Serve, Accounts!Issued
<1>6. QED
  BY <1>1, <1>2, <1>3, <1>4, <1>5

LEMMA SessionAnswerStep ==
    ASSUME FrameInv, NEW s \in Slots,
           \/ Accounts!BootAnswered(s) \/ Accounts!BootRefused(s) \/ Accounts!BootFailed(s)
           \/ Accounts!QueryAnswered(s) \/ Accounts!MeAnswered(s) \/ Accounts!ErrorAnswered(s)
           \/ Accounts!Unauthorized(s) \/ Accounts!RefusedInPlace(s)
           \/ Accounts!LoggedIn(s) \/ Accounts!LoggedOut(s) \/ Accounts!LogoutFailed(s) \/ Accounts!PasswordChanged(s)
    PROVE  FrameInv'
<1>1. /\ store = [store EXCEPT !.data = store.data] /\ store.data \in SUBSET Logins
      /\ requests[s].jwt \in Accounts!Jwts
  BY DEF FrameInv, Accounts!SessionTypes, Accounts!RequestRecord
<1>2. requests[s].kind = "boot" => store.user = Accounts!Nobody
  BY DEF FrameInv, Accounts!FitsTab
<1>3. CASE Accounts!BootRefused(s) \/ Accounts!BootFailed(s)
  <2>1. store' = [Accounts!ClearUser EXCEPT !.ready = TRUE] /\ store'.ready
    BY <1>3 DEF Accounts!BootRefused, Accounts!BootFailed, Accounts!ClearUser, FrameInv,
       Accounts!SessionTypes
  <2>2. QED
    BY <1>2, <1>3, <2>1, GuestFrame DEF Accounts!BootRefused, Accounts!BootFailed,
       Accounts!Answered
<1>4. CASE Accounts!MeAnswered(s) \/ Accounts!ErrorAnswered(s) \/ Accounts!RefusedInPlace(s) \/ Accounts!LogoutFailed(s)
  BY <1>1, <1>4, TakenAway DEF Accounts!MeAnswered, Accounts!ErrorAnswered,
     Accounts!RefusedInPlace, Accounts!LogoutFailed, Accounts!Answered, Accounts!Done
<1>5. CASE Accounts!QueryAnswered(s)
  <2>1. requests[s].jwt.user \in Logins
    BY <1>1, <1>5, JwtFacts DEF Accounts!QueryAnswered, Accounts!Answered, FrameInv,
       Accounts!FitsServer
  <2>2. PICK d \in SUBSET Logins : store' = [store EXCEPT !.data = d]
    BY <1>1, <1>5, <2>1 DEF Accounts!QueryAnswered
  <2>3. QED
    BY <1>5, <2>2, TakenAway DEF Accounts!QueryAnswered, Accounts!Answered, Accounts!Done
<1>6. CASE Accounts!Unauthorized(s) /\ store.user = Accounts!Nobody
  BY <1>6, GuestFrame DEF Accounts!Unauthorized
<1>7. CASE Accounts!Unauthorized(s) /\ store.user # Accounts!Nobody
  BY <1>7, LoadFrame DEF Accounts!Unauthorized
<1>8. QED
  BY <1>3, <1>4, <1>5, <1>6, <1>7, BootAnsweredFrame, LoggedInFrame, LoggedOutFrame,
     PasswordChangedFrame

LEMMA FrameStep ==
    ASSUME FrameInv, Accounts!SessionNext
    PROVE  FrameInv'
BY SessionRequestStep, SessionServerStep, SessionAnswerStep, ElsewhereFrame
   DEF Accounts!SessionNext

\* A 401 leaves a guest and no answer in the cache.
LEMMA UnauthorizedTab ==
    ASSUME Accounts!SessionTypes, NEW s \in Slots, Accounts!Unauthorized(s)
    PROVE  store'.user = Accounts!Nobody /\ store'.data = {}
<1>1. CASE store.user = Accounts!Nobody
  <2>1. store' = Accounts!ClearUser
    BY <1>1 DEF Accounts!Unauthorized
  <2>2. QED
    BY <2>1 DEF Accounts!ClearUser, Accounts!SessionTypes
<1>2. CASE store.user # Accounts!Nobody
  <2>1. Accounts!Load(Accounts!WithoutToken)
    BY <1>2 DEF Accounts!Unauthorized
  <2>2. QED
    BY <2>1 DEF Accounts!Load, Accounts!Loaded
<1>3. QED
  BY <1>1, <1>2

\* The answer to a query that is cached is of the user who is logged in; whoever
\* logs in or is found logged in finds the cache empty.
LEMMA CacheStep ==
    ASSUME FrameInv, Accounts!CacheOfUser, Accounts!SessionNext
    PROVE  Accounts!CacheOfUser'
<1>1. store.user = Accounts!Nobody => store.data = {}
  BY SessionAssumed DEF FrameInv, Accounts!SessionTypes, Accounts!CacheOfUser
<1>2. CASE UNCHANGED store
  BY <1>2 DEF Accounts!CacheOfUser
<1>3. CASE Accounts!Reload
  BY <1>3, LoadFrame DEF Accounts!Reload, Accounts!CacheOfUser
<1>4. ASSUME NEW s \in Slots, Accounts!BootAnswered(s) \/ Accounts!LoggedIn(s)
      PROVE  Accounts!CacheOfUser'
  BY <1>1, <1>4, BootAnsweredFrame, LoggedInFrame DEF Accounts!CacheOfUser
<1>5. ASSUME NEW s \in Slots,
             Accounts!BootRefused(s) \/ Accounts!BootFailed(s) \/ Accounts!LoggedOut(s)
      PROVE  Accounts!CacheOfUser'
  <2>1. store'.data = {}
    BY <1>5 DEF Accounts!BootRefused, Accounts!BootFailed, Accounts!LoggedOut, Accounts!ClearUser,
       FrameInv, Accounts!SessionTypes
  <2>2. QED
    BY <2>1 DEF Accounts!CacheOfUser
<1>6. ASSUME NEW s \in Slots, Accounts!Unauthorized(s) PROVE Accounts!CacheOfUser'
  BY <1>6, UnauthorizedTab DEF FrameInv, Accounts!CacheOfUser
<1>7. ASSUME NEW s \in Slots, Accounts!QueryAnswered(s), requests[s].cached
      PROVE  Accounts!CacheOfUser'
  <2>1. requests[s].jwt.user = store.user
    BY <1>7, JwtFacts DEF Accounts!QueryAnswered, Accounts!Answered, FrameInv, Accounts!FitsTab,
       Accounts!FitsServer, Accounts!SessionTypes, Accounts!RequestRecord
  <2>2. store'.user = store.user /\ store'.data = store.data \cup {store.user}
    BY <1>7, <2>1 DEF Accounts!QueryAnswered, FrameInv, Accounts!SessionTypes
  <2>3. QED
    BY <2>2 DEF Accounts!CacheOfUser
<1>8. ASSUME NEW s \in Slots, Accounts!QueryAnswered(s), ~requests[s].cached
      PROVE  Accounts!CacheOfUser'
  BY <1>8 DEF Accounts!QueryAnswered, Accounts!CacheOfUser
<1>9. QED
  BY <1>2, <1>3, <1>4, <1>5, <1>6, <1>7, <1>8 DEF Accounts!SessionNext, Accounts!Query,
     Accounts!Logout, Accounts!ChangePassword, Accounts!Login, Accounts!Elsewhere,
     Accounts!Refuse, Accounts!Serve, Accounts!Fail, Accounts!MeAnswered, Accounts!ErrorAnswered,
     Accounts!RefusedInPlace, Accounts!LogoutFailed, Accounts!PasswordChanged

\* While nothing has ended the session, what the tab holds is replaced by a new
\* login's token only, and no answer clears it.
LEMMA LastsStep ==
    ASSUME FrameInv, Accounts!SessionLasts, Accounts!SessionNext
    PROVE  Accounts!SessionLasts'
<1>1. CASE store'.user = store.user /\ UNCHANGED <<version, jar>> /\ causes \subseteq causes'
  BY <1>1 DEF Accounts!SessionLasts, Accounts!Credential, Accounts!Authentic
<1>2. CASE causes' # {} \/ store'.user = Accounts!Nobody
  BY <1>2 DEF Accounts!SessionLasts
<1>3. CASE Accounts!Reload
  BY <1>2, <1>3, LoadFrame DEF Accounts!Reload
<1>4. CASE Accounts!Query \/ Accounts!ChangePassword \/ \E u \in Logins : Accounts!Login(u)
  BY <1>1, <1>4 DEF Accounts!Query, Accounts!ChangePassword, Accounts!Login
<1>5. CASE Accounts!Logout \/ \E u \in Logins : Accounts!Elsewhere(u)
  BY <1>2, <1>5 DEF Accounts!Logout, Accounts!Elsewhere
<1>6. ASSUME NEW s \in Slots, Accounts!BootAnswered(s) PROVE Accounts!SessionLasts'
  <2> DEFINE j == requests[s].jwt
  <2>1. /\ j = Accounts!Credential(jar) /\ Accounts!Credential(jar)' = Accounts!Credential(jar)
        /\ store'.user = j.user
    BY <1>6 DEF Accounts!BootAnswered, Accounts!Answered, FrameInv, Accounts!FitsTab,
       Accounts!SessionTypes, Accounts!Credential
  <2>2. \A x : Accounts!Authentic(x)' <=> Accounts!Authentic(x)
    BY <1>6 DEF Accounts!BootAnswered, Accounts!Authentic
  <2>3. ~Accounts!Authentic(j) => causes' # {}
    BY <1>6 DEF Accounts!BootAnswered, Accounts!Answered, Accounts!Begun, FrameInv,
       Accounts!RevokedHasCause
  <2>4. QED
    BY <2>1, <2>2, <2>3 DEF Accounts!SessionLasts
<1>7. ASSUME NEW s \in Slots,
             Accounts!BootRefused(s) \/ Accounts!BootFailed(s) \/ Accounts!LoggedOut(s)
      PROVE  Accounts!SessionLasts'
  <2>1. store'.user = Accounts!Nobody
    BY <1>7 DEF Accounts!BootRefused, Accounts!BootFailed, Accounts!LoggedOut, Accounts!ClearUser,
       FrameInv, Accounts!SessionTypes
  <2>2. QED
    BY <1>2, <2>1
<1>8. ASSUME NEW s \in Slots, Accounts!Unauthorized(s) PROVE Accounts!SessionLasts'
  BY <1>2, <1>8, UnauthorizedTab DEF FrameInv
<1>9. ASSUME NEW s \in Slots,
             Accounts!Refuse(s) \/ Accounts!Fail(s) \/ Accounts!MeAnswered(s) \/ Accounts!ErrorAnswered(s)
      PROVE  Accounts!SessionLasts'
  BY <1>1, <1>9 DEF Accounts!Refuse, Accounts!Fail, Accounts!MeAnswered, Accounts!ErrorAnswered
<1>10. ASSUME NEW s \in Slots, Accounts!Serve(s) PROVE Accounts!SessionLasts'
  <2>1. CASE requests[s].kind \in {"logout", "password"}
    BY <1>2, <1>10, <2>1, RevokeFrame
  <2>2. CASE requests[s].kind \notin {"logout", "password"}
    BY <1>1, <1>10, <2>2 DEF Accounts!Serve
  <2>3. QED
    BY <2>1, <2>2
<1>11. ASSUME NEW s \in Slots, Accounts!QueryAnswered(s) PROVE Accounts!SessionLasts'
  <2>1. store'.user = store.user
    BY <1>11 DEF Accounts!QueryAnswered, FrameInv, Accounts!SessionTypes
  <2>2. QED
    BY <1>1, <1>11, <2>1 DEF Accounts!QueryAnswered
<1>12. ASSUME NEW s \in Slots, Accounts!RefusedInPlace(s) PROVE Accounts!SessionLasts'
  <2>1. CASE requests[s].jwt # Accounts!Credential(jar) \/ causes # {} \/ store.user = Accounts!Nobody
    BY <1>2, <1>12, <2>1 DEF Accounts!RefusedInPlace, Accounts!Late
  <2>2. CASE requests[s].jwt = Accounts!Credential(jar) /\ causes = {} /\ store.user # Accounts!Nobody
    <3>1. requests[s].kind # "login" /\ requests[s].answer = "401"
      BY <1>12, <2>2 DEF Accounts!RefusedInPlace, FrameInv, Accounts!FitsTab
    <3>2. ~Accounts!Authentic(requests[s].jwt)
      BY <3>1 DEF FrameInv, Accounts!FitsServer
    <3>3. QED
      BY <2>2, <3>2 DEF Accounts!SessionLasts
  <2>3. QED
    BY <2>1, <2>2
<1>13. ASSUME NEW s \in Slots, Accounts!LoggedIn(s) PROVE Accounts!SessionLasts'
  <2> DEFINE j == requests[s].made
  <2>1. Accounts!Credential(jar)' = j /\ store'.user = j.user
    BY <1>13, LoggedInFrame
  <2>2. \A x : Accounts!Authentic(x)' <=> Accounts!Authentic(x)
    BY <1>13 DEF Accounts!LoggedIn, Accounts!Authentic
  <2>3. ~Accounts!Authentic(j) => causes' # {}
    BY <1>13 DEF Accounts!LoggedIn, Accounts!Answered, Accounts!Begun, FrameInv,
       Accounts!RevokedHasCause
  <2>4. QED
    BY <2>1, <2>2, <2>3 DEF Accounts!SessionLasts
<1>14. ASSUME NEW s \in Slots, Accounts!LogoutFailed(s) \/ Accounts!PasswordChanged(s)
       PROVE  Accounts!SessionLasts'
  <2>1. causes' # {}
    BY <1>14, PasswordChangedFrame DEF Accounts!LogoutFailed, Accounts!Answered, FrameInv,
       Accounts!FitsTab
  <2>2. QED
    BY <1>2, <2>1
<1>15. QED
  BY <1>3, <1>4, <1>5, <1>6, <1>7, <1>8, <1>9, <1>10, <1>11, <1>12, <1>13, <1>14
     DEF Accounts!SessionNext

LEMMA SessionStart == Accounts!SessionInit => Accounts!SessionInv
<1> SUFFICES ASSUME Accounts!SessionInit PROVE Accounts!SessionInv
  OBVIOUS
<1> DEFINE r == [Accounts!NoRequest EXCEPT !.kind = "boot", !.jwt = Accounts!Credential(jar), !.cached = TRUE]
<1>1. /\ version \in [Logins -> Nat] /\ gateway \in BOOLEAN
      /\ jar \in [token : Accounts!Jwts, cookie : Accounts!Jwts]
      /\ jar.token = Accounts!NoJwt /\ jar.cookie = Accounts!NoJwt
      /\ Accounts!Credential(jar) = Accounts!NoJwt
  BY JwtFacts DEF Accounts!SessionInit, Accounts!Credential
<1>2. /\ r \in Accounts!RequestRecord /\ r.kind = "boot" /\ r.jwt = Accounts!NoJwt
      /\ r.answer = "none" /\ r.made = Accounts!NoJwt
  BY <1>1, JwtFacts DEF Accounts!NoRequest, Accounts!RequestRecord
<1>3. requests = [s \in Slots |-> IF s = Accounts!FirstSlot THEN r ELSE Accounts!NoRequest]
  BY DEF Accounts!SessionInit, Accounts!FirstRequest
<1> HIDE DEF r
<1>4. /\ requests \in [Slots -> Accounts!RequestRecord] /\ requests[Accounts!FirstSlot] = r
      /\ \A t \in Slots \ {Accounts!FirstSlot} : requests[t] = Accounts!NoRequest
  BY <1>2, <1>3, FirstIsSlot, NoRequestFacts
<1>5. /\ ~store.ready /\ store.user = Accounts!Nobody /\ store.data = {}
      /\ store \in Accounts!TabRecord
  BY DEF Accounts!SessionInit, Accounts!Loaded
<1>6. Accounts!SessionTypes
  BY <1>1, <1>4, <1>5 DEF Accounts!SessionTypes
<1>7. Accounts!AllIssued
  BY <1>1, <1>2, <1>4, NoRequestFacts DEF Accounts!AllIssued, Accounts!Issued
<1>8. Accounts!OneAccount
  BY <1>1, <1>5 DEF Accounts!OneAccount
<1>9. Accounts!FitsTab
  BY <1>1, <1>2, <1>4, <1>5, NoRequestFacts DEF Accounts!FitsTab
<1>10. /\ Accounts!FitsServer /\ Accounts!LeftoversRefused /\ Accounts!NothingAccepted
       /\ Accounts!RevokedHasCause
  BY <1>2, <1>4, NoRequestFacts DEF Accounts!FitsServer, Accounts!LeftoversRefused,
     Accounts!NothingAccepted, Accounts!RevokedHasCause, Accounts!Revoked
<1>11. Accounts!CacheOfUser /\ Accounts!SessionLasts
  BY <1>5 DEF Accounts!CacheOfUser, Accounts!SessionLasts
<1>12. QED
  BY <1>6, <1>7, <1>8, <1>9, <1>10, <1>11 DEF Accounts!SessionInv

LEMMA SessionStep == Accounts!SessionInv /\ [Accounts!SessionNext]_sessionVars => Accounts!SessionInv'
<1> SUFFICES ASSUME Accounts!SessionInv,
[Accounts!SessionNext]_sessionVars PROVE Accounts!SessionInv'
  OBVIOUS
<1>1. FrameInv /\ Accounts!CacheOfUser /\ Accounts!SessionLasts
  BY DEF Accounts!SessionInv, FrameInv
<1>2. CASE Accounts!SessionNext
  BY <1>1, <1>2, FrameStep, CacheStep, LastsStep DEF Accounts!SessionInv, FrameInv
<1>3. CASE UNCHANGED sessionVars
  BY <1>3 DEF sessionVars, Accounts!SessionInv, Accounts!SessionTypes, Accounts!AllIssued,
     Accounts!Issued, Accounts!OneAccount, Accounts!FitsTab, Accounts!FitsServer,
     Accounts!LeftoversRefused, Accounts!NothingAccepted, Accounts!RevokedHasCause,
     Accounts!Revoked, Accounts!CacheOfUser, Accounts!SessionLasts, Accounts!Authentic,
     Accounts!Credential
<1>4. QED
  BY <1>2, <1>3

LEMMA VersionsStart == Accounts!SessionInit => Accounts!VersionsBounded
BY FrontendAssumption DEF FrontendAssumption, Accounts!SessionAssumption, Accounts!SessionInit,
   Accounts!VersionsBounded

\* Only Bump changes a version, and not beyond its bound.
LEMMA VersionsStep ==
    Accounts!VersionsBounded /\ [Accounts!SessionNext]_sessionVars => Accounts!VersionsBounded'
<1> SUFFICES ASSUME Accounts!VersionsBounded, [Accounts!SessionNext]_sessionVars
             PROVE  Accounts!VersionsBounded'
  OBVIOUS
<1>1. MaxVersion \in Nat
  BY FrontendAssumption DEF FrontendAssumption, Accounts!SessionAssumption
<1>2. UNCHANGED version \/ \E u : Accounts!Bump(u)
  BY DEF Accounts!SessionNext, sessionVars, Accounts!Reload, Accounts!BootAnswered,
     Accounts!BootRefused, Accounts!BootFailed, Accounts!Query, Accounts!Login, Accounts!Logout,
     Accounts!ChangePassword, Accounts!Refuse, Accounts!Serve, Accounts!Fail, Accounts!Elsewhere,
     Accounts!QueryAnswered, Accounts!MeAnswered, Accounts!ErrorAnswered, Accounts!Unauthorized,
     Accounts!RefusedInPlace, Accounts!LoggedIn, Accounts!LoggedOut, Accounts!LogoutFailed,
     Accounts!PasswordChanged
<1>3. ASSUME NEW u, Accounts!Bump(u)
      PROVE  Accounts!VersionsBounded'
  <2>1. version \in [Logins -> 0 .. MaxVersion] /\ version[u] < MaxVersion
        /\ version' = [version EXCEPT ![u] = version[u] + 1]
    BY <1>3 DEF Accounts!Bump, Accounts!VersionsBounded
  <2>2. u \in Logins => version[u] + 1 \in 0 .. MaxVersion
    BY <1>1, <2>1
  <2>3. QED
    BY <2>1, <2>2 DEF Accounts!VersionsBounded
<1>4. QED
  BY <1>2, <1>3 DEF Accounts!VersionsBounded

HIDE DEF Accounts!TabRecord, Accounts!Nobody

----------------------------------------------------------------------------
(* The pages of the repositories: Repo!RepoInv is inductive. *)

USE DEF Repo!ContentRecord, Repo!KnownRecord

LEMMA RepoAssumed ==
    /\ Repo!NoRepo \notin Repos /\ Edited \subseteq Repos
    /\ Fields \subseteq {"patterns", "limit", "threshold"}
BY FrontendAssumption DEF FrontendAssumption, Repo!RepositoryAssumption

LEMMA NoContentFacts ==
    /\ Repo!Default \in Repo!Settings
    /\ Repo!NoContent \in Repo!ContentRecord
    /\ Repo!NoContent.shown = Repo!NoRepo /\ Repo!NoContent.row = Repo!NoRepo
    /\ Repo!NoContent.dialog = "none"
    /\ Repo!NoContent.secret = Repo!NoRepo
    /\ Repo!NoCreation \in [linked : BOOLEAN, secret : BOOLEAN, made : Nat, lost : BOOLEAN]
    /\ ~Repo!NoCreation.secret /\ Repo!NoCreation.made = 0
BY DEF Repo!NoContent, Repo!Default, Repo!Settings, Repo!Values, Repo!NoCreation

LEMMA NoCallFacts ==
    /\ Repo!NoCall \in Repo!CallRecord /\ Repo!NoCall.kind = "none" /\ ~Repo!NoCall.live
    /\ Repo!NoCall.answer = "none"
    /\ Repo!NoCall.repo = Repo!NoRepo /\ Repo!NoCall.field = "none" /\ Repo!NoCall.value = 0
    /\ Repo!NoCall.named = Repo!NoRepo
BY DEF Repo!NoCall, Repo!CallRecord, Repo!PageNames, Repo!Values

\* A request that is sent takes a free place; the page has no other of its kind.
LEMMA CallFacts ==
    ASSUME Repo!RepoTypes, NEW call \in Repo!CallRecord, Repo!Call(call)
    PROVE  /\ calls' \in [Calls -> Repo!CallRecord]
           /\ \A j \in Calls : ~(calls[j].kind = call.kind /\ calls[j].live)
           /\ \E i \in Calls :
                 /\ calls[i] = Repo!NoCall /\ \A j \in Calls \ {i} : calls'[j] = calls[j]
                 /\ calls'[i].kind = call.kind /\ calls'[i].repo = call.repo
                 /\ calls'[i].field = call.field /\ calls'[i].value = call.value
                 /\ calls'[i].named = call.named /\ calls'[i].answer = call.answer
                 /\ calls'[i].live
                 /\ (calls'[i].early <=> route.page = "detail" /\ content.shown # route.repo)
<1> DEFINE r == [call EXCEPT !.live = TRUE, !.from = route.page,
                             !.early = route.page = "detail" /\ content.shown # route.repo]
<1>1. /\ r \in Repo!CallRecord /\ r.kind = call.kind /\ r.repo = call.repo /\ r.field = call.field
      /\ r.value = call.value /\ r.named = call.named /\ r.answer = call.answer /\ r.live
      /\ (r.early <=> route.page = "detail" /\ content.shown # route.repo)
  BY ZenonT(40) DEF Repo!RepoTypes, Repo!CallRecord, Repo!PageNames
<1>2. PICK i \in Calls : calls[i] = Repo!NoCall /\ calls' = [calls EXCEPT ![i] = r]
  BY DEF Repo!Call, Repo!Idle
<1> HIDE DEF r
<1>3. /\ calls' \in [Calls -> Repo!CallRecord] /\ calls'[i] = r
      /\ \A j \in Calls \ {i} : calls'[j] = calls[j]
  BY <1>1, <1>2 DEF Repo!RepoTypes
<1>4. \A j \in Calls : ~(calls[j].kind = call.kind /\ calls[j].live)
  BY DEF Repo!Call, Repo!Loading
<1>5. QED
  BY <1>1, <1>2, <1>3, <1>4

\* A request of the page: what it says is what the page shows.
LEMMA Asked ==
    ASSUME Repo!RepoInv, NEW call \in Repo!CallRecord, Repo!Call(call),
           UNCHANGED <<stored, route, known, content, creation>>,
           call.answer = "none", call.kind # "none",
           call.repo \in Repos \/ call.kind = "create",
           call.kind = "update" =>
               /\ call.field \in Fields \cup {"branches"}
               /\ call.field \in Fields => call.value = content.draft[call.field],
           call.kind = "create" => route.page = "new" /\ ~creation.secret,
           call.kind = "regenerate" => route.page = "detail" /\ call.repo = route.repo,
           call.kind = "delete" => call.named = call.repo \/ (route.page = "detail" /\ content.shown # route.repo)
    PROVE  Repo!RepoInv'
<1>1. /\ calls' \in [Calls -> Repo!CallRecord]
      /\ \A j \in Calls : ~(calls[j].kind = call.kind /\ calls[j].live)
  BY CallFacts DEF Repo!RepoInv
<1>2. PICK i \in Calls :
           /\ calls[i] = Repo!NoCall /\ \A j \in Calls \ {i} : calls'[j] = calls[j]
           /\ calls'[i].kind = call.kind /\ calls'[i].repo = call.repo
           /\ calls'[i].field = call.field /\ calls'[i].value = call.value
           /\ calls'[i].named = call.named /\ calls'[i].answer = call.answer
           /\ calls'[i].live
           /\ (calls'[i].early <=> route.page = "detail" /\ content.shown # route.repo)
  BY CallFacts DEF Repo!RepoInv
<1>3. Repo!RepoTypes'
  BY <1>1 DEF Repo!RepoInv, Repo!RepoTypes
<1>4. Repo!Mounted'
  BY DEF Repo!RepoInv, Repo!Mounted, Repo!Rows
<1>5. Repo!LiveFits'
  BY <1>1, <1>2 DEF Repo!RepoInv, Repo!LiveFits
<1>6. Repo!MadeOnce'
  <2>1. \A j \in Calls : calls[j].live /\ calls[j].kind = "create" => calls'[j] = calls[j]
    BY <1>2, NoCallFacts
  <2>2. creation.secret => \A j \in Calls : ~(calls'[j].live /\ calls'[j].kind = "create")
    BY <1>2 DEF Repo!RepoInv, Repo!MadeOnce
  <2>3. QED
    BY <2>1, <2>2 DEF Repo!RepoInv, Repo!MadeOnce
<1>7. Repo!CopyIsStored'
  BY <1>2, NoCallFacts DEF Repo!RepoInv, Repo!CopyIsStored, Repo!Cached
<1>8. Repo!DraftFits'
  BY <1>1, <1>2, NoCallFacts DEF Repo!RepoInv, Repo!DraftFits
<1>9. Repo!DeletedByName'
  BY <1>2 DEF Repo!RepoInv, Repo!DeletedByName
<1>10. Repo!SecretFitsPage'
  BY DEF Repo!RepoInv, Repo!SecretFitsPage
<1>11. QED
  BY <1>3, <1>4, <1>5, <1>6, <1>7, <1>8, <1>9, <1>10 DEF Repo!RepoInv

LEMMA AbandonFacts ==
    ASSUME Repo!RepoTypes, Repo!Abandon
    PROVE  /\ calls' \in [Calls -> Repo!CallRecord]
           /\ \A i \in Calls :
                 /\ calls'[i].kind = calls[i].kind /\ calls'[i].repo = calls[i].repo
                 /\ calls'[i].field = calls[i].field /\ calls'[i].value = calls[i].value
                 /\ calls'[i].named = calls[i].named /\ calls'[i].answer = calls[i].answer
                 /\ ~calls'[i].live
                 /\ (calls'[i].early <=> calls[i].early /\ calls[i].kind = "delete")
<1> DEFINE r(i) == [calls[i] EXCEPT !.live = FALSE, !.early = @ /\ calls[i].kind = "delete"]
<1>1. ASSUME NEW i \in Calls
      PROVE  /\ r(i) \in Repo!CallRecord
             /\ r(i).kind = calls[i].kind /\ r(i).repo = calls[i].repo
             /\ r(i).field = calls[i].field /\ r(i).value = calls[i].value
             /\ r(i).named = calls[i].named /\ r(i).answer = calls[i].answer
             /\ ~r(i).live /\ (r(i).early <=> calls[i].early /\ calls[i].kind = "delete")
  <2>1. calls[i] \in Repo!CallRecord
    BY DEF Repo!RepoTypes
  <2>2. QED
    BY <2>1 DEF Repo!CallRecord
<1>2. calls' = [i \in Calls |-> r(i)]
  BY DEF Repo!Abandon
<1> HIDE DEF r
<1>3. QED
  BY <1>1, <1>2

\* The content is replaced: the requests of the one before are nobody's.
LEMMA Replaced ==
    ASSUME Repo!RepoInv, UNCHANGED stored,
           calls' \in [Calls -> Repo!CallRecord],
           \A i \in Calls : calls'[i].kind = calls[i].kind /\ calls'[i].repo = calls[i].repo,
           \A i \in Calls : calls'[i].field = calls[i].field /\ calls'[i].value = calls[i].value
                            /\ calls'[i].named = calls[i].named /\ calls'[i].answer = calls[i].answer,
           \A i \in Calls : ~calls'[i].live
                            /\ (calls[i].kind = "delete" => (calls'[i].early <=> calls[i].early)),
           Repo!RepoTypes', Repo!CopyIsStored',
           route'.page = "detail" <=> route'.repo # Repo!NoRepo,
           creation' = Repo!NoCreation \/ (creation' = creation /\ route.page # "new"),
           content'.row = Repo!NoRepo, content'.dialog = "none", content'.secret = Repo!NoRepo,
           content'.shown # Repo!NoRepo => route'.page = "detail",
           content'.shown # Repo!NoRepo /\ ~content'.behind =>
               /\ content'.draft = stored.settings[content'.shown]
               /\ \A i \in Calls : ~(calls[i].kind = "update" /\ calls[i].repo = content'.shown)
    PROVE  Repo!RepoInv'
<1>1. Repo!Mounted'
  BY DEF Repo!Mounted
<1>2. Repo!LiveFits'
  BY DEF Repo!RepoInv, Repo!LiveFits
<1>3. Repo!MadeOnce'
  BY NoContentFacts DEF Repo!RepoInv, Repo!MadeOnce, Repo!LiveFits
<1>4. Repo!DraftFits'
  BY DEF Repo!RepoInv, Repo!DraftFits
<1>5. Repo!DeletedByName'
  BY DEF Repo!RepoInv, Repo!DeletedByName
<1>6. Repo!SecretFitsPage'
  BY DEF Repo!SecretFitsPage
<1>7. QED
  BY <1>1, <1>2, <1>3, <1>4, <1>5, <1>6 DEF Repo!RepoInv

\* Content and requests stay: the page reads something else, or names another
\* repository and still shows the one before.
LEMMA Kept ==
    ASSUME Repo!RepoInv, UNCHANGED <<stored, content, calls>>, Repo!RepoTypes',
           Repo!CopyIsStored',
           route'.page = route.page, route'.page = "detail" <=> route'.repo # Repo!NoRepo,
           creation' = Repo!NoCreation \/ creation' = creation,
           content.row # Repo!NoRepo => content.row \in known'.list
    PROVE  Repo!RepoInv'
<1>1. Repo!Mounted'
  BY DEF Repo!RepoInv, Repo!Mounted, Repo!Rows
<1>2. Repo!LiveFits'
  BY DEF Repo!RepoInv, Repo!LiveFits
<1>3. Repo!MadeOnce'
  BY NoContentFacts DEF Repo!RepoInv, Repo!MadeOnce
<1>4. Repo!DraftFits' /\ Repo!DeletedByName' /\ Repo!SecretFitsPage'
  BY DEF Repo!RepoInv, Repo!DraftFits, Repo!DeletedByName, Repo!SecretFitsPage
<1>5. QED
  BY <1>1, <1>2, <1>3, <1>4 DEF Repo!RepoInv

LEMMA NewContentFacts ==
    ASSUME NEW p \in Repos, NEW copy \in Repo!Settings, NEW fetching
    PROVE  LET n == Repo!NewContent(p, copy, fetching) IN
           /\ n \in Repo!ContentRecord
           /\ n.shown = p /\ n.draft = copy /\ n.row = Repo!NoRepo /\ n.dialog = "none"
           /\ n.secret = Repo!NoRepo
           /\ ~n.behind => p \notin fetching
           /\ ~n.behind => \A i \in Calls : ~(calls[i].kind = "update" /\ calls[i].repo = p)
<1> DEFINE b == p \in fetching \/ \E i \in Calls : calls[i].kind = "update" /\ calls[i].repo = p
<1>1. Repo!NewContent(p, copy, fetching) = [Repo!NoContent EXCEPT !.shown = p, !.draft = copy, !.behind = b]
  BY DEF Repo!NewContent
<1>2. b \in BOOLEAN /\ (~b => p \notin fetching)
      /\ (~b => \A i \in Calls : ~(calls[i].kind = "update" /\ calls[i].repo = p))
  OBVIOUS
<1> HIDE DEF b
<1>3. QED
  BY <1>1, <1>2, NoContentFacts, ZenonT(40)

\* Opening a repository, its copy in hand.
LEMMA Shown ==
    ASSUME Repo!RepoInv, NEW p \in Repos, NEW copy \in Repo!Settings, NEW fetching,
           Repo!Show(p, copy, fetching),
           UNCHANGED stored, route' = [page |-> "detail", repo |-> p],
           creation' = Repo!NoCreation \/ (creation' = creation /\ route.page # "new"),
           known' \in Repo!KnownRecord,
           \A q \in Repos :
              /\ known'.copy[q] # Repo!NoCopy /\ q \notin known'.fetching
              /\ \A i \in Calls : ~(calls[i].kind = "update" /\ calls[i].repo = q)
              => known'.copy[q] = stored.settings[q],
           p \notin fetching /\ (\A i \in Calls : ~(calls[i].kind = "update" /\ calls[i].repo = p))
               => copy = stored.settings[p]
    PROVE  Repo!RepoInv'
<1>1. route' \in [page : Repo!PageNames, repo : Repos \cup {Repo!NoRepo}] /\ p # Repo!NoRepo
      /\ creation' \in [linked : BOOLEAN, secret : BOOLEAN, made : Nat, lost : BOOLEAN]
  BY RepoAssumed, NoContentFacts DEF Repo!PageNames, Repo!RepoInv, Repo!RepoTypes
<1>2. CASE content.shown = p
  <2>1. UNCHANGED <<content, calls>> /\ route.page = "detail"
    BY <1>1, <1>2 DEF Repo!Show, Repo!RepoInv, Repo!Mounted
  <2>2. Repo!RepoTypes' /\ Repo!CopyIsStored'
    BY <1>1, <2>1 DEF Repo!RepoInv, Repo!RepoTypes, Repo!CopyIsStored, Repo!Cached
  <2>3. QED
    BY <1>1, <2>1, <2>2, Kept DEF Repo!RepoInv, Repo!Mounted, Repo!Rows
<1>3. CASE content.shown # p
  <2>1. content' = Repo!NewContent(p, copy, fetching) /\ Repo!Abandon
    BY <1>3 DEF Repo!Show
  <2>2. Repo!RepoTypes'
    BY <1>1, <2>1, AbandonFacts, NewContentFacts DEF Repo!RepoInv, Repo!RepoTypes
  <2>3. Repo!CopyIsStored'
    BY <2>1, AbandonFacts DEF Repo!RepoInv, Repo!CopyIsStored, Repo!Cached
  <2>4. content'.shown # Repo!NoRepo /\ ~content'.behind =>
           /\ content'.draft = stored.settings[content'.shown]
           /\ \A i \in Calls : ~(calls[i].kind = "update" /\ calls[i].repo = content'.shown)
    <3>1. /\ content'.shown = p /\ content'.draft = copy
          /\ (~content'.behind => p \notin fetching)
          /\ ~content'.behind => \A i \in Calls : ~(calls[i].kind = "update" /\ calls[i].repo = p)
      BY <2>1, NewContentFacts
    <3>2. QED
      BY <3>1
  <2>5. content'.row = Repo!NoRepo /\ content'.dialog = "none" /\ content'.secret = Repo!NoRepo
    BY <2>1, NewContentFacts
  <2>6. QED
    BY <1>1, <2>1, <2>2, <2>3, <2>4, <2>5, AbandonFacts, Replaced DEF Repo!RepoInv
<1>4. QED
  BY <1>2, <1>3

LEMMA Hidden ==
    ASSUME Repo!RepoInv, Repo!Hide, UNCHANGED stored,
           route' \in [page : Repo!PageNames, repo : Repos \cup {Repo!NoRepo}],
           route'.page = "detail" <=> route'.repo # Repo!NoRepo,
           creation' = Repo!NoCreation \/ (creation' = creation /\ route.page # "new"),
           known' \in Repo!KnownRecord,
           \A q \in Repos :
              known'.copy[q] # Repo!NoCopy /\ q \notin known'.fetching =>
                  q \notin known.fetching /\ known'.copy[q] = known.copy[q]
    PROVE  Repo!RepoInv'
<1>1. creation' \in [linked : BOOLEAN, secret : BOOLEAN, made : Nat, lost : BOOLEAN]
  BY NoContentFacts DEF Repo!RepoInv, Repo!RepoTypes
<1>2. content' = Repo!NoContent /\ Repo!Abandon
  BY DEF Repo!Hide
<1>3. Repo!RepoTypes'
  BY <1>1, <1>2, AbandonFacts, NoContentFacts DEF Repo!RepoInv, Repo!RepoTypes
<1>4. Repo!CopyIsStored'
  BY <1>2, AbandonFacts DEF Repo!RepoInv, Repo!CopyIsStored, Repo!Cached
<1>5. QED
  BY <1>2, <1>3, <1>4, AbandonFacts, NoContentFacts, Replaced DEF Repo!RepoInv

LEMMA NavigationStep ==
    ASSUME Repo!RepoInv,
           \/ \E p \in Repos : Repo!OpenRepo(p)
           \/ \E page \in {"list", "new"} : Repo!GoToPage(page)
           \/ Repo!CreationDone
    PROVE  Repo!RepoInv'
<1>1. ASSUME NEW p \in Repos, Repo!OpenRepo(p), Repo!Cached(p) PROVE Repo!RepoInv'
  <2>1. Repo!Show(p, known.copy[p], known.fetching) /\ UNCHANGED <<known, stored>> /\ creation' = Repo!NoCreation
        /\ route' = [page |-> "detail", repo |-> p]
    BY <1>1 DEF Repo!OpenRepo
  <2>2. known.copy[p] \in Repo!Settings
    BY <1>1 DEF Repo!Cached, Repo!RepoInv, Repo!RepoTypes
  <2>3. known' \in Repo!KnownRecord
    BY <2>1 DEF Repo!RepoInv, Repo!RepoTypes
  <2>4. \A q \in Repos :
           /\ known'.copy[q] # Repo!NoCopy /\ q \notin known'.fetching
           /\ \A i \in Calls : ~(calls[i].kind = "update" /\ calls[i].repo = q)
           => known'.copy[q] = stored.settings[q]
    BY <2>1 DEF Repo!RepoInv, Repo!CopyIsStored, Repo!Cached
  <2>5. p \notin known.fetching /\ (\A i \in Calls : ~(calls[i].kind = "update" /\ calls[i].repo = p))
           => known.copy[p] = stored.settings[p]
    BY <1>1 DEF Repo!RepoInv, Repo!CopyIsStored
  <2>6. QED
    BY <2>1, <2>2, <2>3, <2>4, <2>5, Shown
<1>2. ASSUME NEW p \in Repos, Repo!OpenRepo(p), ~Repo!Cached(p) PROVE Repo!RepoInv'
  <2>1. /\ known' = [known EXCEPT !.fetching = @ \cup {p}] /\ UNCHANGED stored
        /\ creation' = Repo!NoCreation
        /\ route' = [page |-> "detail", repo |-> p]
    BY <1>2 DEF Repo!OpenRepo
  <2>2. /\ known' \in Repo!KnownRecord
        /\ known'.copy = known.copy /\ known'.fetching = known.fetching \cup {p}
        /\ known'.list = known.list
    BY <2>1 DEF Repo!RepoInv, Repo!RepoTypes
  <2>3. route' \in [page : Repo!PageNames, repo : Repos \cup {Repo!NoRepo}] /\ p # Repo!NoRepo
    BY <2>1, RepoAssumed DEF Repo!PageNames
  <2>4. CASE route.page = "detail"
    <3>1. UNCHANGED <<content, calls>>
      BY <1>2, <2>4 DEF Repo!OpenRepo
    <3>2. Repo!RepoTypes' /\ Repo!CopyIsStored'
      BY <2>1, <2>2, <2>3, <3>1, NoContentFacts DEF Repo!RepoInv, Repo!RepoTypes,
         Repo!CopyIsStored, Repo!Cached
    <3>3. QED
      BY <2>1, <2>2, <2>3, <2>4, <3>1, <3>2, Kept DEF Repo!RepoInv, Repo!Mounted, Repo!Rows
  <2>5. CASE route.page # "detail"
    <3>1. Repo!Hide
      BY <1>2, <2>5 DEF Repo!OpenRepo
    <3>2. QED
      BY <2>1, <2>2, <2>3, <3>1, Hidden
  <2>6. QED
    BY <2>4, <2>5
<1>3. ASSUME NEW page \in {"list", "new"}, Repo!ToPage(page), Repo!Hide,
             UNCHANGED <<stored, known>>
      PROVE  Repo!RepoInv'
  BY <1>3, Hidden DEF Repo!ToPage, Repo!PageNames, Repo!RepoInv, Repo!RepoTypes
<1>4. QED
  BY <1>1, <1>2, <1>3 DEF Repo!GoToPage, Repo!CreationDone

LEMMA QueryStep ==
    ASSUME Repo!RepoInv,
           Repo!ListArrives \/ \E p \in Repos : Repo!Expire(p) \/ Repo!RepoArrives(p) \/ Repo!RepoFails(p)
    PROVE  Repo!RepoInv'
<1>1. ASSUME NEW p \in Repos, Repo!Expire(p) PROVE Repo!RepoInv'
  <2>1. /\ known' \in Repo!KnownRecord
        /\ known'.fetching = known.fetching /\ known'.list = known.list
        /\ known'.copy[p] = Repo!NoCopy /\ \A q \in Repos \ {p} : known'.copy[q] = known.copy[q]
    BY <1>1 DEF Repo!Expire, Repo!RepoInv, Repo!RepoTypes
  <2>2. Repo!RepoTypes' /\ Repo!CopyIsStored'
    BY <1>1, <2>1 DEF Repo!Expire, Repo!RepoInv, Repo!RepoTypes, Repo!CopyIsStored, Repo!Cached
  <2>3. QED
    BY <1>1, <2>1, <2>2, Kept DEF Repo!Expire, Repo!RepoInv, Repo!Mounted, Repo!Rows
<1>2. ASSUME NEW p \in Repos, Repo!RepoArrives(p) PROVE Repo!RepoInv'
  <2>1. stored.settings[p] \in Repo!Settings
    BY DEF Repo!RepoInv, Repo!RepoTypes
  <2>2. /\ known' \in Repo!KnownRecord
        /\ known'.fetching = known.fetching \ {p} /\ known'.list = known.list
        /\ known'.copy[p] = stored.settings[p]
        /\ \A q \in Repos \ {p} : known'.copy[q] = known.copy[q]
    BY <1>2, <2>1 DEF Repo!RepoArrives, Repo!RepoInv, Repo!RepoTypes
  <2>3. \A q \in Repos :
           /\ known'.copy[q] # Repo!NoCopy /\ q \notin known'.fetching
           /\ \A i \in Calls : ~(calls[i].kind = "update" /\ calls[i].repo = q)
           => known'.copy[q] = stored.settings[q]
    BY <2>2 DEF Repo!RepoInv, Repo!CopyIsStored, Repo!Cached
  <2>4. CASE route.repo = p
    <3>1. /\ Repo!Show(p, stored.settings[p], {}) /\ UNCHANGED <<stored, route, creation>>
          /\ route = [page |-> "detail", repo |-> p]
      BY <1>2, <2>4, RepoAssumed DEF Repo!RepoArrives, Repo!RepoInv, Repo!RepoTypes, Repo!Mounted
    <3>2. QED
      BY <2>1, <2>2, <2>3, <3>1, Shown
  <2>5. CASE route.repo # p
    <3>1. UNCHANGED <<stored, route, creation, content, calls>>
      BY <1>2, <2>5 DEF Repo!RepoArrives
    <3>2. Repo!RepoTypes' /\ Repo!CopyIsStored'
      BY <2>2, <2>3, <3>1 DEF Repo!RepoInv, Repo!RepoTypes, Repo!CopyIsStored, Repo!Cached
    <3>3. QED
      BY <2>2, <3>1, <3>2, Kept DEF Repo!RepoInv, Repo!Mounted, Repo!Rows
  <2>6. QED
    BY <2>4, <2>5
<1>3. ASSUME NEW p \in Repos, Repo!RepoFails(p) PROVE Repo!RepoInv'
  <2>1. /\ known' \in Repo!KnownRecord
        /\ known'.fetching = known.fetching \ {p} /\ known'.list = known.list
        /\ known'.copy[p] = Repo!NoCopy /\ \A q \in Repos \ {p} : known'.copy[q] = known.copy[q]
    BY <1>3 DEF Repo!RepoFails, Repo!RepoInv, Repo!RepoTypes
  <2>2. CASE route.repo = p
    <3>1. Repo!Hide /\ UNCHANGED <<stored, route, creation>> /\ route.page # "new"
      BY <1>3, <2>2, RepoAssumed DEF Repo!RepoFails, Repo!RepoInv, Repo!Mounted
    <3>2. QED
      BY <2>1, <3>1, Hidden DEF Repo!RepoInv, Repo!RepoTypes, Repo!Mounted
  <2>3. CASE route.repo # p
    <3>1. UNCHANGED <<stored, route, creation, content, calls>>
      BY <1>3, <2>3 DEF Repo!RepoFails
    <3>2. Repo!RepoTypes' /\ Repo!CopyIsStored'
      BY <2>1, <3>1 DEF Repo!RepoInv, Repo!RepoTypes, Repo!CopyIsStored, Repo!Cached
    <3>3. QED
      BY <2>1, <3>1, <3>2, Kept DEF Repo!RepoInv, Repo!Mounted, Repo!Rows
  <2>4. QED
    BY <2>2, <2>3
<1>4. CASE Repo!ListArrives
  <2>1. /\ known' \in Repo!KnownRecord
        /\ known'.fetching = known.fetching /\ known'.list = stored.repos
        /\ known'.copy = known.copy
        /\ UNCHANGED <<stored, route, creation>> /\ route.page = "list"
    BY <1>4 DEF Repo!ListArrives, Repo!RepoInv, Repo!RepoTypes
  <2>2. CASE content.row \in stored.repos
    <3>1. UNCHANGED <<content, calls>>
      BY <1>4, <2>2 DEF Repo!ListArrives
    <3>2. Repo!RepoTypes' /\ Repo!CopyIsStored'
      BY <2>1, <3>1 DEF Repo!RepoInv, Repo!RepoTypes, Repo!CopyIsStored, Repo!Cached
    <3>3. QED
      BY <2>1, <2>2, <3>1, <3>2, Kept DEF Repo!RepoInv, Repo!Mounted
  <2>3. CASE content.row \notin stored.repos
    <3>1. Repo!Hide
      BY <1>4, <2>3 DEF Repo!ListArrives
    <3>2. QED
      BY <2>1, <3>1, Hidden DEF Repo!RepoInv, Repo!RepoTypes, Repo!Mounted
  <2>4. QED
    BY <2>2, <2>3
<1>5. QED
  BY <1>1, <1>2, <1>3, <1>4

\* What the user does on the page: drafts, dialogs, the form of a repository.
LEMMA InPage ==
    ASSUME Repo!RepoInv, UNCHANGED <<stored, route, known, calls, creation>>,
           content' \in Repo!ContentRecord,
           content'.shown = content.shown, content'.behind <=> content.behind,
           content.edited \subseteq content'.edited,
           \A f \in Fields \ content'.edited : content'.draft[f] = content.draft[f],
           content'.secret = Repo!NoRepo \/ (content'.secret = content.secret /\ (content'.early <=> content.early)),
           Repo!Mounted'
    PROVE  Repo!RepoInv'
<1>1. Repo!RepoTypes'
  BY DEF Repo!RepoInv, Repo!RepoTypes
<1>2. Repo!LiveFits'
  BY DEF Repo!RepoInv, Repo!LiveFits
<1>3. Repo!MadeOnce' /\ Repo!CopyIsStored' /\ Repo!DeletedByName'
  BY DEF Repo!RepoInv, Repo!MadeOnce, Repo!CopyIsStored, Repo!Cached, Repo!DeletedByName
<1>4. Repo!DraftFits'
  BY DEF Repo!RepoInv, Repo!DraftFits
<1>5. Repo!SecretFitsPage'
  BY DEF Repo!RepoInv, Repo!SecretFitsPage
<1>6. QED
  BY <1>1, <1>2, <1>3, <1>4, <1>5 DEF Repo!RepoInv

LEMMA UserStep ==
    ASSUME Repo!RepoInv,
           \/ \E f \in Fields, v \in Repo!Values : Repo!SetDraft(f, v)
           \/ \E d \in {"branches", "delete", "confirmSecret"} : Repo!OpenDialog(d)
           \/ \E p \in Repos : Repo!AskDeleteRow(p)
           \/ Repo!TypeName \/ Repo!CloseDialog \/ Repo!SecretDone
    PROVE  Repo!RepoInv'
<1>1. content \in Repo!ContentRecord
  BY DEF Repo!RepoInv, Repo!RepoTypes
<1>2. ASSUME NEW f \in Fields, NEW v \in Repo!Values, Repo!SetDraft(f, v) PROVE Repo!RepoInv'
  <2>1. /\ content' = [content EXCEPT !.draft[f] = v, !.edited = @ \cup {f}]
        /\ UNCHANGED <<stored, route, known, calls, creation>>
    BY <1>2 DEF Repo!SetDraft, Repo!Touch
  <2>2. Repo!Mounted'
    BY <1>1, <2>1 DEF Repo!RepoInv, Repo!Mounted, Repo!Rows
  <2>3. QED
    BY <1>1, <2>1, <2>2, InPage DEF Repo!Settings
<1>3. ASSUME NEW d \in {"branches", "delete", "confirmSecret"}, Repo!OpenDialog(d)
      PROVE  Repo!RepoInv'
  <2>1. /\ content' = [content EXCEPT !.dialog = d]
        /\ UNCHANGED <<stored, route, known, calls, creation>> /\ Repo!Detail
    BY <1>3 DEF Repo!OpenDialog, Repo!Touch
  <2>2. Repo!Mounted'
    BY <1>1, <2>1 DEF Repo!RepoInv, Repo!Mounted, Repo!Rows, Repo!Detail
  <2>3. QED
    BY <1>1, <2>1, <2>2, InPage
<1>4. ASSUME NEW p \in Repos, Repo!AskDeleteRow(p) PROVE Repo!RepoInv'
  <2>1. /\ content' = [content EXCEPT !.dialog = "delete", !.row = p] /\ p \in Repo!Rows
        /\ UNCHANGED <<stored, route, known, calls, creation>>
    BY <1>4 DEF Repo!AskDeleteRow
  <2>2. Repo!Mounted'
    BY <1>1, <2>1, RepoAssumed DEF Repo!RepoInv, Repo!Mounted, Repo!Rows
  <2>3. QED
    BY <1>1, <2>1, <2>2, InPage
<1>5. CASE Repo!TypeName
  <2>1. /\ content' = [content EXCEPT !.dialog = "typeName",
                          !.named = IF route.page = "list" THEN content.row ELSE content.shown]
        /\ content.dialog = "delete" /\ UNCHANGED <<stored, route, known, calls, creation>>
    BY <1>5 DEF Repo!TypeName, Repo!InDialog
  <2>2. Repo!Mounted'
    BY <1>1, <2>1 DEF Repo!RepoInv, Repo!Mounted, Repo!Rows
  <2>3. QED
    BY <1>1, <2>1, <2>2, InPage
<1>6. CASE Repo!CloseDialog
  <2>1. /\ content' = [content EXCEPT !.dialog = "none", !.named = Repo!NoRepo, !.row = Repo!NoRepo]
        /\ UNCHANGED <<stored, route, known, calls, creation>>
    BY <1>6 DEF Repo!CloseDialog, Repo!InDialog
  <2>2. Repo!Mounted'
    BY <1>1, <2>1 DEF Repo!RepoInv, Repo!Mounted, Repo!Rows
  <2>3. QED
    BY <1>1, <2>1, <2>2, InPage
<1>7. CASE Repo!SecretDone
  <2>1. /\ content' = [content EXCEPT !.secret = Repo!NoRepo, !.early = FALSE]
        /\ UNCHANGED <<stored, route, known, calls, creation>>
    BY <1>7 DEF Repo!SecretDone
  <2>2. Repo!Mounted'
    BY <1>1, <2>1 DEF Repo!RepoInv, Repo!Mounted, Repo!Rows
  <2>3. QED
    BY <1>1, <2>1, <2>2, InPage
<1>8. QED
  BY <1>2, <1>3, <1>4, <1>5, <1>6, <1>7

LEMMA RepoRequestStep ==
    ASSUME Repo!RepoInv,
           \/ \E f \in Fields : Repo!SaveField(f)
           \/ Repo!PausePipeline \/ Repo!SaveBranches \/ Repo!ConfirmDelete \/ Repo!ConfirmRegenerate \/ Repo!Create
    PROVE  Repo!RepoInv'
<1>1. Repo!NoCall \in [kind : {"none", "update", "pause", "regenerate", "delete", "create"},
     repo : Repos \cup {Repo!NoRepo}, field : Fields \cup {"none", "branches"},
     value : Repo!Values,
     named : Repos \cup {Repo!NoRepo}, from : Repo!PageNames \cup {"none"}, live : BOOLEAN,
     early : BOOLEAN,
     answer : {"none", "ok", "error"}]
  BY NoCallFacts DEF Repo!CallRecord
<1>2. /\ route.repo \in Repos \cup {Repo!NoRepo} /\ content.row \in Repos \cup {Repo!NoRepo}
      /\ content.shown \in Repos \cup {Repo!NoRepo} /\ content.named \in Repos \cup {Repo!NoRepo}
      /\ (route.page = "detail" => route.repo \in Repos)
      /\ content.draft \in [Fields -> Repo!Values]
  BY DEF Repo!RepoInv, Repo!RepoTypes, Repo!Mounted, Repo!Settings
<1>3. ASSUME NEW f \in Fields, Repo!SaveField(f) PROVE Repo!RepoInv'
  <2> DEFINE c == [Repo!ForUrl("update") EXCEPT !.field = f, !.value = content.draft[f]]
  <2>1. Repo!Call(c) /\ UNCHANGED <<stored, route, known, content, creation>> /\ route.page = "detail"
    BY <1>3 DEF Repo!SaveField, Repo!Touch, Repo!Detail
  <2>2. /\ c \in Repo!CallRecord /\ c.kind = "update" /\ c.repo = route.repo /\ c.field = f
        /\ c.value = content.draft[f] /\ c.answer = "none"
    BY <1>1, <1>2, NoCallFacts DEF Repo!ForUrl, Repo!CallRecord
  <2> HIDE DEF c
  <2>3. QED
    BY <1>2, <2>1, <2>2, Asked
<1>4. CASE Repo!SaveBranches
  <2> DEFINE c == [Repo!ForUrl("update") EXCEPT !.field = "branches"]
  <2>1. Repo!Call(c) /\ UNCHANGED <<stored, route, known, content, creation>> /\ route.page = "detail"
    BY <1>4 DEF Repo!SaveBranches, Repo!InDialog, Repo!RepoInv, Repo!Mounted
  <2>2. /\ c \in Repo!CallRecord /\ c.kind = "update" /\ c.repo = route.repo
        /\ c.field = "branches"
        /\ c.answer = "none"
    BY <1>1, <1>2, NoCallFacts DEF Repo!ForUrl, Repo!CallRecord
  <2> HIDE DEF c
  <2>3. "branches" \notin Fields
    BY RepoAssumed
  <2>4. QED
    BY <1>2, <2>1, <2>2, <2>3, Asked
<1>5. CASE Repo!PausePipeline
  <2> DEFINE c == [Repo!ForUrl("pause") EXCEPT !.repo = content.shown]
  <2>1. Repo!Call(c) /\ UNCHANGED <<stored, route, known, content, creation>> /\ content.shown # Repo!NoRepo
    BY <1>5 DEF Repo!PausePipeline, Repo!Touch, Repo!Detail
  <2>2. c \in Repo!CallRecord /\ c.kind = "pause" /\ c.repo = content.shown /\ c.answer = "none"
    BY <1>1, <1>2, NoCallFacts DEF Repo!ForUrl, Repo!CallRecord
  <2> HIDE DEF c
  <2>3. QED
    BY <1>2, <2>1, <2>2, Asked
<1>6. CASE Repo!ConfirmDelete
  <2> DEFINE c == [Repo!ForUrl("delete") EXCEPT !.repo = IF route.page = "list" THEN content.row ELSE @,
                                           !.named = content.named]
  <2>1. Repo!Call(c) /\ UNCHANGED <<stored, route, known, content, creation>> /\ content.dialog = "typeName"
    BY <1>6 DEF Repo!ConfirmDelete, Repo!InDialog
  <2>2. /\ c \in Repo!CallRecord /\ c.kind = "delete" /\ c.answer = "none"
        /\ c.named = content.named
        /\ c.repo = IF route.page = "list" THEN content.row ELSE route.repo
    BY <1>1, <1>2, NoCallFacts DEF Repo!ForUrl, Repo!CallRecord
  <2> HIDE DEF c
  <2>3. /\ c.repo \in Repos
        /\ (c.named = c.repo \/ (route.page = "detail" /\ content.shown # route.repo))
    BY <1>2, <2>1, <2>2 DEF Repo!RepoInv, Repo!Mounted
  <2>4. QED
    BY <1>2, <2>1, <2>2, <2>3, Asked
<1>7. CASE Repo!ConfirmRegenerate
  <2> DEFINE c == Repo!ForUrl("regenerate")
  <2>1. Repo!Call(c) /\ UNCHANGED <<stored, route, known, content, creation>> /\ route.page = "detail"
    BY <1>7 DEF Repo!ConfirmRegenerate, Repo!InDialog, Repo!RepoInv, Repo!Mounted
  <2>2. c \in Repo!CallRecord /\ c.kind = "regenerate" /\ c.repo = route.repo /\ c.answer = "none"
    BY <1>1, <1>2, NoCallFacts DEF Repo!ForUrl, Repo!CallRecord
  <2> HIDE DEF c
  <2>3. QED
    BY <1>2, <2>1, <2>2, Asked
<1>8. CASE Repo!Create
  <2> DEFINE c == Repo!ForUrl("create")
  <2>1. /\ Repo!Call(c) /\ UNCHANGED <<stored, route, known, content, creation>>
        /\ route.page = "new"
        /\ ~creation.secret
    BY <1>8 DEF Repo!Create
  <2>2. c \in Repo!CallRecord /\ c.kind = "create" /\ c.answer = "none"
    BY <1>1, <1>2, NoCallFacts DEF Repo!ForUrl, Repo!CallRecord
  <2> HIDE DEF c
  <2>3. QED
    BY <1>2, <2>1, <2>2, Asked
<1>9. QED
  BY <1>3, <1>4, <1>5, <1>6, <1>7, <1>8

\* The server: a setting changes only by the update that names it.
LEMMA StoreFacts ==
    ASSUME Repo!RepoTypes, NEW c \in Repo!CallRecord,
           c.repo \in stored.repos \/ c.kind = "create",
           c.kind = "update" => c.field \in Fields \cup {"branches"}
    PROVE  LET s == Repo!Store(c) IN
           /\ s \in [repos : SUBSET Repos, settings : [Repos -> Repo!Settings]]
           /\ \A p \in Repos : c.kind # "update" \/ p # c.repo => s.settings[p] = stored.settings[p]
           /\ \A p \in Repos, f \in Fields :
                 s.settings[p][f] = IF c.kind = "update" /\ p = c.repo /\ f = c.field THEN c.value
                                    ELSE stored.settings[p][f]
<1>1. stored \in [repos : SUBSET Repos, settings : [Repos -> Repo!Settings]]
  BY DEF Repo!RepoTypes
<1>2. CASE c.kind = "update" /\ c.field \in Fields
  <2> DEFINE g == [stored.settings[c.repo] EXCEPT ![c.field] = c.value]
             h == [stored.settings EXCEPT ![c.repo] = g]
  <2>1. c.repo \in Repos /\ c.value \in Repo!Values
    BY <1>1, <1>2 DEF Repo!CallRecord
  <2>2. /\ g \in Repo!Settings
        /\ \A f \in Fields : g[f] = IF f = c.field THEN c.value ELSE stored.settings[c.repo][f]
    BY <1>1, <1>2, <2>1 DEF Repo!Settings
  <2>3. Repo!Store(c) = [stored EXCEPT !.settings = h]
    BY <1>1, <1>2, <2>1 DEF Repo!Store
  <2> HIDE DEF g
  <2>4. /\ h \in [Repos -> Repo!Settings] /\ h[c.repo] = g
        /\ \A p \in Repos \ {c.repo} : h[p] = stored.settings[p]
    BY <1>1, <2>1, <2>2
  <2> HIDE DEF h
  <2>5. Repo!Store(c).settings = h /\ Repo!Store(c) \in [repos : SUBSET Repos, settings : [Repos -> Repo!Settings]]
    BY <1>1, <2>3, <2>4
  <2>6. QED
    BY <1>2, <2>1, <2>2, <2>4, <2>5
<1>3. CASE c.kind = "delete"
  <2>1. Repo!Store(c) = [stored EXCEPT !.repos = @ \ {c.repo}]
    BY <1>3 DEF Repo!Store
  <2>2. QED
    BY <1>1, <1>3, <2>1
<1>4. CASE ~(c.kind = "update" /\ c.field \in Fields) /\ c.kind # "delete"
  <2>1. Repo!Store(c) = stored
    BY <1>4 DEF Repo!Store
  <2>2. QED
    BY <1>1, <1>4, <2>1
<1>5. QED
  BY <1>2, <1>3, <1>4

LEMMA RepoServeStep ==
    ASSUME Repo!RepoInv, NEW i \in Calls, Repo!Serve(i)
    PROVE  Repo!RepoInv'
<1> DEFINE c == calls[i]
<1>1. /\ c \in Repo!CallRecord /\ c.kind # "none" /\ c.answer = "none"
      /\ UNCHANGED <<route, known, content>>
  BY DEF Repo!Serve, Repo!RepoInv, Repo!RepoTypes
<1>2. PICK done \in BOOLEAN, answer \in {"ok", "error"} :
          /\ answer = "ok" => done
          /\ done => ~Repo!Refused(c)
          /\ stored' = IF done THEN Repo!Store(c) ELSE stored
          /\ calls' = [calls EXCEPT ![i].answer = answer]
          /\ creation' = IF done /\ c.kind = "create" /\ c.live
                         THEN [creation EXCEPT !.made = @ + 1, !.lost = @ \/ answer = "error"]
                         ELSE creation
  BY DEF Repo!Serve
<1>3. /\ calls' \in [Calls -> Repo!CallRecord] /\ calls'[i].answer = answer
      /\ calls'[i].kind = c.kind /\ calls'[i].repo = c.repo /\ calls'[i].field = c.field
      /\ calls'[i].value = c.value /\ calls'[i].named = c.named /\ calls'[i].live = c.live
      /\ calls'[i].early = c.early /\ \A j \in Calls \ {i} : calls'[j] = calls[j]
  BY <1>1, <1>2 DEF Repo!RepoInv, Repo!RepoTypes, Repo!CallRecord
<1>4. /\ stored' \in [repos : SUBSET Repos, settings : [Repos -> Repo!Settings]]
      /\ \A p \in Repos : c.kind # "update" \/ p # c.repo => stored'.settings[p] = stored.settings[p]
      /\ \A p \in Repos, f \in Fields :
            /\ ~(c.kind = "update" /\ p = c.repo /\ f = c.field)
                  => stored'.settings[p][f] = stored.settings[p][f]
            /\ c.kind = "update" /\ p = c.repo /\ f = c.field
                  => \/ stored'.settings[p][f] = c.value
                     \/ stored'.settings[p][f] = stored.settings[p][f] /\ answer # "ok"
  <2>1. CASE done
    <3>1. c.repo \in stored.repos \/ c.kind = "create"
      BY <1>2, <2>1 DEF Repo!Refused
    <3>2. c.kind = "update" => c.field \in Fields \cup {"branches"}
      BY DEF Repo!RepoInv, Repo!LiveFits
    <3>3. QED
      BY <1>1, <1>2, <2>1, <3>1, <3>2, StoreFacts DEF Repo!RepoInv
  <2>2. CASE ~done
    BY <1>2, <2>2 DEF Repo!RepoInv, Repo!RepoTypes
  <2>3. QED
    BY <2>1, <2>2
<1>5. /\ creation' \in [linked : BOOLEAN, secret : BOOLEAN, made : Nat, lost : BOOLEAN]
      /\ (creation'.secret <=> creation.secret)
      /\ done /\ c.kind = "create" /\ c.live =>
            /\ creation'.made = creation.made + 1
            /\ (creation'.lost <=> creation.lost \/ answer = "error")
      /\ ~(done /\ c.kind = "create" /\ c.live) => creation' = creation
  <2>1. creation \in [linked : BOOLEAN, secret : BOOLEAN, made : Nat, lost : BOOLEAN]
    BY DEF Repo!RepoInv, Repo!RepoTypes
  <2>2. CASE done /\ c.kind = "create" /\ c.live
    <3>1. PICK l \in BOOLEAN : creation' = [creation EXCEPT !.made = creation.made + 1, !.lost = l]
                               /\ (l <=> creation.lost \/ answer = "error")
      BY <1>2, <2>2
    <3>2. creation.made + 1 \in Nat
      BY <2>1
    <3>3. /\ creation' \in [linked : BOOLEAN, secret : BOOLEAN, made : Nat, lost : BOOLEAN]
          /\ creation'.secret = creation.secret /\ creation'.made = creation.made + 1
          /\ creation'.lost = l
      BY <2>1, <3>1, <3>2
    <3>4. QED
      BY <2>2, <3>1, <3>3
  <2>3. CASE ~(done /\ c.kind = "create" /\ c.live)
    BY <1>2, <2>1, <2>3
  <2>4. QED
    BY <2>2, <2>3
<1>6. Repo!RepoTypes'
  BY <1>1, <1>3, <1>4, <1>5 DEF Repo!RepoInv, Repo!RepoTypes
<1>7. Repo!Mounted'
  BY <1>1 DEF Repo!RepoInv, Repo!Mounted, Repo!Rows
<1>8. Repo!LiveFits'
  BY <1>1, <1>3 DEF Repo!RepoInv, Repo!LiveFits
<1>9. Repo!MadeOnce'
  <2>1. CASE done /\ c.kind = "create" /\ c.live
    <3>1. ~creation.secret
      BY <2>1 DEF Repo!RepoInv, Repo!MadeOnce
    <3>2. \A j \in Calls : calls[j].live /\ calls[j].kind = "create" => j = i
      BY <2>1 DEF Repo!RepoInv, Repo!LiveFits
    <3>3. ~creation.lost => creation.made = 0
      BY <1>1, <3>1, <3>2 DEF Repo!RepoInv, Repo!MadeOnce
    <3>4. ~creation'.lost => creation'.made = 1 /\ answer = "ok"
      BY <1>2, <1>5, <2>1, <3>3
    <3>5. QED
      BY <1>3, <1>5, <2>1, <3>1, <3>4 DEF Repo!MadeOnce
  <2>2. CASE ~(done /\ c.kind = "create" /\ c.live)
    <3>1. creation' = creation
      BY <1>5, <2>2
    <3>2. \A j \in Calls : /\ calls'[j].live = calls[j].live /\ calls'[j].kind = calls[j].kind
                           /\ calls[j].answer = "ok" => calls'[j].answer = "ok"
      BY <1>1, <1>3
    <3>3. QED
      BY <3>1, <3>2 DEF Repo!RepoInv, Repo!MadeOnce
  <2>3. QED
    BY <2>1, <2>2
<1>10. Repo!CopyIsStored'
  BY <1>1, <1>3, <1>4 DEF Repo!RepoInv, Repo!CopyIsStored, Repo!Cached
<1>11. Repo!DraftFits'
  <2> SUFFICES ASSUME content.shown # Repo!NoRepo, ~content.behind
               PROVE  /\ \A f \in Fields \ content.edited :
                            content.draft[f] = stored'.settings[content.shown][f]
                      /\ \A j \in Calls :
                            calls'[j].kind = "update" =>
                              /\ calls'[j].repo = content.shown => calls'[j].live
                              /\ calls'[j].live /\ calls'[j].field \in Fields \ content.edited =>
                                    calls'[j].value = content.draft[calls'[j].field]
                              /\ /\ calls'[j].repo = content.shown /\ calls'[j].answer = "ok"
                                 /\ calls'[j].field \in Fields
                                 => stored'.settings[content.shown][calls'[j].field] = calls'[j].value
    BY <1>1 DEF Repo!DraftFits
  <2>1. content.shown \in Repos
    BY DEF Repo!RepoInv, Repo!RepoTypes
  <2>2. \A f \in Fields \ content.edited : content.draft[f] = stored'.settings[content.shown][f]
    BY <1>4, <2>1 DEF Repo!RepoInv, Repo!DraftFits
  <2>3. ASSUME NEW j \in Calls, calls'[j].kind = "update"
        PROVE  /\ calls'[j].repo = content.shown => calls'[j].live
               /\ calls'[j].live /\ calls'[j].field \in Fields \ content.edited =>
                     calls'[j].value = content.draft[calls'[j].field]
    BY <1>3, <2>3 DEF Repo!RepoInv, Repo!DraftFits
  <2>4. ASSUME NEW j \in Calls, calls'[j].kind = "update", calls'[j].repo = content.shown,
               calls'[j].answer = "ok", calls'[j].field \in Fields
        PROVE  stored'.settings[content.shown][calls'[j].field] = calls'[j].value
    <3>1. CASE j = i
      BY <1>3, <1>4, <2>1, <2>4, <3>1
    <3>2. CASE j # i
      <4>1. calls[j].live /\ stored.settings[content.shown][calls[j].field] = calls[j].value
        BY <1>3, <2>4, <3>2 DEF Repo!RepoInv, Repo!DraftFits
      <4>2. ~(c.kind = "update" /\ c.repo = content.shown)
        BY <1>3, <2>4, <3>2, <4>1 DEF Repo!RepoInv, Repo!DraftFits, Repo!LiveFits
      <4>3. QED
        BY <1>3, <1>4, <2>1, <2>4, <3>2, <4>1, <4>2
    <3>3. QED
      BY <3>1, <3>2
  <2>5. QED
    BY <2>2, <2>3, <2>4
<1>12. Repo!DeletedByName' /\ Repo!SecretFitsPage'
  BY <1>1, <1>3 DEF Repo!RepoInv, Repo!DeletedByName, Repo!SecretFitsPage
<1>13. QED
  BY <1>6, <1>7, <1>8, <1>9, <1>10, <1>11, <1>12 DEF Repo!RepoInv

LEMMA InvalidateFacts ==
    ASSUME Repo!RepoInv, NEW scope \in SUBSET Repos, Repo!Invalidate(scope)
    PROVE  /\ known' \in Repo!KnownRecord
           /\ route.page = "list" => known'.list = known.list
           /\ \A p \in Repos : /\ known'.copy[p] \in {known.copy[p], Repo!NoCopy}
                               /\ p \in scope => known'.copy[p] = Repo!NoCopy \/ p \in known'.fetching
                               /\ p \in known.fetching => p \in known'.fetching
BY DEF Repo!Invalidate, Repo!RepoInv, Repo!RepoTypes

\* An answer takes its request away and what it invalidates out of the cache;
\* the rest is what it does to the page.
LEMMA Taken ==
    ASSUME Repo!RepoInv, NEW i \in Calls, calls' = [calls EXCEPT ![i] = Repo!NoCall],
           NEW scope \in SUBSET Repos, Repo!Invalidate(scope),
           calls[i].kind = "update" => scope = Repos,
           UNCHANGED <<stored, route>>,
           content' \in Repo!ContentRecord,
           creation' \in [linked : BOOLEAN, secret : BOOLEAN, made : Nat, lost : BOOLEAN],
           content'.shown = content.shown, content'.row \in {content.row, Repo!NoRepo},
           \/ content'.dialog = "none"
           \/ content'.dialog = content.dialog /\ content'.row = content.row /\ content'.named = content.named,
           content'.secret # Repo!NoRepo /\ ~content'.early => content'.secret = content.shown,
           Repo!MadeOnce',
           content'.shown # Repo!NoRepo /\ ~content'.behind =>
              /\ ~content.behind
              /\ \A f \in Fields \ content'.edited : content'.draft[f] = stored.settings[content.shown][f]
              /\ \A j \in Calls \ {i} :
                    calls[j].kind = "update" /\ calls[j].live => UNCHANGED <<content.draft, content.edited>>
    PROVE  Repo!RepoInv'
<1>1. /\ known' \in Repo!KnownRecord
      /\ route.page = "list" => known'.list = known.list
      /\ \A p \in Repos : /\ known'.copy[p] \in {known.copy[p], Repo!NoCopy}
                          /\ p \in scope => known'.copy[p] = Repo!NoCopy \/ p \in known'.fetching
                          /\ p \in known.fetching => p \in known'.fetching
  BY InvalidateFacts
<1>2. /\ calls' \in [Calls -> Repo!CallRecord] /\ calls'[i] = Repo!NoCall
      /\ \A j \in Calls \ {i} : calls'[j] = calls[j]
  BY NoCallFacts DEF Repo!RepoInv, Repo!RepoTypes
<1>3. Repo!RepoTypes'
  BY <1>1, <1>2 DEF Repo!RepoInv, Repo!RepoTypes
<1>4. Repo!Mounted'
  BY <1>1 DEF Repo!RepoInv, Repo!Mounted, Repo!Rows
<1>5. Repo!LiveFits'
  BY <1>2, NoCallFacts DEF Repo!RepoInv, Repo!LiveFits
<1>6. Repo!CopyIsStored'
  <2>1. ASSUME NEW p \in Repos, known'.copy[p] # Repo!NoCopy, p \notin known'.fetching,
               \A j \in Calls : ~(calls'[j].kind = "update" /\ calls'[j].repo = p)
        PROVE  known'.copy[p] = stored.settings[p]
    <3>1. known'.copy[p] = known.copy[p] /\ p \notin known.fetching /\ p \notin scope
      BY <1>1, <2>1
    <3>2. \A j \in Calls : ~(calls[j].kind = "update" /\ calls[j].repo = p)
      BY <1>2, <2>1, <3>1
    <3>3. QED
      BY <2>1, <3>1, <3>2 DEF Repo!RepoInv, Repo!CopyIsStored, Repo!Cached
  <2>2. QED
    BY <2>1 DEF Repo!CopyIsStored, Repo!Cached
<1>7. Repo!DraftFits'
  BY <1>2, NoCallFacts DEF Repo!RepoInv, Repo!DraftFits
<1>8. Repo!DeletedByName' /\ Repo!SecretFitsPage'
  BY <1>2, NoCallFacts DEF Repo!RepoInv, Repo!DeletedByName, Repo!SecretFitsPage
<1>9. QED
  BY <1>3, <1>4, <1>5, <1>6, <1>7, <1>8 DEF Repo!RepoInv

LEMMA RepoAnswerStep ==
    ASSUME Repo!RepoInv, NEW i \in Calls,
           \/ Repo!AnswerError(i) \/ Repo!AnswerUpdate(i) \/ Repo!AnswerPause(i)
           \/ Repo!AnswerRegenerate(i) \/ Repo!AnswerCreate(i)
    PROVE  Repo!RepoInv'
<1> DEFINE c == calls[i]
<1>1. /\ c \in Repo!CallRecord /\ calls' = [calls EXCEPT ![i] = Repo!NoCall]
      /\ UNCHANGED <<stored, route>>
  BY DEF Repo!RepoInv, Repo!RepoTypes, Repo!AnswerError, Repo!AnswerUpdate, Repo!AnswerPause,
     Repo!AnswerRegenerate, Repo!AnswerCreate, Repo!Answered, Repo!Done
<1>2. /\ content \in Repo!ContentRecord
      /\ creation \in [linked : BOOLEAN, secret : BOOLEAN, made : Nat, lost : BOOLEAN]
  BY DEF Repo!RepoInv, Repo!RepoTypes
<1>3. calls'[i] = Repo!NoCall /\ \A j \in Calls \ {i} : calls'[j] = calls[j]
  BY <1>1 DEF Repo!RepoInv, Repo!RepoTypes
<1>4. ASSUME creation' = creation, ~(c.live /\ c.kind = "create" /\ c.answer = "ok")
      PROVE  Repo!MadeOnce'
  BY <1>3, <1>4, NoCallFacts DEF Repo!RepoInv, Repo!MadeOnce
<1>5. PICK scope \in SUBSET Repos : Repo!Invalidate(scope) /\ (c.kind = "update" => scope = Repos)
  <2>1. c.kind = "pause" => c.repo \in Repos
    BY DEF Repo!RepoInv, Repo!LiveFits
  <2>2. QED
    BY <1>1, <2>1 DEF Repo!AnswerError, Repo!AnswerUpdate, Repo!AnswerPause,
       Repo!AnswerRegenerate, Repo!AnswerCreate, Repo!Answered, Repo!CallRecord
<1>6. CASE Repo!AnswerError(i) \/ Repo!AnswerPause(i)
  <2>1. UNCHANGED <<content, creation>> /\ ~(c.live /\ c.kind = "create" /\ c.answer = "ok")
    BY <1>6 DEF Repo!AnswerError, Repo!AnswerPause, Repo!Answered
  <2>2. content.shown # Repo!NoRepo /\ ~content.behind =>
           \A f \in Fields \ content.edited : content.draft[f] = stored.settings[content.shown][f]
    BY DEF Repo!RepoInv, Repo!DraftFits
  <2>3. content.secret # Repo!NoRepo /\ ~content.early => content.secret = content.shown
    BY DEF Repo!RepoInv, Repo!SecretFitsPage
  <2>4. QED
    BY <1>1, <1>2, <1>4, <1>5, <2>1, <2>2, <2>3, Taken, ZenonT(40)
<1>7. CASE Repo!AnswerCreate(i)
  <2>1. /\ c.kind = "create" /\ c.answer = "ok" /\ UNCHANGED content
        /\ creation' = IF c.live THEN [creation EXCEPT !.secret = TRUE] ELSE creation
    BY <1>7 DEF Repo!AnswerCreate, Repo!Answered
  <2>2. content.shown # Repo!NoRepo /\ ~content.behind =>
           \A f \in Fields \ content.edited : content.draft[f] = stored.settings[content.shown][f]
    BY DEF Repo!RepoInv, Repo!DraftFits
  <2>3. content.secret # Repo!NoRepo /\ ~content.early => content.secret = content.shown
    BY DEF Repo!RepoInv, Repo!SecretFitsPage
  <2>4. creation' \in [linked : BOOLEAN, secret : BOOLEAN, made : Nat, lost : BOOLEAN]
    BY <1>2, <2>1
  <2>5. Repo!MadeOnce'
    <3>1. CASE ~c.live
      BY <1>4, <2>1, <3>1
    <3>2. CASE c.live
      <4>1. \A j \in Calls : ~(calls'[j].live /\ calls'[j].kind = "create")
        BY <1>3, <2>1, <3>2, NoCallFacts DEF Repo!RepoInv, Repo!LiveFits
      <4>2. /\ creation'.secret /\ (creation'.lost <=> creation.lost)
            /\ creation'.made = creation.made
        BY <1>2, <2>1, <3>2
      <4>3. QED
        BY <4>1, <4>2 DEF Repo!RepoInv, Repo!MadeOnce
    <3>3. QED
      BY <3>1, <3>2
  <2>6. QED
    BY <1>1, <1>2, <1>5, <2>1, <2>2, <2>3, <2>4, <2>5, Taken
<1>8. CASE Repo!AnswerRegenerate(i)
  <2>1. /\ c.kind = "regenerate" /\ UNCHANGED creation
        /\ content' = IF ~c.live THEN content
                      ELSE [content EXCEPT !.secret = c.repo, !.early = c.early,
                               !.dialog = IF @ = "confirmSecret" THEN "none" ELSE @]
    BY <1>8 DEF Repo!AnswerRegenerate, Repo!Answered
  <2>2. Repo!MadeOnce'
    BY <1>4, <2>1
  <2>3. content.shown # Repo!NoRepo /\ ~content.behind =>
           \A f \in Fields \ content.edited : content.draft[f] = stored.settings[content.shown][f]
    BY DEF Repo!RepoInv, Repo!DraftFits
  <2>4. content.secret # Repo!NoRepo /\ ~content.early => content.secret = content.shown
    BY DEF Repo!RepoInv, Repo!SecretFitsPage
  <2>5. c.live => c.repo \in Repos /\ (c.repo = content.shown \/ c.early)
    BY <2>1 DEF Repo!RepoInv, Repo!LiveFits
  <2>6. /\ content' \in Repo!ContentRecord
        /\ content'.shown = content.shown /\ (content'.behind <=> content.behind)
        /\ content'.draft = content.draft /\ content'.edited = content.edited
        /\ content'.row = content.row /\ content'.named = content.named
        /\ content'.dialog \in {"none", content.dialog}
    BY <1>1, <1>2, <2>1, <2>5, ZenonT(40) DEF Repo!CallRecord
  <2>7. content'.secret # Repo!NoRepo /\ ~content'.early => content'.secret = content.shown
    BY <1>2, <2>1, <2>4, <2>5
  <2>8. QED
    BY <1>1, <1>2, <1>5, <2>1, <2>2, <2>3, <2>6, <2>7, Taken, ZenonT(40)
<1>9. CASE Repo!AnswerUpdate(i)
  <2>1. /\ c.kind = "update" /\ c.answer = "ok" /\ UNCHANGED creation
        /\ content' =
              IF ~c.live THEN content
              ELSE CASE c.field = "branches" ->
                          [content EXCEPT !.dialog = IF @ = "branches" THEN "none" ELSE @]
                     [] c.field = "limit" ->
                          [content EXCEPT !.edited = IF content.draft.limit = c.value THEN Repo!Saved(c) ELSE @]
                     [] OTHER -> [content EXCEPT !.draft[c.field] = c.value, !.edited = Repo!Saved(c)]
    BY <1>9 DEF Repo!AnswerUpdate, Repo!Answered
  <2>2. Repo!MadeOnce'
    BY <1>4, <2>1
  <2>3. content.secret # Repo!NoRepo /\ ~content.early => content.secret = content.shown
    BY DEF Repo!RepoInv, Repo!SecretFitsPage
  <2>4. c.field \in Fields \cup {"branches"} /\ (c.live => c.repo \in Repos)
    BY <2>1 DEF Repo!RepoInv, Repo!LiveFits
  <2>5. content.shown # Repo!NoRepo /\ ~content.behind =>
           /\ \A f \in Fields \ content.edited : content.draft[f] = stored.settings[content.shown][f]
           /\ c.live /\ c.field \in Fields \ content.edited => c.value = content.draft[c.field]
           /\ c.repo = content.shown /\ c.field \in Fields =>
                 stored.settings[content.shown][c.field] = c.value
    BY <2>1 DEF Repo!RepoInv, Repo!DraftFits
  <2>6. CASE ~c.live \/ c.field = "branches"
    <3> DEFINE d == IF content.dialog = "branches" THEN "none" ELSE content.dialog
    <3>0. content' = content \/ (content' = [content EXCEPT !.dialog = d] /\ d \in {"none", content.dialog})
      <4>1. CASE ~c.live
        BY <2>1, <4>1
      <4>2. CASE c.live /\ c.field = "branches"
        <5>1. content' = [content EXCEPT !.dialog = IF @ = "branches" THEN "none" ELSE @]
          BY <2>1, <4>2
        <5>2. QED
          BY <5>1
      <4>3. QED
        BY <2>6, <4>1, <4>2
    <3> HIDE DEF d
    <3>1. /\ content' \in Repo!ContentRecord
          /\ content'.shown = content.shown /\ (content'.behind <=> content.behind)
          /\ content'.draft = content.draft /\ content'.edited = content.edited
          /\ content'.row = content.row /\ content'.named = content.named
          /\ content'.secret = content.secret /\ (content'.early <=> content.early)
          /\ content'.dialog \in {"none", content.dialog}
      BY <1>2, <3>0
    <3>a. UNCHANGED creation
      BY <2>1
    <3>2. QED
      BY <1>1, <1>2, <1>5, <2>2, <2>3, <2>5, <3>1, <3>a, Taken
  <2>7. CASE c.live /\ c.field # "branches"
    <3>1. Repo!Saved(c) = (IF c.repo = content.shown THEN content.edited \ {c.field} ELSE content.edited)
      BY DEF Repo!Saved
    <3>2. PICK d \in Repo!Settings, e \in SUBSET Fields :
             /\ content' = [content EXCEPT !.draft = d, !.edited = e]
             /\ content.shown # Repo!NoRepo /\ ~content.behind =>
                   \A f \in Fields \ e : d[f] = stored.settings[content.shown][f]
      <4>1. CASE c.field = "limit"
        <5> DEFINE e == IF content.draft["limit"] = c.value THEN Repo!Saved(c) ELSE content.edited
        <5>1. e \in SUBSET Fields
          BY <1>2, <3>1
        <5>2. content' = [content EXCEPT !.draft = content.draft, !.edited = e]
          BY <1>2, <2>1, <2>7, <4>1
        <5>3. content.shown # Repo!NoRepo /\ ~content.behind =>
                 \A f \in Fields \ e : content.draft[f] = stored.settings[content.shown][f]
          BY <2>4, <2>5, <3>1, <4>1
        <5> HIDE DEF e
        <5>4. QED
          BY <1>2, <5>1, <5>2, <5>3
      <4>2. CASE c.field # "limit"
        <5> DEFINE d == [content.draft EXCEPT ![c.field] = c.value]
        <5>1. /\ d \in Repo!Settings /\ Repo!Saved(c) \in SUBSET Fields
              /\ \A f \in Fields : d[f] = IF f = c.field THEN c.value ELSE content.draft[f]
          BY <1>1, <1>2, <2>4, <2>7, <3>1 DEF Repo!Settings, Repo!CallRecord
        <5>2. content' = [content EXCEPT !.draft = d, !.edited = Repo!Saved(c)]
          BY <1>2, <2>1, <2>7, <4>2
        <5> HIDE DEF d
        <5>3. content.shown # Repo!NoRepo /\ ~content.behind =>
                 \A f \in Fields \ Repo!Saved(c) : d[f] = stored.settings[content.shown][f]
          BY <2>4, <2>5, <2>7, <3>1, <5>1
        <5>4. QED
          BY <5>1, <5>2, <5>3
      <4>3. QED
        BY <4>1, <4>2
    <3>3. /\ content' \in Repo!ContentRecord
          /\ content'.shown = content.shown /\ (content'.behind <=> content.behind)
          /\ content'.draft = d /\ content'.edited = e
          /\ content'.row = content.row /\ content'.named = content.named
          /\ content'.dialog = content.dialog
          /\ content'.secret = content.secret /\ (content'.early <=> content.early)
      BY <1>2, <3>2
    <3>4. \A j \in Calls \ {i} : ~(calls[j].kind = "update" /\ calls[j].live)
      BY <2>1, <2>7 DEF Repo!RepoInv, Repo!LiveFits
    <3>5. QED
      BY <1>1, <1>2, <1>5, <2>1, <2>2, <2>3, <3>2, <3>3, <3>4, Taken, ZenonT(40)
  <2>8. QED
    BY <2>6, <2>7
<1>10. QED
  BY <1>6, <1>7, <1>8, <1>9

LEMMA DeleteAnswerStep ==
    ASSUME Repo!RepoInv, NEW i \in Calls, Repo!AnswerDelete(i)
    PROVE  Repo!RepoInv'
<1> DEFINE c == calls[i]
<1>1. /\ c \in Repo!CallRecord /\ c.kind = "delete" /\ c.answer = "ok" /\ UNCHANGED stored
      /\ Repo!Invalidate(Repos)
      /\ c.repo \in Repos /\ c.repo # Repo!NoRepo
  BY RepoAssumed DEF Repo!RepoInv, Repo!RepoTypes, Repo!LiveFits, Repo!AnswerDelete, Repo!Answered
<1>2. content \in Repo!ContentRecord
      /\ creation \in [linked : BOOLEAN, secret : BOOLEAN, made : Nat, lost : BOOLEAN]
  BY DEF Repo!RepoInv, Repo!RepoTypes
<1>3. CASE c.from = "list"
  <2>1. /\ calls' = [calls EXCEPT ![i] = Repo!NoCall] /\ UNCHANGED <<route, creation>>
        /\ content' = IF c.live /\ content.row = c.repo THEN Repo!NoContent ELSE content
    BY <1>3 DEF Repo!AnswerDelete, Repo!Done
  <2>2. calls'[i] = Repo!NoCall /\ \A j \in Calls \ {i} : calls'[j] = calls[j]
    BY <2>1 DEF Repo!RepoInv, Repo!RepoTypes
  <2>3. Repo!MadeOnce'
    BY <1>1, <2>1, <2>2, NoCallFacts DEF Repo!RepoInv, Repo!MadeOnce
  <2>4. /\ content.shown # Repo!NoRepo /\ ~content.behind =>
              \A f \in Fields \ content.edited : content.draft[f] = stored.settings[content.shown][f]
        /\ content.secret # Repo!NoRepo /\ ~content.early => content.secret = content.shown
    BY DEF Repo!RepoInv, Repo!DraftFits, Repo!SecretFitsPage
  <2>5. CASE content' = content
    BY <1>1, <1>2, <2>1, <2>3, <2>4, <2>5, Taken
  <2>6. CASE content' = Repo!NoContent /\ content.row = c.repo
    <3>1. content.shown = Repo!NoRepo
      BY <1>1, <2>6 DEF Repo!RepoInv, Repo!Mounted, Repo!Rows
    <3>2. /\ content' \in Repo!ContentRecord
          /\ content'.shown = Repo!NoRepo /\ content'.row = Repo!NoRepo
          /\ content'.dialog = "none"
          /\ content'.secret = Repo!NoRepo
      BY <2>6, NoContentFacts
    <3>3. QED
      BY <1>1, <1>2, <2>1, <2>3, <3>1, <3>2, Taken
  <2>7. QED
    BY <2>1, <2>5, <2>6
<1>4. CASE c.from # "list"
  <2> DEFINE r(j) == IF j = i THEN Repo!NoCall ELSE [calls[j] EXCEPT !.live = FALSE]
  <2>1. /\ calls' = [j \in Calls |-> r(j)]
        /\ content' = Repo!NoContent /\ creation' = Repo!NoCreation
        /\ route' = [page |-> "list", repo |-> Repo!NoRepo]
    BY <1>4 DEF Repo!AnswerDelete, Repo!ToPage
  <2>2. ASSUME NEW j \in Calls
        PROVE  /\ r(j) \in Repo!CallRecord /\ ~r(j).live /\ r(i) = Repo!NoCall
               /\ j # i => /\ r(j).kind = calls[j].kind /\ r(j).repo = calls[j].repo
                           /\ r(j).field = calls[j].field /\ r(j).named = calls[j].named
                           /\ (r(j).early <=> calls[j].early)
    <3>1. calls[j] \in Repo!CallRecord
      BY DEF Repo!RepoInv, Repo!RepoTypes
    <3>2. QED
      BY <3>1, NoCallFacts DEF Repo!CallRecord
  <2> HIDE DEF r
  <2>3. /\ calls' \in [Calls -> Repo!CallRecord] /\ calls'[i] = Repo!NoCall
        /\ \A j \in Calls : /\ ~calls'[j].live
                            /\ j # i => /\ calls'[j].kind = calls[j].kind /\ calls'[j].repo = calls[j].repo
                                        /\ calls'[j].field = calls[j].field
                                        /\ calls'[j].named = calls[j].named
                                        /\ (calls'[j].early <=> calls[j].early)
    BY <2>1, <2>2
  <2>4. /\ known' \in Repo!KnownRecord
        /\ \A p \in Repos : known'.copy[p] = Repo!NoCopy \/ p \in known'.fetching
    BY <1>1, InvalidateFacts
  <2>5. Repo!RepoTypes'
    BY <1>1, <2>1, <2>3, <2>4, NoContentFacts DEF Repo!RepoInv, Repo!RepoTypes, Repo!PageNames
  <2>6. Repo!Mounted'
    BY <2>1, NoContentFacts DEF Repo!Mounted
  <2>7. Repo!LiveFits'
    BY <2>3, NoCallFacts DEF Repo!RepoInv, Repo!LiveFits
  <2>8. Repo!MadeOnce'
    BY <2>1, NoContentFacts DEF Repo!MadeOnce
  <2>9. Repo!CopyIsStored'
    BY <2>4 DEF Repo!CopyIsStored, Repo!Cached
  <2>10. Repo!DraftFits' /\ Repo!SecretFitsPage'
    BY <2>1, NoContentFacts DEF Repo!DraftFits, Repo!SecretFitsPage
  <2>11. Repo!DeletedByName'
    BY <2>3, NoCallFacts DEF Repo!RepoInv, Repo!DeletedByName
  <2>12. QED
    BY <2>5, <2>6, <2>7, <2>8, <2>9, <2>10, <2>11 DEF Repo!RepoInv
<1>5. QED
  BY <1>3, <1>4

LEMMA GithubStep ==
    ASSUME Repo!RepoInv, Repo!GithubChanges
    PROVE  Repo!RepoInv'
<1>1. /\ creation' \in [linked : BOOLEAN, secret : BOOLEAN, made : Nat, lost : BOOLEAN]
      /\ creation'.secret = creation.secret /\ creation'.made = creation.made
      /\ creation'.lost = creation.lost
      /\ UNCHANGED <<stored, route, known, content, calls>>
  BY DEF Repo!GithubChanges, Repo!RepoInv, Repo!RepoTypes
<1>2. Repo!RepoTypes' /\ Repo!MadeOnce'
  BY <1>1 DEF Repo!RepoInv, Repo!RepoTypes, Repo!MadeOnce
<1>3. Repo!Mounted' /\ Repo!LiveFits' /\ Repo!CopyIsStored'
  BY <1>1 DEF Repo!RepoInv, Repo!Mounted, Repo!Rows, Repo!LiveFits, Repo!CopyIsStored, Repo!Cached
<1>4. Repo!DraftFits' /\ Repo!DeletedByName' /\ Repo!SecretFitsPage'
  BY <1>1 DEF Repo!RepoInv, Repo!DraftFits, Repo!DeletedByName, Repo!SecretFitsPage
<1>5. QED
  BY <1>2, <1>3, <1>4 DEF Repo!RepoInv

LEMMA RepoStart == Repo!RepoInit => Repo!RepoInv
<1> SUFFICES ASSUME Repo!RepoInit PROVE Repo!RepoInv
  OBVIOUS
<1>1. /\ calls \in [Calls -> Repo!CallRecord] /\ \A i \in Calls : calls[i] = Repo!NoCall
  BY NoCallFacts DEF Repo!RepoInit
<1>2. known.copy = [p \in Repos |-> Repo!NoCopy] /\ known \in Repo!KnownRecord
  BY DEF Repo!RepoInit
<1>3. Repo!RepoTypes
  BY <1>1, <1>2, NoContentFacts DEF Repo!RepoInit, Repo!RepoTypes, Repo!PageNames
<1>4. Repo!Mounted
  BY NoContentFacts DEF Repo!RepoInit, Repo!Mounted
<1>5. Repo!LiveFits /\ Repo!DeletedByName
  BY <1>1, NoCallFacts DEF Repo!LiveFits, Repo!DeletedByName
<1>6. Repo!MadeOnce
  BY NoContentFacts DEF Repo!RepoInit, Repo!MadeOnce
<1>7. Repo!CopyIsStored
  BY <1>2 DEF Repo!CopyIsStored, Repo!Cached
<1>8. Repo!DraftFits /\ Repo!SecretFitsPage
  BY NoContentFacts DEF Repo!RepoInit, Repo!DraftFits, Repo!SecretFitsPage
<1>9. QED
  BY <1>3, <1>4, <1>5, <1>6, <1>7, <1>8 DEF Repo!RepoInv

LEMMA RepoStep == Repo!RepoInv /\ [Repo!RepoNext]_repoVars => Repo!RepoInv'
<1> SUFFICES ASSUME Repo!RepoInv, [Repo!RepoNext]_repoVars PROVE Repo!RepoInv'
  OBVIOUS
<1>1. CASE Repo!RepoNext
  BY <1>1, NavigationStep, QueryStep, UserStep, RepoRequestStep, RepoServeStep, RepoAnswerStep,
     DeleteAnswerStep, GithubStep DEF Repo!RepoNext
<1>2. CASE UNCHANGED repoVars
  BY <1>2 DEF repoVars, Repo!RepoInv, Repo!RepoTypes, Repo!Mounted, Repo!Rows, Repo!LiveFits,
     Repo!MadeOnce, Repo!CopyIsStored, Repo!Cached, Repo!DraftFits, Repo!DeletedByName,
     Repo!SecretFitsPage
<1>3. QED
  BY <1>1, <1>2

LEMMA RepoImplied ==
    ASSUME Repo!RepoInv
    PROVE  /\ Repo!RepoTypeOK /\ Repo!UntouchedDraftIsStored
           /\ Repo!OneRepositoryPerForm
<1>1. Repo!RepoTypeOK
  BY DEF Repo!RepoInv, Repo!RepoTypes, Repo!Mounted, Repo!LiveFits, Repo!RepoTypeOK,
     Repo!Settings, Repo!PageNames
<1>2. Repo!UntouchedDraftIsStored
  BY DEF Repo!RepoInv, Repo!DraftFits, Repo!UntouchedDraftIsStored, Repo!Detail
<1>3. Repo!OneRepositoryPerForm
  BY DEF Repo!RepoInv, Repo!RepoTypes, Repo!MadeOnce, Repo!OneRepositoryPerForm
<1>4. QED
  BY <1>1, <1>2, <1>3

HIDE DEF Repo!ContentRecord, Repo!KnownRecord

----------------------------------------------------------------------------
(* Paths: sequences of names; a folder is what its files begin with. *)

\* A path lies under a folder when it goes on after the folder's names.
Under(p, f) == Len(p) < Len(f) /\ \A i \in 1 .. Len(p) : p[i] = f[i]

LEMMA SubPath ==
    ASSUME NEW S, NEW f \in Seq(S), NEW n \in 0 .. Len(f)
    PROVE  /\ SubSeq(f, 1, n) \in Seq(S) /\ Len(SubSeq(f, 1, n)) = n
           /\ \A i \in 1 .. n : SubSeq(f, 1, n)[i] = f[i]
           /\ n < Len(f) => Under(SubSeq(f, 1, n), f)
<1>1. \A i \in 1 .. n : f[i] \in S
  OBVIOUS
<1>2. /\ SubSeq(f, 1, n) \in Seq(S) /\ Len(SubSeq(f, 1, n)) = IF 1 <= n THEN n - 1 + 1 ELSE 0
      /\ \A i \in 1 .. n - 1 + 1 : SubSeq(f, 1, n)[i] = f[1 + i - 1]
  BY <1>1, SubSeqProperties
<1>3. /\ Len(SubSeq(f, 1, n)) = n /\ \A i \in 1 .. n : SubSeq(f, 1, n)[i] = f[i]
  BY <1>2
<1>4. QED
  BY <1>2, <1>3 DEF Under

LEMMA UnderTransitive ==
    ASSUME NEW S, NEW p \in Seq(S), NEW q \in Seq(S), NEW f \in Seq(S),
           Under(q, f), NEW i \in 0 .. Len(q), p = SubSeq(q, 1, i)
    PROVE  Under(p, f)
BY SubPath DEF Under

----------------------------------------------------------------------------
(* The path pickers: Picker!PickerInv is inductive. *)

USE DEF Picker!PickerRecord

LEMMA PickerAssumed ==
    /\ TargetFiles \cup OwnPaths \cup TypedPaths \subseteq Seq(Picker!Names)
    /\ \A f \in TargetFiles \cup OwnPaths : f # <<>>
BY FrontendAssumption DEF FrontendAssumption, Picker!PickerAssumption

LEMMA PickerPrefix ==
    ASSUME NEW S, NEW p \in Seq(S), NEW f \in Seq(S)
    PROVE  Picker!IsStrictPrefix(p, f) <=> Under(p, f)
<1>1. ASSUME Picker!IsStrictPrefix(p, f) PROVE Under(p, f)
  <2>1. Len(p) <= Len(f) /\ SubSeq(p, 1, Len(p)) = SubSeq(f, 1, Len(p)) /\ p # f
    BY <1>1 DEF Picker!IsStrictPrefix, Picker!IsPrefix
  <2>2. \A i \in 1 .. Len(p) : p[i] = f[i]
    BY <2>1, SubPath
  <2>3. Len(p) # Len(f)
    BY <2>1, <2>2, SeqEqual
  <2>4. QED
    BY <2>1, <2>2, <2>3 DEF Under
<1>2. ASSUME Under(p, f) PROVE Picker!IsStrictPrefix(p, f)
  <2>1. Len(p) < Len(f) /\ \A i \in 1 .. Len(p) : p[i] = f[i]
    BY <1>2 DEF Under
  <2>2. SubSeq(p, 1, Len(p)) = SubSeq(f, 1, Len(p))
    <3>1. /\ SubSeq(p, 1, Len(p)) \in Seq(S) /\ Len(SubSeq(p, 1, Len(p))) = Len(p)
          /\ \A i \in 1 .. Len(p) : SubSeq(p, 1, Len(p))[i] = p[i]
      BY SubPath
    <3>2. /\ SubSeq(f, 1, Len(p)) \in Seq(S) /\ Len(SubSeq(f, 1, Len(p))) = Len(p)
          /\ \A i \in 1 .. Len(p) : SubSeq(f, 1, Len(p))[i] = f[i]
      BY <2>1, SubPath
    <3>3. QED
      BY <2>1, <3>1, <3>2, SeqEqual
  <2>3. QED
    BY <2>1, <2>2 DEF Picker!IsStrictPrefix, Picker!IsPrefix
<1>3. QED
  BY <1>1, <1>2


\* The folder of a file, and the file in its folder.
LEMMA FrontFacts ==
    ASSUME NEW f \in Seq(Picker!Names), f # <<>>
    PROVE  /\ Picker!Front(f) \in Seq(Picker!Names) /\ Under(Picker!Front(f), f)
           /\ Picker!Last(f) \in Picker!Names
<1>1. Len(f) \in Nat \ {0} /\ f[Len(f)] \in Picker!Names
  <2>1. Len(f) \in Nat \ {0}
    BY EmptySeq, Zenon
  <2>2. QED
    BY <2>1
<1>2. Len(f) - 1 \in 0 .. Len(f) /\ Len(f) - 1 < Len(f)
  BY <1>1
<1>3. SubSeq(f, 1, Len(f) - 1) \in Seq(Picker!Names) /\ Under(SubSeq(f, 1, Len(f) - 1), f)
  BY <1>2, SubPath
<1>4. QED
  BY <1>1, <1>3 DEF Picker!Front, Picker!Last

LEMMA AppendFacts ==
    ASSUME NEW d \in Seq(Picker!Names), NEW n \in Picker!Names
    PROVE  /\ Append(d, n) \in Seq(Picker!Names) /\ Append(d, n) # <<>>
           /\ Picker!Last(Append(d, n)) = n /\ Picker!Front(Append(d, n)) = d
<1>1. /\ Append(d, n) \in Seq(Picker!Names) /\ Append(d, n) # <<>>
      /\ Len(Append(d, n)) = Len(d) + 1
      /\ \A i \in 1 .. Len(d) : Append(d, n)[i] = d[i]
      /\ Append(d, n)[Len(d) + 1] = n
  BY AppendProperties
<1>2. Picker!Front(Append(d, n)) = SubSeq(Append(d, n), 1, Len(d))
  BY <1>1 DEF Picker!Front
<1>3. Picker!Front(Append(d, n)) = d
  BY <1>1, <1>2, SubPath, SeqEqual
<1>4. QED
  BY <1>1, <1>3 DEF Picker!Last

LEMMA FolderMeaning ==
    ASSUME NEW d \in Seq(Picker!Names), NEW own \in Seq(Picker!Names)
    PROVE  Picker!IsFolder(d, own) <=> d = <<>> \/ \E f \in TargetFiles \cup {own} : Under(d, f)
BY PickerAssumed, PickerPrefix DEF Picker!IsFolder

\* Every folder that can be clicked is one.
LEMMA FolderClicked ==
    ASSUME Picker!PickerTypes, Picker!FolderExists, picker.dialog # "none",
           NEW folder \in Picker!FolderClicks
    PROVE  folder \in Seq(Picker!Names) /\ Picker!IsFolder(folder, picker.own)
<1>1. picker.browse \in Seq(Picker!Names) /\ picker.own \in Seq(Picker!Names)
  BY PickerAssumed DEF Picker!PickerTypes
<1>2. CASE folder \in Picker!PickerFolders(picker.browse)
  <2>1. PICK f \in TargetFiles : Len(f) > Len(picker.browse) + 1 /\ folder = SubSeq(f, 1, Len(picker.browse) + 1)
    BY <1>2 DEF Picker!PickerFolders
  <2>2. f \in Seq(Picker!Names) /\ Len(picker.browse) + 1 \in 0 .. Len(f)
    BY <1>1, <2>1, PickerAssumed
  <2>3. folder \in Seq(Picker!Names) /\ Under(folder, f)
    BY <2>1, <2>2, SubPath
  <2>4. QED
    BY <1>1, <2>3, FolderMeaning
<1>3. CASE folder \in Picker!PickerBreadcrumbs(picker.browse)
  <2>1. PICK i \in 0 .. Len(picker.browse) : folder = SubSeq(picker.browse, 1, i)
    BY <1>3 DEF Picker!PickerBreadcrumbs
  <2>2. folder \in Seq(Picker!Names) /\ Len(folder) = i
    BY <1>1, <2>1, SubPath
  <2>3. CASE picker.browse = <<>>
    <3>1. Len(folder) = 0
      BY <2>1, <2>2, <2>3
    <3>2. folder = <<>>
      BY <2>2, <3>1, EmptySeq
    <3>3. QED
      BY <3>2 DEF Picker!IsFolder
  <2>4. CASE picker.browse # <<>>
    <3>1. PICK f \in TargetFiles \cup {picker.own} : Under(picker.browse, f)
      BY <1>1, <2>4, FolderMeaning DEF Picker!FolderExists
    <3>2. f \in Seq(Picker!Names)
      BY <1>1, PickerAssumed
    <3>3. Under(folder, f)
      BY <1>1, <2>1, <2>2, <3>1, <3>2, UnderTransitive
    <3>4. QED
      BY <1>1, <2>2, <3>3, FolderMeaning
  <2>5. QED
    BY <2>3, <2>4
<1>4. QED
  BY <1>2, <1>3 DEF Picker!FolderClicks

\* A picker that is opened, moved or typed into, and not yet applied.
LEMMA PickerMoved ==
    ASSUME Picker!PickerInv, UNCHANGED chosen,
           picker' \in Picker!PickerRecord,
           picker'.dialog # "none" =>
               /\ picker'.own \in OwnPaths /\ Picker!IsFolder(picker'.browse, picker'.own)
               /\ ~picker'.typed =>
                     /\ picker'.target # <<>>
                     /\ Picker!Last(picker'.target) \in {Picker!Last(f) : f \in TargetFiles \cup {picker'.own}}
                     /\ Picker!IsFolder(Picker!Front(picker'.target), picker'.own)
    PROVE  Picker!PickerInv'
<1>1. Picker!PickerTypes' /\ Picker!FolderExists' /\ Picker!TargetNamesFile'
  BY DEF Picker!PickerTypes, Picker!FolderExists, Picker!TargetNamesFile, Picker!IsFolder
<1>2. Picker!ClickedPathNamesFile'
  BY DEF Picker!PickerInv, Picker!ClickedPathNamesFile
<1>3. QED
  BY <1>1, <1>2 DEF Picker!PickerInv

LEMMA PickerStart == Picker!PickerInit => Picker!PickerInv
<1> SUFFICES ASSUME Picker!PickerInit PROVE Picker!PickerInv
  OBVIOUS
<1>1. Picker!PickerTypes /\ Picker!FolderExists /\ Picker!TargetNamesFile
  BY DEF Picker!PickerInit, Picker!PickerClosed, Picker!PickerTypes, Picker!FolderExists,
     Picker!TargetNamesFile
<1>2. Picker!ClickedPathNamesFile
  BY DEF Picker!PickerInit, Picker!ClickedPathNamesFile
<1>3. QED
  BY <1>1, <1>2 DEF Picker!PickerInv

LEMMA PickerStep == Picker!PickerInv /\ [Picker!PickerNext]_pickerVars => Picker!PickerInv'
<1> SUFFICES ASSUME Picker!PickerInv, [Picker!PickerNext]_pickerVars PROVE Picker!PickerInv'
  OBVIOUS
<1>1. /\ picker \in Picker!PickerRecord
      /\ picker.own \in Seq(Picker!Names) /\ (picker.dialog # "none" => picker.own \in OwnPaths)
  BY PickerAssumed, EmptySeq DEF Picker!PickerInv, Picker!PickerTypes
<1>2. ASSUME NEW own \in OwnPaths, Picker!OpenPublishDialog(own) \/ Picker!OpenFilePathPicker(own)
      PROVE  Picker!PickerInv'
  <2>1. /\ own \in Seq(Picker!Names) /\ own # <<>> /\ Picker!Front(own) \in Seq(Picker!Names)
        /\ Under(Picker!Front(own), own)
    BY PickerAssumed, FrontFacts
  <2>2. Picker!IsFolder(Picker!Front(own), own) /\ Picker!IsFolder(<<>>, own)
    BY <2>1, FolderMeaning DEF Picker!IsFolder
  <2>3. /\ picker' \in Picker!PickerRecord
        /\ picker'.own = own /\ picker'.target = own
        /\ picker'.browse \in {<<>>, Picker!Front(own)}
    BY <1>2, <2>1, EmptySeq DEF Picker!OpenPublishDialog, Picker!OpenFilePathPicker,
       Picker!PickerClosed
  <2>4. UNCHANGED chosen
    BY <1>2 DEF Picker!OpenPublishDialog, Picker!OpenFilePathPicker
  <2>5. QED
    BY <2>1, <2>2, <2>3, <2>4, PickerMoved
<1>3. ASSUME NEW folder \in Picker!FolderClicks, Picker!Navigate(folder)
      PROVE  Picker!PickerInv'
  <2> DEFINE n == Picker!NameOf(picker.target)
  <2>1. folder \in Seq(Picker!Names) /\ Picker!IsFolder(folder, picker.own) /\ picker.dialog # "none"
    BY <1>3, FolderClicked DEF Picker!Navigate, Picker!PickerInv
  <2>2. n \in Picker!Names /\ (~picker.typed => n = Picker!Last(picker.target))
    <3>1. picker.target # <<>> => Picker!Last(picker.target) \in Picker!Names
      BY <1>1, FrontFacts
    <3>2. n \in Picker!Names
      BY <3>1 DEF Picker!NameOf, Picker!Names
    <3>3. ~picker.typed => picker.target # <<>>
      BY <2>1 DEF Picker!PickerInv, Picker!TargetNamesFile
    <3>4. QED
      BY <3>2, <3>3 DEF Picker!NameOf
  <2> HIDE DEF n
  <2>3. /\ Append(folder, n) \in Seq(Picker!Names) /\ Append(folder, n) # <<>>
        /\ Picker!Last(Append(folder, n)) = n /\ Picker!Front(Append(folder, n)) = folder
    BY <2>1, <2>2, AppendFacts
  <2>4. picker' = [picker EXCEPT !.browse = folder, !.target = Append(folder, n)] /\ UNCHANGED chosen
    BY <1>3 DEF Picker!Navigate, n
  <2>5. /\ picker' \in Picker!PickerRecord
        /\ picker'.own = picker.own /\ picker'.target = Append(folder, n)
        /\ picker'.browse = folder
        /\ (picker'.typed <=> picker.typed)
    BY <1>1, <2>1, <2>3, <2>4
  <2>6. ~picker.typed => n \in {Picker!Last(f) : f \in TargetFiles \cup {picker.own}}
    BY <2>1, <2>2 DEF Picker!PickerInv, Picker!TargetNamesFile
  <2>7. QED
    BY <1>1, <2>1, <2>3, <2>4, <2>5, <2>6, PickerMoved
<1>4. ASSUME NEW file \in TargetFiles, Picker!PickFile(file)
      PROVE  Picker!PickerInv'
  <2>1. file \in Seq(Picker!Names) /\ file # <<>> /\ Picker!Front(file) \in Seq(Picker!Names) /\ Under(Picker!Front(file), file)
    BY PickerAssumed, FrontFacts
  <2>2. Picker!IsFolder(Picker!Front(file), picker.own)
    BY <1>1, <2>1, FolderMeaning
  <2>3. /\ picker' \in Picker!PickerRecord
        /\ picker'.own = picker.own /\ picker'.target = file
        /\ picker'.browse = Picker!Front(file)
        /\ picker.dialog # "none" /\ UNCHANGED chosen
    BY <1>1, <1>4, <2>1 DEF Picker!PickFile
  <2>4. QED
    BY <1>1, <2>1, <2>2, <2>3, PickerMoved
<1>5. ASSUME NEW path \in TypedPaths, Picker!TypePath(path)
      PROVE  Picker!PickerInv'
  <2>1. /\ picker' \in Picker!PickerRecord
        /\ picker'.own = picker.own /\ picker'.browse = picker.browse /\ picker'.typed
        /\ picker.dialog # "none" /\ UNCHANGED chosen
    BY <1>1, <1>5, PickerAssumed DEF Picker!TypePath
  <2>2. QED
    BY <1>1, <2>1, PickerMoved DEF Picker!PickerInv, Picker!FolderExists
<1>6. CASE Picker!Dismiss
  BY <1>6, PickerMoved DEF Picker!Dismiss, Picker!PickerClosed
<1>7. CASE Picker!Apply
  <2>1. /\ picker' = Picker!PickerClosed /\ picker.dialog # "none"
        /\ chosen' = [path |-> Picker!EffectivePath, own |-> picker.own, typed |-> picker.typed]
    BY <1>7 DEF Picker!Apply
  <2>2. Picker!PickerTypes' /\ Picker!FolderExists' /\ Picker!TargetNamesFile'
    BY <2>1 DEF Picker!PickerClosed, Picker!PickerTypes, Picker!FolderExists,
       Picker!TargetNamesFile
  <2>3. ~picker.typed => Picker!EffectivePath = picker.target
    BY <2>1 DEF Picker!EffectivePath, Picker!PickerInv, Picker!TargetNamesFile
  <2>4. Picker!ClickedPathNamesFile'
    BY <2>1, <2>3 DEF Picker!PickerInv, Picker!TargetNamesFile, Picker!IsFolder,
       Picker!ClickedPathNamesFile
  <2>5. QED
    BY <2>2, <2>4 DEF Picker!PickerInv
<1>8. CASE UNCHANGED pickerVars
  BY <1>8 DEF pickerVars, Picker!PickerInv, Picker!PickerTypes, Picker!FolderExists,
     Picker!TargetNamesFile, Picker!ClickedPathNamesFile, Picker!IsFolder
<1>9. QED
  BY <1>2, <1>3, <1>4, <1>5, <1>6, <1>7, <1>8 DEF Picker!PickerNext

HIDE DEF Picker!PickerRecord

----------------------------------------------------------------------------
(* The dialog that starts translations: Trigger!TriggerInv is inductive. *)

USE DEF Trigger!DialogRecord, Trigger!ListsRecord

LEMMA TriggerAssumed ==
    /\ DefaultProject \in Projects /\ Trigger!None \notin Projects
    /\ \A p \in Projects : RepoFiles[p] \subseteq Seq(STRING)
BY FrontendAssumption DEF FrontendAssumption, Trigger!TriggerAssumption

LEMMA TriggerPrefix ==
    ASSUME NEW S, NEW p \in Seq(S), NEW f \in Seq(S)
    PROVE  Trigger!IsStrictPrefix(p, f) <=> Under(p, f)
<1>1. ASSUME Trigger!IsStrictPrefix(p, f) PROVE Under(p, f)
  <2>1. Len(p) <= Len(f) /\ SubSeq(p, 1, Len(p)) = SubSeq(f, 1, Len(p)) /\ p # f
    BY <1>1 DEF Trigger!IsStrictPrefix, Trigger!IsPrefix
  <2>2. \A i \in 1 .. Len(p) : p[i] = f[i]
    BY <2>1, SubPath
  <2>3. Len(p) # Len(f)
    BY <2>1, <2>2, SeqEqual
  <2>4. QED
    BY <2>1, <2>2, <2>3 DEF Under
<1>2. ASSUME Under(p, f) PROVE Trigger!IsStrictPrefix(p, f)
  <2>1. Len(p) < Len(f) /\ \A i \in 1 .. Len(p) : p[i] = f[i]
    BY <1>2 DEF Under
  <2>2. SubSeq(p, 1, Len(p)) = SubSeq(f, 1, Len(p))
    <3>1. /\ SubSeq(p, 1, Len(p)) \in Seq(S) /\ Len(SubSeq(p, 1, Len(p))) = Len(p)
          /\ \A i \in 1 .. Len(p) : SubSeq(p, 1, Len(p))[i] = p[i]
      BY SubPath
    <3>2. /\ SubSeq(f, 1, Len(p)) \in Seq(S) /\ Len(SubSeq(f, 1, Len(p))) = Len(p)
          /\ \A i \in 1 .. Len(p) : SubSeq(f, 1, Len(p))[i] = f[i]
      BY <2>1, SubPath
    <3>3. QED
      BY <2>1, <3>1, <3>2, SeqEqual
  <2>3. QED
    BY <2>1, <2>2 DEF Trigger!IsStrictPrefix, Trigger!IsPrefix
<1>3. QED
  BY <1>1, <1>2


LEMMA ShownFiles ==
    ASSUME Trigger!TriggerTypes
    PROVE  /\ Trigger!AllFiles \subseteq Seq(STRING) /\ Trigger!Resolved \in Projects
           /\ lists.shown # Trigger!None => Trigger!AllFiles = RepoFiles[lists.shown]
           /\ lists.shown = Trigger!None => Trigger!AllFiles = {}
BY TriggerAssumed DEF Trigger!TriggerTypes, Trigger!AllFiles, Trigger!Resolved

\* A folder above a folder with files has files.
LEMMA FolderAbove ==
    ASSUME NEW files \in SUBSET Seq(STRING), NEW d \in Seq(STRING),
           Trigger!FilesUnder(files, d) # {},
           NEW e \in Trigger!Breadcrumbs(d)
    PROVE  e \in Seq(STRING) /\ Trigger!FilesUnder(files, e) # {}
<1>1. PICK i \in 0 .. Len(d) : e = SubSeq(d, 1, i)
  BY DEF Trigger!Breadcrumbs
<1>2. e \in Seq(STRING)
  BY <1>1, SubPath
<1>3. PICK f \in files : f \in Seq(STRING) /\ Under(d, f)
  BY TriggerPrefix DEF Trigger!FilesUnder
<1>4. Under(e, f)
  BY <1>1, <1>2, <1>3, UnderTransitive
<1>5. QED
  BY <1>2, <1>3, <1>4, TriggerPrefix DEF Trigger!FilesUnder

\* A folder that getTreeLevel shows has files.
LEMMA FolderShown ==
    ASSUME NEW files \in SUBSET Seq(STRING), NEW d \in Seq(STRING),
           NEW e \in Trigger!Folders(files, d)
    PROVE  e \in Seq(STRING) /\ Trigger!FilesUnder(files, e) # {}
<1>1. PICK f \in files : f \in Seq(STRING) /\ Len(f) > Len(d) + 1 /\ e = SubSeq(f, 1, Len(d) + 1)
  BY DEF Trigger!Folders, Trigger!FilesUnder
<1>2. e \in Seq(STRING) /\ Under(e, f)
  BY <1>1, SubPath
<1>3. QED
  BY <1>1, <1>2, TriggerPrefix DEF Trigger!FilesUnder

\* getTreeLevel reaches every file under a folder, each in one way.
LEMMA LevelPartitionsFiles ==
    ASSUME NEW files \in SUBSET Seq(STRING), NEW d \in Seq(STRING)
    PROVE  /\ Trigger!FilesUnder(files, d) = Trigger!FilesAtLevel(files, d)
                                        \cup UNION {Trigger!FilesUnder(files, e) : e \in Trigger!Folders(files, d)}
           /\ \A e \in Trigger!Folders(files, d) : Trigger!FilesUnder(files, e) \cap Trigger!FilesAtLevel(files, d) = {}
           /\ \A e, g \in Trigger!Folders(files, d) :
                 e # g => Trigger!FilesUnder(files, e) \cap Trigger!FilesUnder(files, g) = {}
<1> DEFINE n == Len(d) + 1
<1>1. n \in Nat
  OBVIOUS
<1>2. ASSUME NEW e \in Trigger!Folders(files, d)
      PROVE  e \in Seq(STRING) /\ Len(e) = n /\ \A i \in 1 .. Len(d) : e[i] = d[i]
  <2>1. PICK f \in files : f \in Seq(STRING) /\ Under(d, f) /\ Len(f) > n /\ e = SubSeq(f, 1, n)
    BY <1>2, TriggerPrefix DEF Trigger!Folders, Trigger!FilesUnder
  <2>2. e \in Seq(STRING) /\ Len(e) = n /\ \A i \in 1 .. n : e[i] = f[i]
    BY <2>1, SubPath
  <2>3. QED
    BY <2>1, <2>2 DEF Under
<1>3. ASSUME NEW e \in Trigger!Folders(files, d), NEW f \in Trigger!FilesUnder(files, e)
      PROVE  /\ f \in Trigger!FilesUnder(files, d) /\ f \notin Trigger!FilesAtLevel(files, d)
             /\ e = SubSeq(f, 1, n)
  <2>1. f \in files /\ f \in Seq(STRING) /\ e \in Seq(STRING) /\ Under(e, f)
    BY <1>2, <1>3, TriggerPrefix DEF Trigger!FilesUnder
  <2>2. Len(f) > n /\ \A i \in 1 .. n : e[i] = f[i]
    BY <1>2, <2>1 DEF Under
  <2>3. Under(d, f)
    BY <1>2, <2>2 DEF Under
  <2>4. SubSeq(f, 1, n) \in Seq(STRING) /\ Len(SubSeq(f, 1, n)) = n /\ \A i \in 1 .. n : SubSeq(f, 1, n)[i] = f[i]
    BY <2>1, <2>2, SubPath
  <2>5. e = SubSeq(f, 1, n)
    BY <1>2, <2>2, <2>4, SeqEqual
  <2>6. QED
    BY <2>1, <2>2, <2>3, <2>5, TriggerPrefix DEF Trigger!FilesUnder, Trigger!FilesAtLevel
<1>4. ASSUME NEW f \in Trigger!FilesUnder(files, d), f \notin Trigger!FilesAtLevel(files, d)
      PROVE  \E e \in Trigger!Folders(files, d) : f \in Trigger!FilesUnder(files, e)
  <2>1. f \in files /\ f \in Seq(STRING) /\ Under(d, f)
    BY <1>4, TriggerPrefix DEF Trigger!FilesUnder
  <2>2. Len(f) > n
    BY <1>4, <2>1 DEF Under, Trigger!FilesAtLevel
  <2>3. SubSeq(f, 1, n) \in Trigger!Folders(files, d)
    BY <1>4, <2>1, <2>2 DEF Trigger!Folders
  <2>4. SubSeq(f, 1, n) \in Seq(STRING) /\ Under(SubSeq(f, 1, n), f)
    BY <2>1, <2>2, SubPath
  <2>5. QED
    BY <2>1, <2>3, <2>4, TriggerPrefix DEF Trigger!FilesUnder
<1>5. Trigger!FilesAtLevel(files, d) \subseteq Trigger!FilesUnder(files, d)
  BY DEF Trigger!FilesAtLevel
<1>6. QED
  BY <1>3, <1>4, <1>5

----------------------------------------------------------------------------

\* What a list that is asked for does to what is shown and selected.
LEMMA Subscribed ==
    ASSUME Trigger!TriggerTypes, Trigger!SelectedIsShown, NEW p \in Projects, NEW sel,
           Trigger!Subscribe(p, sel),
           sel = {} \/ sel = selected, Trigger!Resolved' = p
    PROVE  /\ lists' \in Trigger!ListsRecord
           /\ Trigger!SelectedIsShown' /\ Trigger!ShownIsResolved'
           /\ lists.shown = p => lists'.shown = p
<1>1. CASE p \in lists.cached
  <2>1. /\ lists' = [lists EXCEPT !.shown = p]
        /\ selected' = IF lists.shown = p THEN sel ELSE RepoFiles[p]
    BY <1>1 DEF Trigger!Subscribe
  <2>2. /\ lists' \in Trigger!ListsRecord
        /\ lists'.shown = p
    BY <2>1 DEF Trigger!TriggerTypes
  <2>3. selected' \subseteq RepoFiles[p]
    BY <2>1, TriggerAssumed DEF Trigger!SelectedIsShown, Trigger!AllFiles
  <2>4. QED
    BY <2>2, <2>3, TriggerAssumed DEF Trigger!SelectedIsShown, Trigger!AllFiles,
       Trigger!ShownIsResolved
<1>2. CASE p \notin lists.cached
  <2>1. /\ lists' = [lists EXCEPT !.fetching = @ \cup {p}, !.failed = @ \ {p}]
        /\ selected' = sel
    BY <1>2 DEF Trigger!Subscribe
  <2>2. /\ lists' \in Trigger!ListsRecord
        /\ lists'.shown = lists.shown /\ p \in lists'.fetching
    BY <2>1 DEF Trigger!TriggerTypes
  <2>3. QED
    BY <2>1, <2>2 DEF Trigger!SelectedIsShown, Trigger!AllFiles, Trigger!ShownIsResolved,
       Trigger!Settled, Trigger!Fetching
<1>3. QED
  BY <1>1, <1>2

\* The dialog closes: the lists go on, nothing is browsed.
LEMMA ClosedAgain ==
    ASSUME Trigger!TriggerInv, Trigger!CloseAndReset
    PROVE  /\ dialog' = Trigger!Closed /\ Trigger!Resolved' = DefaultProject
           /\ dialog' \in Trigger!DialogRecord
           /\ lists' \in Trigger!ListsRecord
           /\ Trigger!SelectedIsShown' /\ Trigger!ShownIsResolved' /\ Trigger!BrowsedIsShown'
<1>1. /\ dialog' = Trigger!Closed /\ Trigger!Resolved' = DefaultProject
      /\ Trigger!Subscribe(DefaultProject, {})
      /\ dialog'.browse = <<>>
  BY DEF Trigger!CloseAndReset, Trigger!Closed, Trigger!Resolved
<1>2. dialog' \in Trigger!DialogRecord
  BY <1>1, EmptySeq DEF Trigger!Closed
<1>3. QED
  BY <1>1, <1>2, Subscribed, TriggerAssumed DEF Trigger!TriggerInv, Trigger!BrowsedIsShown

\* Steps of the dialog that send nothing and receive no answer.
LEMMA NothingSent ==
    ASSUME Trigger!TriggerInv, UNCHANGED pending,
           dialog' \in Trigger!DialogRecord,
           lists' \in Trigger!ListsRecord,
           Trigger!SelectedIsShown', Trigger!ShownIsResolved', Trigger!BrowsedIsShown'
    PROVE  Trigger!TriggerInv'
BY DEF Trigger!TriggerInv, Trigger!TriggerTypes, Trigger!RequestFromOneRepository

LEMMA ListStep ==
    ASSUME Trigger!TriggerInv, NEW p \in Projects, Trigger!ListArrives(p) \/ Trigger!ListFails(p)
    PROVE  Trigger!TriggerInv'
<1>1. /\ p \in lists.fetching /\ UNCHANGED <<dialog, pending>>
      /\ Trigger!Resolved' = Trigger!Resolved
      /\ Trigger!Resolved \in Projects /\ Trigger!AllFiles \subseteq Seq(STRING)
  BY ShownFiles DEF Trigger!ListArrives, Trigger!ListFails, Trigger!Resolved, Trigger!TriggerInv
<1>2. CASE Trigger!ListArrives(p)
  <2>1. /\ lists' \in Trigger!ListsRecord
        /\ lists'.fetching = lists.fetching \ {p} /\ lists'.failed = lists.failed
        /\ lists'.shown = IF p = Trigger!Resolved THEN p ELSE lists.shown
        /\ selected' = IF p = Trigger!Resolved /\ lists.shown # p THEN RepoFiles[p] ELSE selected
    BY <1>2 DEF Trigger!ListArrives, Trigger!TriggerInv, Trigger!TriggerTypes
  <2>2. Trigger!SelectedIsShown'
    BY <2>1, TriggerAssumed DEF Trigger!TriggerInv, Trigger!SelectedIsShown, Trigger!AllFiles
  <2>3. Trigger!ShownIsResolved'
    BY <1>1, <2>1 DEF Trigger!TriggerInv, Trigger!ShownIsResolved, Trigger!Settled,
       Trigger!Fetching
  <2>4. Trigger!BrowsedIsShown'
    BY <1>1, <2>1 DEF Trigger!TriggerInv, Trigger!BrowsedIsShown, Trigger!AllFiles
  <2>5. QED
    BY <1>1, <2>1, <2>2, <2>3, <2>4, NothingSent DEF Trigger!TriggerInv, Trigger!TriggerTypes
<1>3. CASE Trigger!ListFails(p)
  <2>1. /\ lists' \in Trigger!ListsRecord
        /\ lists'.fetching = lists.fetching \ {p} /\ lists'.failed = lists.failed \cup {p}
        /\ lists'.shown = lists.shown /\ UNCHANGED selected
    BY <1>3 DEF Trigger!ListFails, Trigger!TriggerInv, Trigger!TriggerTypes
  <2>2. Trigger!SelectedIsShown' /\ Trigger!ShownIsResolved' /\ Trigger!BrowsedIsShown'
    BY <1>1, <2>1 DEF Trigger!TriggerInv, Trigger!SelectedIsShown, Trigger!AllFiles,
       Trigger!ShownIsResolved, Trigger!Settled, Trigger!Fetching, Trigger!BrowsedIsShown
  <2>3. QED
    BY <1>1, <2>1, <2>2, NothingSent DEF Trigger!TriggerInv, Trigger!TriggerTypes
<1>4. QED
  BY <1>2, <1>3

LEMMA NavigationInDialog ==
    ASSUME Trigger!TriggerInv,
           \/ \E to \in {"repo", "upload"} : Trigger!Open(to) \/ Trigger!SwitchTab(to)
           \/ \E p \in Projects : Trigger!ChooseProject(p)
           \/ \E name \in SearchNames \cup {Trigger!None} : Trigger!Search(name)
           \/ \E folder \in Trigger!Breadcrumbs(dialog.browse) \cup Trigger!FoldersOffered : Trigger!Browse(folder)
    PROVE  Trigger!TriggerInv'
<1>1. /\ dialog \in Trigger!DialogRecord
      /\ lists \in Trigger!ListsRecord
      /\ Trigger!Resolved \in Projects /\ Trigger!AllFiles \subseteq Seq(STRING)
      /\ Trigger!SelectedIsShown /\ Trigger!ShownIsResolved /\ Trigger!BrowsedIsShown
      /\ Trigger!TriggerTypes
  BY ShownFiles DEF Trigger!TriggerInv, Trigger!TriggerTypes
<1>2. ASSUME dialog' \in Trigger!DialogRecord, dialog'.chosen = dialog.chosen,
             UNCHANGED <<selected, lists, pending>>,
             dialog'.browse = dialog.browse
                \/ (lists.shown = Trigger!Resolved /\ Trigger!FilesUnder(Trigger!AllFiles, dialog'.browse) # {})
      PROVE  Trigger!TriggerInv'
  <2>1. Trigger!Resolved' = Trigger!Resolved /\ Trigger!AllFiles' = Trigger!AllFiles
    BY <1>2 DEF Trigger!Resolved, Trigger!AllFiles
  <2>2. Trigger!SelectedIsShown' /\ Trigger!ShownIsResolved' /\ Trigger!BrowsedIsShown'
    BY <1>1, <1>2, <2>1 DEF Trigger!SelectedIsShown, Trigger!ShownIsResolved, Trigger!Settled,
       Trigger!Fetching, Trigger!BrowsedIsShown
  <2>3. QED
    BY <1>1, <1>2, <2>2, NothingSent
<1>3. ASSUME NEW to \in {"repo", "upload"}, Trigger!Open(to) PROVE Trigger!TriggerInv'
  <2>1. /\ dialog' = [dialog EXCEPT !.open = TRUE, !.tab = to]
        /\ UNCHANGED <<selected, lists, pending>>
    BY <1>3 DEF Trigger!Open
  <2>2. /\ dialog' \in Trigger!DialogRecord
        /\ dialog'.chosen = dialog.chosen /\ dialog'.browse = dialog.browse
    BY <1>1, <2>1
  <2>3. QED
    BY <1>2, <2>1, <2>2
<1>4. ASSUME NEW to \in {"repo", "upload"}, Trigger!SwitchTab(to) PROVE Trigger!TriggerInv'
  <2>1. /\ dialog' = [dialog EXCEPT !.tab = to] /\ UNCHANGED pending
        /\ Trigger!Resolved' = Trigger!Resolved
    BY <1>1, <1>4 DEF Trigger!SwitchTab, Trigger!Resolved
  <2>2. /\ dialog' \in Trigger!DialogRecord
        /\ dialog'.browse = dialog.browse /\ dialog'.chosen = dialog.chosen
    BY <1>1, <2>1
  <2>3. CASE to = "repo"
    <3>1. Trigger!Subscribe(Trigger!Resolved, selected)
      BY <1>4, <2>3 DEF Trigger!SwitchTab
    <3>2. /\ lists' \in Trigger!ListsRecord
          /\ Trigger!SelectedIsShown' /\ Trigger!ShownIsResolved'
          /\ lists.shown = Trigger!Resolved => lists'.shown = Trigger!Resolved
      BY <1>1, <2>1, <3>1, Subscribed
    <3>3. Trigger!BrowsedIsShown'
      BY <1>1, <2>1, <2>2, <3>2 DEF Trigger!BrowsedIsShown, Trigger!AllFiles
    <3>4. QED
      BY <2>1, <2>2, <3>2, <3>3, NothingSent
  <2>4. CASE to # "repo"
    BY <1>2, <1>4, <2>1, <2>2, <2>4 DEF Trigger!SwitchTab
  <2>5. QED
    BY <2>3, <2>4
<1>5. ASSUME NEW p \in Projects, Trigger!ChooseProject(p) PROVE Trigger!TriggerInv'
  <2>1. /\ dialog' = [dialog EXCEPT !.chosen = p, !.browse = <<>>, !.query = Trigger!None]
        /\ UNCHANGED pending
        /\ Trigger!Subscribe(p, selected)
    BY <1>5 DEF Trigger!ChooseProject
  <2>2. /\ dialog' \in Trigger!DialogRecord
        /\ dialog'.browse = <<>> /\ dialog'.chosen = p
    BY <1>1, <2>1, EmptySeq
  <2>3. Trigger!Resolved' = p
    BY <2>2, TriggerAssumed DEF Trigger!Resolved
  <2>4. QED
    BY <1>1, <2>1, <2>2, <2>3, Subscribed, NothingSent DEF Trigger!BrowsedIsShown
<1>6. ASSUME NEW name \in SearchNames \cup {Trigger!None}, Trigger!Search(name)
      PROVE  Trigger!TriggerInv'
  <2>1. dialog' = [dialog EXCEPT !.query = name] /\ UNCHANGED <<selected, lists, pending>>
    BY <1>6 DEF Trigger!Search
  <2>2. /\ dialog' \in Trigger!DialogRecord
        /\ dialog'.chosen = dialog.chosen /\ dialog'.browse = dialog.browse
    BY <1>1, <2>1
  <2>3. QED
    BY <1>2, <2>1, <2>2
<1>7. ASSUME NEW folder \in Trigger!Breadcrumbs(dialog.browse) \cup Trigger!FoldersOffered,
             Trigger!Browse(folder)
      PROVE  Trigger!TriggerInv'
  <2>1. dialog' = [dialog EXCEPT !.browse = folder] /\ UNCHANGED <<selected, lists, pending>>
    BY <1>7 DEF Trigger!Browse
  <2>2. CASE folder \in Trigger!Breadcrumbs(dialog.browse)
    <3>1. folder \in Seq(STRING) /\ (dialog.browse = <<>> => folder = <<>>)
      <4>1. PICK i \in 0 .. Len(dialog.browse) : folder = SubSeq(dialog.browse, 1, i)
        BY <2>2 DEF Trigger!Breadcrumbs
      <4>2. folder \in Seq(STRING) /\ Len(folder) = i
        BY <1>1, <4>1, SubPath
      <4>3. dialog.browse = <<>> => i = 0
        BY <4>1
      <4>4. QED
        BY <4>2, <4>3, EmptySeq
    <3>2. dialog.browse # <<>> => Trigger!FilesUnder(Trigger!AllFiles, folder) # {}
      BY <1>1, <2>2, FolderAbove DEF Trigger!BrowsedIsShown
    <3>3. QED
      <4>1. /\ dialog' \in Trigger!DialogRecord
            /\ dialog'.chosen = dialog.chosen /\ dialog'.browse = folder
        BY <1>1, <2>1, <3>1
      <4>2. QED
        BY <1>1, <1>2, <2>1, <3>1, <3>2, <4>1 DEF Trigger!BrowsedIsShown
  <2>3. CASE Trigger!Settled /\ folder \in Trigger!FoldersOffered
    <3>1. folder \in Trigger!Folders(Trigger!AllFiles, dialog.browse)
      BY <2>3 DEF Trigger!FoldersOffered
    <3>2. folder \in Seq(STRING) /\ Trigger!FilesUnder(Trigger!AllFiles, folder) # {}
      BY <1>1, <3>1, FolderShown
    <3>3. QED
      <4>1. /\ dialog' \in Trigger!DialogRecord
            /\ dialog'.chosen = dialog.chosen /\ dialog'.browse = folder
        BY <1>1, <2>1, <3>2
      <4>2. QED
        BY <1>1, <1>2, <2>1, <2>3, <3>2, <4>1 DEF Trigger!ShownIsResolved
  <2>4. QED
    BY <1>7, <2>2, <2>3 DEF Trigger!Browse
<1>8. QED
  BY <1>3, <1>4, <1>5, <1>6, <1>7

LEMMA SelectionStep ==
    ASSUME Trigger!TriggerInv,
           Trigger!ToggleFile \/ Trigger!ToggleFolder \/ Trigger!SelectAll \/ Trigger!ClearSelection
    PROVE  Trigger!TriggerInv'
<1>1. PICK sel : Trigger!Select(sel) /\ sel \subseteq Trigger!AllFiles
  <2>1. Trigger!RowsOffered \subseteq Trigger!AllFiles /\ \A d : Trigger!FilesUnder(Trigger!AllFiles, d) \subseteq Trigger!AllFiles
    BY DEF Trigger!RowsOffered, Trigger!FilterFiles, Trigger!FilesAtLevel, Trigger!FilesUnder
  <2>2. selected \subseteq Trigger!AllFiles
    BY DEF Trigger!TriggerInv, Trigger!SelectedIsShown
  <2>3. CASE Trigger!ToggleFile
    <3>1. PICK f \in Trigger!RowsOffered : Trigger!Select((selected \ {f}) \cup ({f} \ selected))
      BY <2>3 DEF Trigger!ToggleFile
    <3>2. QED
      BY <2>1, <2>2, <3>1
  <2>4. CASE Trigger!ToggleFolder
    <3>1. PICK folder \in Trigger!FoldersOffered :
             \/ Trigger!Select(selected \ Trigger!FilesUnder(Trigger!AllFiles, folder))
             \/ Trigger!Select(selected \cup Trigger!FilesUnder(Trigger!AllFiles, folder))
      BY <2>4 DEF Trigger!ToggleFolder
    <3>2. QED
      BY <2>1, <2>2, <3>1
  <2>5. CASE Trigger!SelectAll
    BY <2>5 DEF Trigger!SelectAll
  <2>6. CASE Trigger!ClearSelection
    BY <2>6 DEF Trigger!ClearSelection
  <2>7. QED
    BY <2>3, <2>4, <2>5, <2>6
<1>2. UNCHANGED <<dialog, lists, pending>> /\ selected' = sel
  BY <1>1 DEF Trigger!Select
<1>3. /\ Trigger!Resolved' = Trigger!Resolved /\ Trigger!AllFiles' = Trigger!AllFiles
      /\ (Trigger!Settled' <=> Trigger!Settled)
  BY <1>2 DEF Trigger!Resolved, Trigger!AllFiles, Trigger!Settled, Trigger!Fetching
<1>4. Trigger!SelectedIsShown' /\ Trigger!ShownIsResolved' /\ Trigger!BrowsedIsShown'
  BY <1>1, <1>2, <1>3 DEF Trigger!TriggerInv, Trigger!SelectedIsShown, Trigger!ShownIsResolved,
     Trigger!BrowsedIsShown
<1>5. QED
  BY <1>2, <1>4, NothingSent DEF Trigger!TriggerInv, Trigger!TriggerTypes

\* What is shown and selected stays as it is.
LEMMA DialogKept ==
    ASSUME Trigger!TriggerInv, UNCHANGED <<selected, lists>>,
           dialog' \in Trigger!DialogRecord,
           dialog'.chosen = dialog.chosen, dialog'.browse = dialog.browse
    PROVE  Trigger!SelectedIsShown' /\ Trigger!ShownIsResolved' /\ Trigger!BrowsedIsShown'
<1>1. /\ Trigger!Resolved' = Trigger!Resolved /\ Trigger!AllFiles' = Trigger!AllFiles
      /\ (Trigger!Settled' <=> Trigger!Settled)
  BY DEF Trigger!Resolved, Trigger!AllFiles, Trigger!Settled, Trigger!Fetching
<1>2. QED
  BY <1>1 DEF Trigger!TriggerInv, Trigger!SelectedIsShown, Trigger!ShownIsResolved,
     Trigger!BrowsedIsShown

LEMMA SubmitStep ==
    ASSUME Trigger!TriggerInv, Trigger!SubmitRepo \/ Trigger!SubmitUpload
    PROVE  Trigger!TriggerInv'
<1>1. PICK kind, project, files, answers :
         /\ kind \in {"repo", "upload"} /\ Trigger!Submit(kind, project, files, answers)
         /\ kind = "repo" => files = selected /\ selected # {} /\ project = Trigger!Resolved
  BY DEF Trigger!SubmitRepo, Trigger!SubmitUpload
<1> DEFINE r == [n |-> Trigger!Sent + 1, kind |-> kind, project |-> project, files |-> files,
                 shown |-> lists.shown, settled |-> Trigger!Settled, answers |-> answers]
<1>2. pending' = pending \cup {r} /\ UNCHANGED <<dialog, selected, lists>>
  BY <1>1 DEF Trigger!Submit
<1>3. /\ r = [n |-> r.n, kind |-> r.kind, project |-> r.project, files |-> r.files,
              shown |-> r.shown, settled |-> r.settled, answers |-> r.answers]
      /\ r.kind = kind /\ r.files = files /\ r.project = project /\ r.shown = lists.shown
      /\ r.settled = Trigger!Settled
  OBVIOUS
<1> HIDE DEF r
<1>4. /\ Trigger!SelectedIsShown' /\ Trigger!ShownIsResolved' /\ Trigger!BrowsedIsShown'
  BY <1>2, DialogKept DEF Trigger!TriggerInv, Trigger!TriggerTypes
<1>5. kind = "repo" =>
         /\ lists.shown # Trigger!None /\ files \subseteq RepoFiles[lists.shown]
         /\ Trigger!Settled => lists.shown = project
  BY <1>1, ShownFiles DEF Trigger!TriggerInv, Trigger!SelectedIsShown, Trigger!ShownIsResolved
<1>6. Trigger!TriggerTypes'
  BY <1>2, <1>3 DEF Trigger!TriggerInv, Trigger!TriggerTypes
<1>7. Trigger!RequestFromOneRepository'
  BY <1>2, <1>3, <1>5 DEF Trigger!TriggerInv, Trigger!RequestFromOneRepository
<1>8. QED
  BY <1>4, <1>6, <1>7 DEF Trigger!TriggerInv

\* What the dialog does with an answer, and with the request it answers.
LEMMA TriggerAnswered ==
    ASSUME Trigger!TriggerInv, NEW t \in SUBSET pending,
           NEW r, pending' = t \/ (pending' = t \cup {r} /\
               /\ r.kind = "upload"
               /\ r = [n |-> r.n, kind |-> r.kind, project |-> r.project, files |-> r.files,
                       shown |-> r.shown, settled |-> r.settled, answers |-> r.answers]),
           \/ Trigger!CloseAndReset
           \/ dialog' = [dialog EXCEPT !.result = TRUE] /\ UNCHANGED <<selected, lists>>
           \/ UNCHANGED <<dialog, selected, lists>>
    PROVE  Trigger!TriggerInv'
<1>1. /\ dialog' \in Trigger!DialogRecord
      /\ lists' \in Trigger!ListsRecord
      /\ Trigger!SelectedIsShown' /\ Trigger!ShownIsResolved' /\ Trigger!BrowsedIsShown'
  <2>1. CASE Trigger!CloseAndReset
    BY <2>1, ClosedAgain
  <2>2. CASE dialog' = [dialog EXCEPT !.result = TRUE] /\ UNCHANGED <<selected, lists>>
    BY <2>2, DialogKept DEF Trigger!TriggerInv, Trigger!TriggerTypes
  <2>3. CASE UNCHANGED <<dialog, selected, lists>>
    BY <2>3, DialogKept DEF Trigger!TriggerInv, Trigger!TriggerTypes
  <2>4. QED
    BY <2>1, <2>2, <2>3
<1>2. Trigger!TriggerTypes'
  BY <1>1 DEF Trigger!TriggerInv, Trigger!TriggerTypes
<1>3. Trigger!RequestFromOneRepository'
  BY DEF Trigger!TriggerInv, Trigger!RequestFromOneRepository
<1>4. QED
  BY <1>1, <1>2, <1>3 DEF Trigger!TriggerInv

LEMMA TriggerAnswerStep ==
    ASSUME Trigger!TriggerInv, NEW s \in pending,
           \/ \E answer \in {"ok", "skipped", "error"} : Trigger!RepoAnswered(s, answer)
           \/ \E i \in DOMAIN s.answers, answer \in {"ok", "error"} : Trigger!UploadAnswered(s, i, answer)
    PROVE  Trigger!TriggerInv'
<1>1. ASSUME NEW answer \in {"ok", "skipped", "error"}, Trigger!RepoAnswered(s, answer)
      PROVE  Trigger!TriggerInv'
  BY <1>1, TriggerAnswered DEF Trigger!RepoAnswered
<1>2. ASSUME NEW i \in DOMAIN s.answers, NEW answer \in {"ok", "error"},
             Trigger!UploadAnswered(s, i, answer)
      PROVE  Trigger!TriggerInv'
  <2> DEFINE answers == [s.answers EXCEPT ![i] = answer]
             r == [s EXCEPT !.answers = answers]
  <2>1. /\ s = [n |-> s.n, kind |-> s.kind, project |-> s.project, files |-> s.files,
                shown |-> s.shown, settled |-> s.settled, answers |-> s.answers]
        /\ s.kind = "upload"
    BY <1>2 DEF Trigger!TriggerInv, Trigger!TriggerTypes, Trigger!UploadAnswered
  <2>2. /\ r.kind = "upload"
        /\ r = [n |-> r.n, kind |-> r.kind, project |-> r.project, files |-> r.files,
                shown |-> r.shown, settled |-> r.settled, answers |-> r.answers]
    BY <2>1
  <2>3. pending' = pending \ {s} \/ pending' = (pending \ {s}) \cup {r}
    BY <1>2 DEF Trigger!UploadAnswered
  <2>4. Trigger!CloseAndReset \/ UNCHANGED <<dialog, selected, lists>>
    BY <1>2 DEF Trigger!UploadAnswered
  <2> HIDE DEF r
  <2>5. QED
    BY <2>2, <2>3, <2>4, TriggerAnswered
<1>3. QED
  BY <1>1, <1>2

LEMMA TriggerStart == Trigger!TriggerInit => Trigger!TriggerInv
<1> SUFFICES ASSUME Trigger!TriggerInit PROVE Trigger!TriggerInv
  OBVIOUS
<1>1. /\ dialog \in Trigger!DialogRecord
      /\ dialog.browse = <<>> /\ dialog.chosen = Trigger!None
  BY EmptySeq DEF Trigger!TriggerInit, Trigger!Closed
<1>2. /\ lists \in Trigger!ListsRecord
      /\ lists.fetching = {DefaultProject} /\ selected = {} /\ pending = {}
  BY TriggerAssumed DEF Trigger!TriggerInit
<1>3. Trigger!Resolved = DefaultProject
  BY <1>1 DEF Trigger!Resolved
<1>4. Trigger!TriggerTypes
  BY <1>1, <1>2 DEF Trigger!TriggerTypes
<1>5. /\ Trigger!SelectedIsShown /\ Trigger!ShownIsResolved /\ Trigger!BrowsedIsShown
      /\ Trigger!RequestFromOneRepository
  BY <1>1, <1>2, <1>3 DEF Trigger!SelectedIsShown, Trigger!ShownIsResolved, Trigger!Settled,
     Trigger!Fetching, Trigger!BrowsedIsShown, Trigger!RequestFromOneRepository
<1>6. QED
  BY <1>4, <1>5 DEF Trigger!TriggerInv

LEMMA TriggerStep == Trigger!TriggerInv /\ [Trigger!TriggerNext]_triggerVars => Trigger!TriggerInv'
<1> SUFFICES ASSUME Trigger!TriggerInv,
[Trigger!TriggerNext]_triggerVars PROVE Trigger!TriggerInv'
  OBVIOUS
<1>1. ASSUME NEW p \in Projects, Trigger!ListArrives(p) \/ Trigger!ListFails(p)
      PROVE  Trigger!TriggerInv'
  BY <1>1, ListStep
<1>2. ASSUME UNCHANGED <<dialog, selected, lists, pending>> PROVE Trigger!TriggerInv'
  <2>1. Trigger!SelectedIsShown' /\ Trigger!ShownIsResolved' /\ Trigger!BrowsedIsShown'
    BY <1>2, DialogKept DEF Trigger!TriggerInv, Trigger!TriggerTypes
  <2>2. QED
    BY <1>2, <2>1, NothingSent DEF Trigger!TriggerInv, Trigger!TriggerTypes
<1>3. CASE Trigger!Close
  BY <1>3, ClosedAgain, NothingSent DEF Trigger!Close
<1>4. ASSUME NEW s \in pending,
             \/ \E answer \in {"ok", "skipped", "error"} : Trigger!RepoAnswered(s, answer)
             \/ \E i \in DOMAIN s.answers, answer \in {"ok", "error"} : Trigger!UploadAnswered(s, i, answer)
      PROVE  Trigger!TriggerInv'
  BY <1>4, TriggerAnswerStep
<1>5. CASE Trigger!ToggleFile \/ Trigger!ToggleFolder \/ Trigger!SelectAll \/ Trigger!ClearSelection
  BY <1>5, SelectionStep
<1>6. CASE Trigger!SubmitRepo \/ Trigger!SubmitUpload
  BY <1>6, SubmitStep
<1>7. CASE \/ \E p \in Projects \cup {Trigger!None} : Trigger!ChooseUploadProject(p)
           \/ \E files \in SUBSET DiskFiles : Trigger!AddFiles(files)
           \/ \E i \in DOMAIN uploads, path \in Paths \cup {<<>>} : Trigger!EditTarget(i, path)
           \/ \E i \in DOMAIN uploads : Trigger!RemoveUpload(i)
           \/ UNCHANGED triggerVars
  BY <1>2, <1>7 DEF Trigger!ChooseUploadProject, Trigger!AddFiles, Trigger!EditTarget,
     Trigger!RemoveUpload, triggerVars
<1>8. CASE \/ \E to \in {"repo", "upload"} : Trigger!Open(to) \/ Trigger!SwitchTab(to)
           \/ \E p \in Projects : Trigger!ChooseProject(p)
           \/ \E name \in SearchNames \cup {Trigger!None} : Trigger!Search(name)
           \/ \E folder \in Trigger!Breadcrumbs(dialog.browse) \cup Trigger!FoldersOffered : Trigger!Browse(folder)
  BY <1>8, NavigationInDialog
<1>9. QED
  BY <1>1, <1>3, <1>4, <1>5, <1>6, <1>7, <1>8 DEF Trigger!TriggerNext

LEMMA TriggerImplied ==
    ASSUME Trigger!TriggerInv
    PROVE  Trigger!BrowsedFolderExists /\ Trigger!LevelReachesEveryFile
<1>1. Trigger!AllFiles \subseteq Seq(STRING) /\ dialog.browse \in Seq(STRING)
  BY ShownFiles DEF Trigger!TriggerInv, Trigger!TriggerTypes
<1>2. Trigger!LevelReachesEveryFile
  BY <1>1, LevelPartitionsFiles DEF Trigger!LevelReachesEveryFile
<1>3. QED
  BY <1>2 DEF Trigger!TriggerInv, Trigger!BrowsedIsShown, Trigger!BrowsedFolderExists

\* The dialog is closed only by an answer that leaves every other answer a success.
LEMMA UploadCloses ==
    ASSUME [Trigger!TriggerNext]_triggerVars, NEW s \in pending, s.kind = "upload",
           dialog.open, ~dialog'.open, s \notin pending'
    PROVE  Cardinality({j \in DOMAIN s.answers : s.answers[j] # "ok"}) = 1
<1>1. PICK t \in pending :
         \E i \in DOMAIN t.answers, answer \in {"ok", "error"} : Trigger!UploadAnswered(t, i, answer)
  <2>1. pending' # pending /\ dialog' # dialog
    OBVIOUS
  <2>2. ASSUME NEW t \in pending, NEW answer, Trigger!RepoAnswered(t, answer) PROVE FALSE
    BY <2>2 DEF Trigger!RepoAnswered
  <2>3. ASSUME Trigger!Submit("repo", Trigger!Resolved, selected, <<"wait">>) \/ Trigger!SubmitUpload
        PROVE  FALSE
    BY <2>1, <2>3 DEF Trigger!Submit, Trigger!SubmitUpload
  <2>4. QED
    BY <2>1, <2>2, <2>3 DEF Trigger!TriggerNext, triggerVars, Trigger!ListArrives,
       Trigger!ListFails, Trigger!ChooseProject, Trigger!Open, Trigger!SwitchTab, Trigger!Close,
       Trigger!Browse, Trigger!Search, Trigger!ToggleFile, Trigger!ToggleFolder,
       Trigger!SelectAll, Trigger!ClearSelection, Trigger!Select, Trigger!SubmitRepo,
       Trigger!ChooseUploadProject, Trigger!AddFiles, Trigger!EditTarget, Trigger!RemoveUpload
<1>2. PICK i \in DOMAIN t.answers, answer \in {"ok", "error"} : Trigger!UploadAnswered(t, i, answer)
  BY <1>1
<1>3. s = t
  BY <1>2 DEF Trigger!UploadAnswered
<1>4. /\ s.answers[i] = "wait"
      /\ \A j \in DOMAIN s.answers : [s.answers EXCEPT ![i] = answer][j] = "ok"
  <2>1. Trigger!AllCreated([s.answers EXCEPT ![i] = answer])
    BY <1>2, <1>3 DEF Trigger!UploadAnswered
  <2>2. QED
    BY <1>2, <1>3, <2>1 DEF Trigger!UploadAnswered, Trigger!AllCreated
<1>5. {j \in DOMAIN s.answers : s.answers[j] # "ok"} = {i}
  BY <1>2, <1>3, <1>4
<1>6. QED
  BY <1>5, FS_Singleton

HIDE DEF Trigger!DialogRecord, Trigger!ListsRecord

----------------------------------------------------------------------------
(* The uploads of the start dialog: Trigger!UploadsInv is inductive. *)

LEMMA UploadsAssumed ==
    /\ DefaultProject \in Projects /\ MaxUploads \in Nat /\ MaxSubmits \in Nat
    /\ Translatable \subseteq DiskFiles /\ IsFiniteSet(DiskFiles)
BY FrontendAssumption DEF FrontendAssumption, Trigger!TriggerAssumption, Trigger!IsFiniteSet, IsFiniteSet

Uploaded == [file : Translatable, target : Translatable \cup Paths \cup {<<>>}]

LEMMA FunctionIsSeq ==
    ASSUME NEW S, NEW n \in Nat, NEW f \in [1 .. n -> S]
    PROVE  f \in Seq(S) /\ Len(f) = n
<1>1. f \in Seq(S)
  OBVIOUS
<1>2. DOMAIN f = 1 .. Len(f) /\ Len(f) \in Nat /\ DOMAIN f = 1 .. n
  BY <1>1, LenProperties
<1>3. QED
  BY <1>1, <1>2

\* What is picked from the disk is listed, each file once.
LEMMA NewUploads ==
    ASSUME NEW new \in SUBSET Translatable,
           NEW list, list = [i \in 1 .. Trigger!Cardinality(new) |->
                                [file |-> Trigger!SetToSeq(new)[i], target |-> Trigger!SetToSeq(new)[i]]]
    PROVE  list \in Seq(Uploaded) /\ Len(list) = Trigger!Cardinality(new)
           /\ Trigger!Cardinality(new) \in Nat
<1> DEFINE n == Cardinality(new)
<1>1. Trigger!Cardinality(new) = n
  BY DEF Cardinality, Trigger!Cardinality
<1>2. n \in Nat /\ ExistsBijection(1 .. n, new)
  BY UploadsAssumed, FS_Subset, FS_CardinalityType
<1>3. \E f \in [1 .. n -> new] : Trigger!IsInjective(f)
  BY <1>2 DEF ExistsBijection, Bijection, Injection, IsInjective,
     Trigger!IsInjective
<1>4. Trigger!SetToSeq(new) \in [1 .. n -> new]
  BY <1>1, <1>3 DEF Trigger!SetToSeq
<1>5. list = [i \in 1 .. n |-> [file |-> Trigger!SetToSeq(new)[i], target |-> Trigger!SetToSeq(new)[i]]]
  BY <1>1
<1>6. \A i \in 1 .. n : [file |-> Trigger!SetToSeq(new)[i], target |-> Trigger!SetToSeq(new)[i]] \in Uploaded
  BY <1>4 DEF Uploaded
<1> HIDE DEF n
<1>7. list \in [1 .. n -> Uploaded]
  BY <1>5, <1>6
<1>8. QED
  BY <1>1, <1>2, <1>7, FunctionIsSeq DEF n

LEMMA UploadsStart == Trigger!TriggerInit => Trigger!UploadsInv
BY UploadsAssumed, EmptySeq DEF Trigger!TriggerInit, Trigger!UploadsInv

LEMMA UploadsStep == Trigger!UploadsInv /\ [Trigger!TriggerNext]_triggerVars => Trigger!UploadsInv'
<1> SUFFICES ASSUME Trigger!UploadsInv, [Trigger!TriggerNext]_triggerVars PROVE Trigger!UploadsInv'
  OBVIOUS
<1>1. /\ uploads \in Seq(Uploaded) /\ Len(uploads) \in Nat /\ Len(uploads) <= MaxUploads
      /\ upTarget \in Projects \cup {Trigger!None}
      /\ latest \in [repo : 0 .. MaxSubmits, upload : 0 .. MaxSubmits]
  BY LenProperties DEF Trigger!UploadsInv, Uploaded
<1>2. ASSUME UNCHANGED <<uploads, upTarget, latest>>
      PROVE  Trigger!UploadsInv'
  BY <1>2 DEF Trigger!UploadsInv
<1>3. ASSUME uploads' \in Seq(Uploaded), Len(uploads') <= MaxUploads, UNCHANGED <<upTarget, latest>>
      PROVE  Trigger!UploadsInv'
  BY <1>3 DEF Trigger!UploadsInv, Uploaded
<1>4. ASSUME Trigger!CloseAndReset, UNCHANGED latest
      PROVE  Trigger!UploadsInv'
  <2>1. uploads' = <<>> /\ upTarget' = Trigger!None
    BY <1>4 DEF Trigger!CloseAndReset
  <2>2. QED
    BY <1>4, <2>1, UploadsAssumed, EmptySeq DEF Trigger!UploadsInv
<1>5. ASSUME NEW kind \in {"repo", "upload"}, NEW project, NEW files, NEW answers,
             Trigger!Submit(kind, project, files, answers)
      PROVE  Trigger!UploadsInv'
  <2>1. Trigger!Sent \in Nat /\ Trigger!Sent < MaxSubmits
    BY <1>1, <1>5, UploadsAssumed DEF Trigger!Submit, Trigger!Sent
  <2>2. Trigger!Sent + 1 \in 0 .. MaxSubmits
    BY <2>1, UploadsAssumed
  <2>3. latest' = [latest EXCEPT ![kind] = Trigger!Sent + 1] /\ UNCHANGED <<uploads, upTarget>>
    BY <1>5 DEF Trigger!Submit
  <2>4. latest' \in [repo : 0 .. MaxSubmits, upload : 0 .. MaxSubmits]
    <3> DEFINE N == 0 .. MaxSubmits
    <3>1. latest \in [repo : N, upload : N] /\ Trigger!Sent + 1 \in N
      BY <1>1, <2>2
    <3> HIDE DEF N
    <3>2. latest' \in [repo : N, upload : N]
      BY <2>3, <3>1
    <3>3. QED
      BY <3>2 DEF N
  <2>5. QED
    BY <2>3, <2>4 DEF Trigger!UploadsInv
<1>6. ASSUME NEW s, NEW answer \in {"ok", "skipped", "error"}, Trigger!RepoAnswered(s, answer)
      PROVE  Trigger!UploadsInv'
  BY <1>2, <1>4, <1>6 DEF Trigger!RepoAnswered
<1>7. ASSUME NEW s, NEW i, NEW answer, Trigger!UploadAnswered(s, i, answer)
      PROVE  Trigger!UploadsInv'
  BY <1>2, <1>4, <1>7 DEF Trigger!UploadAnswered
<1>8. ASSUME NEW files \in SUBSET DiskFiles, Trigger!AddFiles(files)
      PROVE  Trigger!UploadsInv'
  <2> DEFINE new == {f \in files \cap Translatable : \A i \in DOMAIN uploads : uploads[i].target # f}
             list == [i \in 1 .. Trigger!Cardinality(new) |->
                         [file |-> Trigger!SetToSeq(new)[i], target |-> Trigger!SetToSeq(new)[i]]]
  <2>1. /\ Len(uploads) + Trigger!Cardinality(new) <= MaxUploads /\ uploads' = uploads \o list
        /\ UNCHANGED <<upTarget, latest>>
    BY <1>8 DEF Trigger!AddFiles
  <2>2. new \in SUBSET Translatable
    OBVIOUS
  <2> HIDE DEF new
  <2>3. list \in Seq(Uploaded) /\ Len(list) = Trigger!Cardinality(new) /\ Trigger!Cardinality(new) \in Nat
    BY <2>2, NewUploads
  <2> HIDE DEF list
  <2>4. uploads' \in Seq(Uploaded) /\ Len(uploads') = Len(uploads) + Len(list)
    BY <1>1, <2>1, <2>3, ConcatProperties
  <2>5. QED
    BY <1>1, <1>3, <2>1, <2>3, <2>4, UploadsAssumed
<1>9. ASSUME NEW i \in DOMAIN uploads, NEW path \in Paths \cup {<<>>}, Trigger!EditTarget(i, path)
      PROVE  Trigger!UploadsInv'
  <2>1. i \in 1 .. Len(uploads) /\ uploads[i] \in Uploaded
    BY <1>1, LenProperties, ElementOfSeq
  <2>2. [uploads[i] EXCEPT !.target = path] \in Uploaded
    BY <2>1 DEF Uploaded
  <2>3. uploads' = [uploads EXCEPT ![i] = [uploads[i] EXCEPT !.target = path]]
    BY <1>9 DEF Trigger!EditTarget
  <2>4. uploads' \in Seq(Uploaded) /\ Len(uploads') = Len(uploads)
    BY <1>1, <2>1, <2>2, <2>3, ExceptSeq
  <2>5. QED
    BY <1>1, <1>3, <1>9, <2>4 DEF Trigger!EditTarget
<1>10. ASSUME NEW i \in DOMAIN uploads, Trigger!RemoveUpload(i)
       PROVE  Trigger!UploadsInv'
  <2>1. i \in 1 .. Len(uploads)
    BY <1>1, LenProperties
  <2>2. uploads' = SubSeq(uploads, 1, i - 1) \o SubSeq(uploads, i + 1, Len(uploads))
    BY <1>10 DEF Trigger!RemoveUpload, Trigger!RemoveAt
  <2> DEFINE a == SubSeq(uploads, 1, i - 1)
             b == SubSeq(uploads, i + 1, Len(uploads))
  <2>3. \A k \in 1 .. Len(uploads) : uploads[k] \in Uploaded
    BY <1>1, ElementOfSeq
  <2>4. a \in Seq(Uploaded) /\ Len(a) = i - 1
    BY <1>1, <2>1, <2>3, SubSeqProperties
  <2>5. b \in Seq(Uploaded) /\ Len(b) = Len(uploads) - i
    <3>1. /\ i + 1 \in Int /\ Len(uploads) \in Int
          /\ \A k \in i + 1 .. Len(uploads) : uploads[k] \in Uploaded
      BY <1>1, <2>1, <2>3
    <3>2. b \in Seq(Uploaded) /\ Len(b) = IF i + 1 <= Len(uploads) THEN Len(uploads) - (i + 1) + 1 ELSE 0
      BY <3>1, SubSeqProperties
    <3> HIDE DEF b
    <3>3. QED
      BY <1>1, <2>1, <3>2
  <2> HIDE DEF a, b
  <2>6. uploads' \in Seq(Uploaded) /\ Len(uploads') = Len(a) + Len(b)
    BY <2>2, <2>4, <2>5, ConcatProperties DEF a, b
  <2>7. QED
    BY <1>1, <1>3, <1>10, <2>1, <2>4, <2>5, <2>6, UploadsAssumed DEF Trigger!RemoveUpload
<1>11. ASSUME NEW p \in Projects \cup {Trigger!None}, Trigger!ChooseUploadProject(p)
       PROVE  Trigger!UploadsInv'
  BY <1>1, <1>11 DEF Trigger!ChooseUploadProject, Trigger!UploadsInv
<1>12. CASE Trigger!SubmitRepo \/ Trigger!SubmitUpload
  BY <1>5, <1>12 DEF Trigger!SubmitRepo, Trigger!SubmitUpload
<1>13. CASE Trigger!Close
  BY <1>4, <1>13 DEF Trigger!Close
<1>14. CASE \/ \E p \in Projects : Trigger!ListArrives(p) \/ Trigger!ListFails(p) \/ Trigger!ChooseProject(p)
            \/ \E to \in {"repo", "upload"} : Trigger!Open(to) \/ Trigger!SwitchTab(to)
            \/ \E folder \in Trigger!Breadcrumbs(dialog.browse) \cup Trigger!FoldersOffered : Trigger!Browse(folder)
            \/ \E name \in SearchNames \cup {Trigger!None} : Trigger!Search(name)
            \/ UNCHANGED triggerVars
  BY <1>2, <1>14 DEF Trigger!ListArrives, Trigger!ListFails, Trigger!ChooseProject, Trigger!Open,
     Trigger!SwitchTab, Trigger!Browse, Trigger!Search, triggerVars
<1>15. CASE Trigger!ToggleFile \/ Trigger!ToggleFolder \/ Trigger!SelectAll \/ Trigger!ClearSelection
  BY <1>2, <1>15 DEF Trigger!ToggleFile, Trigger!ToggleFolder, Trigger!SelectAll,
     Trigger!ClearSelection, Trigger!Select
<1>16. QED
  BY <1>6, <1>7, <1>8, <1>9, <1>10, <1>11, <1>12, <1>13, <1>14, <1>15 DEF Trigger!TriggerNext

----------------------------------------------------------------------------
(* The task list: List!ListInv is inductive. *)

LEMMA ListAssumed ==
    /\ TaskOrder \in Seq(List!Tasks) /\ List!NoTask \notin List!Tasks
    /\ HasProject \subseteq List!Tasks
BY FrontendAssumption DEF FrontendAssumption, List!TaskListAssumption

LEMMA ListCardinality == \A S : List!Cardinality(S) = Cardinality(S)
BY DEF Cardinality, List!Cardinality

LEMMA TasksAreFinite == IsFiniteSet(List!Tasks) /\ List!Cardinality(List!Tasks) \in Nat
<1> DEFINE n == Len(TaskOrder)
<1>1. n \in Nat /\ DOMAIN TaskOrder = 1 .. n
  BY ListAssumed, LenProperties
<1>2. TaskOrder \in Surjection(1 .. n, List!Tasks)
  <2>1. List!Tasks = {TaskOrder[i] : i \in 1 .. n}
    BY <1>1 DEF List!Tasks, List!Range
  <2>2. TaskOrder = [i \in 1 .. n |-> TaskOrder[i]]
    BY <1>1, ListAssumed
  <2>3. TaskOrder \in [1 .. n -> List!Tasks]
    BY <2>1, <2>2
  <2>4. QED
    BY <2>1, <2>3 DEF Surjection
<1>3. IsFiniteSet(1 .. n)
  BY <1>1, FS_Interval
<1>4. IsFiniteSet(List!Tasks)
  BY <1>2, <1>3, FS_Surjection
<1>5. QED
  BY <1>4, FS_CardinalityType, ListCardinality

\* The index of a row: no row is above itself.
LEMMA IndexOfRow ==
    ASSUME rows \subseteq List!Tasks, NEW t \in rows
    PROVE  List!IndexOf(t) \in 0 .. List!Cardinality(List!Tasks)
<1> DEFINE S == {u \in rows : List!Above(u, t)}
           T == List!Tasks \ {t}
<1>1. S \subseteq T
  <2>1. \E i \in DOMAIN TaskOrder : TaskOrder[i] = t
    BY DEF List!Tasks, List!Range
  <2>2. List!Rank(t) \in Nat
    BY <2>1, ListAssumed, LenProperties DEF List!Rank
  <2>3. ~List!Above(t, t)
    BY <2>2 DEF List!Above
  <2>4. QED
    BY <2>3
<1>2. IsFiniteSet(T) /\ Cardinality(T) = Cardinality(List!Tasks) - 1 /\ Cardinality(List!Tasks) \in Nat
  BY TasksAreFinite, FS_RemoveElement, ListCardinality
<1>3. IsFiniteSet(S) /\ Cardinality(S) <= Cardinality(T) /\ Cardinality(S) \in Nat
  BY <1>1, <1>2, FS_Subset, FS_CardinalityType
<1>4. List!IndexOf(t) = Cardinality(S) + 1
  BY ListCardinality DEF List!IndexOf
<1>5. QED
  BY <1>2, <1>3, <1>4, ListCardinality

LEMMA TaskListStart == List!ListInit => List!ListInv
<1>1. 0 \in 0 .. List!Cardinality(List!Tasks)
  BY TasksAreFinite
<1>2. QED
  BY <1>1 DEF List!ListInit, List!ListInv, List!ListTypeOK, List!OverridesFit,
     List!SelectionOnScreen, List!ListStatus

\* Whatever the rows become, the selection is pruned to them.
LEMMA RowsShown ==
    ASSUME List!ListInv, NEW list \in SUBSET List!Tasks,
           NEW st \in [List!Tasks -> List!ListStatus], List!ShowRows(list, st)
    PROVE  List!ListInv'
<1>1. /\ selection' \in [ids : SUBSET List!Tasks, batchMode : BOOLEAN,
                         anchor : 0 .. List!Cardinality(List!Tasks)]
      /\ selection'.ids \subseteq list
      /\ selection'.ids # {} => selection'.batchMode
  <2>1. selection \in [ids : SUBSET List!Tasks, batchMode : BOOLEAN,
                       anchor : 0 .. List!Cardinality(List!Tasks)]
    BY DEF List!ListInv, List!ListTypeOK
  <2>2. CASE selection.ids \subseteq list /\ UNCHANGED selection
    BY <2>1, <2>2 DEF List!ListInv, List!SelectionOnScreen
  <2>3. CASE List!SetSelected(selection.ids \cap list)
    <3>1. (selection.ids \cap list # {}) \in BOOLEAN
      OBVIOUS
    <3>2. QED
      BY <2>1, <2>3, <3>1 DEF List!SetSelected
  <2>4. QED
    BY <2>2, <2>3 DEF List!ShowRows, List!Prune
<1>2. QED
  BY <1>1 DEF List!ListInv, List!ListTypeOK, List!OverridesFit, List!SelectionOnScreen,
     List!ShowRows, List!dialogs

\* What a click selects is on the screen, with the rows of a range.
LEMMA RowToggled ==
    ASSUME List!ListInv, NEW t \in rows, NEW shift \in BOOLEAN, List!Toggle(t, shift)
    PROVE  List!ListInv'
<1>1. List!IndexOf(t) \in 0 .. List!Cardinality(List!Tasks)
  BY IndexOfRow DEF List!ListInv, List!ListTypeOK
<1>2. PICK ids \in SUBSET rows :
         selection' = [ids |-> ids, batchMode |-> ids # {}, anchor |-> List!IndexOf(t)]
  BY DEF List!Toggle, List!ListInv, List!SelectionOnScreen
<1>3. /\ selection' \in [ids : SUBSET List!Tasks, batchMode : BOOLEAN,
                         anchor : 0 .. List!Cardinality(List!Tasks)]
      /\ selection'.ids \subseteq rows
      /\ selection'.ids # {} => selection'.batchMode
  <2>1. (ids # {}) \in BOOLEAN /\ ids \subseteq List!Tasks
    BY DEF List!ListInv, List!ListTypeOK
  <2>2. QED
    BY <1>1, <1>2, <2>1
<1>4. UNCHANGED <<rows, status, publish, batch, removing, flags, listRequests>>
  BY DEF List!Toggle, List!dialogs
<1>5. QED
  BY <1>3, <1>4 DEF List!ListInv, List!ListTypeOK, List!OverridesFit, List!SelectionOnScreen

\* A request is about tasks, and a batch about the paths of its own.
RequestFits(r) == r.ids \subseteq List!Tasks /\ (r.kind = "batch" => r.overrides \subseteq r.ids)

LEMMA RequestSent ==
    ASSUME List!ListInv, NEW kind, NEW ids \in SUBSET List!Tasks, NEW overrides,
           kind = "batch" => overrides \subseteq ids, List!Send(kind, ids, overrides)
    PROVE  \A r \in listRequests' : RequestFits(r)
BY DEF List!Send, List!ListInv, List!ListTypeOK, RequestFits

\* The rest of the page: what the dialogs are about, and the requests they send.
LEMMA DialogsStep ==
    ASSUME List!ListInv, UNCHANGED <<rows, status, selection>>,
           publish' \in [task : List!Tasks \cup {List!NoTask}, open : BOOLEAN],
           batch' \in [ids : SUBSET List!Tasks, open : BOOLEAN, overrides : SUBSET List!Tasks],
           List!OverridesFit', removing' \in List!Tasks \cup {List!NoTask},
           flags' \in [publishing : SUBSET List!Tasks, retrying : SUBSET List!Tasks, batch : BOOLEAN],
           \A r \in listRequests' : RequestFits(r)
    PROVE  List!ListInv'
BY DEF List!ListInv, List!ListTypeOK, List!SelectionOnScreen, RequestFits

LEMMA SelectionKept ==
    ASSUME List!ListInv, List!ToggleBatchMode \/ List!ClearBar
    PROVE  List!ListInv'
<1>1. /\ selection' \in [ids : SUBSET List!Tasks, batchMode : BOOLEAN,
                         anchor : 0 .. List!Cardinality(List!Tasks)]
      /\ selection'.ids \subseteq selection.ids
      /\ selection'.ids # {} => selection'.batchMode
  BY DEF List!ListInv, List!ListTypeOK, List!SelectionOnScreen, List!ToggleBatchMode,
     List!ClearBar, List!SetSelected
<1>2. UNCHANGED <<rows, status, publish, batch, removing, flags, listRequests>>
  BY DEF List!ToggleBatchMode, List!ClearBar, List!dialogs
<1>3. QED
  BY <1>1, <1>2 DEF List!ListInv, List!ListTypeOK, List!OverridesFit, List!SelectionOnScreen

LEMMA TaskListStep == List!ListInv /\ [List!ListNext]_listVars => List!ListInv'
<1> SUFFICES ASSUME List!ListInv, [List!ListNext]_listVars PROVE List!ListInv'
  OBVIOUS
<1> DEFINE Fits == \A r \in listRequests : RequestFits(r)
<1>1. /\ rows \subseteq List!Tasks /\ status \in [List!Tasks -> List!ListStatus]
      /\ publish \in [task : List!Tasks \cup {List!NoTask}, open : BOOLEAN]
      /\ batch \in [ids : SUBSET List!Tasks, open : BOOLEAN, overrides : SUBSET List!Tasks]
      /\ removing \in List!Tasks \cup {List!NoTask}
      /\ flags \in [publishing : SUBSET List!Tasks, retrying : SUBSET List!Tasks, batch : BOOLEAN]
      /\ Fits /\ List!OverridesFit
  BY DEF List!ListInv, List!ListTypeOK, RequestFits
<1>2. ASSUME List!RowMoves \/ List!RowLeaves \/ List!RowEnters
      PROVE  List!ListInv'
  <2>1. PICK list \in SUBSET List!Tasks, st \in [List!Tasks -> List!ListStatus] :
           List!ShowRows(list, st)
    BY <1>1, <1>2 DEF List!RowMoves, List!RowLeaves, List!RowEnters
  <2>2. QED
    BY <2>1, RowsShown
<1>3. ASSUME List!ClickRow
      PROVE  List!ListInv'
  BY <1>3, RowToggled DEF List!ClickRow
<1>4. ASSUME NEW t \in List!Tasks, List!OpenPublish(t)
      PROVE  List!ListInv'
  BY <1>1, <1>4, DialogsStep DEF List!OpenPublish, List!OverridesFit
<1>5. ASSUME NEW t \in List!Tasks, List!EditPath(t)
      PROVE  List!ListInv'
  <2>1. t \in batch.ids /\ batch' = [batch EXCEPT !.overrides = @ \cup {t}]
    BY <1>5 DEF List!EditPath, List!BatchItems
  <2>2. List!OverridesFit'
    BY <1>1, <2>1 DEF List!OverridesFit
  <2>3. batch' \in [ids : SUBSET List!Tasks, open : BOOLEAN, overrides : SUBSET List!Tasks]
    BY <1>1, <2>1
  <2>4. QED
    BY <1>1, <1>5, <2>2, <2>3, DialogsStep DEF List!EditPath
<1>6. ASSUME NEW t \in List!Tasks, List!Retry(t)
      PROVE  List!ListInv'
  <2>1. \A r \in listRequests' : RequestFits(r)
    BY <1>6, RequestSent DEF List!Retry
  <2>2. flags' \in [publishing : SUBSET List!Tasks, retrying : SUBSET List!Tasks, batch : BOOLEAN]
    BY <1>1, <1>6 DEF List!Retry
  <2>3. QED
    BY <1>1, <1>6, <2>1, <2>2, DialogsStep DEF List!Retry, List!OverridesFit
<1>7. ASSUME NEW t \in List!Tasks, List!AskRemove(t)
      PROVE  List!ListInv'
  BY <1>1, <1>7, DialogsStep DEF List!AskRemove, List!OverridesFit
<1>8. CASE List!ClosePublish
  BY <1>1, <1>8, DialogsStep DEF List!ClosePublish, List!OverridesFit
<1>9. CASE List!ConfirmPublish
  <2>1. publish.task \in List!Tasks
    BY <1>1, <1>9 DEF List!ConfirmPublish
  <2>2. \A r \in listRequests' : RequestFits(r)
    BY <1>9, <2>1, RequestSent DEF List!ConfirmPublish
  <2>3. /\ publish' \in [task : List!Tasks \cup {List!NoTask}, open : BOOLEAN]
        /\ flags' \in [publishing : SUBSET List!Tasks, retrying : SUBSET List!Tasks, batch : BOOLEAN]
    BY <1>1, <1>9, <2>1 DEF List!ConfirmPublish
  <2>4. QED
    BY <1>1, <1>9, <2>2, <2>3, DialogsStep DEF List!ConfirmPublish, List!OverridesFit
<1>10. ASSUME NEW ids \in SUBSET rows, List!OpenBatch(ids)
       PROVE  List!ListInv'
  <2>1. batch' \in [ids : SUBSET List!Tasks, open : BOOLEAN, overrides : SUBSET List!Tasks]
    BY <1>1, <1>10 DEF List!OpenBatch
  <2>2. List!OverridesFit'
    BY <1>10 DEF List!OpenBatch, List!OverridesFit
  <2>3. QED
    BY <1>1, <1>10, <2>1, <2>2, DialogsStep DEF List!OpenBatch
<1>11. CASE List!PublishGroup
  BY <1>10, <1>11 DEF List!PublishGroup, List!GroupOf
<1>12. CASE List!PublishSelected
  BY <1>10, <1>12 DEF List!PublishSelected
<1>13. CASE List!CloseBatch
  <2>1. batch' \in [ids : SUBSET List!Tasks, open : BOOLEAN, overrides : SUBSET List!Tasks]
    BY <1>1, <1>13 DEF List!CloseBatch
  <2>2. List!OverridesFit'
    BY <1>1, <1>13 DEF List!CloseBatch, List!OverridesFit
  <2>3. QED
    BY <1>1, <1>13, <2>1, <2>2, DialogsStep DEF List!CloseBatch
<1>14. CASE List!ConfirmBatch
  <2>1. batch.overrides \subseteq batch.ids /\ batch.ids \subseteq List!Tasks
    BY <1>1, <1>14 DEF List!ConfirmBatch, List!OverridesFit
  <2>2. \A r \in listRequests' : RequestFits(r)
    BY <1>14, <2>1, RequestSent DEF List!ConfirmBatch
  <2>3. /\ batch' \in [ids : SUBSET List!Tasks, open : BOOLEAN, overrides : SUBSET List!Tasks]
        /\ flags' \in [publishing : SUBSET List!Tasks, retrying : SUBSET List!Tasks, batch : BOOLEAN]
    BY <1>1, <1>14, <2>1 DEF List!ConfirmBatch
  <2>4. List!OverridesFit'
    BY <1>1, <1>14 DEF List!ConfirmBatch, List!OverridesFit
  <2>5. QED
    BY <1>1, <1>14, <2>2, <2>3, <2>4, DialogsStep DEF List!ConfirmBatch
<1>15. CASE List!KeepTask
  BY <1>1, <1>15, DialogsStep DEF List!KeepTask, List!OverridesFit
<1>16. CASE List!ConfirmRemove
  <2>1. removing \in List!Tasks
    BY <1>1, <1>16 DEF List!ConfirmRemove
  <2>2. \A r \in listRequests' : RequestFits(r)
    BY <1>16, <2>1, RequestSent DEF List!ConfirmRemove
  <2>3. QED
    BY <1>1, <1>16, <2>2, DialogsStep DEF List!ConfirmRemove, List!OverridesFit
<1>17. ASSUME NEW r \in listRequests, List!RequestEnds(r)
       PROVE  List!ListInv'
  <2>1. \A q \in listRequests' : RequestFits(q)
    BY <1>1, <1>17 DEF List!RequestEnds
  <2>2. UNCHANGED <<rows, status, selection>>
    BY <1>17 DEF List!RequestEnds
  <2>3. /\ publish' \in [task : List!Tasks \cup {List!NoTask}, open : BOOLEAN]
        /\ batch' \in [ids : SUBSET List!Tasks, open : BOOLEAN, overrides : SUBSET List!Tasks]
        /\ removing' \in List!Tasks \cup {List!NoTask}
        /\ flags' \in [publishing : SUBSET List!Tasks, retrying : SUBSET List!Tasks, batch : BOOLEAN]
        /\ List!OverridesFit'
    <3>1. CASE List!PublishEnds(r)
      BY <1>1, <3>1 DEF List!PublishEnds, List!OverridesFit
    <3>2. CASE List!BatchEnds(r)
      BY <1>1, <3>2 DEF List!BatchEnds, List!OverridesFit
    <3>3. CASE List!RetryEnds(r)
      BY <1>1, <3>3 DEF List!RetryEnds, List!OverridesFit
    <3>4. CASE List!RemoveEnds(r)
      BY <1>1, <3>4 DEF List!RemoveEnds, List!OverridesFit
    <3>5. QED
      BY <1>17, <3>1, <3>2, <3>3, <3>4 DEF List!RequestEnds
  <2>4. QED
    BY <2>1, <2>2, <2>3, DialogsStep
<1>18. CASE UNCHANGED listVars
  BY <1>1, <1>18, DialogsStep DEF listVars, List!OverridesFit
<1>19. QED
  BY <1>2, <1>3, <1>4, <1>5, <1>6, <1>7, <1>8, <1>9, <1>11, <1>12, <1>13, <1>14, <1>15, <1>16,
     <1>17, <1>18, SelectionKept DEF List!ListNext

----------------------------------------------------------------------------
(* The tab *)

LEMMA TypesImplied ==
    /\ Trigger!TriggerInv /\ Trigger!UploadsInv => Trigger!TriggerTypeOK
    /\ List!ListInv => List!ListTypeOK
    /\ Picker!PickerInv => Picker!PickerTypeOK
    /\ Repo!RepoInv => Repo!RepoTypeOK
    /\ Accounts!SessionInv /\ Accounts!VersionsBounded => Accounts!SessionTypeOK
    /\ TabsInv => TeamsTypeOK
<1>1. ASSUME Trigger!TriggerInv, Trigger!UploadsInv
      PROVE  Trigger!TriggerTypeOK
  <2>1. selected \subseteq UNION {RepoFiles[p] : p \in Projects}
    BY <1>1, ShownFiles DEF Trigger!TriggerInv, Trigger!TriggerTypes, Trigger!SelectedIsShown,
       Trigger!ListsRecord
  <2>2. \A i \in DOMAIN uploads : uploads[i].file \in Translatable
    <3>1. uploads \in Seq([file : Translatable, target : Translatable \cup Paths \cup {<<>>}])
      BY <1>1 DEF Trigger!UploadsInv
    <3>2. \A i \in DOMAIN uploads :
             uploads[i] \in [file : Translatable, target : Translatable \cup Paths \cup {<<>>}]
      BY <3>1, LenProperties, ElementOfSeq
    <3>3. QED
      BY <3>2
  <2>3. Trigger!Sent <= MaxSubmits
    BY <1>1, UploadsAssumed DEF Trigger!UploadsInv, Trigger!Sent
  <2>4. QED
    BY <1>1, <2>1, <2>2, <2>3 DEF Trigger!TriggerInv, Trigger!TriggerTypes, Trigger!DialogRecord,
       Trigger!ListsRecord, Trigger!UploadsInv, Trigger!TriggerTypeOK
<1>2. ASSUME Picker!PickerInv
      PROVE  Picker!PickerTypeOK
  BY <1>2, PickerAssumed DEF Picker!PickerInv, Picker!PickerTypes, Picker!PickerRecord,
     Picker!PickerTypeOK
<1>3. ASSUME Repo!RepoInv
      PROVE  Repo!RepoTypeOK
  BY <1>3, RepoImplied
<1>4. ASSUME Accounts!SessionInv, Accounts!VersionsBounded
      PROVE  Accounts!SessionTypeOK
  <2>1. \A j \in Accounts!Jwts : j.user \in Logins \cup {Accounts!Nobody}
    BY DEF Accounts!Jwts, Accounts!NoJwt
  <2>2. ~store.ready => Accounts!InFlight({"boot"})
    BY <1>4, FirstIsSlot DEF Accounts!SessionInv, Accounts!FitsTab, Accounts!InFlight
  <2>3. QED
    BY <1>4, <2>1, <2>2 DEF Accounts!SessionInv, Accounts!SessionTypes, Accounts!TabRecord,
       Accounts!OneAccount, Accounts!FitsTab, Accounts!VersionsBounded, Accounts!SessionTypeOK
<1>5. ASSUME TabsInv
      PROVE  TeamsTypeOK
  BY <1>5 DEF TabsInv, TeamsInv, TablesOK, CachesOK, Cache, InviteRecord, TeamsTypeOK
<1>6. QED
  BY <1>1, <1>2, <1>3, <1>4, <1>5 DEF List!ListInv

\* A step of the tab is a step of one part, and leaves the others alone.
LEMMA PagesParts ==
    PagesSpec => /\ Trigger!TriggerInit /\ [][Trigger!TriggerNext]_triggerVars
                 /\ List!ListInit /\ [][List!ListNext]_listVars
                 /\ Picker!PickerInit /\ [][Picker!PickerNext]_pickerVars
                 /\ Repo!RepoInit /\ [][Repo!RepoNext]_repoVars
                 /\ Accounts!SessionInit /\ [][Accounts!SessionNext]_sessionVars
                 /\ TeamsInit /\ [][TeamsNext]_teamsVars
<1>1. [PagesNext]_pagesVars => /\ [Trigger!TriggerNext]_triggerVars
                               /\ [List!ListNext]_listVars
                               /\ [Picker!PickerNext]_pickerVars
                               /\ [Repo!RepoNext]_repoVars
                               /\ [Accounts!SessionNext]_sessionVars
                               /\ [TeamsNext]_teamsVars
  BY DEF PagesNext, pagesVars, triggerVars, listVars, pickerVars, repoVars, sessionVars, teamsVars
<1>2. PagesInit => /\ Trigger!TriggerInit /\ List!ListInit /\ Picker!PickerInit
                   /\ Repo!RepoInit /\ Accounts!SessionInit /\ TeamsInit
  BY DEF PagesInit
<1>3. QED
  BY <1>1, <1>2, PTL DEF PagesSpec

\* The inductive invariants of the parts hold, whichever part is on the screen.
LEMMA SessionInvariant == PagesSpec => []Accounts!SessionInv
BY SessionStart, SessionStep, PagesParts, PTL

LEMMA RepoInvariant == PagesSpec => []Repo!RepoInv
BY RepoStart, RepoStep, PagesParts, PTL

LEMMA PickerInvariant == PagesSpec => []Picker!PickerInv
BY PickerStart, PickerStep, PagesParts, PTL

LEMMA TriggerInvariant == PagesSpec => []Trigger!TriggerInv
BY TriggerStart, TriggerStep, PagesParts, PTL

LEMMA ListInvariant == PagesSpec => []List!ListInv
BY TaskListStart, TaskListStep, PagesParts, PTL

LEMMA TeamsInvariant == PagesSpec => []TabsInv
BY TabsAlways, PagesParts, PTL DEF TeamsSpec

\* No answer to another account is in the cache of the user logged in: not after
\* a logout, a refusal, a login in another tab or an answer that comes late.
THEOREM CacheIsOfUser == PagesSpec => []CacheOfUser
<1>1. Accounts!SessionInv => CacheOfUser
  BY DEF Accounts!SessionInv, CacheOfUser
<1>2. QED
  BY <1>1, SessionInvariant, PTL

\* A session ends only by what ends it.
THEOREM SessionHasToBeEnded == PagesSpec => []SessionLasts
<1>1. Accounts!SessionInv => SessionLasts
  BY DEF Accounts!SessionInv, SessionLasts
<1>2. QED
  BY <1>1, SessionInvariant, PTL

\* What the dialogs of a repository's page delete and show is the page's own.
THEOREM DialogsAreOfPage == PagesSpec => []DialogsFitPage
<1>1. Repo!RepoInv => DialogsFitPage
  BY DEF Repo!RepoInv, DialogsFitPage
<1>2. QED
  BY <1>1, RepoInvariant, PTL

\* A field the user has not touched shows what is stored, whatever answers come
\* in whatever order.
THEOREM UntouchedFieldsAreStored == PagesSpec => []UntouchedDraftIsStored
<1>1. Repo!RepoInv => UntouchedDraftIsStored
  BY RepoImplied DEF UntouchedDraftIsStored
<1>2. QED
  BY <1>1, RepoInvariant, PTL

\* The form of a new repository makes at most one.
THEOREM FormMakesOneRepository == PagesSpec => []OneRepositoryPerForm
<1>1. Repo!RepoInv => OneRepositoryPerForm
  BY RepoImplied DEF OneRepositoryPerForm
<1>2. QED
  BY <1>1, RepoInvariant, PTL

\* What a click in a path picker makes of the path names a file: of the repository,
\* or as the task's own.
THEOREM ClicksNameFiles == PagesSpec => []ClickedPathNamesFile
<1>1. Picker!PickerInv => ClickedPathNamesFile
  BY DEF Picker!PickerInv, ClickedPathNamesFile
<1>2. QED
  BY <1>1, PickerInvariant, PTL

\* The dialog that starts translations sends files of the one repository it names.
THEOREM RequestsAreOfOneRepository == PagesSpec => []RequestFromOneRepository
<1>1. Trigger!TriggerInv => RequestFromOneRepository
  BY DEF Trigger!TriggerInv, RequestFromOneRepository
<1>2. QED
  BY <1>1, TriggerInvariant, PTL

\* The folder browsed is in the list shown, and the rows of its level lead to every
\* file under it, each in one way: for any files and folders.
THEOREM TreeIsOfList == PagesSpec => []TreeShowsList
<1>1. Trigger!TriggerInv => TreeShowsList
  BY TriggerImplied DEF TreeShowsList
<1>2. QED
  BY <1>1, TriggerInvariant, PTL

\* An upload closes the dialog only with the answer that makes all of them created.
THEOREM UploadClosesLast == PagesSpec => UploadClosesWhenAllCreated
<1>1. \A S : Trigger!Cardinality(S) = Cardinality(S)
  BY DEF Cardinality, Trigger!Cardinality
<1>2. [Trigger!TriggerNext]_triggerVars =>
         [\A s \in pending :
             (s.kind = "upload" /\ dialog.open /\ ~dialog'.open /\ s \notin pending') =>
                 Trigger!Cardinality({i \in DOMAIN s.answers : s.answers[i] # "ok"}) = 1
         ]_(Trigger!triggerVars)
  BY <1>1, UploadCloses DEF triggerVars, Trigger!triggerVars
<1>3. QED
  BY <1>2, PagesParts, PTL DEF UploadClosesWhenAllCreated, Trigger!UploadClosesWhenAllCreated

\* The tables of types, whichever part is on the screen.
THEOREM EveryPartIsOfType == PagesSpec => []PagesTypeOK
<1>1. PagesSpec => [](part \in {"trigger", "list", "picker", "repositories", "session", "teams"})
  <2>1. PagesInit => part \in {"trigger", "list", "picker", "repositories", "session", "teams"}
    BY DEF PagesInit
  <2>2. [PagesNext]_pagesVars => UNCHANGED part
    BY DEF PagesNext, pagesVars
  <2>3. part \in {"trigger", "list", "picker", "repositories", "session", "teams"} /\ UNCHANGED part
        => (part \in {"trigger", "list", "picker", "repositories", "session", "teams"})'
    OBVIOUS
  <2>4. QED
    BY <2>1, <2>2, <2>3, PTL DEF PagesSpec
<1>2. PagesSpec => []Trigger!UploadsInv
  BY UploadsStart, UploadsStep, PagesParts, PTL
<1>3. PagesSpec => []Accounts!VersionsBounded
  BY VersionsStart, VersionsStep, PagesParts, PTL
<1>4. /\ part \in {"trigger", "list", "picker", "repositories", "session", "teams"}
      /\ Trigger!TriggerInv /\ Trigger!UploadsInv /\ List!ListInv /\ Picker!PickerInv
      /\ Repo!RepoInv /\ Accounts!SessionInv /\ Accounts!VersionsBounded /\ TabsInv
      => PagesTypeOK
  BY TypesImplied DEF PagesTypeOK
<1>5. QED
  BY <1>1, <1>2, <1>3, <1>4, TriggerInvariant, ListInvariant, PickerInvariant, RepoInvariant,
     SessionInvariant, TeamsInvariant, PTL

\* What is selected in the task list is on the screen, whatever rows leave and
\* whatever range a click selects.
THEOREM SelectedIsOnScreen == PagesSpec => []SelectionOnScreen
<1>1. List!ListInv => SelectionOnScreen
  BY DEF List!ListInv, SelectionOnScreen
<1>2. QED
  BY <1>1, ListInvariant, PTL
=============================================================================
