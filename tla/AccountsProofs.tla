--------------------------- MODULE AccountsProofs ---------------------------
(***************************************************************************)
(* What Accounts promises of Sessions, People, SecondFactor, LoginAttempts *)
(* and Answers, for any constants.  Each part has an inductive invariant   *)
(* of its own; what holds of a part by itself holds of the composition,    *)
(* where the other parts leave it alone.                                   *)
(***************************************************************************)
EXTENDS Accounts, Sequences, FiniteSetTheorems, TLAPS

-----------------------------------------------------------------------------
(* Sessions: a family has one session that can be renewed, what ends a family
   ends all of it, and neither a blocked person nor an old password keeps a
   session. *)

Stale(t) == sessions[t].rotated \/ sessions[t].revoked
Same(s, t) == sessions[s].family = sessions[t].family
Overtaken(t) == sessions[t].family \in overtaken

(* A family has one session that was not rotated, one person, and descends
   from what it issued. *)
Chain ==
    \A s, t \in Issued : ~sessions[s].rotated /\ ~sessions[t].rotated /\ Same(s, t) => s = t

Descent ==
    \A s, t \in Issued :
        /\ sessions[s].user \in Users
        /\ Same(s, t) => sessions[s].user = sessions[t].user
        /\ sessions[s].parent = t => Same(s, t)
        /\ sessions[s].parent \in Issued \cup {NoToken}

Replays == \A t \in replayed : t \in Issued /\ Stale(t)

(* A revocation under way has seen every session it is to end, except in a
   family that overtook it. *)
Reach(r) ==
    /\ r.marks \subseteq Issued
    /\ \A s \in Issued, t \in r.marks : Live(s) /\ Same(s, t) => s \in r.marks \/ Overtaken(s)
    /\ r.why \in {"block", "reset"} =>
           \A s \in Issued : Live(s) /\ sessions[s].user = r.user => s \in r.marks \/ Overtaken(s)
    /\ r.why = "replayed" =>
           /\ r.token \in Issued /\ Stale(r.token)
           /\ \A n \in Issued : sessions[n].parent = r.token => n \in r.marks \/ sessions[n].revoked

(* What a request remembers is still so when it uses it. *)
Sound(r) ==
    /\ r.step = "login" =>
           r.user \in Users /\ (r.password = users[r.user].password \/ r.late)
    /\ r.step = "read" => r.token \in Issued /\ (r.why = "replayed" => Stale(r.token))
    /\ r.step = "rotating" => Live(r.token)
    /\ r.step = "revoking" => Reach(r)

(* One rotation of a token at a time: the row is locked. *)
Locks ==
    \A p, q \in Requests :
        /\ requests[p].step = "rotating" /\ requests[q].step = "rotating"
        /\ requests[p].token = requests[q].token
        => p = q

Tables ==
    /\ Chain /\ Descent /\ Replays
    /\ EndedStaysEnded /\ ReplayEndsSuccessor /\ NoOldAccess

Remembered == \A q \in Requests : Sound(requests[q])

SessionsInv == TypeOK /\ Tables /\ Remembered /\ Locks

-----------------------------------------------------------------------------
LEMMA IssuedAreTokens == Issued \subseteq Tokens /\ \A t : Live(t) => t \in Tokens /\ t \in Issued
  BY DEF Issued, Live

LEMMA InitHolds == Init => SessionsInv
<1> SUFFICES ASSUME Init
             PROVE  SessionsInv
  OBVIOUS
<1>1. TypeOK
  BY SessionsAssumption
  DEF Init, TypeOK, User, Session, Link, Request, NoSession, UnusedLink, Idle
<1>2. Issued = {}
  BY DEF Init, Issued, NoSession
<1>3. \A t : ~Live(t)
  BY <1>2 DEF Live
<1>4. replayed = {}
  BY DEF Init
<1>5. Tables
  BY <1>2, <1>3, <1>4
  DEF Tables, Chain, Descent, Replays, EndedStaysEnded, ReplayEndsSuccessor, NoOldAccess,
      BlockedHasNoSession, ResetEndsOldSessions
<1>6. \A q \in Requests : requests[q].step = "idle"
  BY DEF Init, Idle
<1>7. Remembered /\ Locks
  BY <1>6 DEF Remembered, Locks, Sound
<1> QED
  BY <1>1, <1>5, <1>7 DEF SessionsInv

-----------------------------------------------------------------------------
(* Steps that change one request, and no table *)

TablesStay ==
    /\ UNCHANGED <<users, sessions, overtaken, replayed>>
    /\ UNCHANGED links \/ links' \in [Links -> Link]

LEMMA TablesUnmoved ==
    ASSUME TablesStay, SessionsInv
    PROVE  /\ Tables' /\ Issued' = Issued
           /\ \A r : Sound(r)' <=> Sound(r)
<1>1. Issued' = Issued /\ \A t : Live(t)' <=> Live(t)
  BY DEF TablesStay, Issued, Live
<1>2. \A s, t : (Same(s, t)' <=> Same(s, t)) /\ (Overtaken(s)' <=> Overtaken(s)) /\ (Stale(s)' <=> Stale(s))
  BY DEF TablesStay, Same, Overtaken, Stale
<1>3. \A t : FamilyOf(t)' = FamilyOf(t)
  BY <1>1 DEF TablesStay, FamilyOf
<1>4. Tables'
  BY <1>1, <1>2, <1>3
  DEF SessionsInv, Tables, Chain, Descent, Replays, EndedStaysEnded, ReplayEndsSuccessor, NoOldAccess,
      BlockedHasNoSession, ResetEndsOldSessions, TablesStay
<1>5. ASSUME NEW r
      PROVE  Reach(r)' <=> Reach(r)
  BY <1>1, <1>2 DEF Reach, TablesStay
<1>6. ASSUME NEW r
      PROVE  Sound(r)' <=> Sound(r)
  BY <1>1, <1>2, <1>5 DEF Sound, TablesStay
<1> QED
  BY <1>1, <1>4, <1>6

LEMMA RequestMoves ==
    ASSUME SessionsInv, TablesStay,
           NEW q \in Requests, NEW r \in Request, Becomes(q, r), Sound(r),
           r.step = "rotating" => ~LockedSession(r.token)
    PROVE  SessionsInv'
<1>1. requests \in [Requests -> Request]
  BY DEF SessionsInv, TypeOK
<1>2. requests' \in [Requests -> Request] /\ requests'[q] = r
      /\ \A p \in Requests \ {q} : requests'[p] = requests[p]
  BY <1>1 DEF Becomes
<1>3. TypeOK'
  BY <1>2 DEF SessionsInv, TypeOK, TablesStay
<1>4. Remembered'
  <2> SUFFICES ASSUME NEW p \in Requests
               PROVE  Sound(requests[p])'
    BY DEF Remembered
  <2>1. Sound(requests'[p])
    BY <1>2 DEF SessionsInv, Remembered
  <2> DEFINE s == requests'[p]
  <2> HIDE DEF s
  <2> QED
    BY <2>1, TablesUnmoved
<1>5. Locks'
  BY <1>2 DEF SessionsInv, Locks, LockedSession
<1> QED
  BY <1>3, <1>4, <1>5, TablesUnmoved DEF SessionsInv

LEMMA IdleIsSound == Idle \in Request /\ Sound(Idle) /\ Idle.step = "idle"
BY DEF Idle, Request, Sound

LEMMA RequestTyped ==
    ASSUME SessionsInv, NEW q \in Requests
    PROVE  /\ requests[q] \in Request /\ Sound(requests[q]) /\ requests[q].user \in Users \cup {NoUser}
           /\ requests[q].token \in Tokens \cup {NoToken} /\ requests[q].link \in Links \cup {NoLink}
           /\ requests[q].marks \in SUBSET Tokens /\ requests[q].old \in SUBSET Links
           /\ requests[q].password \in Nat /\ requests[q].late \in BOOLEAN
BY DEF SessionsInv, TypeOK, Remembered, Request

LEMMA MarksTyped == \A S : S \subseteq Issued => Unrevoked(S) \in SUBSET Tokens
BY IssuedAreTokens DEF Unrevoked

(* Logins, refreshes and logouts read, and a reset finds its link. *)
LEMMA ReadsKeep ==
    ASSUME SessionsInv, NEW q \in Requests,
           \/ \E u \in Users : CheckLogin(q, u) \/ AskReset(q, u)
           \/ \E t \in Tokens : ReadForRefresh(q, t) \/ AskLogout(q, t)
           \/ \E l \in Links : FindOpenByTokenHash(q, l)
    PROVE  SessionsInv'
<1>1. CASE \E u \in Users : CheckLogin(q, u)
  <2>1. PICK u \in Users : CheckLogin(q, u)
    BY <1>1
  <2> DEFINE r == [Idle EXCEPT !.step = "login", !.user = u, !.password = users[u].password]
  <2>2. users[u].password \in Nat
    BY DEF SessionsInv, TypeOK, User
  <2>3. r \in Request /\ Sound(r) /\ r.step # "rotating"
    BY <2>2 DEF Idle, Request, Sound
  <2>4. TablesStay /\ Becomes(q, r)
    BY <2>1 DEF CheckLogin, TablesStay
  <2> HIDE DEF r
  <2> QED
    BY <2>3, <2>4, RequestMoves
<1>2. CASE \E u \in Users : AskReset(q, u)
  <2>1. PICK u \in Users : AskReset(q, u)
    BY <1>2
  <2> DEFINE r == [Idle EXCEPT !.step = "asking", !.user = u,
                               !.old = {l \in Links : links[l].user = u /\ ~links[l].used}]
  <2>2. r \in Request /\ Sound(r) /\ r.step # "rotating"
    BY DEF Idle, Request, Sound
  <2>3. TablesStay /\ Becomes(q, r)
    BY <2>1 DEF AskReset, TablesStay
  <2> HIDE DEF r
  <2> QED
    BY <2>2, <2>3, RequestMoves
<1>3. CASE \E t \in Tokens : ReadForRefresh(q, t)
  <2>1. PICK t \in Tokens : ReadForRefresh(q, t)
    BY <1>3
  <2> DEFINE r == [Idle EXCEPT !.step = "read", !.why = Verdict(t), !.token = t]
  <2>2. Verdict(t) \in {"replayed", "refused", "current"} /\ (Verdict(t) = "replayed" => Stale(t))
    BY DEF Verdict, Stale
  <2>3. t \in Issued
    BY <2>1 DEF ReadForRefresh
  <2>4. r \in Request /\ Sound(r) /\ r.step # "rotating"
    BY <2>2, <2>3 DEF Idle, Request, Sound
  <2>5. TablesStay /\ Becomes(q, r)
    BY <2>1 DEF ReadForRefresh, TablesStay
  <2> HIDE DEF r
  <2> QED
    BY <2>4, <2>5, RequestMoves
<1>4. CASE \E t \in Tokens : AskLogout(q, t)
  <2>1. PICK t \in Tokens : AskLogout(q, t)
    BY <1>4
  <2> DEFINE r == [Idle EXCEPT !.step = "read", !.why = "logout", !.token = t]
  <2>2. t \in Issued
    BY <2>1 DEF AskLogout, Admitted
  <2>3. r \in Request /\ Sound(r) /\ r.step # "rotating"
    BY <2>2 DEF Idle, Request, Sound
  <2>4. TablesStay /\ Becomes(q, r)
    BY <2>1 DEF AskLogout, TablesStay
  <2> HIDE DEF r
  <2> QED
    BY <2>3, <2>4, RequestMoves
<1>5. CASE \E l \in Links : FindOpenByTokenHash(q, l)
  <2>1. PICK l \in Links : FindOpenByTokenHash(q, l)
    BY <1>5
  <2> DEFINE r == [Idle EXCEPT !.step = "reset", !.link = l, !.user = links[l].user]
  <2>2. links[l].user \in Users \cup {NoUser}
    BY DEF SessionsInv, TypeOK, Link
  <2>3. r \in Request /\ Sound(r) /\ r.step # "rotating"
    BY <2>2 DEF Idle, Request, Sound
  <2>4. TablesStay /\ Becomes(q, r)
    BY <2>1 DEF FindOpenByTokenHash, TablesStay
  <2> HIDE DEF r
  <2> QED
    BY <2>3, <2>4, RequestMoves
<1> QED
  BY <1>1, <1>2, <1>3, <1>4, <1>5

LEMMA SessionAbortKeeps ==
    ASSUME SessionsInv, NEW q \in Requests, Abort(q)
    PROVE  SessionsInv'
BY IdleIsSound, RequestMoves DEF Abort, TablesStay

(* The row of a rotation is locked while it is live. *)
LEMMA MarkKeeps ==
    ASSUME SessionsInv, NEW q \in Requests, MarkRefreshSessionRotated(q)
    PROVE  SessionsInv'
<1> DEFINE t == requests[q].token
           rotating == [requests[q] EXCEPT !.step = "rotating"]
           replay == [requests[q] EXCEPT !.why = "replayed"]
<1>1. requests[q] \in Request /\ t \in Issued /\ requests[q].step = "read"
  BY RequestTyped DEF MarkRefreshSessionRotated, Sound
<1>2. TablesStay /\ ~LockedSession(t)
  BY DEF MarkRefreshSessionRotated, TablesStay
<1>3. CASE Rotatable(t)
  <2>1. rotating \in Request /\ rotating.step = "rotating" /\ rotating.token = t
    BY <1>1 DEF Request
  <2>2. Sound(rotating)
    BY <1>1, <1>3, <2>1 DEF Sound, Live, Rotatable
  <2>3. Becomes(q, rotating)
    BY <1>3 DEF MarkRefreshSessionRotated
  <2> HIDE DEF rotating, t
  <2> QED
    BY <1>2, <2>1, <2>2, <2>3, RequestMoves
<1>4. CASE ~Rotatable(t)
  <2>1. replay \in Request /\ replay.step = "read" /\ replay.token = t
    BY <1>1 DEF Request
  <2>2. Sound(replay)
    BY <1>1, <1>4, <2>1 DEF Sound, Stale, Rotatable
  <2>3. Becomes(q, replay)
    BY <1>4 DEF MarkRefreshSessionRotated
  <2> HIDE DEF replay, t
  <2> QED
    BY <1>2, <2>1, <2>2, <2>3, RequestMoves
<1> QED
  BY <1>3, <1>4

(* A family's revocation sees the whole family. *)
LEMMA RevokeFamilyKeeps ==
    ASSUME SessionsInv, NEW q \in Requests, RevokeTokenFamily(q)
    PROVE  SessionsInv'
<1> DEFINE t == requests[q].token
           r == [requests[q] EXCEPT !.step = "revoking", !.marks = Unrevoked(FamilyOf(t))]
<1>1. requests[q] \in Request /\ t \in Issued /\ requests[q].step = "read"
      /\ (requests[q].why = "replayed" => Stale(t))
      /\ requests[q].why \in {"replayed", "refused", "logout"}
  BY RequestTyped DEF RevokeTokenFamily, Sound
<1>2. FamilyOf(t) \subseteq Issued
  BY DEF FamilyOf
<1>3. r \in Request /\ r.step = "revoking" /\ r.token = t /\ r.why = requests[q].why
      /\ r.marks = Unrevoked(FamilyOf(t))
  BY <1>1, <1>2, MarksTyped DEF Request
<1>4. \A s \in Issued : s \in r.marks <=> Same(s, t) /\ ~sessions[s].revoked
  BY <1>3 DEF Unrevoked, FamilyOf, Same
<1>5. r.marks \subseteq Issued
  BY <1>2, <1>3 DEF Unrevoked
<1>6. ASSUME NEW s \in Issued, NEW x \in r.marks, Live(s), Same(s, x)
      PROVE  s \in r.marks
  BY <1>4, <1>5, <1>6 DEF Live, Same
<1>7. ASSUME NEW n \in Issued, sessions[n].parent = t
      PROVE  n \in r.marks \/ sessions[n].revoked
  BY <1>1, <1>4, <1>7 DEF SessionsInv, Tables, Descent
<1>8. Sound(r)
  BY <1>1, <1>3, <1>5, <1>6, <1>7 DEF Sound, Reach
<1>9. TablesStay /\ Becomes(q, r)
  BY DEF RevokeTokenFamily, TablesStay
<1> HIDE DEF r, t
<1> QED
  BY <1>3, <1>8, <1>9, RequestMoves

(* So do the revocations of a person's sessions. *)
LEMMA PersonReached ==
    ASSUME SessionsInv, NEW r \in Request, r.marks = Unrevoked(SessionsOf(r.user)),
           r.why \in {"block", "reset"}
    PROVE  Reach(r)
<1>1. r.marks \subseteq Issued
  BY DEF Unrevoked, SessionsOf
<1>2. \A s \in Issued : s \in r.marks <=> sessions[s].user = r.user /\ ~sessions[s].revoked
  BY DEF Unrevoked, SessionsOf
<1>3. ASSUME NEW s \in Issued, NEW t \in r.marks, Live(s), Same(s, t)
      PROVE  s \in r.marks
  BY <1>1, <1>2, <1>3 DEF Live, SessionsInv, Tables, Descent
<1> QED
  BY <1>1, <1>2, <1>3 DEF Reach, Live

LEMMA PersonsKeep ==
    ASSUME SessionsInv, NEW q \in Requests, Consume(q) \/ \E u \in Users : Block(q, u)
    PROVE  SessionsInv'
<1>1. \A u : SessionsOf(u) \subseteq Issued
  BY DEF SessionsOf
<1>2. CASE \E u \in Users : Block(q, u)
  <2>1. PICK u \in Users : Block(q, u)
    BY <1>2
  <2> DEFINE r == [Idle EXCEPT !.step = "revoking", !.why = "block", !.user = u,
                               !.marks = Unrevoked(SessionsOf(u))]
  <2>2. r \in Request /\ r.step = "revoking" /\ r.why = "block"
        /\ r.marks = Unrevoked(SessionsOf(r.user))
    BY <1>1, MarksTyped DEF Idle, Request
  <2>3. TablesStay /\ Becomes(q, r)
    BY <2>1 DEF Block, TablesStay
  <2> HIDE DEF r
  <2>4. Sound(r)
    BY <2>2, PersonReached DEF Sound
  <2> QED
    BY <2>2, <2>3, <2>4, RequestMoves
<1>3. CASE Consume(q)
  <2> DEFINE r == [requests[q] EXCEPT !.step = "revoking", !.why = "reset",
                                      !.marks = Unrevoked(SessionsOf(requests[q].user))]
  <2>1. r \in Request /\ r.step = "revoking" /\ r.why = "reset"
        /\ r.marks = Unrevoked(SessionsOf(r.user))
    BY <1>1, MarksTyped, RequestTyped DEF Request
  <2>2. TablesStay /\ (Becomes(q, Idle) \/ Becomes(q, r))
    BY <1>3 DEF Consume, TablesStay
  <2> HIDE DEF r
  <2>3. Sound(r)
    BY <2>1, PersonReached DEF Sound
  <2> QED
    BY <2>1, <2>2, <2>3, IdleIsSound, RequestMoves
<1> QED
  BY <1>2, <1>3

(* A new link, beside those its request found open. *)
LEMMA CreateRequestKeeps ==
    ASSUME SessionsInv, NEW q \in Requests, CreateRequest(q)
    PROVE  SessionsInv'
<1>1. links \in [Links -> Link] /\ requests[q].user \in Users \cup {NoUser}
  BY RequestTyped DEF SessionsInv, TypeOK
<1>2. [UnusedLink EXCEPT !.user = requests[q].user] \in Link
  BY <1>1 DEF UnusedLink, Link
<1>3. \A l \in Links : [links[l] EXCEPT !.used = TRUE] \in Link
  BY <1>1 DEF Link
<1>4. links' \in [Links -> Link]
  BY <1>1, <1>2, <1>3 DEF CreateRequest
<1>5. TablesStay /\ Becomes(q, Idle)
  BY <1>4 DEF CreateRequest, TablesStay
<1> QED
  BY <1>5, IdleIsSound, RequestMoves

-----------------------------------------------------------------------------
(* Steps that leave every chain as it is: a reactivation, an expiry *)

LEMMA OthersKeep ==
    ASSUME SessionsInv, \A r \in Request : Sound(r) => Sound(r)',
           \A q \in Requests : requests'[q] = requests[q] \/ requests'[q].step = "idle"
    PROVE  Remembered'
<1> SUFFICES ASSUME NEW q \in Requests
             PROVE  Sound(requests[q])'
  BY DEF Remembered
<1>1. requests[q] \in Request /\ Sound(requests[q])
  BY RequestTyped
<1>2. CASE requests'[q] = requests[q]
  <2>1. requests'[q] \in Request /\ Sound(requests'[q])
    BY <1>1, <1>2
  <2> QED
    BY <2>1
<1>3. CASE requests'[q].step = "idle"
  <2>1. ASSUME NEW r, r.step = "idle"
        PROVE  Sound(r)'
    BY <2>1 DEF Sound
  <2> QED
    BY <1>3, <2>1
<1> QED
  BY <1>2, <1>3

LEMMA ChainsUnmoved ==
    ASSUME SessionsInv, TypeOK', UNCHANGED <<requests, overtaken, replayed>>,
           \A t \in Tokens : /\ sessions'[t].user = sessions[t].user
                             /\ sessions'[t].family = sessions[t].family
                             /\ sessions'[t].parent = sessions[t].parent
                             /\ sessions'[t].rotated = sessions[t].rotated
                             /\ sessions'[t].revoked = sessions[t].revoked
                             /\ sessions'[t].password = sessions[t].password
                             /\ sessions'[t].late = sessions[t].late,
           \A u \in Users : /\ users'[u].password = users[u].password
                            /\ users'[u].status = "BLOCKED" => users[u].status = "BLOCKED"
    PROVE  SessionsInv'
<1>1. Issued' = Issued /\ \A t \in Tokens : Live(t)' <=> Live(t)
  BY DEF Issued, Live
<1>2. Issued \subseteq Tokens /\ \A t : Live(t) => t \in Issued
  BY IssuedAreTokens
<1>3. \A t \in Tokens : (Overtaken(t)' <=> Overtaken(t)) /\ (Stale(t)' <=> Stale(t))
  BY DEF Overtaken, Stale
<1>4. \A s, t \in Tokens : Same(s, t)' <=> Same(s, t)
  BY DEF Same
<1>5. \A t \in Issued : FamilyOf(t)' = FamilyOf(t)
  BY <1>1, <1>2 DEF FamilyOf
<1>6. Chain' /\ Descent' /\ Replays'
  BY <1>1, <1>2, <1>3, <1>4 DEF SessionsInv, Tables, Chain, Descent, Replays
<1>7. EndedStaysEnded'
  BY <1>1, <1>2, <1>5 DEF SessionsInv, Tables, EndedStaysEnded, FamilyOf
<1>8. ReplayEndsSuccessor'
  BY <1>1, <1>2 DEF SessionsInv, Tables, ReplayEndsSuccessor
<1>9. NoOldAccess'
  <2>1. \A t \in Tokens : Live(t) => sessions[t].user \in Users
    BY <1>2 DEF SessionsInv, Tables, Descent
  <2>2. BlockedHasNoSession'
    BY <1>1, <2>1 DEF SessionsInv, Tables, NoOldAccess, BlockedHasNoSession
  <2>3. ResetEndsOldSessions'
    BY <1>1, <2>1 DEF SessionsInv, Tables, NoOldAccess, ResetEndsOldSessions
  <2> QED
    BY <2>2, <2>3 DEF NoOldAccess
<1>10. ASSUME NEW r \in Request, Sound(r)
       PROVE  Sound(r)'
  <2>1. r.marks \subseteq Tokens
    BY DEF Request
  <2>2. Reach(r) => Reach(r)'
    BY <1>1, <1>2, <1>3, <1>4, <2>1 DEF Reach
  <2>3. Live(r.token) => Live(r.token)'
    BY <1>1, <1>2 DEF Live
  <2>4. r.token \in Issued /\ Stale(r.token) => Stale(r.token)'
    BY <1>2, <1>3
  <2>5. r.step = "login" /\ r.user \in Users => users'[r.user].password = users[r.user].password
    OBVIOUS
  <2>6. r.step = "login" => r.user \in Users /\ (r.password = users'[r.user].password \/ r.late)
    BY <1>10, <2>5 DEF Sound
  <2>7. r.step = "read" => r.token \in Issued' /\ (r.why = "replayed" => Stale(r.token)')
    BY <1>1, <1>10, <2>4 DEF Sound
  <2>8. (r.step = "rotating" => Live(r.token)') /\ (r.step = "revoking" => Reach(r)')
    BY <1>10, <2>2, <2>3 DEF Sound
  <2> QED
    BY <2>6, <2>7, <2>8 DEF Sound
<1>11. Remembered' /\ Locks'
  BY <1>10, OthersKeep DEF SessionsInv, Locks
<1> QED
  BY <1>6, <1>7, <1>8, <1>9, <1>11 DEF SessionsInv, Tables

LEMMA ReactivateKeeps ==
    ASSUME SessionsInv, NEW u \in Users, Reactivate(u)
    PROVE  SessionsInv'
<1>1. users \in [Users -> User] /\ MaxReactivations \in Nat
  BY SessionsAssumption DEF SessionsInv, TypeOK
<1>2. users' \in [Users -> User]
  BY <1>1 DEF Reactivate, User
<1>3. TypeOK'
  BY <1>2 DEF Reactivate, SessionsInv, TypeOK
<1>4. \A x \in Users : /\ users'[x].password = users[x].password
                       /\ users'[x].status = "BLOCKED" => users[x].status = "BLOCKED"
  BY <1>1 DEF Reactivate, User
<1>5. UNCHANGED <<sessions, requests, overtaken, replayed>>
  BY DEF Reactivate
<1> QED
  BY <1>3, <1>4, <1>5, ChainsUnmoved

LEMMA SessionExpireKeeps ==
    ASSUME SessionsInv, NEW t \in Tokens, Expire(t)
    PROVE  SessionsInv'
<1>1. sessions \in [Tokens -> Session]
  BY DEF SessionsInv, TypeOK
<1>2. sessions' \in [Tokens -> Session]
  <2>1. [sessions[t] EXCEPT !.expired = TRUE] \in Session
    BY <1>1 DEF Session
  <2>2. sessions' = [sessions EXCEPT ![t] = [sessions[t] EXCEPT !.expired = TRUE]]
    BY DEF Expire
  <2> QED
    BY <1>1, <2>1, <2>2
<1>3. TypeOK'
  BY <1>2 DEF Expire, SessionsInv, TypeOK
<1>4. \A x \in Tokens : /\ sessions'[x].user = sessions[x].user
                        /\ sessions'[x].family = sessions[x].family
                        /\ sessions'[x].parent = sessions[x].parent
                        /\ sessions'[x].rotated = sessions[x].rotated
                        /\ sessions'[x].revoked = sessions[x].revoked
                        /\ sessions'[x].password = sessions[x].password
                        /\ sessions'[x].late = sessions[x].late
  BY <1>1 DEF Expire, Session
<1>5. UNCHANGED <<users, requests, overtaken, replayed>>
  BY DEF Expire
<1> QED
  BY <1>3, <1>4, <1>5, ChainsUnmoved

-----------------------------------------------------------------------------
(* A login opens a family of its own, for a person no open transaction is
   blocking or giving a new password. *)
LEMMA LoginKeeps ==
    ASSUME SessionsInv, NEW q \in Requests, CommitLogin(q)
    PROVE  SessionsInv'
<1> USE IssuedAreTokens
<1>1. PICK u \in Users : u = requests[q].user
  BY RequestTyped DEF CommitLogin, Sound
<1>2. PICK k \in Nat, late \in BOOLEAN : k = requests[q].password /\ late = requests[q].late
  BY RequestTyped
<1>3. k = users[u].password \/ late
  BY <1>1, <1>2, RequestTyped DEF CommitLogin, Sound
<1>4. ~LockedUser(u) /\ users[u].status = "ACTIVE"
  BY <1>1 DEF CommitLogin, MarkSuccessfulLogin
<1>5. PICK n \in Tokens \ Issued, f \in Families :
          /\ \A x \in Issued : sessions[x].family # f
          /\ sessions' = [sessions EXCEPT ![n] = [NoSession EXCEPT !.user = u, !.family = f,
                                                      !.password = k, !.late = late]]
  BY <1>1, <1>2 DEF CommitLogin
<1>6. UNCHANGED <<users, links, overtaken, replayed>> /\ Becomes(q, Idle)
  BY DEF CommitLogin
<1>7. sessions \in [Tokens -> Session] /\ requests \in [Requests -> Request]
  BY DEF SessionsInv, TypeOK
<1>8. /\ sessions'[n].user = u /\ sessions'[n].family = f /\ sessions'[n].parent = NoToken
      /\ sessions'[n].password = k /\ sessions'[n].late = late
      /\ ~sessions'[n].rotated /\ ~sessions'[n].revoked
      /\ \A x \in Tokens : x # n => sessions'[x] = sessions[x]
  BY <1>5, <1>7 DEF NoSession
<1>9. [NoSession EXCEPT !.user = u, !.family = f, !.password = k, !.late = late] \in Session
  BY DEF NoSession, Session
<1>10. TypeOK'
  BY <1>5, <1>6, <1>7, <1>9, IdleIsSound DEF SessionsInv, TypeOK, Becomes
<1>11. Issued' = Issued \cup {n} /\ n \notin Issued /\ n # NoToken
  BY <1>5, <1>8, SessionsAssumption DEF Issued
<1>12. \A x \in Issued : /\ sessions'[x] = sessions[x] /\ (Live(x)' <=> Live(x)) /\ ~Same(x, n)' /\ ~Same(n, x)'
                         /\ (Overtaken(x)' <=> Overtaken(x)) /\ (Stale(x)' <=> Stale(x))
                         /\ \A y \in Issued : Same(x, y)' <=> Same(x, y)
  BY <1>5, <1>6, <1>8, <1>11 DEF Live, Same, Overtaken, Stale
<1>13. \A x : Live(x)' => x \in Issued \cup {n}
  BY <1>11 DEF Live
<1>14. Chain'
  BY <1>11, <1>12 DEF SessionsInv, Tables, Chain
<1>15. Descent'
  BY <1>8, <1>11, <1>12, SessionsAssumption DEF SessionsInv, Tables, Descent
<1>16. Replays' /\ ReplayEndsSuccessor'
  BY <1>6, <1>8, <1>11, <1>12, SessionsAssumption
  DEF SessionsInv, Tables, Replays, ReplayEndsSuccessor
<1>17. EndedStaysEnded'
  <2>1. \A x \in Issued : FamilyOf(x)' = FamilyOf(x)
    BY <1>5, <1>8, <1>11, <1>12 DEF FamilyOf
  <2>2. \A x \in Issued : FamilyOf(x) \subseteq Issued
    BY DEF FamilyOf
  <2> QED
    BY <1>6, <1>8, <1>11, <1>12, <2>1, <2>2 DEF SessionsInv, Tables, EndedStaysEnded
<1>18. NoOldAccess'
  <2>1. BlockedHasNoSession'
    BY <1>4, <1>6, <1>8, <1>12, <1>13 DEF SessionsInv, Tables, NoOldAccess, BlockedHasNoSession
  <2>2. ResetEndsOldSessions'
    BY <1>3, <1>6, <1>8, <1>12, <1>13 DEF SessionsInv, Tables, NoOldAccess, ResetEndsOldSessions
  <2> QED
    BY <2>1, <2>2 DEF NoOldAccess
<1>19. ASSUME NEW r \in Request, Sound(r),
              r.step = "revoking" /\ r.why \in {"block", "reset"} => r.user # u
       PROVE  Sound(r)'
  <2>1. ASSUME r.step = "revoking"
        PROVE  Reach(r)'
    <3>1. Reach(r)
      BY <1>19, <2>1 DEF Sound
    <3>2. r.marks \subseteq Issued'
      BY <1>11, <3>1 DEF Reach
    <3>3. \A s \in Issued', t \in r.marks : Live(s)' /\ Same(s, t)' => s \in r.marks \/ Overtaken(s)'
      BY <1>11, <1>12, <3>1 DEF Reach
    <3>4. r.why \in {"block", "reset"} =>
              \A s \in Issued' : Live(s)' /\ sessions'[s].user = r.user => s \in r.marks \/ Overtaken(s)'
      BY <1>8, <1>11, <1>12, <1>19, <2>1, <3>1 DEF Reach
    <3>5. r.why = "replayed" =>
              /\ r.token \in Issued' /\ Stale(r.token)'
              /\ \A x \in Issued' : sessions'[x].parent = r.token => x \in r.marks \/ sessions'[x].revoked
      BY <1>8, <1>11, <1>12, <3>1, SessionsAssumption DEF Reach
    <3> QED
      BY <3>2, <3>3, <3>4, <3>5 DEF Reach
  <2>2. r.step = "read" => r.token \in Issued' /\ (r.why = "replayed" => Stale(r.token)')
    BY <1>11, <1>12, <1>19 DEF Sound
  <2>3. r.step = "rotating" => Live(r.token)'
    BY <1>12, <1>19 DEF Sound
  <2>4. r.step = "login" => r.user \in Users /\ (r.password = users'[r.user].password \/ r.late)
    BY <1>6, <1>19 DEF Sound
  <2> QED
    BY <2>1, <2>2, <2>3, <2>4 DEF Sound
<1>20. Remembered'
  <2> SUFFICES ASSUME NEW p \in Requests
               PROVE  Sound(requests[p])'
    BY DEF Remembered
  <2>1. CASE p = q
    <3>1. ASSUME NEW r, r.step = "idle"
          PROVE  Sound(r)'
      BY <3>1 DEF Sound
    <3>2. requests'[p].step = "idle"
      BY <1>6, <1>7, <2>1, IdleIsSound DEF Becomes
    <3> QED
      BY <3>1, <3>2
  <2>2. CASE p # q
    <3>1. requests'[p] = requests[p] /\ requests[p] \in Request /\ Sound(requests[p])
      BY <1>6, <1>7, <2>2, RequestTyped DEF Becomes
    <3>2. requests[p].step = "revoking" /\ requests[p].why \in {"block", "reset"} => requests[p].user # u
      BY <1>4 DEF LockedUser
    <3>3. /\ requests'[p] \in Request /\ Sound(requests'[p])
          /\ requests'[p].step = "revoking" /\ requests'[p].why \in {"block", "reset"} => requests'[p].user # u
      BY <3>1, <3>2
    <3> QED
      BY <1>19, <3>3
  <2> QED
    BY <2>1, <2>2
<1>21. Locks'
  BY <1>6, <1>7, IdleIsSound DEF SessionsInv, Locks, Becomes
<1> QED
  BY <1>10, <1>14, <1>15, <1>16, <1>17, <1>18, <1>20, <1>21 DEF SessionsInv, Tables

-----------------------------------------------------------------------------
(* A rotation moves the end of its chain.  Whatever revocation has seen the
   old end is waiting for its lock, so that the family counts as overtaken. *)
LEMMA RotationKeeps ==
    ASSUME SessionsInv, NEW q \in Requests, CommitRotation(q)
    PROVE  SessionsInv'
<1> USE IssuedAreTokens
<1>1. requests[q].step = "rotating" /\ Live(requests[q].token)
  BY RequestTyped DEF CommitRotation, Sound
<1>2. PICK t \in Issued : t = requests[q].token /\ Live(t)
  BY <1>1
<1>3. PICK n \in Tokens \ Issued :
          sessions' = [sessions EXCEPT
              ![t].rotated = TRUE,
              ![n] = [sessions[t] EXCEPT !.parent = t, !.rotated = FALSE,
                                         !.revoked = FALSE, !.expired = FALSE]]
  BY <1>2 DEF CommitRotation
<1>4. /\ overtaken' = IF WaitedFor(t) THEN overtaken \cup {sessions[t].family} ELSE overtaken
      /\ UNCHANGED <<users, links, replayed>> /\ Becomes(q, Idle)
  BY <1>2 DEF CommitRotation
<1>5. sessions \in [Tokens -> Session] /\ requests \in [Requests -> Request] /\ n # t /\ t \in Tokens
  BY <1>3 DEF SessionsInv, TypeOK
<1>6. sessions[t] \in Session /\ sessions[t].family \in Families
  BY <1>5 DEF Session, Issued
<1>7. /\ sessions'[n].user = sessions[t].user /\ sessions'[n].family = sessions[t].family
      /\ sessions'[n].parent = t /\ ~sessions'[n].rotated /\ ~sessions'[n].revoked
      /\ sessions'[n].password = sessions[t].password /\ sessions'[n].late = sessions[t].late
  BY <1>3, <1>5, <1>6 DEF Session
<1>8. /\ sessions'[t] = [sessions[t] EXCEPT !.rotated = TRUE]
      /\ \A x \in Tokens : x # t /\ x # n => sessions'[x] = sessions[x]
  BY <1>3, <1>5
<1>9. \A x \in Tokens : x # n =>
          /\ sessions'[x].user = sessions[x].user /\ sessions'[x].family = sessions[x].family
          /\ sessions'[x].parent = sessions[x].parent /\ sessions'[x].revoked = sessions[x].revoked
          /\ sessions'[x].password = sessions[x].password /\ sessions'[x].late = sessions[x].late
          /\ (sessions'[x].rotated <=> sessions[x].rotated \/ x = t)
  BY <1>5, <1>6, <1>8 DEF Session
<1>10. TypeOK'
  <2>1. [sessions[t] EXCEPT !.rotated = TRUE] \in Session
    BY <1>6 DEF Session
  <2>2. [sessions[t] EXCEPT !.parent = t, !.rotated = FALSE, !.revoked = FALSE, !.expired = FALSE] \in Session
    BY <1>5, <1>6 DEF Session
  <2>3. sessions' \in [Tokens -> Session]
    BY <1>3, <1>5, <2>1, <2>2
  <2> QED
    BY <1>4, <1>5, <1>6, <2>3, IdleIsSound DEF SessionsInv, TypeOK, Becomes
<1>11. Issued' = Issued \cup {n} /\ n \notin Issued /\ n # NoToken
  <2>1. \A x \in Tokens : sessions'[x].family # NoFamily <=> x \in Issued \/ x = n
    <3>1. sessions'[n].family # NoFamily
      BY <1>7 DEF Issued
    <3>2. \A x \in Tokens : x # n => sessions'[x].family = sessions[x].family
      BY <1>9
    <3>3. \A x \in Tokens : sessions[x].family # NoFamily <=> x \in Issued
      BY DEF Issued
    <3> QED
      BY <1>3, <3>1, <3>2, <3>3
  <2> QED
    BY <1>3, <2>1, SessionsAssumption DEF Issued
<1>12. \A x \in Issued : /\ (Live(x)' <=> Live(x) /\ x # t) /\ (Stale(x) => Stale(x)')
                         /\ (Overtaken(x) => Overtaken(x)')
                         /\ (Same(x, n)' <=> Same(x, t)) /\ (Same(n, x)' <=> Same(t, x))
                         /\ (Overtaken(n)' <=> Overtaken(t)')
                         /\ \A y \in Issued : (Same(x, y)' <=> Same(x, y)) /\ (Same(x, y) => Same(y, x))
  BY <1>2, <1>4, <1>7, <1>9, <1>11 DEF Live, Same, Overtaken, Stale
<1>13. \A x : Live(x)' => x \in Issued \cup {n}
  BY <1>11 DEF Live
<1>14. WaitedFor(t) => Overtaken(t)'
  BY <1>2, <1>4, <1>9, <1>11 DEF Overtaken
<1>15. Chain'
  <2>1. \A x \in Issued : ~sessions'[x].rotated /\ Same(x, t) => FALSE
    BY <1>2, <1>9, <1>11 DEF SessionsInv, Tables, Chain, Live
  <2> QED
    BY <1>9, <1>11, <1>12, <2>1 DEF SessionsInv, Tables, Chain
<1>16. Descent'
  BY <1>2, <1>7, <1>9, <1>11, <1>12 DEF SessionsInv, Tables, Descent, Same
<1>17. Replays' /\ ReplayEndsSuccessor'
  <2>1. t \notin replayed
    BY <1>2 DEF SessionsInv, Tables, Replays, Live, Stale
  <2> QED
    BY <1>4, <1>7, <1>9, <1>11, <1>12, <2>1 DEF SessionsInv, Tables, Replays, ReplayEndsSuccessor
<1>18. EndedStaysEnded'
  <2>1. SUFFICES ASSUME NEW x \in Issued, sessions[x].revoked, ~Overtaken(x)',
                        NEW s \in Tokens, s \in FamilyOf(x)', Live(s)'
                 PROVE  FALSE
    BY <1>7, <1>9, <1>11 DEF EndedStaysEnded, FamilyOf, Overtaken
  <2>2. ~Overtaken(x) /\ \A y \in Issued : Same(y, x) => ~Live(y)
    BY <1>12, <2>1 DEF SessionsInv, Tables, EndedStaysEnded, FamilyOf, Same, Overtaken
  <2>3. Same(s, x)'
    BY <2>1 DEF FamilyOf, Same
  <2> QED
    BY <1>2, <1>12, <1>13, <2>1, <2>2, <2>3
<1>19. NoOldAccess'
  <2>1. BlockedHasNoSession'
    BY <1>2, <1>4, <1>7, <1>9, <1>11, <1>12, <1>13
    DEF SessionsInv, Tables, NoOldAccess, BlockedHasNoSession, Overtaken
  <2>2. ResetEndsOldSessions'
    <3> SUFFICES ASSUME NEW x \in Tokens, Live(x)',
                        sessions'[x].password # users'[sessions'[x].user].password
                 PROVE  sessions'[x].late \/ sessions'[x].family \in overtaken'
      BY DEF ResetEndsOldSessions
    <3>1. \A y \in Tokens :
              Live(y) /\ sessions[y].password # users[sessions[y].user].password =>
                  sessions[y].late \/ sessions[y].family \in overtaken
      BY DEF SessionsInv, Tables, NoOldAccess, ResetEndsOldSessions
    <3>2. users' = users /\ overtaken \subseteq overtaken'
      BY <1>4
    <3>3. CASE x = n
      BY <1>2, <1>5, <1>7, <3>1, <3>2, <3>3
    <3>4. CASE x # n
      <4>1. x \in Issued /\ Live(x)
        BY <1>12, <1>13, <3>4
      <4> QED
        BY <1>9, <3>1, <3>2, <3>4, <4>1
    <3> QED
      BY <3>3, <3>4
  <2> QED
    BY <2>1, <2>2 DEF NoOldAccess
<1>20. ASSUME NEW r \in Request, Sound(r),
              r.step = "rotating" => r.token # t,
              r.step = "revoking" /\ t \in r.marks => Overtaken(t)'
       PROVE  Sound(r)'
  <2>1. ASSUME r.step = "revoking"
        PROVE  Reach(r)'
    <3>1. Reach(r)
      BY <1>20, <2>1 DEF Sound
    <3>2. r.marks \subseteq Issued'
      BY <1>11, <3>1 DEF Reach
    <3>3. \A s \in Issued', x \in r.marks : Live(s)' /\ Same(s, x)' => s \in r.marks \/ Overtaken(s)'
      BY <1>2, <1>11, <1>12, <1>20, <2>1, <3>1 DEF Reach
    <3>4. r.why \in {"block", "reset"} =>
              \A s \in Issued' : Live(s)' /\ sessions'[s].user = r.user => s \in r.marks \/ Overtaken(s)'
      BY <1>2, <1>7, <1>9, <1>11, <1>12, <1>20, <2>1, <3>1 DEF Reach
    <3>5. r.why = "replayed" =>
              /\ r.token \in Issued' /\ Stale(r.token)'
              /\ \A x \in Issued' : sessions'[x].parent = r.token => x \in r.marks \/ sessions'[x].revoked
      BY <1>2, <1>7, <1>9, <1>11, <1>12, <3>1 DEF Reach, Live, Stale
    <3> QED
      BY <3>2, <3>3, <3>4, <3>5 DEF Reach
  <2>2. r.step = "read" => r.token \in Issued' /\ (r.why = "replayed" => Stale(r.token)')
    BY <1>11, <1>12, <1>20 DEF Sound
  <2>3. r.step = "rotating" => Live(r.token)'
    BY <1>12, <1>20 DEF Sound
  <2>4. r.step = "login" => r.user \in Users /\ (r.password = users'[r.user].password \/ r.late)
    BY <1>4, <1>20 DEF Sound
  <2> QED
    BY <2>1, <2>2, <2>3, <2>4 DEF Sound
<1>21. Remembered'
  <2> SUFFICES ASSUME NEW p \in Requests
               PROVE  Sound(requests[p])'
    BY DEF Remembered
  <2>1. CASE p = q
    <3>1. ASSUME NEW r, r.step = "idle"
          PROVE  Sound(r)'
      BY <3>1 DEF Sound
    <3>2. requests'[p].step = "idle"
      BY <1>4, <1>5, <2>1, IdleIsSound DEF Becomes
    <3> QED
      BY <3>1, <3>2
  <2>2. CASE p # q
    <3>1. requests'[p] = requests[p] /\ requests[p] \in Request /\ Sound(requests[p])
      BY <1>4, <1>5, <2>2, RequestTyped DEF Becomes
    <3>2. requests[p].step = "rotating" => requests[p].token # t
      BY <1>1, <1>2, <2>2 DEF SessionsInv, Locks
    <3>3. requests[p].step = "revoking" /\ t \in requests[p].marks => Overtaken(t)'
      BY <1>14 DEF WaitedFor
    <3>4. /\ requests'[p] \in Request /\ Sound(requests'[p])
          /\ requests'[p].step = "rotating" => requests'[p].token # t
          /\ requests'[p].step = "revoking" /\ t \in requests'[p].marks => Overtaken(t)'
      BY <3>1, <3>2, <3>3
    <3> QED
      BY <1>20, <3>4
  <2> QED
    BY <2>1, <2>2
<1>22. Locks'
  BY <1>4, <1>5, IdleIsSound DEF SessionsInv, Locks, Becomes
<1> QED
  BY <1>10, <1>15, <1>16, <1>17, <1>18, <1>19, <1>21, <1>22 DEF SessionsInv, Tables

-----------------------------------------------------------------------------
(* A revocation commits once no session it has marked is being rotated: it
   ends no live session that somebody still counts on, and leaves none that
   it was to end. *)
LEMMA RevocationTyped ==
    ASSUME SessionsInv, NEW q \in Requests, CommitRevocation(q)
    PROVE  TypeOK'
<1> DEFINE r == requests[q]
<1>1. /\ users \in [Users -> User] /\ sessions \in [Tokens -> Session]
      /\ links \in [Links -> Link] /\ requests \in [Requests -> Request]
  BY DEF SessionsInv, TypeOK
<1>2. sessions' \in [Tokens -> Session]
  <2>1. \A t \in Tokens : [sessions[t] EXCEPT !.revoked = TRUE] \in Session
    BY <1>1 DEF Session
  <2> QED
    BY <1>1, <2>1 DEF CommitRevocation, Revoked
<1>3. users' \in [Users -> User]
  <2>1. \A u \in Users : /\ [users[u] EXCEPT !.status = "BLOCKED"] \in User
                         /\ [users[u] EXCEPT !.password = @ + 1] \in User
    BY <1>1, SessionsAssumption DEF User
  <2> QED
    BY <1>1, <2>1 DEF CommitRevocation, ChangedUser
<1>4. links' \in [Links -> Link]
  <2>1. \A l \in Links : [links[l] EXCEPT !.used = TRUE] \in Link
    BY <1>1 DEF Link
  <2> QED
    BY <1>1, <2>1 DEF CommitRevocation
<1>5. requests' \in [Requests -> Request]
  <2>1. \A p \in Requests : [requests[p] EXCEPT !.late = TRUE] \in Request
    <3> TAKE p \in Requests
    <3>1. requests[p] \in Request
      BY <1>1
    <3> QED
      BY <3>1 DEF Request
  <2> QED
    BY <1>1, <2>1, IdleIsSound DEF CommitRevocation
<1>6. overtaken' \subseteq Families
  BY DEF CommitRevocation, SessionsInv, TypeOK
<1>7. replayed' \subseteq Tokens
  <2>1. r.step = "revoking" /\ r.why = "replayed" => r.token \in Tokens
    BY RequestTyped, IssuedAreTokens DEF Sound, Reach
  <2> QED
    BY <2>1 DEF CommitRevocation, SessionsInv, TypeOK
<1> QED
  BY <1>2, <1>3, <1>4, <1>5, <1>6, <1>7 DEF TypeOK

LEMMA RevocationKeeps ==
    ASSUME SessionsInv, NEW q \in Requests, CommitRevocation(q)
    PROVE  SessionsInv'
<1> USE IssuedAreTokens
<1>1. PICK r \in Request : r = requests[q] /\ Sound(r) /\ r.step = "revoking" /\ Reach(r)
  BY RequestTyped DEF CommitRevocation, Sound
<1>2. /\ \A t \in r.marks : ~LockedSession(t)
      /\ sessions' = Revoked(r) /\ users' = ChangedUser(r) /\ overtaken' = overtaken
      /\ requests' = [p \in Requests |->
             IF p = q THEN Idle
             ELSE IF Outdated(p, r) THEN [requests[p] EXCEPT !.late = TRUE]
             ELSE requests[p]]
      /\ replayed' = IF r.why = "replayed" THEN replayed \cup {r.token} ELSE replayed
  BY <1>1 DEF CommitRevocation
<1>3. users \in [Users -> User] /\ sessions \in [Tokens -> Session] /\ requests \in [Requests -> Request]
  BY DEF SessionsInv, TypeOK
<1>4. \A x \in Tokens :
          /\ sessions'[x].user = sessions[x].user /\ sessions'[x].family = sessions[x].family
          /\ sessions'[x].parent = sessions[x].parent /\ sessions'[x].rotated = sessions[x].rotated
          /\ sessions'[x].password = sessions[x].password /\ sessions'[x].late = sessions[x].late
          /\ (sessions'[x].revoked <=> sessions[x].revoked \/ x \in r.marks)
  BY <1>2, <1>3 DEF Revoked, Session
<1>5. \A u \in Users :
          /\ users'[u].status = "BLOCKED" =>
                 users[u].status = "BLOCKED" \/ (u = r.user /\ r.why = "block")
          /\ users'[u].password # users[u].password => u = r.user /\ r.why = "reset"
  BY <1>2, <1>3 DEF ChangedUser, User
<1>6. Issued' = Issued /\ \A x : Live(x)' <=> Live(x) /\ x \notin r.marks
  BY <1>4 DEF Issued, Live
<1>7. \A x \in Issued : /\ (Stale(x) => Stale(x)') /\ (Overtaken(x)' <=> Overtaken(x))
                        /\ \A y \in Issued : (Same(x, y)' <=> Same(x, y)) /\ (Same(x, y) => Same(y, x))
  BY <1>2, <1>4 DEF Stale, Overtaken, Same
<1>8. Chain' /\ Descent'
  BY <1>4, <1>6, <1>7 DEF SessionsInv, Tables, Chain, Descent
<1>9. Replays' /\ ReplayEndsSuccessor'
  <2>1. r.why = "replayed" =>
            /\ r.token \in Issued /\ Stale(r.token)
            /\ \A n \in Issued : sessions[n].parent = r.token => n \in r.marks \/ sessions[n].revoked
    BY <1>1 DEF Reach
  <2> QED
    BY <1>2, <1>4, <1>6, <1>7, <2>1 DEF SessionsInv, Tables, Replays, ReplayEndsSuccessor
<1>10. EndedStaysEnded'
  <2>1. SUFFICES ASSUME NEW x \in Issued, sessions'[x].revoked, ~Overtaken(x),
                        NEW s \in Issued, Same(s, x), Live(s), s \notin r.marks
                 PROVE  FALSE
    BY <1>2, <1>4, <1>6 DEF EndedStaysEnded, FamilyOf, Overtaken, Same
  <2>2. CASE x \in r.marks
    <3>1. Overtaken(s)
      BY <1>1, <2>1, <2>2 DEF Reach
    <3> QED
      BY <2>1, <3>1 DEF Overtaken, Same
  <2>3. CASE x \notin r.marks
    <3>1. sessions[x].revoked
      BY <1>4, <2>1, <2>3
    <3> QED
      BY <2>1, <3>1 DEF SessionsInv, Tables, EndedStaysEnded, FamilyOf, Same, Overtaken
  <2> QED
    BY <2>2, <2>3
<1>11. NoOldAccess'
  <2>1. \A x \in Issued : sessions[x].user \in Users
    BY DEF SessionsInv, Tables, Descent
  <2>2. ASSUME NEW x \in Tokens, Live(x)', sessions[x].user = r.user, r.why \in {"block", "reset"}
        PROVE  Overtaken(x)'
    BY <1>1, <1>6, <1>7, <2>2 DEF Reach
  <2>3. BlockedHasNoSession'
    BY <1>2, <1>4, <1>5, <1>6, <2>1, <2>2
    DEF SessionsInv, Tables, NoOldAccess, BlockedHasNoSession, Overtaken
  <2>4. ResetEndsOldSessions'
    BY <1>2, <1>4, <1>5, <1>6, <2>1, <2>2
    DEF SessionsInv, Tables, NoOldAccess, ResetEndsOldSessions, Overtaken
  <2> QED
    BY <2>3, <2>4 DEF NoOldAccess
<1>12. ASSUME NEW p \in Request, Sound(p), p.step = "rotating" => p.token \notin r.marks
       PROVE  /\ p.step # "login" => Sound(p)'
              /\ p.step = "login" /\ (p.late \/ users'[p.user].password = users[p.user].password) => Sound(p)'
  <2>1. ASSUME p.step = "revoking"
        PROVE  Reach(p)'
    <3>1. Reach(p)
      BY <1>12, <2>1 DEF Sound
    <3>2. p.marks \subseteq Issued'
      BY <1>6, <3>1 DEF Reach
    <3>3. \A s \in Issued', x \in p.marks : Live(s)' /\ Same(s, x)' => s \in p.marks \/ Overtaken(s)'
      BY <1>6, <1>7, <3>1 DEF Reach
    <3>4. p.why \in {"block", "reset"} =>
              \A s \in Issued' : Live(s)' /\ sessions'[s].user = p.user => s \in p.marks \/ Overtaken(s)'
      BY <1>4, <1>6, <1>7, <3>1 DEF Reach
    <3>5. p.why = "replayed" =>
              /\ p.token \in Issued' /\ Stale(p.token)'
              /\ \A x \in Issued' : sessions'[x].parent = p.token => x \in p.marks \/ sessions'[x].revoked
      BY <1>4, <1>6, <1>7, <3>1 DEF Reach
    <3> QED
      BY <3>2, <3>3, <3>4, <3>5 DEF Reach
  <2>2. p.step = "read" => p.token \in Issued' /\ (p.why = "replayed" => Stale(p.token)')
    BY <1>6, <1>7, <1>12 DEF Sound
  <2>3. p.step = "rotating" => Live(p.token)'
    BY <1>6, <1>12 DEF Sound
  <2>4. p.step = "login" => p.user \in Users /\ (p.password = users[p.user].password \/ p.late)
    BY <1>12 DEF Sound
  <2> QED
    BY <2>1, <2>2, <2>3, <2>4 DEF Sound
<1>13. Remembered'
  <2> SUFFICES ASSUME NEW p \in Requests
               PROVE  Sound(requests[p])'
    BY DEF Remembered
  <2>1. CASE p = q
    <3>1. ASSUME NEW s, s.step = "idle"
          PROVE  Sound(s)'
      BY <3>1 DEF Sound
    <3>2. requests'[p].step = "idle"
      BY <1>2, <2>1, IdleIsSound
    <3> QED
      BY <3>1, <3>2
  <2>2. CASE p # q /\ Outdated(p, r)
    <3>1. requests[p] \in Request /\ Sound(requests[p]) /\ requests[p].step = "login"
          /\ requests'[p] = [requests[p] EXCEPT !.late = TRUE]
      BY <1>2, <2>2, RequestTyped DEF Outdated
    <3>2. /\ requests'[p] \in Request /\ requests'[p].step = "login" /\ requests'[p].late
          /\ requests'[p].user = requests[p].user
      BY <3>1 DEF Request
    <3>3. Sound(requests'[p])
      BY <3>1, <3>2 DEF Sound
    <3> QED
      BY <1>12, <3>2, <3>3
  <2>3. CASE p # q /\ ~Outdated(p, r)
    <3>1. requests'[p] = requests[p] /\ requests[p] \in Request /\ Sound(requests[p])
      BY <1>2, <2>3, RequestTyped
    <3>2. requests[p].step = "rotating" => requests[p].token \notin r.marks
      BY <1>2 DEF LockedSession
    <3>3. requests[p].step = "login" => users'[requests[p].user].password = users[requests[p].user].password
      BY <1>5, <2>3, <3>1 DEF Outdated, Sound
    <3>4. /\ requests'[p] \in Request /\ Sound(requests'[p])
          /\ requests'[p].step = "rotating" => requests'[p].token \notin r.marks
          /\ requests'[p].step = "login" =>
                 users'[requests'[p].user].password = users[requests'[p].user].password
      BY <3>1, <3>2, <3>3
    <3> QED
      BY <1>12, <3>4
  <2> QED
    BY <2>1, <2>2, <2>3
<1>14. Locks'
  <2>1. \A p \in Requests : requests'[p].step = "rotating" =>
            requests[p].step = "rotating" /\ requests'[p].token = requests[p].token
    BY <1>2, <1>3, IdleIsSound DEF Request
  <2> QED
    BY <2>1 DEF SessionsInv, Locks
<1> QED
  BY <1>8, <1>9, <1>10, <1>11, <1>13, <1>14, RevocationTyped DEF SessionsInv, Tables

-----------------------------------------------------------------------------
LEMMA NextKeeps == SessionsInv /\ [Next]_vars => SessionsInv'
<1> SUFFICES ASSUME SessionsInv, [Next]_vars
             PROVE  SessionsInv'
  OBVIOUS
<1>1. ASSUME NEW q \in Requests, Handle(q)
      PROVE  SessionsInv'
  BY <1>1, ReadsKeep, SessionAbortKeeps, MarkKeeps, RevokeFamilyKeeps, PersonsKeep, CreateRequestKeeps,
     LoginKeeps, RotationKeeps, RevocationKeeps
  DEF Handle
<1>2. ASSUME NEW u \in Users, Reactivate(u)
      PROVE  SessionsInv'
  BY <1>2, ReactivateKeeps
<1>3. ASSUME NEW t \in Tokens, Expire(t)
      PROVE  SessionsInv'
  BY <1>3, SessionExpireKeeps
<1>4. CASE UNCHANGED vars
  <2>1. TablesStay /\ TypeOK' /\ requests' = requests
    BY <1>4 DEF vars, TablesStay, SessionsInv, TypeOK
  <2>2. Remembered' /\ Locks'
    BY <2>1, TablesUnmoved, OthersKeep DEF SessionsInv, Locks
  <2> QED
    BY <2>1, <2>2, TablesUnmoved DEF SessionsInv
<1> QED
  BY <1>1, <1>2, <1>3, <1>4 DEF Next

(* Whatever the requests under way do, and in whatever order their
   transactions commit, the invariant holds. *)
THEOREM SessionsStayConsistent == Spec => []SessionsInv
<1> QED
  BY InitHolds, NextKeeps, PTL DEF Spec

(* A family of sessions has at most one that can be renewed, however many
   requests present its tokens at once (auth.service.ts, refresh). *)
THEOREM OneSessionCanBeRenewed == Spec => []OneLiveSession
<1>1. SessionsInv => OneLiveSession
  BY DEF SessionsInv, Tables, Chain, Same, Live, OneLiveSession
<1> QED
  BY <1>1, SessionsStayConsistent, PTL

(* A family that was revoked stays ended unless a rotation overtook the
   revocation, and a replay ends what the first use of the token gave. *)
THEOREM RevocationEndsFamilies == Spec => []FamiliesEnd
<1>1. SessionsInv => FamiliesEnd
  BY DEF SessionsInv, Tables, FamiliesEnd
<1> QED
  BY <1>1, SessionsStayConsistent, PTL

(* Neither a blocked person nor a password that was replaced keeps a session
   that can be renewed, but for a family whose rotation overtook the
   revocation and a login already checked when the password changed. *)
THEOREM OldAccessEnds == Spec => []NoOldAccess
<1>1. SessionsInv => NoOldAccess
  BY DEF SessionsInv, Tables
<1> QED
  BY <1>1, SessionsStayConsistent, PTL

(* What is proved of the sessions by themselves holds of them in Accounts. *)
THEOREM SessionsTakePart == AccountsSpec => Spec
<1>1. AccountsInit => Init
  BY DEF AccountsInit
<1>2. [AccountsNext]_allVars => [Next]_vars
  BY DEF AccountsNext, allVars, vars
<1> QED
  BY <1>1, <1>2, PTL DEF AccountsSpec, Spec

-----------------------------------------------------------------------------
(* People *)

(* What a request that is open knows of those it is about. *)
ActsTyped ==
    \A q \in Requests :
        /\ acts[q].op # "idle" => acts[q].target \in Members
        /\ acts[q].op \in {"roles", "BLOCKED", "ACTIVE"} =>
               acts[q].actor \in Members /\ acts[q].actor # acts[q].target

(* Whoever has a request open still administers the office. *)
ActorsAdminister ==
    \A q \in Requests : acts[q].actor \in Members => P!Administers(acts[q].actor)

(* Whoever is not invited yet has no password, and whoever is active accepted
   an invitation or was reactivated. *)
Uninvited ==
    \A u \in Members \ Founders :
        /\ people[u].status = "NONE" => ~people[u].chosen
        /\ people[u].status = "ACTIVE" => people[u].chosen \/ people[u].reactivated > 0

PeopleInv ==
    /\ P!TypeOK
    /\ ActsTyped
    /\ crossed \/ ActorsAdminister
    /\ P!AdministratorRemains
    /\ P!AccessIsGranted
    /\ Uninvited

LEMMA PeopleBegin == P!Init => PeopleInv
<1> SUFFICES ASSUME P!Init PROVE PeopleInv
  OBVIOUS
<1> USE PeopleAssumed DEF P!PeopleAssumption
<1>1. P!Everything \in SUBSET Roles
  BY DEF P!Everything
<1>2. P!TypeOK
  <2>1. ASSUME NEW u \in Members PROVE people[u] \in P!User
    <3>1. CASE u \in Founders
      BY <1>1, <3>1 DEF P!Init, P!User, P!Statuses
    <3>2. CASE u \notin Founders
      BY <1>1, <3>2 DEF P!Init, P!User, P!Statuses
    <3> QED
      BY <3>1, <3>2
  <2>2. people \in [Members -> P!User]
    BY <2>1 DEF P!Init
  <2>3. acts \in [Requests -> P!Request]
    BY DEF P!Init, P!Request, P!Operations, P!Idle
  <2>4. granted \in [Members -> SUBSET Roles]
    BY <2>2 DEF P!Init, P!User
  <2> QED
    BY <2>2, <2>3, <2>4 DEF P!Init, P!TypeOK
<1>3. \A q \in Requests : acts[q] = P!Idle
  BY DEF P!Init
<1>4. ActsTyped /\ ActorsAdminister
  BY <1>3 DEF ActsTyped, ActorsAdminister, P!Idle
<1>5. \E u \in Members : P!Administers(u)
  <2>1. PICK u \in Founders : TRUE
    OBVIOUS
  <2>2. PICK r \in Roles : PermissionsOf[r] = Permissions
    OBVIOUS
  <2>3. people[u].status = "ACTIVE" /\ people[u].roles = P!Everything
    BY <2>1 DEF P!Init
  <2>4. r \in people[u].roles
    BY <2>2, <2>3 DEF P!Everything
  <2>5. P!Manage \in P!Held(u)
    BY <2>2, <2>4 DEF P!Held
  <2> QED
    BY <2>1, <2>3, <2>5 DEF P!Administers
<1>6. P!AccessIsGranted /\ Uninvited
  BY DEF P!Init, P!AccessIsGranted, P!RolesAreOneGrant, P!PasswordComesByInvitation, Uninvited
<1> QED
  BY <1>2, <1>4, <1>5, <1>6 DEF PeopleInv, P!AdministratorRemains

LEMMA IdleAct == P!Idle \in P!Request /\ P!Idle.op = "idle" /\ P!Idle.actor \notin Members
BY PeopleAssumed DEF P!PeopleAssumption, P!Idle, P!Request, P!Operations

(* A request that only reads, or that ends without an effect. *)
LEMMA PeopleRead ==
    ASSUME PeopleInv,
           NEW q \in Requests, NEW r \in P!Request, P!Becomes(q, r),
           UNCHANGED <<people, invitations, granted, mixed, crossed>>,
           r.op # "idle" => r.target \in Members,
           r.op \in {"roles", "BLOCKED", "ACTIVE"} => r.actor \in Members /\ r.actor # r.target,
           r.actor \in Members => crossed \/ P!Administers(r.actor)
    PROVE  PeopleInv'
<1>1. /\ acts' \in [Requests -> P!Request]
      /\ \A p \in Requests : acts'[p] = IF p = q THEN r ELSE acts[p]
  BY DEF PeopleInv, P!TypeOK, P!Becomes
<1>2. \A u : P!Administers(u)' <=> P!Administers(u)
  BY DEF P!Administers, P!Held
<1>3. ActsTyped'
  BY <1>1 DEF PeopleInv, ActsTyped
<1>4. (crossed \/ ActorsAdminister)'
  BY <1>1, <1>2 DEF PeopleInv, ActorsAdminister
<1> QED
  BY <1>1, <1>2, <1>3, <1>4 DEF PeopleInv, P!TypeOK, P!AdministratorRemains, P!AccessIsGranted,
     P!RolesAreOneGrant, P!PasswordComesByInvitation, Uninvited

(* What a step needs of the state it leaves when it writes the row of one
   person and ends its request. *)
LEMMA PeopleWrite ==
    ASSUME PeopleInv,
           NEW q \in Requests, P!Becomes(q, P!Idle),
           NEW u \in Members, NEW row \in P!User, people' = [people EXCEPT ![u] = row],
           invitations' \in [Members -> SUBSET {"sent", "accepted", "revoked"}],
           \A v \in Members \ {u} : invitations'[v] = invitations[v],
           granted' \in [Members -> SUBSET Roles],
           \A v \in Members \ {u} : granted'[v] = granted[v],
           mixed' \subseteq Members, mixed' \cup {u} = mixed \cup {u},
           crossed' \in BOOLEAN, crossed => crossed',
           P!Administers(u) => P!Administers(u)' \/ crossed' \/
               \A p \in Requests \ {q} : acts[p].actor # u,
           P!Administers(u) => P!Administers(u)' \/
               (acts[q].actor \in Members /\ acts[q].actor # u),
           u \notin mixed' => row.roles = granted'[u],
           row.chosen /\ u \notin Founders => invitations'[u] = {"sent", "accepted"},
           row.status = "NONE" /\ u \notin Founders => ~row.chosen,
           row.status = "ACTIVE" /\ u \notin Founders => row.chosen \/ row.reactivated > 0,
           row.reset /\ u \notin Founders => row.reactivated > 0
    PROVE  PeopleInv'
<1>1. /\ acts' \in [Requests -> P!Request]
      /\ \A p \in Requests : acts'[p] = IF p = q THEN P!Idle ELSE acts[p]
  BY IdleAct DEF PeopleInv, P!TypeOK, P!Becomes
<1>2. /\ people' \in [Members -> P!User]
      /\ people'[u] = row
      /\ \A v \in Members \ {u} : people'[v] = people[v]
  BY DEF PeopleInv, P!TypeOK
<1>3. \A v \in Members \ {u} : P!Administers(v)' <=> P!Administers(v)
  BY <1>2 DEF P!Administers, P!Held
<1>4. P!TypeOK'
  BY <1>1, <1>2 DEF P!TypeOK
<1>5. ActsTyped'
  BY <1>1, IdleAct DEF PeopleInv, ActsTyped
<1>6. (crossed \/ ActorsAdminister)'
  <2> SUFFICES ASSUME ~crossed', NEW p \in Requests, (acts[p].actor \in Members)'
               PROVE  P!Administers(acts[p].actor)'
    BY DEF ActorsAdminister
  <2>1. p # q /\ acts'[p] = acts[p]
    BY <1>1, IdleAct
  <2> DEFINE a == acts[p].actor
  <2>2. a \in Members /\ P!Administers(a) /\ a' = a
    BY <2>1 DEF PeopleInv, ActorsAdminister
  <2>3. a = u => P!Administers(u)'
    BY <2>1, <2>2
  <2> QED
    BY <1>3, <2>2, <2>3
<1>7. P!AdministratorRemains'
  <2> SUFFICES ASSUME ~crossed' PROVE \E v \in Members : P!Administers(v)'
    BY DEF P!AdministratorRemains
  <2>1. PICK v \in Members : P!Administers(v)
    BY DEF PeopleInv, P!AdministratorRemains
  <2>2. CASE v # u
    BY <1>3, <2>1, <2>2
  <2>3. CASE v = u /\ ~P!Administers(u)'
    <3>1. acts[q].actor \in Members /\ acts[q].actor # u
      BY <2>1, <2>3
    <3>2. P!Administers(acts[q].actor)
      BY <3>1 DEF PeopleInv, ActorsAdminister
    <3> QED
      BY <1>3, <3>1, <3>2
  <2> QED
    BY <2>2, <2>3
<1>8. P!AccessIsGranted' /\ Uninvited'
  BY <1>2 DEF PeopleInv, P!AccessIsGranted, P!RolesAreOneGrant, P!PasswordComesByInvitation,
              Uninvited
<1> QED
  BY <1>4, <1>5, <1>6, <1>7, <1>8 DEF PeopleInv

(* What holds of the row of a person who joined through an invitation. *)
LEMMA RowOf ==
    ASSUME PeopleInv, NEW u \in Members, u \notin Founders
    PROVE  /\ people[u].chosen => invitations[u] = {"sent", "accepted"}
           /\ people[u].reset => people[u].reactivated > 0
           /\ people[u].status = "NONE" => ~people[u].chosen
           /\ people[u].status = "ACTIVE" => people[u].chosen \/ people[u].reactivated > 0
BY DEF PeopleInv, P!AccessIsGranted, P!PasswordComesByInvitation, Uninvited

LEMMA AdmitKeeps ==
    ASSUME PeopleInv,
           NEW q \in Requests, NEW op \in P!Operations \ {"idle", "accept"},
           NEW a \in Members, NEW u \in Members, NEW S \in SUBSET Roles,
           P!Admit(q, op, a, u, S)
    PROVE  PeopleInv'
<1> DEFINE r == [P!Idle EXCEPT !.op = op, !.actor = a, !.target = u, !.roles = S,
                               !.grants = people[u].grants]
<1>1. people[u].grants \in 0 .. MaxGrants
  BY DEF PeopleInv, P!TypeOK, P!User
<1>2. r.op = op /\ r.actor = a /\ r.target = u
  BY DEF P!Idle
<1>3. r \in P!Request
  BY <1>1 DEF P!Idle, P!Request
<1>4. P!Becomes(q, r) /\ P!Administers(a) /\ UNCHANGED <<people, invitations, granted, mixed, crossed>>
  BY DEF P!Admit
<1>5. op \in {"roles", "BLOCKED", "ACTIVE"} => a # u
  BY DEF P!Admit, P!Operations, P!OwnAccess
<1> HIDE DEF r
<1> QED
  BY <1>2, <1>3, <1>4, <1>5, PeopleRead

LEMMA FindPendingByTokenHashKeeps ==
    ASSUME PeopleInv, NEW q \in Requests, NEW u \in Members, P!FindPendingByTokenHash(q, u)
    PROVE  PeopleInv'
<1> DEFINE r == [P!Idle EXCEPT !.op = "accept", !.target = u]
<1>1. r.op = "accept" /\ r.actor = NoUser /\ r.target = u
  BY DEF P!Idle
<1>2. r \in P!Request
  BY IdleAct DEF P!Request, P!Operations
<1>4. NoUser \notin Members
  BY PeopleAssumed DEF P!PeopleAssumption
<1>3. P!Becomes(q, r) /\ UNCHANGED <<people, invitations, granted, mixed, crossed>>
  BY DEF P!FindPendingByTokenHash
<1> HIDE DEF r
<1> QED
  BY <1>1, <1>2, <1>3, <1>4, PeopleRead

LEMMA PeopleRefuseKeeps ==
    ASSUME PeopleInv, NEW q \in Requests, P!Refuse(q)
    PROVE  PeopleInv'
BY IdleAct, PeopleRead DEF P!Refuse

LEMMA DeleteRolesKeeps ==
    ASSUME PeopleInv, NEW q \in Requests, P!DeleteRoles(q)
    PROVE  PeopleInv'
<1> DEFINE r == [acts[q] EXCEPT !.grants = people[acts[q].target].grants]
<1>1. acts[q] \in P!Request /\ acts[q].op = "roles" /\ acts[q].target \in Members
  BY DEF PeopleInv, P!TypeOK, ActsTyped, P!DeleteRoles
<1>2. people[acts[q].target].grants \in 0 .. MaxGrants
  BY <1>1 DEF PeopleInv, P!TypeOK, P!User
<1>3. /\ r \in P!Request /\ r.op = "roles"
      /\ r.actor = acts[q].actor /\ r.target = acts[q].target
  BY <1>1, <1>2 DEF P!Request
<1>4. P!Becomes(q, r) /\ UNCHANGED <<people, invitations, granted, mixed, crossed>>
  BY DEF P!DeleteRoles
<1>5. r.actor \in Members /\ r.actor # r.target /\ (crossed \/ P!Administers(r.actor))
  BY <1>1, <1>3 DEF PeopleInv, ActsTyped, ActorsAdminister
<1> HIDE DEF r
<1> QED
  BY <1>1, <1>3, <1>4, <1>5, PeopleRead

LEMMA RevokeInvitationKeeps ==
    ASSUME PeopleInv, NEW q \in Requests, P!RevokeInvitation(q)
    PROVE  PeopleInv'
<1>0. PICK u \in Members : u = acts[q].target
  BY DEF PeopleInv, ActsTyped, P!RevokeInvitation
<1>2. people[u] \in P!User /\ people' = [people EXCEPT ![u] = people[u]]
  BY <1>0 DEF PeopleInv, P!TypeOK, P!RevokeInvitation
<1>3. /\ invitations' \in [Members -> SUBSET {"sent", "accepted", "revoked"}]
      /\ \A v \in Members \ {u} : invitations'[v] = invitations[v]
  BY <1>0 DEF PeopleInv, P!TypeOK, P!RevokeInvitation
<1>4. P!Administers(u)' <=> P!Administers(u)
  BY <1>0 DEF P!RevokeInvitation, P!Administers, P!Held
<1>5. people[u].chosen /\ u \notin Founders => FALSE
  <2>1. invitations[u] = {"sent"}
    BY <1>0 DEF P!RevokeInvitation, P!Open
  <2> QED
    BY <1>0, <2>1 DEF PeopleInv, P!AccessIsGranted, P!PasswordComesByInvitation
<1>6. u \notin mixed => people[u].roles = granted[u]
  BY <1>0 DEF PeopleInv, P!AccessIsGranted, P!RolesAreOneGrant
<1>7. P!Becomes(q, P!Idle) /\ UNCHANGED <<people, granted, mixed, crossed>>
  BY <1>0 DEF P!RevokeInvitation
<1> QED
  <2>1. granted' \in [Members -> SUBSET Roles] /\ \A v \in Members \ {u} : granted'[v] = granted[v]
    BY <1>7 DEF PeopleInv, P!TypeOK
  <2>2. /\ mixed' \subseteq Members /\ mixed' \cup {u} = mixed \cup {u}
        /\ crossed' \in BOOLEAN /\ (crossed => crossed')
    BY <1>7 DEF PeopleInv, P!TypeOK
  <2>3. u \notin mixed' => people[u].roles = granted'[u]
    BY <1>6, <1>7
  <2>4. P!Administers(u) => P!Administers(u)'
    BY <1>4
  <2>5. u \notin Founders =>
            /\ people[u].status = "NONE" => ~people[u].chosen
            /\ people[u].status = "ACTIVE" => people[u].chosen \/ people[u].reactivated > 0
            /\ people[u].reset => people[u].reactivated > 0
    BY RowOf
  <2> QED
    BY <1>0, <1>2, <1>3, <1>5, <1>7, <2>1, <2>2, <2>3, <2>4, <2>5, PeopleWrite

LEMMA CreateInvitedUserKeeps ==
    ASSUME PeopleInv, NEW q \in Requests, P!CreateInvitedUser(q)
    PROVE  PeopleInv'
<1>0. PICK u \in Members : u = acts[q].target
  BY DEF PeopleInv, ActsTyped, P!CreateInvitedUser
<1> DEFINE row == [people[u] EXCEPT !.status = "INVITED", !.roles = acts[q].roles]
<1>1. acts[q] \in P!Request
  BY <1>0 DEF PeopleInv, P!TypeOK
<1>2. people[u] \in P!User /\ people[u].status = "NONE"
  BY <1>0, <1>1 DEF PeopleInv, P!TypeOK, P!CreateInvitedUser
<1>3. /\ row \in P!User /\ row.status = "INVITED" /\ row.roles = acts[q].roles
      /\ row.chosen = people[u].chosen /\ row.reset = people[u].reset
      /\ row.reactivated = people[u].reactivated
  BY <1>0, <1>1, <1>2 DEF P!User, P!Statuses, P!Request
<1>4. people' = [people EXCEPT ![u] = row]
  BY <1>0, <1>1, <1>2 DEF P!CreateInvitedUser, P!User
<1>5. /\ invitations' \in [Members -> SUBSET {"sent", "accepted", "revoked"}]
      /\ granted' \in [Members -> SUBSET Roles] /\ granted'[u] = acts[q].roles
      /\ \A v \in Members \ {u} : invitations'[v] = invitations[v] /\ granted'[v] = granted[v]
  BY <1>0, <1>1 DEF PeopleInv, P!TypeOK, P!CreateInvitedUser, P!Open, P!Request
<1>6. ~P!Administers(u)
  BY <1>0, <1>2 DEF P!Administers
<1>7. u \notin Founders => ~people[u].chosen /\ (people[u].reset => people[u].reactivated > 0)
  BY <1>0, <1>1, <1>2, RowOf
<1>8. P!Becomes(q, P!Idle) /\ UNCHANGED <<mixed, crossed>>
  BY <1>0 DEF P!CreateInvitedUser
<1> HIDE DEF row
<1> QED
  BY <1>0, <1>1, <1>3, <1>4, <1>5, <1>6, <1>7, <1>8, PeopleWrite DEF PeopleInv, P!TypeOK

LEMMA AcceptKeeps ==
    ASSUME PeopleInv, NEW q \in Requests, P!Accept(q)
    PROVE  PeopleInv'
<1>0. PICK u \in Members : u = acts[q].target
  BY DEF PeopleInv, ActsTyped, P!Accept
<1>1. invitations[u] = {"sent"} /\ people[u] \in P!User
  BY <1>0 DEF P!Accept, P!Consumable, P!Open, PeopleInv, P!TypeOK
<1>2. /\ invitations' \in [Members -> SUBSET {"sent", "accepted", "revoked"}]
      /\ invitations'[u] = {"sent", "accepted"}
      /\ \A v \in Members \ {u} : invitations'[v] = invitations[v]
  BY <1>0, <1>1 DEF PeopleInv, P!TypeOK, P!Accept
<1>3. P!Becomes(q, P!Idle) /\ UNCHANGED <<granted, mixed, crossed>>
  BY <1>0 DEF P!Accept
<1>4. u \notin mixed => people[u].roles = granted[u]
  BY <1>0 DEF PeopleInv, P!AccessIsGranted, P!RolesAreOneGrant
<1>5. CASE people[u].status = "INVITED"
  <2> DEFINE row == [people[u] EXCEPT !.status = "ACTIVE", !.chosen = TRUE]
  <2>1. row \in P!User /\ row.roles = people[u].roles /\ row.status = "ACTIVE" /\ row.chosen
    BY <1>1 DEF P!User, P!Statuses
  <2>2. people' = [people EXCEPT ![u] = row]
    BY <1>0, <1>1, <1>5 DEF P!Accept, P!User
  <2>3. ~P!Administers(u)
    BY <1>5 DEF P!Administers
  <2>4. row.reset /\ u \notin Founders => row.reactivated > 0
    BY <1>1, RowOf DEF P!User
  <2> HIDE DEF row
  <2> QED
    BY <1>0, <1>2, <1>3, <1>4, <2>1, <2>2, <2>3, <2>4, PeopleWrite DEF PeopleInv, P!TypeOK
<1>6. CASE people[u].status # "INVITED"
  <2>1. people' = people /\ people' = [people EXCEPT ![u] = people[u]]
    BY <1>0, <1>6 DEF P!Accept, PeopleInv, P!TypeOK
  <2>2. P!Administers(u)' <=> P!Administers(u)
    BY <2>1 DEF P!Administers, P!Held
  <2>3. u \notin Founders =>
            /\ people[u].status = "NONE" => ~people[u].chosen
            /\ people[u].status = "ACTIVE" => people[u].chosen \/ people[u].reactivated > 0
            /\ people[u].reset => people[u].reactivated > 0
    BY <1>0, RowOf
  <2>4. crossed \in BOOLEAN /\ mixed \subseteq Members /\ granted \in [Members -> SUBSET Roles]
    BY DEF PeopleInv, P!TypeOK
  <2>5. UNCHANGED <<granted, mixed, crossed>> /\ P!Becomes(q, P!Idle)
    BY <1>3
  <2>6. people[u].chosen /\ u \notin Founders => invitations'[u] = {"sent", "accepted"}
    BY <1>2
  <2>7. \A v \in Members \ {u} : granted'[v] = granted[v]
    BY <2>5
  <2> QED
    BY <1>1, <1>2, <1>4, <2>1, <2>2, <2>3, <2>4, <2>5, <2>6, <2>7, PeopleWrite
<1> QED
  BY <1>5, <1>6

LEMMA SetPasswordKeeps ==
    ASSUME PeopleInv, NEW u \in Members, P!SetPassword(u)
    PROVE  PeopleInv'
<1> DEFINE row == [people[u] EXCEPT !.reset = @ \/ ~people[u].chosen]
<1>1. people[u] \in P!User /\ people[u].status = "ACTIVE"
  BY DEF PeopleInv, P!TypeOK, P!SetPassword
<1>2. /\ row \in P!User /\ row.roles = people[u].roles /\ row.status = people[u].status
      /\ row.chosen = people[u].chosen /\ row.reactivated = people[u].reactivated
      /\ row.reset => people[u].reset \/ ~people[u].chosen
  BY <1>1 DEF P!User
<1>3. people' = [people EXCEPT ![u] = row]
  BY <1>1 DEF P!SetPassword, P!User
<1> HIDE DEF row
<1>4. /\ people' \in [Members -> P!User] /\ people'[u] = row
      /\ \A v \in Members \ {u} : people'[v] = people[v]
  BY <1>2, <1>3 DEF PeopleInv, P!TypeOK
<1>5. \A v \in Members : /\ P!Administers(v)' <=> P!Administers(v)
                         /\ people'[v].roles = people[v].roles
  BY <1>2, <1>4 DEF P!Administers, P!Held
<1>6. UNCHANGED <<invitations, acts, granted, mixed, crossed>>
  BY DEF P!SetPassword
<1>7. P!TypeOK' /\ ActsTyped'
  BY <1>4, <1>6 DEF PeopleInv, P!TypeOK, ActsTyped
<1>8. (crossed \/ ActorsAdminister)' /\ P!AdministratorRemains'
  BY <1>5, <1>6 DEF PeopleInv, ActorsAdminister, P!AdministratorRemains
<1>9. P!RolesAreOneGrant'
  BY <1>5, <1>6 DEF PeopleInv, P!AccessIsGranted, P!RolesAreOneGrant
<1>10. P!PasswordComesByInvitation' /\ Uninvited'
  <2> SUFFICES ASSUME NEW v \in Members \ Founders
               PROVE  /\ people'[v].chosen => invitations'[v] = {"sent", "accepted"}
                      /\ people'[v].reset => people'[v].reactivated > 0
                      /\ people'[v].status = "NONE" => ~people'[v].chosen
                      /\ people'[v].status = "ACTIVE" =>
                             people'[v].chosen \/ people'[v].reactivated > 0
    BY DEF P!PasswordComesByInvitation, Uninvited
  <2>1. /\ people[v].chosen => invitations[v] = {"sent", "accepted"}
        /\ people[v].reset => people[v].reactivated > 0
        /\ people[v].status = "NONE" => ~people[v].chosen
        /\ people[v].status = "ACTIVE" => people[v].chosen \/ people[v].reactivated > 0
    BY RowOf
  <2>2. CASE v # u
    BY <1>4, <1>6, <2>1, <2>2
  <2>3. CASE v = u
    BY <1>1, <1>2, <1>4, <1>6, <2>1, <2>3
  <2> QED
    BY <2>2, <2>3
<1> QED
  BY <1>7, <1>8, <1>9, <1>10 DEF PeopleInv, P!AccessIsGranted

(* Whoever stops administering has no other request open, unless the step
   says that it crosses one. *)
LEMMA CrossesSeen ==
    ASSUME NEW q \in Requests, NEW u \in Members, crossed' = (crossed \/ P!Crosses(q)),
           P!Administers(u)
    PROVE  P!Administers(u)' \/ crossed' \/ \A p \in Requests \ {q} : acts[p].actor # u
BY DEF P!Crosses

LEMMA ChangeStatusKeeps ==
    ASSUME PeopleInv, NEW q \in Requests, P!ChangeStatus(q)
    PROVE  PeopleInv'
<1>1. acts[q].op \in {"BLOCKED", "ACTIVE"}
  BY DEF P!ChangeStatus, P!From
<1>2. PICK u \in Members : u = acts[q].target
  BY <1>1 DEF PeopleInv, ActsTyped
<1>3. acts[q].actor \in Members /\ acts[q].actor # u
  BY <1>1, <1>2 DEF PeopleInv, ActsTyped
<1>4. people[u] \in P!User
  BY <1>2 DEF PeopleInv, P!TypeOK
<1>5. people[u].status \in {"ACTIVE", "INVITED", "BLOCKED"}
  BY <1>1, <1>2 DEF P!ChangeStatus, P!From
<1> DEFINE times == IF acts[q].op = "ACTIVE" THEN people[u].reactivated + 1
                                             ELSE people[u].reactivated
           row == [people[u] EXCEPT !.status = acts[q].op, !.reactivated = times]
<1>6. times \in 0 .. MaxOfficeReactivations
  <2>1. MaxOfficeReactivations \in Nat /\ people[u].reactivated \in 0 .. MaxOfficeReactivations
    BY <1>4, PeopleAssumed DEF P!PeopleAssumption, P!User
  <2>2. acts[q].op = "ACTIVE" => people[u].reactivated < MaxOfficeReactivations
    BY <1>2 DEF P!ChangeStatus
  <2> QED
    BY <2>1, <2>2
<1>7. /\ row \in P!User /\ row.roles = people[u].roles /\ row.status = acts[q].op
      /\ row.chosen = people[u].chosen /\ row.reset = people[u].reset
      /\ row.reactivated = times
  BY <1>1, <1>4, <1>6 DEF P!User, P!Statuses
<1>18. /\ people[u].reactivated > 0 => times > 0
       /\ acts[q].op = "ACTIVE" => times > 0
  <2>1. people[u].reactivated \in Nat
    BY <1>4 DEF P!User
  <2> QED
    BY <2>1
<1>8. people' = [people EXCEPT ![u] = row]
  BY <1>2, <1>4 DEF P!ChangeStatus, P!User
<1>9. P!Becomes(q, P!Idle) /\ UNCHANGED <<invitations, granted, mixed>>
      /\ crossed' = (crossed \/ P!Crosses(q))
  BY <1>2 DEF P!ChangeStatus
<1>10. crossed' \in BOOLEAN
  BY <1>9 DEF PeopleInv, P!TypeOK
<1>11. u \notin mixed => people[u].roles = granted[u]
  BY DEF PeopleInv, P!AccessIsGranted, P!RolesAreOneGrant
<1>12. u \notin Founders =>
           /\ people[u].chosen => invitations[u] = {"sent", "accepted"}
           /\ people[u].reset => people[u].reactivated > 0
  BY RowOf
<1> HIDE DEF row, times
<1>19. u \notin Founders =>
           /\ row.reset => row.reactivated > 0
           /\ row.status = "ACTIVE" => row.reactivated > 0
  BY <1>7, <1>12, <1>18
<1>13. P!Administers(u) => P!Administers(u)' \/ crossed' \/
           \A p \in Requests \ {q} : acts[p].actor # u
  BY <1>9, CrossesSeen
<1>14. crossed => crossed'
  BY <1>9
<1>15. row.status # "NONE"
  BY <1>1, <1>7
<1>16. UNCHANGED <<invitations, granted, mixed>> /\ P!Becomes(q, P!Idle)
  BY <1>9
<1>17. /\ invitations \in [Members -> SUBSET {"sent", "accepted", "revoked"}]
       /\ granted \in [Members -> SUBSET Roles]
       /\ mixed \subseteq Members
  BY DEF PeopleInv, P!TypeOK
<1> QED
  BY <1>3, <1>7, <1>8, <1>10, <1>11, <1>12, <1>13, <1>14, <1>15, <1>16, <1>17, <1>19, PeopleWrite

LEMMA ReplaceRolesKeeps ==
    ASSUME PeopleInv, NEW q \in Requests, P!ReplaceRoles(q)
    PROVE  PeopleInv'
<1>1. acts[q].op = "roles"
  BY DEF P!ReplaceRoles
<1>2. PICK u \in Members : u = acts[q].target
  BY <1>1 DEF PeopleInv, ActsTyped
<1>3. acts[q].actor \in Members /\ acts[q].actor # u
  BY <1>1, <1>2 DEF PeopleInv, ActsTyped
<1>4. people[u] \in P!User /\ acts[q] \in P!Request
  BY <1>2 DEF PeopleInv, P!TypeOK
<1> DEFINE left == P!AfterReplacing(acts[q])
           row == [people[u] EXCEPT !.roles = left, !.grants = people[u].grants + 1]
<1>5. left \in SUBSET Roles
  BY <1>2, <1>4 DEF P!AfterReplacing, P!User, P!Request
<1>6. people[u].grants + 1 \in 0 .. MaxGrants
  <2>1. people[u].grants \in 0 .. MaxGrants /\ MaxGrants \in Nat /\ people[u].grants < MaxGrants
    BY <1>2, <1>4, PeopleAssumed DEF P!PeopleAssumption, P!User, P!ReplaceRoles
  <2> QED
    BY <2>1
<1>7. people[u].grants = acts[q].grants => left = acts[q].roles
  BY <1>2 DEF P!AfterReplacing
<1> HIDE DEF left
<1>8. /\ row \in P!User /\ row.roles = left /\ row.status = people[u].status
      /\ row.chosen = people[u].chosen /\ row.reset = people[u].reset
      /\ row.reactivated = people[u].reactivated
  BY <1>4, <1>5, <1>6 DEF P!User
<1>9. people' = [people EXCEPT ![u] = row]
  BY <1>2, <1>4 DEF P!ReplaceRoles, P!User, left
<1>10. /\ granted' \in [Members -> SUBSET Roles] /\ granted'[u] = acts[q].roles
       /\ \A v \in Members \ {u} : granted'[v] = granted[v]
  BY <1>2, <1>4 DEF PeopleInv, P!TypeOK, P!ReplaceRoles, P!Request
<1>11. /\ mixed' \subseteq Members /\ mixed' \cup {u} = mixed \cup {u}
       /\ u \notin mixed' => people[u].grants = acts[q].grants
  <2>1. mixed' = IF people[u].grants # acts[q].grants THEN mixed \cup {u} ELSE mixed \ {u}
    BY <1>2 DEF P!ReplaceRoles
  <2> QED
    BY <2>1 DEF PeopleInv, P!TypeOK
<1>12. u \notin mixed' => row.roles = granted'[u]
  BY <1>7, <1>8, <1>10, <1>11
<1>13. crossed' = (crossed \/ P!Crosses(q)) /\ P!Becomes(q, P!Idle) /\ UNCHANGED invitations
  BY <1>2 DEF P!ReplaceRoles
<1>14. crossed' \in BOOLEAN /\ (crossed => crossed')
  BY <1>13 DEF PeopleInv, P!TypeOK
<1>15. P!Administers(u) => P!Administers(u)' \/ crossed' \/
           \A p \in Requests \ {q} : acts[p].actor # u
  BY <1>13, CrossesSeen
<1>16. u \notin Founders =>
           /\ people[u].chosen => invitations[u] = {"sent", "accepted"}
           /\ people[u].reset => people[u].reactivated > 0
           /\ people[u].status = "NONE" => ~people[u].chosen
           /\ people[u].status = "ACTIVE" => people[u].chosen \/ people[u].reactivated > 0
  BY RowOf
<1>18. invitations \in [Members -> SUBSET {"sent", "accepted", "revoked"}]
  BY DEF PeopleInv, P!TypeOK
<1> HIDE DEF row
<1> QED
  BY <1>3, <1>8, <1>9, <1>10, <1>11, <1>12, <1>13, <1>14, <1>15, <1>16, <1>18, PeopleWrite

LEMMA PeopleStep == PeopleInv /\ [P!Next]_(P!vars) => PeopleInv'
<1> SUFFICES ASSUME PeopleInv, [P!Next]_(P!vars) PROVE PeopleInv'
  OBVIOUS
<1>1. CASE UNCHANGED P!vars
  BY <1>1 DEF P!vars, PeopleInv, P!TypeOK, ActsTyped, ActorsAdminister, Uninvited,
     P!AdministratorRemains, P!AccessIsGranted, P!RolesAreOneGrant, P!PasswordComesByInvitation,
     P!Administers, P!Held
<1>2. CASE P!Next
  BY <1>2, AdmitKeeps, FindPendingByTokenHashKeeps, SetPasswordKeeps,
     CreateInvitedUserKeeps, AcceptKeeps,
     RevokeInvitationKeeps, ChangeStatusKeeps, DeleteRolesKeeps, ReplaceRolesKeeps,
     PeopleRefuseKeeps DEF P!Next
<1> QED
  BY <1>1, <1>2

LEMMA PeopleHolds == AccountsSpec => []PeopleInv
<1>1. AccountsInit => PeopleInv
  BY PeopleBegin DEF AccountsInit
<1>2. [AccountsNext]_allVars => [P!Next]_(P!vars)
  BY DEF AccountsNext, allVars, peopleVars, P!vars
<1> QED
  BY <1>1, <1>2, PeopleStep, PTL DEF AccountsSpec

(* An office keeps an active person who administers it, however the requests
   of its administrators cross, unless one of them lost access while a
   request of theirs was under way. *)
THEOREM AdministratorStays == AccountsSpec => []AdministratorRemains
<1>1. PeopleInv => AdministratorRemains
  BY DEF PeopleInv, AdministratorRemains
<1> QED
  BY <1>1, PeopleHolds, PTL

(* Roles are those of one grant, unless two replacements met; a password was
   chosen by accepting an invitation that was not revoked, and a first one set
   through a reset link is that of somebody whom an administrator
   reactivated. *)
THEOREM AccessComesFromAGrant == AccountsSpec => []AccessIsGranted
<1>1. PeopleInv => AccessIsGranted
  BY DEF PeopleInv, AccessIsGranted
<1> QED
  BY <1>1, PeopleHolds, PTL

-----------------------------------------------------------------------------
(* SecondFactor *)

(* No login was let in after the step that was consumed last. *)
StepsInOrder ==
    \A t \in F!Times : person.last < t => entries[t] = << >>

(* A challenge or an activation that is under way holds a step there was, and
   a code that was accepted at it. *)
StepsAreReal ==
    \A q \in Challenges :
        /\ attempts[q].op \in {"app", "activate"} =>
               attempts[q].step \in F!Times /\ attempts[q].step <= now
        /\ attempts[q].op = "app" => attempts[q].code \in F!Window(attempts[q].step)

(* An activation that is under way checked a code of the secret that is
   staged, unless that one was staged meanwhile. *)
StagedIsKnown ==
    \A q \in Challenges :
        attempts[q].op = "activate" =>
            /\ attempts[q].secret # F!NoSecret
            /\ person.secret \in {F!NoSecret, attempts[q].secret} \cup swapped

FactorInv == F!TypeOK /\ StepsInOrder /\ StepsAreReal /\ StagedIsKnown /\ F!SecondFactorHolds

LEMMA IdleAttempt == F!Idle \in F!Request /\ F!Idle.op = "idle"
BY SecondFactorAssumed DEF F!SecondFactorAssumption, F!Idle, F!Request, F!NoSecret, F!NoStep,
   F!Codes, F!DRIFT_STEPS

LEMMA NoEntriesTyped ==
    /\ F!NoEntries \in [F!Times -> Seq(F!Codes)]
    /\ \A t \in F!Times : F!NoEntries[t] = << >>
<1>1. << >> \in Seq(F!Codes)
  OBVIOUS
<1> QED
  BY <1>1 DEF F!NoEntries

LEMMA NothingEntered ==
    ASSUME \A t \in F!Times : entries[t] = << >>
    PROVE  F!OneEntryPerStep
BY DEF F!OneEntryPerStep

LEMMA FactorBegin == F!Init => FactorInv
<1> SUFFICES ASSUME F!Init PROVE FactorInv
  OBVIOUS
<1>1. MaxSecrets \in Nat /\ MaxStep \in Nat \ {0} /\ RecoveryCodes \in Nat
  BY SecondFactorAssumed DEF F!SecondFactorAssumption
<1>2. person \in F!Person /\ ~person.active /\ person.last = 0 /\ person.secret = F!NoSecret
  BY <1>1 DEF F!Init, F!Person, F!NoSecret, F!NoStep
<1>3. F!Idle \in F!Request /\ F!Idle.op = "idle"
  BY IdleAttempt
<1>4. now \in F!Times /\ now = 1
  BY <1>1 DEF F!Init, F!Times
<1>5. entries \in [F!Times -> Seq(F!Codes)] /\ \A t \in F!Times : entries[t] = << >>
  BY NoEntriesTyped DEF F!Init
<1>6. F!TypeOK
  BY <1>2, <1>3, <1>4, <1>5 DEF F!Init, F!TypeOK
<1>7. StepsInOrder /\ StepsAreReal /\ StagedIsKnown
  BY <1>2, <1>3, <1>4, <1>5 DEF F!Init, StepsInOrder, StepsAreReal, StagedIsKnown
<1>8. F!SecondFactorHolds
  BY <1>2, <1>5, NothingEntered DEF F!Init, F!SecondFactorHolds, F!OneEntryPerStep, F!CodesOfThisEnrolment,
                    F!ActiveSecretIsProven
<1> QED
  BY <1>6, <1>7, <1>8 DEF FactorInv

(* The steps that only end a request, or begin one that does not activate. *)
LEMMA FactorRequest ==
    ASSUME FactorInv, NEW q \in Challenges, NEW r \in F!Request, F!Becomes(q, r),
           UNCHANGED <<person, recovery, now, entries, proven, swapped>>,
           r.op = "activate" => r.secret = person.secret /\ r.secret # F!NoSecret,
           r.op \in {"app", "activate"} => r.step = now,
           r.op = "app" => r.code \in F!Window(r.step)
    PROVE  FactorInv'
<1>1. /\ attempts' \in [Challenges -> F!Request]
      /\ \A p \in Challenges : attempts'[p] = IF p = q THEN r ELSE attempts[p]
  BY DEF FactorInv, F!TypeOK, F!Becomes
<1>2. F!TypeOK' /\ StepsInOrder'
  BY <1>1 DEF FactorInv, F!TypeOK, StepsInOrder
<1>3. StagedIsKnown'
  BY <1>1 DEF FactorInv, StagedIsKnown
<1>5. now \in F!Times /\ now <= now
  BY DEF FactorInv, F!TypeOK, F!Times
<1>6. /\ StepsAreReal
      /\ r.op \in {"app", "activate"} => r.step \in F!Times /\ r.step <= now
      /\ now' = now
  BY <1>5 DEF FactorInv
<1>4. StepsAreReal'
  BY <1>1, <1>6 DEF StepsAreReal
<1> QED
  BY <1>2, <1>3, <1>4 DEF FactorInv, F!SecondFactorHolds, F!OneEntryPerStep, F!CodesOfThisEnrolment,
                    F!ActiveSecretIsProven

LEMMA FactorReads ==
    ASSUME FactorInv, NEW q \in Challenges,
           F!Begin(q) \/ F!AskActivation(q) \/ F!AskDisable(q) \/ F!AcceptAppCode(q)
               \/ F!AcceptRecoveryCode(q)
    PROVE  FactorInv'
<1>1. PICK r \in F!Request :
          /\ F!Reads(q, r)
          /\ r.op = "activate" => r.secret = person.secret /\ r.secret # F!NoSecret
          /\ r.op \in {"app", "activate"} => r.step = now
          /\ r.op = "app" => r.code \in F!Window(r.step)
  <2>1. /\ RecoveryCodes \in Nat /\ MaxSecrets \in Nat /\ person.drawn \in 0 .. MaxSecrets
        /\ person.secret \in F!Secrets \cup {F!NoSecret}
        /\ now \in F!Times
    BY SecondFactorAssumed DEF F!SecondFactorAssumption, FactorInv, F!TypeOK, F!Person
  <2>2. CASE F!Begin(q)
    <3> DEFINE r == [F!Idle EXCEPT !.op = "begin"]
    <3>1. r \in F!Request /\ r.op = "begin"
      BY IdleAttempt DEF F!Request
    <3> QED
      BY <2>2, <3>1 DEF F!Begin
  <2>3. CASE F!AskActivation(q)
    <3> DEFINE r == [F!Idle EXCEPT !.op = "activate", !.secret = person.secret, !.step = now]
    <3>1. /\ r \in F!Request /\ r.op = "activate" /\ r.secret = person.secret
          /\ r.step = now
      BY <2>1, IdleAttempt DEF F!Request
    <3> QED
      BY <2>3, <3>1 DEF F!AskActivation
  <2>4. CASE F!AskDisable(q)
    <3> DEFINE r == [F!Idle EXCEPT !.op = "disable", !.secret = person.secret]
    <3>1. r \in F!Request /\ r.op = "disable"
      BY <2>1, IdleAttempt DEF F!Request
    <3> QED
      BY <2>4, <3>1 DEF F!AskDisable
  <2>5. CASE F!AcceptAppCode(q)
    <3>1. PICK c \in F!Window(now) :
              F!Reads(q, [F!Idle EXCEPT !.op = "app", !.secret = person.secret,
                                        !.step = now, !.code = c])
      BY <2>5 DEF F!AcceptAppCode
    <3> DEFINE r == [F!Idle EXCEPT !.op = "app", !.secret = person.secret,
                                   !.step = now, !.code = c]
    <3>2. c \in F!Codes
      BY DEF F!Window
    <3>3. /\ r \in F!Request /\ r.op = "app" /\ r.step = now /\ r.code = c
      BY <2>1, <3>2, IdleAttempt DEF F!Request
    <3> QED
      BY <3>1, <3>3
  <2>6. CASE F!AcceptRecoveryCode(q)
    <3>1. PICK k \in 1 .. person.drawn, n \in 1 .. RecoveryCodes :
              F!Reads(q, [F!Idle EXCEPT !.op = "recovery", !.secret = k, !.number = n])
      BY <2>6 DEF F!AcceptRecoveryCode
    <3>2. k \in F!Secrets /\ n \in 0 .. RecoveryCodes
      BY <2>1 DEF F!Secrets
    <3> DEFINE r == [F!Idle EXCEPT !.op = "recovery", !.secret = k, !.number = n]
    <3>3. r \in F!Request /\ r.op = "recovery"
      BY <3>2, IdleAttempt DEF F!Request
    <3> QED
      BY <3>1, <3>3
  <2> QED
    BY <2>2, <2>3, <2>4, <2>5, <2>6
<1>2. F!Becomes(q, r) /\ UNCHANGED <<person, recovery, now, entries, proven, swapped>>
  BY <1>1 DEF F!Reads
<1> QED
  BY <1>1, <1>2, FactorRequest

LEMMA FactorRefuseKeeps == ASSUME FactorInv, NEW q \in Challenges, F!Refuse(q) PROVE FactorInv'
BY IdleAttempt, FactorRequest DEF F!Refuse

(* What is left of the requests after one of them ended. *)
LEMMA AttemptEnds ==
    ASSUME FactorInv, NEW q \in Challenges, F!Becomes(q, F!Idle)
    PROVE  /\ attempts' \in [Challenges -> F!Request]
           /\ \A p \in Challenges :
                  attempts'[p].op \in {"app", "activate"} => p # q /\ attempts'[p] = attempts[p]
<1>1. \A p \in Challenges : attempts'[p] = IF p = q THEN F!Idle ELSE attempts[p]
  BY DEF F!Becomes, FactorInv, F!TypeOK
<1>2. attempts' \in [Challenges -> F!Request]
  BY IdleAttempt DEF F!Becomes, FactorInv, F!TypeOK
<1> QED
  BY <1>1, <1>2, IdleAttempt

(* Time goes on, and the other requests keep what they hold. *)
LEMMA StepsStayReal ==
    ASSUME FactorInv, NEW q \in Challenges, F!Becomes(q, F!Idle), now' = now
    PROVE  StepsAreReal'
BY AttemptEnds DEF FactorInv, StepsAreReal

LEMMA StageSecretKeeps == ASSUME FactorInv, NEW q \in Challenges, F!StageSecret(q) PROVE FactorInv'
<1> DEFINE k == person.drawn + 1
<1>1. /\ F!Becomes(q, F!Idle) /\ UNCHANGED <<recovery, now, proven>> /\ ~person.active
      /\ entries' = F!NoEntries /\ k <= MaxSecrets
      /\ person' = [person EXCEPT !.secret = k, !.last = F!NoStep, !.drawn = k]
      /\ swapped' = IF \E p \in Challenges : attempts[p].op = "activate" THEN swapped \cup {k}
                                                                         ELSE swapped
  BY DEF F!StageSecret, F!Stageable
<1>2. person \in F!Person /\ MaxSecrets \in Nat
  BY SecondFactorAssumed DEF F!SecondFactorAssumption, FactorInv, F!TypeOK
<1>3. k \in F!Secrets /\ k \in 0 .. MaxSecrets /\ k # F!NoSecret
  BY <1>1, <1>2 DEF F!Person, F!Secrets, F!NoSecret
<1> HIDE DEF k
<1>4. /\ person' \in F!Person /\ person'.secret = k /\ person'.last = 0
      /\ person'.active = person.active
  BY <1>1, <1>2, <1>3 DEF F!Person, F!NoStep
<1>5. entries' \in [F!Times -> Seq(F!Codes)] /\ \A t \in F!Times : entries'[t] = << >>
  BY <1>1, NoEntriesTyped
<1>6. now \in F!Times /\ recovery = {}
  BY <1>1 DEF FactorInv, F!TypeOK, F!SecondFactorHolds, F!CodesOfThisEnrolment
<1>7. F!TypeOK'
  BY <1>1, <1>3, <1>4, <1>5, AttemptEnds DEF FactorInv, F!TypeOK
<1>8. StepsInOrder'
  BY <1>1, <1>4, <1>5, <1>6 DEF StepsInOrder, F!Times
<1>9. StagedIsKnown'
  BY <1>1, <1>4, AttemptEnds DEF FactorInv, StagedIsKnown
<1>10. StepsAreReal' /\ F!OneEntryPerStep'
  <2>1. F!OneEntryPerStep'
    BY <1>5 DEF F!OneEntryPerStep
  <2> QED
    BY <1>1, <2>1, StepsStayReal
<1> QED
  BY <1>1, <1>4, <1>6, <1>7, <1>8, <1>9, <1>10
  DEF FactorInv, F!SecondFactorHolds, F!OneEntryPerStep, F!CodesOfThisEnrolment,
      F!ActiveSecretIsProven

LEMMA ActivateKeeps == ASSUME FactorInv, NEW q \in Challenges, F!Activate(q) PROVE FactorInv'
<1>1. /\ F!Becomes(q, F!Idle) /\ UNCHANGED <<now, swapped>> /\ person.secret # F!NoSecret
      /\ entries' = F!NoEntries
      /\ recovery' = F!CodesOf(person.secret)
      /\ proven' = proven \cup {attempts[q].secret} /\ attempts[q].op = "activate"
  BY DEF F!Activate
<1>2. person \in F!Person /\ now \in F!Times
  BY DEF FactorInv, F!TypeOK
<1>10. PICK t \in attempts[q].step .. now : person' = [person EXCEPT !.active = TRUE, !.last = t]
  BY DEF F!Activate
<1>11. t \in F!Times
  <2>1. attempts[q].step \in F!Times
    BY <1>1 DEF FactorInv, StepsAreReal
  <2>2. MaxStep \in Nat
    BY SecondFactorAssumed DEF F!SecondFactorAssumption
  <2> QED
    BY <1>2, <1>10, <2>1, <2>2 DEF F!Times
<1>3. person' \in F!Person /\ person'.secret = person.secret
  BY <1>2, <1>10, <1>11 DEF F!Person
<1>12. entries' \in [F!Times -> Seq(F!Codes)] /\ \A x \in F!Times : entries'[x] = << >>
  BY <1>1, NoEntriesTyped
<1>4. attempts[q] \in F!Request
  BY DEF FactorInv, F!TypeOK
<1>5. person.secret \in proven' \cup swapped
  BY <1>1 DEF FactorInv, StagedIsKnown
<1>6. attempts[q].secret # F!NoSecret
  BY <1>1 DEF FactorInv, StagedIsKnown
<1>7. F!TypeOK'
  BY <1>1, <1>3, <1>4, <1>6, <1>12, AttemptEnds DEF FactorInv, F!TypeOK, F!Request, F!CodesOf
<1>8. StepsInOrder'
  BY <1>12 DEF StepsInOrder
<1>9. StagedIsKnown'
  BY <1>1, <1>3, AttemptEnds DEF FactorInv, StagedIsKnown
<1>13. person'.active
  BY <1>2, <1>10 DEF F!Person
<1>14. StepsAreReal' /\ F!OneEntryPerStep'
  <2>1. F!OneEntryPerStep'
    BY <1>12 DEF F!OneEntryPerStep
  <2> QED
    BY <1>1, <2>1, StepsStayReal
<1> QED
  BY <1>1, <1>3, <1>5, <1>7, <1>8, <1>9, <1>13, <1>14
  DEF FactorInv, F!SecondFactorHolds, F!OneEntryPerStep, F!CodesOfThisEnrolment,
      F!ActiveSecretIsProven, F!CodesOf

LEMMA DisableKeeps == ASSUME FactorInv, NEW q \in Challenges, F!Disable(q) PROVE FactorInv'
<1>1. /\ F!Becomes(q, F!Idle) /\ UNCHANGED <<now, proven, swapped>>
      /\ person' = [person EXCEPT !.secret = F!NoSecret, !.active = FALSE, !.last = F!NoStep]
      /\ recovery' = {} /\ entries' = F!NoEntries
  BY DEF F!Disable
<1>2. person \in F!Person /\ now \in F!Times
  BY DEF FactorInv, F!TypeOK
<1>3. /\ person' \in F!Person /\ person'.secret = F!NoSecret /\ ~person'.active
      /\ person'.last = 0
  BY <1>1, <1>2 DEF F!Person, F!NoStep
<1>4. entries' \in [F!Times -> Seq(F!Codes)] /\ \A t \in F!Times : entries'[t] = << >>
  BY <1>1, NoEntriesTyped
<1>5. F!TypeOK'
  BY <1>1, <1>3, <1>4, AttemptEnds DEF FactorInv, F!TypeOK
<1>6. StepsInOrder'
  BY <1>1, <1>2, <1>3, <1>4 DEF StepsInOrder, F!Times
<1>7. StagedIsKnown'
  BY <1>1, <1>3, AttemptEnds DEF FactorInv, StagedIsKnown
<1>8. StepsAreReal' /\ F!OneEntryPerStep'
  <2>1. F!OneEntryPerStep'
    BY <1>4 DEF F!OneEntryPerStep
  <2> QED
    BY <1>1, <2>1, StepsStayReal
<1> QED
  BY <1>1, <1>3, <1>5, <1>6, <1>7, <1>8
  DEF FactorInv, F!SecondFactorHolds, F!OneEntryPerStep, F!CodesOfThisEnrolment,
      F!ActiveSecretIsProven

(* The step is later than any that let a login in: it is the first. *)
LEMMA ConsumeStepKeeps == ASSUME FactorInv, NEW q \in Challenges, F!ConsumeStep(q) PROVE FactorInv'
<1> DEFINE t == attempts[q].step
           c == attempts[q].code
<1>1. /\ F!Becomes(q, F!Idle) /\ UNCHANGED <<recovery, now, proven, swapped>>
      /\ person' = [person EXCEPT !.last = t] /\ person.last < t
      /\ entries' = [entries EXCEPT ![t] = Append(@, c)] /\ attempts[q].op = "app"
  BY DEF F!ConsumeStep, F!Unused
<1>2. person \in F!Person /\ entries \in [F!Times -> Seq(F!Codes)]
  BY DEF FactorInv, F!TypeOK
<1>9. t \in F!Times /\ c \in F!Window(t) /\ c \in F!Codes
  BY <1>1 DEF FactorInv, StepsAreReal, F!Window
<1> HIDE DEF t, c
<1>3. /\ person' \in F!Person /\ person'.secret = person.secret /\ person'.last = t
      /\ person'.active = person.active
  BY <1>1, <1>2, <1>9 DEF F!Person
<1>10. entries[t] = << >>
  BY <1>1, <1>9 DEF FactorInv, StepsInOrder
<1>11. Append(<< >>, c) = <<c>> /\ <<c>> \in Seq(F!Codes)
  BY <1>9
<1>4. /\ entries' \in [F!Times -> Seq(F!Codes)] /\ entries'[t] = <<c>>
      /\ \A x \in F!Times : x # t => entries'[x] = entries[x]
  BY <1>1, <1>2, <1>9, <1>10, <1>11
<1>5. F!TypeOK'
  BY <1>1, <1>3, <1>4, AttemptEnds DEF FactorInv, F!TypeOK
<1>6. StepsInOrder'
  <2> SUFFICES ASSUME NEW x \in F!Times, t < x PROVE entries'[x] = << >>
    BY <1>3 DEF StepsInOrder
  <2>1. person.last < x /\ x # t
    BY <1>1, <1>2, <1>9 DEF F!Person, F!Times, F!NoStep
  <2> QED
    BY <1>4, <2>1 DEF FactorInv, StepsInOrder
<1>7. StagedIsKnown'
  BY <1>1, <1>3, AttemptEnds DEF FactorInv, StagedIsKnown
<1>8. F!OneEntryPerStep'
  <2> SUFFICES ASSUME NEW x \in F!Times
               PROVE  /\ Len(entries'[x]) <= 1
                      /\ \A i \in 1 .. Len(entries'[x]) : entries'[x][i] \in F!Window(x)
    BY DEF F!OneEntryPerStep, F!Window
  <2>1. CASE x = t
    <3>1. entries'[x] = <<c>> /\ Len(<<c>>) = 1 /\ <<c>>[1] = c
      BY <1>4, <2>1
    <3>2. \A i \in 1 .. 1 : i = 1
      OBVIOUS
    <3> QED
      BY <1>9, <2>1, <3>1, <3>2
  <2>2. CASE x # t
    <3>1. entries'[x] = entries[x]
      BY <1>4, <2>2
    <3>2. /\ Len(entries[x]) <= 1
          /\ \A i \in 1 .. Len(entries[x]) : entries[x][i] \in F!Window(x)
      BY DEF FactorInv, F!SecondFactorHolds, F!OneEntryPerStep
    <3> QED
      BY <3>1, <3>2
  <2> QED
    BY <2>1, <2>2
<1> QED
  BY <1>1, <1>3, <1>5, <1>6, <1>7, <1>8, StepsStayReal
  DEF FactorInv, F!SecondFactorHolds, F!CodesOfThisEnrolment, F!ActiveSecretIsProven

LEMMA ConsumeRecoveryCodeKeeps ==
    ASSUME FactorInv, NEW q \in Challenges, F!ConsumeRecoveryCode(q) PROVE FactorInv'
<1>1. /\ F!Becomes(q, F!Idle) /\ UNCHANGED <<person, now, entries, proven, swapped>>
      /\ recovery' \subseteq recovery
  BY DEF F!ConsumeRecoveryCode
<1>2. F!TypeOK' /\ StepsInOrder'
  BY <1>1, AttemptEnds DEF FactorInv, F!TypeOK, StepsInOrder
<1>3. StagedIsKnown'
  BY <1>1, AttemptEnds DEF FactorInv, StagedIsKnown
<1> QED
  BY <1>1, <1>2, <1>3, StepsStayReal
  DEF FactorInv, F!SecondFactorHolds, F!OneEntryPerStep, F!CodesOfThisEnrolment,
      F!ActiveSecretIsProven

LEMMA TickKeeps == ASSUME FactorInv, F!Tick PROVE FactorInv'
<1>1. /\ now' = now + 1 /\ now < MaxStep
      /\ UNCHANGED <<person, recovery, attempts, entries, proven, swapped>>
  BY DEF F!Tick
<1>2. person \in F!Person /\ now \in F!Times /\ MaxStep \in Nat
  BY SecondFactorAssumed DEF F!SecondFactorAssumption, FactorInv, F!TypeOK
<1>3. now' \in F!Times /\ \A t \in F!Times : t <= now => t <= now'
  BY <1>1, <1>2 DEF F!Times
<1>4. F!TypeOK' /\ StepsInOrder' /\ StagedIsKnown'
  BY <1>1, <1>3 DEF FactorInv, F!TypeOK, StepsInOrder, StagedIsKnown
<1>5. StepsAreReal'
  BY <1>1, <1>3 DEF FactorInv, StepsAreReal
<1> QED
  BY <1>1, <1>4, <1>5
  DEF FactorInv, F!SecondFactorHolds, F!OneEntryPerStep, F!CodesOfThisEnrolment,
      F!ActiveSecretIsProven

LEMMA FactorStep == FactorInv /\ [F!Next]_(F!vars) => FactorInv'
<1> SUFFICES ASSUME FactorInv, [F!Next]_(F!vars) PROVE FactorInv'
  OBVIOUS
<1>1. CASE UNCHANGED F!vars
  BY <1>1 DEF F!vars, FactorInv, F!TypeOK, StepsInOrder, StepsAreReal, StagedIsKnown,
     F!SecondFactorHolds,
     F!OneEntryPerStep, F!CodesOfThisEnrolment, F!ActiveSecretIsProven
<1>2. CASE F!Next
  BY <1>2, FactorReads, StageSecretKeeps, ActivateKeeps, DisableKeeps, ConsumeStepKeeps,
     ConsumeRecoveryCodeKeeps, FactorRefuseKeeps, TickKeeps DEF F!Next
<1> QED
  BY <1>1, <1>2

(* One time step is recorded by one login, however many present a code in it
   at once, with a code of that step or of one beside it; the recovery codes
   are those of the enrolment in force, and an active secret was proven to
   have reached the device, unless another was staged while its activation was
   under way (second-factor.repository.ts, second-factor.service.ts). *)
THEOREM SecondFactorStandsAlone == AccountsSpec => []SecondFactorHolds
<1>1. AccountsInit => FactorInv
  BY FactorBegin DEF AccountsInit
<1>2. [AccountsNext]_allVars => [F!Next]_(F!vars)
  BY DEF AccountsNext, allVars, factorVars, F!vars
<1>3. FactorInv => SecondFactorHolds
  BY DEF FactorInv, SecondFactorHolds
<1> QED
  BY <1>1, <1>2, <1>3, FactorStep, PTL DEF AccountsSpec

-----------------------------------------------------------------------------
(* LoginAttempts *)

(* The attempts that were admitted to a scope and may still count a failure. *)
Owed(s) ==
    {q \in Attempts : /\ tries[q].scope = s
                      /\ \/ tries[q].step = "verifying"
                         \/ /\ tries[q].step \in {"due", "waiting", "holding"}
                            /\ tries[q].op = "recordFailure"}

(* Whoever was admitted found the counter below the limit. *)
AdmittedBelow ==
    \A s \in A!Scopes :
        counters[s].count + Cardinality(Owed(s)) < AttemptLimit[s] + Cardinality(Attempts)

AttemptsInv == A!TypeOK /\ A!LockoutEnds /\ AdmittedBelow

LEMMA AttemptsFinite ==
    /\ IsFiniteSet(Attempts) /\ Cardinality(Attempts) \in Nat
    /\ Cardinality(Attempts) = A!Cardinality(Attempts)
    /\ \A S \in SUBSET Attempts : /\ IsFiniteSet(S) /\ Cardinality(S) \in Nat
                                  /\ Cardinality(S) <= Cardinality(Attempts)
    /\ \A s \in A!Scopes : AttemptLimit[s] \in Nat \ {0}
<1>1. IsFiniteSet(Attempts) <=> A!IsFiniteSet(Attempts)
  BY DEF IsFiniteSet, A!IsFiniteSet
<1>2. Cardinality(Attempts) = A!Cardinality(Attempts)
  BY DEF Cardinality, A!Cardinality
<1>3. IsFiniteSet(Attempts)
  BY <1>1, AttemptsAssumed DEF A!AttemptsAssumption
<1>4. \A s \in A!Scopes : AttemptLimit[s] \in Nat \ {0}
  BY AttemptsAssumed DEF A!AttemptsAssumption
<1> QED
  BY <1>2, <1>3, <1>4, FS_Subset, FS_CardinalityType

(* A scope stays below its limit and what is owed to it, if a failure counts
   for somebody who owed it, or somebody is admitted below the limit. *)
LEMMA OwedBound ==
    ASSUME AttemptsInv, NEW s \in A!Scopes, counters'[s].count \in Nat,
           \/ Owed(s)' \subseteq Owed(s) /\ counters'[s].count <= counters[s].count
           \/ counters'[s].count < AttemptLimit[s]
           \/ \E q \in Owed(s) : /\ Owed(s)' \subseteq Owed(s) \ {q}
                                 /\ counters'[s].count = counters[s].count + 1
    PROVE  counters'[s].count + Cardinality(Owed(s)') < AttemptLimit[s] + Cardinality(Attempts)
<1> DEFINE N == Cardinality(Attempts)
           O == Owed(s)
           P1 == Owed(s)'
<1>1. O \in SUBSET Attempts /\ P1 \in SUBSET Attempts
  BY DEF Owed
<1>2. counters[s].count \in Nat /\ counters[s].count + Cardinality(O) < AttemptLimit[s] + N
  BY DEF AttemptsInv, AdmittedBelow, A!TypeOK
<1>3. /\ IsFiniteSet(O) /\ Cardinality(O) \in Nat /\ Cardinality(P1) \in Nat
      /\ Cardinality(P1) <= N /\ N \in Nat /\ AttemptLimit[s] \in Nat
  BY <1>1, AttemptsFinite
<1> HIDE DEF N, O, P1
<1>4. P1 \subseteq O => Cardinality(P1) <= Cardinality(O)
  BY <1>3, FS_Subset
<1>5. \A q \in O : P1 \subseteq O \ {q} => Cardinality(P1) <= Cardinality(O) - 1
  BY <1>3, FS_Subset, FS_RemoveElement
<1>6. CASE P1 \subseteq O /\ counters'[s].count <= counters[s].count
  BY <1>2, <1>3, <1>4, <1>6 DEF N, O, P1
<1>7. CASE counters'[s].count < AttemptLimit[s]
  BY <1>3, <1>7 DEF N, O, P1
<1>8. CASE \E q \in O : P1 \subseteq O \ {q} /\ counters'[s].count = counters[s].count + 1
  BY <1>2, <1>3, <1>5, <1>8 DEF N, O, P1
<1> QED
  BY <1>6, <1>7, <1>8 DEF N, O, P1

LEMMA AttemptsBegin == A!Init => AttemptsInv
<1> SUFFICES ASSUME A!Init PROVE AttemptsInv
  OBVIOUS
<1>1. A!TypeOK
  BY AttemptsAssumed DEF A!AttemptsAssumption, A!Init, A!TypeOK, A!NoKey, A!Idle, A!Request,
                         A!Operations, A!Scopes
<1>2. \A s \in A!Scopes : counters[s].count = 0
  BY DEF A!Init, A!NoKey
<1>3. AdmittedBelow
  <2> SUFFICES ASSUME NEW s \in A!Scopes
               PROVE  counters[s].count + Cardinality(Owed(s))
                          < AttemptLimit[s] + Cardinality(Attempts)
    BY DEF AdmittedBelow
  <2>1. Owed(s) \in SUBSET Attempts
    BY DEF Owed
  <2> QED
    BY <1>2, <2>1, AttemptsFinite
<1> QED
  BY <1>1, <1>2, <1>3 DEF AttemptsInv, A!LockoutEnds

(* A step in which nothing is counted and nobody is admitted. *)
LEMMA NothingCounted ==
    ASSUME AttemptsInv, A!TypeOK', counters' = counters,
           \A s \in A!Scopes : Owed(s)' \subseteq Owed(s)
    PROVE  AttemptsInv'
<1>1. A!LockoutEnds'
  BY DEF AttemptsInv, A!LockoutEnds
<1>2. \A s \in A!Scopes : counters'[s].count \in Nat /\ counters'[s].count <= counters[s].count
  BY DEF AttemptsInv, A!TypeOK
<1>3. AdmittedBelow'
  BY <1>2, OwedBound DEF AdmittedBelow
<1> QED
  BY <1>1, <1>3 DEF AttemptsInv

(* One request becomes another one. *)
LEMMA OneTries ==
    ASSUME AttemptsInv, NEW q \in Attempts, NEW r \in A!Request, A!Becomes(q, r)
    PROVE  /\ tries' \in [Attempts -> A!Request]
           /\ \A p \in Attempts : tries'[p] = IF p = q THEN r ELSE tries[p]
           /\ \A s : s # r.scope => Owed(s)' \subseteq Owed(s) \ {q}
           /\ ~(\/ r.step = "verifying"
                \/ r.step \in {"due", "waiting", "holding"} /\ r.op = "recordFailure") =>
                  \A s : Owed(s)' \subseteq Owed(s) \ {q}
<1>1. /\ tries' \in [Attempts -> A!Request]
      /\ \A p \in Attempts : tries'[p] = IF p = q THEN r ELSE tries[p]
  BY DEF AttemptsInv, A!TypeOK, A!Becomes
<1> QED
  BY <1>1 DEF Owed

LEMMA AskKeeps ==
    ASSUME AttemptsInv, NEW q \in Attempts, NEW route \in {"login", "code", "reset"},
           A!Ask(q, route)
    PROVE  AttemptsInv'
<1> DEFINE r == [step |-> "due", route |-> route, op |-> "assertAllowed",
                 scope |-> A!FirstScope[route], cut |-> redis = "down"]
<1>1. r \in A!Request /\ r.step = "due" /\ r.op = "assertAllowed"
  BY DEF A!Request, A!Operations, A!Scopes, A!FirstScope
<1>2. A!Becomes(q, r) /\ UNCHANGED <<redis, client, connection, counters, outages>>
  BY DEF A!Ask
<1> HIDE DEF r
<1> QED
  BY <1>1, <1>2, OneTries, NothingCounted DEF AttemptsInv, A!TypeOK

LEMMA ConnectedClientKeeps ==
    ASSUME AttemptsInv, NEW q \in Attempts, A!ConnectedClient(q)
    PROVE  AttemptsInv'
<1>1. PICK step \in {"holding", "waiting"} :
          /\ A!Becomes(q, [tries[q] EXCEPT !.step = step])
          /\ connection' \in {connection, "pending"}
          /\ UNCHANGED <<redis, client, counters, outages>>
  BY DEF A!ConnectedClient
<1> DEFINE r == [tries[q] EXCEPT !.step = step]
<1>2. tries[q] \in A!Request /\ tries[q].step = "due"
  BY DEF AttemptsInv, A!TypeOK, A!ConnectedClient, A!Is
<1>3. r \in A!Request /\ r.step = step /\ r.op = tries[q].op /\ r.scope = tries[q].scope
  BY <1>2 DEF A!Request
<1> HIDE DEF r
<1>4. /\ tries' \in [Attempts -> A!Request]
      /\ \A p \in Attempts : tries'[p] = IF p = q THEN r ELSE tries[p]
  BY <1>1, <1>3, OneTries DEF r
<1>5. \A s : Owed(s)' \subseteq Owed(s)
  BY <1>2, <1>3, <1>4 DEF Owed
<1> QED
  BY <1>1, <1>4, <1>5, NothingCounted DEF AttemptsInv, A!TypeOK

(* A step of the client, for every request that waits for it. *)
LEMMA ClientKeeps == ASSUME AttemptsInv, A!Connected \/ A!ConnectFails PROVE AttemptsInv'
<1>1. PICK step \in {"holding", "unavailable"} :
          tries' = [q \in Attempts |->
              IF q \in A!Waiting THEN [tries[q] EXCEPT !.step = step] ELSE tries[q]]
  BY DEF A!Connected, A!ConnectFails
<1>2. \A q \in Attempts : tries[q] \in A!Request
  BY DEF AttemptsInv, A!TypeOK
<1>3. ASSUME NEW q \in Attempts
      PROVE  /\ tries'[q] \in A!Request /\ tries'[q].scope = tries[q].scope
             /\ tries'[q].op = tries[q].op
             /\ \/ tries'[q].step = tries[q].step
                \/ tries[q].step = "waiting" /\ tries'[q].step = step
  <2>1. CASE q \in A!Waiting
    BY <1>1, <1>2, <2>1 DEF A!Waiting, A!Is, A!Request
  <2>2. CASE q \notin A!Waiting
    BY <1>1, <1>2, <2>2
  <2> QED
    BY <2>1, <2>2
<1>4. tries' \in [Attempts -> A!Request]
  BY <1>1, <1>3
<1>5. \A s : Owed(s)' \subseteq Owed(s)
  BY <1>3 DEF Owed
<1>6. A!TypeOK' /\ counters' = counters
  BY <1>4 DEF AttemptsInv, A!TypeOK, A!Connected, A!ConnectFails
<1> QED
  BY <1>5, <1>6, NothingCounted

(* What the operation of a request does to the counters. *)
LEMMA EffectTyped ==
    ASSUME AttemptsInv, NEW r \in A!Request, counters' = A!Effect(r)
    PROVE  /\ counters' \in [A!Scopes -> [count : Nat, expires : BOOLEAN]]
           /\ A!LockoutEnds'
           /\ \A s \in A!Scopes : s # r.scope => counters'[s] = counters[s]
           /\ r.op = "assertAllowed" => counters' = counters
           /\ r.op = "clear" => counters'[r.scope].count = 0
           /\ r.op = "recordFailure" => counters'[r.scope].count = counters[r.scope].count + 1
<1>1. /\ counters \in [A!Scopes -> [count : Nat, expires : BOOLEAN]] /\ A!LockoutEnds
      /\ r.op \in A!Operations /\ r.scope \in A!Scopes
  BY DEF AttemptsInv, A!TypeOK, A!Request
<1>2. CASE r.op = "assertAllowed"
  BY <1>1, <1>2 DEF A!Effect, A!LockoutEnds
<1>3. CASE r.op = "clear"
  BY <1>1, <1>3 DEF A!Effect, A!LockoutEnds, A!NoKey
<1>4. CASE r.op = "recordFailure"
  <2> DEFINE c == counters[r.scope]
             k == A!Incremented(c)
  <2>0. c \in [count : Nat, expires : BOOLEAN] /\ (c.count > 0 => c.expires)
    BY <1>1 DEF A!LockoutEnds
  <2>3. (c.expires \/ c.count = 0) = TRUE
    BY <2>0
  <2>4. k = [count |-> c.count + 1, expires |-> TRUE]
    BY <2>3, Zenon DEF A!Incremented
  <2>1. k \in [count : Nat, expires : BOOLEAN] /\ k.count = c.count + 1 /\ k.expires
    BY <2>0, <2>4
  <2>2. counters' = [counters EXCEPT ![r.scope] = k]
    BY <1>4 DEF A!Effect
  <2> HIDE DEF k
  <2> QED
    BY <1>1, <1>4, <2>1, <2>2 DEF A!LockoutEnds
<1> QED
  BY <1>1, <1>2, <1>3, <1>4 DEF A!Operations

LEMMA OperateKeeps == ASSUME AttemptsInv, NEW q \in Attempts, A!Operate(q) PROVE AttemptsInv'
<1> DEFINE r == tries[q]
           after == A!AfterOperation(q)
<1>1. r \in A!Request /\ r.step \in {"due", "holding"}
  BY DEF AttemptsInv, A!TypeOK, A!Operate, A!Reaches, A!Is
<1>2. counters' = A!Effect(r) /\ A!Becomes(q, after) /\ UNCHANGED <<redis, client, connection, outages>>
  BY DEF A!Operate
<1>3. /\ after \in A!Request
      /\ after.step = "verifying" => r.op = "assertAllowed" /\ ~A!Blocked(r.scope)
      /\ after.step \in {"due", "waiting", "holding"} /\ after.op = "recordFailure" =>
             r.op = "assertAllowed" /\ ~A!Blocked(r.scope)
      /\ r.op = "assertAllowed" /\ ~A!Blocked(r.scope) => after.scope = r.scope
  BY <1>1 DEF A!AfterOperation, A!Due, A!Idle, A!Request, A!Operations, A!Scopes
<1>4. /\ counters' \in [A!Scopes -> [count : Nat, expires : BOOLEAN]] /\ A!LockoutEnds'
      /\ \A s \in A!Scopes : s # r.scope => counters'[s] = counters[s]
      /\ r.op = "assertAllowed" => counters' = counters
      /\ r.op = "clear" => counters'[r.scope].count = 0
      /\ r.op = "recordFailure" => counters'[r.scope].count = counters[r.scope].count + 1
  BY <1>1, <1>2, EffectTyped
<1> HIDE DEF after
<1>5. /\ tries' \in [Attempts -> A!Request]
      /\ \A s : s # after.scope => Owed(s)' \subseteq Owed(s) \ {q}
      /\ ~(r.op = "assertAllowed" /\ ~A!Blocked(r.scope)) =>
             \A s : Owed(s)' \subseteq Owed(s) \ {q}
  BY <1>2, <1>3, OneTries
<1>6. r.scope \in A!Scopes /\ r.op \in A!Operations /\ counters[r.scope].count \in Nat
  BY <1>1 DEF A!Request, AttemptsInv, A!TypeOK
<1>7. r.op = "recordFailure" => q \in Owed(r.scope)
  BY <1>1 DEF Owed
<1>8. \A s \in A!Scopes : counters'[s].count \in Nat /\ counters[s].count \in Nat
  BY <1>4 DEF AttemptsInv, A!TypeOK
<1>9. ASSUME NEW s \in A!Scopes
      PROVE  \/ Owed(s)' \subseteq Owed(s) /\ counters'[s].count <= counters[s].count
             \/ counters'[s].count < AttemptLimit[s]
             \/ \E p \in Owed(s) : /\ Owed(s)' \subseteq Owed(s) \ {p}
                                   /\ counters'[s].count = counters[s].count + 1
  <2>1. CASE s # r.scope
    BY <1>3, <1>4, <1>5, <1>8, <2>1
  <2>2. CASE s = r.scope /\ r.op = "recordFailure"
    BY <1>4, <1>5, <1>7, <2>2
  <2>3. CASE s = r.scope /\ r.op = "clear"
    BY <1>4, <2>3, AttemptsFinite
  <2>4. CASE s = r.scope /\ r.op = "assertAllowed" /\ A!Blocked(r.scope)
    BY <1>4, <1>5, <1>8, <2>4
  <2>5. CASE s = r.scope /\ r.op = "assertAllowed" /\ ~A!Blocked(r.scope)
    BY <1>4, <1>6, <2>5, AttemptsFinite DEF A!Blocked
  <2> QED
    BY <1>6, <2>1, <2>2, <2>3, <2>4, <2>5 DEF A!Operations
<1>10. AdmittedBelow'
  BY <1>8, <1>9, OwedBound DEF AdmittedBelow
<1>11. A!TypeOK'
  BY <1>2, <1>4, <1>5 DEF AttemptsInv, A!TypeOK
<1> QED
  BY <1>4, <1>10, <1>11 DEF AttemptsInv

LEMMA UnavailableKeeps ==
    ASSUME AttemptsInv, NEW q \in Attempts, A!Unavailable(q)
    PROVE  AttemptsInv'
<1> DEFINE r == [tries[q] EXCEPT !.step = "unavailable"]
<1>1. r \in A!Request /\ r.step = "unavailable"
  BY DEF AttemptsInv, A!TypeOK, A!Request
<1>2. A!Becomes(q, r) /\ UNCHANGED <<redis, client, connection, counters, outages>>
  BY DEF A!Unavailable
<1> HIDE DEF r
<1> QED
  BY <1>1, <1>2, OneTries, NothingCounted DEF AttemptsInv, A!TypeOK

LEMMA VerifyKeeps == ASSUME AttemptsInv, NEW q \in Attempts, A!Verify(q) PROVE AttemptsInv'
<1>1. tries[q] \in A!Request /\ tries[q].step = "verifying"
  BY DEF AttemptsInv, A!TypeOK, A!Verify, A!Is
<1>2. UNCHANGED <<redis, client, connection, counters, outages>>
  BY DEF A!Verify
<1>3. \/ A!Becomes(q, A!Due(q, "recordFailure", tries[q].scope))
      \/ A!Becomes(q, A!Due(q, "clear", tries[q].scope))
      \/ A!Becomes(q, A!Due(q, "assertAllowed", "totp"))
      \/ A!Becomes(q, A!Idle)
  BY DEF A!Verify
<1>4. CASE A!Becomes(q, A!Due(q, "recordFailure", tries[q].scope))
  <2> DEFINE r == A!Due(q, "recordFailure", tries[q].scope)
  <2>1. r \in A!Request /\ r.scope = tries[q].scope
    BY <1>1 DEF A!Due, A!Request, A!Operations
  <2> HIDE DEF r
  <2>2. /\ tries' \in [Attempts -> A!Request]
        /\ \A p \in Attempts : tries'[p] = IF p = q THEN r ELSE tries[p]
    BY <1>4, <2>1, OneTries DEF r
  <2>3. \A s : Owed(s)' \subseteq Owed(s)
    BY <1>1, <2>1, <2>2 DEF Owed
  <2> QED
    BY <1>2, <2>2, <2>3, NothingCounted DEF AttemptsInv, A!TypeOK
<1>5. ASSUME NEW r \in A!Request, r.op # "recordFailure", r.step # "verifying", A!Becomes(q, r)
      PROVE  AttemptsInv'
  BY <1>2, <1>5, OneTries, NothingCounted DEF AttemptsInv, A!TypeOK
<1>6. /\ A!Due(q, "clear", tries[q].scope) \in A!Request
      /\ A!Due(q, "clear", tries[q].scope).op = "clear"
      /\ A!Due(q, "clear", tries[q].scope).step = "due"
  BY <1>1 DEF A!Due, A!Request, A!Operations
<1>7. /\ A!Due(q, "assertAllowed", "totp") \in A!Request
      /\ A!Due(q, "assertAllowed", "totp").op = "assertAllowed"
      /\ A!Due(q, "assertAllowed", "totp").step = "due"
  BY <1>1 DEF A!Due, A!Request, A!Operations, A!Scopes
<1>8. A!Idle \in A!Request /\ A!Idle.op = "assertAllowed" /\ A!Idle.step = "idle"
  BY DEF A!Idle, A!Request, A!Operations, A!Scopes
<1> QED
  BY <1>3, <1>4, <1>5, <1>6, <1>7, <1>8

(* Whose operation was performed and not answered owes nothing any more. *)
LEMMA OutageKeeps == ASSUME AttemptsInv, A!Outage PROVE AttemptsInv'
<1>1. PICK done \in SUBSET {q \in Attempts : A!Reaches(q) /\ client = "ready"} :
          /\ counters' \in {counters} \cup {A!Effect(tries[q]) : q \in done}
          /\ tries' = [q \in Attempts |->
                 [tries[q] EXCEPT !.cut = ~A!Is(q, "idle"),
                                  !.step = IF q \in done THEN "unavailable" ELSE @]]
  BY DEF A!Outage
<1>2. /\ redis' = "down" /\ client' = "closed" /\ UNCHANGED connection
      /\ outages' \in 0 .. MaxOutages
  <2>1. outages \in 0 .. MaxOutages /\ MaxOutages \in Nat
    BY AttemptsAssumed DEF A!AttemptsAssumption, AttemptsInv, A!TypeOK
  <2>2. /\ redis' = "down" /\ client' = "closed" /\ UNCHANGED connection
        /\ outages < MaxOutages /\ outages' = outages + 1
    BY DEF A!Outage
  <2> QED
    BY <2>1, <2>2
<1>3. ASSUME NEW q \in Attempts
      PROVE  /\ tries'[q] \in A!Request /\ tries'[q].scope = tries[q].scope
             /\ tries'[q].op = tries[q].op
             /\ tries'[q].step = IF q \in done THEN "unavailable" ELSE tries[q].step
  <2>1. tries[q] \in A!Request
    BY DEF AttemptsInv, A!TypeOK
  <2>2. tries'[q] = [tries[q] EXCEPT !.cut = ~A!Is(q, "idle"),
                                     !.step = IF q \in done THEN "unavailable" ELSE @]
    BY <1>1
  <2>3. A!Is(q, "idle") \in BOOLEAN
    BY DEF A!Is
  <2>4. ASSUME NEW c \in BOOLEAN, tries'[q] = [tries[q] EXCEPT !.cut = c,
                                     !.step = IF q \in done THEN "unavailable" ELSE @]
        PROVE  /\ tries'[q] \in A!Request /\ tries'[q].scope = tries[q].scope
               /\ tries'[q].op = tries[q].op
               /\ tries'[q].step = IF q \in done THEN "unavailable" ELSE tries[q].step
    BY <2>1, <2>4 DEF A!Request
  <2> QED
    BY <2>2, <2>3, <2>4
<1>4. tries' \in [Attempts -> A!Request]
  BY <1>1, <1>3
<1>5. \A s : Owed(s)' \subseteq Owed(s) \ done
  BY <1>3 DEF Owed
<1>6. CASE counters' = counters
  BY <1>2, <1>4, <1>5, <1>6, NothingCounted DEF AttemptsInv, A!TypeOK
<1>7. CASE \E q \in done : counters' = A!Effect(tries[q])
  <2>1. PICK q \in done : counters' = A!Effect(tries[q])
    BY <1>7
  <2>2. q \in Attempts /\ tries[q] \in A!Request /\ tries[q].step \in {"due", "holding"}
    BY DEF AttemptsInv, A!TypeOK, A!Reaches, A!Is
  <2>3. /\ counters' \in [A!Scopes -> [count : Nat, expires : BOOLEAN]] /\ A!LockoutEnds'
        /\ \A s \in A!Scopes : s # tries[q].scope => counters'[s] = counters[s]
        /\ tries[q].op = "assertAllowed" => counters' = counters
        /\ tries[q].op = "clear" => counters'[tries[q].scope].count = 0
        /\ tries[q].op = "recordFailure" =>
               counters'[tries[q].scope].count = counters[tries[q].scope].count + 1
    BY <2>1, <2>2, EffectTyped
  <2>4. tries[q].scope \in A!Scopes /\ tries[q].op \in A!Operations
    BY <2>2 DEF A!Request
  <2>5. tries[q].op = "recordFailure" => q \in Owed(tries[q].scope)
    BY <2>2 DEF Owed
  <2>6. \A s \in A!Scopes : counters'[s].count \in Nat /\ counters[s].count \in Nat
    BY <2>3 DEF AttemptsInv, A!TypeOK
  <2>7. ASSUME NEW s \in A!Scopes
        PROVE  \/ Owed(s)' \subseteq Owed(s) /\ counters'[s].count <= counters[s].count
               \/ counters'[s].count < AttemptLimit[s]
               \/ \E p \in Owed(s) : /\ Owed(s)' \subseteq Owed(s) \ {p}
                                     /\ counters'[s].count = counters[s].count + 1
    <3>1. CASE s # tries[q].scope \/ tries[q].op = "assertAllowed"
      BY <1>5, <2>3, <2>6, <3>1
    <3>2. CASE s = tries[q].scope /\ tries[q].op = "recordFailure"
      BY <1>5, <2>3, <2>5, <3>2
    <3>3. CASE s = tries[q].scope /\ tries[q].op = "clear"
      BY <2>3, <3>3, AttemptsFinite
    <3> QED
      BY <2>4, <3>1, <3>2, <3>3 DEF A!Operations
  <2>8. AdmittedBelow'
    BY <2>6, <2>7, OwedBound DEF AdmittedBelow
  <2> QED
    BY <1>2, <1>4, <2>3, <2>8 DEF AttemptsInv, A!TypeOK
<1> QED
  BY <1>1, <1>6, <1>7

LEMMA RecoverKeeps == ASSUME AttemptsInv, A!Recover PROVE AttemptsInv'
<1>1. A!TypeOK' /\ counters' = counters
  BY DEF AttemptsInv, A!TypeOK, A!Recover
<1>2. \A s : Owed(s)' \subseteq Owed(s)
  BY DEF Owed, A!Recover
<1> QED
  BY <1>1, <1>2, NothingCounted

LEMMA ExpireKeeps == ASSUME AttemptsInv, NEW e \in A!Scopes, A!Expire(e) PROVE AttemptsInv'
<1>1. A!TypeOK'
  BY DEF AttemptsInv, A!TypeOK, A!Expire, A!NoKey
<1>2. \A s \in A!Scopes : counters'[s] = IF s = e THEN A!NoKey ELSE counters[s]
  BY DEF AttemptsInv, A!TypeOK, A!Expire
<1>3. \A s : Owed(s)' \subseteq Owed(s)
  BY DEF Owed, A!Expire
<1>4. \A s \in A!Scopes : counters'[s].count \in Nat /\ counters[s].count \in Nat
  BY <1>1 DEF AttemptsInv, A!TypeOK
<1>5. \A s \in A!Scopes : counters'[s].count <= counters[s].count
  BY <1>2, <1>4 DEF A!NoKey
<1>6. AdmittedBelow'
  BY <1>3, <1>4, <1>5, OwedBound DEF AdmittedBelow
<1>7. A!LockoutEnds'
  BY <1>2 DEF AttemptsInv, A!LockoutEnds, A!NoKey
<1> QED
  BY <1>1, <1>6, <1>7 DEF AttemptsInv

LEMMA AttemptsStep == AttemptsInv /\ [A!Next]_(A!vars) => AttemptsInv'
<1> SUFFICES ASSUME AttemptsInv, [A!Next]_(A!vars) PROVE AttemptsInv'
  OBVIOUS
<1>1. CASE UNCHANGED A!vars
  <2>1. A!TypeOK' /\ counters' = counters
    BY <1>1 DEF A!vars, AttemptsInv, A!TypeOK
  <2>2. \A s : Owed(s)' \subseteq Owed(s)
    BY <1>1 DEF A!vars, Owed
  <2> QED
    BY <2>1, <2>2, NothingCounted
<1>2. CASE A!Next
  BY <1>2, AskKeeps, ConnectedClientKeeps, ClientKeeps, OperateKeeps, UnavailableKeeps,
     VerifyKeeps, OutageKeeps, RecoverKeeps, ExpireKeeps DEF A!Next
<1> QED
  BY <1>1, <1>2

(* However many attempts are under way at once, and through outages and lost
   answers, only those admitted below the limit are counted above it, and a
   lockout ends (login-attempt.service.ts). *)
THEOREM FailuresStayNearTheLimit == AccountsSpec => []AttemptsHold
<1>1. AccountsInit => AttemptsInv
  BY AttemptsBegin DEF AccountsInit
<1>2. [AccountsNext]_allVars => [A!Next]_(A!vars)
  BY DEF AccountsNext, allVars, attemptVars, A!vars
<1>3. AttemptsInv => AttemptsHold
  <2> SUFFICES ASSUME AttemptsInv, NEW s \in A!Scopes
               PROVE  counters[s].count < AttemptLimit[s] + A!Cardinality(Attempts)
    BY DEF AttemptsInv, AttemptsHold, A!AttemptsHold, A!AttemptsAreLimited
  <2>1. Owed(s) \in SUBSET Attempts /\ counters[s].count \in Nat
    BY DEF Owed, AttemptsInv, A!TypeOK
  <2>2. counters[s].count + Cardinality(Owed(s)) < AttemptLimit[s] + Cardinality(Attempts)
    BY DEF AttemptsInv, AdmittedBelow
  <2>3. Cardinality(Owed(s)) \in Nat /\ AttemptLimit[s] \in Nat /\ Cardinality(Attempts) \in Nat
    BY <2>1, AttemptsFinite
  <2> QED
    BY <2>1, <2>2, <2>3, AttemptsFinite
<1> QED
  BY <1>1, <1>2, <1>3, AttemptsStep, PTL DEF AccountsSpec

-----------------------------------------------------------------------------
(* Answers *)

RowReads == {"due", "widened", "read"}
AskSteps == {"idle", "searching", "searched", "disclosed", "opened", "said", "recorded", "charged",
             "sent", "ended"}
AskOutcomes == {"none", "results", "unsourced", "failed", "invalid", "unsupported", "answer"}
RowType == [read : RowReads, found : Seq(R!Chunks), level : R!Levels]
ClaimType == [cites : SUBSET (R!Chunks \cup {Invented}), again : BOOLEAN]
AskType ==
    [step : AskSteps, allowed : BOOLEAN, lexical : RowType, semantic : RowType,
     results : SUBSET R!Chunks, outcome : AskOutcomes, claims : Seq(ClaimType), whole : BOOLEAN]

AnswersTyped ==
    /\ archive \in [Documents -> [texts : 1 .. MaxTexts, deleted : BOOLEAN]]
    /\ indexed \subseteq R!Chunks /\ stale \subseteq R!Chunks
    /\ case \in [level : R!Levels, deleted : BOOLEAN]
    /\ levels \subseteq R!Levels
    /\ charged \in BOOLEAN /\ changes \in 0 .. MaxChanges
    /\ log \subseteq {"searched", "disclosed", "failed", "invalid", "refused", "generated"}
    /\ ask \in AskType

(* What was stale when the request began no query finds any more. *)
Gone(c) == case.deleted \/ archive[c[1]].deleted \/ c[2] < archive[c[1]].texts
Replaced == \A c \in stale : Gone(c)

(* What a query found was current then, and its reader might see it. *)
Fresh(rows) ==
    \A c \in R!Found(rows) :
        c \notin stale /\ rows.level \in levels /\ (ask.allowed \/ rows.level = "STANDARD")

Retrieved ==
    /\ ask.step = "idle" => ask = R!NoAsk /\ log = {}
    /\ Fresh(ask.lexical) /\ Fresh(ask.semantic)
    /\ ask.step = "searching" => case.level \in levels /\ ask.results = {}
    /\ ask.results \subseteq R!Candidates

Early == {"idle", "searching", "searched", "disclosed", "opened"}

Disclosed ==
    /\ "disclosed" \in log => "CONFIDENTIAL" \in levels
    /\ /\ ask.step \notin {"idle", "searching", "searched", "ended"}
       /\ levels = {"CONFIDENTIAL"} /\ ask.results # {}
       => "disclosed" \in log

Accounted ==
    /\ ask.step \in Early => ask.outcome = "none"
    /\ ask.step \in Early \cup {"said", "recorded"} => ~charged
    /\ ask.step = "recorded" =>
           /\ ask.outcome \in {"unsupported", "answer"}
           /\ {"generated", "refused"} \cap log # {}
    /\ charged => {"generated", "refused"} \cap log # {}
    /\ charged => ask.outcome \in {"unsupported", "answer"}
    /\ ask.step \in {"charged", "sent"} /\ ask.outcome \in {"unsupported", "answer"} =>
           charged \/ case.deleted

Grounded ==
    /\ ask.outcome = "answer" => ask.whole /\ ask.claims # << >>
    /\ \A i \in 1 .. Len(ask.claims) :
           ask.claims[i].cites # {} /\ ask.claims[i].cites \subseteq ask.results

AnswersInv == AnswersTyped /\ Replaced /\ Retrieved /\ Disclosed /\ Accounted /\ Grounded

-----------------------------------------------------------------------------
LEMMA NothingIsSeq == ASSUME NEW S PROVE << >> \in Seq(S)
OBVIOUS

LEMMA SeqsOfMore == ASSUME NEW S, NEW T, S \subseteq T, NEW list \in Seq(S) PROVE list \in Seq(T)
OBVIOUS

LEMMA DueTyped == R!Due \in RowType /\ R!Unread \in RowType
<1>1. << >> \in Seq(R!Chunks)
  BY NothingIsSeq
<1>2. R!Due \in RowType
  BY <1>1 DEF R!Due, RowType, RowReads, R!Levels
<1> QED
  BY <1>2 DEF R!Unread, RowType, RowReads

LEMMA AnswersBegin == ASSUME R!Init PROVE AnswersInv
<1>1. R!NoAsk \in AskType
  <2>1. << >> \in Seq(ClaimType)
    BY NothingIsSeq
  <2> QED
    BY <2>1, DueTyped DEF R!NoAsk, AskType, AskSteps, AskOutcomes
<1>2. AnswersTyped
  <2>1. 1 \in 1 .. MaxTexts
    BY AnswersAssumed DEF R!AnswersAssumption
  <2>2. archive \in [Documents -> [texts : 1 .. MaxTexts, deleted : BOOLEAN]]
    BY <2>1 DEF R!Init
  <2>3. indexed \subseteq R!Chunks
    BY <2>1 DEF R!Init, R!Chunks
  <2>4. 0 \in 0 .. MaxChanges
    BY AnswersAssumed DEF R!AnswersAssumption
  <2>5. changes \in 0 .. MaxChanges
    BY <2>4 DEF R!Init
  <2> QED
    BY <1>1, <2>2, <2>3, <2>5 DEF R!Init, AnswersTyped, R!Levels
<1>3. R!Found(ask.lexical) = {} /\ R!Found(ask.semantic) = {}
  BY DEF R!Init, R!NoAsk, R!Due, R!Found
<1>4. Retrieved
  BY <1>3 DEF R!Init, R!NoAsk, Retrieved, Fresh, R!Candidates
<1> QED
  BY <1>2, <1>4 DEF R!Init, R!NoAsk, AnswersInv, Replaced, Disclosed, Accounted, Grounded

(* What is found and what is chosen of it, read off the rows. *)
LEMMA FoundTyped ==
    ASSUME NEW rows \in RowType
    PROVE  R!Found(rows) \subseteq R!Chunks
BY DEF RowType, R!Found

LEMMA ListsAreSeqs ==
    ASSUME NEW S, NEW n \in Nat, NEW list \in R!Lists(S, n)
    PROVE  /\ list \in Seq(S)
           /\ \A i \in 1 .. Len(list) : list[i] \in S
<1>1. PICK k \in 0 .. n : list \in [1 .. k -> S]
  <2> DEFINE B(k) == [1 .. k -> S]
  <2>1. list \in UNION {B(k) : k \in 0 .. n}
    BY Zenon DEF R!Lists
  <2>2. PICK T \in {B(k) : k \in 0 .. n} : list \in T
    BY <2>1, Zenon
  <2>3. PICK k \in 0 .. n : T = B(k)
    BY <2>2, Zenon
  <2> QED
    BY <2>2, <2>3, Zenon
<1>2. k \in Nat
  BY <1>1
<1>3. list \in Seq(S) /\ Len(list) = k
  BY <1>1, <1>2
<1> QED
  BY <1>1, <1>3

LEMMA ChunksFinite ==
    ASSUME NEW scope \in SUBSET R!Chunks
    PROVE  R!Cardinality(scope) \in Nat
<1>0. IsFiniteSet(Documents) <=> R!IsFiniteSet(Documents)
  BY DEF IsFiniteSet, R!IsFiniteSet
<1>1. IsFiniteSet(1 .. MaxTexts) /\ IsFiniteSet(Documents)
  BY <1>0, FS_Interval, AnswersAssumed DEF R!AnswersAssumption
<1>2. IsFiniteSet(R!Chunks)
  BY <1>1, FS_Product DEF R!Chunks
<1>3. Cardinality(scope) = R!Cardinality(scope)
  BY DEF Cardinality, R!Cardinality
<1> QED
  BY <1>2, <1>3, FS_Subset, FS_CardinalityType

(* What happens to the archive disturbs neither what was found nor what is
   known of the case. *)
ArchiveNext ==
    \/ \E d \in Documents : R!ReadAgain(d) \/ R!Index(d) \/ R!DeleteDocument(d)
    \/ R!ChangeLevel
    \/ R!DeleteCase

(* The chunks a change makes stale are gone after it, and none comes back. *)
LEMMA StaleIsGone ==
    ASSUME AnswersTyped, Replaced, ArchiveNext
    PROVE  AnswersTyped' /\ Replaced'
<1> USE DEF AnswersTyped
<1>0. changes' \in 0 .. MaxChanges /\ UNCHANGED log
  <2>1. MaxChanges \in Nat
    BY AnswersAssumed DEF R!AnswersAssumption
  <2>2. changes < MaxChanges /\ changes' = changes + 1 /\ UNCHANGED log
    BY DEF ArchiveNext, R!ReadAgain, R!Index, R!DeleteDocument, R!ChangeLevel, R!DeleteCase, R!Changes
  <2> QED
    BY <2>1, <2>2
<1>1. CASE \E d \in Documents : R!ReadAgain(d)
  <2>1. PICK d \in Documents : R!ReadAgain(d)
    BY <1>1
  <2>2. archive[d].texts \in 1 .. MaxTexts /\ archive[d].texts < MaxTexts /\ MaxTexts \in Nat
    BY <2>1, AnswersAssumed DEF R!ReadAgain, R!AnswersAssumption
  <2>3. {d} \X (1 .. archive[d].texts) \subseteq R!Chunks
    BY <2>2 DEF R!Chunks
  <2>4. archive' = [archive EXCEPT ![d].texts = @ + 1] /\ UNCHANGED <<indexed, case, ask, charged>>
    BY <2>1 DEF R!ReadAgain, R!Changes
  <2>5. stale' \subseteq stale \cup ({d} \X (1 .. archive[d].texts))
    BY <2>1 DEF R!ReadAgain, R!Changes
  <2>6. levels' \subseteq R!Levels
    BY <2>1, <2>4 DEF R!ReadAgain, R!Changes
  <2>7. AnswersTyped'
    BY <1>0, <2>2, <2>3, <2>4, <2>5, <2>6
  <2>8. \A c \in stale' : Gone(c)'
    <3> SUFFICES ASSUME NEW c \in stale' PROVE Gone(c)'
      OBVIOUS
    <3>1. c \in R!Chunks /\ c[1] \in Documents /\ c[2] \in Nat
      BY <2>7 DEF R!Chunks
    <3>2. CASE c \in stale
      BY <3>1, <3>2, <2>2, <2>4 DEF Replaced, Gone
    <3>3. CASE c \in {d} \X (1 .. archive[d].texts)
      BY <3>1, <3>3, <2>2, <2>4 DEF Gone
    <3> QED
      BY <2>5, <3>2, <3>3
  <2> QED
    BY <2>7, <2>8 DEF Replaced
<1>2. CASE \E d \in Documents : R!Index(d)
  <2>1. PICK d \in Documents : R!Index(d)
    BY <1>2
  <2>2. /\ stale' = stale /\ levels' \subseteq R!Levels
        /\ UNCHANGED <<archive, case, ask, charged>>
    BY <2>1 DEF R!Index, R!Changes
  <2>3. PICK text \in 1 .. archive[d].texts : indexed' = indexed \cup {<<d, text>>}
    BY <2>1 DEF R!Index
  <2>4. text \in 1 .. MaxTexts
    BY <2>3, AnswersAssumed DEF R!AnswersAssumption
  <2>5. indexed' \subseteq R!Chunks
    BY <2>3, <2>4 DEF R!Chunks
  <2> QED
    BY <1>0, <2>2, <2>5 DEF Replaced, Gone
<1>3. CASE \E d \in Documents : R!DeleteDocument(d)
  <2>1. PICK d \in Documents : R!DeleteDocument(d)
    BY <1>3
  <2>2. /\ archive' = [archive EXCEPT ![d].deleted = TRUE]
        /\ UNCHANGED <<indexed, case, ask, charged>>
        /\ stale' \subseteq stale \cup R!ChunksOf(d) /\ levels' \subseteq R!Levels
    BY <2>1 DEF R!DeleteDocument, R!Changes
  <2>3. R!ChunksOf(d) \subseteq R!Chunks
    BY DEF R!ChunksOf, R!Chunks
  <2>4. AnswersTyped'
    BY <1>0, <2>2, <2>3
  <2>5. \A c \in stale' : Gone(c)'
    <3> SUFFICES ASSUME NEW c \in stale' PROVE Gone(c)'
      OBVIOUS
    <3>1. c \in R!Chunks /\ c[1] \in Documents
      BY <2>4 DEF R!Chunks
    <3>2. CASE c \in stale
      BY <3>1, <3>2, <2>2 DEF Replaced, Gone
    <3>3. CASE c \in R!ChunksOf(d)
      BY <3>1, <3>3, <2>2 DEF Gone, R!ChunksOf
    <3> QED
      BY <2>2, <3>2, <3>3
  <2> QED
    BY <2>4, <2>5 DEF Replaced
<1>4. CASE R!ChangeLevel
  <2>1. /\ stale' = stale /\ levels' \subseteq R!Levels
        /\ UNCHANGED <<archive, indexed, ask, charged>>
        /\ case' \in [level : R!Levels, deleted : BOOLEAN] /\ case'.deleted = case.deleted
    BY <1>4 DEF R!ChangeLevel, R!Changes
  <2> QED
    BY <1>0, <2>1 DEF Replaced, Gone
<1>5. CASE R!DeleteCase
  <2>1. /\ stale' \subseteq R!Chunks /\ levels' \subseteq R!Levels
        /\ UNCHANGED <<archive, indexed, ask, charged>>
        /\ case' \in [level : R!Levels, deleted : BOOLEAN] /\ case'.deleted
    BY <1>5 DEF R!DeleteCase, R!Changes
  <2> QED
    BY <1>0, <2>1 DEF Replaced, Gone
<1> QED
  BY <1>1, <1>2, <1>3, <1>4, <1>5 DEF ArchiveNext

LEMMA ArchiveKeeps ==
    ASSUME AnswersInv, ArchiveNext
    PROVE  AnswersInv'
<1>1. AnswersTyped' /\ Replaced'
  BY StaleIsGone DEF AnswersInv
<1>2. UNCHANGED <<ask, log, charged>>
  BY DEF ArchiveNext, R!ReadAgain, R!Index, R!DeleteDocument, R!ChangeLevel, R!DeleteCase, R!Changes
<1>3. case.deleted => case'.deleted
  BY DEF AnswersInv, AnswersTyped, ArchiveNext, R!ReadAgain, R!Index, R!DeleteDocument, R!ChangeLevel, R!DeleteCase
<1>4. /\ stale' = IF ask.step = "idle" THEN stale' ELSE stale
      /\ levels' = IF ask.step = "searching" THEN levels \cup {case'.level} ELSE levels
  BY DEF ArchiveNext, R!ReadAgain, R!Index, R!DeleteDocument, R!ChangeLevel, R!DeleteCase, R!Changes
<1>5. Retrieved'
  <2>1. CASE ask.step = "idle"
    <3>1. R!Found(ask.lexical) = {} /\ R!Found(ask.semantic) = {}
      BY <2>1 DEF AnswersInv, Retrieved, R!NoAsk, R!Due, R!Found
    <3> QED
      BY <1>2, <2>1, <3>1 DEF AnswersInv, Retrieved, Fresh, R!Candidates, R!Found
  <2>2. CASE ask.step # "idle"
    <3>1. stale' = stale /\ levels \subseteq levels' /\ (ask.step = "searching" => case'.level \in levels')
      BY <1>4, <2>2
    <3> QED
      BY <1>2, <2>2, <3>1 DEF AnswersInv, Retrieved, Fresh, R!Candidates, R!Found
  <2> QED
    BY <2>1, <2>2
<1>6. Disclosed'
  BY <1>2, <1>4 DEF AnswersInv, Disclosed
<1>7. Accounted' /\ Grounded'
  BY <1>2, <1>3 DEF AnswersInv, Accounted, Grounded
<1> QED
  BY <1>1, <1>5, <1>6, <1>7 DEF AnswersInv

-----------------------------------------------------------------------------
(* A query returns chunks that are current and that its reader may see. *)
LEMMA MatchesAreCurrent ==
    ASSUME AnswersTyped, Replaced, NEW found \in R!Matches
    PROVE  /\ found \in Seq(R!Chunks)
           /\ \A i \in 1 .. Len(found) :
                  found[i] \notin stale /\ (ask.allowed \/ case.level = "STANDARD")
<1> DEFINE Scope == {c \in indexed : R!InScope(c)}
<1>1. Scope \subseteq R!Chunks
  BY DEF AnswersTyped
<1>2. found \in R!Lists(Scope, R!Cardinality(Scope))
  BY DEF R!Matches
<1>3. found \in Seq(Scope) /\ \A i \in 1 .. Len(found) : found[i] \in Scope
  BY <1>1, <1>2, ChunksFinite, ListsAreSeqs
<1>4. \A c \in Scope : c \notin stale /\ (ask.allowed \/ case.level = "STANDARD")
  <2> SUFFICES ASSUME NEW c \in Scope PROVE c \notin stale /\ (ask.allowed \/ case.level = "STANDARD")
    OBVIOUS
  <2>1. ~Gone(c)
    <3>1. c \in R!Chunks /\ c[1] \in Documents
      BY <1>1 DEF R!Chunks
    <3>2. archive[c[1]].texts \in Nat
      BY <3>1 DEF AnswersTyped
    <3> QED
      BY <3>2 DEF R!InScope, Gone
  <2> QED
    BY <2>1 DEF R!InScope, Replaced
<1> QED
  BY <1>1, <1>3, <1>4

(* A step of the request leaves the archive, so it keeps Replaced, and what is
   found stays fresh unless the step is a query. *)
LEMMA RowsKeep ==
    ASSUME AnswersInv, ask'.lexical = ask.lexical, ask'.semantic = ask.semantic,
           ask'.allowed = ask.allowed, ask'.results = ask.results,
           UNCHANGED R!archiveVars, ask'.step \notin {"idle", "searching"}
    PROVE  Replaced' /\ Retrieved'
BY DEF AnswersInv, Replaced, Gone, Retrieved, Fresh, R!Found, R!Candidates, R!archiveVars

LEMMA BeginKeeps ==
    ASSUME AnswersInv, NEW mode \in R!Modes, NEW allowed \in BOOLEAN, R!Begin(mode, allowed)
    PROVE  AnswersInv'
<1>1. /\ ask'.step = "searching" /\ ask'.results = {} /\ ask'.outcome = "none"
      /\ ask'.claims = << >>
      /\ ask'.lexical \in {R!Due, R!Unread} /\ ask'.semantic \in {R!Due, R!Unread}
  BY DEF R!Begin, R!NoAsk
<1>2. AnswersTyped'
  <2>1. R!NoAsk \in AskType
    BY DEF AnswersInv, AnswersTyped, Retrieved, R!Begin
  <2>2. ask' \in AskType
    BY <2>1, DueTyped DEF R!Begin, AskType, AskSteps
  <2> QED
    BY <2>2 DEF AnswersInv, AnswersTyped, R!Begin
<1>3. R!Found(R!Due) = {} /\ R!Found(R!Unread) = {}
  BY DEF R!Found, R!Due, R!Unread
<1>4. R!Found(ask'.lexical) = {} /\ R!Found(ask'.semantic) = {}
  BY <1>1, <1>3
<1>5. Retrieved'
  BY <1>1, <1>4 DEF Retrieved, Fresh, R!Candidates, R!Found, R!Begin
<1>6. log' = {} /\ ~charged'
  BY DEF AnswersInv, Retrieved, Accounted, Early, R!Begin
<1> QED
  BY <1>1, <1>2, <1>5, <1>6
  DEF AnswersInv, Replaced, Gone, Disclosed, Accounted, Grounded, R!Begin, Early

LEMMA QueryKeeps ==
    ASSUME AnswersInv, R!Lexical \/ R!Semantic
    PROVE  AnswersInv'
<1>1. PICK found \in R!Matches, read \in RowReads :
          /\ \/ ask' = [ask EXCEPT !.lexical = [read |-> read, found |-> found, level |-> case.level]]
             \/ ask' = [ask EXCEPT !.semantic = [read |-> read, found |-> found, level |-> case.level]]
          /\ UNCHANGED <<R!archiveVars, log, charged>>
  BY DEF R!Lexical, R!Semantic, R!Becomes, RowReads
<1> DEFINE Row == [read |-> read, found |-> found, level |-> case.level]
<1>2. /\ found \in Seq(R!Chunks)
      /\ \A i \in 1 .. Len(found) : found[i] \notin stale /\ (ask.allowed \/ case.level = "STANDARD")
  BY MatchesAreCurrent DEF AnswersInv
<1>3. ask.step = "searching" /\ ask \in AskType
  BY DEF R!Lexical, R!Semantic, AnswersInv, AnswersTyped
<1>4. Row \in RowType
  BY <1>2 DEF RowType, AnswersInv, AnswersTyped
<1>5. ask' \in AskType
  BY <1>1, <1>3, <1>4 DEF AskType
<1>6. /\ ask'.step = "searching" /\ ask'.allowed = ask.allowed /\ ask'.results = ask.results
      /\ ask'.outcome = ask.outcome /\ ask'.claims = ask.claims /\ ask'.whole = ask.whole
      /\ \/ ask'.lexical = Row /\ ask'.semantic = ask.semantic
         \/ ask'.lexical = ask.lexical /\ ask'.semantic = Row
  BY <1>1, <1>3 DEF AskType
<1>7. ask.results = {} /\ case.level \in levels
  BY <1>3 DEF AnswersInv, Retrieved
<1>8. \A c \in R!Found(Row) : c \notin stale /\ Row.level \in levels
                          /\ (ask.allowed \/ Row.level = "STANDARD")
  BY <1>2, <1>7 DEF R!Found
<1>9. UNCHANGED <<archive, indexed, case, stale, levels, changes, log, charged>>
  BY <1>1 DEF R!archiveVars
<1>10. Retrieved'
  <2> HIDE DEF Row
  <2>1. ask'.lexical \in {Row, ask.lexical} /\ ask'.semantic \in {Row, ask.semantic}
    BY <1>6
  <2>2. \A rows \in {Row, ask.lexical, ask.semantic} : \A c \in R!Found(rows) :
            c \notin stale /\ rows.level \in levels /\ (ask.allowed \/ rows.level = "STANDARD")
    BY <1>8 DEF AnswersInv, Retrieved, Fresh
  <2>3. Fresh(ask.lexical)' /\ Fresh(ask.semantic)'
    BY <1>6, <1>9, <2>1, <2>2 DEF Fresh, R!Found
  <2> QED
    BY <1>6, <1>7, <1>9, <2>3 DEF Retrieved
<1>11. AnswersTyped' /\ Replaced'
  BY <1>5, <1>9 DEF AnswersInv, AnswersTyped, Replaced, Gone
<1>12. Disclosed' /\ Accounted' /\ Grounded'
  BY <1>3, <1>6, <1>9 DEF AnswersInv, Disclosed, Accounted, Grounded, Early
<1> QED
  BY <1>10, <1>11, <1>12 DEF AnswersInv

(* The ranking chooses among what was found. *)
LEMMA RecordSearchKeeps ==
    ASSUME AnswersInv, R!RecordSearch
    PROVE  AnswersInv'
<1>1. ask \in AskType /\ ask.step = "searching"
  BY DEF AnswersInv, AnswersTyped, R!RecordSearch
<1>2. R!Ranked \subseteq R!Candidates /\ R!Candidates \subseteq R!Chunks
  BY <1>1, FoundTyped DEF R!Ranked, R!Candidates, AskType
<1>3. ask' \in AskType
  BY <1>1, <1>2 DEF R!RecordSearch, R!Becomes, AskType, AskSteps
<1>4. /\ ask'.step = "searched" /\ ask'.results = R!Ranked
      /\ ask'.lexical = ask.lexical /\ ask'.semantic = ask.semantic
      /\ ask'.allowed = ask.allowed /\ ask'.outcome = ask.outcome
      /\ ask'.claims = ask.claims /\ ask'.whole = ask.whole
  BY <1>1 DEF R!RecordSearch, R!Becomes, AskType
<1>5. UNCHANGED <<archive, indexed, case, stale, levels, changes, charged>> /\ log' = log \cup {"searched"}
  BY DEF R!RecordSearch, R!Becomes, R!archiveVars
<1>6. AnswersTyped' /\ Replaced'
  BY <1>3, <1>5 DEF AnswersInv, AnswersTyped, Replaced, Gone
<1>7. Retrieved'
  BY <1>2, <1>4, <1>5 DEF AnswersInv, Retrieved, Fresh, R!Found, R!Candidates
<1>8. Disclosed' /\ Accounted' /\ Grounded'
  BY <1>1, <1>4, <1>5 DEF AnswersInv, Retrieved, Disclosed, Accounted, Grounded, Early
<1> QED
  BY <1>6, <1>7, <1>8 DEF AnswersInv

(* Of a case that was confidential all along, whatever is shown is confidential
   and is recorded; of one that never was, nothing is. *)
LEMMA RecordDisclosureKeeps ==
    ASSUME AnswersInv, R!RecordDisclosure
    PROVE  AnswersInv'
<1>1. ask \in AskType /\ ask.step = "searched"
  BY DEF AnswersInv, AnswersTyped, R!RecordDisclosure
<1>2. ask' = [ask EXCEPT !.step = "disclosed"] /\ UNCHANGED R!archiveVars /\ UNCHANGED charged
      /\ log' \subseteq log \cup {"disclosed"}
  BY DEF R!RecordDisclosure, R!Becomes
<1>3. ask' \in AskType
  BY <1>1, <1>2 DEF AskType, AskSteps
<1>4. /\ ask'.step = "disclosed" /\ ask'.results = ask.results
      /\ ask'.lexical = ask.lexical /\ ask'.semantic = ask.semantic
      /\ ask'.allowed = ask.allowed /\ ask'.outcome = ask.outcome
      /\ ask'.claims = ask.claims /\ ask'.whole = ask.whole
  BY <1>1, <1>2 DEF AskType
<1>5. \A c \in ask.results : R!LevelOf(c) \in levels
  BY DEF AnswersInv, Retrieved, Fresh, R!Candidates, R!LevelOf
<1>6. UNCHANGED <<archive, indexed, case, stale, levels, changes, charged>>
  BY <1>2 DEF R!archiveVars
<1>7. Disclosed'
  <2>1. ASSUME levels = {"CONFIDENTIAL"}, ask.results # {} PROVE "disclosed" \in log'
    BY <1>5, <2>1 DEF R!Confidential, R!RecordDisclosure
  <2>2. ASSUME "disclosed" \in log' PROVE "CONFIDENTIAL" \in levels
    BY <1>5, <2>2 DEF R!Confidential, R!RecordDisclosure, AnswersInv, Disclosed, AnswersTyped, R!Levels
  <2> QED
    BY <1>4, <1>6, <2>1, <2>2 DEF Disclosed
<1>8. AnswersTyped' /\ Replaced' /\ Retrieved'
  BY <1>2, <1>3, <1>4, <1>6, RowsKeep DEF AnswersInv, AnswersTyped
<1>9. Accounted' /\ Grounded'
  BY <1>1, <1>4, <1>6 DEF AnswersInv, Accounted, Grounded, Early
<1> QED
  BY <1>7, <1>8, <1>9 DEF AnswersInv

-----------------------------------------------------------------------------
(* A step of the request that changes only how far it is, and the log, once
   its results are disclosed. *)
LEMMA StepKeeps ==
    ASSUME AnswersInv, NEW step \in {"opened", "recorded", "charged", "sent", "ended"},
           NEW outcome \in AskOutcomes,
           ask' = [ask EXCEPT !.step = step, !.outcome = outcome],
           outcome = "answer" => ask.outcome = "answer",
           log \subseteq log',
           log' \subseteq log \cup {"failed", "invalid", "refused", "generated"},
           ask.step # "ended",
           ask.step \in {"idle", "searching", "searched"} => step = "ended",
           UNCHANGED R!archiveVars, charged' \in BOOLEAN
    PROVE  /\ AnswersTyped' /\ Replaced' /\ Retrieved' /\ Disclosed' /\ Grounded'
           /\ ask'.step = step /\ ask'.outcome = outcome
           /\ UNCHANGED case
<1>1. ask \in AskType
  BY DEF AnswersInv, AnswersTyped
<1>2. ask' \in AskType
  BY <1>1 DEF AskType, AskSteps
<1>3. /\ ask'.step = step /\ ask'.outcome = outcome
      /\ ask'.lexical = ask.lexical /\ ask'.semantic = ask.semantic
      /\ ask'.allowed = ask.allowed /\ ask'.results = ask.results
      /\ ask'.claims = ask.claims /\ ask'.whole = ask.whole
  BY <1>1 DEF AskType
<1>4. UNCHANGED <<archive, indexed, case, stale, levels, changes>>
  BY DEF R!archiveVars
<1>5. AnswersTyped' /\ Replaced' /\ Retrieved'
  BY <1>2, <1>3, <1>4, RowsKeep DEF AnswersInv, AnswersTyped
<1>6. Disclosed'
  BY <1>3, <1>4 DEF AnswersInv, Disclosed
<1>7. Grounded'
  BY <1>3 DEF AnswersInv, Grounded
<1> QED
  BY <1>3, <1>4, <1>5, <1>6, <1>7

LEMMA SendResultsKeeps == ASSUME AnswersInv, R!SendResults PROVE AnswersInv'
<1>1. ask' = [ask EXCEPT !.step = "sent", !.outcome = "results"] /\ UNCHANGED <<R!archiveVars, log, charged>>
  BY DEF R!SendResults, R!Becomes
<1>2. ask.step = "disclosed" /\ charged \in BOOLEAN
  BY DEF R!SendResults, AnswersInv, AnswersTyped
<1>3. /\ AnswersTyped' /\ Replaced' /\ Retrieved' /\ Disclosed' /\ Grounded'
      /\ ask'.step = "sent" /\ ask'.outcome = "results"
  BY <1>1, <1>2, StepKeeps DEF AskOutcomes
<1> QED
  BY <1>1, <1>2, <1>3 DEF AnswersInv, Accounted, Early

LEMMA RefuseUnsourcedKeeps == ASSUME AnswersInv, R!RefuseUnsourced PROVE AnswersInv'
<1>1. /\ ask' = [ask EXCEPT !.step = "charged", !.outcome = "unsourced"]
      /\ UNCHANGED <<R!archiveVars, charged>> /\ log' = log \cup {"refused"}
  BY DEF R!RefuseUnsourced, R!Becomes
<1>2. ask.step = "disclosed" /\ charged \in BOOLEAN
  BY DEF R!RefuseUnsourced, AnswersInv, AnswersTyped
<1>3. /\ AnswersTyped' /\ Replaced' /\ Retrieved' /\ Disclosed' /\ Grounded'
      /\ ask'.step = "charged" /\ ask'.outcome = "unsourced"
  BY <1>1, <1>2, StepKeeps DEF AskOutcomes
<1> QED
  BY <1>1, <1>2, <1>3 DEF AnswersInv, Accounted, Early

(* The steps that leave the outcome as it is. *)
LEMMA SameOutcome ==
    ASSUME AnswersInv, NEW step \in {"opened", "recorded", "charged", "sent", "ended"},
           ask' = [ask EXCEPT !.step = step],
           log \subseteq log',
           log' \subseteq log \cup {"failed", "invalid", "refused", "generated"},
           ask.step # "ended",
           ask.step \in {"idle", "searching", "searched"} => step = "ended",
           UNCHANGED R!archiveVars, charged' \in BOOLEAN
    PROVE  /\ AnswersTyped' /\ Replaced' /\ Retrieved' /\ Disclosed' /\ Grounded'
           /\ ask'.step = step /\ ask'.outcome = ask.outcome
           /\ UNCHANGED case
<1>1. ask \in AskType
  BY DEF AnswersInv, AnswersTyped
<1>2. ask.outcome \in AskOutcomes /\ ask' = [ask EXCEPT !.step = step, !.outcome = ask.outcome]
  BY <1>1 DEF AskType
<1> QED
  BY <1>2, StepKeeps

LEMMA OpenCaseKeeps == ASSUME AnswersInv, R!OpenCase PROVE AnswersInv'
<1>1. PICK step \in {"opened", "ended"} :
          ask' = [ask EXCEPT !.step = step] /\ UNCHANGED <<R!archiveVars, log, charged>>
  BY DEF R!OpenCase, R!Becomes
<1>2. ask.step = "disclosed" /\ charged \in BOOLEAN
  BY DEF R!OpenCase, AnswersInv, AnswersTyped
<1>3. /\ AnswersTyped' /\ Replaced' /\ Retrieved' /\ Disclosed' /\ Grounded'
      /\ ask'.step = step /\ ask'.outcome = ask.outcome
  BY <1>1, <1>2, SameOutcome
<1> QED
  BY <1>1, <1>2, <1>3 DEF AnswersInv, Accounted, Early

LEMMA RecordFailureKeeps == ASSUME AnswersInv, R!RecordFailure PROVE AnswersInv'
<1>1. /\ ask' = [ask EXCEPT !.step = "ended"] /\ log' = log \cup {ask.outcome}
      /\ UNCHANGED <<R!archiveVars, charged>>
  BY DEF R!RecordFailure, R!Becomes
<1>2. ask.step = "said" /\ ask.outcome \in {"failed", "invalid"} /\ charged \in BOOLEAN
  BY DEF R!RecordFailure, AnswersInv, AnswersTyped
<1>3. /\ AnswersTyped' /\ Replaced' /\ Retrieved' /\ Disclosed' /\ Grounded'
      /\ ask'.step = "ended" /\ ask'.outcome = ask.outcome
  BY <1>1, <1>2, SameOutcome
<1> QED
  BY <1>1, <1>2, <1>3 DEF AnswersInv, Accounted, Early

LEMMA RecordAnswerKeeps == ASSUME AnswersInv, R!RecordAnswer PROVE AnswersInv'
<1>1. /\ ask' = [ask EXCEPT !.step = "recorded"] /\ UNCHANGED <<R!archiveVars, charged>>
      /\ \/ log' = log \cup {"generated"}
         \/ log' = log \cup {"refused"}
  BY DEF R!RecordAnswer, R!Becomes
<1>2. ask.step = "said" /\ ask.outcome \in {"unsupported", "answer"} /\ charged \in BOOLEAN
  BY DEF R!RecordAnswer, AnswersInv, AnswersTyped
<1>3. /\ AnswersTyped' /\ Replaced' /\ Retrieved' /\ Disclosed' /\ Grounded'
      /\ ask'.step = "recorded" /\ ask'.outcome = ask.outcome
  BY <1>1, <1>2, SameOutcome
<1> QED
  BY <1>1, <1>2, <1>3 DEF AnswersInv, Accounted, Early

LEMMA ChargeKeeps == ASSUME AnswersInv, R!Charge PROVE AnswersInv'
<1>1. /\ ask' = [ask EXCEPT !.step = "charged"] /\ UNCHANGED <<R!archiveVars, log>>
      /\ charged' = ~case.deleted
  BY DEF R!Charge, R!Becomes
<1>2. ask.step = "recorded" /\ case.deleted \in BOOLEAN
  BY DEF R!Charge, AnswersInv, AnswersTyped
<1>3. /\ AnswersTyped' /\ Replaced' /\ Retrieved' /\ Disclosed' /\ Grounded'
      /\ ask'.step = "charged" /\ ask'.outcome = ask.outcome /\ UNCHANGED case
  BY <1>1, <1>2, SameOutcome
<1> QED
  BY <1>1, <1>2, <1>3 DEF AnswersInv, Accounted, Early

LEMMA SendAnswerKeeps == ASSUME AnswersInv, R!SendAnswer PROVE AnswersInv'
<1>1. ask' = [ask EXCEPT !.step = "sent"] /\ UNCHANGED <<R!archiveVars, log, charged>>
  BY DEF R!SendAnswer, R!Becomes
<1>2. ask.step = "charged" /\ charged \in BOOLEAN
  BY DEF R!SendAnswer, AnswersInv, AnswersTyped
<1>3. /\ AnswersTyped' /\ Replaced' /\ Retrieved' /\ Disclosed' /\ Grounded'
      /\ ask'.step = "sent" /\ ask'.outcome = ask.outcome /\ UNCHANGED case
  BY <1>1, <1>2, SameOutcome
<1> QED
  BY <1>1, <1>2, <1>3 DEF AnswersInv, Accounted, Early

LEMMA AbortKeeps == ASSUME AnswersInv, R!Abort PROVE AnswersInv'
<1>1. ask' = [ask EXCEPT !.step = "ended"] /\ UNCHANGED <<R!archiveVars, log, charged>>
  BY DEF R!Abort, R!Becomes
<1>2. ask.step # "ended" /\ charged \in BOOLEAN
  BY DEF R!Abort, AnswersInv, AnswersTyped
<1>3. /\ AnswersTyped' /\ Replaced' /\ Retrieved' /\ Disclosed' /\ Grounded'
      /\ ask'.step = "ended" /\ ask'.outcome = ask.outcome
  BY <1>1, <1>2, SameOutcome
<1> QED
  BY <1>1, <1>2, <1>3 DEF AnswersInv, Accounted, Early

(* Of what the model says, only what ends whole and cites what was retrieved
   becomes an answer. *)
LEMMA GenerateKeeps ==
    ASSUME AnswersInv, R!Generate
    PROVE  AnswersInv'
<1>1. PICK reply \in R!Replies :
          /\ ask' = [ask EXCEPT
                         !.step = "said", !.outcome = R!Verdict(reply),
                         !.claims = IF R!Verdict(reply) = "answer" THEN reply.claims ELSE << >>,
                         !.whole = (R!Verdict(reply) = "answer" /\ reply.stop # "max_tokens")]
          /\ UNCHANGED <<R!archiveVars, log, charged>>
  BY DEF R!Generate, R!Becomes
<1>2. ask \in AskType /\ ask.step = "opened" /\ ask.outcome = "none"
  BY DEF AnswersInv, AnswersTyped, R!Generate, Accounted, Early
<1>3. R!Verdict(reply) \in {"failed", "invalid", "unsupported", "answer"}
  BY DEF R!Verdict
<1>4. reply.claims \in Seq(ClaimType)
  <2> DEFINE Citing == [cites : SUBSET (ask.results \cup {Invented}), again : BOOLEAN]
  <2> DEFINE Said == R!Lists(Citing, MaxClaims + 1)
  <2>1. \/ reply.claims = << >>
        \/ reply.claims \in Said
    <3>1. \/ reply = [stop |-> "end_turn", json |-> FALSE, claims |-> << >>]
          \/ reply = [stop |-> "refusal", json |-> FALSE, claims |-> << >>]
          \/ reply \in [stop : {"end_turn", "max_tokens"}, json : {TRUE}, claims : Said]
      BY Zenon DEF R!Replies
    <3> HIDE DEF Said
    <3>2. ASSUME NEW said, said = << >>,
                 reply = [stop |-> "end_turn", json |-> FALSE, claims |-> said]
          PROVE  reply.claims = << >>
      BY <3>2
    <3>3. ASSUME NEW said, said = << >>,
                 reply = [stop |-> "refusal", json |-> FALSE, claims |-> said]
          PROVE  reply.claims = << >>
      BY <3>3
    <3>4. ASSUME reply \in [stop : {"end_turn", "max_tokens"}, json : {TRUE}, claims : Said]
          PROVE  reply.claims \in Said
      BY <3>4
    <3> QED
      BY <3>1, <3>2, <3>3, <3>4, Zenon
  <2>2. MaxClaims + 1 \in Nat
    BY AnswersAssumed DEF R!AnswersAssumption
  <2>3. Citing \subseteq ClaimType
    BY <1>2 DEF AskType, ClaimType
  <2>4. reply.claims \in Seq(Citing)
    BY <2>1, <2>2, ListsAreSeqs, NothingIsSeq
  <2> HIDE DEF Citing
  <2> QED
    BY <2>3, <2>4, SeqsOfMore
<1>5. R!Verdict(reply) = "answer" =>
          /\ reply.stop # "max_tokens" /\ reply.claims # << >>
          /\ \A i \in 1 .. Len(reply.claims) :
                 reply.claims[i].cites # {} /\ reply.claims[i].cites \subseteq ask.results
  BY DEF R!Verdict, R!Generated, R!Parsed, R!Anchored
<1>6. ask' \in AskType
  BY <1>1, <1>2, <1>3, <1>4, NothingIsSeq DEF AskType, AskSteps, AskOutcomes
<1>7. /\ ask'.step = "said" /\ ask'.outcome = R!Verdict(reply)
      /\ ask'.lexical = ask.lexical /\ ask'.semantic = ask.semantic
      /\ ask'.allowed = ask.allowed /\ ask'.results = ask.results
      /\ ask'.outcome = "answer" => ask'.claims = reply.claims /\ ask'.whole
      /\ ask'.outcome # "answer" => ask'.claims = << >>
  BY <1>1, <1>2, <1>5 DEF AskType
<1>8. UNCHANGED <<archive, indexed, case, stale, levels, changes, log, charged>> /\ UNCHANGED R!archiveVars
  BY <1>1 DEF R!archiveVars
<1>9. AnswersTyped' /\ Replaced' /\ Retrieved'
  BY <1>6, <1>7, <1>8, RowsKeep DEF AnswersInv, AnswersTyped
<1>10. Disclosed'
  BY <1>2, <1>7, <1>8 DEF AnswersInv, Disclosed
<1>11. Accounted'
  BY <1>2, <1>3, <1>7, <1>8 DEF AnswersInv, Accounted, Early
<1>12. Grounded'
  BY <1>5, <1>7 DEF Grounded
<1> QED
  BY <1>9, <1>10, <1>11, <1>12 DEF AnswersInv

-----------------------------------------------------------------------------
LEMMA AnswersStep ==
    ASSUME AnswersInv, [R!Next]_(R!vars)
    PROVE  AnswersInv'
<1>1. CASE ArchiveNext
  BY <1>1, ArchiveKeeps
<1>2. CASE \E mode \in R!Modes, allowed \in BOOLEAN : R!Begin(mode, allowed)
  BY <1>2, BeginKeeps
<1>3. CASE R!Lexical \/ R!Semantic
  BY <1>3, QueryKeeps
<1>4. CASE R!RecordSearch \/ R!RecordDisclosure \/ R!SendResults
  BY <1>4, RecordSearchKeeps, RecordDisclosureKeeps, SendResultsKeeps
<1>5. CASE R!RefuseUnsourced \/ R!OpenCase \/ R!Generate \/ R!RecordFailure
  BY <1>5, RefuseUnsourcedKeeps, OpenCaseKeeps, GenerateKeeps, RecordFailureKeeps
<1>6. CASE R!RecordAnswer \/ R!Charge \/ R!SendAnswer \/ R!Abort
  BY <1>6, RecordAnswerKeeps, ChargeKeeps, SendAnswerKeeps, AbortKeeps
<1>7. CASE UNCHANGED R!vars
  BY <1>7 DEF R!vars, AnswersInv, AnswersTyped, Replaced, Gone, Retrieved, Fresh, R!Found, R!Candidates, Disclosed,
              Accounted, Grounded
<1> QED
  BY <1>1, <1>2, <1>3, <1>4, <1>5, <1>6, <1>7 DEF R!Next, ArchiveNext

LEMMA AnswersHold == AccountsSpec => []AnswersInv
<1>1. AccountsInit => AnswersInv
  BY AnswersBegin DEF AccountsInit
<1>2. [AccountsNext]_allVars => [R!Next]_(R!vars)
  BY DEF AccountsNext, allVars, answerVars, R!vars
<1>3. AnswersInv /\ [R!Next]_(R!vars) => AnswersInv'
  BY AnswersStep
<1> QED
  BY <1>1, <1>2, <1>3, PTL DEF AccountsSpec

(* What is sent rests on texts that were current when the request began, shows
   a confidential case only to who may see it and with a record of it, and an
   answer is whole, cites what was retrieved and is charged, whatever happens
   to the archive meanwhile (search.service.ts, assistant.service.ts). *)
THEOREM OnlyGroundedAnswersAreSent == AccountsSpec => []AnswersAreGrounded
<1>1. AnswersInv => AnswersAreGrounded
  <2> SUFFICES ASSUME AnswersInv PROVE AnswersAreGrounded
    OBVIOUS
  <2>1. R!NothingStaleIsSent
    BY DEF AnswersInv, Retrieved, Fresh, R!Candidates, Grounded, R!NothingStaleIsSent
  <2>2. levels = {"CONFIDENTIAL"} /\ ~ask.allowed => ask.results = {}
    BY DEF AnswersInv, Retrieved, Fresh, R!Candidates
  <2>3. R!DisclosuresAreRecorded
    BY <2>2 DEF AnswersInv, Disclosed, R!DisclosuresAreRecorded, R!Sent
  <2>4. R!AnswersAreAccounted
    BY DEF AnswersInv, Accounted, R!AnswersAreAccounted, R!Sent
  <2>5. R!TypeOK
    <3>1. R!IsRows(ask.lexical) /\ R!IsRows(ask.semantic)
      BY DEF AnswersInv, AnswersTyped, AskType, RowType, RowReads, R!IsRows
    <3>2. ask.results \subseteq R!Chunks
      BY DEF AnswersInv, AnswersTyped, AskType
    <3>3. \A i \in 1 .. Len(ask.claims) : ask.claims[i].cites \subseteq R!Chunks
      BY <3>2 DEF AnswersInv, Grounded
    <3> QED
      BY <3>1, <3>2, <3>3 DEF AnswersInv, AnswersTyped, AskType, AskSteps, R!TypeOK
  <2> QED
    BY <2>1, <2>3, <2>4, <2>5 DEF R!AnswersAreGrounded, AnswersAreGrounded
<1> QED
  BY <1>1, AnswersHold, PTL
=============================================================================
