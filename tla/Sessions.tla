------------------------------ MODULE Sessions ------------------------------
(***************************************************************************)
(* Refresh sessions and what ends them: login, rotation of the refresh     *)
(* token, logout, blocking and reactivating a person, and the reset of a   *)
(* forgotten password.  The sessions that rotation derives from one login  *)
(* form a family, which is revoked as a whole.                             *)
(*                                                                         *)
(* The transactions run at READ COMMITTED.  An UPDATE sees the rows that   *)
(* were committed when it began, waits for those that another transaction  *)
(* has changed, and applies its WHERE to what they became.  A revocation   *)
(* therefore is two steps: the rows its UPDATE sees (marks), and its       *)
(* commit, which waits for the rotations of those rows.  A rotation is     *)
(* two steps too, between which it holds the lock of the row it rotates.   *)
(***************************************************************************)
EXTENDS Naturals, FiniteSets

CONSTANTS
    Users, Families, Tokens,    \* a token stands for its refresh_sessions row
    Links,                      \* password_reset_requests
    Requests,                   \* what the API is handling
    NoUser, NoToken, NoLink, NoFamily,
    MaxReactivations,           \* bound: reactivations of a person
    MaxExpired                  \* bound: sessions that expire

ASSUME SessionsAssumption ==
    /\ NoUser \notin Users /\ NoToken \notin Tokens
    /\ NoLink \notin Links /\ NoFamily \notin Families
    /\ MaxReactivations \in Nat /\ MaxExpired \in Nat
    /\ IsFiniteSet(Links)

VARIABLES
    users,      \* status, the version of the password, how often reactivated
    sessions,   \* the rows of refresh_sessions
    links,      \* the reset links: whose, and whether usedAt is set
    requests,   \* what each request has read, changed and not yet committed
    overtaken,  \* families a rotation of which committed while a revocation waited for it
    replayed    \* tokens a refresh of which has ended as a replay

vars == <<users, sessions, links, requests, overtaken, replayed>>

User == [status : {"INVITED", "ACTIVE", "BLOCKED"}, password : Nat,
         reactivated : 0 .. MaxReactivations]
(* password: the version the login of the family was checked against.
   late: a reset has replaced it between that check and the login's commit. *)
Session == [user : Users \cup {NoUser}, family : Families \cup {NoFamily},
            parent : Tokens \cup {NoToken}, rotated : BOOLEAN, revoked : BOOLEAN,
            expired : BOOLEAN, password : Nat, late : BOOLEAN]
Link == [user : Users \cup {NoUser}, used : BOOLEAN]
Request == [step : {"idle", "login", "read", "rotating", "revoking", "asking", "reset"},
            why : {"none", "current", "replayed", "refused", "logout", "block", "reset"},
            user : Users \cup {NoUser}, token : Tokens \cup {NoToken},
            link : Links \cup {NoLink}, marks : SUBSET Tokens, old : SUBSET Links,
            password : Nat, late : BOOLEAN]

(* What each variable holds. *)
TypeOK ==
    /\ users \in [Users -> User]
    /\ sessions \in [Tokens -> Session]
    /\ links \in [Links -> Link]
    /\ requests \in [Requests -> Request]
    /\ overtaken \subseteq Families
    /\ replayed \subseteq Tokens

NoSession == [user |-> NoUser, family |-> NoFamily, parent |-> NoToken, rotated |-> FALSE,
              revoked |-> FALSE, expired |-> FALSE, password |-> 0, late |-> FALSE]
UnusedLink == [user |-> NoUser, used |-> FALSE]
Idle == [step |-> "idle", why |-> "none", user |-> NoUser, token |-> NoToken,
         link |-> NoLink, marks |-> {}, old |-> {}, password |-> 0, late |-> FALSE]

Init ==
    /\ users = [u \in Users |-> [status |-> "ACTIVE", password |-> 0, reactivated |-> 0]]
    /\ sessions = [t \in Tokens |-> NoSession]
    /\ links = [l \in Links |-> UnusedLink]
    /\ requests = [q \in Requests |-> Idle]
    /\ overtaken = {}
    /\ replayed = {}

Issued == {t \in Tokens : sessions[t].family # NoFamily}

(* Mutant of FamilyOf: the session presented alone. *)
FamilyOfOne(t) == Issued \cap {t}

FamilyOf(t) == {x \in Issued : sessions[x].family = sessions[t].family}

(* Mutant of SessionsOf: what a login created, and not what rotation derived. *)
SessionsOfLogins(u) ==
    {x \in Issued : sessions[x].user = u /\ sessions[x].parent = NoToken}

SessionsOf(u) == {x \in Issued : sessions[x].user = u}
Live(t) == t \in Issued /\ ~sessions[t].rotated /\ ~sessions[t].revoked
Unrevoked(S) == {x \in S : ~sessions[x].revoked}

(* Row locks, derived from what the open transactions have changed. *)
LockedSession(t) ==
    \E q \in Requests : requests[q].step = "rotating" /\ requests[q].token = t
LockedUser(u) ==
    \E q \in Requests : /\ requests[q].step = "revoking" /\ requests[q].user = u
                        /\ requests[q].why \in {"block", "reset"}
LockedLink(l) ==
    \E q \in Requests : requests[q].step = "revoking" /\ requests[q].link = l

Becomes(q, r) == requests' = [requests EXCEPT ![q] = r]
-----------------------------------------------------------------------------
(* Login: the person and the password are read, the attempt and the second
   factor checked, and only then the transaction opens. *)
CheckLogin(q, u) ==
    /\ requests[q].step = "idle"
    /\ users[u].status = "ACTIVE"
    /\ Becomes(q, [Idle EXCEPT !.step = "login", !.user = u, !.password = users[u].password])
    /\ UNCHANGED <<users, sessions, links, overtaken, replayed>>

(* Mutant of MarkSuccessfulLogin: the status is not part of the update's WHERE. *)
MarkAnyLogin(u) == ~LockedUser(u)

MarkSuccessfulLogin(u) == ~LockedUser(u) /\ users[u].status = "ACTIVE"

CommitLogin(q) ==
    LET r == requests[q] IN
    /\ r.step = "login"
    /\ MarkSuccessfulLogin(r.user)
    /\ \E t \in Tokens \ Issued, f \in Families :
        /\ \A x \in Issued : sessions[x].family # f
        /\ sessions' = [sessions EXCEPT ![t] =
               [NoSession EXCEPT !.user = r.user, !.family = f,
                                 !.password = r.password, !.late = r.late]]
    /\ Becomes(q, Idle)
    /\ UNCHANGED <<users, links, overtaken, replayed>>

-----------------------------------------------------------------------------
(* Refresh: the row is read by the hash of its token. *)
Verdict(t) ==
    IF sessions[t].rotated \/ sessions[t].revoked THEN "replayed"
    ELSE IF users[sessions[t].user].status # "ACTIVE" \/ sessions[t].expired THEN "refused"
    ELSE "current"

ReadForRefresh(q, t) ==
    /\ requests[q].step = "idle"
    /\ t \in Issued
    /\ Becomes(q, [Idle EXCEPT !.step = "read", !.why = Verdict(t), !.token = t])
    /\ UNCHANGED <<users, sessions, links, overtaken, replayed>>

(* Mutant of Rotatable: the row is rotated as it was read. *)
RotatableAsRead(t) == TRUE

(* Mutant of Rotatable: a revoked row is rotated as well. *)
RotatableRevoked(t) == ~sessions[t].rotated

(* The WHERE of markRefreshSessionRotated, on the row as it is now.  The time
   it compares the expiry with is the one the read used. *)
Rotatable(t) == ~sessions[t].rotated /\ ~sessions[t].revoked

MarkRefreshSessionRotated(q) ==
    LET t == requests[q].token IN
    /\ requests[q].step = "read" /\ requests[q].why = "current"
    /\ ~LockedSession(t)
    /\ Becomes(q, IF Rotatable(t) THEN [requests[q] EXCEPT !.step = "rotating"]
                                  ELSE [requests[q] EXCEPT !.why = "replayed"])
    /\ UNCHANGED <<users, sessions, links, overtaken, replayed>>

WaitedFor(t) == \E p \in Requests : requests[p].step = "revoking" /\ t \in requests[p].marks

CommitRotation(q) ==
    LET t == requests[q].token IN
    /\ requests[q].step = "rotating"
    /\ \E n \in Tokens \ Issued :
        sessions' = [sessions EXCEPT
            ![t].rotated = TRUE,
            ![n] = [sessions[t] EXCEPT !.parent = t, !.rotated = FALSE,
                                       !.revoked = FALSE, !.expired = FALSE]]
    /\ overtaken' = IF WaitedFor(t) THEN overtaken \cup {sessions[t].family} ELSE overtaken
    /\ Becomes(q, Idle)
    /\ UNCHANGED <<users, links, replayed>>

-----------------------------------------------------------------------------
(* AccessTokenGuard: what a request made with the access token of t needs. *)
Admitted(t) ==
    /\ t \in Issued
    /\ ~sessions[t].revoked /\ ~sessions[t].expired
    /\ users[sessions[t].user].status = "ACTIVE"

AskLogout(q, t) ==
    /\ requests[q].step = "idle"
    /\ Admitted(t)
    /\ Becomes(q, [Idle EXCEPT !.step = "read", !.why = "logout", !.token = t])
    /\ UNCHANGED <<users, sessions, links, overtaken, replayed>>

(* revokeTokenFamily begins: of a logout, a refused refresh or a replay. *)
RevokeTokenFamily(q) ==
    /\ requests[q].step = "read" /\ requests[q].why \in {"replayed", "refused", "logout"}
    /\ Becomes(q, [requests[q] EXCEPT !.step = "revoking",
                                      !.marks = Unrevoked(FamilyOf(requests[q].token))])
    /\ UNCHANGED <<users, sessions, links, overtaken, replayed>>

(* changeStatus to BLOCKED has its row, and revokeSessions begins. *)
Block(q, u) ==
    /\ requests[q].step = "idle"
    /\ ~LockedUser(u) /\ users[u].status \in {"ACTIVE", "INVITED"}
    /\ Becomes(q, [Idle EXCEPT !.step = "revoking", !.why = "block", !.user = u,
                               !.marks = Unrevoked(SessionsOf(u))])
    /\ UNCHANGED <<users, sessions, links, overtaken, replayed>>

(* changeStatus to ACTIVE: one conditional update. *)
Reactivate(u) ==
    /\ ~LockedUser(u) /\ users[u].status = "BLOCKED"
    /\ users[u].reactivated < MaxReactivations
    /\ users' = [users EXCEPT ![u].status = "ACTIVE", ![u].reactivated = @ + 1]
    /\ UNCHANGED <<sessions, links, requests, overtaken, replayed>>

-----------------------------------------------------------------------------
(* Password reset.  invalidateOpenRequests sees the links open when it begins. *)
AskReset(q, u) ==
    /\ requests[q].step = "idle"
    /\ users[u].status = "ACTIVE"
    /\ Becomes(q, [Idle EXCEPT !.step = "asking", !.user = u,
                               !.old = {l \in Links : links[l].user = u /\ ~links[l].used}])
    /\ UNCHANGED <<users, sessions, links, overtaken, replayed>>

CreateRequest(q) ==
    LET r == requests[q] IN
    /\ r.step = "asking"
    /\ \A l \in r.old : ~LockedLink(l)
    /\ \E n \in {l \in Links : links[l].user = NoUser} :
        links' = [l \in Links |->
            IF l = n THEN [UnusedLink EXCEPT !.user = r.user]
            ELSE IF l \in r.old THEN [links[l] EXCEPT !.used = TRUE]
            ELSE links[l]]
    /\ Becomes(q, Idle)
    /\ UNCHANGED <<users, sessions, overtaken, replayed>>

FindOpenByTokenHash(q, l) ==
    /\ requests[q].step = "idle"
    /\ links[l].user # NoUser /\ ~links[l].used
    /\ users[links[l].user].status = "ACTIVE"
    /\ Becomes(q, [Idle EXCEPT !.step = "reset", !.link = l, !.user = links[l].user])
    /\ UNCHANGED <<users, sessions, links, overtaken, replayed>>

(* consume and setPassword have their rows, and revokeSessions begins. *)
Consume(q) ==
    LET r == requests[q] IN
    /\ r.step = "reset"
    /\ ~LockedLink(r.link) /\ ~LockedUser(r.user)
    /\ Becomes(q, IF links[r.link].used THEN Idle
                  ELSE [r EXCEPT !.step = "revoking", !.why = "reset",
                                 !.marks = Unrevoked(SessionsOf(r.user))])
    /\ UNCHANGED <<users, sessions, links, overtaken, replayed>>

-----------------------------------------------------------------------------
(* The rows a transaction changed, as its commit publishes them. *)
Revoked(r) == [t \in Tokens |-> IF t \in r.marks THEN [sessions[t] EXCEPT !.revoked = TRUE]
                                                 ELSE sessions[t]]

(* setPassword acts on an active person only; nothing looks at its result. *)
ChangedUser(r) ==
    [u \in Users |->
        IF u # r.user THEN users[u]
        ELSE IF r.why = "block" THEN [users[u] EXCEPT !.status = "BLOCKED"]
        ELSE IF r.why = "reset" /\ users[u].status = "ACTIVE"
               THEN [users[u] EXCEPT !.password = @ + 1]
        ELSE users[u]]

(* A login checked against the password that a reset replaces. *)
Outdated(q, r) == r.why = "reset" /\ requests[q].step = "login" /\ requests[q].user = r.user

CommitRevocation(q) ==
    LET r == requests[q] IN
    /\ r.step = "revoking"
    /\ \A t \in r.marks : ~LockedSession(t)
    /\ sessions' = Revoked(r)
    /\ users' = ChangedUser(r)
    /\ links' = IF r.why = "reset" THEN [links EXCEPT ![r.link].used = TRUE] ELSE links
    /\ requests' = [p \in Requests |->
           IF p = q THEN Idle
           ELSE IF Outdated(p, r) THEN [requests[p] EXCEPT !.late = TRUE]
           ELSE requests[p]]
    /\ replayed' = IF r.why = "replayed" THEN replayed \cup {r.token} ELSE replayed
    /\ UNCHANGED overtaken

(* The transaction is rolled back, or the process handling the request dies. *)
Abort(q) ==
    /\ requests[q].step # "idle"
    /\ Becomes(q, Idle)
    /\ UNCHANGED <<users, sessions, links, overtaken, replayed>>

(* expiresAt passes; the older session of a family was issued first. *)
Expire(t) ==
    /\ t \in Issued /\ ~sessions[t].expired
    /\ Cardinality({x \in Issued : sessions[x].expired}) < MaxExpired
    /\ sessions[t].parent # NoToken => sessions[sessions[t].parent].expired
    /\ sessions' = [sessions EXCEPT ![t].expired = TRUE]
    /\ UNCHANGED <<users, links, requests, overtaken, replayed>>

Handle(q) ==
    \/ \E u \in Users : CheckLogin(q, u) \/ Block(q, u) \/ AskReset(q, u)
    \/ \E t \in Tokens : ReadForRefresh(q, t) \/ AskLogout(q, t)
    \/ \E l \in Links : FindOpenByTokenHash(q, l)
    \/ CommitLogin(q)
    \/ MarkRefreshSessionRotated(q)
    \/ CommitRotation(q)
    \/ RevokeTokenFamily(q)
    \/ CreateRequest(q)
    \/ Consume(q)
    \/ CommitRevocation(q)
    \/ Abort(q)

Next ==
    \/ \E q \in Requests : Handle(q)
    \/ \E u \in Users : Reactivate(u)
    \/ \E t \in Tokens : Expire(t)

Spec == Init /\ [][Next]_vars

-----------------------------------------------------------------------------
(* Two tabs that renew with one cookie at the same time do not leave two
   chains of sessions behind: a family has one session that can be rotated. *)
OneLiveSession ==
    \A s, t \in Tokens :
        Live(s) /\ Live(t) /\ sessions[s].family = sessions[t].family => s = t

(* A token presented again, or presented twice at once, ends what the first
   presentation gave: the session derived from it is revoked. *)
ReplayEndsSuccessor ==
    \A t \in replayed : \A n \in Issued : sessions[n].parent = t => sessions[n].revoked

(* A family that was revoked stays ended, except where a rotation committed
   while the revocation waited for it: its successor is not seen. *)
EndedStaysEnded ==
    \A t \in Issued : sessions[t].revoked =>
        \/ sessions[t].family \in overtaken
        \/ \A s \in FamilyOf(t) : ~Live(s)

(* A blocked person has no session left to renew, not even of a login that
   was under way: the login and the block meet on the row of the person. *)
BlockedHasNoSession ==
    \A t \in Tokens :
        Live(t) /\ users[sessions[t].user].status = "BLOCKED" => sessions[t].family \in overtaken

(* After a reset no session opened with the password before it goes on, but
   that of a login which had already checked it. *)
ResetEndsOldSessions ==
    \A t \in Tokens :
        Live(t) /\ sessions[t].password # users[sessions[t].user].password =>
            sessions[t].late \/ sessions[t].family \in overtaken

(* Both ends of a family hold: by revocation and by replay. *)
FamiliesEnd == TypeOK /\ EndedStaysEnded /\ ReplayEndsSuccessor

(* Neither blocking nor a reset leaves an older session going on. *)
NoOldAccess == BlockedHasNoSession /\ ResetEndsOldSessions
=============================================================================
