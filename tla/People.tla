------------------------------- MODULE People -------------------------------
(***************************************************************************)
(* The people of an office: invited, activated by accepting, blocked and   *)
(* reactivated, with roles that others replace.  A request of an           *)
(* administrator is admitted (guard, target and grantable roles read) and  *)
(* commits later; nothing it read about the administrator is read again.   *)
(* Whoever is ACTIVE may also ask for a link that resets the password: its  *)
(* sessions are in Sessions, what it does to the row of the person is here. *)
(*                                                                         *)
(* replaceRoles deletes and recreates the rows of user_roles.  The DELETE  *)
(* of a transaction that waited for another sees the rows from before, and *)
(* they are gone: what the other one created stays.                        *)
(***************************************************************************)
EXTENDS Naturals

CONSTANTS
    Users,
    Founders,           \* who is active with the administrative role from the start
    Roles, Permissions, \* PermissionsOf[r]: what role r grants
    PermissionsOf,
    Requests, NoUser,
    MaxGrants,          \* bound: replacements of the roles of a person
    MaxReactivations    \* bound: reactivations of a person

Manage == "users.manage"

PeopleAssumption ==
    /\ Founders \subseteq Users /\ Founders # {}
    /\ NoUser \notin Users
    /\ PermissionsOf \in [Roles -> SUBSET Permissions]
    /\ \E r \in Roles : PermissionsOf[r] = Permissions
    /\ Manage \in Permissions
    /\ MaxGrants \in Nat /\ MaxReactivations \in Nat

VARIABLES
    users,          \* status, roles, how often they were replaced, where a password came from:
                    \* chosen by accepting an invitation, or set through a reset link by
                    \* somebody who had never chosen one
    invitations,    \* of each person, one row at most: what its columns say happened to it
    requests,       \* what each request has read
    granted,        \* the roles last granted to each person
    mixed,          \* people whose roles two replacements changed at the same time
    crossed         \* an administrator lost access while a request of theirs was open

vars == <<users, invitations, requests, granted, mixed, crossed>>

Statuses == {"NONE", "INVITED", "ACTIVE", "BLOCKED"}
User == [status : Statuses, roles : SUBSET Roles, grants : 0 .. MaxGrants,
         reactivated : 0 .. MaxReactivations, chosen : BOOLEAN, reset : BOOLEAN]
Operations == {"idle", "invite", "accept", "revoke", "roles", "BLOCKED", "ACTIVE"}
Request == [op : Operations, actor : Users \cup {NoUser}, target : Users \cup {NoUser},
            roles : SUBSET Roles, grants : 0 .. MaxGrants]

(* What each variable holds. *)
TypeOK ==
    /\ users \in [Users -> User]
    /\ invitations \in [Users -> SUBSET {"sent", "accepted", "revoked"}]
    /\ requests \in [Requests -> Request]
    /\ granted \in [Users -> SUBSET Roles]
    /\ mixed \subseteq Users
    /\ crossed \in BOOLEAN

Idle == [op |-> "idle", actor |-> NoUser, target |-> NoUser, roles |-> {}, grants |-> 0]
Everything == {r \in Roles : PermissionsOf[r] = Permissions}

Init ==
    /\ users = [u \in Users |->
           [status |-> IF u \in Founders THEN "ACTIVE" ELSE "NONE",
            roles |-> IF u \in Founders THEN Everything ELSE {},
            grants |-> 0, reactivated |-> 0, chosen |-> u \in Founders,
            reset |-> FALSE]]
    /\ invitations = [u \in Users |-> {}]
    /\ requests = [q \in Requests |-> Idle]
    /\ granted = [u \in Users |-> users[u].roles]
    /\ mixed = {}
    /\ crossed = FALSE

Open == {"sent"}

Held(u) == UNION {PermissionsOf[r] : r \in users[u].roles}
Administers(u) == users[u].status = "ACTIVE" /\ Manage \in Held(u)
Becomes(q, r) == requests' = [requests EXCEPT ![q] = r]

(* RoleGrantService.assertGrantable. *)
AssertGrantable(a, S) == UNION {PermissionsOf[r] : r \in S} \subseteq Held(a)

-----------------------------------------------------------------------------
(* Mutant of OwnAccess: people may act on themselves. *)
OwnAccessAllowed(a, u) == FALSE

(* CANNOT_CHANGE_OWN_ROLES, CANNOT_CHANGE_OWN_STATUS. *)
OwnAccess(a, u) == a = u

Admit(q, op, a, u, S) ==
    /\ requests[q].op = "idle"
    /\ Administers(a)
    /\ CASE op = "invite" -> users[u].status = "NONE" /\ AssertGrantable(a, S)
         [] op = "roles" -> users[u].status # "NONE" /\ AssertGrantable(a, S) /\ ~OwnAccess(a, u)
         [] op = "revoke" -> invitations[u] # {} /\ S = {}
         [] OTHER -> users[u].status # "NONE" /\ ~OwnAccess(a, u) /\ S = {}
    /\ Becomes(q, [Idle EXCEPT !.op = op, !.actor = a, !.target = u, !.roles = S,
                               !.grants = users[u].grants])
    /\ UNCHANGED <<users, invitations, granted, mixed, crossed>>

(* The e-mail of the office is unique: the second of two invitations fails. *)
CreateInvitedUser(q) ==
    LET r == requests[q] IN
    /\ r.op = "invite"
    /\ users[r.target].status = "NONE"
    /\ users' = [users EXCEPT ![r.target].status = "INVITED", ![r.target].roles = r.roles]
    /\ invitations' = [invitations EXCEPT ![r.target] = Open]
    /\ granted' = [granted EXCEPT ![r.target] = r.roles]
    /\ Becomes(q, Idle)
    /\ UNCHANGED <<mixed, crossed>>

(* An invitation that expired is one that nobody finds. *)
FindPendingByTokenHash(q, u) ==
    /\ requests[q].op = "idle"
    /\ invitations[u] = Open /\ users[u].status = "INVITED"
    /\ Becomes(q, [Idle EXCEPT !.op = "accept", !.target = u])
    /\ UNCHANGED <<users, invitations, granted, mixed, crossed>>

(* Mutant of Consumable: the WHERE does not ask for revokedAt. *)
ConsumableRevoked(u) == "accepted" \notin invitations[u]

Consumable(u) == invitations[u] = Open

(* consumeInvitation, then activateInvitedUser: a person who is no longer
   INVITED is not activated, and the invitation stays consumed. *)
Accept(q) ==
    LET u == requests[q].target IN
    /\ requests[q].op = "accept"
    /\ Consumable(u)
    /\ invitations' = [invitations EXCEPT ![u] = @ \cup {"accepted"}]
    /\ users' = IF users[u].status = "INVITED"
                  THEN [users EXCEPT ![u].status = "ACTIVE", ![u].chosen = TRUE]
                  ELSE users
    /\ Becomes(q, Idle)
    /\ UNCHANGED <<granted, mixed, crossed>>

(* A reset link is asked for, found and used by somebody ACTIVE: every
   statement asks for it again, so the last one is the step. *)
SetPassword(u) ==
    /\ users[u].status = "ACTIVE"
    /\ users' = [users EXCEPT ![u].reset = @ \/ ~users[u].chosen]
    /\ UNCHANGED <<invitations, requests, granted, mixed, crossed>>

RevokeInvitation(q) ==
    LET u == requests[q].target IN
    /\ requests[q].op = "revoke"
    /\ invitations[u] = Open
    /\ invitations' = [invitations EXCEPT ![u] = @ \cup {"revoked"}]
    /\ Becomes(q, Idle)
    /\ UNCHANGED <<users, granted, mixed, crossed>>

-----------------------------------------------------------------------------
(* Somebody loses the right to administer while a request of theirs is open. *)
Crosses(q) ==
    \E u \in Users : /\ Administers(u) /\ ~Administers(u)'
                     /\ \E p \in Requests \ {q} : requests[p].actor = u

(* Statuses from which changeStatus moves to each status. *)
From == [BLOCKED |-> {"ACTIVE", "INVITED"}, ACTIVE |-> {"BLOCKED"}]

ChangeStatus(q) ==
    LET r == requests[q]
        u == r.target
    IN  /\ r.op \in DOMAIN From
        /\ users[u].status \in From[r.op]
        /\ r.op = "ACTIVE" => users[u].reactivated < MaxReactivations
        /\ users' = [users EXCEPT ![u].status = r.op,
                                  ![u].reactivated = IF r.op = "ACTIVE" THEN @ + 1 ELSE @]
        /\ crossed' = (crossed \/ Crosses(q))
        /\ Becomes(q, Idle)
        /\ UNCHANGED <<invitations, granted, mixed>>

(* Mutant of AfterReplacing: the roles held before are kept. *)
AfterAdding(r) == users[r.target].roles \cup r.roles

(* The rows the DELETE saw are those of this replacement, or were deleted by
   another one whose rows stay. *)
AfterReplacing(r) ==
    IF users[r.target].grants = r.grants THEN r.roles ELSE users[r.target].roles \cup r.roles

(* The DELETE of replaceRoles begins. *)
DeleteRoles(q) ==
    /\ requests[q].op = "roles"
    /\ requests[q].grants # users[requests[q].target].grants
    /\ Becomes(q, [requests[q] EXCEPT !.grants = users[requests[q].target].grants])
    /\ UNCHANGED <<users, invitations, granted, mixed, crossed>>

ReplaceRoles(q) ==
    LET r == requests[q]
        u == r.target
        waited == users[u].grants # r.grants
    IN  /\ r.op = "roles"
        /\ users[u].grants < MaxGrants
        /\ waited => users[u].roles \cap r.roles = {}
        /\ users' = [users EXCEPT ![u].roles = AfterReplacing(r), ![u].grants = @ + 1]
        /\ granted' = [granted EXCEPT ![u] = r.roles]
        /\ mixed' = IF waited THEN mixed \cup {u} ELSE mixed \ {u}
        /\ crossed' = (crossed \/ Crosses(q))
        /\ Becomes(q, Idle)
        /\ UNCHANGED invitations

(* A condition no longer holds, a unique index refuses the row, or the
   process dies: nothing is changed. *)
Refuse(q) ==
    /\ requests[q].op # "idle"
    /\ Becomes(q, Idle)
    /\ UNCHANGED <<users, invitations, granted, mixed, crossed>>

Next ==
    \/ \E u \in Users : SetPassword(u)
    \/ \E q \in Requests :
        \/ \E op \in Operations \ {"idle", "accept"}, a, u \in Users, S \in SUBSET Roles :
               Admit(q, op, a, u, S)
        \/ \E u \in Users : FindPendingByTokenHash(q, u)
        \/ CreateInvitedUser(q)
        \/ Accept(q)
        \/ RevokeInvitation(q)
        \/ ChangeStatus(q)
        \/ DeleteRoles(q)
        \/ ReplaceRoles(q)
        \/ Refuse(q)

Spec == Init /\ [][Next]_vars

-----------------------------------------------------------------------------
(* Nobody acts on their own access, so an office keeps an active person who
   administers it, unless an administrator lost access while a request of
   theirs was under way. *)
AdministratorRemains == crossed \/ \E u \in Users : Administers(u)

(* The password somebody invited chose came by accepting the invitation,
   never through one that was revoked while the acceptance was under way.
   A reset link sets the first password only of people whom an administrator
   reactivated.  That it ever does is not what users.service.ts:175 says ("quem
   está em INVITED precisa passar pelo aceite para ter senha") nor
   password-reset.repository.ts:11: whoever was blocked while INVITED is
   reactivated as ACTIVE, and may have a password without any acceptance. *)
PasswordComesByInvitation ==
    \A u \in Users \ Founders :
        /\ users[u].chosen => invitations[u] = {"sent", "accepted"}
        /\ users[u].reset => users[u].reactivated > 0

(* A person holds the roles last granted and none from before, unless two
   replacements met. *)
RolesAreOneGrant == \A u \in Users \ mixed : users[u].roles = granted[u]

(* What people hold, and the password they hold it with, came to them as the
   two above say. *)
AccessIsGranted == RolesAreOneGrant /\ PasswordComesByInvitation
=============================================================================
