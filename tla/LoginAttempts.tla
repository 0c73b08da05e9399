---------------------------- MODULE LoginAttempts ----------------------------
(***************************************************************************)
(* LoginAttemptService: how often one identity may fail.  Every attempt is *)
(* admitted after a look at a counter in Redis and counted when it has     *)
(* failed, and several attempts are under way at once.  The counters are   *)
(* reached through one client of the process, whose connection is made     *)
(* when it is first needed and kept in #connection.                        *)
(*                                                                         *)
(* Limit(s) is #limitFor, per scope.  A window ends when its key expires,  *)
(* at any time after it began.  MaxOutages bounds how often Redis fails.   *)
(***************************************************************************)
EXTENDS Naturals, FiniteSets

CONSTANTS Requests, Limit, MaxOutages

VARIABLES
    redis,      \* whether Redis can be reached
    client,     \* "ready", or "closed"
    connection, \* #connection: "none", a promise "pending", or one "kept"
    counters,   \* per scope, the key: its count and whether it expires
    requests,   \* what each request of the identity is about to do
    outages

vars == <<redis, client, connection, counters, requests, outages>>

Scopes == {"login", "totp", "reset"}
Operations == {"assertAllowed", "recordFailure", "clear"}

AttemptsAssumption == Limit \in [Scopes -> Nat \ {0}] /\ IsFiniteSet(Requests) /\ MaxOutages \in Nat

(* A request came by a route, and does an operation in a scope. *)
Request == [step : {"idle", "due", "waiting", "holding", "verifying", "unavailable"},
            route : {"login", "code", "reset"}, op : Operations, scope : Scopes, cut : BOOLEAN]

TypeOK ==
    /\ redis \in {"up", "down"} /\ client \in {"ready", "closed"}
    /\ connection \in {"none", "pending", "kept"}
    /\ counters \in [Scopes -> [count : Nat, expires : BOOLEAN]]
    /\ requests \in [Requests -> Request]
    /\ outages \in 0 .. MaxOutages

Idle == [step |-> "idle", route |-> "login", op |-> "assertAllowed", scope |-> "login", cut |-> FALSE]
NoKey == [count |-> 0, expires |-> FALSE]

Init ==
    /\ redis = "up" /\ client = "closed" /\ connection = "none"
    /\ counters = [s \in Scopes |-> NoKey]
    /\ requests = [q \in Requests |-> Idle]
    /\ outages = 0

-----------------------------------------------------------------------------
Is(q, step) == requests[q].step = step
Becomes(q, r) == requests' = [requests EXCEPT ![q] = r]
Waiting == {q \in Requests : Is(q, "waiting")}
Due(q, op, s) == [requests[q] EXCEPT !.step = "due", !.op = op, !.scope = s]

(* A login, the code of somebody signed in, or a request for a reset. *)
FirstScope == [login |-> "login", code |-> "totp", reset |-> "reset"]

Ask(q, route) ==
    /\ requests[q].step \in {"idle", "unavailable"}
    /\ Becomes(q, [step |-> "due", route |-> route, op |-> "assertAllowed",
                   scope |-> FirstScope[route], cut |-> redis = "down"])
    /\ UNCHANGED <<redis, client, connection, counters, outages>>

(* #connectedClient: a connection that was made is not made again, whatever
   has become of it since. *)
ConnectedClient(q) ==
    /\ Is(q, "due") /\ client = "closed"
    /\ IF connection = "kept"
       THEN Becomes(q, [requests[q] EXCEPT !.step = "holding"]) /\ UNCHANGED connection
       ELSE /\ Becomes(q, [requests[q] EXCEPT !.step = "waiting"])
            /\ connection' = "pending"
    /\ UNCHANGED <<redis, client, counters, outages>>

Connected ==
    /\ connection = "pending" /\ redis = "up"
    /\ connection' = "kept" /\ client' = "ready"
    /\ requests' = [q \in Requests |->
           IF q \in Waiting THEN [requests[q] EXCEPT !.step = "holding"] ELSE requests[q]]
    /\ UNCHANGED <<redis, counters, outages>>

ConnectFails ==
    /\ connection = "pending" /\ redis = "down"
    /\ connection' = "none"
    /\ requests' = [q \in Requests |->
           IF q \in Waiting THEN [requests[q] EXCEPT !.step = "unavailable"] ELSE requests[q]]
    /\ UNCHANGED <<redis, client, counters, outages>>

-----------------------------------------------------------------------------
(* The operations, as Redis performs them. *)

(* Mutant of Blocked: one attempt more. *)
BlockedAfter(s) == counters[s].count > Limit[s]

(* assertAllowed: the attempt is refused with AUTH_RATE_LIMITED. *)
Blocked(s) == counters[s].count >= Limit[s]

(* incrementScript, one script: the first failure begins the window. *)
Incremented(k) == [count |-> k.count + 1, expires |-> k.expires \/ k.count = 0]

Effect(r) ==
    CASE r.op = "assertAllowed" -> counters
      [] r.op = "recordFailure" -> [counters EXCEPT ![r.scope] = Incremented(@)]
      [] r.op = "clear" -> [counters EXCEPT ![r.scope] = NoKey]

(* What follows: a reset counts every request; a code that was right clears
   its own scope and then, in a login, that of the password. *)
AfterOperation(q) ==
    LET r == requests[q] IN
    CASE r.op = "assertAllowed" /\ Blocked(r.scope) -> Idle
      [] r.op = "assertAllowed" /\ ~Blocked(r.scope) /\ r.scope = "reset" ->
             Due(q, "recordFailure", "reset")
      [] r.op = "assertAllowed" /\ ~Blocked(r.scope) /\ r.scope # "reset" ->
             [r EXCEPT !.step = "verifying"]
      [] r.op = "clear" /\ r.route = "login" /\ r.scope = "totp" -> Due(q, "clear", "login")
      [] OTHER -> Idle

Reaches(q) == Is(q, "due") \/ Is(q, "holding")

Operate(q) ==
    /\ Reaches(q) /\ client = "ready"
    /\ counters' = Effect(requests[q])
    /\ Becomes(q, AfterOperation(q))
    /\ UNCHANGED <<redis, client, connection, outages>>

(* A closed client refuses the operation. *)
Unavailable(q) ==
    /\ Is(q, "holding") /\ client = "closed"
    /\ Becomes(q, [requests[q] EXCEPT !.step = "unavailable"])
    /\ UNCHANGED <<redis, client, connection, counters, outages>>

(* The password, or the code, is compared.  Who is signed in and right has
   nothing more to count, or ends an enrolment and clears the codes. *)
Verify(q) ==
    /\ Is(q, "verifying")
    /\ LET r == requests[q] IN
       \E next \in {Due(q, "recordFailure", r.scope), Due(q, "clear", r.scope)}
                   \cup (IF r.route = "code" THEN {Idle} ELSE {})
                   \cup (IF r.scope = "login" THEN {Due(q, "assertAllowed", "totp"), Idle} ELSE {}) :
           Becomes(q, next)
    /\ UNCHANGED <<redis, client, connection, counters, outages>>

-----------------------------------------------------------------------------
(* Redis is lost: with reconnectStrategy FALSE the client stays closed.  The
   operation of one request may have been performed and not answered. *)
Outage ==
    /\ redis = "up" /\ outages < MaxOutages
    /\ redis' = "down" /\ client' = "closed" /\ outages' = outages + 1
    /\ \E done \in SUBSET {q \in Requests : Reaches(q) /\ client = "ready"} :
        /\ Cardinality(done) <= 1
        /\ counters' \in {counters} \cup {Effect(requests[q]) : q \in done}
        /\ requests' = [q \in Requests |->
               [requests[q] EXCEPT !.cut = ~Is(q, "idle"), !.step = IF q \in done THEN "unavailable" ELSE @]]
    /\ UNCHANGED connection

Recover ==
    /\ redis = "down"
    /\ redis' = "up"
    /\ UNCHANGED <<client, connection, counters, requests, outages>>

(* The window of a scope ends, if its key was told to expire. *)
Expire(s) ==
    /\ counters[s].expires
    /\ counters' = [counters EXCEPT ![s] = NoKey]
    /\ UNCHANGED <<redis, client, connection, requests, outages>>

Next ==
    \/ \E q \in Requests :
        \/ \E route \in {"login", "code", "reset"} : Ask(q, route)
        \/ ConnectedClient(q) \/ Operate(q) \/ Unavailable(q) \/ Verify(q)
    \/ Connected \/ ConnectFails
    \/ Outage \/ Recover
    \/ \E s \in Scopes : Expire(s)

Spec == Init /\ [][Next]_vars

-----------------------------------------------------------------------------
(* Attempts admitted before the limit was reached may all fail after it; no
   other is counted, through outages and lost answers. *)
AttemptsAreLimited ==
    \A s \in Scopes : counters[s].count < Limit[s] + Cardinality(Requests)

(* Whoever is kept out is let in again when a window has passed. *)
LockoutEnds == \A s \in Scopes : counters[s].count > 0 => counters[s].expires

AttemptsHold == TypeOK /\ AttemptsAreLimited /\ LockoutEnds

(* "Autenticação temporariamente indisponível": an attempt is refused for
   want of Redis only if Redis could not be reached while it went on. *)
UnavailabilityIsTemporary == \A q \in Requests : Is(q, "unavailable") => requests[q].cut
=============================================================================
