---------------------------- MODULE ClientSession ----------------------------
(***************************************************************************)
(* The session as the web application keeps it.  The tabs of a browser     *)
(* share the cookie with the refresh token; each keeps its access token    *)
(* and the person it shows in memory.  A request answered with 401 renews  *)
(* the session and is sent again; the requests of a tab share one renewal. *)
(* A tab that opens restores its session, a renewal that shares nothing.   *)
(* Of the server there is what an answer depends on; Sessions has the      *)
(* details.  An exchange that a reload drops does not reach the server     *)
(* later than the reload.                                                  *)
(***************************************************************************)
EXTENDS Naturals

CONSTANTS
    Tabs, Slots,    \* a slot is a request of a tab, with the renewal it may need
    Logins,         \* bound: logins, numbered from 1; each opens a family of sessions
    MaxRotations,   \* bound: renewals of a family
    MaxExpiries,    \* bound: access tokens that expire
    NoTab, NoSlot

ClientAssumption ==
    /\ Logins \subseteq Nat \ {0} /\ MaxRotations \in Nat \ {0} /\ MaxExpiries \in Nat
    /\ NoTab \notin Tabs /\ NoSlot \notin Slots

VARIABLES
    cookie,     \* the refresh token of the browser
    families,   \* the server's: which rotation is current, 0 before the login; ended
    tabs,       \* whose session is shown, whose access token is held, whether it is good
    calls,      \* what each slot is doing
    replays,    \* refresh tokens that ended a family by being given again
    excused,    \* those whose answer was lost, or that two tabs or restores sent at once
    overtaken,  \* tabs whose session changed under a request, or by another tab's login
    expiries

vars == <<cookie, families, tabs, calls, replays, excused, overtaken, expiries>>

Sessions == Logins \cup {0}     \* 0: of nobody
Token == [family : Sessions, rotation : 0 .. MaxRotations]
Tab == [shown : Sessions, held : Sessions, good : BOOLEAN]
Call == [tab : Tabs \cup {NoTab}, kind : {"none", "call", "logout", "restore", "login"},
         step : {"idle", "sent", "served", "joined", "refreshing", "granted", "refused"},
         with : [family : Sessions, good : BOOLEAN], token : Token, retried : BOOLEAN,
         on : Slots \cup {NoSlot}]

(* What each variable holds. *)
TypeOK ==
    /\ cookie \in Token
    /\ families \in [Logins -> [rotation : 0 .. MaxRotations, ended : BOOLEAN]]
    /\ tabs \in [Tabs -> Tab]
    /\ calls \in [Slots -> Call]
    /\ replays \subseteq Token /\ excused \subseteq Token
    /\ overtaken \subseteq Tabs
    /\ expiries \in 0 .. MaxExpiries

NoToken == [family |-> 0, rotation |-> 0]
SignedOut == [shown |-> 0, held |-> 0, good |-> FALSE]
SignedIn(f) == [shown |-> f, held |-> f, good |-> TRUE]
Idle == [tab |-> NoTab, kind |-> "none", step |-> "idle", with |-> [family |-> 0, good |-> FALSE],
         token |-> NoToken, retried |-> FALSE, on |-> NoSlot]

Init ==
    /\ cookie = NoToken
    /\ families = [f \in Logins |-> [rotation |-> 0, ended |-> FALSE]]
    /\ tabs = [t \in Tabs |-> SignedOut]
    /\ calls = [s \in Slots |-> Idle]
    /\ replays = {} /\ excused = {} /\ overtaken = {}
    /\ expiries = 0

Of(t) == {s \in Slots : calls[s].tab = t}
Exchanging == {s \in Slots : calls[s].step \in {"refreshing", "granted", "refused"}}
Becomes(s, c) == calls' = [calls EXCEPT ![s] = c]
With(t) == [family |-> tabs[t].held, good |-> tabs[t].good]

(* Two exchanges with one token of which at least one is not a renewal that a
   tab shares. *)
Beside(s, t, kind) ==
    \E p \in Exchanging \ {s} :
        /\ calls[p].token = cookie
        /\ calls[p].tab # t \/ kind = "restore" \/ calls[p].kind = "restore"
Excuses(s, t, kind) == excused' = IF Beside(s, t, kind) THEN excused \cup {cookie} ELSE excused

-----------------------------------------------------------------------------
(* session.login; the form is shown to nobody who is signed in. *)
Login(s, t) ==
    /\ calls[s].kind = "none" /\ tabs[t].shown = 0
    /\ \A p \in Of(t) : calls[p].kind \notin {"login", "restore"}
    /\ Becomes(s, [Idle EXCEPT !.tab = t, !.kind = "login", !.step = "sent"])
    /\ UNCHANGED <<cookie, families, tabs, replays, excused, overtaken, expiries>>

ServeLogin(s) ==
    /\ calls[s].kind = "login" /\ calls[s].step = "sent"
    /\ \E f \in Logins :
        /\ families[f].rotation = 0
        /\ \A g \in Logins : g < f => families[g].rotation > 0
        /\ families' = [families EXCEPT ![f].rotation = 1]
        /\ Becomes(s, [calls[s] EXCEPT !.step = "granted",
                                       !.token = [family |-> f, rotation |-> 1]])
    /\ UNCHANGED <<cookie, tabs, replays, excused, overtaken, expiries>>

(* session.restore, which the router calls before a navigation while the
   session is being restored: a second navigation calls it again. *)
Restore(s, t) ==
    /\ calls[s].kind = "none"
    /\ \E p \in Of(t) : calls[p].kind = "restore"
    /\ Becomes(s, [Idle EXCEPT !.tab = t, !.kind = "restore", !.step = "refreshing", !.token = cookie])
    /\ Excuses(s, t, "restore")
    /\ UNCHANGED <<cookie, families, tabs, replays, overtaken, expiries>>

(* The page is opened or reloaded: its memory and its requests are gone. *)
Reload(s, t) ==
    /\ calls[s].kind = "none" \/ s \in Of(t)
    /\ tabs' = [tabs EXCEPT ![t] = SignedOut]
    /\ calls' = [p \in Slots |->
           IF p = s THEN [Idle EXCEPT !.tab = t, !.kind = "restore",
                                      !.step = "refreshing", !.token = cookie]
           ELSE IF p \in Of(t) THEN Idle ELSE calls[p]]
    /\ excused' = excused \cup {calls[p].token : p \in Exchanging \cap Of(t)}
                          \cup {calls[p].token : p \in {x \in Exchanging : calls[x].token = cookie}}
    /\ overtaken' = overtaken \ {t}
    /\ UNCHANGED <<cookie, families, replays, expiries>>

-----------------------------------------------------------------------------
(* request, and session.logout through it. *)
Send(s, t, kind) ==
    /\ calls[s].kind = "none" /\ tabs[t].shown # 0
    /\ kind = "logout" => \A p \in Of(t) : calls[p].kind # "logout"
    /\ Becomes(s, [Idle EXCEPT !.tab = t, !.kind = kind, !.step = "sent", !.with = With(t)])
    /\ UNCHANGED <<cookie, families, tabs, replays, excused, overtaken, expiries>>

(* AccessTokenGuard *)
Admitted(c) ==
    c.kind # "login" /\ c.with.good /\ c.with.family # 0 /\ ~families[c.with.family].ended

(* A logout revokes the family before its answer arrives. *)
Serve(s) ==
    /\ calls[s].step = "sent" /\ Admitted(calls[s])
    /\ IF calls[s].kind = "logout"
       THEN /\ families' = [families EXCEPT ![calls[s].with.family].ended = TRUE]
            /\ Becomes(s, [calls[s] EXCEPT !.step = "served"])
       ELSE /\ Becomes(s, Idle)
            /\ UNCHANGED families
    /\ UNCHANGED <<cookie, tabs, replays, excused, overtaken, expiries>>

(* Requests of t go on when its session changes. *)
GoesOn(t, done) == Of(t) \ done # {}
Clear(t) == tabs' = [tabs EXCEPT ![t] = SignedOut]

(* Mutant of Leaders: every request renews the session by itself. *)
LeadersNone(t) == {}

(* inFlightRenewal: the request whose renewal the tab is waiting for. *)
Leaders(t) == {p \in Of(t) \cap Exchanging : calls[p].kind \in {"call", "logout"}}

(* 401: the renewal is joined or begun. *)
Renew(s) ==
    LET c == calls[s] IN
    /\ c.step = "sent" /\ c.kind # "login" /\ ~Admitted(c) /\ ~c.retried
    /\ IF Leaders(c.tab) # {}
       THEN /\ \E p \in Leaders(c.tab) : Becomes(s, [c EXCEPT !.step = "joined", !.on = p])
            /\ UNCHANGED excused
       ELSE /\ Becomes(s, [c EXCEPT !.step = "refreshing", !.token = cookie])
            /\ Excuses(s, c.tab, c.kind)
    /\ UNCHANGED <<cookie, families, tabs, replays, overtaken, expiries>>

(* A logout ends: answered, without an answer, or refused again. *)
EndOfLogout(s) ==
    LET c == calls[s] IN
    /\ c.kind = "logout"
    /\ \/ c.step = "served" /\ cookie' = NoToken
       \/ c.step \in {"sent", "served"} /\ UNCHANGED cookie
    /\ Becomes(s, Idle)
    /\ Clear(c.tab)
    /\ overtaken' = IF GoesOn(c.tab, {s}) THEN overtaken \cup {c.tab} ELSE overtaken
    /\ UNCHANGED <<families, replays, excused, expiries>>

(* A call or a login ends without having changed anything: the network fails,
   or the server refuses it again. *)
EndOfCall(s) ==
    /\ calls[s].kind \in {"call", "login"} /\ calls[s].step = "sent"
    /\ Becomes(s, Idle)
    /\ UNCHANGED <<cookie, families, tabs, replays, excused, overtaken, expiries>>

-----------------------------------------------------------------------------
(* POST /auth/refresh.  A token that is not the current one ends its family. *)
Current(k) == k.family # 0 /\ ~families[k.family].ended /\ families[k.family].rotation = k.rotation

ServeRefresh(s) ==
    LET k == calls[s].token
        next == [k EXCEPT !.rotation = @ + 1]
    IN  /\ calls[s].step = "refreshing"
        /\ Current(k) => k.rotation < MaxRotations
        /\ families' = IF k.family = 0 THEN families
                       ELSE IF Current(k) THEN [families EXCEPT ![k.family].rotation = @ + 1]
                       ELSE [families EXCEPT ![k.family].ended = TRUE]
        /\ Becomes(s, IF Current(k) THEN [calls[s] EXCEPT !.step = "granted"]
                                    ELSE [calls[s] EXCEPT !.step = "refused"])
        /\ replays' = IF k.family # 0 /\ ~Current(k) /\ ~families[k.family].ended
                      THEN replays \cup {k} ELSE replays
        /\ UNCHANGED <<cookie, tabs, excused, overtaken, expiries>>

(* What was asked with 401 is sent again, once, with what the tab now holds. *)
Waiting(s) == {p \in Slots : p = s \/ (calls[p].step = "joined" /\ calls[p].on = s)}
SentAgain(s, f) == [p \in Slots |->
    IF p \in Waiting(s)
    THEN [calls[p] EXCEPT !.step = "sent", !.retried = TRUE, !.on = NoSlot, !.token = NoToken,
                          !.with = [family |-> f, good |-> TRUE]]
    ELSE calls[p]]

(* The answer brings the cookie and an access token; a login or a restore
   shows the person too. *)
Receive(s) ==
    LET c == calls[s]
        f == c.token.family
        brought == IF c.kind = "login" THEN c.token ELSE [c.token EXCEPT !.rotation = @ + 1]
        opens == c.kind \in {"login", "restore"}
    IN  /\ c.step = "granted"
        /\ cookie' = brought
        /\ tabs' = [tabs EXCEPT ![c.tab] = IF opens THEN SignedIn(f)
                                           ELSE [@ EXCEPT !.held = f, !.good = TRUE]]
        /\ calls' = IF opens THEN [calls EXCEPT ![s] = Idle] ELSE SentAgain(s, f)
        /\ overtaken' =
               ((IF opens THEN overtaken \ {c.tab} ELSE overtaken)
                \cup {t \in Tabs \ {c.tab} : tabs[t].shown \notin {0, f} \/ Of(t) # {}})
               \cup IF opens /\ GoesOn(c.tab, {s}) THEN {c.tab} ELSE {}
        /\ UNCHANGED <<families, replays, excused, expiries>>

(* Refused, or without an answer: the session is over for the tab. *)
GiveUp(s) ==
    LET c == calls[s] IN
    /\ c.step \in {"refreshing", "granted", "refused"}
    /\ excused' = IF c.step = "granted" /\ c.kind # "login" THEN excused \cup {c.token} ELSE excused
    /\ calls' = [p \in Slots |-> IF p \in Waiting(s) THEN Idle ELSE calls[p]]
    /\ IF c.kind = "login" THEN UNCHANGED tabs ELSE Clear(c.tab)
    /\ overtaken' = IF GoesOn(c.tab, Waiting(s)) THEN overtaken \cup {c.tab} ELSE overtaken
    /\ UNCHANGED <<cookie, families, replays, expiries>>

(* The access token is short; the refresh token outlives it. *)
Expire(t) ==
    /\ tabs[t].good /\ expiries < MaxExpiries
    /\ tabs' = [tabs EXCEPT ![t].good = FALSE]
    /\ expiries' = expiries + 1
    /\ UNCHANGED <<cookie, families, calls, replays, excused, overtaken>>

Next ==
    \/ \E t \in Tabs : Expire(t)
    \/ \E s \in Slots :
        \/ \E t \in Tabs : \/ Login(s, t) \/ Restore(s, t) \/ Reload(s, t)
                           \/ \E kind \in {"call", "logout"} : Send(s, t, kind)
        \/ ServeLogin(s) \/ Serve(s) \/ Renew(s) \/ EndOfLogout(s) \/ EndOfCall(s)
        \/ ServeRefresh(s) \/ Receive(s) \/ GiveUp(s)

Spec == Init /\ [][Next]_vars

-----------------------------------------------------------------------------
(* The server ends a session whose refresh token it is given again.  The
   application gives one again only where it cannot know: the answer was
   lost, or two tabs or two restores sent it at the same time. *)
PresentedOnce == replays \subseteq excused

(* A tab at rest acts for the person it shows, unless its session changed
   under a request that was due, or another tab changed the cookie. *)
ShownIsHeld == \A t \in Tabs \ overtaken : Of(t) = {} => tabs[t].held = tabs[t].shown

(* What the application does with its tokens does not end its own session. *)
ClientHoldsSession == TypeOK /\ PresentedOnce /\ ShownIsHeld
=============================================================================
