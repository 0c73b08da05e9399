--------------------------- MODULE PreparationWatch ---------------------------
(***************************************************************************)
(* The page of a case while its documents are prepared: PreparationStatus  *)
(* asks the server, in three requests answered at different moments, which *)
(* jobs are queued, at work and being retried, goes on while there are any *)
(* and has CaseDetailView load its list of documents when their number has *)
(* gone down.  Polls may overlap: a timer, the return to the tab and an    *)
(* intake that ends each begin one.                                        *)
(*                                                                         *)
(* Polls and Loads bound how many are under way at once.                   *)
(***************************************************************************)
EXTENDS Naturals, FiniteSets

CONSTANTS
    Documents, Polls, Loads, NoCount,
    MaxMoves,       \* bound: changes of status on the server
    MaxTroubles     \* bound: how often the tab is hidden or a request fails

VARIABLES
    work,       \* the status of the active job of each document
    polls,      \* the statuses each poll has still to be told of, and the documents found
    loads,      \* each load of the list: asked, or read with what it read
    page,       \* the page: its timer, whether it is visible, previousCount, the list ...
    sending,    \* an intake of this page whose answer is under way
    moved,      \* documents whose work changed since the last poll began
    witnessed,  \* documents polls have seen at work since previousCount was reset
    missed,     \* documents a poll did not find although they were at work
    crossed,    \* two loads have been under way at once
    counts      \* of moves and troubles

vars == <<work, polls, loads, page, sending, moved, witnessed, missed, crossed, counts>>

ActiveStatuses == {"QUEUED", "PROCESSING", "RETRYING"}
NoList == [d \in Documents |-> "none"]

WatchAssumption ==
    /\ IsFiniteSet(Documents) /\ NoCount \notin Nat
    /\ MaxMoves \in Nat /\ MaxTroubles \in Nat

Poll(step, unread, found) == [step |-> step, unread |-> unread, found |-> found]
NoPoll == Poll("idle", {}, {})
NoLoad == [step |-> "idle", list |-> NoList]

(* onMounted: the first poll and the first load begin together. *)
Asking == Poll("asking", ActiveStatuses, {})
Asked == [step |-> "asked", list |-> NoList]

Init ==
    /\ work \in [Documents -> {"none", "QUEUED"}]
    /\ \E p \in Polls : polls = [q \in Polls |-> IF q = p THEN Asking ELSE NoPoll]
    /\ \E l \in Loads : loads = [k \in Loads |-> IF k = l THEN Asked ELSE NoLoad]
    /\ page = [timer |-> FALSE, visible |-> TRUE, previous |-> NoCount, stages |-> {},
               list |-> NoList, failed |-> FALSE]
    /\ sending = FALSE /\ crossed = FALSE
    /\ moved = {} /\ witnessed = {} /\ missed = {}
    /\ counts = [moves |-> 0, troubles |-> 0]

Active == {d \in Documents : work[d] \in ActiveStatuses}
Polling(p) == polls[p].step = "asking"
Loading(l) == loads[l].step # "idle"
Counted(what) == counts' = [counts EXCEPT ![what] = @ + 1]

-----------------------------------------------------------------------------
(* The server: jobs are claimed, retried and followed by the next stage, each
   in one transaction, and another person may upload too.  A document that is
   prepared again, from its own page, is left out. *)
Moves == [none |-> {"QUEUED"}, QUEUED |-> {"PROCESSING", "settled"},
          PROCESSING |-> {"QUEUED", "RETRYING", "settled"}, RETRYING |-> {"PROCESSING"},
          settled |-> {}]

Move(d) ==
    /\ counts.moves < MaxMoves
    /\ \E status \in Moves[work[d]] : work' = [work EXCEPT ![d] = status]
    /\ moved' = moved \cup {d}
    /\ sending' \in {sending, sending \/ work[d] = "none"}
    /\ Counted("moves")
    /\ UNCHANGED <<polls, loads, page, witnessed, missed, crossed>>

-----------------------------------------------------------------------------
(* poll *)
BeginPoll(others) ==
    /\ \E p \in Polls : ~Polling(p) /\ polls' = [others EXCEPT ![p] = Asking]
    /\ moved' = {}

(* loadDocuments *)
BeginLoad ==
    /\ \E l \in Loads : ~Loading(l) /\ loads' = [loads EXCEPT ![l] = Asked]
    /\ crossed' = \E l \in Loads : Loading(l)

TimerFires ==
    /\ page.timer
    /\ BeginPoll(polls)
    /\ page' = [page EXCEPT !.timer = FALSE]
    /\ UNCHANGED <<work, loads, sending, witnessed, missed, crossed, counts>>

Hide ==
    /\ page.visible /\ counts.troubles < MaxTroubles
    /\ page' = [page EXCEPT !.visible = FALSE]
    /\ Counted("troubles")
    /\ UNCHANGED <<work, polls, loads, sending, moved, witnessed, missed, crossed>>

(* onVisible *)
Show ==
    /\ ~page.visible
    /\ BeginPoll(polls)
    /\ page' = [page EXCEPT !.visible = TRUE]
    /\ UNCHANGED <<work, loads, sending, witnessed, missed, crossed, counts>>

(* onIntakeFinished: the list is loaded, and wake. *)
IntakeFinished ==
    /\ sending
    /\ BeginPoll(polls) /\ BeginLoad
    /\ page' = [page EXCEPT !.previous = NoCount, !.failed = FALSE]
    /\ sending' = FALSE /\ witnessed' = {}
    /\ UNCHANGED <<work, missed, counts>>

ReadStatus(p, s) ==
    /\ s \in polls[p].unread
    /\ polls' = [polls EXCEPT ![p] = Poll("asking", @.unread \ {s},
                                         @.found \cup {d \in Documents : work[d] = s})]
    /\ UNCHANGED <<work, loads, page, sending, moved, witnessed, missed, crossed, counts>>

Found(p) == polls[p].found
Told(p) == Polling(p) /\ polls[p].unread = {}

(* schedule: not while the tab is hidden. *)
Scheduled == page.timer \/ page.visible

(* Mutant of Decreased: "settled" waits until nothing is at work. *)
DecreasedToOne(n) == page.previous # NoCount /\ n < page.previous /\ n > 0

Decreased(n) == page.previous # NoCount /\ n < page.previous

(* The three answers have arrived: onStages, and "settled". *)
Land(p) ==
    LET n == Cardinality(Found(p)) IN
    /\ Told(p)
    /\ polls' = [polls EXCEPT ![p] = NoPoll]
    /\ IF Decreased(n) THEN BeginLoad ELSE UNCHANGED <<loads, crossed>>
    /\ page' = [page EXCEPT !.stages = Found(p), !.previous = n,
                            !.failed = @ /\ ~Decreased(n),
                            !.timer = IF n > 0 THEN Scheduled ELSE @]
    /\ witnessed' = witnessed \cup Found(p)
    /\ missed' = (missed \ Found(p)) \cup (Active \ Found(p))
    /\ UNCHANGED <<work, sending, moved, counts>>

PollFails(p) ==
    /\ Polling(p) /\ counts.troubles < MaxTroubles
    /\ polls' = [polls EXCEPT ![p] = NoPoll]
    /\ page' = [page EXCEPT !.timer = Scheduled]
    /\ Counted("troubles")
    /\ UNCHANGED <<work, loads, sending, moved, witnessed, missed, crossed>>

-----------------------------------------------------------------------------
ReadList(l) ==
    /\ loads[l].step = "asked"
    /\ loads' = [loads EXCEPT ![l] = [step |-> "read", list |->
           [d \in Documents |-> IF d \in Active THEN "open" ELSE work[d]]]]
    /\ UNCHANGED <<work, polls, page, sending, moved, witnessed, missed, crossed, counts>>

LandList(l) ==
    /\ loads[l].step = "read"
    /\ page' = [page EXCEPT !.list = loads[l].list]
    /\ loads' = [loads EXCEPT ![l] = NoLoad]
    /\ UNCHANGED <<work, polls, sending, moved, witnessed, missed, crossed, counts>>

LoadFails(l) ==
    /\ Loading(l) /\ counts.troubles < MaxTroubles
    /\ page' = [page EXCEPT !.failed = TRUE]
    /\ loads' = [loads EXCEPT ![l] = NoLoad]
    /\ Counted("troubles")
    /\ UNCHANGED <<work, polls, sending, moved, witnessed, missed, crossed>>

(* "Tentar novamente" *)
LoadAgain ==
    /\ page.failed
    /\ BeginLoad
    /\ page' = [page EXCEPT !.failed = FALSE]
    /\ UNCHANGED <<work, polls, sending, moved, witnessed, missed, counts>>

Next ==
    \/ \E d \in Documents : Move(d)
    \/ TimerFires \/ Hide \/ Show \/ IntakeFinished \/ LoadAgain
    \/ \E p \in Polls : (\E s \in ActiveStatuses : ReadStatus(p, s)) \/ Land(p) \/ PollFails(p)
    \/ \E l \in Loads : ReadList(l) \/ LandList(l) \/ LoadFails(l)

Spec == Init /\ [][Next]_vars

-----------------------------------------------------------------------------
TypeOK ==
    /\ work \in [Documents -> ActiveStatuses \cup {"none", "settled"}]
    /\ \A p \in Polls : Found(p) \subseteq Documents
    /\ page.stages \subseteq Documents /\ page.previous \in {NoCount} \cup 0 .. Cardinality(Documents)

(* The tab is open, and nothing will be asked unless somebody acts. *)
AtRest == page.visible /\ ~page.timer /\ \A p \in Polls : ~Polling(p)

(* "Quando nada mais está ativo, o polling para sozinho": it stops with work
   left only if the work changed since the last poll began. *)
StopsWhenDone == AtRest => Active \subseteq moved

(* A document the polls have seen at work and then no more is shown as it
   ended, unless a poll overlooked it between its three answers, or two loads
   of the list crossed. *)
SettledIsShown ==
    AtRest /\ ~page.failed /\ ~crossed /\ (\A l \in Loads : ~Loading(l)) =>
        \A d \in witnessed \ missed :
            page.list[d] = "settled" /\ d \notin page.stages

PollingIsFaithful == TypeOK /\ StopsWhenDone /\ SettledIsShown
===============================================================================
