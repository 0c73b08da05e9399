----------------------------- MODULE ListScreens -----------------------------
(***************************************************************************)
(* The screens of the web application that show a list read page by page,  *)
(* and what they do with answers that come in any order.  A screen keeps   *)
(* the rows, the cursor and two flags; nothing ties an answer to the       *)
(* request it answers, so what protects a list is which controls a screen  *)
(* disables while an answer is due.                                        *)
(***************************************************************************)
EXTENDS Naturals, Sequences, FiniteSets

CONSTANTS
    Queries,        \* terms, filters and periods
    NoQuery,        \* what a screen opens with
    Slots,          \* bound: answers that are due
    MaxPages,       \* bound: pages of a list
    MaxUpdates      \* bound: changes and creations of rows under way

ScreensAssumption ==
    NoQuery \in Queries /\ IsFiniteSet(Slots) /\ MaxPages \in Nat \ {0} /\ MaxUpdates \in Nat

Typed == {"cases", "audit", "costs"}                    \* a form that is submitted
Chosen == {"persons", "agenda"}                         \* a choice that loads at once
Panels == {"documents", "participants", "personCases"}  \* parts of a larger screen
Edited == {"tasks", "timeline"}                         \* rows that are changed in place
Screens == Typed \cup Chosen \cup Panels \cup Edited

VARIABLES
    screen,     \* which one is open
    input,      \* what its fields hold
    applied,    \* the query of the last first page asked for; appliedSearch of CasesView
    list,       \* the pages it shows: their number, query, and the query of the cursor
    cursor,     \* nextCursor: after which page of which query; page 0 is null
    flags,      \* loading, loadingMore, failure and the failure of a further page
    flights,    \* the requests whose answer is due
    crossed,    \* a request of this list was sent while the answer of another was due
    updates,    \* changes and creations of rows whose answer is due
    added       \* what became of the participants created from the screen

vars == <<screen, input, applied, list, cursor, flags, flights, crossed, updates, added>>

Page == [query : Queries, of : Queries, number : 1 .. MaxPages]
Cursor == [of : Queries, after : 0 .. MaxPages]
Flight == [due : BOOLEAN, appending : BOOLEAN, query : Queries, from : Cursor]
Null == [of |-> NoQuery, after |-> 0]
(* front: one stands in front of the pages; again: one of those, or one whose
   answer is due, may be on a page in view as well; late: the list was not
   whole in view when one was created. *)
Added == [front : BOOLEAN, again : BOOLEAN, late : BOOLEAN]
Landed == [due |-> FALSE, appending |-> FALSE, query |-> NoQuery, from |-> Null]

(* What each variable holds. *)
TypeOK ==
    /\ screen \in Screens /\ input \in Queries /\ applied \in Queries
    /\ list \in Seq(Page) /\ cursor \in Cursor
    /\ flags \in [loading : BOOLEAN, more : BOOLEAN, failure : BOOLEAN, moreFailure : BOOLEAN]
    /\ flights \in [Slots -> Flight]
    /\ crossed \in BOOLEAN /\ updates \in 0 .. MaxUpdates
    /\ added \in Added

Due == {s \in Slots : flights[s].due}

(* onMounted *)
Init ==
    /\ screen \in Screens
    /\ input = NoQuery /\ applied = NoQuery
    /\ list = <<>> /\ cursor = Null
    /\ flags = [loading |-> TRUE, more |-> FALSE, failure |-> FALSE, moreFailure |-> FALSE]
    /\ \E s \in Slots : flights = [t \in Slots |-> [Landed EXCEPT !.due = (t = s)]]
    /\ crossed = FALSE
    /\ updates = 0
    /\ added = [front |-> FALSE, again |-> FALSE, late |-> FALSE]

Send(query, from) ==
    \E s \in Slots \ Due :
        flights' = [flights EXCEPT ![s] =
            [due |-> TRUE, appending |-> from # Null, query |-> query, from |-> from]]

(* load() without a cursor.  The panels of a case keep their rows in view. *)
LoadFirst(query) ==
    /\ Send(query, Null)
    /\ applied' = query
    /\ flags' = [flags EXCEPT !.loading = IF screen \in {"documents", "participants"} THEN @ ELSE TRUE,
                              !.failure = FALSE]
    /\ crossed' = (Due # {})
    /\ UNCHANGED <<screen, list, cursor, added>>

(* The rows are in view: no skeleton and no failure in their place. *)
Shown == ~flags.loading /\ ~flags.failure

-----------------------------------------------------------------------------
Type(q) ==
    /\ screen \in Typed /\ q # input
    /\ input' = q
    /\ UNCHANGED <<screen, applied, list, cursor, flags, flights, crossed, updates, added>>

(* The button of the cases' search is never disabled; the others are while a
   first page is loading. *)
MaySubmit == screen \in Typed /\ (screen = "cases" \/ ~flags.loading)

Submit ==
    /\ MaySubmit
    /\ LoadFirst(input)
    /\ UNCHANGED <<input, updates>>

(* Mutant of MayChoose: the type of persons is chosen while a further page is due. *)
MayChooseWhileMore ==
    \/ screen = "agenda"
    \/ screen = "persons" /\ ~flags.loading
    \/ screen = "costs" /\ Shown

(* The periods of the agenda are never disabled, the select of persons is while
   any page is due, and what the costs are grouped by goes with the list. *)
MayChoose ==
    \/ screen = "agenda"
    \/ screen = "persons" /\ ~flags.loading /\ ~flags.more
    \/ screen = "costs" /\ Shown

Choose(q) ==
    /\ MayChoose
    /\ input' = q
    /\ LoadFirst(q)
    /\ UNCHANGED updates

(* "Tentar novamente", in the place of the list. *)
Retry ==
    /\ flags.failure /\ ~flags.loading
    /\ LoadFirst(IF screen = "cases" THEN applied ELSE input)
    /\ UNCHANGED <<input, updates>>

(* refreshDocuments, when an intake or the preparation of a document ends. *)
RefreshDocuments ==
    /\ screen = "documents" /\ ~flags.loading
    /\ LoadFirst(input)
    /\ UNCHANGED <<input, updates>>

(* A task or an event is changed; somebody else's change makes it reload. *)
Update ==
    /\ screen \in Edited /\ Shown /\ updates < MaxUpdates
    /\ updates' = updates + 1
    /\ UNCHANGED <<screen, input, applied, list, cursor, flags, flights, crossed, added>>

(* The row is changed in place; or the participant was refused, or its form
   was closed before the answer came. *)
Updated ==
    /\ updates > 0
    /\ updates' = updates - 1
    /\ UNCHANGED <<screen, input, applied, list, cursor, flags, flights, crossed, added>>

(* save() of ParticipantForm.  The server lists the new participant last, so
   a page that is not in view yet may hold it. *)
CreateParticipant ==
    /\ screen = "participants" /\ ~flags.loading
    /\ updates = 0 /\ updates < MaxUpdates
    /\ updates' = updates + 1
    /\ added' = [added EXCEPT !.late = @ \/ cursor # Null \/ Due # {} \/ flags.failure]
    /\ UNCHANGED <<screen, input, applied, list, cursor, flags, flights, crossed>>

(* The participant is put in front of the rows in view. *)
OnParticipantCreated ==
    /\ screen = "participants" /\ updates > 0
    /\ updates' = updates - 1
    /\ added' = [added EXCEPT !.front = TRUE]
    /\ UNCHANGED <<screen, input, applied, list, cursor, flags, flights, crossed>>

Conflict ==
    /\ screen \in Edited /\ updates > 0
    /\ updates' = updates - 1
    /\ LoadFirst(input)
    /\ UNCHANGED input

-----------------------------------------------------------------------------
(* Mutant of QueryOfMore: the search box, whatever was submitted. *)
QueryOfMoreTyped == input

(* "O cursor da próxima página tem de usar o mesmo": only the cases keep the
   term that was submitted apart from the one in the box. *)
QueryOfMore == IF screen = "cases" THEN applied ELSE input

LoadMore ==
    /\ cursor # Null /\ ~flags.more /\ ~flags.loading
    /\ screen \in Panels \/ Shown
    /\ Send(QueryOfMore, cursor)
    /\ flags' = IF screen = "personCases" THEN [flags EXCEPT !.loading = TRUE, !.failure = FALSE]
                ELSE [flags EXCEPT !.more = TRUE, !.moreFailure = FALSE]
    /\ crossed' = (crossed \/ Due # {})
    /\ UNCHANGED <<screen, input, applied, list, cursor, updates, added>>

Rested == [flags EXCEPT !.loading = FALSE, !.more = FALSE]

(* A page that comes now may hold a participant that stands in front, or will:
   a first page takes the place of every row in view. *)
AddedAfter(appending) ==
    CASE screen # "participants" -> added
      [] screen = "participants" /\ appending ->
            [added EXCEPT !.again = @ \/ added.front \/ updates > 0]
      [] OTHER -> [front |-> FALSE, again |-> updates > 0, late |-> added.late /\ updates > 0]

Answer(s, hasNextPage) ==
    LET f == flights[s]
        page == [query |-> f.query, of |-> IF f.appending THEN f.from.of ELSE f.query,
                 number |-> f.from.after + 1]
    IN  /\ f.due
        /\ hasNextPage => page.number < MaxPages /\ screen \notin {"agenda", "costs"}
        /\ list' = IF f.appending THEN Append(list, page) ELSE <<page>>
        /\ cursor' = IF hasNextPage THEN [of |-> f.query, after |-> page.number] ELSE Null
        /\ flags' = Rested
        /\ flights' = [flights EXCEPT ![s] = Landed]
        /\ added' = AddedAfter(f.appending)
        /\ UNCHANGED <<screen, input, applied, crossed, updates>>

(* The panels and the edited lists keep their rows; the others keep them only
   when a further page was asked for. *)
Fail(s) ==
    LET f == flights[s] IN
    /\ f.due
    /\ list' = IF f.appending \/ screen \in Panels \cup Edited \cup {"costs"} THEN list ELSE <<>>
    /\ flags' = IF f.appending /\ screen \in {"documents", "participants"}
                THEN [Rested EXCEPT !.moreFailure = TRUE]
                ELSE [Rested EXCEPT !.failure = TRUE]
    /\ flights' = [flights EXCEPT ![s] = Landed]
    /\ UNCHANGED <<screen, input, applied, cursor, crossed, updates, added>>

Next ==
    \/ \E q \in Queries : Type(q) \/ Choose(q)
    \/ Submit
    \/ Retry
    \/ RefreshDocuments
    \/ Update
    \/ Updated
    \/ CreateParticipant
    \/ OnParticipantCreated
    \/ Conflict
    \/ LoadMore
    \/ \E s \in Slots : Fail(s) \/ \E hasNextPage \in BOOLEAN : Answer(s, hasNextPage)

Spec == Init /\ [][Next]_vars

-----------------------------------------------------------------------------
(* The audit reads a further page with what its fields hold by then. *)
Mixed == screen = "audit" /\ \E i \in DOMAIN list : list[i].of # list[i].query

(* A list at rest is the first pages of one query, the one asked for, without
   a hole or a repetition: the pages add up even though nothing says which
   request an answer is of.  Not so where two requests of one list crossed:
   the button of the cases' search (CasesView.vue:65), the periods of the
   agenda, a refresh of the documents and the reload after a conflict go out
   while an answer is due, and the later answer stays.  Nor on the audit once
   a further page was read with fields that hold another query. *)
PagesOfOneQuery ==
    Due = {} /\ ~flags.failure /\ ~crossed /\ ~Mixed =>
        /\ list # <<>>
        /\ \A i \in DOMAIN list : list[i] = [query |-> applied, of |-> applied, number |-> i]
        /\ screen \in Chosen => applied = input

(* Screens that disable their controls never have two answers due. *)
NeverCrossed == screen \in {"persons", "costs", "participants", "personCases"} => ~crossed

(* A participant put in front of the list is on no page in view, when the
   whole list was in view as it was created.  Otherwise the last page shows it
   a second time: CaseDetailView.vue:181 puts it in front of a list that ends
   with it. *)
ParticipantShownOnce == added.again => added.late

(* What a screen shows at rest is one list, and where controls are disabled
   this needs no luck with the order of the answers; with the exceptions that
   PagesOfOneQuery and ParticipantShownOnce name. *)
ListIsWhole == TypeOK /\ PagesOfOneQuery /\ NeverCrossed /\ ParticipantShownOnce
=============================================================================
