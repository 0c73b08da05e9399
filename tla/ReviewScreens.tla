---------------------------- MODULE ReviewScreens ----------------------------
(***************************************************************************)
(* Two screens of the web application on which a person decides about one  *)
(* thing at a time: the page of a document, with its fields and the data   *)
(* found in it, and the checklist of a case.  A decision is written by one *)
(* request and shown as the server answers it; what was already decided by *)
(* somebody else makes the page of a document read everything again, while *)
(* other answers may be due.                                               *)
(***************************************************************************)
EXTENDS Naturals, FiniteSets

CONSTANTS
    Fields,         \* the fields of the document, one form
    Entities,       \* the data found in it, each to be confirmed once
    Items,          \* of the checklists of the case
    NoThing,
    Slots,          \* bound: requests under way at once
    MaxChanges      \* bound: what other people change

Things == Fields \cup Entities \cup Items
Values == {"open", "done"}

ReviewAssumption ==
    /\ Fields \cap Entities = {} /\ Fields \cap Items = {} /\ Entities \cap Items = {}
    /\ NoThing \notin Things /\ IsFiniteSet(Slots) /\ MaxChanges \in Nat

VARIABLES
    screen,     \* "document" or "checklist"
    server,     \* what is so of each thing
    shown,      \* what the screen shows of it
    flights,    \* the requests whose answer is due
    flags,      \* loading, failure
    busy,       \* saving, for the fields; updating, a set of items
    confirming, \* confirmingEntityId
    behind,     \* things decided by others, or with an answer that was lost, since they were
                \* read, or read while another answer about them was due
    changes,
    chip        \* of the checklist: the status shown, and whether an item was decided since

reviewVars == <<screen, server, shown, flights, flags, busy, confirming, behind, changes, chip>>

Flight == [step : {"idle", "asked", "served", "known", "failed"}, thing : Things \cup {NoThing},
           value : Values, read : [Things -> Values],
           since : SUBSET Things,               \* what it may not have the last word on
           after : Entities \cup {NoThing}]     \* the confirmation that waits for this load
Blank == [t \in Things |-> "open"]
Landed == [step |-> "idle", thing |-> NoThing, value |-> "open", read |-> Blank,
           since |-> {}, after |-> NoThing]

On(s) == IF s = "document" THEN Fields \cup Entities ELSE Items
Due == {s \in Slots : flights[s].step # "idle"}
About(s) == IF flights[s].thing = NoThing THEN Things ELSE {flights[s].thing}

(* What each variable holds. *)
ReviewTyped ==
    /\ screen \in {"document", "checklist"}
    /\ server \in [Things -> Values] /\ shown \in [Things -> Values]
    /\ flights \in [Slots -> Flight]
    /\ flags \in [loading : BOOLEAN, failure : BOOLEAN]
    /\ busy \subseteq Fields \cup Items /\ confirming \in Entities \cup {NoThing}
    /\ behind \subseteq Things /\ changes \in 0 .. MaxChanges

(* refreshChecklistStatus: complete when no required item is pending; the items
   here are required ones of one list. *)
StatusOf(values) == IF \A t \in Items : values[t] = "done" THEN "done" ELSE "open"
Chip == [status : Values, old : BOOLEAN]

Starts(asked, loading) ==
    /\ server = Blank /\ shown = Blank
    /\ flights = [s \in Slots |-> IF s \in asked THEN [Landed EXCEPT !.step = "asked"] ELSE Landed]
    /\ flags = [loading |-> loading, failure |-> FALSE]
    /\ busy = {} /\ confirming = NoThing
    /\ behind = {} /\ changes = 0
    /\ chip = [status |-> StatusOf(Blank), old |-> FALSE]

(* onMounted *)
ReviewInit == screen \in {"document", "checklist"} /\ \E s \in Slots : Starts({s}, TRUE)

(* No screen is open. *)
Unopened == screen = "document" /\ Starts({}, FALSE)

-----------------------------------------------------------------------------
(* flight replaces what s held, and crosses the others that tell of the same. *)
Ask(s, flight, about) ==
    flights' = [p \in Slots |->
        IF p = s THEN [flight EXCEPT !.since = about \cap UNION {About(o) : o \in Due \ {s}}]
        ELSE IF p \in Due THEN [flights[p] EXCEPT !.since = @ \cup (About(p) \cap about)]
        ELSE flights[p]]

Load(s, after) ==
    /\ Ask(s, [Landed EXCEPT !.step = "asked", !.after = after], Things)
    /\ flags' = [loading |-> TRUE, failure |-> FALSE]

(* "Tentar novamente" *)
LoadAgain(s) ==
    /\ s \notin Due
    /\ flags.failure /\ ~flags.loading
    /\ Load(s, NoThing)
    /\ UNCHANGED <<screen, server, shown, busy, confirming, behind, changes, chip>>

(* Nothing can be pressed behind the skeleton, or behind a failure. *)
Pressable == ~flags.loading /\ ~flags.failure

Write(s, t, v) == Ask(s, [Landed EXCEPT !.step = "asked", !.thing = t, !.value = v], {t})

SaveMetadata(s, t, v) ==
    /\ s \notin Due /\ Pressable /\ screen = "document" /\ t \in Fields
    /\ t \notin busy
    /\ busy' = busy \cup {t}
    /\ Write(s, t, v)
    /\ UNCHANGED <<screen, server, shown, flags, confirming, behind, changes, chip>>

(* The button of the entity that was pressed last is disabled, no other. *)
ConfirmEntity(s, t) ==
    /\ s \notin Due /\ Pressable /\ screen = "document" /\ t \in Entities
    /\ shown[t] = "open" /\ confirming # t
    /\ confirming' = t
    /\ Write(s, t, "done")
    /\ UNCHANGED <<screen, server, shown, flags, busy, behind, changes, chip>>

(* Mutant of MayUpdate: one item may be pressed again before it is answered. *)
MayUpdateAgain(t, v) == shown[t] # v

MayUpdate(t, v) == t \notin busy /\ shown[t] # v

UpdateItem(s, t, v) ==
    /\ s \notin Due /\ Pressable /\ screen = "checklist" /\ t \in Items
    /\ MayUpdate(t, v)
    /\ busy' = busy \cup {t}
    /\ Write(s, t, v)
    /\ UNCHANGED <<screen, server, shown, flags, confirming, behind, changes, chip>>

-----------------------------------------------------------------------------
(* The server: what is confirmed is not confirmed again; the rest is written
   over.  Who else reads the case may decide too. *)
Known(s) == flights[s].thing \in Entities /\ server[flights[s].thing] = "done"

Serve(s) ==
    LET f == flights[s] IN
    /\ f.step = "asked"
    /\ server' = IF f.thing = NoThing \/ Known(s) THEN server ELSE [server EXCEPT ![f.thing] = f.value]
    /\ flights' = [flights EXCEPT ![s].step = IF Known(s) THEN "known" ELSE "served",
                                  ![s].read = IF f.thing = NoThing THEN server ELSE Blank]
    /\ chip' = [chip EXCEPT !.old = @ \/ f.thing \in Items]
    /\ UNCHANGED <<screen, shown, flags, busy, confirming, behind, changes>>

Change(t, v) ==
    /\ changes < MaxChanges
    /\ t \in On(screen) /\ server[t] # v /\ (t \in Entities => v = "done")
    /\ server' = [server EXCEPT ![t] = v]
    /\ behind' = behind \cup {t}
    /\ changes' = changes + 1
    /\ chip' = [chip EXCEPT !.old = @ \/ t \in Items]
    /\ flights' = [s \in Slots |-> IF flights[s].step = "served" /\ t \in About(s)
                                     THEN [flights[s] EXCEPT !.since = @ \cup {t}] ELSE flights[s]]
    /\ UNCHANGED <<screen, shown, flags, busy, confirming>>

(* Refused, or its answer is lost. *)
GoWrong(s) ==
    LET f == flights[s] IN
    /\ f.step \in {"asked", "served"}
    /\ flights' = [flights EXCEPT ![s].step = "failed"]
    /\ behind' = IF f.step = "served" /\ f.thing # NoThing THEN behind \cup {f.thing} ELSE behind
    /\ UNCHANGED <<screen, server, shown, flags, busy, confirming, changes, chip>>

-----------------------------------------------------------------------------
(* finally: the other confirmation, if there is one, counts as over too. *)
Released(t) ==
    /\ busy' = busy \ {t}
    /\ confirming' = IF t \in Entities THEN NoThing ELSE confirming

(* load shows the status of the list as it was read, and nothing else does:
   updateItem puts the item in its place and leaves the list around it. *)
ChipRead(s) ==
    chip' = IF flights[s].step = "served"
              THEN [status |-> StatusOf(flights[s].read), old |-> flights[s].since # {}]
              ELSE chip

(* What an answer tells of is up to date, but for what was decided since. *)
CaughtUp(s) ==
    behind' = IF flights[s].step = "served" THEN (behind \ About(s)) \cup flights[s].since ELSE behind

LandLoad(s) ==
    LET f == flights[s] IN
    /\ f.thing = NoThing /\ f.step \in {"served", "failed"}
    /\ shown' = IF f.step = "served" THEN f.read ELSE shown
    /\ flags' = [loading |-> FALSE, failure |-> flags.failure \/ f.step = "failed"]
    /\ Released(f.after)
    /\ CaughtUp(s)
    /\ ChipRead(s)
    /\ flights' = [flights EXCEPT ![s] = Landed]
    /\ UNCHANGED <<screen, server, changes>>

LandWrite(s) ==
    LET f == flights[s] IN
    /\ f.thing # NoThing /\ f.step \in {"served", "failed"}
    /\ shown' = IF f.step = "served" THEN [shown EXCEPT ![f.thing] = f.value] ELSE shown
    /\ Released(f.thing)
    /\ CaughtUp(s)
    /\ flights' = [flights EXCEPT ![s] = Landed]
    /\ UNCHANGED <<screen, server, flags, changes, chip>>

(* EXTRACTED_ENTITY_ALREADY_CONFIRMED: everything is read again, and the
   button stays as it is until then. *)
LandKnown(s) ==
    /\ flights[s].step = "known"
    /\ Load(s, flights[s].thing)
    /\ UNCHANGED <<screen, server, shown, busy, confirming, behind, changes, chip>>

ReviewNext ==
    \/ \E s \in Slots :
        \/ LoadAgain(s) \/ Serve(s) \/ GoWrong(s) \/ LandLoad(s) \/ LandWrite(s) \/ LandKnown(s)
        \/ \E t \in Entities : ConfirmEntity(s, t)
        \/ \E t \in Fields, v \in Values : SaveMetadata(s, t, v)
        \/ \E t \in Items, v \in Values : UpdateItem(s, t, v)
    \/ \E t \in Things, v \in Values : Change(t, v)

-----------------------------------------------------------------------------
AtRest == Due = {} /\ ~flags.failure

(* When nothing is due the screen shows what is so of each field, datum and
   item, but for what others have decided since and what was asked for while
   another answer about it was due: answers are put in their places in any
   order. *)
ShownIsSo == AtRest => \A t \in On(screen) \ behind : shown[t] = server[t]

(* The status of the list is another matter: it is so only until the first item
   is decided, by the page itself included (CaseChecklistView.vue:204), and is
   then shown as it was until the page is opened again. *)
StatusIsAsRead ==
    /\ chip \in Chip
    /\ screen = "checklist" /\ AtRest /\ ~chip.old => chip.status = StatusOf(server)

(* On the checklist no two answers about one thing are ever due, so there is
   no order that could be wrong. *)
OneAnswerEach ==
    screen = "checklist" => \A p, s \in Due : p # s => About(p) \cap About(s) = {}

(* No control stays disabled, and no skeleton stays, when all has landed. *)
NothingStaysBusy == Due = {} => busy = {} /\ confirming = NoThing /\ ~flags.loading

ScreensAreFaithful ==
    ReviewTyped /\ ShownIsSo /\ StatusIsAsRead /\ OneAnswerEach /\ NothingStaysBusy
==============================================================================
