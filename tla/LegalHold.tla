------------------------------ MODULE LegalHold ------------------------------
(***************************************************************************)
(* The legal hold of a case and the removals it has to stop: of the case,  *)
(* of its documents and of the persons who take part in it.  A removal     *)
(* looks at the hold for its message, and again in its transaction: the    *)
(* case in the WHERE of the update, documents and persons in a query of    *)
(* their own before it.  All removals are logical ones.                    *)
(***************************************************************************)
EXTENDS Naturals

CONSTANTS
    Cases, Documents, Persons,
    CaseOf,     \* [Documents -> Cases]
    Requests, NoThing, NoCase

HoldAssumption ==
    /\ CaseOf \in [Documents -> Cases]
    /\ NoThing \notin Cases \cup Documents \cup Persons
    /\ NoCase \notin Cases
    /\ Cases \cap Documents = {} /\ Cases \cap Persons = {} /\ Documents \cap Persons = {}

VARIABLES
    holds,      \* cases with legalHoldAt
    removed,    \* cases, documents and persons with deletedAt
    parties,    \* case_participants: <<person, case>>
    removals,   \* what each request is removing, or whom it adds to which case
    excused,    \* requests whose query found no hold before one came to apply
    taken       \* <<thing, excused>> for each thing removed under a hold

vars == <<holds, removed, parties, removals, excused, taken>>

Things == Cases \cup Documents \cup Persons
Removal == [step : {"idle", "asked", "counted", "joining"}, thing : Things \cup {NoThing},
            joins : Cases \cup {NoCase}]

(* What each variable holds; the CHECK of the table is part of it. *)
TypeOK ==
    /\ holds \subseteq Cases
    /\ removed \subseteq Things
    /\ holds \cap removed = {}
    /\ parties \subseteq Persons \X Cases
    /\ removals \in [Requests -> Removal]
    /\ excused \subseteq Requests
    /\ taken \subseteq Things \X BOOLEAN

Idle == [step |-> "idle", thing |-> NoThing, joins |-> NoCase]

Init ==
    /\ holds = {}
    /\ removed = {}
    /\ parties = {}
    /\ removals = [q \in Requests |-> Idle]
    /\ excused = {}
    /\ taken = {}

CasesOf(x) ==
    IF x \in Documents THEN {CaseOf[x]}
    ELSE IF x \in Persons THEN {c \in Cases : <<x, c>> \in parties}
    ELSE {x}
Held(x) == CasesOf(x) \cap holds # {}
Visible(x) == x \notin removed /\ (x \in Documents => CaseOf[x] \notin removed)
Becomes(q, r) == removals' = [removals EXCEPT ![q] = r]
Counted(S) == {q \in Requests : removals[q].step = "counted" /\ removals[q].thing \in S}
-----------------------------------------------------------------------------
SetLegalHold(c) ==
    /\ c \notin removed
    /\ holds' = holds \cup {c}
    /\ excused' = excused \cup Counted({x \in Things : c \in CasesOf(x)})
    /\ UNCHANGED <<removed, parties, removals, taken>>

ReleaseLegalHold(c) ==
    /\ c \notin removed
    /\ holds' = holds \ {c}
    /\ UNCHANGED <<removed, parties, removals, excused, taken>>

(* assertNotUnderLegalHold, assertNotInHeldCase: the refusal with a message. *)
AskRemoval(q, x) ==
    /\ removals[q].step = "idle"
    /\ Visible(x) /\ ~Held(x)
    /\ Becomes(q, [Idle EXCEPT !.step = "asked", !.thing = x])
    /\ UNCHANGED <<holds, removed, parties, excused, taken>>

RemoveCase(q) ==
    LET c == removals[q].thing IN
    /\ removals[q].step = "asked" /\ c \in Cases
    /\ removed' = IF c \in holds THEN removed ELSE removed \cup {c}
    /\ Becomes(q, Idle)
    /\ UNCHANGED <<holds, parties, excused, taken>>

(* Mutant of InHeldCase: the hold was asked for before, and is not again. *)
InHeldCaseAsked(x) == FALSE

InHeldCase(x) == Held(x)

(* The query of softDelete, for a document or a person. *)
CountHeld(q) ==
    LET x == removals[q].thing IN
    /\ removals[q].step = "asked" /\ x \notin Cases
    /\ Becomes(q, IF InHeldCase(x) THEN Idle ELSE [removals[q] EXCEPT !.step = "counted"])
    /\ UNCHANGED <<holds, removed, parties, excused, taken>>

(* The update that follows it; a thing already removed is not found. *)
Remove(q) ==
    LET x == removals[q].thing IN
    /\ removals[q].step = "counted"
    /\ removed' = removed \cup {x}
    /\ taken' = IF x \notin removed /\ Held(x) THEN taken \cup {<<x, q \in excused>>} ELSE taken
    /\ excused' = excused \ {q}
    /\ Becomes(q, Idle)
    /\ UNCHANGED <<holds, parties>>

AskParticipation(q, p, c) ==
    /\ removals[q].step = "idle"
    /\ {p, c} \cap removed = {}
    /\ Becomes(q, [step |-> "joining", thing |-> p, joins |-> c])
    /\ UNCHANGED <<holds, removed, parties, excused, taken>>

(* The insertion asks for neither the person nor the case again. *)
CreateParticipant(q) ==
    LET r == removals[q] IN
    /\ r.step = "joining"
    /\ parties' = parties \cup {<<r.thing, r.joins>>}
    /\ excused' = IF r.joins \in holds THEN excused \cup Counted({r.thing}) ELSE excused
    /\ Becomes(q, Idle)
    /\ UNCHANGED <<holds, removed, taken>>

(* The transaction is rolled back, or the process dies. *)
Abort(q) ==
    /\ removals[q].step # "idle"
    /\ excused' = excused \ {q}
    /\ Becomes(q, Idle)
    /\ UNCHANGED <<holds, removed, parties, taken>>

Next ==
    \/ \E c \in Cases : SetLegalHold(c) \/ ReleaseLegalHold(c)
    \/ \E q \in Requests :
        \/ \E x \in Things : AskRemoval(q, x)
        \/ \E p \in Persons, c \in Cases : AskParticipation(q, p, c)
        \/ RemoveCase(q)
        \/ CountHeld(q)
        \/ Remove(q)
        \/ CreateParticipant(q)
        \/ Abort(q)

Spec == Init /\ [][Next]_vars

-----------------------------------------------------------------------------
(* A hold stops every removal from a case, but those that had already looked
   for one when it came: by being placed, or by a person's joining the case. *)
OnlyOvertakenRemovals == \A t \in taken : t[2]
=============================================================================
