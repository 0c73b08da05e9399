----------------------------- MODULE CaseRecords -----------------------------
(***************************************************************************)
(* The cases of an office: who may see a confidential one, what is put on  *)
(* record before it is shown, how its fields are changed and what is said  *)
(* when two cases would share a code or a number.                          *)
(*                                                                         *)
(* A request reads the case, decides on what it read, and reads or writes  *)
(* again in statements of its own, whose WHERE asks only that the case is  *)
(* not deleted.  CONFIDENTIAL stands for every level but STANDARD.         *)
(***************************************************************************)
EXTENDS Integers, FiniteSets

CONSTANTS
    Cases,      \* rows, used and free
    Codes, Numbers, NoNumber,   \* internal_code and cnj_number, which may be null
    People,
    Readers,    \* who has confidential_cases.read
    Requests, NoCase, Nobody,
    MaxDate,    \* bound: the days a case is opened and closed on
    Inputs      \* bound: the fields that people give

NoDate == 0
Keep == "keep"      \* a field that is not given
KeepDate == -1
Levels == {"STANDARD", "CONFIDENTIAL"}

Row == [state : {"free", "kept", "deleted"}, code : Codes, number : Numbers \cup {NoNumber},
        level : Levels, openedAt : 1 .. MaxDate, closedAt : NoDate .. MaxDate]
Input == [code : Codes \cup {Keep}, number : Numbers \cup {NoNumber, Keep},
          level : Levels \cup {Keep}, openedAt : {KeepDate} \cup 1 .. MaxDate,
          closedAt : KeepDate .. MaxDate]
NoInput == [code |-> Keep, number |-> Keep, level |-> Keep,
            openedAt |-> KeepDate, closedAt |-> KeepDate]
(* level: of the case when it was read; recorded: case.confidential.read;
   late: the case was classified since; older: its dates, or the names of
   cases, have changed since; clash: the indexes that refused the row. *)
Request == [step : {"idle", "read", "clashed"}, kind : {"detail", "content", "update", "remove"},
            who : People \cup {Nobody}, case : Cases \cup {NoCase}, input : Input,
            level : Levels, recorded : BOOLEAN, late : BOOLEAN, older : BOOLEAN,
            clash : SUBSET {"code", "number"}]
Idle == [step |-> "idle", kind |-> "detail", who |-> Nobody, case |-> NoCase, input |-> NoInput,
         level |-> "STANDARD", recorded |-> FALSE, late |-> FALSE, older |-> FALSE, clash |-> {}]

RecordsAssumption ==
    /\ Readers \subseteq People /\ Nobody \notin People /\ NoCase \notin Cases
    /\ Keep \notin Codes \cup Numbers \cup Levels /\ NoNumber \notin Numbers
    /\ MaxDate \in Nat \ {0} /\ Codes # {}
    /\ Inputs \subseteq Input

VARIABLES
    cases,
    requests,
    crossed,    \* cases whose dates were written by one who had read others
    effect      \* what the last step showed, declassified or said, and to whom

recordVars == <<cases, requests, crossed, effect>>

Effect == [what : {"nothing", "read", "written", "declassified", "told"}, reader : BOOLEAN,
           level : Levels, recorded : BOOLEAN, excused : BOOLEAN, named : BOOLEAN]
NoEffect == [what |-> "nothing", reader |-> TRUE, level |-> "STANDARD", recorded |-> FALSE,
            excused |-> FALSE, named |-> TRUE]

(* What a case is when no more than its code is given, opened today. *)
Unfiled == [state |-> "kept", code |-> CHOOSE k \in Codes : TRUE, number |-> NoNumber,
            level |-> "STANDARD", openedAt |-> 1, closedAt |-> NoDate]

(* What each variable holds. *)
RecordsTyped ==
    /\ cases \in [Cases -> Row]
    /\ requests \in [Requests -> Request]
    /\ crossed \subseteq Cases
    /\ effect \in Effect

RecordsInit ==
    /\ cases = [c \in Cases |-> [Unfiled EXCEPT !.state = "free"]]
    /\ requests = [q \in Requests |-> Idle]
    /\ crossed = {}
    /\ effect = NoEffect

Becomes(q, r) == requests' = [requests EXCEPT ![q] = r]
Given(new, old) == IF new \in {Keep} THEN old ELSE new
GivenDate(new, old) == IF new = KeepDate THEN old ELSE new
Merged(row, in) ==
    [row EXCEPT !.code = Given(in.code, @), !.number = Given(in.number, @),
                !.level = Given(in.level, @), !.openedAt = GivenDate(in.openedAt, @),
                !.closedAt = GivenDate(in.closedAt, @)]

-----------------------------------------------------------------------------
(* #findAccessible: what is not accessible is not found. *)
Accessible(who, c) ==
    cases[c].state = "kept" /\ (cases[c].level # "STANDARD" => who \in Readers)

(* #assertCanUseConfidentiality *)
MayUse(who, level) == level # "STANDARD" => who \in Readers

(* Mutant of Ordered: only dates that come together are compared. *)
OrderedAsGiven(row, in) ==
    in.openedAt # KeepDate /\ in.closedAt \notin {KeepDate, NoDate} => in.closedAt >= in.openedAt

(* #assertDates, on the row that was read and the fields given. *)
Ordered(row, in) ==
    LET new == Merged(row, in) IN new.closedAt = NoDate \/ new.closedAt >= new.openedAt

(* get, list and listForPerson read what they show; assertAccessibleFor... is
   asked before the documents, files, tasks or parties of a case are read. *)
ReadCase(q, who, c, kind, in) ==
    /\ requests[q].step = "idle"
    /\ Accessible(who, c)
    /\ kind = "update" => MayUse(who, Merged(cases[c], in).level) /\ Ordered(cases[c], in)
    /\ Becomes(q, [Idle EXCEPT !.step = "read", !.kind = kind, !.who = who, !.case = c,
                               !.input = in, !.level = cases[c].level])
    /\ effect' = NoEffect
    /\ UNCHANGED <<cases, crossed>>

(* One entry for all the confidential cases of a page. *)
AuditConfidentialRead(q) ==
    LET r == requests[q] IN
    /\ r.step = "read" /\ r.kind \in {"detail", "content"}
    /\ r.level # "STANDARD" /\ ~r.recorded
    /\ Becomes(q, [r EXCEPT !.recorded = TRUE])
    /\ effect' = NoEffect
    /\ UNCHANGED <<cases, crossed>>

(* What was read first is shown, or what a second query finds of the case. *)
Show(q) ==
    LET r == requests[q] IN
    /\ r.step = "read" /\ r.kind \in {"detail", "content"}
    /\ r.level # "STANDARD" => r.recorded
    /\ effect' = [NoEffect EXCEPT !.what = "read", !.reader = (r.who \in Readers),
                      !.level = IF r.kind = "detail" THEN r.level ELSE cases[r.case].level,
                      !.recorded = r.recorded, !.excused = r.kind = "content" /\ r.late]
    /\ Becomes(q, Idle)
    /\ UNCHANGED <<cases, crossed>>

-----------------------------------------------------------------------------
(* The two unique indexes; a deleted case keeps its code and its number. *)
Clashes(c, row) ==
    LET others == {d \in Cases \ {c} : cases[d].state # "free"} IN
    {x \in {"code", "number"} :
        \E d \in others : \/ x = "code" /\ cases[d].code = row.code
                          \/ x = "number" /\ row.number # NoNumber /\ cases[d].number = row.number}

(* The others, when row is written: what they read is not what is there. *)
Overtaken(q, c, row) ==
    [p \in Requests \ {q} |->
        LET r == requests[p]
            old == cases[c]
        IN  IF r.step = "idle" THEN r
            ELSE [r EXCEPT
                !.late = @ \/ (r.case = c /\ old.level = "STANDARD" /\ row.level # "STANDARD"),
                !.older = @ \/ (r.step = "read" /\ r.case = c
                                /\ <<row.openedAt, row.closedAt>> # <<old.openedAt, old.closedAt>>)
                            \/ (r.step = "clashed"
                                /\ <<row.code, row.number>> # <<old.code, old.number>>)]]

Written(q, c, row, r) ==
    /\ cases' = [cases EXCEPT ![c] = row]
    /\ requests' = [p \in Requests |-> IF p = q THEN r ELSE Overtaken(q, c, row)[p]]

(* create: fields and responsible person are checked before, the indexes by the
   insertion.  openedAt is now unless it is given: any day. *)
CreateCase(q, who, c, row) ==
    /\ requests[q].step = "idle"
    /\ cases[c].state = "free"
    /\ row.state = "kept" /\ MayUse(who, row.level) /\ Ordered(row, NoInput)
    /\ effect' = NoEffect
    /\ UNCHANGED crossed
    /\ IF Clashes(c, row) = {}
         THEN Written(q, c, row, Idle)
         ELSE /\ Becomes(q, [Idle EXCEPT !.step = "clashed", !.who = who,
                             !.input = [NoInput EXCEPT !.number = row.number],
                             !.clash = Clashes(c, row)])
              /\ UNCHANGED cases

(* update: the WHERE of updateMany asks for the deletion, not for the level. *)
WriteCase(q) ==
    LET r == requests[q]
        c == r.case
        row == Merged(cases[c], r.input)
    IN  /\ r.step = "read" /\ r.kind = "update"
        /\ cases[c].state = "kept"
        /\ IF Clashes(c, row) # {}
             THEN /\ Becomes(q, [r EXCEPT !.step = "clashed", !.older = FALSE,
                                          !.clash = Clashes(c, row)])
                  /\ effect' = NoEffect
                  /\ UNCHANGED <<cases, crossed>>
             ELSE /\ Written(q, c, row, Idle)
                  /\ crossed' = IF r.older THEN crossed \cup {c} ELSE crossed \ {c}
                  /\ effect' = [NoEffect EXCEPT
                         !.what = IF cases[c].level # "STANDARD" /\ row.level = "STANDARD"
                                    THEN "declassified" ELSE "written",
                         !.reader = (r.who \in Readers), !.level = row.level, !.excused = r.late]

(* Mutant of Occupied: the case that is changed counts among the others. *)
OccupiedByItself(r) ==
    r.input.number \in Numbers
    /\ \E d \in Cases : cases[d].state # "free" /\ cases[d].number = r.input.number

(* #conflictFor looks for the number, and blames the code when it is free. *)
Occupied(r) ==
    r.input.number \in Numbers
    /\ \E d \in Cases \ {r.case} : cases[d].state # "free" /\ cases[d].number = r.input.number

TellConflict(q) ==
    LET r == requests[q] IN
    /\ r.step = "clashed"
    /\ effect' = [NoEffect EXCEPT !.what = "told", !.excused = r.older,
                      !.named = IF Occupied(r) THEN "number" \in r.clash ELSE "code" \in r.clash]
    /\ Becomes(q, Idle)
    /\ UNCHANGED <<cases, crossed>>

(* remove; LegalHold has the hold that may stop it. *)
RemoveCase(q) ==
    LET r == requests[q] IN
    /\ r.step = "read" /\ r.kind = "remove"
    /\ cases[r.case].state = "kept"
    /\ cases' = [cases EXCEPT ![r.case].state = "deleted"]
    /\ Becomes(q, Idle)
    /\ effect' = NoEffect
    /\ UNCHANGED crossed

(* The case is gone, the transaction fails, or the process dies. *)
Abort(q) ==
    /\ requests[q].step # "idle"
    /\ Becomes(q, Idle)
    /\ effect' = NoEffect
    /\ UNCHANGED <<cases, crossed>>

Serve(q) ==
    \/ \E who \in People, c \in Cases :
        \/ \E kind \in {"detail", "content", "remove"} : ReadCase(q, who, c, kind, NoInput)
        \/ \E in \in Inputs : ReadCase(q, who, c, "update", in)
        \/ \E in \in Inputs : in.code # Keep /\ CreateCase(q, who, c, Merged(Unfiled, in))
    \/ AuditConfidentialRead(q)
    \/ Show(q)
    \/ WriteCase(q)
    \/ TellConflict(q)
    \/ RemoveCase(q)
    \/ Abort(q)

RecordsNext == \E q \in Requests : Serve(q)

-----------------------------------------------------------------------------
(* A confidential case is shown to those who may read such cases, and only
   after the reading is on record, but for what was asked before the case was
   classified.  The answer to a change of the case is on record as the change. *)
ShownAsAllowed ==
    effect.what \in {"read", "written"} /\ effect.level # "STANDARD" =>
        effect.excused \/ (effect.reader /\ (effect.what = "read" => effect.recorded))

(* Who may not read a confidential case does not take its level away, unless
   he had read it before the case was classified. *)
ClassificationStays == effect.what = "declassified" => effect.reader \/ effect.excused

(* No case is closed before it was opened, unless the two dates were changed
   by two requests at once. *)
DatesInOrder ==
    \A c \in Cases \ crossed :
        cases[c].state # "free" => cases[c].closedAt = NoDate \/ cases[c].closedAt >= cases[c].openedAt

(* Whoever meets another case's code or number is told which of them it was,
   unless codes or numbers changed before the look. *)
ConflictsAreNamed == effect.what = "told" => effect.named \/ effect.excused

CasesAreGuarded == ShownAsAllowed /\ ClassificationStays /\ DatesInOrder /\ ConflictsAreNamed
=============================================================================
