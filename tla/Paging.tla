------------------------------- MODULE Paging -------------------------------
(***************************************************************************)
(* The lists of the API, read page by page while rows come, go and change. *)
(* A list asks for one row more than the page holds, answers whether there *)
(* is more, and hands out a cursor made of the last row shown: the column  *)
(* the list is ordered by, and the id that breaks ties.  The next page is  *)
(* what follows the cursor at the time it is asked for; nothing of the     *)
(* list is kept between two pages.                                         *)
(***************************************************************************)
EXTENDS Integers, FiniteSets

CONSTANTS
    Ids,        \* numbers that stand for the order of the UUIDs
    MaxTime,    \* bound: the values of a column
    Limit       \* rows of a page

(* Later than any time: NULL, which the timeline puts last. *)
Undated == MaxTime + 1
Times == 1 .. MaxTime

PagingAssumption ==
    /\ Ids \subseteq Nat /\ IsFiniteSet(Ids)
    /\ MaxTime \in Nat \ {0} /\ Limit \in Nat \ {0}

VARIABLES
    list,       \* the list that is read: its ordering, and the column of its cursor
    rows,       \* the rows of its table, those of id not Shown out of reach of its filter
    shown,      \* ids the filter of the list selects
    reader,     \* the cursor, whether there is more, how often each id was received
    throughout  \* ids that were there, in their place, since the first page was read

vars == <<list, rows, shown, reader, throughout>>

Row == [createdAt : Times, updatedAt : Times, occurredAt : Times \cup {Undated}]
NewestFirst(column) == [by |-> column, newest |-> TRUE]
OldestFirst(column) == [by |-> column, newest |-> FALSE]

(* Where each repository puts its rows, *)
TasksOrder == NewestFirst("createdAt")
FilesOrder == NewestFirst("createdAt")
PersonsOrder == NewestFirst("createdAt")
DocumentsOrder == NewestFirst("createdAt")
ExtractionsOrder == NewestFirst("createdAt")
JobsOrder == NewestFirst("createdAt")
AuditOrder == NewestFirst("createdAt")
ParticipantsOrder == OldestFirst("createdAt")
AssignableOrder == OldestFirst("createdAt")
ManagedOrder == OldestFirst("createdAt")
CasesOrder == NewestFirst("updatedAt")
PersonCasesOrder == NewestFirst("updatedAt")
TimelineOrder == OldestFirst("occurredAt")

(* and the column each service puts in the cursor. *)
TasksCursor == "createdAt"
FilesCursor == "createdAt"
PersonsCursor == "createdAt"
DocumentsCursor == "createdAt"
ExtractionsCursor == "createdAt"
JobsCursor == "createdAt"
AuditCursor == "createdAt"
ParticipantsCursor == "createdAt"
AssignableCursor == "createdAt"
ManagedCursor == "createdAt"
CasesCursor == "updatedAt"
PersonCasesCursor == "updatedAt"
TimelineCursor == "occurredAt"

Lists ==
    {<<TasksOrder, TasksCursor>>, <<FilesOrder, FilesCursor>>, <<PersonsOrder, PersonsCursor>>,
     <<DocumentsOrder, DocumentsCursor>>, <<ExtractionsOrder, ExtractionsCursor>>,
     <<JobsOrder, JobsCursor>>, <<AuditOrder, AuditCursor>>,
     <<ParticipantsOrder, ParticipantsCursor>>, <<AssignableOrder, AssignableCursor>>,
     <<ManagedOrder, ManagedCursor>>, <<CasesOrder, CasesCursor>>,
     <<PersonCasesOrder, PersonCasesCursor>>, <<TimelineOrder, TimelineCursor>>}

Start == [time |-> 0, id |-> 0]
NewReader == [cursor |-> Start, more |-> TRUE, received |-> [i \in Ids |-> 0]]

(* What each variable holds. *)
TypeOK ==
    /\ list \in Lists
    /\ rows \in [Ids -> Row]
    /\ shown \subseteq Ids /\ throughout \subseteq shown
    /\ reader \in [cursor : [time : 0 .. Undated, id : Ids \cup {0}], more : BOOLEAN,
                   received : [Ids -> Nat]]

NewRow(t, o) == [createdAt |-> t, updatedAt |-> t, occurredAt |-> o]

(* The date of a fact counts in the timeline only. *)
Facts == IF list[1].by = "occurredAt" THEN Times \cup {Undated} ELSE {Undated}

Init ==
    /\ list \in Lists
    /\ \E place \in [Ids -> IF list[1].by = "occurredAt" THEN Times \cup {Undated} ELSE Times] :
        rows = [i \in Ids |-> IF list[1].by = "occurredAt" THEN NewRow(1, place[i])
                              ELSE NewRow(place[i], Undated)]
    /\ shown \in SUBSET Ids
    /\ throughout = shown
    /\ reader = NewReader

Begun == reader.cursor # Start

-----------------------------------------------------------------------------
(* Mutant of Follows: the id does not break a tie. *)
FollowsByTime(i, c, o) == IF o.newest THEN rows[i][o.by] < c.time ELSE rows[i][o.by] > c.time

(* Mutant of Follows: the row the cursor was made of follows itself. *)
FollowsInclusive(i, c, o) ==
    LET t == rows[i][o.by] IN
    IF o.newest THEN t < c.time \/ (t = c.time /\ i <= c.id)
                ELSE t > c.time \/ (t = c.time /\ i >= c.id)

(* The cursor's filter: what follows c in the ordering o.  A row without a
   date is after all those with one, and for a cursor without a date only
   those without one are left. *)
Follows(i, c, o) ==
    LET t == rows[i][o.by] IN
    IF o.newest THEN t < c.time \/ (t = c.time /\ i < c.id)
                ELSE t > c.time \/ (t = c.time /\ i > c.id)

CursorOf(i) == [time |-> rows[i][list[2]], id |-> i]

(* The rows from the cursor on; the first page has no cursor. *)
Rest == {i \in shown : Begun => Follows(i, reader.cursor, list[1])}

(* orderBy and take. *)
Place(i) == [time |-> rows[i][list[1].by], id |-> i]
Ahead(i, S) == {j \in S : j # i /\ Follows(i, Place(j), list[1])}
Take(S) == {i \in S : Cardinality(Ahead(i, S)) < Limit}
LastOf(S) == CHOOSE i \in S : Cardinality(Ahead(i, S)) = Cardinality(S) - 1

ReadPage ==
    LET page == Take(Rest)
        more == Cardinality(Rest) > Limit
    IN  /\ reader.more
        /\ reader' = [cursor |-> IF more THEN CursorOf(LastOf(page)) ELSE reader.cursor,
                      more |-> more,
                      received |-> [i \in Ids |-> reader.received[i] + IF i \in page THEN 1 ELSE 0]]
        /\ UNCHANGED <<list, rows, shown, throughout>>

-----------------------------------------------------------------------------
(* A row is created, or comes within the filter.  Its times are those of the
   clock of the process that wrote it, which commits later. *)
Appear(i, t, o) ==
    /\ Begun /\ i \notin shown /\ reader.received[i] = 0
    /\ rows' = [rows EXCEPT ![i] = NewRow(t, o)]
    /\ shown' = shown \cup {i}
    /\ UNCHANGED <<list, reader, throughout>>

(* A row that was received comes back within the filter, which takes an
   edition: its updatedAt is later than all. *)
Reappear(i, t) ==
    /\ i \notin shown /\ reader.received[i] > 0
    /\ \A j \in Ids : rows[j].updatedAt < t
    /\ rows' = [rows EXCEPT ![i].updatedAt = t]
    /\ shown' = shown \cup {i}
    /\ UNCHANGED <<list, reader, throughout>>

(* A row is deleted, or leaves the filter. *)
Disappear(i) ==
    /\ Begun /\ i \in shown
    /\ shown' = shown \ {i}
    /\ throughout' = throughout \ {i}
    /\ UNCHANGED <<list, rows, reader>>

(* A row is edited: updatedAt is the time of the edition, later than all. *)
Touch(i, t) ==
    /\ Begun /\ i \in shown
    /\ \A j \in Ids : rows[j].updatedAt < t
    /\ rows' = [rows EXCEPT ![i].updatedAt = t]
    /\ throughout' = IF list[1].by = "updatedAt" THEN throughout \ {i} ELSE throughout
    /\ UNCHANGED <<list, shown, reader>>

Next ==
    \/ ReadPage
    \/ \E i \in Ids :
        \/ \E t \in Times, o \in Facts : Appear(i, t, o)
        \/ Disappear(i)
        \/ \E t \in Times : Touch(i, t) \/ Reappear(i, t)

Spec == Init /\ [][Next]_vars

-----------------------------------------------------------------------------
(* No row is received twice, however rows come, go and move meanwhile: a row
   that is edited moves behind the reader, and ties are broken by the id. *)
ReceivedOnce == \A i \in Ids : reader.received[i] <= 1

(* Whoever reads to the end has received every row that stayed in its place.
   In the lists of cases, ordered by updatedAt, an edition moves a row to the
   front: one that was still ahead is behind the reader now, and is missed. *)
NothingSkipped == ~reader.more => \A i \in throughout : reader.received[i] > 0

(* The pages make up the list: nothing twice, and nothing left out that stayed
   in its place. *)
PagesAreWhole == ReceivedOnce /\ NothingSkipped
=============================================================================
