-------------------------------- MODULE Tasks --------------------------------
(***************************************************************************)
(* The tasks opened for the items of a checklist, and their edition under  *)
(* optimistic concurrency: update reads the row, works out what to write,  *)
(* and writes where updatedAt is still what it read, with an audit record  *)
(* from the row it read to the row it wrote.                               *)
(*                                                                         *)
(* The row's version stands for updatedAt, a clock of milliseconds: two    *)
(* writes of one task within one millisecond are not modelled.  Priority   *)
(* and due date are fields like the assignee: they are left out.           *)
(***************************************************************************)
EXTENDS Naturals

CONSTANTS
    Items, People, Requests, NoItem, Nobody,
    MaxUpdates      \* bound: writes of one task

VARIABLES
    pending,    \* items whose status still allows a task
    tasks,      \* the tasks row of each item
    edits,      \* what each request has read and means to write
    trail       \* the last audit record of each task: from what to what

vars == <<pending, tasks, edits, trail>>

Statuses == {"OPEN", "IN_PROGRESS", "COMPLETED", "CANCELLED"}
Keep == "keep"

TaskAssumption ==
    /\ NoItem \notin Items /\ Nobody \notin People /\ Keep \notin People
    /\ MaxUpdates \in Nat

(* version 0: there is no row.  completedAt: the version that completed it, 0
   for a task that is not completed. *)
Task == [status : Statuses, assignedTo : People \cup {Nobody},
         completedAt : 0 .. MaxUpdates + 1, version : 0 .. MaxUpdates + 1]
Edit == [step : {"idle", "create", "update"}, item : Items \cup {NoItem}, read : Task,
         status : Statuses \cup {Keep}, assignedTo : People \cup {Nobody, Keep}]

(* What each variable holds. *)
TypeOK ==
    /\ pending \subseteq Items
    /\ tasks \in [Items -> Task]
    /\ edits \in [Requests -> Edit]
    /\ trail \in [Items -> [from : Task, to : Task]]

NoTask == [status |-> "OPEN", assignedTo |-> Nobody, completedAt |-> 0, version |-> 0]
Idle == [step |-> "idle", item |-> NoItem, read |-> NoTask, status |-> Keep, assignedTo |-> Keep]

Init ==
    /\ pending = Items
    /\ tasks = [i \in Items |-> NoTask]
    /\ edits = [q \in Requests |-> Idle]
    /\ trail = [i \in Items |-> [from |-> NoTask, to |-> NoTask]]

Becomes(q, e) == edits' = [edits EXCEPT ![q] = e]

(* The checklist's review of the item: Checklists has the details. *)
Review(i) ==
    /\ pending' = IF i \in pending THEN pending \ {i} ELSE pending \cup {i}
    /\ UNCHANGED <<tasks, edits, trail>>
-----------------------------------------------------------------------------
(* getTaskSource: the item is read, and its status looked at, before. *)
GetTaskSource(q, i, who) ==
    /\ edits[q].step = "idle" /\ i \in pending
    /\ Becomes(q, [Idle EXCEPT !.step = "create", !.item = i, !.assignedTo = who])
    /\ UNCHANGED <<pending, tasks, trail>>

(* tasks_active_ai_checklist_source_key: one task of an item, whatever its
   status; the second insertion is CHECKLIST_TASK_ALREADY_EXISTS. *)
CreateFromChecklist(q) ==
    LET e == edits[q]
        created == [NoTask EXCEPT !.assignedTo = e.assignedTo, !.version = 1]
        exists == tasks[e.item].version > 0
    IN  /\ e.step = "create"
        /\ tasks' = IF exists THEN tasks ELSE [tasks EXCEPT ![e.item] = created]
        /\ trail' = IF exists THEN trail
                    ELSE [trail EXCEPT ![e.item] = [from |-> NoTask, to |-> created]]
        /\ Becomes(q, Idle)
        /\ UNCHANGED pending

-----------------------------------------------------------------------------
(* Mutant of Admissible: a completed task is completed once more. *)
AdmissibleAgain(read, s) == TRUE

(* TASK_ALREADY_COMPLETED, on the row as it is read. *)
Admissible(read, s) == ~(s = "COMPLETED" /\ read.status = "COMPLETED")

ReadForUpdate(q, i, s, who) ==
    /\ edits[q].step = "idle" /\ tasks[i].version > 0
    /\ s # Keep \/ who # Keep
    /\ Admissible(tasks[i], s)
    /\ Becomes(q, [step |-> "update", item |-> i, read |-> tasks[i], status |-> s,
                   assignedTo |-> who])
    /\ UNCHANGED <<pending, tasks, trail>>

(* Mutant of Unchanged: the update is not conditional on the version. *)
UnchangedAnyway(e) == TRUE

Unchanged(e) == tasks[e.item].version = e.read.version

(* The update's data: only the fields given, on the row as it is. *)
Written(e) ==
    LET now == tasks[e.item] IN
    [status |-> IF e.status = Keep THEN now.status ELSE e.status,
     assignedTo |-> IF e.assignedTo = Keep THEN now.assignedTo ELSE e.assignedTo,
     completedAt |-> IF e.status = Keep THEN now.completedAt
                     ELSE IF e.status = "COMPLETED" THEN now.version + 1 ELSE 0,
     version |-> now.version + 1]

(* The transaction of update; TASK_UPDATE_CONFLICT rolls it back. *)
Update(q) ==
    LET e == edits[q] IN
    /\ e.step = "update"
    /\ tasks[e.item].version <= MaxUpdates
    /\ Unchanged(e)
    /\ tasks' = [tasks EXCEPT ![e.item] = Written(e)]
    /\ trail' = [trail EXCEPT ![e.item] = [from |-> e.read, to |-> Written(e)]]
    /\ Becomes(q, Idle)
    /\ UNCHANGED pending

(* A conflict, an assignee that is not there, a failure or a crash. *)
Abort(q) ==
    /\ edits[q].step # "idle"
    /\ Becomes(q, Idle)
    /\ UNCHANGED <<pending, tasks, trail>>

Next ==
    \/ \E i \in Items : Review(i)
    \/ \E q \in Requests :
        \/ \E i \in Items, who \in People \cup {Nobody} : GetTaskSource(q, i, who)
        \/ CreateFromChecklist(q)
        \/ \E i \in Items, s \in Statuses \cup {Keep}, who \in People \cup {Nobody, Keep} :
            ReadForUpdate(q, i, s, who)
        \/ Update(q)
        \/ Abort(q)

Spec == Init /\ [][Next]_vars

-----------------------------------------------------------------------------
(* The audit trail of a task is a chain: what a record says the task was is
   what the record before it says it became, though both are taken from rows
   that different requests read and wrote.  And the moment a task was
   completed stays what it was for as long as the task is completed: two
   people who complete it at once do not both set it. *)
EditsAreChained ==
    [][\A i \in Items :
        /\ trail'[i] # trail[i] => trail'[i].from = trail[i].to
        /\ tasks[i].status = "COMPLETED" /\ tasks'[i].status = "COMPLETED" =>
            tasks'[i].completedAt = tasks[i].completedAt]_vars
=============================================================================
