------------------------ MODULE ProcessingJobsProofs ------------------------
(***************************************************************************)
(* Theorems about ProcessingJobs, for any cases, documents, executions,    *)
(* stages, quotes and bounds, and about the ceiling of a case when         *)
(* cancellations and answers write its budget too (AssistantBudget).       *)
(*                                                                         *)
(* Everything rests on the fence: what a transaction adds to a case or     *)
(* takes from it is computed from the row an execution holds, so it must   *)
(* be the row the job has.  With it the ceiling holds, the columns of a    *)
(* case agree with the rows of its jobs, every transaction is one entry of *)
(* CaseLedger or none, and every step of a job is a step of JobLifecycle.  *)
(* Then what that means for the documents: one in work has a job at work,  *)
(* one handed to a person has none, and a stage follows the one before it. *)
(***************************************************************************)
EXTENDS AssistantBudget, Integers, FiniteSetTheorems, TLAPS

-----------------------------------------------------------------------------
(* Types *)

Targets == \A e \in Executions : phase[e] # "idle" => target[e] \in Jobs

Typed == TypeOK /\ Targets

(* A job has the document and the stage the tables know. *)
LEMMA JobParts ==
  ASSUME NEW j \in Jobs
  PROVE  /\ j.doc \in Documents
         /\ j.stage \in Stages
         /\ CaseOf[j.doc] \in Cases
         /\ Quote[j.stage] \in Nat
BY ConstantsAssumption DEF Jobs

(* The jobs a transaction creates are jobs. *)
LEMMA NewJobs ==
  /\ \A d \in Documents, stage \in Stages : IntakeRoot(d, stage) \in Jobs
  /\ \A d \in Documents, n \in 1..MaxRuns : ReprocessRoot(d, n) \in Jobs
  /\ \A j \in Jobs : NextStage[j.stage] # NoStage => Child(j) \in Jobs
BY ConstantsAssumption DEF Jobs, IntakeRoot, ReprocessRoot, Child

(* What is written to a job row is a job row. *)
LEMMA RowTypes ==
  /\ NoRow \in JobRow /\ NewRow \in JobRow
  /\ \A row \in JobRow, status \in JobStatus : Moved(row, status) \in JobRow
  /\ \A row \in JobRow, status \in JobStatus, actual \in Nat :
        SettledRow(row, status, actual) \in JobRow
<1>1. NoRow \in JobRow /\ NewRow \in JobRow
  BY DEF NoRow, NewRow, JobRow, JobStatus, Active, Missing
<1>2. ASSUME NEW row \in JobRow, NEW status \in JobStatus
      PROVE  Moved(row, status) \in JobRow
  <2>1. Moved(row, status) = [row EXCEPT !.status = status, !.version = row.version + 1]
    BY DEF Moved
  <2>2. \A version \in Nat : [row EXCEPT !.status = status, !.version = version] \in JobRow
    BY DEF JobRow
  <2>3. row.version + 1 \in Nat
    BY DEF JobRow
  <2> QED BY <2>1, <2>2, <2>3
<1>3. ASSUME NEW row \in JobRow, NEW status \in JobStatus, NEW actual \in Nat
      PROVE  SettledRow(row, status, actual) \in JobRow
  <2> DEFINE moved == Moved(row, status)
  <2>1. moved \in JobRow
    BY <1>2
  <2>2. SettledRow(row, status, actual)
           = [moved EXCEPT !.reserved = 0, !.cost = moved.cost + actual]
    BY DEF SettledRow
  <2> HIDE DEF moved
  <2>3. \A cost \in Nat : [moved EXCEPT !.reserved = 0, !.cost = cost] \in JobRow
    BY <2>1 DEF JobRow
  <2>4. moved.cost + actual \in Nat
    BY <2>1 DEF JobRow
  <2> QED BY <2>2, <2>3, <2>4
<1> QED BY <1>1, <1>2, <1>3

(* What is written to a document row is a document row. *)
LEMMA DocTypes ==
  ASSUME TypeOK, NEW d \in Documents,
         NEW status \in {"QUEUED", "PROCESSING", "NEEDS_REVIEW", "FAILED"}
  PROVE  WithDocStatus(d, status) \in [Documents -> DocRow]
BY DEF TypeOK, WithDocStatus, DocRow

(* What an execution is set to keeps its types. *)
LEMMA StartTypes ==
  ASSUME Typed, NEW e \in Executions, NEW where \in {"idle", "claiming", "running"},
         NEW j \in Jobs \cup {NoJob}, where # "idle" => j \in Jobs,
         NEW row \in JobRow, Start(e, where, j, row)
  PROVE  /\ phase' \in [Executions -> {"idle", "claiming", "running"}]
         /\ target' \in [Executions -> Jobs \cup {NoJob}]
         /\ held' \in [Executions -> JobRow]
         /\ Targets'
BY DEF Typed, TypeOK, Targets, Start

(* An execution that stops keeps its types. *)
LEMMA FinishTypes ==
  ASSUME Typed, NEW e \in Executions, Finish(e)
  PROVE  /\ phase' \in [Executions -> {"idle", "claiming", "running"}]
         /\ target' \in [Executions -> Jobs \cup {NoJob}]
         /\ held' \in [Executions -> JobRow]
         /\ Targets'
BY StartTypes, RowTypes DEF Finish

(* Settling leaves a case row. *)
LEMMA SettledType ==
  ASSUME NEW case \in CaseRow, NEW row \in JobRow, NEW actual \in Nat,
         row.reserved <= case.reserved
  PROVE  Settled(case, row, actual) \in CaseRow
<1>1. case.spent + actual \in Nat /\ case.reserved - row.reserved \in Nat
  BY DEF CaseRow, JobRow
<1>2. \A spent, reserved \in Nat, budget \in {"ACTIVE", "LIMIT_REACHED"} :
         [case EXCEPT !.spent = spent, !.reserved = reserved, !.budget = budget] \in CaseRow
  BY DEF CaseRow
<1> QED BY <1>1, <1>2 DEF Settled

(* The first state has the right types. *)
LEMMA TypedInit == Init => Typed
BY RowTypes, ConstantsAssumption
   DEF Init, Typed, TypeOK, Targets, NoRow, CaseRow, DocRow, Missing

(* Every step keeps the types. *)
LEMMA TypedNext == Typed /\ [Next]_vars => Typed'
<1> SUFFICES ASSUME Typed, [Next]_vars PROVE Typed'
  OBVIOUS
<1> USE DEF Typed
<1>1. ASSUME NEW d \in Documents, NEW stage \in Stages, Intake(d, stage) PROVE Typed'
  BY <1>1, RowTypes, NewJobs DEF Intake, executions, TypeOK, Targets, DocRow
<1>2. ASSUME NEW d \in Documents, ApproveReprocess(d) PROVE Typed'
  BY <1>2, ConstantsAssumption DEF ApproveReprocess, Unseen, tables, executions, TypeOK, Targets
<1>3. ASSUME NEW d \in Documents, DeleteDocument(d) PROVE Typed'
  BY <1>3 DEF DeleteDocument, executions, TypeOK, Targets, DocRow
<1>4. ASSUME NEW d \in Documents, NEW n \in 1..MaxRuns, CreateReprocess(d, n) PROVE Typed'
  BY <1>4, RowTypes, NewJobs, DocTypes, ConstantsAssumption
     DEF CreateReprocess, executions, TypeOK, Targets
<1>5. ASSUME NEW c \in Cases, DeleteCase(c) PROVE Typed'
  BY <1>5 DEF DeleteCase, executions, TypeOK, Targets, CaseRow
<1>6. ASSUME NEW c \in Cases, NEW limit \in Limits, UpdateBudget(c, limit) PROVE Typed'
  <2>1. cases[c] \in CaseRow /\ limit \in Nat
    BY ConstantsAssumption DEF TypeOK
  <2>2. PICK b \in {"ACTIVE", "LIMIT_REACHED"} :
           cases' = [cases EXCEPT ![c].limit = limit, ![c].budget = b]
    <3>1. CASE cases[c].reserved = 0 /\ limit > 0 /\ cases[c].spent >= limit
      BY <1>6, <3>1 DEF UpdateBudget
    <3>2. CASE ~(cases[c].reserved = 0 /\ limit > 0 /\ cases[c].spent >= limit)
      BY <1>6, <3>2 DEF UpdateBudget
    <3> QED BY <3>1, <3>2
  <2>3. [cases[c] EXCEPT !.limit = limit, !.budget = b] \in CaseRow
    BY <2>1 DEF CaseRow
  <2>4. cases' \in [Cases -> CaseRow]
    BY <2>2, <2>3 DEF TypeOK
  <2> QED BY <1>6, <2>4 DEF UpdateBudget, executions, TypeOK, Targets
<1>7. ASSUME NEW e \in Executions, NEW j \in Jobs, ReadForClaim(e, j) PROVE Typed'
  BY <1>7, StartTypes DEF ReadForClaim, tables, TypeOK
<1>8. ASSUME NEW e \in Executions, GrantClaim(e) PROVE Typed'
  <2> DEFINE j == target[e]
             row == [Moved(held[e], "PROCESSING") EXCEPT !.reserved = @ + ReservationToAdd(e)]
  <2>1. j \in Jobs /\ held[e] \in JobRow
    BY <1>8 DEF GrantClaim, LocksCase, TypeOK, Targets
  <2>2. ReservationToAdd(e) \in Nat
    BY <2>1, JobParts DEF ReservationToAdd
  <2>3. row \in JobRow
    BY <2>1, <2>2, RowTypes DEF JobRow, JobStatus, Active
  <2>4. Start(e, "running", j, row) /\ jobs' = [jobs EXCEPT ![j] = row]
    BY <1>8 DEF GrantClaim
  <2>5. cases' \in [Cases -> CaseRow]
    <3>1. cases' = [cases EXCEPT ![CaseOf[j.doc]].reserved = @ + ReservationToAdd(e)]
      BY <1>8 DEF GrantClaim
    <3>2. CaseOf[j.doc] \in Cases
      BY <2>1, JobParts
    <3> HIDE DEF j
    <3> QED BY <2>2, <3>1, <3>2 DEF TypeOK, CaseRow
  <2>6. docs' \in [Documents -> DocRow]
    BY <1>8, <2>1, JobParts, DocTypes DEF GrantClaim
  <2> HIDE DEF row
  <2> QED BY <1>8, <2>1, <2>3, <2>4, <2>5, <2>6, StartTypes DEF GrantClaim, TypeOK
<1>9. ASSUME NEW e \in Executions, BlockClaim(e) PROVE Typed'
  <2>1. target[e] \in Jobs /\ jobs[target[e]] \in JobRow
    BY <1>9 DEF BlockClaim, LocksCase, TypeOK, Targets
  <2>2. jobs' \in [Jobs -> JobRow]
    BY <1>9, <2>1, RowTypes DEF BlockClaim, TypeOK, JobStatus, Terminal
  <2>3. cases' \in [Cases -> CaseRow]
    <3>1. PICK c \in Cases : cases' = [cases EXCEPT ![c].budget = "LIMIT_REACHED"]
      BY <1>9, <2>1, JobParts DEF BlockClaim
    <3>2. [cases[c] EXCEPT !.budget = "LIMIT_REACHED"] \in CaseRow
      BY DEF TypeOK, CaseRow
    <3> QED BY <3>1, <3>2 DEF TypeOK
  <2>4. docs' \in [Documents -> DocRow]
    BY <1>9, <2>1, JobParts, DocTypes DEF BlockClaim
  <2> QED BY <1>9, <2>2, <2>3, <2>4, FinishTypes DEF BlockClaim, TypeOK
<1>10. ASSUME NEW e \in Executions, ResumeClaim(e) PROVE Typed'
  <2>1. target[e] \in Jobs /\ Moved(held[e], "PROCESSING") \in JobRow
    BY <1>10, RowTypes DEF ResumeClaim, TypeOK, Targets, JobStatus, Active
  <2>2. docs' \in [Documents -> DocRow]
    BY <1>10, <2>1, JobParts, DocTypes DEF ResumeClaim
  <2> QED BY <1>10, <2>1, <2>2, StartTypes DEF ResumeClaim, TypeOK
<1>11. ASSUME NEW e \in Executions, LoseClaim(e) \/ LoseRun(e) \/ Crash(e) PROVE Typed'
  BY <1>11, FinishTypes DEF LoseClaim, LoseRun, Crash, tables, TypeOK
<1>12. ASSUME NEW e \in Executions, NEW actual \in 0..held[e].reserved, Complete(e, actual)
       PROVE  Typed'
  <2> DEFINE j == target[e]
             c == CaseOf[j.doc]
  <2>1. j \in Jobs /\ held[e] \in JobRow /\ actual \in Nat /\ c \in Cases /\ cases[c] \in CaseRow
    BY <1>12, JobParts DEF Complete, CanSettle, TypeOK, Targets, JobRow
  <2>2. Settled(cases[c], held[e], actual) \in CaseRow
    BY <1>12, <2>1, SettledType DEF Complete, CanSettle
  <2>3. SettledRow(held[e], "COMPLETED", actual) \in JobRow
    BY <2>1, RowTypes DEF JobStatus, Terminal
  <2>4. cases' \in [Cases -> CaseRow]
    BY <1>12, <2>2 DEF Complete, TypeOK
  <2>5. jobs' \in [Jobs -> JobRow]
    BY <1>12, <2>1, <2>3, RowTypes DEF Complete, TypeOK
  <2>6. docs' \in [Documents -> DocRow]
    BY <1>12, <2>1, JobParts, DocTypes DEF Complete, TypeOK
  <2> QED BY <1>12, <2>4, <2>5, <2>6, FinishTypes DEF Complete, TypeOK
<1>13. ASSUME NEW e \in Executions, NEW actual \in 0..held[e].reserved, Fail(e, actual)
       PROVE  Typed'
  <2> DEFINE j == target[e]
             c == CaseOf[j.doc]
  <2>1. j \in Jobs /\ held[e] \in JobRow /\ actual \in Nat /\ c \in Cases /\ cases[c] \in CaseRow
    BY <1>13, JobParts DEF Fail, CanSettle, TypeOK, Targets, JobRow
  <2>2. Settled(cases[c], held[e], actual) \in CaseRow
    BY <1>13, <2>1, SettledType DEF Fail, CanSettle
  <2>3. SettledRow(held[e], "FAILED", actual) \in JobRow
    BY <2>1, RowTypes DEF JobStatus, Terminal
  <2>4. docs' \in [Documents -> DocRow]
    BY <1>13, <2>1, JobParts, DocTypes DEF Fail
  <2> QED BY <1>13, <2>2, <2>3, <2>4, FinishTypes DEF Fail, TypeOK
<1>14. ASSUME NEW e \in Executions, Retry(e) PROVE Typed'
  <2>1. target[e] \in Jobs /\ Moved(jobs[target[e]], "RETRYING") \in JobRow
    BY <1>14, RowTypes DEF Retry, TypeOK, Targets, JobStatus, Active
  <2> QED BY <1>14, <2>1, FinishTypes DEF Retry, TypeOK
<1>15. CASE UNCHANGED vars
  BY <1>15 DEF vars, TypeOK, Targets
<1> QED
  BY <1>1, <1>2, <1>3, <1>4, <1>5, <1>6, <1>7, <1>8, <1>9, <1>10, <1>11, <1>12, <1>13, <1>14, <1>15
     DEF Next, Api, Worker, Claiming, Settling

(* Every variable keeps its type: amounts never become negative, and an
   execution past its first read has a job. *)
THEOREM TypeCorrect == Spec => []TypeOK
<1>1. Typed => TypeOK
  BY DEF Typed
<1> QED BY <1>1, TypedInit, TypedNext, PTL DEF Spec

-----------------------------------------------------------------------------
(* The fence: what an execution holds, against the row of its job *)

(* An execution holds a row its job had; while the version is the same, it is
   the row the job has. *)
Seen(e) ==
    /\ held[e].status \in Active
    /\ phase[e] = "running" => held[e].status = "PROCESSING"
    /\ held[e].version <= jobs[target[e]].version
    /\ held[e].version = jobs[target[e]].version => held[e] = jobs[target[e]]

Snapshots == \A e \in Executions : phase[e] # "idle" => Seen(e)

(* A claim writes a version no other claim of the job has written. *)
Claims ==
    \A e, f \in Executions :
        /\ phase[e] = "running" /\ phase[f] = "running"
        /\ target[e] = target[f] /\ held[e].version = held[f].version
        => e = f

(* A job nobody has queued has nothing, and there is none, nor a request to
   make one, for a document that is not there. *)
Unqueued ==
    /\ \A j \in Jobs : jobs[j].status = Missing => jobs[j] = NoRow
    /\ \A d \in Documents : docs[d].status = Missing => approved[d] = 0
    /\ \A j \in Jobs : docs[j.doc].status = Missing => jobs[j].status = Missing

Fence == Typed /\ Unqueued /\ Snapshots /\ Claims

(* The fields of the rows the transitions write. *)
LEMMA MovedFields ==
  ASSUME NEW row \in JobRow, NEW status \in JobStatus
  PROVE  /\ Moved(row, status).status = status
         /\ Moved(row, status).version = row.version + 1
         /\ Moved(row, status).reserved = row.reserved
         /\ Moved(row, status).cost = row.cost
BY DEF Moved, JobRow

(* What a settled row keeps of the row it replaces. *)
LEMMA SettledRowFields ==
  ASSUME NEW row \in JobRow, NEW status \in JobStatus, NEW actual \in Nat
  PROVE  /\ SettledRow(row, status, actual).status = status
         /\ SettledRow(row, status, actual).version = row.version + 1
         /\ SettledRow(row, status, actual).reserved = 0
         /\ SettledRow(row, status, actual).cost = row.cost + actual
<1> DEFINE moved == Moved(row, status)
<1>1. moved \in JobRow /\ moved.status = status /\ moved.version = row.version + 1
         /\ moved.cost = row.cost
  BY RowTypes, MovedFields
<1>2. SettledRow(row, status, actual) = [moved EXCEPT !.reserved = 0, !.cost = moved.cost + actual]
  BY DEF SettledRow
<1> HIDE DEF moved
<1> QED BY <1>1, <1>2 DEF JobRow

(* Only the rows of A change: A is one job, or a job and its child. *)
OnlyChanges(A) == \A k \in Jobs \ A : jobs'[k] = jobs[k]

(* A job moves to a status, and its row takes these amounts. *)
Moves(j, status, reserved, cost) ==
    /\ jobs'[j].status = status
    /\ jobs'[j].version = jobs[j].version + 1
    /\ jobs'[j].reserved = reserved
    /\ jobs'[j].cost = cost

(* A job that was not there is queued. *)
Queues(j) ==
    /\ j \in Jobs
    /\ jobs[j] = NoRow
    /\ jobs'[j] = NewRow

(* What an execution with a current row knows of its job. *)
LEMMA CurrentRow ==
  ASSUME Fence, NEW e \in Executions, phase[e] # "idle", Current(e)
  PROVE  /\ target[e] \in Jobs
         /\ held[e] \in JobRow
         /\ held[e] = jobs[target[e]]
         /\ jobs[target[e]].status \in Active
         /\ docs[target[e].doc].status # Missing
         /\ phase[e] = "running" => jobs[target[e]].status = "PROCESSING"
<1>1. target[e] \in Jobs /\ held[e] \in JobRow
  BY DEF Fence, Typed, TypeOK, Targets
<1>2. held[e] = jobs[target[e]] /\ held[e].status \in Active
         /\ (phase[e] = "running" => held[e].status = "PROCESSING")
  BY DEF Fence, Snapshots, Seen, Current
<1>3. docs[target[e].doc].status # Missing
  BY <1>1, <1>2 DEF Fence, Unqueued, Active, Missing
<1> QED BY <1>1, <1>2, <1>3

(* claim, when it reserves: the row it writes follows the row of the table. *)
LEMMA Granted ==
  ASSUME Fence, NEW e \in Executions, GrantClaim(e)
  PROVE  LET j == target[e] IN
         /\ j \in Jobs /\ held[e] = jobs[j] /\ jobs[j].status \in {"QUEUED", "RETRYING"}
         /\ OnlyChanges({j})
         /\ Moves(j, "PROCESSING", jobs[j].reserved + ReservationToAdd(e), jobs[j].cost)
         /\ ReservationToAdd(e) \in Nat
         /\ Start(e, "running", j, jobs'[j])
         /\ docs' = WithDocStatus(j.doc, "PROCESSING")
<1> DEFINE j == target[e]
           moved == Moved(held[e], "PROCESSING")
           add == ReservationToAdd(e)
           row == [moved EXCEPT !.reserved = moved.reserved + add]
<1>1. /\ j \in Jobs /\ held[e] \in JobRow /\ held[e] = jobs[j]
      /\ jobs[j].status \in {"QUEUED", "RETRYING"}
  BY CurrentRow DEF GrantClaim, LocksCase, Active
<1>2. add \in Nat
  BY <1>1, JobParts DEF ReservationToAdd
<1>3. /\ moved \in JobRow /\ moved.status = "PROCESSING"
      /\ moved.version = jobs[j].version + 1
      /\ moved.reserved = jobs[j].reserved /\ moved.cost = jobs[j].cost
  <2>1. "PROCESSING" \in JobStatus
    BY DEF JobStatus, Active
  <2>2. \A old \in JobRow : /\ Moved(old, "PROCESSING") \in JobRow
                           /\ Moved(old, "PROCESSING").status = "PROCESSING"
                           /\ Moved(old, "PROCESSING").version = old.version + 1
                           /\ Moved(old, "PROCESSING").reserved = old.reserved
                           /\ Moved(old, "PROCESSING").cost = old.cost
    BY <2>1, RowTypes, MovedFields
  <2> QED BY <1>1, <2>2
<1>4. jobs' = [jobs EXCEPT ![j] = row] /\ Start(e, "running", j, row)
  BY DEF GrantClaim
<1>5. docs' = WithDocStatus(j.doc, "PROCESSING")
  BY DEF GrantClaim
<1> HIDE DEF moved, add
<1>6. /\ row.status = "PROCESSING" /\ row.version = jobs[j].version + 1
      /\ row.reserved = jobs[j].reserved + add /\ row.cost = jobs[j].cost
  BY <1>3 DEF JobRow
<1>7. jobs'[j] = row /\ OnlyChanges({j})
  BY <1>1, <1>4 DEF Fence, Typed, TypeOK, OnlyChanges
<1> HIDE DEF row
<1>8. Moves(j, "PROCESSING", jobs[j].reserved + add, jobs[j].cost)
  BY <1>6, <1>7 DEF Moves
<1> QED BY <1>1, <1>2, <1>4, <1>5, <1>7, <1>8 DEF add

(* claim, when the budget does not allow it. *)
LEMMA Refused ==
  ASSUME Fence, NEW e \in Executions, BlockClaim(e)
  PROVE  LET j == target[e] IN
         /\ j \in Jobs /\ held[e] = jobs[j] /\ jobs[j].status \in {"QUEUED", "RETRYING"}
         /\ OnlyChanges({j})
         /\ Moves(j, "CANCELLED", jobs[j].reserved, jobs[j].cost)
<1>1. /\ target[e] \in Jobs /\ held[e] = jobs[target[e]]
      /\ jobs[target[e]].status \in {"QUEUED", "RETRYING"} /\ jobs[target[e]] \in JobRow
  BY CurrentRow DEF BlockClaim, LocksCase, Active
<1>2. jobs' = [jobs EXCEPT ![target[e]] = Moved(@, "CANCELLED")]
  BY DEF BlockClaim
<1>3. jobs'[target[e]] = Moved(jobs[target[e]], "CANCELLED") /\ OnlyChanges({target[e]})
  BY <1>1, <1>2 DEF Fence, Typed, TypeOK, OnlyChanges
<1> QED BY <1>1, <1>3, MovedFields DEF Moves, JobStatus, Terminal

(* claim, when it takes over. *)
LEMMA Resumed ==
  ASSUME Fence, NEW e \in Executions, ResumeClaim(e)
  PROVE  LET j == target[e] IN
         /\ j \in Jobs /\ held[e] = jobs[j] /\ jobs[j].status = "PROCESSING"
         /\ OnlyChanges({j})
         /\ Moves(j, "PROCESSING", jobs[j].reserved, jobs[j].cost)
         /\ Start(e, "running", j, jobs'[j])
<1>1. /\ target[e] \in Jobs /\ held[e] = jobs[target[e]] /\ held[e] \in JobRow
      /\ jobs[target[e]].status = "PROCESSING"
  BY CurrentRow DEF ResumeClaim
<1>2. jobs' = [jobs EXCEPT ![target[e]] = Moved(held[e], "PROCESSING")]
  BY DEF ResumeClaim
<1>3. jobs'[target[e]] = Moved(held[e], "PROCESSING") /\ OnlyChanges({target[e]})
  BY <1>1, <1>2 DEF Fence, Typed, TypeOK, OnlyChanges
<1>4. Start(e, "running", target[e], jobs'[target[e]])
  BY <1>3 DEF ResumeClaim
<1> QED BY <1>1, <1>3, <1>4, MovedFields DEF Moves, JobStatus, Active

(* complete: the job, and the child it queues when there is one. *)
LEMMA Completed ==
  ASSUME Fence, NEW e \in Executions, NEW actual \in 0..held[e].reserved, Complete(e, actual)
  PROVE  LET j == target[e] IN
         /\ j \in Jobs /\ held[e] = jobs[j] /\ jobs[j].status = "PROCESSING"
         /\ actual \in Nat /\ actual <= jobs[j].reserved
         /\ jobs[j].reserved <= cases[CaseOf[j.doc]].reserved
         /\ Moves(j, "COMPLETED", 0, jobs[j].cost + actual)
         /\ \/ OnlyChanges({j}) /\ docs' = WithDocStatus(j.doc, "NEEDS_REVIEW")
            \/ /\ NextStage[j.stage] # NoStage /\ docs' = docs
               /\ Child(j) # j /\ Queues(Child(j)) /\ OnlyChanges({j, Child(j)})
         /\ cases' = [cases EXCEPT ![CaseOf[j.doc]] = Settled(@, jobs[j], actual)]
         /\ docs' \in {docs, WithDocStatus(j.doc, "NEEDS_REVIEW")}
<1> DEFINE j == target[e]
           row == SettledRow(held[e], "COMPLETED", actual)
           done == [jobs EXCEPT ![j] = row]
           stops == \/ NextStage[j.stage] = NoStage
                    \/ Settled(cases[CaseOf[j.doc]], held[e], actual).budget = "LIMIT_REACHED"
<1>1. /\ j \in Jobs /\ held[e] \in JobRow /\ held[e] = jobs[j]
      /\ jobs[j].status = "PROCESSING"
  BY CurrentRow DEF Complete, CanSettle
<1>2. /\ actual \in Nat /\ actual <= jobs[j].reserved
      /\ jobs[j].reserved <= cases[CaseOf[j.doc]].reserved
  BY <1>1 DEF Complete, CanSettle, JobRow
<1>3. /\ row.status = "COMPLETED" /\ row.version = jobs[j].version + 1
      /\ row.reserved = 0 /\ row.cost = jobs[j].cost + actual
  <2>1. "COMPLETED" \in JobStatus
    BY DEF JobStatus, Terminal
  <2> QED BY <1>1, <1>2, <2>1, SettledRowFields
<1>4. cases' = [cases EXCEPT ![CaseOf[j.doc]] = Settled(@, jobs[j], actual)]
  BY <1>1 DEF Complete
<1>5. docs' \in {docs, WithDocStatus(j.doc, "NEEDS_REVIEW")}
  BY DEF Complete
<1>6. /\ stops => jobs' = done /\ docs' = WithDocStatus(j.doc, "NEEDS_REVIEW")
      /\ ~stops => /\ NextStage[j.stage] # NoStage /\ docs' = docs
                   /\ jobs[Child(j)].status = Missing
                   /\ jobs' = [done EXCEPT ![Child(j)] = NewRow]
  BY DEF Complete
<1>7. ~stops => Child(j) \in Jobs
  BY <1>1, NewJobs
<1> HIDE DEF row
<1>8. done[j] = row /\ (\A k \in Jobs \ {j} : done[k] = jobs[k]) /\ DOMAIN done = Jobs
  BY <1>1 DEF Fence, Typed, TypeOK
<1> HIDE DEF done, stops
<1>9. CASE stops
  <2>1. OnlyChanges({j}) /\ jobs'[j] = row
    BY <1>6, <1>8, <1>9 DEF OnlyChanges
  <2>2. Moves(j, "COMPLETED", 0, jobs[j].cost + actual)
    BY <1>3, <2>1 DEF Moves
  <2> QED BY <1>1, <1>2, <1>4, <1>5, <1>6, <1>9, <2>1, <2>2
<1>10. CASE ~stops
  <2>1. Child(j) \in Jobs /\ jobs[Child(j)].status = Missing
    BY <1>6, <1>7, <1>10
  <2>2. jobs[Child(j)] = NoRow /\ Child(j) # j
    BY <1>1, <2>1 DEF Fence, Unqueued, Missing
  <2>3. jobs' = [done EXCEPT ![Child(j)] = NewRow]
    BY <1>6, <1>10
  <2>4. jobs'[j] = row /\ jobs'[Child(j)] = NewRow /\ OnlyChanges({j, Child(j)})
    BY <1>1, <1>8, <2>1, <2>2, <2>3 DEF OnlyChanges
  <2>5. Queues(Child(j)) /\ Moves(j, "COMPLETED", 0, jobs[j].cost + actual)
    BY <1>3, <2>1, <2>2, <2>4 DEF Queues, Moves
  <2> QED BY <1>1, <1>2, <1>4, <1>5, <1>6, <1>10, <2>2, <2>4, <2>5
<1> QED BY <1>9, <1>10

(* fail *)
LEMMA Failed ==
  ASSUME Fence, NEW e \in Executions, NEW actual \in 0..held[e].reserved, Fail(e, actual)
  PROVE  LET j == target[e] IN
         /\ j \in Jobs /\ held[e] = jobs[j] /\ jobs[j].status = "PROCESSING"
         /\ actual \in Nat /\ actual <= jobs[j].reserved
         /\ jobs[j].reserved <= cases[CaseOf[j.doc]].reserved
         /\ Moves(j, "FAILED", 0, jobs[j].cost + actual)
         /\ OnlyChanges({j})
         /\ cases' = [cases EXCEPT ![CaseOf[j.doc]] = Settled(@, jobs[j], actual)]
<1> DEFINE j == target[e]
<1>1. /\ j \in Jobs /\ held[e] \in JobRow /\ held[e] = jobs[j]
      /\ jobs[j].status = "PROCESSING"
  BY CurrentRow DEF Fail, CanSettle
<1>2. /\ actual \in Nat /\ actual <= jobs[j].reserved
      /\ jobs[j].reserved <= cases[CaseOf[j.doc]].reserved
  BY <1>1 DEF Fail, CanSettle, JobRow
<1>3. jobs' = [jobs EXCEPT ![j] = SettledRow(held[e], "FAILED", actual)]
  BY DEF Fail
<1>4. jobs'[j] = SettledRow(held[e], "FAILED", actual) /\ OnlyChanges({j})
  BY <1>1, <1>3 DEF Fence, Typed, TypeOK, OnlyChanges
<1>5. "FAILED" \in JobStatus
  BY DEF JobStatus, Terminal
<1>6. Moves(j, "FAILED", 0, jobs[j].cost + actual)
  BY <1>1, <1>2, <1>4, <1>5, SettledRowFields DEF Moves
<1>7. cases' = [cases EXCEPT ![CaseOf[j.doc]] = Settled(@, jobs[j], actual)]
  BY <1>1 DEF Fail
<1> QED BY <1>1, <1>2, <1>4, <1>6, <1>7

(* retry *)
LEMMA Retried ==
  ASSUME Fence, NEW e \in Executions, Retry(e)
  PROVE  LET j == target[e] IN
         /\ j \in Jobs /\ jobs[j].status = "PROCESSING"
         /\ OnlyChanges({j})
         /\ Moves(j, "RETRYING", jobs[j].reserved, jobs[j].cost)
<1>1. target[e] \in Jobs /\ jobs[target[e]].status = "PROCESSING" /\ jobs[target[e]] \in JobRow
  BY CurrentRow DEF Retry
<1>2. jobs' = [jobs EXCEPT ![target[e]] = Moved(@, "RETRYING")]
  BY DEF Retry
<1>3. jobs'[target[e]] = Moved(jobs[target[e]], "RETRYING") /\ OnlyChanges({target[e]})
  BY <1>1, <1>2 DEF Fence, Typed, TypeOK, OnlyChanges
<1> QED BY <1>1, <1>3, MovedFields DEF Moves, JobStatus, Active

(* Every step leaves a row alone, moves it on by a version, or creates it. *)
Advances ==
    \A k \in Jobs :
        \/ jobs'[k] = jobs[k]
        \/ /\ jobs[k].status \in Active
           /\ jobs'[k].status # Missing
           /\ jobs'[k].version = jobs[k].version + 1
        \/ Queues(k)

Idles(f) ==
    phase'[f] = phase[f] /\ target'[f] = target[f] /\ held'[f] = held[f]

(* An execution that does nothing still holds what its job had. *)
LEMMA StillSeen ==
  ASSUME Fence, Typed', Advances, NEW f \in Executions, Idles(f), phase'[f] # "idle"
  PROVE  /\ Seen(f)'
         /\ held'[f].version <= jobs[target'[f]].version
<1> DEFINE j == target[f]
<1>1. /\ j \in Jobs /\ Seen(f) /\ held[f] \in JobRow /\ jobs[j] \in JobRow /\ jobs'[j] \in JobRow
      /\ phase'[f] = phase[f] /\ target'[f] = j /\ held'[f] = held[f]
  BY DEF Fence, Typed, TypeOK, Targets, Snapshots, Idles
<1>2. CASE jobs'[j] = jobs[j]
  BY <1>1, <1>2 DEF Seen
<1>3. CASE jobs'[j].version = jobs[j].version + 1
  BY <1>1, <1>3 DEF Seen, JobRow
<1>4. CASE Queues(j)
  <2>1. jobs[j].status = Missing /\ jobs[j].version = 0
    BY <1>4 DEF Queues, NoRow
  <2>2. held[f].version = 0
    BY <1>1, <2>1 DEF Seen, JobRow
  <2>3. held[f].status = Missing
    BY <1>1, <2>1, <2>2 DEF Seen
  <2> QED BY <1>1, <2>3 DEF Seen, Active, Missing
<1> QED BY <1>1, <1>2, <1>3, <1>4 DEF Advances

(* When no execution moves, the fence stands. *)
LEMMA FenceUnmoved ==
  ASSUME Fence, Typed', Unqueued', Advances, \A f \in Executions : Idles(f)
  PROVE  Fence'
<1>1. Snapshots'
  BY StillSeen DEF Snapshots
<1>2. Claims'
  BY DEF Fence, Claims, Idles
<1> QED BY <1>1, <1>2 DEF Fence

(* When one execution moves, the fence stands if it stops, holds the row it
   read, or holds the row it has just written. *)
LEMMA FenceMoved ==
  ASSUME Fence, Typed', Unqueued', Advances, NEW e \in Executions,
         \A f \in Executions \ {e} : Idles(f),
         phase'[e] # "idle" =>
            /\ held'[e] = jobs'[target'[e]]
            /\ held'[e].status \in Active
            /\ phase'[e] = "running" =>
                 /\ held'[e].status = "PROCESSING"
                 /\ held'[e].version = jobs[target'[e]].version + 1
  PROVE  Fence'
<1>1. ASSUME phase'[e] # "idle" PROVE Seen(e)'
  BY <1>1 DEF Seen, Typed, TypeOK, Targets, JobRow
<1>2. Snapshots'
  BY <1>1, StillSeen DEF Snapshots
<1>3. ASSUME NEW f \in Executions \ {e}, phase'[e] = "running", phase'[f] = "running",
             target'[f] = target'[e]
      PROVE  held'[f].version # held'[e].version
  <2>1. held'[f].version <= jobs[target'[f]].version /\ target'[f] \in Jobs
    BY <1>3, StillSeen DEF Typed, Targets
  <2>2. jobs[target'[f]].version \in Nat /\ held'[f].version \in Nat
    BY <2>1, <1>3 DEF Fence, Typed, TypeOK, JobRow
  <2> QED BY <1>3, <2>1, <2>2
<1>4. Claims'
  BY <1>3 DEF Fence, Claims, Idles
<1> QED BY <1>2, <1>4 DEF Fence

(* A job is there only if its document is: jobs advance, and no document goes. *)
LEMMA UnqueuedKept ==
  ASSUME Fence, Typed', Advances,
         \A d \in Documents : docs'[d].status = Missing =>
            /\ docs[d].status = Missing
            /\ approved'[d] = 0
            /\ \A k \in Jobs : k.doc = d => jobs'[k] = jobs[k]
  PROVE  Unqueued'
<1>1. ASSUME NEW k \in Jobs, jobs'[k].status = Missing PROVE jobs'[k] = NoRow
  BY <1>1 DEF Fence, Unqueued, Advances, Queues, NewRow, NoRow, Missing
<1>2. ASSUME NEW k \in Jobs, docs'[k.doc].status = Missing PROVE jobs'[k].status = Missing
  BY <1>2, JobParts DEF Fence, Unqueued
<1> QED BY <1>1, <1>2 DEF Unqueued

(* A step of a worker on a job whose document is there creates no missing row. *)
LEMMA WorkerUnqueued ==
  ASSUME Fence, Typed', Advances, NEW j \in Jobs, docs[j.doc].status # Missing,
         \A k \in Jobs : k.doc # j.doc => jobs'[k] = jobs[k],
         docs' = docs \/ (\E status \in {"PROCESSING", "NEEDS_REVIEW", "FAILED"} :
                             docs' = WithDocStatus(j.doc, status)),
         approved' = approved
  PROVE  Unqueued'
<1>1. ASSUME NEW d \in Documents, docs'[d].status = Missing
      PROVE  docs[d].status = Missing
  BY <1>1, JobParts DEF Fence, Typed, TypeOK, WithDocStatus, Missing, DocRow
<1>2. ASSUME NEW d \in Documents, docs'[d].status = Missing
      PROVE  approved'[d] = 0 /\ \A k \in Jobs : k.doc = d => jobs'[k] = jobs[k]
  BY <1>1, <1>2 DEF Fence, Unqueued
<1> QED BY <1>1, <1>2, UnqueuedKept

(* One job that moves is an advance. *)
LEMMA OneMoves ==
  ASSUME NEW j \in Jobs, NEW status, status # Missing, NEW reserved, NEW cost,
         jobs[j].status \in Active, Moves(j, status, reserved, cost),
         OnlyChanges({j}) \/ (Queues(Child(j)) /\ OnlyChanges({j, Child(j)}))
  PROVE  /\ Advances
         /\ \A k \in Jobs : k.doc # j.doc => jobs'[k] = jobs[k]
<1>1. Child(j).doc = j.doc
  BY DEF Child, Jobs
<1> QED BY <1>1 DEF Advances, Moves, OnlyChanges

(* Before anything runs the fence stands. *)
LEMMA FenceInit == Init => Fence
<1> SUFFICES ASSUME Init PROVE Fence
  OBVIOUS
<1>1. Unqueued
  <2>1. \A j \in Jobs : jobs[j] = NoRow /\ jobs[j].status = Missing
    BY DEF Init, NoRow
  <2>2. \A d \in Documents : approved[d] = 0
    BY DEF Init
  <2> QED BY <2>1, <2>2 DEF Unqueued
<1>2. Snapshots /\ Claims
  BY DEF Init, Snapshots, Claims
<1> QED BY <1>1, <1>2, TypedInit DEF Fence

(* Every step of the system keeps the fence. *)
LEMMA FenceNext == Fence /\ [Next]_vars => Fence'
<1> SUFFICES ASSUME Fence, [Next]_vars PROVE Fence'
  OBVIOUS
<1>0. Typed'
  BY TypedNext DEF Fence
<1>1. ASSUME NEW d \in Documents, NEW stage \in Stages, Intake(d, stage) PROVE Fence'
  <2> DEFINE j == IntakeRoot(d, stage)
  <2>1. j \in Jobs /\ j.doc = d /\ jobs[j] = NoRow
    BY <1>1, NewJobs DEF Intake, Fence, Unqueued, IntakeRoot
  <2>2. jobs' = [jobs EXCEPT ![j] = NewRow] /\ docs' = [docs EXCEPT ![d].status = "QUEUED"]
    BY <1>1 DEF Intake
  <2> HIDE DEF j
  <2>3. jobs'[j] = NewRow /\ \A k \in Jobs \ {j} : jobs'[k] = jobs[k]
    BY <2>1, <2>2 DEF Fence, Typed, TypeOK
  <2>4. Advances
    BY <2>1, <2>3 DEF Advances, Queues
  <2>5. docs'[d].status # Missing /\ (\A x \in Documents \ {d} : docs'[x] = docs[x])
           /\ approved' = approved /\ (\A f \in Executions : Idles(f))
    BY <1>1 DEF Intake, executions, Idles, Fence, Typed, TypeOK, Missing, DocRow
  <2>6. Unqueued'
    BY <1>0, <2>1, <2>3, <2>4, <2>5, UnqueuedKept DEF Fence, Unqueued
  <2> QED BY <1>0, <2>4, <2>5, <2>6, FenceUnmoved
<1>2. ASSUME NEW d \in Documents, ApproveReprocess(d) PROVE Fence'
  <2>1. Advances /\ \A f \in Executions : Idles(f)
    BY <1>2 DEF ApproveReprocess, tables, executions, Advances, Idles
  <2>2. Unqueued'
    BY <1>2 DEF ApproveReprocess, Available, tables, Fence, Typed, TypeOK, Unqueued
  <2> QED BY <1>0, <2>1, <2>2, FenceUnmoved
<1>3. ASSUME NEW d \in Documents, DeleteDocument(d) PROVE Fence'
  <2>1. Advances /\ \A f \in Executions : Idles(f)
    BY <1>3 DEF DeleteDocument, executions, Advances, Idles
  <2>2. \A x \in Documents : docs'[x].status = docs[x].status
    BY <1>3 DEF DeleteDocument, Fence, Typed, TypeOK, DocRow
  <2>3. Unqueued'
    BY <1>3, <2>2, JobParts DEF DeleteDocument, Fence, Unqueued
  <2> QED BY <1>0, <2>1, <2>3, FenceUnmoved
<1>4. ASSUME NEW d \in Documents, NEW n \in 1..MaxRuns, CreateReprocess(d, n) PROVE Fence'
  <2> DEFINE j == ReprocessRoot(d, n)
  <2>1. j \in Jobs /\ j.doc = d /\ jobs[j] = NoRow
    BY <1>4, NewJobs DEF CreateReprocess, Fence, Unqueued, ReprocessRoot
  <2>2. jobs' = [jobs EXCEPT ![j] = NewRow] /\ docs' = WithDocStatus(d, "QUEUED")
    BY <1>4 DEF CreateReprocess
  <2> HIDE DEF j
  <2>3. jobs'[j] = NewRow /\ \A k \in Jobs \ {j} : jobs'[k] = jobs[k]
    BY <2>1, <2>2 DEF Fence, Typed, TypeOK
  <2>4. Advances /\ (\A f \in Executions : Idles(f))
    BY <1>4, <2>1, <2>3 DEF CreateReprocess, Advances, Queues, executions, Idles
  <2>5. docs[d].status # Missing
    BY <1>4 DEF CreateReprocess, Fence, Unqueued
  <2>6. docs'[d].status # Missing /\ (\A x \in Documents \ {d} : docs'[x] = docs[x])
    BY <2>2, <2>5 DEF WithDocStatus, Fence, Typed, TypeOK, Missing, DocRow
  <2>7. \A x \in Documents \ {d} : approved'[x] = approved[x]
    BY <1>4 DEF CreateReprocess, Fence, Typed, TypeOK
  <2>8. Unqueued'
    BY <1>0, <2>1, <2>3, <2>4, <2>6, <2>7, UnqueuedKept DEF Fence, Unqueued
  <2> QED BY <1>0, <2>4, <2>8, FenceUnmoved
<1>5. ASSUME UNCHANGED <<jobs, docs, executions, approved, raced>> PROVE Fence'
  <2>1. Advances /\ \A f \in Executions : Idles(f)
    BY <1>5 DEF executions, Advances, Idles
  <2>2. Unqueued'
    BY <1>5 DEF Fence, Unqueued
  <2> QED BY <1>0, <2>1, <2>2, FenceUnmoved
<1>6. ASSUME NEW e \in Executions, NEW j \in Jobs, ReadForClaim(e, j) PROVE Fence'
  <2>1. Advances /\ Unqueued'
    BY <1>6 DEF ReadForClaim, tables, Advances, Fence, Unqueued
  <2>2. /\ \A f \in Executions \ {e} : Idles(f)
        /\ phase'[e] = "claiming" /\ held'[e] = jobs'[target'[e]] /\ held'[e].status \in Active
    BY <1>6 DEF ReadForClaim, Start, tables, Idles, Fence, Typed, TypeOK
  <2> QED BY <1>0, <2>1, <2>2, FenceMoved
<1>7. ASSUME NEW e \in Executions, LoseClaim(e) \/ LoseRun(e) \/ Crash(e) PROVE Fence'
  <2>1. Advances /\ Unqueued'
    BY <1>7 DEF LoseClaim, LoseRun, Crash, tables, Advances, Fence, Unqueued
  <2>2. (\A f \in Executions \ {e} : Idles(f)) /\ phase'[e] = "idle"
    BY <1>7 DEF LoseClaim, LoseRun, Crash, Finish, Start, Idles, Fence, Typed, TypeOK
  <2> QED BY <1>0, <2>1, <2>2, FenceMoved
<1>8. ASSUME NEW e \in Executions, GrantClaim(e) PROVE Fence'
  <2> DEFINE j == target[e]
  <2>1. j \in Jobs /\ jobs[j].status \in Active /\ docs[j.doc].status # Missing
    BY <1>8, CurrentRow DEF GrantClaim, LocksCase
  <2>2. Advances /\ \A k \in Jobs : k.doc # j.doc => jobs'[k] = jobs[k]
    BY <1>8, <2>1, Granted, OneMoves DEF Missing
  <2>3. Unqueued'
    BY <1>0, <1>8, <2>1, <2>2, WorkerUnqueued, Granted DEF GrantClaim
  <2>4. /\ Start(e, "running", j, jobs'[j])
        /\ jobs'[j].status = "PROCESSING" /\ jobs'[j].version = jobs[j].version + 1
    BY <1>8, Granted DEF Moves
  <2>5. /\ \A f \in Executions \ {e} : Idles(f)
        /\ target'[e] = j /\ held'[e] = jobs'[j]
    BY <2>4 DEF Start, Idles, Fence, Typed, TypeOK
  <2> QED BY <1>0, <2>2, <2>3, <2>4, <2>5, FenceMoved DEF Active
<1>9. ASSUME NEW e \in Executions, ResumeClaim(e) PROVE Fence'
  <2> DEFINE j == target[e]
  <2>1. j \in Jobs /\ jobs[j].status \in Active /\ docs[j.doc].status # Missing
    BY <1>9, CurrentRow DEF ResumeClaim
  <2>2. Advances /\ \A k \in Jobs : k.doc # j.doc => jobs'[k] = jobs[k]
    BY <1>9, <2>1, Resumed, OneMoves DEF Missing
  <2>3. Unqueued'
    BY <1>0, <1>9, <2>1, <2>2, WorkerUnqueued DEF ResumeClaim
  <2>4. /\ Start(e, "running", j, jobs'[j])
        /\ jobs'[j].status = "PROCESSING" /\ jobs'[j].version = jobs[j].version + 1
    BY <1>9, Resumed DEF Moves
  <2>5. /\ \A f \in Executions \ {e} : Idles(f)
        /\ target'[e] = j /\ held'[e] = jobs'[j]
    BY <2>4 DEF Start, Idles, Fence, Typed, TypeOK
  <2> QED BY <1>0, <2>2, <2>3, <2>4, <2>5, FenceMoved DEF Active
<1>10. ASSUME NEW e \in Executions, NEW actual \in 0..held[e].reserved,
              BlockClaim(e) \/ Complete(e, actual) \/ Fail(e, actual) \/ Retry(e)
       PROVE  Fence'
  <2> DEFINE j == target[e]
  <2>1. j \in Jobs /\ jobs[j].status \in Active /\ docs[j.doc].status # Missing
    BY <1>10, CurrentRow DEF BlockClaim, LocksCase, Complete, Fail, CanSettle, Retry
  <2>2. Advances /\ \A k \in Jobs : k.doc # j.doc => jobs'[k] = jobs[k]
    <3>1. CASE BlockClaim(e)
      BY <2>1, <3>1, Refused, OneMoves DEF Missing
    <3>2. CASE Complete(e, actual)
      <4>1. /\ Moves(j, "COMPLETED", 0, jobs[j].cost + actual)
            /\ OnlyChanges({j}) \/ (Queues(Child(j)) /\ OnlyChanges({j, Child(j)}))
        BY <3>2, Completed
      <4> QED BY <2>1, <4>1, OneMoves DEF Missing
    <3>3. CASE Fail(e, actual)
      BY <2>1, <3>3, Failed, OneMoves DEF Missing
    <3>4. CASE Retry(e)
      BY <2>1, <3>4, Retried, OneMoves DEF Missing
    <3> QED BY <1>10, <3>1, <3>2, <3>3, <3>4
  <2>3. docs' = docs \/ (\E status \in {"PROCESSING", "NEEDS_REVIEW", "FAILED"} :
                            docs' = WithDocStatus(j.doc, status))
    BY <1>10 DEF BlockClaim, Complete, Fail, Retry
  <2>4. approved' = approved /\ Finish(e)
    BY <1>10 DEF BlockClaim, Complete, Fail, Retry
  <2>5. Unqueued'
    BY <1>0, <2>1, <2>2, <2>3, <2>4, WorkerUnqueued
  <2>6. (\A f \in Executions \ {e} : Idles(f)) /\ phase'[e] = "idle"
    BY <2>4 DEF Finish, Start, Idles, Fence, Typed, TypeOK
  <2> QED BY <1>0, <2>2, <2>5, <2>6, FenceMoved
<1>11. ASSUME NEW e \in Executions, Retry(e) PROVE Fence'
  <2>1. held[e].reserved \in Nat
    BY DEF Fence, Typed, TypeOK, JobRow
  <2>2. 0 \in 0..held[e].reserved
    BY <2>1
  <2> QED BY <1>10, <1>11, <2>2
<1>12. ASSUME NEW e \in Executions, BlockClaim(e) PROVE Fence'
  <2>1. held[e].reserved \in Nat
    BY DEF Fence, Typed, TypeOK, JobRow
  <2>2. 0 \in 0..held[e].reserved
    BY <2>1
  <2> QED BY <1>10, <1>12, <2>2
<1>13. ASSUME NEW c \in Cases, DeleteCase(c) \/ (\E limit \in Limits : UpdateBudget(c, limit))
       PROVE  Fence'
  BY <1>5, <1>13 DEF DeleteCase, UpdateBudget
<1>14. CASE UNCHANGED vars
  BY <1>5, <1>14 DEF vars, executions
<1> QED
  BY <1>1, <1>2, <1>3, <1>4, <1>6, <1>7, <1>8, <1>9, <1>10, <1>11, <1>12, <1>13, <1>14
     DEF Next, Api, Worker, Claiming, Settling

(* Of the executions running a job, the conditional UPDATE lets at most one
   through: the versions the claims write tell them apart. *)
THEOREM OwnerIsUnique == Spec => []SoleOwner
<1>1. Fence => SoleOwner
  BY DEF Fence, Claims, SoleOwner, Current
<1> QED BY <1>1, FenceInit, FenceNext, PTL DEF Spec

-----------------------------------------------------------------------------
(* The ceiling *)

(* No case passes its ceiling, and an amount is held only by a job that will
   be claimed or settled. *)
Ceiling == Fence /\ WithinLimit /\ NoStrandedReservation

(* The columns of a case that is settled. *)
LEMMA SettledFields ==
  ASSUME NEW case \in CaseRow, NEW row, NEW actual
  PROVE  /\ Settled(case, row, actual).spent = case.spent + actual
         /\ Settled(case, row, actual).reserved = case.reserved - row.reserved
         /\ Settled(case, row, actual).limit = case.limit
BY DEF Settled, CaseRow

(* A step that changes what no job holds, and leaves each case room. *)
LEMMA CeilingKept ==
  ASSUME Ceiling, Fence',
         \A k \in Jobs : /\ jobs'[k].reserved = jobs[k].reserved
                         /\ \/ jobs'[k].reserved = 0
                            \/ jobs'[k].status \in {"PROCESSING", "RETRYING"},
         \A c \in Cases : cases'[c].spent + cases'[c].reserved <= cases'[c].limit
  PROVE  Ceiling'
<1>1. WithinLimit'
  BY DEF WithinLimit
<1>2. NoStrandedReservation'
  BY DEF NoStrandedReservation, Fence, Typed, TypeOK, JobRow
<1> QED BY <1>1, <1>2 DEF Ceiling

(* A step that creates a job reserves nothing. *)
LEMMA CeilingQueued ==
  ASSUME Ceiling, Fence', NEW j \in Jobs, jobs[j].status = Missing,
         jobs' = [jobs EXCEPT ![j] = NewRow], cases' = cases
  PROVE  Ceiling'
<1>1. jobs[j] = NoRow /\ jobs'[j] = NewRow /\ \A k \in Jobs \ {j} : jobs'[k] = jobs[k]
  BY DEF Ceiling, Fence, Unqueued, Typed, TypeOK
<1>2. \A k \in Jobs : /\ jobs'[k].reserved = jobs[k].reserved
                      /\ \/ jobs'[k].reserved = 0
                         \/ jobs'[k].status \in {"PROCESSING", "RETRYING"}
  BY <1>1 DEF NewRow, NoRow, Ceiling, NoStrandedReservation, Fence, Typed, TypeOK, JobRow
<1> QED BY <1>2, CeilingKept DEF Ceiling, WithinLimit

(* What a held reservation lets a claim assume: while the ceiling holds, a
   job that holds its reservation is not cancelled for want of budget. *)
LEMMA RefusedHoldsNothing ==
  ASSUME Ceiling, NEW e \in Executions, BlockClaim(e)
  PROVE  jobs[target[e]].reserved = 0
<1> DEFINE c == CaseOf[target[e].doc]
<1>1. /\ target[e] \in Jobs /\ held[e] = jobs[target[e]] /\ held[e] \in JobRow
  BY Refused DEF Ceiling, Fence, Typed, TypeOK
<1>2. c \in Cases /\ cases[c] \in CaseRow /\ cases[c].spent + cases[c].reserved <= cases[c].limit
  BY <1>1, JobParts DEF Ceiling, WithinLimit, Fence, Typed, TypeOK
<1>3. ASSUME held[e].reserved # 0 PROVE FALSE
  <2>1. cases[c].spent + cases[c].reserved + ReservationToAdd(e) > cases[c].limit
    BY <1>3 DEF BlockClaim, Blocked
  <2>2. ReservationToAdd(e) = 0
    BY <1>3 DEF ReservationToAdd
  <2> QED BY <1>2, <2>1, <2>2 DEF CaseRow
<1> QED BY <1>1, <1>3

(* A settlement gives back what the job held and spends no more than that. *)
LEMMA CeilingSettled ==
  ASSUME Ceiling, Fence', NEW j \in Jobs, NEW actual \in Nat, actual <= jobs[j].reserved,
         jobs'[j].reserved = 0,
         \A k \in Jobs \ {j} : jobs'[k] = jobs[k] \/ Queues(k),
         cases' = [cases EXCEPT ![CaseOf[j.doc]] = Settled(@, jobs[j], actual)]
  PROVE  Ceiling'
<1> DEFINE c == CaseOf[j.doc]
<1>1. \A k \in Jobs \ {j} : /\ jobs'[k].reserved = jobs[k].reserved
                            /\ jobs'[k].reserved = 0 \/ jobs'[k].status = jobs[k].status
  BY DEF Queues, NewRow, NoRow
<1>2. WithinLimit'
  <2>1. /\ c \in Cases /\ cases[c] \in CaseRow /\ jobs[j].reserved \in Nat
        /\ cases[c].spent + cases[c].reserved <= cases[c].limit
    BY JobParts DEF Ceiling, WithinLimit, Fence, Typed, TypeOK, JobRow
  <2>2. /\ cases'[c].spent = cases[c].spent + actual
        /\ cases'[c].reserved = cases[c].reserved - jobs[j].reserved
        /\ cases'[c].limit = cases[c].limit
    BY <2>1, SettledFields DEF Ceiling, Fence, Typed, TypeOK
  <2>3. cases'[c].spent + cases'[c].reserved <= cases'[c].limit
    BY <2>1, <2>2 DEF CaseRow
  <2>4. \A x \in Cases \ {c} : cases'[x] = cases[x]
    BY DEF Ceiling, Fence, Typed, TypeOK
  <2> QED BY <2>3, <2>4 DEF Ceiling, WithinLimit
<1>3. NoStrandedReservation'
  BY <1>1 DEF Ceiling, NoStrandedReservation
<1> QED BY <1>2, <1>3 DEF Ceiling

(* At first no case has a ceiling, and nothing is reserved. *)
LEMMA CeilingInit == Init => Ceiling
<1> SUFFICES ASSUME Init PROVE Ceiling
  OBVIOUS
<1>1. WithinLimit
  BY DEF Init, WithinLimit
<1>2. NoStrandedReservation
  BY DEF Init, NoStrandedReservation, NoRow
<1> QED BY <1>1, <1>2, FenceInit DEF Ceiling

(* Every step of the workers and of the API keeps the ceiling. *)
LEMMA CeilingNext == Ceiling /\ [Next]_vars => Ceiling'
<1> SUFFICES ASSUME Ceiling, [Next]_vars PROVE Ceiling'
  OBVIOUS
<1>0. Fence'
  BY FenceNext DEF Ceiling
<1>1. ASSUME UNCHANGED <<jobs, cases>> PROVE Ceiling'
  BY <1>0, <1>1, CeilingKept
     DEF Ceiling, WithinLimit, NoStrandedReservation, Fence, Typed, TypeOK, JobRow
<1>2. ASSUME NEW d \in Documents, NEW stage \in Stages, Intake(d, stage) PROVE Ceiling'
  <2>1. IntakeRoot(d, stage) \in Jobs /\ jobs[IntakeRoot(d, stage)].status = Missing
    BY <1>2, NewJobs DEF Intake, IntakeRoot, Ceiling, Fence, Unqueued
  <2> QED BY <1>0, <1>2, <2>1, CeilingQueued DEF Intake
<1>3. ASSUME NEW d \in Documents, NEW n \in 1..MaxRuns, CreateReprocess(d, n) PROVE Ceiling'
  <2>1. ReprocessRoot(d, n) \in Jobs
    BY NewJobs
  <2> QED BY <1>0, <1>3, <2>1, CeilingQueued DEF CreateReprocess
<1>4. ASSUME NEW c \in Cases, NEW limit \in Limits, UpdateBudget(c, limit) PROVE Ceiling'
  <2>1. \A x \in Cases : /\ cases'[x].reserved = cases[x].reserved
                         /\ cases'[x].spent = cases[x].spent
                         /\ cases'[x].limit = IF x = c THEN limit ELSE cases[x].limit
    BY <1>4 DEF UpdateBudget, Ceiling, Fence, Typed, TypeOK, CaseRow
  <2>2. limit >= cases[c].spent + cases[c].reserved /\ limit \in Nat /\ cases[c] \in CaseRow
    BY <1>4, ConstantsAssumption DEF UpdateBudget, Ceiling, Fence, Typed, TypeOK
  <2>3. \A x \in Cases : cases'[x].spent + cases'[x].reserved <= cases'[x].limit
    BY <2>1, <2>2 DEF Ceiling, WithinLimit, CaseRow
  <2>4. jobs' = jobs
    BY <1>4 DEF UpdateBudget
  <2> QED BY <1>0, <2>1, <2>3, <2>4, CeilingKept
        DEF Ceiling, NoStrandedReservation, Fence, Typed, TypeOK, JobRow
<1>5. ASSUME NEW c \in Cases, DeleteCase(c) PROVE Ceiling'
  <2>1. jobs' = jobs /\ \A x \in Cases : /\ cases'[x].reserved = cases[x].reserved
                                       /\ cases'[x].spent = cases[x].spent
                                       /\ cases'[x].limit = cases[x].limit
    BY <1>5 DEF DeleteCase, Ceiling, Fence, Typed, TypeOK, CaseRow
  <2> QED BY <1>0, <2>1, CeilingKept
        DEF Ceiling, WithinLimit, NoStrandedReservation, Fence, Typed, TypeOK, JobRow
<1>6. ASSUME NEW e \in Executions, GrantClaim(e) PROVE Ceiling'
  <2> DEFINE j == target[e]
             c == CaseOf[j.doc]
             add == ReservationToAdd(e)
  <2>1. /\ j \in Jobs /\ OnlyChanges({j}) /\ add \in Nat
        /\ jobs'[j].status = "PROCESSING"
        /\ jobs'[j].reserved = jobs[j].reserved + add
    BY <1>6, Granted DEF Ceiling, Moves
  <2>2. cases' = [cases EXCEPT ![c].reserved = @ + add]
    BY <1>6 DEF GrantClaim
  <2>3. cases[c].spent + cases[c].reserved + add <= cases[c].limit
    <3>1. c \in Cases /\ cases[c] \in CaseRow
      BY <2>1, JobParts DEF Ceiling, Fence, Typed, TypeOK
    <3>2. ~(cases[c].spent + cases[c].reserved + add > cases[c].limit)
      BY <1>6 DEF GrantClaim, Blocked
    <3> QED BY <2>1, <3>1, <3>2 DEF CaseRow
  <2>4. \A x \in Cases : /\ cases'[x].spent = cases[x].spent /\ cases'[x].limit = cases[x].limit
                         /\ cases'[x].reserved = IF x = c THEN cases[x].reserved + add
                                                          ELSE cases[x].reserved
    BY <2>2 DEF Ceiling, Fence, Typed, TypeOK, CaseRow
  <2>5. WithinLimit'
    <3> HIDE DEF c, add
    <3>1. \A x \in Cases : cases[x] \in CaseRow
      BY DEF Ceiling, Fence, Typed, TypeOK
    <3> QED BY <2>1, <2>3, <2>4, <3>1 DEF Ceiling, WithinLimit, CaseRow
  <2>6. NoStrandedReservation'
    BY <2>1 DEF Ceiling, NoStrandedReservation, OnlyChanges
  <2> QED BY <1>0, <2>5, <2>6 DEF Ceiling
<1>7. ASSUME NEW e \in Executions, BlockClaim(e) PROVE Ceiling'
  <2>1. /\ target[e] \in Jobs /\ OnlyChanges({target[e]})
        /\ jobs'[target[e]].reserved = 0 /\ jobs[target[e]].reserved = 0
    BY <1>7, Refused, RefusedHoldsNothing DEF Ceiling, Moves
  <2>2. \A x \in Cases : /\ cases'[x].reserved = cases[x].reserved
                         /\ cases'[x].spent = cases[x].spent
                         /\ cases'[x].limit = cases[x].limit
    BY <1>7 DEF BlockClaim, Ceiling, Fence, Typed, TypeOK, CaseRow
  <2>3. \A k \in Jobs : /\ jobs'[k].reserved = jobs[k].reserved
                        /\ \/ jobs'[k].reserved = 0
                           \/ jobs'[k].status \in {"PROCESSING", "RETRYING"}
    BY <2>1 DEF OnlyChanges, Ceiling, NoStrandedReservation, Fence, Typed, TypeOK, JobRow
  <2> QED BY <1>0, <2>2, <2>3, CeilingKept DEF Ceiling, WithinLimit
<1>8. ASSUME NEW e \in Executions, ResumeClaim(e) \/ Retry(e) PROVE Ceiling'
  <2>1. /\ target[e] \in Jobs /\ OnlyChanges({target[e]})
        /\ jobs'[target[e]].reserved = jobs[target[e]].reserved
        /\ jobs'[target[e]].status \in {"PROCESSING", "RETRYING"}
    BY <1>8, Resumed, Retried DEF Ceiling, Moves
  <2>2. cases' = cases
    BY <1>8 DEF ResumeClaim, Retry
  <2>3. \A k \in Jobs : /\ jobs'[k].reserved = jobs[k].reserved
                        /\ \/ jobs'[k].reserved = 0
                           \/ jobs'[k].status \in {"PROCESSING", "RETRYING"}
    BY <2>1 DEF OnlyChanges, Ceiling, NoStrandedReservation, Fence, Typed, TypeOK, JobRow
  <2> QED BY <1>0, <2>2, <2>3, CeilingKept DEF Ceiling, WithinLimit
<1>9. ASSUME NEW e \in Executions, NEW actual \in 0..held[e].reserved,
             Complete(e, actual) \/ Fail(e, actual)
      PROVE  Ceiling'
  <2>1. /\ target[e] \in Jobs /\ actual \in Nat /\ actual <= jobs[target[e]].reserved
        /\ jobs'[target[e]].reserved = 0
        /\ \A k \in Jobs \ {target[e]} : jobs'[k] = jobs[k] \/ Queues(k)
        /\ cases' = [cases EXCEPT ![CaseOf[target[e].doc]] = Settled(@, jobs[target[e]], actual)]
    BY <1>9, Completed, Failed DEF Ceiling, Moves, OnlyChanges
  <2> QED BY <1>0, <2>1, CeilingSettled
<1>10. ASSUME NEW e \in Executions, LoseClaim(e) \/ LoseRun(e) \/ Crash(e) PROVE Ceiling'
  BY <1>1, <1>10 DEF LoseClaim, LoseRun, Crash, tables
<1>11. ASSUME NEW e \in Executions, NEW j \in Jobs, ReadForClaim(e, j) PROVE Ceiling'
  BY <1>1, <1>11 DEF ReadForClaim, tables
<1>12. ASSUME NEW d \in Documents, ApproveReprocess(d) \/ DeleteDocument(d) PROVE Ceiling'
  BY <1>1, <1>12 DEF ApproveReprocess, DeleteDocument, tables
<1>13. CASE UNCHANGED vars
  BY <1>1, <1>13 DEF vars
<1> QED
  BY <1>2, <1>3, <1>4, <1>5, <1>6, <1>7, <1>8, <1>9, <1>10, <1>11, <1>12, <1>13
     DEF Next, Api, Worker, Claiming, Settling

-----------------------------------------------------------------------------
(* The ceiling, with cancellations and answers: every writer of the budget *)

(* A cancellation has read the row of an active job. *)
CancellationsRead ==
    /\ cancelling \in [Jobs -> JobRow]
    /\ \A j \in Jobs : cancelling[j] # NoRow => cancelling[j].status \in Active

AskRow == [step : {"idle", "answering", "answered", "charging"}, about : Cases \cup {{}},
           cost : Nat, seen : CaseRow]

(* A question in flight is about a case. *)
QuestionsAsked ==
    /\ asks \in [Questions -> AskRow]
    /\ \A q \in Questions : asks[q].step # "idle" => asks[q].about \in Cases

Account == Ceiling /\ CancellationsRead /\ QuestionsAsked

(* A cancellation that commits gives the case room, and takes what the job
   held with it, when the job is still the row it read. *)
LEMMA CancelKeepsCeiling ==
  ASSUME Ceiling, CancellationsRead, NEW j \in Jobs, CommitCancel(j)
  PROVE  Ceiling'
<1> DEFINE c == CaseOf[j.doc]
           released == cancelling[j].reserved
<1>1. /\ cancelling[j] # NoRow /\ cancelling[j].status \in Active /\ released \in Nat
      /\ c \in Cases /\ jobs[j] \in JobRow /\ j.doc \in Documents
      /\ \A x \in Cases : cases[x] \in CaseRow
  BY JobParts DEF CommitCancel, CancellationsRead, JobRow, Ceiling, Fence, Typed, TypeOK
<1>2. /\ cases' \in [Cases -> CaseRow]
      /\ \A x \in Cases : cases'[x].spent + cases'[x].reserved <= cases'[x].limit
  <2>1. CASE released = 0
    <3>1. cases' = cases
      BY <2>1 DEF CommitCancel, ReleaseFirst
    <3> QED BY <3>1 DEF Ceiling, WithinLimit, Fence, Typed, TypeOK
  <2>2. CASE released # 0
    <3>1. released <= cases[c].reserved /\ cases' = [cases EXCEPT ![c].reserved = @ - released]
      BY <2>2 DEF CommitCancel, ReleaseFirst
    <3> HIDE DEF c, released
    <3>2. cases[c].reserved - released \in Nat
      BY <1>1, <3>1 DEF CaseRow
    <3>3. cases' \in [Cases -> CaseRow]
      BY <1>1, <3>1, <3>2 DEF CaseRow, Ceiling, Fence, Typed, TypeOK
    <3>4. \A x \in Cases : /\ cases'[x].spent = cases[x].spent
                           /\ cases'[x].limit = cases[x].limit
                           /\ cases'[x].reserved = IF x = c THEN cases[x].reserved - released
                                                            ELSE cases[x].reserved
      BY <1>1, <3>1 DEF CaseRow, Ceiling, Fence, Typed, TypeOK
    <3>5. \A x \in Cases : cases[x].spent + cases[x].reserved <= cases[x].limit
      BY DEF Ceiling, WithinLimit
    <3>6. \A x \in Cases : cases'[x].reserved <= cases[x].reserved
      BY <1>1, <3>4 DEF CaseRow
    <3>7. \A x \in Cases : cases'[x] \in CaseRow
      BY <3>3
    <3>8. ASSUME NEW x \in Cases PROVE cases'[x].spent + cases'[x].reserved <= cases'[x].limit
      <4>1. /\ cases[x].spent \in Nat /\ cases[x].limit \in Nat /\ cases[x].reserved \in Nat
            /\ cases'[x].reserved \in Nat
        BY <1>1, <3>7 DEF CaseRow
      <4>2. /\ cases[x].spent + cases[x].reserved <= cases[x].limit
            /\ cases'[x].reserved <= cases[x].reserved
            /\ cases'[x].spent = cases[x].spent /\ cases'[x].limit = cases[x].limit
        BY <3>4, <3>5, <3>6
      <4> QED BY <4>1, <4>2
    <3> QED BY <3>3, <3>8
  <2> QED BY <2>1, <2>2
<1>3. /\ docs' = docs /\ executions' = executions
      /\ approved' = approved /\ raced' = raced
  BY DEF CommitCancel
<1>4. \A f \in Executions : Idles(f)
  BY <1>3 DEF executions, Idles
<1>5. CASE ~Cancellable(j)
  <2>1. jobs' = jobs
    BY <1>5 DEF CommitCancel
  <2>2. Typed'
    BY <1>2, <1>3, <2>1 DEF executions, Ceiling, Fence, Typed, TypeOK, Targets
  <2>3. Advances /\ Unqueued'
    BY <1>3, <2>1 DEF Advances, Ceiling, Fence, Unqueued
  <2>4. Fence'
    BY <1>4, <2>2, <2>3, FenceUnmoved DEF Ceiling
  <2> QED BY <1>2, <2>1, <2>4 DEF Ceiling, WithinLimit, NoStrandedReservation
<1>6. CASE Cancellable(j)
  <2> DEFINE row == [Moved(jobs[j], "CANCELLED") EXCEPT !.reserved = 0]
  <2>1. jobs[j].status \in Active
    BY <1>1, <1>6 DEF Cancellable
  <2>2. /\ row \in JobRow /\ row.status = "CANCELLED" /\ row.reserved = 0
        /\ row.version = jobs[j].version + 1 /\ row.cost = jobs[j].cost
    <3> DEFINE moved == Moved(jobs[j], "CANCELLED")
    <3>1. "CANCELLED" \in JobStatus
      BY DEF JobStatus, Terminal
    <3>2. /\ moved \in JobRow /\ moved.status = "CANCELLED"
          /\ moved.version = jobs[j].version + 1 /\ moved.cost = jobs[j].cost
      BY <1>1, <3>1, RowTypes, MovedFields
    <3> HIDE DEF moved
    <3>3. row = [moved EXCEPT !.reserved = 0]
      BY DEF moved
    <3> HIDE DEF row
    <3> QED BY <3>2, <3>3 DEF JobRow
  <2>3. jobs' = [jobs EXCEPT ![j] = row]
    BY <1>6 DEF CommitCancel
  <2> HIDE DEF row
  <2>4. jobs'[j] = row /\ OnlyChanges({j}) /\ jobs' \in [Jobs -> JobRow]
    BY <2>2, <2>3 DEF OnlyChanges, Ceiling, Fence, Typed, TypeOK
  <2>5. Moves(j, "CANCELLED", 0, jobs[j].cost)
    BY <2>2, <2>4 DEF Moves
  <2>6. Advances /\ \A k \in Jobs : k.doc # j.doc => jobs'[k] = jobs[k]
    BY <2>1, <2>4, <2>5, OneMoves DEF Missing
  <2>7. Typed'
    BY <1>2, <1>3, <2>4 DEF executions, Ceiling, Fence, Typed, TypeOK, Targets
  <2>8. docs[j.doc].status # Missing
    BY <2>1 DEF Ceiling, Fence, Unqueued, Active, Missing
  <2>9. Unqueued'
    BY <1>3, <2>6, <2>7, <2>8, WorkerUnqueued DEF Ceiling
  <2>10. Fence'
    BY <1>4, <2>6, <2>7, <2>9, FenceUnmoved DEF Ceiling
  <2>11. NoStrandedReservation'
    BY <2>2, <2>4 DEF OnlyChanges, Ceiling, NoStrandedReservation
  <2> QED BY <1>2, <2>10, <2>11 DEF Ceiling, WithinLimit
<1> QED BY <1>5, <1>6

(* A charge that is not rejected leaves the case within its ceiling, whatever
   became of the row it read. *)
LEMMA ChargeKeepsCeiling ==
  ASSUME Ceiling, QuestionsAsked, NEW q \in Questions, Charge(q)
  PROVE  Ceiling'
<1> DEFINE c == asks[q].about
           seen == asks[q].seen
           amount == asks[q].cost
           row == ChargedCase(q)
<1>1. /\ c \in Cases /\ seen \in CaseRow /\ amount \in Nat /\ cases[c] \in CaseRow
  BY DEF Charge, QuestionsAsked, AskRow, Ceiling, Fence, Typed, TypeOK
<1>2. /\ cases' = [cases EXCEPT ![c] = row] /\ Accepts(row)
      /\ jobs' = jobs /\ docs' = docs /\ executions' = executions
      /\ approved' = approved /\ raced' = raced
  BY DEF Charge
<1>3. row \in CaseRow
  <2> DEFINE spent == seen.spent + amount
             budget == IF spent + seen.reserved >= seen.limit THEN "LIMIT_REACHED"
                                                               ELSE cases[c].budget
  <2>1. spent \in Nat
    BY <1>1 DEF CaseRow
  <2>2. budget \in {"ACTIVE", "LIMIT_REACHED"}
    BY <1>1 DEF CaseRow
  <2>3. row = [cases[c] EXCEPT !.spent = spent, !.budget = budget]
    BY DEF ChargedCase, Charged
  <2> HIDE DEF spent, budget, c, row
  <2> QED BY <1>1, <2>1, <2>2, <2>3 DEF CaseRow
<1> HIDE DEF c, row
<1>4. cases'[c] = row /\ \A x \in Cases \ {c} : cases'[x] = cases[x]
  BY <1>1, <1>2 DEF Ceiling, Fence, Typed, TypeOK
<1>5. Typed'
  BY <1>1, <1>2, <1>3 DEF executions, Ceiling, Fence, Typed, TypeOK, Targets
<1>6. Fence'
  <2>1. Advances /\ Unqueued' /\ \A f \in Executions : Idles(f)
    BY <1>2 DEF executions, Advances, Idles, Ceiling, Fence, Unqueued
  <2> QED BY <1>5, <2>1, FenceUnmoved DEF Ceiling
<1> QED BY <1>2, <1>4, <1>6 DEF Accepts, Ceiling, WithinLimit, NoStrandedReservation

LEMMA AccountInit == AssistantInit => Account
<1> SUFFICES ASSUME AssistantInit PROVE Account
  OBVIOUS
<1>1. Ceiling
  BY CeilingInit DEF AssistantInit, CancellationInit
<1>2. CancellationsRead
  BY RowTypes DEF AssistantInit, CancellationInit, CancellationsRead
<1>3. QuestionsAsked
  BY DEF AssistantInit, QuestionsAsked, AskRow, NoQuestion, Ask, NoCase, CaseRow
<1> QED BY <1>1, <1>2, <1>3 DEF Account

(* What a question becomes keeps the questions. *)
LEMMA QuestionMoves ==
  ASSUME QuestionsAsked, NEW q \in Questions,
         NEW ask \in AskRow, ask.step # "idle" => ask.about \in Cases, Becomes(q, ask)
  PROVE  QuestionsAsked'
BY DEF QuestionsAsked, Becomes

LEMMA AskTyped ==
  ASSUME NEW step \in {"answering", "answered", "charging"}, NEW c \in Cases,
         NEW amount \in Nat, NEW seen \in CaseRow
  PROVE  Ask(step, c, amount, seen) \in AskRow /\ Ask(step, c, amount, seen).about = c
BY DEF Ask, AskRow

LEMMA NoCaseTyped ==
  NoCase \in CaseRow /\ NoQuestion \in AskRow /\ NoQuestion.step = "idle"
BY DEF NoCase, NoQuestion, Ask, AskRow, CaseRow

(* A question keeps the account. *)
LEMMA AssistKeepsAccount ==
  ASSUME Account, NEW q \in Questions, Assist(q)
  PROVE  Account'
<1>1. QuestionsAsked'
  <2>1. ASSUME NEW c \in Cases, PutQuestion(q, c) PROVE QuestionsAsked'
    BY <2>1, AskTyped, NoCaseTyped, QuestionMoves DEF PutQuestion, Account
  <2>2. ASSUME Becomes(q, NoQuestion) PROVE QuestionsAsked'
    BY <2>2, NoCaseTyped, QuestionMoves DEF Account
  <2>3. ASSUME NEW amount \in 0..AnswerCost, Answer(q, amount) PROVE QuestionsAsked'
    <3>1. asks[q].about \in Cases /\ amount \in Nat
      <4>1. asks[q].about \in Cases
        BY <2>3 DEF Answer, Account, QuestionsAsked
      <4> QED BY <4>1, AnswerCostAssumption
    <3> QED BY <2>3, <3>1, AskTyped, NoCaseTyped, QuestionMoves DEF Answer, Account
  <2>4. ASSUME ReadForCharge(q) PROVE QuestionsAsked'
    <3>1. /\ asks[q].about \in Cases /\ asks[q].cost \in Nat
          /\ cases[asks[q].about] \in CaseRow
      BY <2>4 DEF ReadForCharge, Account, QuestionsAsked, AskRow, Ceiling, Fence, Typed, TypeOK
    <3> QED BY <2>4, <3>1, AskTyped, QuestionMoves DEF ReadForCharge, Account
  <2> QED BY <2>1, <2>2, <2>3, <2>4 DEF Assist, AnswerFails, Charge, ChargeFails
<1>2. cancelling' = cancelling
  BY DEF Assist, PutQuestion, AnswerFails, Answer, ReadForCharge, Charge, ChargeFails,
         cancellationVars
<1>3. CASE Charge(q)
  BY <1>1, <1>2, <1>3, ChargeKeepsCeiling DEF Account, CancellationsRead
<1>4. CASE ~Charge(q)
  <2>1. UNCHANGED vars
    BY <1>4 DEF Assist, PutQuestion, AnswerFails, Answer, ReadForCharge, ChargeFails,
                cancellationVars
  <2>2. Ceiling'
    BY <2>1, CeilingNext DEF Account
  <2> QED BY <1>1, <1>2, <2>2 DEF Account, CancellationsRead
<1> QED BY <1>3, <1>4

(* A cancellation keeps the account. *)
LEMMA CancelKeepsAccount ==
  ASSUME Account, NEW j \in Jobs, UNCHANGED asks,
         ReadForCancel(j) \/ CommitCancel(j) \/ AbortCancel(j)
  PROVE  Account'
<1>1. CancellationsRead'
  <2>1. CASE ReadForCancel(j)
    BY <2>1 DEF ReadForCancel, Account, CancellationsRead, Ceiling, Fence, Typed, TypeOK
  <2>2. CASE CommitCancel(j) \/ AbortCancel(j)
    <3>1. cancelling' = [cancelling EXCEPT ![j] = NoRow]
      BY <2>2 DEF CommitCancel, AbortCancel
    <3> QED BY <3>1, RowTypes DEF Account, CancellationsRead
  <2> QED BY <2>1, <2>2
<1>2. QuestionsAsked'
  BY DEF Account, QuestionsAsked
<1>3. Ceiling'
  <2>1. CASE CommitCancel(j)
    BY <2>1, CancelKeepsCeiling DEF Account
  <2>2. CASE ReadForCancel(j) \/ AbortCancel(j)
    BY <2>2, CeilingNext DEF ReadForCancel, AbortCancel, Account
  <2> QED BY <2>1, <2>2
<1> QED BY <1>1, <1>2, <1>3 DEF Account

LEMMA AccountNext == Account /\ [AssistantNext]_assistantVars => Account'
<1> SUFFICES ASSUME Account, [AssistantNext]_assistantVars PROVE Account'
  OBVIOUS
<1>1. ASSUME [Next]_vars, UNCHANGED <<cancelling, asks>> PROVE Account'
  <2>1. Ceiling'
    BY <1>1, CeilingNext DEF Account
  <2> QED BY <1>1, <2>1 DEF Account, CancellationsRead, QuestionsAsked
<1>2. CASE UNCHANGED assistantVars
  BY <1>1, <1>2 DEF assistantVars, cancellationVars
<1>3. CASE \E q \in Questions : Assist(q)
  BY <1>3, AssistKeepsAccount
<1>4. CASE CancellationNext /\ UNCHANGED <<asks, audited>>
  BY <1>1, <1>4, CancelKeepsAccount DEF CancellationNext
<1> QED BY <1>2, <1>3, <1>4 DEF AssistantNext

(* A cancelled job holds nothing and no case passes its ceiling, though a
   charge writes what it read and a cancellation releases what it read. *)
THEOREM BudgetAlwaysHolds == AssistantSpec => []BudgetHolds
<1>1. Account => BudgetHolds
  <2> SUFFICES ASSUME Account PROVE BudgetHolds
    OBVIOUS
  <2>1. WithinLimit
    BY DEF Account, Ceiling
  <2>2. CancelledReleases
    <3> SUFFICES ASSUME NEW j \in Jobs, jobs[j].status = "CANCELLED" PROVE jobs[j].reserved = 0
      BY DEF CancelledReleases
    <3>1. jobs[j].reserved \in Nat /\ ~(jobs[j].reserved > 0)
      BY DEF Account, Ceiling, NoStrandedReservation, Fence, Typed, TypeOK, JobRow
    <3> QED BY <3>1
  <2> QED BY <2>1, <2>2 DEF BudgetHolds
<1> QED BY <1>1, AccountInit, AccountNext, PTL DEF AssistantSpec

-----------------------------------------------------------------------------
(* What happens to a sum when one of its rows changes *)

(* A unit is held by one row, and numbered up to the amount of the row. *)
LEMMA UnitsMember ==
  ASSUME NEW f, NEW S
  PROVE  \A u : u \in Units(f, S) <=> \E x \in S : \E n \in 1..f[x] : u = <<x, n>>
BY DEF Units

(* A row that takes a more units adds them to the sum: a claim that reserves,
   a settlement that records a cost. *)
LEMMA TotalIncrease ==
  ASSUME NEW S, NEW f, NEW g, NEW k \in S, NEW a \in Nat,
         f[k] \in Nat, g[k] = f[k] + a,
         \A x \in S \ {k} : g[x] = f[x],
         IsFiniteSet(Units(f, S))
  PROVE  /\ IsFiniteSet(Units(g, S))
         /\ Total(g, S) = Total(f, S) + a
<1> DEFINE new == {k} \X ((f[k] + 1)..(f[k] + a))
           number == [n \in (f[k] + 1)..(f[k] + a) |-> <<k, n>>]
<1>1. IsFiniteSet((f[k] + 1)..(f[k] + a)) /\ Cardinality((f[k] + 1)..(f[k] + a)) = a
  <2> DEFINE first == f[k] + 1
             last == f[k] + a
  <2>1. first \in Int /\ last \in Int /\ (IF first > last THEN 0 ELSE last - first + 1) = a
    OBVIOUS
  <2> HIDE DEF first, last
  <2>2. IsFiniteSet(first..last) /\ Cardinality(first..last) = a
    BY <2>1, FS_Interval
  <2> QED BY <2>2 DEF first, last
<1>2. number \in Bijection((f[k] + 1)..(f[k] + a), new)
  <2>1. number \in [(f[k] + 1)..(f[k] + a) -> new]
    OBVIOUS
  <2>2. \A m, n \in (f[k] + 1)..(f[k] + a) : number[m] = number[n] => m = n
    OBVIOUS
  <2>3. \A u \in new : \E n \in (f[k] + 1)..(f[k] + a) : number[n] = u
    OBVIOUS
  <2> QED BY <2>1, <2>2, <2>3 DEF Bijection, Injection, Surjection, IsInjective
<1>3. IsFiniteSet(new) /\ Cardinality(new) = a
  BY <1>1, <1>2, FS_Bijection DEF ExistsBijection
<1>4. Units(g, S) = Units(f, S) \cup new
  <2>1. \A n : n \in 1..g[k] <=> n \in 1..f[k] \/ n \in (f[k] + 1)..(f[k] + a)
    OBVIOUS
  <2>2. ASSUME NEW u PROVE u \in Units(g, S) <=> u \in Units(f, S) \cup new
    <3>1. (\E n \in 1..g[k] : u = <<k, n>>)
             <=> (\E n \in 1..f[k] : u = <<k, n>>) \/ u \in new
      BY <2>1
    <3>2. (\E x \in S \ {k} : \E n \in 1..g[x] : u = <<x, n>>)
             <=> (\E x \in S \ {k} : \E n \in 1..f[x] : u = <<x, n>>)
      OBVIOUS
    <3>3. \A h : u \in Units(h, S) <=>
             \/ \E n \in 1..h[k] : u = <<k, n>>
             \/ \E x \in S \ {k} : \E n \in 1..h[x] : u = <<x, n>>
      BY UnitsMember
    <3> HIDE DEF new
    <3> QED BY <3>1, <3>2, <3>3
  <2> QED BY <2>2
<1>5. Units(f, S) \cap new = {}
  <2>1. ASSUME NEW u \in Units(f, S), u \in new PROVE FALSE
    <3>1. PICK x \in S : \E n \in 1..f[x] : u = <<x, n>>
      BY <2>1, UnitsMember
    <3>2. PICK n \in 1..f[x] : u = <<x, n>>
      BY <3>1
    <3>3. x = k /\ n \in (f[k] + 1)..(f[k] + a)
      BY <2>1, <3>2
    <3> QED BY <3>2, <3>3
  <2> QED BY <2>1
<1> HIDE DEF new
<1>6. Cardinality(Units(f, S) \cap new) = 0
  BY <1>5, FS_EmptySet
<1>7. Cardinality(Units(f, S)) \in Nat
  BY FS_CardinalityType
<1> QED BY <1>3, <1>4, <1>6, <1>7, FS_Union DEF Total

(* A row that gives a units back takes them from the sum, which had them: a
   settlement or a cancellation that releases a reservation. *)
LEMMA TotalDecrease ==
  ASSUME NEW S, NEW f, NEW g, NEW k \in S, NEW a \in Nat,
         g[k] \in Nat, f[k] = g[k] + a,
         \A x \in S \ {k} : g[x] = f[x],
         IsFiniteSet(Units(f, S))
  PROVE  /\ IsFiniteSet(Units(g, S))
         /\ Total(g, S) = Total(f, S) - a
         /\ a <= Total(f, S)
<1>1. Units(g, S) \subseteq Units(f, S)
  <2>1. ASSUME NEW u \in Units(g, S) PROVE u \in Units(f, S)
    <3>1. PICK x \in S : \E n \in 1..g[x] : u = <<x, n>>
      BY UnitsMember
    <3>2. PICK n \in 1..g[x] : u = <<x, n>>
      BY <3>1
    <3>3. n \in 1..f[x]
      BY <3>2
    <3> QED BY <3>2, <3>3, UnitsMember
  <2> QED BY <2>1
<1>2. IsFiniteSet(Units(g, S))
  BY <1>1, FS_Subset
<1>3. Total(f, S) = Total(g, S) + a
  <2>1. \A x \in S \ {k} : f[x] = g[x]
    OBVIOUS
  <2> QED BY <1>2, <2>1, TotalIncrease
<1>4. Total(g, S) \in Nat
  BY <1>2, FS_CardinalityType DEF Total
<1> QED BY <1>2, <1>3, <1>4

(* Rows that keep their amounts keep their sum. *)
LEMMA TotalUnchanged ==
  ASSUME NEW S, NEW f, NEW g, \A x \in S : g[x] = f[x]
  PROVE  Units(g, S) = Units(f, S) /\ Total(g, S) = Total(f, S)
BY DEF Units, Total

(* No amounts, no sum. *)
LEMMA TotalZero ==
  ASSUME NEW S, NEW f, \A x \in S : f[x] = 0
  PROVE  IsFiniteSet(Units(f, S)) /\ Total(f, S) = 0
<1>1. Units(f, S) = {}
  BY DEF Units
<1> QED BY <1>1, FS_EmptySet DEF Total

-----------------------------------------------------------------------------
(* The books *)

(* Amounts that can be added up, and columns that agree with them. *)
Books ==
    /\ \A c \in Cases : /\ IsFiniteSet(Units(Reserved, JobsOf(c)))
                        /\ IsFiniteSet(Units(Cost, JobsOf(c)))
    /\ ReservationsBalance
    /\ SpendingIsSettled

Budget == Ceiling /\ Books

-----------------------------------------------------------------------------
(* A job that takes an amount adds it to its own case alone. *)
LEMMA ColumnIncrease ==
  ASSUME NEW f, NEW g, NEW j \in Jobs, NEW a \in Nat, f[j] \in Nat, g[j] = f[j] + a,
         \A k \in Jobs \ {j} : g[k] = f[k],
         \A c \in Cases : IsFiniteSet(Units(f, JobsOf(c)))
  PROVE  \A c \in Cases :
            /\ IsFiniteSet(Units(g, JobsOf(c)))
            /\ Total(g, JobsOf(c)) = IF c = CaseOf[j.doc] THEN Total(f, JobsOf(c)) + a
                                                          ELSE Total(f, JobsOf(c))
<1> SUFFICES ASSUME NEW c \in Cases
    PROVE  /\ IsFiniteSet(Units(g, JobsOf(c)))
           /\ Total(g, JobsOf(c)) = IF c = CaseOf[j.doc] THEN Total(f, JobsOf(c)) + a
                                                         ELSE Total(f, JobsOf(c))
  OBVIOUS
<1> DEFINE S == JobsOf(c)
<1>1. IsFiniteSet(Units(f, S)) /\ S \subseteq Jobs
  BY DEF JobsOf
<1>2. CASE c = CaseOf[j.doc]
  <2>1. j \in S /\ \A k \in S \ {j} : g[k] = f[k]
    BY <1>1, <1>2 DEF JobsOf
  <2> HIDE DEF S
  <2>2. IsFiniteSet(Units(g, S)) /\ Total(g, S) = Total(f, S) + a
    BY <1>1, <2>1, TotalIncrease
  <2> QED BY <1>2, <2>2 DEF S
<1>3. CASE c # CaseOf[j.doc]
  <2>1. \A k \in S : g[k] = f[k]
    BY <1>1, <1>3 DEF JobsOf
  <2> HIDE DEF S
  <2>2. Units(g, S) = Units(f, S) /\ Total(g, S) = Total(f, S)
    BY <2>1, TotalUnchanged
  <2> QED BY <1>1, <1>3, <2>2 DEF S
<1> QED BY <1>2, <1>3

(* A job that gives an amount back takes it from its own case alone. *)
LEMMA ColumnDecrease ==
  ASSUME NEW f, NEW g, NEW j \in Jobs, NEW a \in Nat, g[j] \in Nat, f[j] = g[j] + a,
         \A k \in Jobs \ {j} : g[k] = f[k],
         \A c \in Cases : IsFiniteSet(Units(f, JobsOf(c)))
  PROVE  \A c \in Cases :
            /\ IsFiniteSet(Units(g, JobsOf(c)))
            /\ Total(g, JobsOf(c)) = IF c = CaseOf[j.doc] THEN Total(f, JobsOf(c)) - a
                                                          ELSE Total(f, JobsOf(c))
<1> SUFFICES ASSUME NEW c \in Cases
    PROVE  /\ IsFiniteSet(Units(g, JobsOf(c)))
           /\ Total(g, JobsOf(c)) = IF c = CaseOf[j.doc] THEN Total(f, JobsOf(c)) - a
                                                         ELSE Total(f, JobsOf(c))
  OBVIOUS
<1> DEFINE S == JobsOf(c)
<1>1. IsFiniteSet(Units(f, S)) /\ S \subseteq Jobs
  BY DEF JobsOf
<1>2. CASE c = CaseOf[j.doc]
  <2>1. j \in S /\ \A k \in S \ {j} : g[k] = f[k]
    BY <1>1, <1>2 DEF JobsOf
  <2> HIDE DEF S
  <2>2. IsFiniteSet(Units(g, S)) /\ Total(g, S) = Total(f, S) - a
    BY <1>1, <2>1, TotalDecrease
  <2> QED BY <1>2, <2>2 DEF S
<1>3. CASE c # CaseOf[j.doc]
  <2>1. \A k \in S : g[k] = f[k]
    BY <1>1, <1>3 DEF JobsOf
  <2> HIDE DEF S
  <2>2. Units(g, S) = Units(f, S) /\ Total(g, S) = Total(f, S)
    BY <2>1, TotalUnchanged
  <2> QED BY <1>1, <1>3, <2>2 DEF S
<1> QED BY <1>2, <1>3

(* The rows of the jobs, column by column. *)
LEMMA Columns ==
  ASSUME Typed, Typed'
  PROVE  \A j \in Jobs : /\ Reserved[j] = jobs[j].reserved /\ Reserved[j] \in Nat
                         /\ Cost[j] = jobs[j].cost /\ Cost[j] \in Nat
                         /\ Reserved'[j] = jobs'[j].reserved /\ Reserved'[j] \in Nat
                         /\ Cost'[j] = jobs'[j].cost /\ Cost'[j] \in Nat
BY DEF Typed, TypeOK, Reserved, Cost, JobRow

(* Steps that move no money keep the books. *)
LEMMA BooksKept ==
  ASSUME Books, Typed, Typed',
         \A k \in Jobs : jobs'[k].reserved = jobs[k].reserved /\ jobs'[k].cost = jobs[k].cost,
         \A c \in Cases : cases'[c].reserved = cases[c].reserved /\ cases'[c].spent = cases[c].spent
  PROVE  Books'
<1>1. \A k \in Jobs : Reserved'[k] = Reserved[k] /\ Cost'[k] = Cost[k]
  BY Columns
<1>2. ASSUME NEW c \in Cases
      PROVE  /\ Units(Reserved', JobsOf(c)) = Units(Reserved, JobsOf(c))
             /\ Total(Reserved', JobsOf(c)) = Total(Reserved, JobsOf(c))
             /\ Units(Cost', JobsOf(c)) = Units(Cost, JobsOf(c))
             /\ Total(Cost', JobsOf(c)) = Total(Cost, JobsOf(c))
  <2>1. \A k \in JobsOf(c) : Reserved'[k] = Reserved[k] /\ Cost'[k] = Cost[k]
    BY <1>1 DEF JobsOf
  <2> QED BY <2>1, TotalUnchanged
<1> QED BY <1>2 DEF Books, ReservationsBalance, SpendingIsSettled

(* A job that reserves keeps them, if its case reserves as much. *)
LEMMA BooksReserved ==
  ASSUME Books, Typed, Typed', NEW j \in Jobs, NEW a \in Nat,
         jobs'[j].reserved = jobs[j].reserved + a, jobs'[j].cost = jobs[j].cost,
         OnlyChanges({j}),
         cases' = [cases EXCEPT ![CaseOf[j.doc]].reserved = @ + a]
  PROVE  Books'
<1>1. /\ Reserved[j] \in Nat /\ Reserved'[j] = Reserved[j] + a
      /\ \A k \in Jobs \ {j} : Reserved'[k] = Reserved[k]
      /\ \A k \in Jobs : Cost'[k] = Cost[k]
  BY Columns DEF OnlyChanges
<1>2. \A c \in Cases : IsFiniteSet(Units(Reserved, JobsOf(c)))
  BY DEF Books
<1>3. \A c \in Cases :
        /\ IsFiniteSet(Units(Reserved', JobsOf(c)))
        /\ Total(Reserved', JobsOf(c)) = IF c = CaseOf[j.doc] THEN Total(Reserved, JobsOf(c)) + a
                                                              ELSE Total(Reserved, JobsOf(c))
  BY <1>1, <1>2, ColumnIncrease
<1>4. ASSUME NEW c \in Cases
      PROVE  /\ Units(Cost', JobsOf(c)) = Units(Cost, JobsOf(c))
             /\ Total(Cost', JobsOf(c)) = Total(Cost, JobsOf(c))
  <2>1. \A k \in JobsOf(c) : Cost'[k] = Cost[k]
    BY <1>1 DEF JobsOf
  <2> QED BY <2>1, TotalUnchanged
<1>5. \A c \in Cases : /\ cases'[c].spent = cases[c].spent
                       /\ cases'[c].reserved = IF c = CaseOf[j.doc] THEN cases[c].reserved + a
                                                                    ELSE cases[c].reserved
  BY DEF Typed, TypeOK, CaseRow
<1> QED BY <1>3, <1>4, <1>5 DEF Books, ReservationsBalance, SpendingIsSettled

(* A job that is settled keeps them: what it holds is given back, and what it
   cost is spent. *)
LEMMA BooksSettled ==
  ASSUME Books, Typed, Typed', NEW j \in Jobs, NEW actual \in Nat,
         jobs'[j].reserved = 0, jobs'[j].cost = jobs[j].cost + actual,
         \A k \in Jobs \ {j} : /\ jobs'[k].reserved = jobs[k].reserved
                               /\ jobs'[k].cost = jobs[k].cost,
         cases' = [cases EXCEPT ![CaseOf[j.doc]] = Settled(@, jobs[j], actual)]
  PROVE  Books'
<1> DEFINE given == jobs[j].reserved
<1>1. /\ given \in Nat /\ Reserved'[j] \in Nat /\ Reserved[j] = Reserved'[j] + given
      /\ Cost[j] \in Nat /\ Cost'[j] = Cost[j] + actual
      /\ \A k \in Jobs \ {j} : Reserved'[k] = Reserved[k] /\ Cost'[k] = Cost[k]
  BY Columns
<1>2. \A c \in Cases : IsFiniteSet(Units(Reserved, JobsOf(c))) /\ IsFiniteSet(Units(Cost, JobsOf(c)))
  BY DEF Books
<1>3. \A c \in Cases :
        /\ IsFiniteSet(Units(Reserved', JobsOf(c)))
        /\ Total(Reserved', JobsOf(c)) = IF c = CaseOf[j.doc] THEN Total(Reserved, JobsOf(c)) - given
                                                              ELSE Total(Reserved, JobsOf(c))
  <2> HIDE DEF given
  <2>1. /\ given \in Nat /\ Reserved'[j] \in Nat /\ Reserved[j] = Reserved'[j] + given
        /\ \A k \in Jobs \ {j} : Reserved'[k] = Reserved[k]
        /\ \A c \in Cases : IsFiniteSet(Units(Reserved, JobsOf(c)))
    BY <1>1, <1>2
  <2> QED BY <2>1, ColumnDecrease
<1>4. \A c \in Cases :
        /\ IsFiniteSet(Units(Cost', JobsOf(c)))
        /\ Total(Cost', JobsOf(c)) = IF c = CaseOf[j.doc] THEN Total(Cost, JobsOf(c)) + actual
                                                          ELSE Total(Cost, JobsOf(c))
  <2>1. /\ Cost[j] \in Nat /\ Cost'[j] = Cost[j] + actual
        /\ \A k \in Jobs \ {j} : Cost'[k] = Cost[k]
        /\ \A c \in Cases : IsFiniteSet(Units(Cost, JobsOf(c)))
    BY <1>1, <1>2
  <2> QED BY <2>1, ColumnIncrease
<1>5. \A c \in Cases :
        /\ cases'[c].spent = IF c = CaseOf[j.doc] THEN cases[c].spent + actual ELSE cases[c].spent
        /\ cases'[c].reserved = IF c = CaseOf[j.doc] THEN cases[c].reserved - given
                                                     ELSE cases[c].reserved
  BY SettledFields DEF Typed, TypeOK
<1> QED BY <1>3, <1>4, <1>5 DEF Books, ReservationsBalance, SpendingIsSettled

-----------------------------------------------------------------------------
(* With no job, nothing is reserved and nothing is spent. *)
LEMMA BudgetInit == Init => Budget
<1> SUFFICES ASSUME Init PROVE Budget
  OBVIOUS
<1>1. \A j \in Jobs : Reserved[j] = 0 /\ Cost[j] = 0
  BY DEF Init, Reserved, Cost, NoRow
<1>2. \A c \in Cases : /\ IsFiniteSet(Units(Reserved, JobsOf(c))) /\ Total(Reserved, JobsOf(c)) = 0
                       /\ IsFiniteSet(Units(Cost, JobsOf(c))) /\ Total(Cost, JobsOf(c)) = 0
  <2> SUFFICES ASSUME NEW c \in Cases
      PROVE  /\ IsFiniteSet(Units(Reserved, JobsOf(c))) /\ Total(Reserved, JobsOf(c)) = 0
             /\ IsFiniteSet(Units(Cost, JobsOf(c))) /\ Total(Cost, JobsOf(c)) = 0
    OBVIOUS
  <2>1. \A j \in JobsOf(c) : Reserved[j] = 0 /\ Cost[j] = 0
    BY <1>1 DEF JobsOf
  <2> QED BY <2>1, TotalZero
<1>3. \A c \in Cases : cases[c].reserved = 0 /\ cases[c].spent = 0
  BY DEF Init
<1>4. Books
  BY <1>2, <1>3 DEF Books, ReservationsBalance, SpendingIsSettled
<1> QED BY <1>4, CeilingInit DEF Budget

(* Every step of the workers and of the API keeps the books. *)
LEMMA BudgetNext == Budget /\ [Next]_vars => Budget'
<1> SUFFICES ASSUME Budget, [Next]_vars PROVE Books'
  BY CeilingNext DEF Budget
<1>0. Typed /\ Typed'
  BY FenceNext DEF Budget, Ceiling, Fence
<1>1. ASSUME \A k \in Jobs : jobs'[k].reserved = jobs[k].reserved /\ jobs'[k].cost = jobs[k].cost,
             \A x \in Cases : /\ cases'[x].reserved = cases[x].reserved
                              /\ cases'[x].spent = cases[x].spent
      PROVE  Books'
  BY <1>0, <1>1, BooksKept DEF Budget
<1>2. ASSUME NEW j \in Jobs, jobs[j].status = Missing, jobs' = [jobs EXCEPT ![j] = NewRow],
             cases' = cases
      PROVE  Books'
  <2>1. jobs[j] = NoRow /\ jobs'[j] = NewRow /\ \A k \in Jobs \ {j} : jobs'[k] = jobs[k]
    BY <1>2 DEF Budget, Ceiling, Fence, Unqueued, Typed, TypeOK
  <2>2. \A k \in Jobs : jobs'[k].reserved = jobs[k].reserved /\ jobs'[k].cost = jobs[k].cost
    BY <2>1 DEF NewRow, NoRow
  <2> QED BY <1>1, <1>2, <2>2
<1>3. ASSUME UNCHANGED <<jobs, cases>> PROVE Books'
  BY <1>1, <1>3
<1>4. ASSUME NEW d \in Documents, NEW stage \in Stages, Intake(d, stage) PROVE Books'
  <2>1. IntakeRoot(d, stage) \in Jobs /\ jobs[IntakeRoot(d, stage)].status = Missing
    BY <1>4, NewJobs DEF Intake, IntakeRoot, Budget, Ceiling, Fence, Unqueued
  <2> QED BY <1>2, <1>4, <2>1 DEF Intake
<1>5. ASSUME NEW d \in Documents, NEW n \in 1..MaxRuns, CreateReprocess(d, n) PROVE Books'
  <2>1. ReprocessRoot(d, n) \in Jobs
    BY NewJobs
  <2> QED BY <1>2, <1>5, <2>1 DEF CreateReprocess
<1>6. ASSUME NEW c \in Cases,
             DeleteCase(c) \/ (\E limit \in Limits : UpdateBudget(c, limit))
      PROVE  Books'
  <2>1. jobs' = jobs /\ \A x \in Cases : /\ cases'[x].reserved = cases[x].reserved
                                         /\ cases'[x].spent = cases[x].spent
    <3>1. CASE DeleteCase(c)
      BY <1>0, <3>1 DEF DeleteCase, Typed, TypeOK, CaseRow
    <3>2. ASSUME NEW limit \in Limits, UpdateBudget(c, limit)
          PROVE  jobs' = jobs /\ \A x \in Cases : /\ cases'[x].reserved = cases[x].reserved
                                                 /\ cases'[x].spent = cases[x].spent
      BY <1>0, <3>2 DEF UpdateBudget, Typed, TypeOK, CaseRow
    <3> QED BY <1>6, <3>1, <3>2
  <2> QED BY <1>1, <2>1
<1>7. ASSUME NEW e \in Executions, GrantClaim(e) PROVE Books'
  <2> DEFINE j == target[e]
             add == ReservationToAdd(e)
  <2>1. /\ j \in Jobs /\ OnlyChanges({j}) /\ add \in Nat
        /\ jobs'[j].reserved = jobs[j].reserved + add /\ jobs'[j].cost = jobs[j].cost
    BY <1>7, Granted DEF Budget, Ceiling, Moves
  <2>2. cases' = [cases EXCEPT ![CaseOf[j.doc]].reserved = @ + add]
    BY <1>7 DEF GrantClaim
  <2> QED BY <1>0, <2>1, <2>2, BooksReserved DEF Budget
<1>8. ASSUME NEW e \in Executions, BlockClaim(e) \/ ResumeClaim(e) \/ Retry(e) PROVE Books'
  <2>1. /\ target[e] \in Jobs /\ OnlyChanges({target[e]})
        /\ jobs'[target[e]].reserved = jobs[target[e]].reserved
        /\ jobs'[target[e]].cost = jobs[target[e]].cost
    BY <1>8, Refused, Resumed, Retried DEF Budget, Ceiling, Moves
  <2>2. \A k \in Jobs : jobs'[k].reserved = jobs[k].reserved /\ jobs'[k].cost = jobs[k].cost
    BY <2>1 DEF OnlyChanges
  <2>3. \A x \in Cases : /\ cases'[x].reserved = cases[x].reserved
                         /\ cases'[x].spent = cases[x].spent
    BY <1>0, <1>8 DEF BlockClaim, ResumeClaim, Retry, Typed, TypeOK, CaseRow
  <2> QED BY <1>1, <2>2, <2>3
<1>9. ASSUME NEW e \in Executions, NEW actual \in 0..held[e].reserved,
             Complete(e, actual) \/ Fail(e, actual)
      PROVE  Books'
  <2>1. /\ target[e] \in Jobs /\ actual \in Nat
        /\ jobs'[target[e]].reserved = 0
        /\ jobs'[target[e]].cost = jobs[target[e]].cost + actual
        /\ \A k \in Jobs \ {target[e]} : jobs'[k] = jobs[k] \/ Queues(k)
        /\ cases' = [cases EXCEPT ![CaseOf[target[e].doc]] = Settled(@, jobs[target[e]], actual)]
    BY <1>9, Completed, Failed DEF Budget, Ceiling, Moves, OnlyChanges
  <2>2. \A k \in Jobs \ {target[e]} : /\ jobs'[k].reserved = jobs[k].reserved
                                      /\ jobs'[k].cost = jobs[k].cost
    BY <2>1 DEF Queues, NewRow, NoRow
  <2> QED BY <1>0, <2>1, <2>2, BooksSettled DEF Budget
<1>10. ASSUME NEW e \in Executions,
              LoseClaim(e) \/ LoseRun(e) \/ Crash(e) \/ (\E j \in Jobs : ReadForClaim(e, j))
       PROVE  Books'
  BY <1>3, <1>10 DEF LoseClaim, LoseRun, Crash, ReadForClaim, tables
<1>11. ASSUME NEW d \in Documents, ApproveReprocess(d) \/ DeleteDocument(d) PROVE Books'
  BY <1>3, <1>11 DEF ApproveReprocess, DeleteDocument, tables
<1>12. CASE UNCHANGED vars
  BY <1>3, <1>12 DEF vars
<1> QED
  BY <1>4, <1>5, <1>6, <1>7, <1>8, <1>9, <1>10, <1>11, <1>12
     DEF Next, Api, Worker, Claiming, Settling

-----------------------------------------------------------------------------
(* What a case says is reserved is the sum of what its jobs hold. *)
THEOREM ReservationsAlwaysBalance == Spec => []ReservationsBalance
<1>1. Budget => ReservationsBalance
  BY DEF Budget, Books
<1> QED BY <1>1, BudgetInit, BudgetNext, PTL DEF Spec

(* What a case has spent is the sum of the settled costs of its jobs. *)
THEOREM SpendingIsAlwaysSettled == Spec => []SpendingIsSettled
<1>1. Budget => SpendingIsSettled
  BY DEF Budget, Books
<1> QED BY <1>1, BudgetInit, BudgetNext, PTL DEF Spec

(* What a case has spent and reserved never exceeds its ceiling. *)
THEOREM CeilingHolds == Spec => []WithinLimit
<1>1. Budget => WithinLimit
  BY DEF Budget, Ceiling
<1> QED BY <1>1, BudgetInit, BudgetNext, PTL DEF Spec

(* No job that has ended, or has not begun, holds a reservation. *)
THEOREM NoReservationIsStranded == Spec => []NoStrandedReservation
<1>1. Budget => NoStrandedReservation
  BY DEF Budget, Ceiling
<1> QED BY <1>1, BudgetInit, BudgetNext, PTL DEF Spec

-----------------------------------------------------------------------------
(* The ledger *)

(* What the ledger derives is what the case has written down. *)
LEMMA OnHoldIsReserved ==
  ASSUME Budget
  PROVE  \A c \in Cases : Ledger!OnHold(c) = cases[c].reserved
<1> SUFFICES ASSUME NEW c \in Cases PROVE Ledger!OnHold(c) = cases[c].reserved
  OBVIOUS
<1>1. Ledger!JobsOf(c) = JobsOf(c)
  BY DEF Ledger!JobsOf, JobsOf
<1>2. cases[c].reserved = Total(Reserved, JobsOf(c))
  BY DEF Budget, Books, ReservationsBalance
<1>3. \A S : Ledger!Total(Reserved, S) = Total(Reserved, S)
  BY DEF Ledger!Total, Ledger!Units, Ledger!Cardinality, Total, Units, Cardinality
<1> QED BY <1>1, <1>2, <1>3 DEF Ledger!OnHold

(* The columns the ledger sees. *)
LimitColumn == [c \in Cases |-> cases[c].limit]
SpentColumn == [c \in Cases |-> cases[c].spent]
OpenColumn == [c \in Cases |-> cases[c].budget = "ACTIVE"]

LedgerKept == /\ Reserved' = Reserved /\ LimitColumn' = LimitColumn
              /\ SpentColumn' = SpentColumn /\ OpenColumn' = OpenColumn

(* No job holds anything and no case has a ceiling at first. *)
LEMMA LedgerInit == Init => Ledger!Init
<1> SUFFICES ASSUME Init PROVE Ledger!Init
  OBVIOUS
<1>1. \A c \in Cases : /\ cases[c].limit = 0 /\ cases[c].spent = 0
                       /\ cases[c].budget = "ACTIVE"
  BY DEF Init
<1>2. Reserved = [j \in Jobs |-> 0]
  BY DEF Init, Reserved, NoRow
<1>3. /\ [c \in Cases |-> cases[c].limit] = [c \in Cases |-> 0]
      /\ [c \in Cases |-> cases[c].spent] = [c \in Cases |-> 0]
  BY <1>1
<1>4. [c \in Cases |-> cases[c].budget = "ACTIVE"] = [c \in Cases |-> TRUE]
  BY <1>1, Zenon
<1> QED BY <1>2, <1>3, <1>4 DEF Ledger!Init

(* A step that changes no column of the ledger. *)
LEMMA LedgerStill ==
  ASSUME \A k \in Jobs : jobs'[k].reserved = jobs[k].reserved,
         \A c \in Cases : /\ cases'[c].limit = cases[c].limit
                          /\ cases'[c].spent = cases[c].spent
                          /\ cases'[c].budget = cases[c].budget
  PROVE  LedgerKept
BY DEF LedgerKept, Reserved, LimitColumn, SpentColumn, OpenColumn

(* A claim that reserves. *)
LEMMA LedgerReserve ==
  ASSUME Budget, NEW e \in Executions, GrantClaim(e)
  PROVE  Ledger!Next \/ LedgerKept
<1> DEFINE j == target[e]
           c == CaseOf[j.doc]
           add == ReservationToAdd(e)
<1>1. /\ j \in Jobs /\ held[e] = jobs[j] /\ OnlyChanges({j})
      /\ jobs'[j].reserved = jobs[j].reserved + add /\ add \in Nat
  BY Granted DEF Budget, Ceiling, Moves
<1>2. c \in Cases /\ cases[c] \in CaseRow /\ jobs[j] \in JobRow /\ Quote[j.stage] \in Nat
  BY <1>1, JobParts DEF Budget, Ceiling, Fence, Typed, TypeOK
<1>3. \A x \in Cases : /\ cases'[x].limit = cases[x].limit
                       /\ cases'[x].spent = cases[x].spent
                       /\ cases'[x].budget = cases[x].budget
  BY DEF GrantClaim, Budget, Ceiling, Fence, Typed, TypeOK, CaseRow
<1>4. /\ ~(cases[c].budget = "LIMIT_REACHED" /\ jobs[j].reserved = 0)
      /\ ~(cases[c].spent + cases[c].reserved + add > cases[c].limit)
  BY <1>1 DEF GrantClaim, Blocked
<1>5. CASE jobs[j].reserved # 0
  <2>1. jobs'[j].reserved = jobs[j].reserved
    BY <1>1, <1>2, <1>5 DEF ReservationToAdd, JobRow
  <2>2. \A k \in Jobs : jobs'[k].reserved = jobs[k].reserved
    BY <1>1, <2>1 DEF OnlyChanges
  <2> QED BY <1>3, <2>2, LedgerStill
<1>6. CASE jobs[j].reserved = 0
  <2>1. add = Quote[j.stage] /\ jobs'[j].reserved = Quote[j.stage]
    BY <1>1, <1>2, <1>6 DEF ReservationToAdd
  <2>2. cases[c].budget = "ACTIVE"
    BY <1>2, <1>4, <1>6 DEF CaseRow
  <2>3. cases[c].spent + Ledger!OnHold(c) + Quote[j.stage] <= cases[c].limit
    BY <1>2, <1>4, <2>1, OnHoldIsReserved DEF CaseRow
  <2>4. Reserved' = [Reserved EXCEPT ![j] = Quote[j.stage]]
    BY <1>1, <2>1 DEF Reserved, OnlyChanges
  <2>5. LimitColumn' = LimitColumn /\ SpentColumn' = SpentColumn /\ OpenColumn' = OpenColumn
    BY <1>3 DEF LimitColumn, SpentColumn, OpenColumn
  <2>6. Ledger!Reserve(j, Quote[j.stage])
    BY <1>1, <1>2, <1>6, <2>2, <2>3, <2>4, <2>5
       DEF Ledger!Reserve, Reserved, LimitColumn, SpentColumn, OpenColumn
  <2>7. j.stage \in Stages
    BY <1>1, JobParts
  <2> QED BY <1>1, <2>6, <2>7 DEF Ledger!Next
<1> QED BY <1>5, <1>6

(* A claim that is refused. *)
LEMMA LedgerRefuse ==
  ASSUME Budget, NEW e \in Executions, BlockClaim(e)
  PROVE  Ledger!Next \/ LedgerKept
<1> DEFINE j == target[e]
           c == CaseOf[j.doc]
<1>1. /\ j \in Jobs /\ held[e] = jobs[j] /\ jobs[j].reserved = 0
      /\ \A k \in Jobs : jobs'[k].reserved = jobs[k].reserved
  BY Refused, RefusedHoldsNothing DEF Budget, Ceiling, Moves, OnlyChanges
<1>2. /\ c \in Cases /\ cases[c] \in CaseRow /\ j.stage \in Stages
      /\ ReservationToAdd(e) = Quote[j.stage]
  BY <1>1, JobParts DEF Budget, Ceiling, Fence, Typed, TypeOK, ReservationToAdd
<1>3. cases' = [cases EXCEPT ![c].budget = "LIMIT_REACHED"]
  BY DEF BlockClaim
<1> HIDE DEF c
<1>4. \A x \in Cases : /\ cases'[x].limit = cases[x].limit
                       /\ cases'[x].spent = cases[x].spent
                       /\ cases'[x].budget = IF x = c THEN "LIMIT_REACHED" ELSE cases[x].budget
  BY <1>2, <1>3 DEF Budget, Ceiling, Fence, Typed, TypeOK, CaseRow
<1>5. CASE cases[c].budget = "LIMIT_REACHED"
  BY <1>1, <1>4, <1>5, LedgerStill
<1>6. CASE cases[c].budget # "LIMIT_REACHED"
  <2>1. PICK amount \in {Quote[s] : s \in Stages} : amount = Quote[j.stage]
    BY <1>2
  <2>2. cases[c].spent + cases[c].reserved + amount > cases[c].limit
    BY <1>2, <1>6, <2>1 DEF BlockClaim, Blocked, c
  <2>3. cases[c].spent + Ledger!OnHold(c) + amount > cases[c].limit
    BY <1>2, <2>2, OnHoldIsReserved
  <2>4. OpenColumn' = [OpenColumn EXCEPT ![c] = FALSE]
    BY <1>2, <1>4 DEF OpenColumn
  <2>5. Reserved' = Reserved /\ LimitColumn' = LimitColumn /\ SpentColumn' = SpentColumn
    BY <1>1, <1>4 DEF Reserved, LimitColumn, SpentColumn
  <2>6. Ledger!Refuse(c, amount)
    BY <1>2, <2>3, <2>4, <2>5
       DEF Ledger!Refuse, Reserved, LimitColumn, SpentColumn, OpenColumn
  <2>7. \E x \in Cases : \E a \in {Quote[s] : s \in Stages} : Ledger!Refuse(x, a)
    BY <1>2, <2>6
  <2> QED BY <2>7 DEF Ledger!Next
<1> QED BY <1>5, <1>6

(* A settlement. *)
LEMMA LedgerSettle ==
  ASSUME Budget, NEW j \in Jobs, NEW actual \in Nat, actual <= jobs[j].reserved,
         jobs'[j].reserved = 0,
         \A k \in Jobs \ {j} : jobs'[k] = jobs[k] \/ Queues(k),
         cases' = [cases EXCEPT ![CaseOf[j.doc]] = Settled(@, jobs[j], actual)]
  PROVE  Ledger!Next
<1> DEFINE c == CaseOf[j.doc]
           committed == cases[c].spent + actual + (cases[c].reserved - jobs[j].reserved)
           full == cases[c].limit > 0 /\ committed >= cases[c].limit
<1>1. c \in Cases /\ cases[c] \in CaseRow /\ jobs[j].reserved \in Nat
  BY JobParts DEF Budget, Ceiling, Fence, Typed, TypeOK, JobRow
<1>2. /\ cases'[c].spent = cases[c].spent + actual /\ cases'[c].limit = cases[c].limit
      /\ cases'[c].budget = IF cases[c].budget = "LIMIT_REACHED" \/ full
                            THEN "LIMIT_REACHED" ELSE "ACTIVE"
      /\ \A x \in Cases \ {c} : cases'[x] = cases[x]
  <2>1. cases'[c] = Settled(cases[c], jobs[j], actual) /\ \A x \in Cases \ {c} : cases'[x] = cases[x]
    BY <1>1 DEF Budget, Ceiling, Fence, Typed, TypeOK
  <2>2. Settled(cases[c], jobs[j], actual).budget
           = IF cases[c].budget = "LIMIT_REACHED" \/ full THEN "LIMIT_REACHED" ELSE "ACTIVE"
    BY <1>1 DEF Settled, CaseRow
  <2> QED BY <1>1, <2>1, <2>2, SettledFields
<1>3. Reserved' = [Reserved EXCEPT ![j] = 0]
  <2>1. \A k \in Jobs \ {j} : jobs'[k].reserved = jobs[k].reserved
    BY DEF Queues, NewRow, NoRow
  <2> QED BY <2>1 DEF Reserved
<1>4. cases[c].reserved = Ledger!OnHold(c)
  BY <1>1, OnHoldIsReserved
<1> HIDE DEF c
<1>5. SpentColumn' = [SpentColumn EXCEPT ![c] = SpentColumn[c] + actual] /\ LimitColumn' = LimitColumn
  <2>1. \A x \in Cases : /\ cases'[x].limit = cases[x].limit
                         /\ cases'[x].spent = IF x = c THEN cases[x].spent + actual
                                                       ELSE cases[x].spent
    BY <1>1, <1>2
  <2> QED BY <1>1, <2>1 DEF SpentColumn, LimitColumn
<1>6. cases'[c].budget = "ACTIVE" <=> cases[c].budget = "ACTIVE" /\ ~full
  BY <1>1, <1>2 DEF CaseRow
<1>7. OpenColumn' = [OpenColumn EXCEPT ![c] = OpenColumn[c] /\ ~full]
  BY <1>1, <1>2, <1>6 DEF OpenColumn
<1>8. Ledger!Settle(j, actual)
  BY <1>1, <1>3, <1>4, <1>5, <1>7
     DEF Ledger!Settle, Reserved, LimitColumn, SpentColumn, OpenColumn, c
<1>9. actual \in 0 .. Reserved[j]
  BY <1>1 DEF Reserved
<1> QED BY <1>8, <1>9 DEF Ledger!Next

(* A ceiling that moves. *)
LEMMA LedgerSetLimit ==
  ASSUME Budget, NEW c \in Cases, NEW limit \in Limits, UpdateBudget(c, limit)
  PROVE  Ledger!Next
<1> DEFINE reached == cases[c].reserved = 0 /\ limit > 0 /\ cases[c].spent >= limit
<1>1. cases[c] \in CaseRow /\ limit \in Nat /\ limit >= cases[c].spent + cases[c].reserved
      /\ jobs' = jobs
  BY ConstantsAssumption DEF UpdateBudget, Budget, Ceiling, Fence, Typed, TypeOK
<1>2. cases' = [cases EXCEPT ![c].limit = limit,
                             ![c].budget = IF reached THEN "LIMIT_REACHED" ELSE "ACTIVE"]
  BY DEF UpdateBudget
<1>3. cases[c].reserved = Ledger!OnHold(c)
  BY OnHoldIsReserved
<1> HIDE DEF reached
<1>4. /\ cases'[c].limit = limit /\ cases'[c].spent = cases[c].spent
      /\ cases'[c].budget = "ACTIVE" <=> ~reached
      /\ \A x \in Cases \ {c} : cases'[x] = cases[x]
  BY <1>1, <1>2 DEF Budget, Ceiling, Fence, Typed, TypeOK, CaseRow
<1>5. LimitColumn' = [LimitColumn EXCEPT ![c] = limit] /\ SpentColumn' = SpentColumn
      /\ Reserved' = Reserved
  BY <1>1, <1>4 DEF LimitColumn, SpentColumn, Reserved
<1>6. OpenColumn' = [OpenColumn EXCEPT ![c] = ~reached]
  BY <1>4 DEF OpenColumn
<1>7. Ledger!SetLimit(c, limit)
  BY <1>1, <1>3, <1>5, <1>6
     DEF Ledger!SetLimit, Reserved, LimitColumn, SpentColumn, OpenColumn, reached, CaseRow
<1> QED BY <1>7 DEF Ledger!Next

(* Every step is one entry of the ledger, or none. *)
LEMMA LedgerNext ==
  ASSUME Budget, [Next]_vars
  PROVE  Ledger!Next \/ LedgerKept
<1>1. ASSUME jobs' = jobs, cases' = cases PROVE LedgerKept
  BY <1>1, LedgerStill
<1>2. ASSUME NEW j \in Jobs, jobs[j].status = Missing, jobs' = [jobs EXCEPT ![j] = NewRow],
             cases' = cases
      PROVE  LedgerKept
  <2>1. \A k \in Jobs : jobs'[k].reserved = jobs[k].reserved
    BY <1>2 DEF NewRow, NoRow, Budget, Ceiling, Fence, Unqueued, Typed, TypeOK
  <2> QED BY <1>2, <2>1, LedgerStill
<1>3. ASSUME NEW d \in Documents, NEW stage \in Stages, Intake(d, stage) PROVE LedgerKept
  <2>1. IntakeRoot(d, stage) \in Jobs /\ jobs[IntakeRoot(d, stage)].status = Missing
    BY <1>3, NewJobs DEF Intake, IntakeRoot, Budget, Ceiling, Fence, Unqueued
  <2> QED BY <1>2, <1>3, <2>1 DEF Intake
<1>4. ASSUME NEW d \in Documents, NEW n \in 1..MaxRuns, CreateReprocess(d, n) PROVE LedgerKept
  <2>1. ReprocessRoot(d, n) \in Jobs
    BY NewJobs
  <2> QED BY <1>2, <1>4, <2>1 DEF CreateReprocess
<1>5. ASSUME NEW c \in Cases, DeleteCase(c) PROVE LedgerKept
  <2>1. /\ jobs' = jobs
        /\ \A x \in Cases : /\ cases'[x].limit = cases[x].limit
                            /\ cases'[x].spent = cases[x].spent
                            /\ cases'[x].budget = cases[x].budget
    BY <1>5 DEF DeleteCase, Budget, Ceiling, Fence, Typed, TypeOK, CaseRow
  <2> QED BY <2>1, LedgerStill
<1>6. ASSUME NEW e \in Executions, ResumeClaim(e) \/ Retry(e) PROVE LedgerKept
  <2>1. /\ OnlyChanges({target[e]}) /\ cases' = cases
        /\ jobs'[target[e]].reserved = jobs[target[e]].reserved
    BY <1>6, Resumed, Retried DEF Budget, Ceiling, Moves, ResumeClaim, Retry
  <2>2. \A k \in Jobs : jobs'[k].reserved = jobs[k].reserved
    BY <2>1 DEF OnlyChanges
  <2> QED BY <2>1, <2>2, LedgerStill
<1>7. ASSUME NEW e \in Executions, NEW actual \in 0..held[e].reserved,
             Complete(e, actual) \/ Fail(e, actual)
      PROVE  Ledger!Next
  <2>1. /\ target[e] \in Jobs /\ actual \in Nat /\ actual <= jobs[target[e]].reserved
        /\ jobs'[target[e]].reserved = 0
        /\ \A k \in Jobs \ {target[e]} : jobs'[k] = jobs[k] \/ Queues(k)
        /\ cases' = [cases EXCEPT ![CaseOf[target[e].doc]] = Settled(@, jobs[target[e]], actual)]
    BY <1>7, Completed, Failed DEF Budget, Ceiling, Moves, OnlyChanges
  <2> QED BY <2>1, LedgerSettle
<1>8. ASSUME NEW e \in Executions,
             LoseClaim(e) \/ LoseRun(e) \/ Crash(e) \/ (\E j \in Jobs : ReadForClaim(e, j))
      PROVE  LedgerKept
  BY <1>1, <1>8 DEF LoseClaim, LoseRun, Crash, ReadForClaim, tables
<1>9. ASSUME NEW d \in Documents, ApproveReprocess(d) \/ DeleteDocument(d) PROVE LedgerKept
  BY <1>1, <1>9 DEF ApproveReprocess, DeleteDocument, tables
<1>10. CASE UNCHANGED vars
  BY <1>1, <1>10 DEF vars
<1>11. CASE \E e \in Executions : Worker(e)
  BY <1>6, <1>7, <1>8, <1>11, LedgerReserve, LedgerRefuse DEF Worker, Claiming, Settling
<1>12. CASE Api
  BY <1>3, <1>4, <1>5, <1>9, <1>12, LedgerSetLimit DEF Api
<1> QED BY <1>10, <1>11, <1>12 DEF Next

(* Every transaction on a budget is one entry of a ledger that keeps the hold
   of each job and derives what is reserved: the two stored columns, the stale
   reads and the takeovers are not to be seen from outside. *)
THEOREM LedgerImplemented == Spec => ImplementsLedger
<1>1. Budget /\ [Next]_vars
        => [Ledger!Next]_<<[c \in Cases |-> cases[c].limit], [c \in Cases |-> cases[c].spent],
                           Reserved, [c \in Cases |-> cases[c].budget = "ACTIVE"]>>
  BY LedgerNext DEF LedgerKept, LimitColumn, SpentColumn, OpenColumn
<1> QED BY <1>1, LedgerInit, BudgetInit, BudgetNext, PTL
        DEF Spec, ImplementsLedger, Ledger!Spec

-----------------------------------------------------------------------------
(* The life cycle *)

(* The initial tables are an initial state of the life cycle. *)
LEMMA LifecycleInit == Init => Lifecycle!Init
BY DEF Init, Lifecycle!Init, NoRow, Missing

(* A row that is created. *)
LEMMA LifecycleCreate ==
  ASSUME NEW j \in Jobs, jobs[j] = NoRow, jobs' = [jobs EXCEPT ![j] = NewRow], Typed
  PROVE  Lifecycle!Next
<1>1. jobs[j].status = "NONE" /\ jobs[j].version = 0
         /\ jobs'[j].status = "QUEUED" /\ jobs'[j].version = 0
  BY DEF NoRow, NewRow, Missing, Typed, TypeOK
<1>2. \A k \in Jobs \ {j} : jobs'[k] = jobs[k]
  BY DEF Typed, TypeOK
<1>3. [k \in Jobs |-> jobs'[k].status]
         = [[k \in Jobs |-> jobs[k].status] EXCEPT ![j] = "QUEUED"]
  <2>1. \A k \in Jobs : jobs'[k].status = IF k = j THEN "QUEUED" ELSE jobs[k].status
    BY <1>1, <1>2
  <2> QED BY <2>1
<1>4. [k \in Jobs |-> jobs'[k].version] = [k \in Jobs |-> jobs[k].version]
  <2>1. \A k \in Jobs : jobs'[k].version = jobs[k].version
    BY <1>1, <1>2
  <2> QED BY <2>1
<1>5. Lifecycle!Create(j)
  BY <1>1, <1>3, <1>4 DEF Lifecycle!Create
<1> QED BY <1>5 DEF Lifecycle!Next

(* A row that moves along an allowed transition. *)
LEMMA LifecycleMove ==
  ASSUME NEW j \in Jobs, NEW to, NEW reserved, NEW cost, Moves(j, to, reserved, cost),
         OnlyChanges({j}),
         \/ jobs[j].status \in {"QUEUED", "RETRYING"} /\ to \in {"PROCESSING", "CANCELLED"}
         \/ jobs[j].status = "PROCESSING" /\ to \in {"COMPLETED", "RETRYING", "FAILED"}
  PROVE  Lifecycle!Next
<1>1. Lifecycle!CanTransition(jobs[j].status, to) /\ to \in DOMAIN Lifecycle!allowedTransitions
  BY DEF Lifecycle!CanTransition, Lifecycle!allowedTransitions
<1>2. Lifecycle!Transition(j, to)
  BY <1>1 DEF Lifecycle!Transition, Moves, OnlyChanges
<1> QED BY <1>1, <1>2 DEF Lifecycle!Next

(* A row that completes and the one it creates. *)
LEMMA LifecycleComplete ==
  ASSUME NEW j \in Jobs, NEW k, NEW reserved, NEW cost, jobs[j].status = "PROCESSING",
         Moves(j, "COMPLETED", reserved, cost), k # j, Queues(k), OnlyChanges({j, k})
  PROVE  Lifecycle!Next
<1>1. k \in Jobs /\ jobs[k].status = "NONE" /\ jobs[k].version = 0
         /\ jobs'[k].status = "QUEUED" /\ jobs'[k].version = 0
  BY DEF Queues, NoRow, NewRow, Missing
<1>2. Lifecycle!CanTransition(jobs[j].status, "COMPLETED")
  BY DEF Lifecycle!CanTransition, Lifecycle!allowedTransitions
<1>3. [x \in Jobs |-> jobs'[x].status]
         = [[x \in Jobs |-> jobs[x].status] EXCEPT ![j] = "COMPLETED", ![k] = "QUEUED"]
  BY <1>1 DEF Moves, OnlyChanges
<1>4. [x \in Jobs |-> jobs'[x].version]
         = [[x \in Jobs |-> jobs[x].version] EXCEPT ![j] = @ + 1]
  BY <1>1 DEF Moves, OnlyChanges
<1>5. Lifecycle!CompleteAndQueue(j, k)
  BY <1>1, <1>2, <1>3, <1>4 DEF Lifecycle!CompleteAndQueue
<1> QED BY <1>1, <1>5 DEF Lifecycle!Next

(* A row that is taken over. *)
LEMMA LifecycleResume ==
  ASSUME NEW j \in Jobs, NEW reserved, NEW cost, jobs[j].status = "PROCESSING",
         Moves(j, "PROCESSING", reserved, cost), OnlyChanges({j})
  PROVE  Lifecycle!Next
<1>1. Lifecycle!Resume(j)
  BY DEF Lifecycle!Resume, Moves, OnlyChanges
<1> QED BY <1>1 DEF Lifecycle!Next

(* A step takes the life cycle on, or leaves the rows alone. *)
LEMMA LifecycleNext ==
  ASSUME Fence, [Next]_vars
  PROVE  Lifecycle!Next \/ jobs' = jobs
<1>1. ASSUME NEW d \in Documents, NEW stage \in Stages, Intake(d, stage) PROVE Lifecycle!Next
  <2>1. IntakeRoot(d, stage) \in Jobs /\ jobs[IntakeRoot(d, stage)] = NoRow
    BY <1>1, NewJobs DEF Intake, IntakeRoot, Fence, Unqueued
  <2> QED BY <1>1, <2>1, LifecycleCreate DEF Intake, Fence
<1>2. ASSUME NEW d \in Documents, NEW n \in 1..MaxRuns, CreateReprocess(d, n)
      PROVE  Lifecycle!Next
  <2>1. ReprocessRoot(d, n) \in Jobs /\ jobs[ReprocessRoot(d, n)] = NoRow
    BY <1>2, NewJobs DEF CreateReprocess, Fence, Unqueued
  <2> QED BY <1>2, <2>1, LifecycleCreate DEF CreateReprocess, Fence
<1>3. ASSUME NEW e \in Executions, GrantClaim(e) PROVE Lifecycle!Next
  BY <1>3, Granted, LifecycleMove
<1>4. ASSUME NEW e \in Executions, BlockClaim(e) PROVE Lifecycle!Next
  BY <1>4, Refused, LifecycleMove
<1>5. ASSUME NEW e \in Executions, ResumeClaim(e) PROVE Lifecycle!Next
  BY <1>5, Resumed, LifecycleResume
<1>6. ASSUME NEW e \in Executions, NEW actual \in 0..held[e].reserved, Complete(e, actual)
      PROVE  Lifecycle!Next
  <2> DEFINE j == target[e]
             cost == jobs[j].cost + actual
  <2>1. /\ j \in Jobs /\ jobs[j].status = "PROCESSING" /\ Moves(j, "COMPLETED", 0, cost)
        /\ \/ OnlyChanges({j})
           \/ Child(j) # j /\ Queues(Child(j)) /\ OnlyChanges({j, Child(j)})
    BY <1>6, Completed
  <2> HIDE DEF j, cost
  <2> QED BY <2>1, LifecycleMove, LifecycleComplete
<1>7. ASSUME NEW e \in Executions, NEW actual \in 0..held[e].reserved, Fail(e, actual)
      PROVE  Lifecycle!Next
  <2> DEFINE j == target[e]
             cost == jobs[j].cost + actual
  <2>1. /\ j \in Jobs /\ jobs[j].status = "PROCESSING" /\ Moves(j, "FAILED", 0, cost)
        /\ OnlyChanges({j})
    BY <1>7, Failed
  <2> HIDE DEF j, cost
  <2> QED BY <2>1, LifecycleMove
<1>8. ASSUME NEW e \in Executions, Retry(e) PROVE Lifecycle!Next
  BY <1>8, Retried, LifecycleMove
<1>9. ASSUME NEW e \in Executions, LoseClaim(e) \/ LoseRun(e) \/ Crash(e) PROVE jobs' = jobs
  BY <1>9 DEF LoseClaim, LoseRun, Crash, tables
<1>10. ASSUME NEW e \in Executions, NEW j \in Jobs, ReadForClaim(e, j) PROVE jobs' = jobs
  BY <1>10 DEF ReadForClaim, tables
<1>11. ASSUME NEW d \in Documents, ApproveReprocess(d) \/ DeleteDocument(d) PROVE jobs' = jobs
  BY <1>11 DEF ApproveReprocess, DeleteDocument, tables
<1>12. ASSUME NEW c \in Cases, DeleteCase(c) \/ (\E limit \in Limits : UpdateBudget(c, limit))
       PROVE  jobs' = jobs
  BY <1>12 DEF DeleteCase, UpdateBudget
<1>13. CASE UNCHANGED vars
  BY <1>13 DEF vars
<1> QED
  BY <1>1, <1>2, <1>3, <1>4, <1>5, <1>6, <1>7, <1>8, <1>9, <1>10, <1>11, <1>12, <1>13
     DEF Next, Api, Worker, Claiming, Settling

(* A job moves only as its state machine allows, each time at a new version,
   out of a row created once: the workers implement the life cycle. *)
THEOREM LifecycleImplemented == Spec => ImplementsLifecycle
<1>1. Fence /\ [Next]_vars
        => [Lifecycle!Next]_<<[j \in Jobs |-> jobs[j].status], [j \in Jobs |-> jobs[j].version]>>
  BY LifecycleNext
<1> QED BY <1>1, LifecycleInit, FenceInit, FenceNext, PTL
        DEF Spec, ImplementsLifecycle, Lifecycle!Spec

-----------------------------------------------------------------------------
(* What a step does to the jobs of a document and to the document itself *)

(* The first stages of an intake are nobody's next, and a stage has one before
   it: what makes the rows of a run a chain. *)
Chained ==
    \A s, t \in Stages :
        /\ NextStage[s] \notin {"FILE_VALIDATION", "VIRUS_SCAN"}
        /\ NextStage[s] = NextStage[t] /\ NextStage[s] # NoStage => s = t

IsRoot(j) ==
    \/ j.stage \in {"FILE_VALIDATION", "VIRUS_SCAN"}
    \/ j.run > 0 /\ j = ReprocessRoot(j.doc, j.run)

OnlyTells(d) == \A x \in Documents \ {d} : docs'[x] = docs[x]

(* No row moves and no document changes its status. *)
Quiet ==
    /\ jobs' = jobs
    /\ \A d \in Documents :
        /\ docs'[d].status = docs[d].status
        /\ docs[d].deleted => docs'[d].deleted
        /\ \/ approved'[d] = approved[d] /\ (d \in raced <=> d \in raced')
           \/ /\ ActiveJobs(d) = {} /\ (d \notin raced' => approved[d] = 0)
              /\ approved'[d] = approved[d] + 1

(* A chain begins: for a document that is new, or asked for again. *)
Enters(j) ==
    /\ Queues(j) /\ OnlyChanges({j}) /\ IsRoot(j)
    /\ OnlyTells(j.doc)
    /\ docs'[j.doc].deleted \/ docs'[j.doc].status = "QUEUED"
    /\ \/ docs[j.doc].status = Missing /\ approved' = approved
       \/ approved[j.doc] > 0 /\ approved' = [approved EXCEPT ![j.doc] = @ - 1]
    /\ raced' = raced

(* A job goes on: claimed, resumed or to be retried. *)
GoesOn(j) ==
    /\ j \in Jobs /\ OnlyChanges({j})
    /\ jobs[j].status \in Active /\ jobs'[j].status \in Active
    /\ docs' \in {docs, WithDocStatus(j.doc, "PROCESSING")}
    /\ approved' = approved /\ raced' = raced

(* A chain ends at a job, and the document is told. *)
Ends(j) ==
    /\ j \in Jobs /\ OnlyChanges({j})
    /\ jobs[j].status \in Active /\ jobs'[j].status \in Terminal
    /\ \E status \in {"NEEDS_REVIEW", "FAILED"} : docs' = WithDocStatus(j.doc, status)
    /\ approved' = approved /\ raced' = raced

(* A chain goes on from a job to its child. *)
HandsOn(j) ==
    /\ j \in Jobs /\ NextStage[j.stage] # NoStage
    /\ Queues(Child(j)) /\ OnlyChanges({j, Child(j)})
    /\ jobs[j].status \in Active /\ jobs'[j].status = "COMPLETED"
    /\ docs' = docs /\ approved' = approved /\ raced' = raced

(* Every step is one of these. *)
LEMMA Effects ==
  ASSUME Fence, [Next]_vars
  PROVE  Quiet \/ \E j \in Jobs : Enters(j) \/ GoesOn(j) \/ Ends(j) \/ HandsOn(j)
<1>1. ASSUME NEW d \in Documents, NEW stage \in Stages, Intake(d, stage)
      PROVE  Enters(IntakeRoot(d, stage))
  <2> DEFINE j == IntakeRoot(d, stage)
  <2>1. j \in Jobs /\ j.doc = d /\ j.stage = stage /\ jobs[j] = NoRow
    BY <1>1, NewJobs DEF Intake, IntakeRoot, Fence, Unqueued
  <2>2. IsRoot(j)
    BY <1>1, <2>1 DEF Intake, IsRoot
  <2> HIDE DEF j
  <2>3. jobs' = [jobs EXCEPT ![j] = NewRow] /\ docs' = [docs EXCEPT ![d].status = "QUEUED"]
    BY <1>1 DEF Intake, j
  <2>4. Queues(j) /\ OnlyChanges({j})
    BY <2>1, <2>3 DEF Queues, OnlyChanges, Fence, Typed, TypeOK
  <2>5. OnlyTells(d) /\ docs'[d].status = "QUEUED"
    BY <2>3 DEF OnlyTells, Fence, Typed, TypeOK, DocRow
  <2>6. docs[d].status = Missing /\ approved' = approved /\ raced' = raced
    BY <1>1 DEF Intake
  <2> QED BY <2>1, <2>2, <2>4, <2>5, <2>6 DEF Enters, j
<1>2. ASSUME NEW d \in Documents, NEW n \in 1..MaxRuns, CreateReprocess(d, n)
      PROVE  Enters(ReprocessRoot(d, n))
  <2> DEFINE j == ReprocessRoot(d, n)
  <2>1. j \in Jobs /\ j.doc = d /\ j.run = n /\ jobs[j] = NoRow
    BY <1>2, NewJobs DEF CreateReprocess, ReprocessRoot, Fence, Unqueued
  <2>2. IsRoot(j)
    BY <2>1 DEF IsRoot
  <2> HIDE DEF j
  <2>3. jobs' = [jobs EXCEPT ![j] = NewRow] /\ docs' = WithDocStatus(d, "QUEUED")
    BY <1>2 DEF CreateReprocess, j
  <2>4. Queues(j) /\ OnlyChanges({j})
    BY <2>1, <2>3 DEF Queues, OnlyChanges, Fence, Typed, TypeOK
  <2>5. OnlyTells(d) /\ (docs'[d].deleted \/ docs'[d].status = "QUEUED")
    BY <2>3 DEF WithDocStatus, OnlyTells, Fence, Typed, TypeOK, DocRow
  <2>6. approved[d] > 0 /\ approved' = [approved EXCEPT ![d] = @ - 1] /\ raced' = raced
    BY <1>2 DEF CreateReprocess
  <2> QED BY <2>1, <2>2, <2>4, <2>5, <2>6 DEF Enters, j
<1>3. ASSUME NEW e \in Executions, GrantClaim(e) PROVE GoesOn(target[e])
  <2>1. approved' = approved /\ raced' = raced
    BY <1>3 DEF GrantClaim
  <2> QED BY <1>3, <2>1, Granted DEF GoesOn, Moves, Active
<1>4. ASSUME NEW e \in Executions, BlockClaim(e) PROVE Ends(target[e])
  <2>1. approved' = approved /\ raced' = raced /\ docs' = WithDocStatus(target[e].doc, "NEEDS_REVIEW")
    BY <1>4 DEF BlockClaim
  <2> QED BY <1>4, <2>1, Refused DEF Ends, Moves, Active, Terminal
<1>5. ASSUME NEW e \in Executions, ResumeClaim(e) PROVE GoesOn(target[e])
  <2>1. approved' = approved /\ raced' = raced /\ docs' = WithDocStatus(target[e].doc, "PROCESSING")
    BY <1>5 DEF ResumeClaim
  <2> QED BY <1>5, <2>1, Resumed DEF GoesOn, Moves, Active
<1>6. ASSUME NEW e \in Executions, NEW actual \in 0..held[e].reserved, Complete(e, actual)
      PROVE  Ends(target[e]) \/ HandsOn(target[e])
  <2>1. approved' = approved /\ raced' = raced
    BY <1>6 DEF Complete
  <2> DEFINE j == target[e]
             cost == jobs[j].cost + actual
  <2>2. /\ j \in Jobs /\ jobs[j].status = "PROCESSING" /\ Moves(j, "COMPLETED", 0, cost)
        /\ \/ OnlyChanges({j}) /\ docs' = WithDocStatus(j.doc, "NEEDS_REVIEW")
           \/ /\ NextStage[j.stage] # NoStage /\ docs' = docs
              /\ Child(j) # j /\ Queues(Child(j)) /\ OnlyChanges({j, Child(j)})
    BY <1>6, Completed
  <2> HIDE DEF j, cost
  <2>3. Ends(j) \/ HandsOn(j)
    BY <2>1, <2>2 DEF Ends, HandsOn, Moves, Active, Terminal
  <2> QED BY <2>3 DEF j
<1>7. ASSUME NEW e \in Executions, NEW actual \in 0..held[e].reserved, Fail(e, actual)
      PROVE  Ends(target[e])
  <2>1. approved' = approved /\ raced' = raced /\ docs' = WithDocStatus(target[e].doc, "FAILED")
    BY <1>7 DEF Fail
  <2> QED BY <1>7, <2>1, Failed DEF Ends, Moves, Active, Terminal
<1>8. ASSUME NEW e \in Executions, Retry(e) PROVE GoesOn(target[e])
  <2>1. approved' = approved /\ raced' = raced /\ docs' = docs
    BY <1>8 DEF Retry
  <2> QED BY <1>8, <2>1, Retried DEF GoesOn, Moves, Active
<1>9. ASSUME NEW e \in Executions,
             LoseClaim(e) \/ LoseRun(e) \/ Crash(e) \/ (\E j \in Jobs : ReadForClaim(e, j))
      PROVE  Quiet
  BY <1>9 DEF LoseClaim, LoseRun, Crash, ReadForClaim, tables, Quiet
<1>10. ASSUME NEW d \in Documents, ApproveReprocess(d) \/ DeleteDocument(d) PROVE Quiet
  <2>1. CASE ApproveReprocess(d)
    <3>1. /\ jobs' = jobs /\ docs' = docs /\ ActiveJobs(d) = {}
          /\ approved' = [approved EXCEPT ![d] = @ + 1] /\ raced' = Unseen(d)
      BY <2>1 DEF ApproveReprocess, tables
    <3>2. \A x \in Documents \ {d} : approved'[x] = approved[x] /\ (x \in raced <=> x \in raced')
      BY <3>1 DEF Unseen, Fence, Typed, TypeOK
    <3>3. approved'[d] = approved[d] + 1
      BY <3>1 DEF Fence, Typed, TypeOK
    <3>4. d \notin raced' => approved[d] = 0
      <4>1. approved[d] \in 0 .. MaxRequests /\ MaxRequests \in Nat
        BY ConstantsAssumption DEF Fence, Typed, TypeOK
      <4>2. approved[d] \in Nat
        BY <4>1
      <4> QED BY <3>1, <4>2 DEF Unseen
    <3> QED BY <3>1, <3>2, <3>3, <3>4 DEF Quiet
  <2>2. CASE DeleteDocument(d)
    BY <2>2 DEF DeleteDocument, Quiet, Fence, Typed, TypeOK, DocRow
  <2> QED BY <1>10, <2>1, <2>2
<1>11. ASSUME NEW c \in Cases, DeleteCase(c) \/ (\E limit \in Limits : UpdateBudget(c, limit))
       PROVE  Quiet
  BY <1>11 DEF DeleteCase, UpdateBudget, Quiet
<1>12. CASE UNCHANGED vars
  BY <1>12 DEF vars, Quiet
<1>13. CASE \E e \in Executions : Worker(e)
  <2>1. PICK e \in Executions : Worker(e)
    BY <1>13
  <2>2. ASSUME Claiming(e) \/ Settling(e)
        PROVE  Quiet \/ \E j \in Jobs : GoesOn(j) \/ Ends(j) \/ HandsOn(j)
    BY <2>2, <1>3, <1>4, <1>5, <1>6, <1>7, <1>8, <1>9
       DEF Claiming, Settling, GoesOn, Ends, HandsOn
  <2> QED BY <2>1, <2>2, <1>9 DEF Worker
<1>14. CASE Api
  BY <1>14, <1>1, <1>2, <1>10, <1>11 DEF Api, Enters, Queues
<1> QED BY <1>12, <1>13, <1>14 DEF Next

-----------------------------------------------------------------------------
(* A document at work has work left *)

(* What is to be seen of one document. *)
WorkBehind(d) ==
    ~docs[d].deleted /\ docs[d].status \in {"QUEUED", "PROCESSING"} => ActiveJobs(d) # {}

(* A job that is active keeps its document at work. *)
LEMMA StillActive ==
  ASSUME NEW k \in Jobs, jobs'[k].status \in Active
  PROVE  ActiveJobs(k.doc)' # {}
BY DEF ActiveJobs

(* A step that leaves a document and its jobs alone takes no work away. *)
LEMMA WorkUntouched ==
  ASSUME NEW d \in Documents, WorkBehind(d), docs'[d] = docs[d],
         \A k \in Jobs : k.doc = d => jobs'[k] = jobs[k]
  PROVE  WorkBehind(d)'
BY DEF WorkBehind, ActiveJobs

(* What WithDocStatus does to the table. *)
LEMMA Told ==
  ASSUME Fence, NEW d \in Documents,
         NEW status \in {"QUEUED", "PROCESSING", "NEEDS_REVIEW", "FAILED"},
         docs' = WithDocStatus(d, status)
  PROVE  OnlyTells(d) /\ (docs'[d].deleted \/ docs'[d].status = status)
BY DEF Fence, Typed, TypeOK, DocRow, WithDocStatus, OnlyTells

(* No step leaves a document at work without work. *)
LEMMA WorkNext == Fence /\ WorkBehindStatus /\ [Next]_vars => WorkBehindStatus'
<1> SUFFICES ASSUME Fence, WorkBehindStatus, [Next]_vars, NEW d \in Documents
             PROVE  WorkBehind(d)'
  BY DEF WorkBehindStatus, WorkBehind
<1>0. WorkBehind(d)
  BY DEF WorkBehindStatus, WorkBehind
<1>1. CASE Quiet
  BY <1>0, <1>1 DEF Quiet, WorkBehind, ActiveJobs
<1>2. ASSUME NEW j \in Jobs, Enters(j) PROVE WorkBehind(d)'
  <2>1. CASE j.doc = d
    BY <1>2, <2>1, StillActive DEF Enters, Queues, NewRow, NoRow, Active, WorkBehind
  <2>2. CASE j.doc # d
    BY <1>0, <1>2, <2>2, WorkUntouched DEF Enters, OnlyChanges, OnlyTells
  <2> QED BY <2>1, <2>2
<1>3. ASSUME NEW j \in Jobs, GoesOn(j) PROVE WorkBehind(d)'
  <2>1. CASE j.doc = d
    BY <1>3, <2>1, StillActive DEF GoesOn, WorkBehind
  <2>2. CASE j.doc # d
    <3>1. docs'[d] = docs[d]
      BY <1>3, <2>2, Told, JobParts DEF GoesOn, OnlyTells
    <3> QED BY <1>0, <1>3, <2>2, <3>1, WorkUntouched DEF GoesOn, OnlyChanges
  <2> QED BY <2>1, <2>2
<1>4. ASSUME NEW j \in Jobs, Ends(j) PROVE WorkBehind(d)'
  <2>1. OnlyTells(j.doc) /\ (docs'[j.doc].deleted \/ docs'[j.doc].status \in {"NEEDS_REVIEW", "FAILED"})
    BY <1>4, Told, JobParts DEF Ends
  <2>2. CASE j.doc = d
    BY <2>1, <2>2 DEF WorkBehind
  <2>3. CASE j.doc # d
    BY <1>0, <1>4, <2>1, <2>3, WorkUntouched DEF Ends, OnlyChanges, OnlyTells
  <2> QED BY <2>2, <2>3
<1>5. ASSUME NEW j \in Jobs, HandsOn(j) PROVE WorkBehind(d)'
  <2>1. Child(j) \in Jobs /\ Child(j).doc = j.doc /\ jobs'[Child(j)].status \in Active
    BY <1>5 DEF HandsOn, Queues, NewRow, NoRow, Active, Child, Jobs
  <2>2. CASE j.doc = d
    BY <2>1, <2>2, StillActive DEF WorkBehind
  <2>3. CASE j.doc # d
    BY <1>0, <1>5, <2>1, <2>3, WorkUntouched DEF HandsOn, OnlyChanges
  <2> QED BY <2>2, <2>3
<1> QED BY <1>1, <1>2, <1>3, <1>4, <1>5, Effects

(* A document that says it is queued or at work has a job that will move it,
   however many requests, executions and ceilings meet. *)
THEOREM WorkIsBehindStatus == Spec => []WorkBehindStatus
<1>1. Init => WorkBehindStatus
  BY DEF Init, WorkBehindStatus, Missing
<1> QED BY <1>1, WorkNext, FenceInit, FenceNext, PTL DEF Spec

-----------------------------------------------------------------------------
(* A document handed over has none *)

(* One chain at a time for a document whose requests saw each other: no two
   active jobs, nor one beside a request that has counted none. *)
Sole(d) ==
    d \notin raced => /\ \A j, k \in ActiveJobs(d) : j = k
                      /\ approved[d] \in {0, 1}
                      /\ approved[d] = 1 => ActiveJobs(d) = {}

OneChain == \A d \in Documents : Sole(d)

(* While its requests see each other, a document has one chain at a time. *)
LEMMA OneChainNext ==
  Fence /\ OneChain /\ [Next]_vars => OneChain'
<1> SUFFICES ASSUME Fence, OneChain, [Next]_vars, NEW d \in Documents
             PROVE  Sole(d)'
  BY DEF OneChain
<1>0. Sole(d)
  BY DEF OneChain
<1>a. approved[d] \in Nat
  <2>1. approved[d] \in 0 .. MaxRequests /\ MaxRequests \in Nat
    BY ConstantsAssumption DEF Fence, Typed, TypeOK
  <2> QED BY <2>1
<1>1. CASE Quiet
  <2>1. ActiveJobs(d)' = ActiveJobs(d)
    BY <1>1 DEF Quiet, ActiveJobs
  <2>2. CASE approved'[d] = approved[d] /\ (d \in raced <=> d \in raced')
    BY <1>0, <2>1, <2>2 DEF Sole
  <2>3. CASE /\ ActiveJobs(d) = {} /\ (d \notin raced' => approved[d] = 0)
             /\ approved'[d] = approved[d] + 1
    BY <2>1, <2>3 DEF Sole
  <2> QED BY <1>1, <2>2, <2>3 DEF Quiet
<1>2. ASSUME NEW j \in Jobs, Enters(j), j.doc = d PROVE Sole(d)'
  <2> SUFFICES ASSUME d \notin raced
               PROVE  (\A i, k \in ActiveJobs(d)' : i = k) /\ approved'[d] = 0
    BY <1>2 DEF Enters, Sole
  <2>1. ActiveJobs(d) = {}
    <3>1. CASE docs[d].status = Missing
      BY <3>1 DEF Fence, Unqueued, ActiveJobs, Active, Missing
    <3>2. CASE approved[d] > 0
      BY <1>0, <3>2 DEF Sole
    <3> QED BY <1>2, <3>1, <3>2 DEF Enters
  <2>2. \A k \in ActiveJobs(d)' : k = j
    BY <1>2, <2>1 DEF Enters, OnlyChanges, ActiveJobs
  <2>3. approved'[d] = 0
    <3>1. approved \in [Documents -> 0 .. MaxRequests]
      BY DEF Fence, Typed, TypeOK
    <3>2. CASE docs[d].status = Missing /\ approved' = approved
      BY <3>2 DEF Fence, Unqueued
    <3>3. CASE approved[d] > 0 /\ approved' = [approved EXCEPT ![d] = @ - 1]
      BY <1>0, <3>1, <3>3 DEF Sole
    <3> QED BY <1>2, <3>2, <3>3 DEF Enters
  <2> QED BY <2>2, <2>3
<1>3. ASSUME NEW j \in Jobs, GoesOn(j) \/ Ends(j), j.doc = d PROVE Sole(d)'
  <2>1. /\ j \in ActiveJobs(d) /\ approved' = approved /\ raced' = raced
        /\ ActiveJobs(d)' \subseteq ActiveJobs(d)
    BY <1>3 DEF GoesOn, Ends, OnlyChanges, ActiveJobs
  <2> QED BY <1>0, <2>1 DEF Sole
<1>4. ASSUME NEW j \in Jobs, HandsOn(j), j.doc = d PROVE Sole(d)'
  <2>1. /\ j \in ActiveJobs(d) /\ approved' = approved /\ raced' = raced
        /\ jobs'[j].status \notin Active
    BY <1>4 DEF HandsOn, ActiveJobs, Active
  <2> SUFFICES ASSUME d \notin raced
               PROVE  (\A i, k \in ActiveJobs(d)' : i = k) /\ approved'[d] = 0
    BY <2>1 DEF Sole
  <2>2. (\A k \in ActiveJobs(d) : k = j) /\ approved[d] = 0
    BY <1>0, <2>1 DEF Sole
  <2>3. \A k \in ActiveJobs(d)' : k = Child(j)
    BY <1>4, <2>1, <2>2 DEF HandsOn, OnlyChanges, ActiveJobs
  <2> QED BY <2>1, <2>2, <2>3
<1>5. ASSUME NEW j \in Jobs, Enters(j) \/ GoesOn(j) \/ Ends(j) \/ HandsOn(j), j.doc # d
      PROVE  Sole(d)'
  <2>1. Child(j).doc = j.doc
    BY DEF Child, Jobs
  <2>2. \A k \in Jobs : k.doc = d => jobs'[k] = jobs[k]
    BY <1>5, <2>1 DEF Enters, GoesOn, Ends, HandsOn, OnlyChanges
  <2>3. approved'[d] = approved[d] /\ raced' = raced
    BY <1>5 DEF Enters, GoesOn, Ends, HandsOn, Fence, Typed, TypeOK
  <2>4. ActiveJobs(d)' = ActiveJobs(d)
    BY <2>2 DEF ActiveJobs
  <2> QED BY <1>0, <2>3, <2>4 DEF Sole
<1> QED BY <1>1, <1>2, <1>3, <1>4, <1>5, Effects

(* What is to be seen of one document. *)
HandedOver(d) ==
    ~docs[d].deleted /\ docs[d].status \in {"NEEDS_REVIEW", "FAILED"} => ActiveJobs(d) = {}

(* A request that ends a race finds the document at rest. *)
LEMMA RaceEnds ==
  ASSUME Fence, [Next]_vars, NEW d \in Documents, d \notin raced', d \in raced
  PROVE  HandedOver(d)'
<1>1. CASE Quiet
  <2>1. ActiveJobs(d)' = ActiveJobs(d)
    BY <1>1 DEF Quiet, ActiveJobs
  <2> QED BY <1>1, <2>1 DEF Quiet, HandedOver
<1>2. ASSUME NEW j \in Jobs, Enters(j) \/ GoesOn(j) \/ Ends(j) \/ HandsOn(j) PROVE FALSE
  BY <1>2 DEF Enters, GoesOn, Ends, HandsOn
<1> QED BY <1>1, <1>2, Effects

(* No step hands over a document with work left, nor puts work behind one that
   was handed over, unless its requests raced. *)
LEMMA SettledNext ==
  Fence /\ OneChain /\ SettledDocument /\ [Next]_vars => SettledDocument'
<1> SUFFICES ASSUME Fence, OneChain, SettledDocument, [Next]_vars,
                    NEW d \in Documents, d \notin raced'
             PROVE  HandedOver(d)'
  BY DEF SettledDocument, HandedOver
<1> SUFFICES ASSUME d \notin raced PROVE HandedOver(d)'
  BY RaceEnds
<1>0. HandedOver(d) /\ \A j, k \in ActiveJobs(d) : j = k
  BY DEF SettledDocument, HandedOver, OneChain, Sole
<1>1. CASE Quiet
  BY <1>0, <1>1 DEF Quiet, HandedOver, ActiveJobs
<1>2. ASSUME NEW j \in Jobs, Enters(j), j.doc = d PROVE HandedOver(d)'
  BY <1>2 DEF Enters, HandedOver
<1>3. ASSUME NEW j \in Jobs, GoesOn(j), j.doc = d PROVE HandedOver(d)'
  <2>1. j \in ActiveJobs(d)
    BY <1>3 DEF GoesOn, ActiveJobs
  <2>2. CASE docs' = docs
    BY <1>0, <2>1, <2>2 DEF HandedOver
  <2>3. CASE docs' = WithDocStatus(d, "PROCESSING")
    BY <2>3, Told DEF HandedOver
  <2> QED BY <1>3, <2>2, <2>3 DEF GoesOn
<1>4. ASSUME NEW j \in Jobs, Ends(j), j.doc = d PROVE HandedOver(d)'
  <2>1. j \in ActiveJobs(d) /\ jobs'[j].status \notin Active
    BY <1>4 DEF Ends, ActiveJobs, Active, Terminal
  <2>2. ActiveJobs(d)' = {}
    BY <1>0, <1>4, <2>1 DEF Ends, OnlyChanges, ActiveJobs
  <2> QED BY <2>2 DEF HandedOver
<1>5. ASSUME NEW j \in Jobs, HandsOn(j), j.doc = d PROVE HandedOver(d)'
  BY <1>0, <1>5 DEF HandsOn, HandedOver, ActiveJobs
<1>6. ASSUME NEW j \in Jobs, Enters(j) \/ GoesOn(j) \/ Ends(j) \/ HandsOn(j), j.doc # d
      PROVE  HandedOver(d)'
  <2>1. Child(j).doc = j.doc
    BY DEF Child, Jobs
  <2>2. \A k \in Jobs : k.doc = d => jobs'[k] = jobs[k]
    BY <1>6, <2>1 DEF Enters, GoesOn, Ends, HandsOn, OnlyChanges
  <2>3. docs'[d] = docs[d]
    BY <1>6, Told, JobParts DEF Enters, GoesOn, Ends, HandsOn, OnlyTells
  <2> QED BY <1>0, <2>2, <2>3 DEF HandedOver, ActiveJobs
<1> QED BY <1>1, <1>2, <1>3, <1>4, <1>5, <1>6, Effects

(* A document handed to a person has no job left to change it, unless two of
   its reprocess requests counted its jobs before either had created one. *)
THEOREM HandedOverIsSettled == Spec => []SettledDocument
<1>1. Init => OneChain /\ SettledDocument
  BY DEF Init, OneChain, Sole, SettledDocument, ActiveJobs, NoRow, Active, Missing
<1>2. Fence /\ OneChain /\ SettledDocument /\ [Next]_vars => OneChain' /\ SettledDocument'
  BY OneChainNext, SettledNext
<1> QED BY <1>1, <1>2, FenceInit, FenceNext, PTL DEF Spec

-----------------------------------------------------------------------------
(* Stages follow each other *)

(* A child's row belongs to one parent, and appears as the parent completes. *)
LEMMA OrderNext == Chained /\ Fence /\ StageOrder /\ [Next]_vars => StageOrder'
<1> SUFFICES ASSUME Chained, Fence, StageOrder, [Next]_vars,
                    NEW j \in Jobs, NextStage[j.stage] # NoStage,
                    jobs'[Child(j)].status # Missing,
                    ~(j.run > 0 /\ Child(j) = ReprocessRoot(j.doc, j.run))
             PROVE  jobs'[j].status = "COMPLETED"
  BY DEF StageOrder
<1> DEFINE k == Child(j)
<1>1. k \in Jobs /\ k.doc = j.doc /\ k.run = j.run /\ k.stage = NextStage[j.stage]
  BY NewJobs DEF Child, Jobs
<1>2. ~IsRoot(k)
  BY <1>1, JobParts DEF IsRoot, Chained
<1>3. ASSUME NEW i \in Jobs, NextStage[i.stage] # NoStage, Child(i) = k PROVE i = j
  <2>1. i.doc = j.doc /\ i.run = j.run /\ NextStage[i.stage] = NextStage[j.stage]
    BY <1>1, <1>3 DEF Child, Jobs
  <2>2. i.stage = j.stage
    BY <1>3, <2>1, JobParts DEF Chained
  <2> QED BY <2>1, <2>2 DEF Jobs
<1> HIDE DEF k
<1>4. jobs[k].status # Missing => jobs[j].status = "COMPLETED"
  BY DEF StageOrder, k
<1>5. jobs'[k].status # Missing
  BY DEF k
<1>6. CASE Quiet
  BY <1>4, <1>5, <1>6 DEF Quiet
<1>7. ASSUME NEW i \in Jobs, Enters(i) PROVE jobs'[j].status = "COMPLETED"
  <2>1. i # k /\ jobs[i].status = Missing
    BY <1>2, <1>7 DEF Enters, Queues, NoRow
  <2>2. jobs[j].status = "COMPLETED"
    BY <1>1, <1>4, <1>5, <1>7, <2>1 DEF Enters, OnlyChanges
  <2> QED BY <1>7, <2>1, <2>2 DEF Enters, OnlyChanges, Missing
<1>8. ASSUME NEW i \in Jobs, GoesOn(i) \/ Ends(i) PROVE jobs'[j].status = "COMPLETED"
  <2>1. jobs[i].status \in Active /\ OnlyChanges({i})
    BY <1>8 DEF GoesOn, Ends
  <2>2. jobs[k].status # Missing
    BY <1>1, <1>5, <2>1 DEF OnlyChanges, Active, Missing
  <2> QED BY <1>4, <2>1, <2>2 DEF OnlyChanges, Active
<1>9. ASSUME NEW i \in Jobs, HandsOn(i) PROVE jobs'[j].status = "COMPLETED"
  <2>1. CASE Child(i) = k
    BY <1>3, <1>9, <2>1 DEF HandsOn
  <2>2. CASE Child(i) # k
    <3>1. jobs[k].status # Missing
      BY <1>1, <1>5, <1>9, <2>2 DEF HandsOn, OnlyChanges, Active, Missing
    <3>2. j # Child(i)
      BY <1>4, <1>9, <3>1 DEF HandsOn, Queues, NoRow, Missing
    <3> QED BY <1>4, <1>9, <3>1, <3>2 DEF HandsOn, OnlyChanges, Active
  <2> QED BY <2>1, <2>2
<1> QED BY <1>6, <1>7, <1>8, <1>9, Effects

(* A stage is queued only by the completion of the one before it, for any
   chain in which each stage has one before it. *)
THEOREM StagesFollow ==
  ASSUME Chained
  PROVE  Spec => []StageOrder
<1>1. Init => StageOrder
  BY NewJobs DEF Init, StageOrder, NoRow
<1>2. Fence /\ StageOrder /\ [Next]_vars => StageOrder'
  BY OrderNext
<1> QED BY <1>1, <1>2, FenceInit, FenceNext, PTL DEF Spec
=============================================================================
