--------------------------- MODULE ProcessingJobs ---------------------------
(***************************************************************************)
(* The persistent processing jobs of LEX-OS and the cost budget of the     *)
(* cases they run for.                                                     *)
(*                                                                         *)
(* Three tables are state: "processing_jobs", the cost columns of "cases"  *)
(* and the processing status of "documents".  Worker executions            *)
(* (PipelineProcessorService.process) read a job row without a lock,       *)
(* claim it, run its stage and settle it; the API creates documents and    *)
(* reprocessing chains, moves the budget and deletes cases and documents.  *)
(*                                                                         *)
(* A transaction is split where another one can come between its steps:    *)
(* an unlocked read is a step of its own, and what follows it, up to the   *)
(* commit, is one step, because it holds the row lock of the case or is    *)
(* decided by a single conditional UPDATE.  An exception rolls the         *)
(* transaction back, so a step that throws changes no table.               *)
(*                                                                         *)
(* A job is named by its document, the run of the pipeline it belongs to   *)
(* (0 is the intake, the others are reprocessings) and its stage: the id   *)
(* of a child job is a hash of its parent's id and its own stage, and      *)
(* stands for this name.                                                   *)
(***************************************************************************)
EXTENDS Naturals, FiniteSets, Amounts

CONSTANTS
    Cases,          \* the cases of one organization
    Documents,      \* the documents, present or yet to be uploaded
    CaseOf,         \* the case each document belongs to
    Executions,     \* what the workers can run at once
    Stages,         \* the job types in use
    NextStage,      \* the job type a completed stage queues, or NoStage
    NoStage,
    Quote,          \* the maximum cost the policy quotes for a stage
    Limits,         \* the ceilings a case may be given
    NoJob,          \* the job of an execution that has none
    MaxRuns,        \* bound: reprocessings of one document
    MaxRequests,    \* bound: reprocess requests of one document in flight
    MaxVersion      \* bound: updates of one job row

Jobs == [doc : Documents, run : 0..MaxRuns, stage : Stages]

ASSUME ConstantsAssumption ==
    /\ CaseOf \in [Documents -> Cases]
    /\ {"FILE_VALIDATION", "VIRUS_SCAN", "OCR"} \subseteq Stages
    /\ NextStage \in [Stages -> Stages \cup {NoStage}]
    /\ NoStage \notin Stages
    /\ Quote \in [Stages -> Nat]
    /\ Limits \subseteq Nat
    /\ NoJob \notin Jobs
    /\ MaxRuns \in Nat
    /\ MaxRequests \in Nat
    /\ MaxVersion \in Nat

VARIABLES
    jobs,       \* table processing_jobs
    cases,      \* cost columns and deleted_at of table cases
    docs,       \* processing_status and deleted_at of table documents
    phase,      \* where each execution is
    target,     \* the job an execution is working on
    held,       \* the row it read, then the row its claim wrote
    approved,   \* reprocess transactions past their count of active jobs
    raced       \* history: documents with requests that did not see each other

vars == <<jobs, cases, docs, phase, target, held, approved, raced>>

tables == <<jobs, cases, docs>>
executions == <<phase, target, held>>

-----------------------------------------------------------------------------
Active == {"QUEUED", "PROCESSING", "RETRYING"}
Terminal == {"COMPLETED", "FAILED", "CANCELLED"}
Missing == "NONE"
JobStatus == Active \cup Terminal \cup {Missing}

JobRow == [status : JobStatus, version : Nat, reserved : Nat, cost : Nat]
CaseRow == [limit : Nat, spent : Nat, reserved : Nat,
            budget : {"ACTIVE", "LIMIT_REACHED"}, deleted : BOOLEAN]
DocRow == [status : {Missing, "QUEUED", "PROCESSING", "NEEDS_REVIEW", "FAILED"},
           deleted : BOOLEAN]

NoRow == [status |-> Missing, version |-> 0, reserved |-> 0, cost |-> 0]
NewRow == [NoRow EXCEPT !.status = "QUEUED"]

JobsOf(c) == {j \in Jobs : CaseOf[j.doc] = c}
ActiveJobs(d) == {j \in Jobs : j.doc = d /\ jobs[j].status \in Active}
IntakeRoot(d, stage) == [doc |-> d, run |-> 0, stage |-> stage]
ReprocessRoot(d, n) == [doc |-> d, run |-> n, stage |-> "OCR"]
Child(j) == [j EXCEPT !.stage = NextStage[j.stage]]

Reserved == [j \in Jobs |-> jobs[j].reserved]
Cost == [j \in Jobs |-> jobs[j].cost]

(* What each variable holds, and the bound of concurrent requests. *)
TypeOK ==
    /\ jobs \in [Jobs -> JobRow]
    /\ cases \in [Cases -> CaseRow]
    /\ docs \in [Documents -> DocRow]
    /\ phase \in [Executions -> {"idle", "claiming", "running"}]
    /\ target \in [Executions -> Jobs \cup {NoJob}]
    /\ held \in [Executions -> JobRow]
    /\ approved \in [Documents -> 0..MaxRequests]
    /\ raced \subseteq Documents

Init ==
    /\ jobs = [j \in Jobs |-> NoRow]
    /\ cases = [c \in Cases |-> [limit |-> 0, spent |-> 0, reserved |-> 0,
                                 budget |-> "ACTIVE", deleted |-> FALSE]]
    /\ docs = [d \in Documents |-> [status |-> Missing, deleted |-> FALSE]]
    /\ phase = [e \in Executions |-> "idle"]
    /\ target = [e \in Executions |-> NoJob]
    /\ held = [e \in Executions |-> NoRow]
    /\ approved = [d \in Documents |-> 0]
    /\ raced = {}

-----------------------------------------------------------------------------
(* What the transactions are made of *)

Moved(row, status) == [row EXCEPT !.status = status, !.version = @ + 1]

(* UPDATE documents ... WHERE deleted_at IS NULL *)
WithDocStatus(d, status) ==
    IF docs[d].deleted THEN docs ELSE [docs EXCEPT ![d].status = status]

(* Mutants of Current: the predicate without the version, or the id alone. *)
CurrentByStatus(e) == jobs[target[e]].status = held[e].status
CurrentById(e) == jobs[target[e]].status \in JobStatus

(* The predicate of every conditional UPDATE of a job: the row is still the
   one the execution read, or the one its own claim wrote. *)
Current(e) ==
    /\ jobs[target[e]].status = held[e].status
    /\ jobs[target[e]].version = held[e].version

Start(e, where, j, row) ==
    /\ phase' = [phase EXCEPT ![e] = where]
    /\ target' = [target EXCEPT ![e] = j]
    /\ held' = [held EXCEPT ![e] = row]

Finish(e) == Start(e, "idle", NoJob, NoRow)

-----------------------------------------------------------------------------
(* claim *)

(* The unlocked read that opens the claim.  A missing or terminal row is
   skipped; a deleted document or case makes the claim throw. *)
ReadForClaim(e, j) ==
    /\ phase[e] = "idle"
    /\ jobs[j].status \in Active
    /\ ~docs[j.doc].deleted
    /\ ~cases[CaseOf[j.doc]].deleted
    /\ jobs[j].version + 1 < MaxVersion
    /\ Start(e, "claiming", j, jobs[j])
    /\ UNCHANGED <<tables, approved, raced>>

(* What the claim of a row that was queued or retrying adds to the case's
   reservation: a retry still holds the one of its first attempt. *)
ReservationToAdd(e) ==
    IF held[e].reserved = 0 THEN Quote[target[e].stage] ELSE 0

(* Mutants of Blocked: what other jobs have reserved is forgotten; a retry that
   holds its reservation is stopped at the ceiling. *)
BlockedBySpending(e) ==
    LET c == CaseOf[target[e].doc] IN
    \/ cases[c].budget = "LIMIT_REACHED" /\ held[e].reserved = 0
    \/ cases[c].spent + ReservationToAdd(e) > cases[c].limit
BlockedAtCeiling(e) ==
    LET c == CaseOf[target[e].doc] IN
    \/ cases[c].budget = "LIMIT_REACHED"
    \/ cases[c].spent + cases[c].reserved + ReservationToAdd(e) > cases[c].limit

Blocked(e) ==
    LET c == CaseOf[target[e].doc] IN
    \/ cases[c].budget = "LIMIT_REACHED" /\ held[e].reserved = 0
    \/ cases[c].spent + cases[c].reserved + ReservationToAdd(e) > cases[c].limit

(* From SELECT ... FOR UPDATE of the case to the commit. *)
LocksCase(e) ==
    /\ phase[e] = "claiming"
    /\ held[e].status # "PROCESSING"
    /\ ~cases[CaseOf[target[e].doc]].deleted
    /\ Current(e)

GrantClaim(e) ==
    /\ LocksCase(e)
    /\ ~Blocked(e)
    /\ LET j == target[e]
           row == [Moved(held[e], "PROCESSING") EXCEPT
                      !.reserved = @ + ReservationToAdd(e)]
       IN  /\ jobs' = [jobs EXCEPT ![j] = row]
           /\ cases' = [cases EXCEPT ![CaseOf[j.doc]].reserved = @ + ReservationToAdd(e)]
           /\ docs' = WithDocStatus(j.doc, "PROCESSING")
           /\ Start(e, "running", j, row)
    /\ UNCHANGED <<approved, raced>>

(* Not enough budget: the job is cancelled and keeps its reserved amount,
   the case is marked, the document waits for a person. *)
BlockClaim(e) ==
    /\ LocksCase(e)
    /\ Blocked(e)
    /\ LET j == target[e] IN
       /\ jobs' = [jobs EXCEPT ![j] = Moved(@, "CANCELLED")]
       /\ cases' = [cases EXCEPT ![CaseOf[j.doc]].budget = "LIMIT_REACHED"]
       /\ docs' = WithDocStatus(j.doc, "NEEDS_REVIEW")
    /\ Finish(e)
    /\ UNCHANGED <<approved, raced>>

(* A delivery that finds the row PROCESSING takes it over, without a look at
   the budget: its reservation was made by the execution it replaces. *)
ResumeClaim(e) ==
    /\ phase[e] = "claiming"
    /\ held[e].status = "PROCESSING"
    /\ Current(e)
    /\ LET j == target[e]
           row == Moved(held[e], "PROCESSING")
       IN  /\ jobs' = [jobs EXCEPT ![j] = row]
           /\ docs' = WithDocStatus(j.doc, "PROCESSING")
           /\ Start(e, "running", j, row)
    /\ UNCHANGED <<cases, approved, raced>>

(* The conditional UPDATE matched no row, or the case to lock is gone: the
   claim throws and its transaction is rolled back. *)
LoseClaim(e) ==
    /\ phase[e] = "claiming"
    /\ \/ ~Current(e)
       \/ held[e].status # "PROCESSING" /\ cases[CaseOf[target[e].doc]].deleted
    /\ Finish(e)
    /\ UNCHANGED <<tables, approved, raced>>

-----------------------------------------------------------------------------
(* complete, retry and fail *)

(* Mutants of Settled: only the measured cost is given back; the quote is spent;
   a budget that had run out is open again when there is room. *)
SettledByCost(case, row, actual) ==
    LET spent == case.spent + actual
        reserved == case.reserved - actual
        reached == \/ case.budget = "LIMIT_REACHED"
                   \/ case.limit > 0 /\ spent + reserved >= case.limit
    IN  [case EXCEPT !.spent = spent, !.reserved = reserved,
                     !.budget = IF reached THEN "LIMIT_REACHED" ELSE "ACTIVE"]
SettledByQuote(case, row, actual) ==
    LET spent == case.spent + row.reserved
        reserved == case.reserved - row.reserved
        reached == \/ case.budget = "LIMIT_REACHED"
                   \/ case.limit > 0 /\ spent + reserved >= case.limit
    IN  [case EXCEPT !.spent = spent, !.reserved = reserved,
                     !.budget = IF reached THEN "LIMIT_REACHED" ELSE "ACTIVE"]
SettledReopening(case, row, actual) ==
    LET spent == case.spent + actual
        reserved == case.reserved - row.reserved
        reached == case.limit > 0 /\ spent + reserved >= case.limit
    IN  [case EXCEPT !.spent = spent, !.reserved = reserved,
                     !.budget = IF reached THEN "LIMIT_REACHED" ELSE "ACTIVE"]

(* The case row after an execution is settled: the measured cost is spent,
   the whole reservation is given back, and the ceiling may be reached. *)
Settled(case, row, actual) ==
    LET spent == case.spent + actual
        reserved == case.reserved - row.reserved
        reached == \/ case.budget = "LIMIT_REACHED"
                   \/ case.limit > 0 /\ spent + reserved >= case.limit
    IN  [case EXCEPT !.spent = spent,
                     !.reserved = reserved,
                     !.budget = IF reached THEN "LIMIT_REACHED" ELSE "ACTIVE"]

SettledRow(row, status, actual) ==
    [Moved(row, status) EXCEPT !.reserved = 0, !.cost = @ + actual]

(* Mutant of CanSettle: settles without the fence. *)
CanSettleUnfenced(e, actual) ==
    /\ phase[e] = "running"
    /\ ~cases[CaseOf[target[e].doc]].deleted
    /\ actual <= held[e].reserved

(* What lets a settlement commit: the claim is still the latest, the case is
   there to lock, and neither fail-closed check of the amounts throws. *)
CanSettle(e, actual) ==
    /\ phase[e] = "running"
    /\ Current(e)
    /\ ~cases[CaseOf[target[e].doc]].deleted
    /\ actual <= held[e].reserved
    /\ held[e].reserved <= cases[CaseOf[target[e].doc]].reserved

Complete(e, actual) ==
    /\ CanSettle(e, actual)
    /\ target[e].stage # "VIRUS_SCAN"       \* that stage always throws
    /\ LET j == target[e]
           c == CaseOf[j.doc]
           reached == Settled(cases[c], held[e], actual).budget = "LIMIT_REACHED"
           last == NextStage[j.stage] = NoStage
           done == [jobs EXCEPT ![j] = SettledRow(held[e], "COMPLETED", actual)]
       IN  /\ cases' = [cases EXCEPT ![c] = Settled(@, held[e], actual)]
           /\ IF last \/ reached
                THEN jobs' = done
                ELSE /\ jobs[Child(j)].status = Missing     \* primary key
                     /\ jobs' = [done EXCEPT ![Child(j)] = NewRow]
           /\ docs' = IF last \/ reached THEN WithDocStatus(j.doc, "NEEDS_REVIEW")
                                         ELSE docs
    /\ Finish(e)
    /\ UNCHANGED <<approved, raced>>

(* A retryable error before the last delivery attempt keeps the reservation
   and needs no lock of the case. *)
Retry(e) ==
    /\ phase[e] = "running"
    /\ Current(e)
    /\ jobs' = [jobs EXCEPT ![target[e]] = Moved(@, "RETRYING")]
    /\ Finish(e)
    /\ UNCHANGED <<cases, docs, approved, raced>>

(* Mutant of Fail: the document is not told. *)
FailSilently(e, actual) ==
    /\ CanSettle(e, actual)
    /\ LET j == target[e] IN
       /\ jobs' = [jobs EXCEPT ![j] = SettledRow(held[e], "FAILED", actual)]
       /\ cases' = [cases EXCEPT ![CaseOf[j.doc]] = Settled(@, held[e], actual)]
    /\ Finish(e)
    /\ UNCHANGED <<docs, approved, raced>>

Fail(e, actual) ==
    /\ CanSettle(e, actual)
    /\ LET j == target[e] IN
       /\ jobs' = [jobs EXCEPT ![j] = SettledRow(held[e], "FAILED", actual)]
       /\ cases' = [cases EXCEPT ![CaseOf[j.doc]] = Settled(@, held[e], actual)]
       /\ docs' = WithDocStatus(j.doc, "FAILED")
    /\ Finish(e)
    /\ UNCHANGED <<approved, raced>>

(* Every transition the execution could still write throws: another claim
   came after its own, or it has failed and its case was deleted. *)
LoseRun(e) ==
    /\ phase[e] = "running"
    /\ ~Current(e) \/ cases[CaseOf[target[e].doc]].deleted
    /\ Finish(e)
    /\ UNCHANGED <<tables, approved, raced>>

(* The worker process dies; an open transaction is rolled back. *)
Crash(e) ==
    /\ phase[e] # "idle"
    /\ Finish(e)
    /\ UNCHANGED <<tables, approved, raced>>

-----------------------------------------------------------------------------
(* The API's transactions *)

(* An upload commits its document and the root job together.  Nothing in that
   transaction looks at the case again, so it may land in a case deleted
   since the upload began. *)
Intake(d, stage) ==
    /\ stage \in {"FILE_VALIDATION", "VIRUS_SCAN"}
    /\ docs[d].status = Missing
    /\ docs' = [docs EXCEPT ![d].status = "QUEUED"]
    /\ jobs' = [jobs EXCEPT ![IntakeRoot(d, stage)] = NewRow]
    /\ UNCHANGED <<cases, executions, approved, raced>>

(* Only a file that passed its scan may be reprocessed: not the one whose
   intake queued a scan. *)
Available(d) ==
    /\ docs[d].status # Missing
    /\ jobs[IntakeRoot(d, "VIRUS_SCAN")].status = Missing

(* History: a request that counts while another has counted and not created its
   job does not see it; one that finds neither ends whatever race there was. *)
Unseen(d) == IF approved[d] > 0 THEN raced \cup {d} ELSE raced \ {d}

(* Mutant of ApproveReprocess: the active jobs are not counted. *)
ApproveUncounted(d) ==
    /\ Available(d)
    /\ ~docs[d].deleted
    /\ ~cases[CaseOf[d]].deleted
    /\ approved[d] < MaxRequests
    /\ approved' = [approved EXCEPT ![d] = @ + 1]
    /\ raced' = Unseen(d)
    /\ UNCHANGED <<tables, executions>>

(* A reprocess request checks its target, then counts the active jobs of the
   document: the count locks nothing. *)
ApproveReprocess(d) ==
    /\ Available(d)
    /\ ~docs[d].deleted
    /\ ~cases[CaseOf[d]].deleted
    /\ ActiveJobs(d) = {}
    /\ approved[d] < MaxRequests
    /\ approved' = [approved EXCEPT ![d] = @ + 1]
    /\ raced' = Unseen(d)
    /\ UNCHANGED <<tables, executions>>

CreateReprocess(d, n) ==
    /\ approved[d] > 0
    /\ jobs[ReprocessRoot(d, n)].status = Missing
    /\ \A m \in 1..(n - 1) : jobs[ReprocessRoot(d, m)].status # Missing
    /\ approved' = [approved EXCEPT ![d] = @ - 1]
    /\ jobs' = [jobs EXCEPT ![ReprocessRoot(d, n)] = NewRow]
    /\ docs' = WithDocStatus(d, "QUEUED")
    /\ UNCHANGED <<cases, executions, raced>>

(* The ceiling may move anywhere not below what is committed.  It is the only
   way out of LIMIT_REACHED. *)
UpdateBudget(c, limit) ==
    /\ ~cases[c].deleted
    /\ limit >= cases[c].spent + cases[c].reserved
    /\ LET reached == /\ cases[c].reserved = 0
                      /\ limit > 0
                      /\ cases[c].spent >= limit
       IN  cases' = [cases EXCEPT ![c].limit = limit,
                                  ![c].budget = IF reached THEN "LIMIT_REACHED" ELSE "ACTIVE"]
    /\ UNCHANGED <<jobs, docs, executions, approved, raced>>

DeleteCase(c) ==
    /\ ~cases[c].deleted
    /\ cases' = [cases EXCEPT ![c].deleted = TRUE]
    /\ UNCHANGED <<jobs, docs, executions, approved, raced>>

DeleteDocument(d) ==
    /\ docs[d].status # Missing
    /\ ~docs[d].deleted
    /\ docs' = [docs EXCEPT ![d].deleted = TRUE]
    /\ UNCHANGED <<jobs, cases, executions, approved, raced>>

-----------------------------------------------------------------------------
Claiming(e) == GrantClaim(e) \/ BlockClaim(e) \/ ResumeClaim(e) \/ LoseClaim(e)

Settling(e) ==
    \/ \E actual \in 0..held[e].reserved : Complete(e, actual) \/ Fail(e, actual)
    \/ Retry(e)
    \/ LoseRun(e)

Worker(e) ==
    \/ \E j \in Jobs : ReadForClaim(e, j)
    \/ Claiming(e)
    \/ Settling(e)
    \/ Crash(e)

Api ==
    \/ \E d \in Documents, stage \in Stages : Intake(d, stage)
    \/ \E d \in Documents : ApproveReprocess(d) \/ DeleteDocument(d)
    \/ \E d \in Documents, n \in 1..MaxRuns : CreateReprocess(d, n)
    \/ \E c \in Cases : DeleteCase(c) \/ (\E limit \in Limits : UpdateBudget(c, limit))

Next == Api \/ (\E e \in Executions : Worker(e))

Spec == Init /\ [][Next]_vars

-----------------------------------------------------------------------------
(* Properties *)

(* What a case says is reserved is the sum of what its jobs hold: claim,
   complete and fail move the two columns together, in transactions that read
   the job before they lock the case. *)
ReservationsBalance ==
    \A c \in Cases : cases[c].reserved = Total(Reserved, JobsOf(c))

(* What a case has spent is the sum of the settled costs of its jobs: no
   execution is charged twice, whoever else resumes, retries or fails it. *)
SpendingIsSettled ==
    \A c \in Cases : cases[c].spent = Total(Cost, JobsOf(c))

(* cases_processing_cost_within_limit never has to reject a worker: the
   ceiling holds while reservations, settlements and new ceilings interleave. *)
WithinLimit ==
    \A c \in Cases : cases[c].spent + cases[c].reserved <= cases[c].limit

(* Only a job that will be claimed or settled holds a reservation; above all,
   the cancellation that keeps the amount never cancels a job that has one. *)
NoStrandedReservation ==
    \A j \in Jobs : jobs[j].reserved > 0 => jobs[j].status \in {"PROCESSING", "RETRYING"}

(* Two workers cannot both finalize one attempt: among the executions running
   a job, the conditional UPDATE lets at most one through. *)
SoleOwner ==
    \A e, f \in Executions :
        /\ phase[e] = "running" /\ phase[f] = "running"
        /\ target[e] = target[f]
        /\ Current(e) /\ Current(f)
        => e = f

(* A document that says it is queued or processing has a job that will move
   it: no chain stops, at the ceiling or by failing, and leaves it so. *)
WorkBehindStatus ==
    \A d \in Documents :
        ~docs[d].deleted /\ docs[d].status \in {"QUEUED", "PROCESSING"}
            => ActiveJobs(d) # {}

(* The converse: a document handed to a person has no job left to change it,
   unless two reprocess requests for it raced.  docs/api/processing.md says a
   request is refused with 409 while another chain is active; the code counts
   the active jobs without a lock, so of two requests that count before either
   creates its job both are accepted, and the chain that ends first hands over
   a document the other still works on.  That is the condition: the document
   is not in "raced", where such a pair puts it until a request finds it at
   rest.  Whatever else meets, late and repeated executions, the ceiling and
   deletions included, hands over nothing that is still worked on. *)
SettledDocument ==
    \A d \in Documents \ raced :
        ~docs[d].deleted /\ docs[d].status \in {"NEEDS_REVIEW", "FAILED"}
            => ActiveJobs(d) = {}

(* A stage is queued only by the completion of the one before it. *)
StageOrder ==
    \A j \in Jobs :
        /\ NextStage[j.stage] # NoStage
        /\ jobs[Child(j)].status # Missing
        /\ ~(j.run > 0 /\ Child(j) = ReprocessRoot(j.doc, j.run))
        => jobs[j].status = "COMPLETED"

-----------------------------------------------------------------------------
(* What the tables promise, without the workers *)

(* Seen from outside, a job moves only as job-state-machine.ts allows, each
   time at a new version, whatever the executions do to each other. *)
Lifecycle == INSTANCE JobLifecycle WITH
    status <- [j \in Jobs |-> jobs[j].status],
    version <- [j \in Jobs |-> jobs[j].version]

ImplementsLifecycle == Lifecycle!Spec

(* Seen from outside, every transaction on a budget is one atomic entry of a
   ledger that derives what is on hold from the jobs. *)
Ledger == INSTANCE CaseLedger WITH
    CaseOfJob <- [j \in Jobs |-> CaseOf[j.doc]],
    Quotes <- {Quote[s] : s \in Stages},
    limit <- [c \in Cases |-> cases[c].limit],
    spent <- [c \in Cases |-> cases[c].spent],
    holds <- Reserved,
    open <- [c \in Cases |-> cases[c].budget = "ACTIVE"]

ImplementsLedger == Ledger!Spec

=============================================================================
