------------------------- MODULE ProcessingDelivery -------------------------
(***************************************************************************)
(* How a pipeline job gets from its row to its end through the queue:      *)
(* the row and the queue are written in separate steps, so a publication   *)
(* may be lost, a worker may die between them, and a delivery may be       *)
(* repeated.  ProcessingReconcilerService republishes rows that wait       *)
(* without an entry.  Budgets and documents are ProcessingJobs' part; of    *)
(* the document and the case of a job it matters here whether they were    *)
(* deleted, since softDelete looks at no open job and claim, complete and  *)
(* fail throw for the jobs it left.  (They throw for a quote in another    *)
(* currency too, but every quote, answer and case is in BRL.)              *)
(***************************************************************************)
EXTENDS DeliveryQueue, FiniteSets

CONSTANTS
    ReconcileBatch, \* how many stale rows the reconciler takes at a time
    Deletable,      \* bound: the jobs whose document or case may be deleted
    MaxFaults       \* bound: workers that die, locks that run out under a worker that lives, and
                    \* database failures that keep an outcome from being recorded

ASSUME DeliveryAssumption == ReconcileBatch \in Nat \ {0} /\ IsFiniteSet(JobIds)

VARIABLES
    rows,       \* processing_jobs: status, version and the rank of the last update
    targets,    \* what is left of the document and the case of each job
    runs,       \* each consumer: the delivery it runs and what it knows of the row
    faults      \* crashes, blocks and outages so far

vars == <<queue, rows, targets, runs, faults>>

Statuses == {"NONE", "QUEUED", "PROCESSING", "RETRYING", "COMPLETED", "FAILED",
             "CANCELLED"}
Open == {"QUEUED", "PROCESSING", "RETRYING"}
Settled == {"COMPLETED", "FAILED", "CANCELLED"}

Run(job, step, attempt, version, seen) ==
    [job |-> job, step |-> step, attempt |-> attempt, version |-> version, seen |-> seen]
NoRun == Run(NoJobId, "idle", 0, 0, "NONE")

Init ==
    /\ QueueInit
    /\ rows = [j \in JobIds |-> [status |-> "NONE", version |-> 0, rank |-> 0]]
    /\ targets = [j \in JobIds |-> "present"]
    /\ runs = [w \in Consumers |-> NoRun]
    /\ faults = [crashes |-> 0, blocks |-> 0, outages |-> 0]

Fault(kind) ==
    /\ faults.crashes + faults.blocks + faults.outages < MaxFaults
    /\ faults' = [faults EXCEPT ![kind] = @ + 1]

(* updatedAt: an updated row becomes the last in its order. *)
Touched(j, status, version) ==
    [k \in JobIds |->
        IF k = j
        THEN [status |-> status, version |-> version,
              rank |-> Cardinality({i \in JobIds \ {j} : rows[i].rank > 0}) + 1]
        ELSE [rows[k] EXCEPT !.rank = IF rows[j].rank > 0 /\ @ > rows[j].rank THEN @ - 1 ELSE @]]

(* A row is committed (FilesService, reprocess, the parent's complete);    *)
(* its publication follows the commit, and may be lost.  The document may  *)
(* be gone when a parent completes, and the case when an upload does.      *)
Create(j, published) ==
    /\ rows[j].status = "NONE"
    /\ rows' = Touched(j, "QUEUED", 1)
    /\ IF published THEN Publish(j) ELSE UNCHANGED queue
    /\ UNCHANGED <<targets, runs, faults>>

(* softDelete of the document, or of the case, whatever jobs are open.     *)
DeleteDocument(j) ==
    /\ j \in Deletable
    /\ targets[j] = "present"
    /\ targets' = [targets EXCEPT ![j] = "document deleted"]
    /\ UNCHANGED <<queue, rows, runs, faults>>

DeleteCase(j) ==
    /\ j \in Deletable
    /\ targets[j] # "case deleted"
    /\ targets' = [targets EXCEPT ![j] = "case deleted"]
    /\ UNCHANGED <<queue, rows, runs, faults>>

Is(w, step) == runs[w].step = step
Becomes(w, run) == runs' = [runs EXCEPT ![w] = run]
Job(w) == runs[w].job

(* A delivery begins: attemptsMade + 1 is its attempt. *)
Deliver(w, j) ==
    /\ Is(w, "idle")
    /\ Take(w, j)
    /\ Becomes(w, Run(j, "reading", queue[j].made + 1, 0, "NONE"))
    /\ UNCHANGED <<rows, targets, faults>>

\* Variants: a failed job is taken up again; a row that lost its publication is not stale.
ClaimableAfterFailure == {"QUEUED", "RETRYING", "PROCESSING", "FAILED"}
ReconcilableRetrying == {"RETRYING"}

Claimable == {"QUEUED", "RETRYING", "PROCESSING"}
Reconcilable == {"QUEUED", "RETRYING"}

Goes(w, step) == runs' = [runs EXCEPT ![w].step = step]

(* claim, its read: a settled job is acknowledged without a run, and the job *)
(* of a deleted document or case throws (assertTenantRelationships).        *)
ReadForClaim(w) ==
    /\ Is(w, "reading")
    /\ LET row == rows[Job(w)]
       IN  \/ /\ row.status \in Claimable /\ targets[Job(w)] = "present"
              /\ Becomes(w, Run(Job(w), "claiming", runs[w].attempt, row.version, row.status))
              /\ UNCHANGED queue
           \/ /\ row.status \in Claimable /\ targets[Job(w)] # "present"
              /\ Goes(w, "threw")
              /\ UNCHANGED queue
           \/ /\ row.status \notin Claimable
              /\ Becomes(w, NoRun) /\ Acknowledge(w, Job(w))
    /\ UNCHANGED <<rows, targets, faults>>

(* A case that was deleted cannot be locked: what needs its budget throws. *)
CaseLocks(w) == targets[Job(w)] # "case deleted"

\* Variant: the update is conditional on the id alone.
CurrentById(w) == rows[Job(w)].status # "NONE"

Current(w) ==
    rows[Job(w)].status = runs[w].seen /\ rows[Job(w)].version = runs[w].version

(* claim, from the lock of the case, which a job in PROCESSING does without, *)
(* to its conditional update: the loser throws.                             *)
Claim(w) ==
    /\ Is(w, "claiming")
    /\ IF Current(w) /\ (runs[w].seen = "PROCESSING" \/ CaseLocks(w))
       THEN /\ rows' = Touched(Job(w), "PROCESSING", runs[w].version + 1)
            /\ Becomes(w, Run(Job(w), "working", runs[w].attempt, runs[w].version + 1,
                               "PROCESSING"))
       ELSE Goes(w, "threw") /\ UNCHANGED rows
    /\ UNCHANGED <<queue, targets, faults>>

(* The budget of the case does not cover a new claim: the job is cancelled. *)
BlockClaim(w) ==
    /\ Is(w, "claiming")
    /\ Current(w) /\ runs[w].seen # "PROCESSING" /\ CaseLocks(w)
    /\ rows' = Touched(Job(w), "CANCELLED", runs[w].version + 1)
    /\ Goes(w, "returned")
    /\ UNCHANGED <<queue, targets, faults>>

(* The work is done, and complete commits if the claim is still this run's. *)
Complete(w) ==
    /\ Is(w, "working")
    /\ Current(w) /\ CaseLocks(w)
    /\ rows' = Touched(Job(w), "COMPLETED", runs[w].version + 1)
    /\ Goes(w, "returned")
    /\ UNCHANGED <<queue, targets, faults>>

(* #handleError, of the stage or of complete: retry, or fail after the last *)
(* attempt or for good; both are conditional, fail locks the case, and the  *)
(* exception leaves the processor either way.                               *)
HandleError(w, permanent) ==
    /\ Is(w, "working")
    /\ LET final == permanent \/ runs[w].attempt >= MaxAttempts
           written == Current(w) /\ (final => CaseLocks(w))
       IN  /\ rows' = IF written
                      THEN Touched(Job(w), IF final THEN "FAILED" ELSE "RETRYING",
                                   runs[w].version + 1)
                      ELSE rows
           /\ Goes(w, IF permanent /\ written THEN "gaveUp" ELSE "threw")
    /\ UNCHANGED <<queue, targets, faults>>

(* The database does not answer the claim, or retry or fail: the exception *)
(* leaves the processor and the row keeps its status.                      *)
Outage(w) ==
    /\ runs[w].step \in {"reading", "claiming", "working"}
    /\ Fault("outages")
    /\ Goes(w, "threw")
    /\ UNCHANGED <<queue, rows, targets>>

(* BullMQ learns what became of the processor. *)
Finish(w) ==
    /\ \/ Is(w, "returned") /\ Acknowledge(w, Job(w))
       \/ Is(w, "threw") /\ Reject(w, Job(w), FALSE)
       \/ Is(w, "gaveUp") /\ Reject(w, Job(w), TRUE)
    /\ Becomes(w, NoRun)
    /\ UNCHANGED <<rows, targets, faults>>

(* A worker dies: the entry stays active until its lock runs out. *)
Crash(w) ==
    /\ ~Is(w, "idle")
    /\ Fault("crashes")
    /\ Becomes(w, NoRun)
    /\ UNCHANGED <<queue, rows, targets>>

Orphaned(j) == queue[j].state = "active" /\ Job(queue[j].holder) # j

DetectStalled(j) == Orphaned(j) /\ Stall(j) /\ UNCHANGED <<rows, targets, runs, faults>>

(* A worker too busy to renew the lock loses it and works on. *)
LoseLock(j) ==
    /\ Stall(j)
    /\ ~Orphaned(j)
    /\ Fault("blocks")
    /\ UNCHANGED <<rows, targets, runs>>

Expire(j) == Remove(j) /\ UNCHANGED <<rows, targets, runs, faults>>

(* staleReconcilable: any row that waits may be stale by now; the oldest    *)
(* ones are taken.                                                         *)
Stale ==
    LET waiting == {j \in JobIds : rows[j].status \in Reconcilable}
    IN  {j \in waiting : Cardinality({i \in waiting : rows[i].rank < rows[j].rank})
                            < ReconcileBatch}

(* reconcileOnce: each stale row without an entry is published. *)
Reconcile == queue' = AddedAll(Stale) /\ UNCHANGED <<rows, targets, runs, faults>>

Work(w) ==
    \/ \E j \in JobIds : Deliver(w, j)
    \/ ReadForClaim(w)
    \/ Claim(w)
    \/ BlockClaim(w)
    \/ Complete(w)
    \/ \E permanent \in BOOLEAN : HandleError(w, permanent)
    \/ Finish(w)

Next ==
    \/ \E j \in JobIds, published \in BOOLEAN : Create(j, published)
    \/ \E j \in JobIds : DeleteDocument(j) \/ DeleteCase(j)
    \/ \E w \in Consumers : Work(w) \/ Outage(w) \/ Crash(w)
    \/ \E j \in JobIds : DetectStalled(j) \/ LoseLock(j) \/ Expire(j)
    \/ Reconcile

Spec == Init /\ [][Next]_vars

(* The consumers run, BullMQ looks for stalled entries and the reconciler's *)
(* timer fires.  Nothing removes old entries for certain.                  *)
FairSpec ==
    /\ Spec
    /\ \A w \in Consumers : WF_vars(Work(w))
    /\ \A j \in JobIds : WF_vars(DetectStalled(j))
    /\ WF_vars(Reconcile)
-----------------------------------------------------------------------------
(* What each variable holds. *)
TypeOK ==
    /\ QueueTypeOK
    /\ rows \in [JobIds -> [status : Statuses, version : Nat, rank : 0 .. Cardinality(JobIds)]]
    /\ targets \in [JobIds -> {"present", "document deleted", "case deleted"}]
    /\ \A w \in Consumers : runs[w].step \in
           {"idle", "reading", "claiming", "working", "returned", "threw", "gaveUp"}

(* More went wrong than the queue forgives: a second worker died, a lock ran *)
(* out under a run that went on, or the database did not take an outcome.   *)
(* Each of these can use up the attempts while the row is still open.       *)
Disturbed == faults.crashes > MaxStalls \/ faults.blocks > 0 \/ faults.outages > 0

(* "a BullMQ stalled redelivery with the same queue job ID resumes an       *)
(* interrupted PROCESSING claim": a job in PROCESSING, whose document and  *)
(* case are there, has a delivery that runs or will.  The reconciler never *)
(* takes such a row.                                                       *)
InterruptedWorkResumes ==
    \A j \in JobIds :
        rows[j].status = "PROCESSING" /\ targets[j] = "present" => queue[j].state \in {"waiting", "active"}

Owns(w) == Is(w, "working") /\ rows[Job(w)].version = runs[w].version

(* Whatever locks run out and deliveries are repeated, one run at most can  *)
(* still write its outcome to the row.                                     *)
OneRunOwns ==
    \A v, w \in Consumers :
        Owns(v) /\ Owns(w) /\ Job(v) = Job(w) => v = w

(* A settled job is never opened again: a late delivery, a late outcome or *)
(* a publication repeated by the reconciler is without effect on its row.  *)
SettledIsFinal ==
    [][\A j \in JobIds : rows[j].status \in Settled =>
          rows'[j].status = rows[j].status /\ rows'[j].version = rows[j].version]_vars

(* Rows that nothing settles: every claim of theirs throws before it writes, *)
(* so they stay among the oldest the reconciler takes.  As many as it takes *)
(* at a time hide every younger row from it.                                *)
Crowded ==
    Cardinality({j \in JobIds : rows[j].status \in Reconcilable /\ targets[j] # "present"})
        >= ReconcileBatch

(* However publications are lost, and with one worker that dies, every job is *)
(* settled whose document and case stay.  A job left open by the deletion of *)
(* either is not: its row, and what it has reserved, stay as they are for    *)
(* good, and a batch of such rows keeps the reconciler from the others.      *)
EveryJobSettles ==
    \A j \in JobIds :
        rows[j].status \in Open ~>
            rows[j].status \in Settled \/ Disturbed \/ Crowded \/ targets[j] # "present"
=============================================================================
