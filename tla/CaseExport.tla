----------------------------- MODULE CaseExport -----------------------------
(***************************************************************************)
(* The export of a case as a PDF.  CaseExportsService.request looks for an *)
(* export that is under way, creates the row and publishes it, in three    *)
(* steps; CaseExportProcessor claims the row, writes the object and        *)
(* completes the row.  Unlike the pipeline, an interrupted export is not   *)
(* taken up again, and nothing republishes one: the person asks for        *)
(* another once the row is stale.                                          *)
(***************************************************************************)
EXTENDS DeliveryQueue

CONSTANTS
    Requesters,     \* people asking for the export of one case at the same time
    MaxCrashes,     \* bound: workers that die
    MaxBlocks       \* bound: locks that run out under a worker that lives

VARIABLES
    exports,    \* the CASE_EXPORT rows of the case: status, version, fresh (updatedAt)
    asks,       \* each requester's step and the row it created
    runs,       \* each consumer: the delivery it runs, its step and what it read
    objects,    \* the exports whose PDF is in the object storage
    faults

vars == <<queue, exports, asks, runs, objects, faults>>

Statuses == {"NONE", "QUEUED", "PROCESSING", "RETRYING", "COMPLETED", "FAILED"}
UnderWay == {"QUEUED", "PROCESSING", "RETRYING"}

Export(status, version) == [status |-> status, version |-> version, fresh |-> TRUE]
NoExport == [status |-> "NONE", version |-> 0, fresh |-> FALSE]
Run(job, step, attempt, version, seen) ==
    [job |-> job, step |-> step, attempt |-> attempt, version |-> version, seen |-> seen]
NoRun == Run(NoJobId, "idle", 0, 0, "NONE")

Init ==
    /\ QueueInit
    /\ exports = [j \in JobIds |-> NoExport]
    /\ asks = [a \in Requesters |-> [step |-> "idle", job |-> NoJobId]]
    /\ runs = [w \in Consumers |-> NoRun]
    /\ objects = {}
    /\ faults = [crashes |-> 0, blocks |-> 0]

Writes(j, status) == exports' = [exports EXCEPT ![j] = Export(status, @.version + 1)]
Asks(a, step, job) == asks' = [asks EXCEPT ![a] = [step |-> step, job |-> job]]
Becomes(w, run) == runs' = [runs EXCEPT ![w] = run]
Goes(w, step) == runs' = [runs EXCEPT ![w].step = step]
Is(w, step) == runs[w].step = step
Job(w) == runs[w].job
Fault(kind, bound) == faults[kind] < bound /\ faults' = [faults EXCEPT ![kind] = @ + 1]

(* staleAfterSeconds go by without an update of the row. *)
Age(j) ==
    /\ exports[j].fresh /\ exports[j].status \in UnderWay
    /\ exports' = [exports EXCEPT ![j].fresh = FALSE]
    /\ UNCHANGED <<queue, asks, runs, objects, faults>>

Pending == {j \in JobIds : exports[j].status \in UnderWay /\ exports[j].fresh}

(* request: with an export under way, the answer is that export. *)
Request(a) ==
    /\ asks[a].step = "idle"
    /\ Pending = {}
    /\ Asks(a, "creating", NoJobId)
    /\ UNCHANGED <<queue, exports, runs, objects, faults>>

Create(a, j) ==
    /\ asks[a].step = "creating"
    /\ exports[j] = NoExport
    /\ exports' = [exports EXCEPT ![j] = Export("QUEUED", 1)]
    /\ Asks(a, "publishing", j)
    /\ UNCHANGED <<queue, runs, objects, faults>>

(* The audit and the publication follow; either may fail. *)
PublishRequest(a, published) ==
    /\ asks[a].step = "publishing"
    /\ IF published THEN Publish(asks[a].job) ELSE UNCHANGED queue
    /\ Asks(a, "idle", NoJobId)
    /\ UNCHANGED <<exports, runs, objects, faults>>

Deliver(w, j) ==
    /\ Is(w, "idle")
    /\ Take(w, j)
    /\ Becomes(w, Run(j, "reading", queue[j].made + 1, 0, "NONE"))
    /\ UNCHANGED <<exports, asks, objects, faults>>

\* Variant: an interrupted export is taken up, as the pipeline does.
ClaimableInterrupted == UnderWay
Claimable == {"QUEUED", "RETRYING"}

Skips(w) == Becomes(w, NoRun) /\ Acknowledge(w, Job(w))

ReadForClaim(w) ==
    /\ Is(w, "reading")
    /\ LET row == exports[Job(w)]
       IN  IF row.status \in Claimable
           THEN /\ Becomes(w, [runs[w] EXCEPT !.step = "claiming", !.version = row.version,
                                              !.seen = row.status])
                /\ UNCHANGED queue
           ELSE Skips(w)
    /\ UNCHANGED <<exports, asks, objects, faults>>

Claim(w) ==
    /\ Is(w, "claiming")
    /\ IF exports[Job(w)].status = runs[w].seen /\ exports[Job(w)].version = runs[w].version
       THEN Writes(Job(w), "PROCESSING") /\ Goes(w, "generating") /\ UNCHANGED queue
       ELSE Skips(w) /\ UNCHANGED exports
    /\ UNCHANGED <<asks, objects, faults>>

(* The PDF is rendered and written under the key of the job. *)
Store(w) ==
    /\ Is(w, "generating")
    /\ objects' = objects \union {Job(w)}
    /\ Goes(w, "stored")
    /\ UNCHANGED <<queue, exports, asks, faults>>

(* complete: only the status is compared.  When the row is not PROCESSING  *)
(* it throws, which Fail covers.                                           *)
Complete(w) ==
    /\ Is(w, "stored")
    /\ exports[Job(w)].status = "PROCESSING"
    /\ Writes(Job(w), "COMPLETED")
    /\ Goes(w, "returned")
    /\ UNCHANGED <<queue, asks, objects, faults>>

(* The catch of process: the case is gone for good, or rendering, storage   *)
(* or the database failed.                                                 *)
Fail(w, unrecoverable) ==
    /\ \/ Is(w, "generating")
       \/ Is(w, "stored") /\ ~unrecoverable
    /\ LET permanent == unrecoverable \/ runs[w].attempt >= MaxAttempts
       IN  IF exports[Job(w)].status = "PROCESSING"
           THEN Writes(Job(w), IF permanent THEN "FAILED" ELSE "RETRYING")
           ELSE UNCHANGED exports
    /\ Goes(w, IF unrecoverable THEN "gaveUp" ELSE "threw")
    /\ UNCHANGED <<queue, asks, objects, faults>>

Finish(w) ==
    /\ \/ Is(w, "returned") /\ Acknowledge(w, Job(w))
       \/ Is(w, "threw") /\ Reject(w, Job(w), FALSE)
       \/ Is(w, "gaveUp") /\ Reject(w, Job(w), TRUE)
    /\ Becomes(w, NoRun)
    /\ UNCHANGED <<exports, asks, objects, faults>>

Crash(w) ==
    /\ ~Is(w, "idle")
    /\ Fault("crashes", MaxCrashes)
    /\ Becomes(w, NoRun)
    /\ UNCHANGED <<queue, exports, asks, objects>>

Orphaned(j) == queue[j].state = "active" /\ Job(queue[j].holder) # j

DetectStalled(j) == Orphaned(j) /\ Stall(j) /\ UNCHANGED <<exports, asks, runs, objects, faults>>

LoseLock(j) ==
    /\ Stall(j)
    /\ ~Orphaned(j)
    /\ Fault("blocks", MaxBlocks)
    /\ UNCHANGED <<exports, asks, runs, objects>>

Next ==
    \/ \E a \in Requesters :
        \/ Request(a)
        \/ \E j \in JobIds : Create(a, j)
        \/ \E published \in BOOLEAN : PublishRequest(a, published)
    \/ \E w \in Consumers :
        \/ \E j \in JobIds : Deliver(w, j)
        \/ ReadForClaim(w) \/ Claim(w) \/ Store(w) \/ Complete(w) \/ Finish(w) \/ Crash(w)
        \/ \E unrecoverable \in BOOLEAN : Fail(w, unrecoverable)
    \/ \E j \in JobIds : Age(j) \/ DetectStalled(j) \/ LoseLock(j)

Spec == Init /\ [][Next]_vars
-----------------------------------------------------------------------------
(* What each variable holds. *)
TypeOK ==
    /\ QueueTypeOK
    /\ exports \in [JobIds -> [status : Statuses, version : Nat, fresh : BOOLEAN]]
    /\ objects \subseteq JobIds

(* The comment on claim: two deliveries of one job compete for the row and *)
(* only one wins, so no two workers ever generate the same PDF.            *)
SoleGenerator ==
    \A v, w \in Consumers :
        runs[v].step \in {"generating", "stored"} /\ runs[w].step \in {"generating", "stored"}
        /\ Job(v) = Job(w)
            => v = w

(* A download link is made for every COMPLETED export, from a key computed *)
(* and not stored: the object is there whichever worker died on the way.   *)
CompletedIsStored == \A j \in JobIds : exports[j].status = "COMPLETED" => j \in objects

(* One generation of an export, and its object behind what says so.        *)
OneGeneration == SoleGenerator /\ CompletedIsStored
=============================================================================
