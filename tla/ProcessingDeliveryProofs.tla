----------------------- MODULE ProcessingDeliveryProofs -----------------------
(***************************************************************************)
(* Whatever the queue does with the entries - delivers them twice, takes   *)
(* a lock from a worker that lives, forgets them, adds them again - a job  *)
(* is written by one run at most, and not once it is settled.  Nothing is  *)
(* assumed of the queue: the version of the row is what holds.             *)
(***************************************************************************)
EXTENDS ProcessingDelivery, FiniteSetTheorems, TLAPS

QueueEntry == [state : EntryStates, made : Nat, stalls : Nat,
               holder : Consumers \union {NoConsumer}]
Row == [status : Statuses, version : Nat, rank : Nat]
Steps == {"idle", "reading", "claiming", "working", "returned", "threw", "gaveUp"}
Delivery == [job : JobIds \union {NoJobId}, step : Steps, attempt : Nat, version : Nat,
             seen : Statuses]

Typed == /\ queue \in [JobIds -> QueueEntry]
         /\ rows \in [JobIds -> Row]
         /\ runs \in [Consumers -> Delivery]

(* A run has a job, and after its read what it knew of the row: of a row it
   may claim, or of one it claimed, at no version later than the row's. *)
Remembered ==
    \A w \in Consumers :
        /\ runs[w].step # "idle" => Job(w) \in JobIds
        /\ runs[w].step = "claiming" => /\ runs[w].seen \in Claimable
                                        /\ runs[w].version <= rows[Job(w)].version
        /\ runs[w].step = "working" => /\ runs[w].seen = "PROCESSING"
                                       /\ runs[w].version <= rows[Job(w)].version

(* Two claims of one job were made at two versions. *)
ClaimsDiffer ==
    \A v, w \in Consumers :
        /\ Is(v, "working") /\ Is(w, "working")
        /\ Job(v) = Job(w) /\ runs[v].version = runs[w].version
        => v = w

(* A row that was not created is at no version. *)
Uncreated == \A j \in JobIds : rows[j].status = "NONE" => rows[j].version = 0

IInv == Typed /\ Remembered /\ ClaimsDiffer /\ Uncreated

(* What a step does to the rows: nothing, or it gives one that is not settled
   its next version. *)
Kept(k) == rows'[k].status = rows[k].status /\ rows'[k].version = rows[k].version

Keeps == \A k \in JobIds : Kept(k)

Writes(j) ==
    /\ rows[j].status \notin Settled /\ rows'[j].status # "NONE"
    /\ rows'[j].version = rows[j].version + 1
    /\ \A k \in JobIds \ {j} : Kept(k)

(* What a run becomes that makes no claim. *)
GoesOn(r) ==
    /\ r \in Delivery
    /\ r.step # "working"
    /\ r.step # "idle" => r.job \in JobIds
    /\ r.step = "claiming" => r.seen \in Claimable /\ r.version <= rows[r.job].version

LEMMA Starts == Init => IInv
BY QueueAssumption DEF Init, QueueInit, Absent, Entry, IInv, Typed, QueueEntry, EntryStates, Row, Delivery,
   Steps, Statuses, Remembered, ClaimsDiffer, Uncreated, NoRun, Run, Is, Job

(* An update touches the rank of other rows and nothing else of them. *)
LEMMA Touching ==
  ASSUME NEW j \in JobIds, NEW status \in Statuses, NEW version \in Nat, Typed,
         rows' = Touched(j, status, version)
  PROVE  /\ rows' \in [JobIds -> Row]
         /\ rows'[j].status = status /\ rows'[j].version = version
         /\ \A k \in JobIds \ {j} : Kept(k)
<1> DEFINE place == Cardinality({i \in JobIds \ {j} : rows[i].rank > 0}) + 1
<1>1. place \in Nat
  <2>1. IsFiniteSet({i \in JobIds \ {j} : rows[i].rank > 0})
    BY DeliveryAssumption, FS_Subset
  <2> QED BY <2>1, FS_CardinalityType
<1>2. rows' = [k \in JobIds |->
                 IF k = j THEN [status |-> status, version |-> version, rank |-> place]
                 ELSE [rows[k] EXCEPT !.rank =
                         IF rows[j].rank > 0 /\ @ > rows[j].rank THEN @ - 1 ELSE @]]
  BY DEF Touched
<1> HIDE DEF place
<1>3. \A k \in JobIds : rows[k] \in Row
  BY DEF Typed
<1>4. \A k \in JobIds \ {j} :
         /\ rows'[k].status = rows[k].status /\ rows'[k].version = rows[k].version
         /\ rows'[k] \in Row
  <2> SUFFICES ASSUME NEW k \in JobIds \ {j}
               PROVE  /\ rows'[k].status = rows[k].status /\ rows'[k].version = rows[k].version
                      /\ rows'[k] \in Row
    OBVIOUS
  <2>1. PICK rank \in Nat : rows'[k] = [rows[k] EXCEPT !.rank = rank]
    <3>1. rows[k].rank \in Nat /\ rows[j].rank \in Nat
      BY <1>3 DEF Row
    <3>2. rows'[k] = [rows[k] EXCEPT !.rank =
                        IF rows[j].rank > 0 /\ rows[k].rank > rows[j].rank
                        THEN rows[k].rank - 1 ELSE rows[k].rank]
      BY <1>2
    <3>3. (IF rows[j].rank > 0 /\ rows[k].rank > rows[j].rank
           THEN rows[k].rank - 1 ELSE rows[k].rank) \in Nat
      BY <3>1
    <3> QED BY <3>2, <3>3
  <2> QED BY <1>3, <2>1 DEF Row
<1>5. rows'[j] = [status |-> status, version |-> version, rank |-> place] /\ rows'[j] \in Row
  BY <1>1, <1>2 DEF Row
<1>6. rows' \in [JobIds -> Row]
  BY <1>2, <1>4, <1>5
<1> QED BY <1>4, <1>5, <1>6 DEF Kept

(* The entries of the queue stay entries, whatever is done with them. *)
LEMMA QueueTyped ==
  ASSUME IInv, [Next]_vars
  PROVE  queue' \in [JobIds -> QueueEntry]
<1> USE DEF QueueEntry, EntryStates, Entry
<1>1. queue \in [JobIds -> QueueEntry]
  BY DEF IInv, Typed
<1>2. \A js : AddedAll(js) \in [JobIds -> QueueEntry]
  BY <1>1 DEF AddedAll, Added
<1>3. ASSUME NEW w \in Consumers, NEW j, Take(w, j) PROVE queue' \in [JobIds -> QueueEntry]
  BY <1>1, <1>3 DEF Take
<1>4. ASSUME NEW w \in Consumers, NEW j,
             Acknowledge(w, j) \/ Reject(w, j, TRUE) \/ Reject(w, j, FALSE)
      PROVE  queue' \in [JobIds -> QueueEntry]
  BY <1>1, <1>4 DEF Acknowledge, Reject
<1>5. ASSUME NEW j \in JobIds, Stall(j) \/ Remove(j) PROVE queue' \in [JobIds -> QueueEntry]
  BY <1>1, <1>5 DEF Stall, Remove, Absent, MaxStalls
<1>6. CASE UNCHANGED queue
  BY <1>1, <1>6
<1>7. ASSUME NEW w \in Consumers, Work(w) \/ Outage(w) \/ Crash(w)
      PROVE  queue' \in [JobIds -> QueueEntry]
  BY <1>3, <1>4, <1>6, <1>7
     DEF Work, Deliver, ReadForClaim, Claim, BlockClaim, Complete, HandleError, Finish,
         Outage, Crash
<1>8. ASSUME NEW j \in JobIds, NEW published \in BOOLEAN, Create(j, published)
      PROVE  queue' \in [JobIds -> QueueEntry]
  BY <1>2, <1>6, <1>8 DEF Create, Publish
<1> QED BY <1>2, <1>5, <1>6, <1>7, <1>8 DEF Next, vars, DetectStalled, LoseLock, Expire, Reconcile,
                                             DeleteDocument, DeleteCase

(* A step of one run that writes nothing and makes no claim. *)
LEMMA WritesNothing ==
  ASSUME IInv, rows' = rows, queue' \in [JobIds -> QueueEntry],
         NEW w \in Consumers, NEW r, GoesOn(r), runs' = [runs EXCEPT ![w] = r]
  PROVE  IInv' /\ Keeps
<1>1. runs'[w] = r /\ \A v \in Consumers \ {w} : runs'[v] = runs[v]
  BY DEF IInv, Typed
<1>2. Typed' /\ Uncreated' /\ Keeps
  BY DEF IInv, Typed, Uncreated, Keeps, Kept, GoesOn
<1>3. Remembered'
  BY <1>1 DEF IInv, Remembered, Job, GoesOn
<1>4. ClaimsDiffer'
  BY <1>1 DEF IInv, ClaimsDiffer, Is, Job, GoesOn
<1> QED BY <1>2, <1>3, <1>4 DEF IInv

(* A step that writes the row of one job: a run that takes part in it has then
   claimed the version it wrote, or is past its work. *)
LEMMA WritesRow ==
  ASSUME IInv, queue' \in [JobIds -> QueueEntry],
         NEW j \in JobIds, NEW status \in Statuses, status # "NONE",
         rows[j].status \notin Settled,
         rows' = Touched(j, status, rows[j].version + 1),
         runs' \in [Consumers -> Delivery],
         NEW W \in SUBSET Consumers, \A v, w \in W : v = w,
         \A v \in Consumers \ W : runs'[v] = runs[v],
         \A v \in W : /\ runs'[v].job = j
                      /\ runs'[v].step # "claiming"
                      /\ runs'[v].step = "working" => /\ runs'[v].version = rows[j].version + 1
                                                      /\ runs'[v].seen = "PROCESSING"
  PROVE  IInv' /\ Writes(j)
<1>1. /\ rows' \in [JobIds -> Row]
      /\ rows'[j].status = status /\ rows'[j].version = rows[j].version + 1
      /\ \A k \in JobIds \ {j} : Kept(k)
  BY Touching DEF IInv, Typed, Row
<1>2. \A k \in JobIds : rows[k].version \in Nat /\ rows'[k].version \in Nat
                           /\ rows[k].version <= rows'[k].version
  BY <1>1 DEF IInv, Typed, Row, Kept
<1>3. \A v \in Consumers : runs[v].version \in Nat /\ runs'[v].version \in Nat
  BY DEF IInv, Typed, Delivery
<1>4. Typed' /\ Uncreated' /\ Writes(j)
  BY <1>1 DEF IInv, Typed, Uncreated, Writes, Kept
<1>5. Remembered'
  <2> SUFFICES ASSUME NEW v \in Consumers
               PROVE  /\ runs'[v].step # "idle" => runs'[v].job \in JobIds
                      /\ runs'[v].step = "claiming" => runs'[v].seen \in Claimable
                      /\ runs'[v].step = "working" => runs'[v].seen = "PROCESSING"
                      /\ runs'[v].step \in {"claiming", "working"} =>
                           runs'[v].version <= rows'[runs'[v].job].version
    BY DEF Remembered, Job
  <2>1. CASE v \in W
    BY <1>1, <1>2, <2>1
  <2>2. CASE v \notin W
    BY <1>2, <1>3, <2>2 DEF IInv, Remembered, Job
  <2> QED BY <2>1, <2>2
<1>6. ClaimsDiffer'
  <2> SUFFICES ASSUME NEW u \in Consumers, NEW v \in Consumers,
                      runs'[u].step = "working", runs'[v].step = "working",
                      runs'[u].job = runs'[v].job, runs'[u].version = runs'[v].version
               PROVE  u = v
    BY DEF ClaimsDiffer, Is, Job
  <2>1. \A x \in Consumers \ W : runs[x].step = "working" /\ runs[x].job = j
                                     => runs[x].version # rows[j].version + 1
    BY <1>2, <1>3 DEF IInv, Remembered, Job
  <2> QED BY <2>1 DEF IInv, ClaimsDiffer, Is, Job
<1> QED BY <1>4, <1>5, <1>6 DEF IInv

(* A step of the queue alone. *)
LEMMA WaitsInQueue ==
  IInv /\ queue' \in [JobIds -> QueueEntry] /\ rows' = rows /\ runs' = runs => IInv' /\ Keeps
BY DEF IInv, Typed, Remembered, ClaimsDiffer, Uncreated, Is, Job, Keeps, Kept

LEMMA Creates ==
  ASSUME IInv, queue' \in [JobIds -> QueueEntry],
         NEW j \in JobIds, NEW published, Create(j, published)
  PROVE  IInv' /\ Writes(j)
<1>1. /\ rows[j].status = "NONE" /\ rows[j].version + 1 = 1
      /\ rows' = Touched(j, "QUEUED", 1) /\ runs' = runs
  BY DEF Create, IInv, Uncreated
<1>2. runs' \in [Consumers -> Delivery] /\ \A v \in Consumers \ {} : runs'[v] = runs[v]
  BY <1>1 DEF IInv, Typed
<1>3. /\ rows' = Touched(j, "QUEUED", rows[j].version + 1) /\ rows[j].status \notin Settled
      /\ "QUEUED" \in Statuses
  BY <1>1 DEF Settled, Statuses
<1>4. {} \in SUBSET Consumers
  OBVIOUS
<1> QED BY <1>2, <1>3, <1>4, WritesRow

(* A run that is current is on a row that is open. *)
LEMMA CurrentIsOpen ==
  ASSUME IInv, NEW w \in Consumers, runs[w].step \in {"claiming", "working"}, Current(w)
  PROVE  /\ Job(w) \in JobIds /\ runs[w].version = rows[Job(w)].version
         /\ rows[Job(w)].status \notin Settled
BY DEF IInv, Remembered, Current, Claimable, Settled

(* The updates of a claim, of a refusal and of an outcome are conditional on
   the row the run read or claimed; the other steps of a run write nothing. *)
LEMMA Runs ==
  ASSUME IInv, queue' \in [JobIds -> QueueEntry],
         NEW w \in Consumers, Work(w) \/ Outage(w) \/ Crash(w)
  PROVE  IInv' /\ (Keeps \/ \E j \in JobIds : Writes(j))
<1>1. /\ runs \in [Consumers -> Delivery] /\ runs[w] \in Delivery
      /\ runs[w].step # "idle" => runs[w].job \in JobIds
  BY DEF IInv, Typed, Remembered, Job
<1>2. ASSUME rows' = rows, runs' = [runs EXCEPT ![w] = NoRun] PROVE IInv' /\ Keeps
  <2>1. GoesOn(NoRun)
    BY DEF GoesOn, NoRun, Run, Delivery, Steps, Statuses
  <2> QED BY <1>2, <2>1, WritesNothing
<1>3. ASSUME NEW step \in {"threw", "returned", "gaveUp"}, runs[w].step # "idle",
             rows' = rows, runs' = [runs EXCEPT ![w].step = step]
      PROVE  IInv' /\ Keeps
  <2> DEFINE r == [runs[w] EXCEPT !.step = step]
  <2>1. runs' = [runs EXCEPT ![w] = r]
    BY <1>3
  <2>2. GoesOn(r)
    BY <1>1, <1>3 DEF GoesOn, Delivery, Steps
  <2> HIDE DEF r
  <2> QED BY <1>3, <2>1, <2>2, WritesNothing
<1>4. ASSUME NEW r \in Delivery, r.job = Job(w), r.step \notin {"idle", "claiming"},
             r.step = "working" => r.version = runs[w].version + 1 /\ r.seen = "PROCESSING",
             NEW status \in Statuses, status # "NONE",
             runs[w].step \in {"claiming", "working"}, Current(w),
             rows' = Touched(Job(w), status, runs[w].version + 1),
             runs' = [runs EXCEPT ![w] = r]
      PROVE  IInv' /\ Writes(Job(w))
  <2>1. /\ Job(w) \in JobIds /\ rows[Job(w)].status \notin Settled
        /\ runs[w].version = rows[Job(w)].version
        /\ rows' = Touched(Job(w), status, rows[Job(w)].version + 1)
    BY <1>4, CurrentIsOpen
  <2>2. /\ runs' \in [Consumers -> Delivery] /\ runs'[w] = r
        /\ \A v \in Consumers \ {w} : runs'[v] = runs[v]
    BY <1>1, <1>4
  <2> DEFINE W == {w}
  <2>3. /\ W \in SUBSET Consumers /\ \A u, v \in W : u = v
        /\ \A v \in Consumers \ W : runs'[v] = runs[v]
        /\ \A v \in W : /\ runs'[v].job = Job(w)
                        /\ runs'[v].step # "claiming"
                        /\ runs'[v].step = "working" =>
                             /\ runs'[v].version = rows[Job(w)].version + 1
                             /\ runs'[v].seen = "PROCESSING"
    BY <1>4, <2>1, <2>2
  <2> HIDE DEF W
  <2> QED BY <1>4, <2>1, <2>2, <2>3, WritesRow
<1>5. ASSUME NEW step \in {"threw", "returned", "gaveUp"}, NEW status \in Statuses,
             status # "NONE", runs[w].step \in {"claiming", "working"}, Current(w),
             rows' = Touched(Job(w), status, runs[w].version + 1),
             runs' = [runs EXCEPT ![w].step = step]
      PROVE  IInv' /\ \E j \in JobIds : Writes(j)
  <2> DEFINE r == [runs[w] EXCEPT !.step = step]
  <2>1. runs' = [runs EXCEPT ![w] = r] /\ r \in Delivery /\ r.job = Job(w) /\ r.step = step
    BY <1>1, <1>5 DEF Delivery, Steps, Job
  <2> HIDE DEF r
  <2>2. r.step \notin {"idle", "claiming", "working"}
    BY <2>1
  <2>3. Job(w) \in JobIds
    BY <1>5, CurrentIsOpen
  <2> QED BY <1>4, <1>5, <2>1, <2>2, <2>3
<1>6. CASE \E j \in JobIds : Deliver(w, j)
  <2> PICK j \in JobIds : Deliver(w, j)
    BY <1>6
  <2> DEFINE r == Run(j, "reading", queue[j].made + 1, 0, "NONE")
  <2>1. rows' = rows /\ runs' = [runs EXCEPT ![w] = r]
    BY DEF Deliver, Becomes
  <2>2. GoesOn(r)
    BY DEF GoesOn, Run, Delivery, Steps, Statuses, IInv, Typed, QueueEntry
  <2> HIDE DEF r
  <2> QED BY <2>1, <2>2, WritesNothing
<1>7. CASE ReadForClaim(w)
  <2> DEFINE row == rows[Job(w)]
             r == Run(Job(w), "claiming", runs[w].attempt, row.version, row.status)
  <2>1. CASE row.status \notin Claimable
    BY <1>2, <1>7, <2>1 DEF ReadForClaim, Becomes
  <2>2. CASE runs' = [runs EXCEPT ![w].step = "threw"]
    BY <1>3, <1>7, <2>2 DEF ReadForClaim, Is
  <2>3. CASE row.status \in Claimable /\ Becomes(w, r)
    <3>1. rows' = rows /\ runs' = [runs EXCEPT ![w] = r] /\ Job(w) \in JobIds
      BY <1>1, <1>7, <2>3 DEF ReadForClaim, Becomes, Is, Job
    <3>2. row \in Row
      BY <3>1 DEF IInv, Typed
    <3>3. GoesOn(r)
      BY <1>1, <2>3, <3>1, <3>2 DEF GoesOn, Run, Delivery, Steps, Row
    <3> HIDE DEF r
    <3> QED BY <3>1, <3>3, WritesNothing
  <2> QED BY <1>7, <2>1, <2>2, <2>3 DEF ReadForClaim, Goes
<1>8. CASE Claim(w)
  <2> DEFINE allowed == Current(w) /\ (runs[w].seen = "PROCESSING" \/ CaseLocks(w))
  <2>1. CASE ~allowed
    BY <1>3, <1>8, <2>1 DEF Claim, Goes, Is
  <2>2. CASE allowed
    <3> DEFINE r == Run(Job(w), "working", runs[w].attempt, runs[w].version + 1, "PROCESSING")
    <3>1. /\ runs' = [runs EXCEPT ![w] = r] /\ runs[w].step = "claiming"
          /\ rows' = Touched(Job(w), "PROCESSING", runs[w].version + 1)
      BY <1>8, <2>2 DEF Claim, Becomes, Is
    <3>2. /\ r \in Delivery /\ r.job = Job(w) /\ r.step = "working"
          /\ r.version = runs[w].version + 1 /\ r.seen = "PROCESSING"
      BY <1>1 DEF Run, Delivery, Steps, Statuses, Job
    <3>3. "PROCESSING" \in Statuses /\ Job(w) \in JobIds
      BY <2>2, <3>1, CurrentIsOpen DEF Statuses
    <3> HIDE DEF r
    <3> QED BY <1>4, <2>2, <3>1, <3>2, <3>3
  <2> QED BY <2>1, <2>2
<1>9. CASE BlockClaim(w) \/ Complete(w)
  BY <1>5, <1>9 DEF BlockClaim, Complete, Goes, Is, Statuses
<1>10. CASE \E permanent \in BOOLEAN : HandleError(w, permanent)
  <2> PICK permanent \in BOOLEAN : HandleError(w, permanent)
    BY <1>10
  <2> DEFINE final == permanent \/ runs[w].attempt >= MaxAttempts
             written == Current(w) /\ (final => CaseLocks(w))
  <2>1. CASE ~written
    BY <1>3, <2>1 DEF HandleError, Goes, Is
  <2>2. CASE written
    <3> DEFINE status == IF final THEN "FAILED" ELSE "RETRYING"
               step == IF permanent THEN "gaveUp" ELSE "threw"
    <3>1. /\ runs[w].step = "working"
          /\ rows' = Touched(Job(w), status, runs[w].version + 1)
          /\ runs' = [runs EXCEPT ![w].step = step]
      BY <2>2 DEF HandleError, Goes, Is
    <3>2. /\ status \in Statuses /\ status # "NONE"
          /\ step \in {"threw", "returned", "gaveUp"}
      BY DEF Statuses
    <3> HIDE DEF final, status, step
    <3> QED BY <1>5, <2>2, <3>1, <3>2
  <2> QED BY <2>1, <2>2
<1>11. CASE Finish(w) \/ Crash(w)
  BY <1>2, <1>11 DEF Finish, Crash, Becomes
<1>12. CASE Outage(w)
  BY <1>3, <1>12 DEF Outage, Goes
<1> QED BY <1>6, <1>7, <1>8, <1>9, <1>10, <1>11, <1>12 DEF Work

(* Every step keeps the invariant, and writes one open row or none. *)
LEMMA Moves ==
  ASSUME IInv, [Next]_vars
  PROVE  IInv' /\ (Keeps \/ \E j \in JobIds : Writes(j))
<1>1. queue' \in [JobIds -> QueueEntry]
  BY QueueTyped
<1>2. CASE rows' = rows /\ runs' = runs
  BY <1>1, <1>2, WaitsInQueue
<1>3. CASE \E j \in JobIds, published \in BOOLEAN : Create(j, published)
  BY <1>1, <1>3, Creates
<1>4. CASE \E w \in Consumers : Work(w) \/ Outage(w) \/ Crash(w)
  BY <1>1, <1>4, Runs
<1> QED BY <1>2, <1>3, <1>4 DEF Next, vars, DetectStalled, LoseLock, Expire, Reconcile,
                                             DeleteDocument, DeleteCase

(* Whatever locks run out and deliveries are repeated, one run at most can
   still write its outcome to the row, for any number of jobs and consumers. *)
THEOREM OneRunWrites == Spec => []OneRunOwns
<1>1. IInv => OneRunOwns
  BY DEF IInv, ClaimsDiffer, OneRunOwns, Owns
<1>2. IInv /\ [Next]_vars => IInv'
  BY Moves
<1> QED BY <1>1, <1>2, Starts, PTL DEF Spec

(* No late delivery, late outcome or repeated publication opens a settled job. *)
THEOREM SettledJobsAreFinal == Spec => SettledIsFinal
<1>1. IInv /\ [Next]_vars => [\A j \in JobIds : rows[j].status \in Settled =>
          rows'[j].status = rows[j].status /\ rows'[j].version = rows[j].version]_vars
  BY Moves DEF Keeps, Writes, Kept
<1>2. IInv /\ [Next]_vars => IInv'
  BY Moves
<1> QED BY <1>1, <1>2, Starts, PTL DEF Spec, SettledIsFinal
=============================================================================
