---------------------------- MODULE OfficeProofs ----------------------------
(***************************************************************************)
(* What is proved of the parts of Office. A step of Office is a step of    *)
(* one part, or leaves that part's variables alone, so each property is    *)
(* proved as an invariant of its part, under the prefix of its instance.   *)
(***************************************************************************)
EXTENDS Office, Sequences, FiniteSetTheorems, TLAPS

-----------------------------------------------------------------------------
(* CaseExport *)

(* The invariant of CaseExport: its types, and what each delivery knows of the
   row it works on. *)
E_Steps == {"idle", "reading", "claiming", "generating", "stored", "returned", "threw", "gaveUp"}
RunsTyped ==
    runs \in [Consumers -> [job : JobIds \union {NoJobId}, step : E_Steps, attempt : Nat,
                            version : Nat, seen : E!Statuses]]
(* An entry that is waiting or active has attempts left. *)
AttemptsLeft ==
    \A j \in JobIds : queue[j].state \in {"waiting", "active"} => queue[j].made < MaxAttempts
(* A delivery has a job; a claim was read from a claimable row. *)
DeliveriesHaveJobs == \A w \in Consumers : runs[w].step # "idle" => runs[w].job \in JobIds
ClaimsAreClaimable ==
    \A w \in Consumers : runs[w].step = "claiming" => runs[w].seen \in E!Claimable
Writing(w) == runs[w].step \in {"generating", "stored"}
(* The row of who writes is PROCESSING, which nobody claims. *)
WritersOwnTheRow ==
    \A w \in Consumers : Writing(w) => exports[runs[w].job].status = "PROCESSING"
StoredIsThere == \A w \in Consumers : runs[w].step = "stored" => runs[w].job \in objects

ExportInv ==
    /\ E!TypeOK /\ RunsTyped /\ AttemptsLeft /\ DeliveriesHaveJobs /\ ClaimsAreClaimable
    /\ WritersOwnTheRow /\ StoredIsThere
    /\ E!OneGeneration

(* The queue alone: whatever is done to an entry leaves it of its type, with
   attempts left as long as it can be delivered. *)
Entries == E!QueueTypeOK /\ AttemptsLeft

LEMMA OneEntry ==
    ASSUME Entries, NEW j \in JobIds,
           NEW e \in [state : E!EntryStates, made : 0 .. MaxAttempts, stalls : 0 .. E!MaxStalls,
                      holder : Consumers \union {NoConsumer}],
           queue' = [queue EXCEPT ![j] = e],
           e.state \in {"waiting", "active"} => e.made < MaxAttempts
    PROVE  Entries'
BY DEF Entries, E!QueueTypeOK, AttemptsLeft

LEMMA EntriesBegin == E!QueueInit => Entries
BY ExportAssumed DEF E!QueueAssumption, E!QueueInit, E!Absent, E!Entry, E!EntryStates, E!MaxStalls,
   Entries, E!QueueTypeOK, AttemptsLeft

LEMMA PublishKeeps == ASSUME Entries, NEW j, E!Publish(j) PROVE Entries'
BY ExportAssumed DEF E!QueueAssumption, E!Publish, E!AddedAll, E!Added, E!Entry, E!EntryStates,
   E!MaxStalls, Entries, E!QueueTypeOK, AttemptsLeft

LEMMA TakeKeeps ==
    ASSUME Entries, NEW w \in Consumers, NEW j \in JobIds, E!Take(w, j) PROVE Entries'
<1> DEFINE e == [queue[j] EXCEPT !.state = "active", !.holder = w]
<1>1. queue' = [queue EXCEPT ![j] = e]
  BY DEF E!Take, Entries, E!QueueTypeOK
<1>2. /\ e \in [state : E!EntryStates, made : 0 .. MaxAttempts, stalls : 0 .. E!MaxStalls,
                holder : Consumers \union {NoConsumer}]
      /\ e.made = queue[j].made
  BY DEF Entries, E!QueueTypeOK, E!EntryStates
<1>3. queue[j].made < MaxAttempts
  BY DEF E!Take, Entries, AttemptsLeft
<1> HIDE DEF e
<1> QED
  BY <1>1, <1>2, <1>3, OneEntry

LEMMA AcknowledgeKeeps ==
    ASSUME Entries, NEW w \in Consumers, NEW j \in JobIds, E!Acknowledge(w, j) PROVE Entries'
<1> DEFINE e == E!Entry("completed", queue[j].made, queue[j].stalls, NoConsumer)
<1>1. CASE E!Holds(w, j)
  <2>1. queue' = [queue EXCEPT ![j] = e]
    BY <1>1 DEF E!Acknowledge, Entries, E!QueueTypeOK
  <2>2. /\ e \in [state : E!EntryStates, made : 0 .. MaxAttempts, stalls : 0 .. E!MaxStalls,
                  holder : Consumers \union {NoConsumer}]
        /\ e.state = "completed"
    BY DEF Entries, E!QueueTypeOK, E!EntryStates, E!Entry
  <2> HIDE DEF e
  <2> QED
    BY <2>1, <2>2, OneEntry
<1>2. CASE ~E!Holds(w, j)
  BY <1>2 DEF E!Acknowledge, Entries, E!QueueTypeOK, AttemptsLeft
<1> QED
  BY <1>1, <1>2

LEMMA RejectKeeps ==
    ASSUME Entries, NEW w \in Consumers, NEW j \in JobIds, NEW unrecoverable \in BOOLEAN,
           E!Reject(w, j, unrecoverable)
    PROVE  Entries'
<1> DEFINE next == IF unrecoverable \/ queue[j].made + 1 >= MaxAttempts THEN "failed" ELSE "waiting"
           e == E!Entry(next, queue[j].made + 1, queue[j].stalls, NoConsumer)
<1>1. CASE E!Holds(w, j)
  <2>1. queue' = [queue EXCEPT ![j] = e]
    BY <1>1 DEF E!Reject, Entries, E!QueueTypeOK
  <2>2. queue[j].made \in 0 .. MaxAttempts /\ queue[j].made < MaxAttempts
    BY <1>1 DEF E!Holds, Entries, E!QueueTypeOK, AttemptsLeft
  <2>3. queue[j].made + 1 \in 0 .. MaxAttempts
    BY <2>2, ExportAssumed DEF E!QueueAssumption
  <2>4. next = "waiting" => queue[j].made + 1 < MaxAttempts
    BY <2>2, ExportAssumed DEF E!QueueAssumption
  <2>5. next \in {"failed", "waiting"}
    OBVIOUS
  <2> HIDE DEF next
  <2>6. /\ e \in [state : E!EntryStates, made : 0 .. MaxAttempts, stalls : 0 .. E!MaxStalls,
                  holder : Consumers \union {NoConsumer}]
        /\ e.state \in {"waiting", "active"} => e.made < MaxAttempts
    BY <2>3, <2>4, <2>5 DEF Entries, E!QueueTypeOK, E!EntryStates, E!Entry
  <2> HIDE DEF e
  <2> QED
    BY <2>1, <2>6, OneEntry
<1>2. CASE ~E!Holds(w, j)
  BY <1>2 DEF E!Reject, Entries, E!QueueTypeOK, AttemptsLeft
<1> QED
  BY <1>1, <1>2

LEMMA StallKeeps == ASSUME Entries, NEW j \in JobIds, E!Stall(j) PROVE Entries'
<1> DEFINE e == IF queue[j].stalls < E!MaxStalls
                THEN E!Entry("waiting", queue[j].made, queue[j].stalls + 1, NoConsumer)
                ELSE E!Entry("failed", queue[j].made, queue[j].stalls, NoConsumer)
<1>1. queue' = [queue EXCEPT ![j] = e]
  BY DEF E!Stall, Entries, E!QueueTypeOK
<1>2. /\ queue[j].made \in 0 .. MaxAttempts /\ queue[j].made < MaxAttempts
      /\ queue[j].stalls \in 0 .. E!MaxStalls
  BY DEF E!Stall, Entries, E!QueueTypeOK, AttemptsLeft
<1>3. queue[j].stalls < E!MaxStalls => queue[j].stalls + 1 \in 0 .. E!MaxStalls
  BY <1>2 DEF E!MaxStalls
<1>4. /\ e \in [state : E!EntryStates, made : 0 .. MaxAttempts, stalls : 0 .. E!MaxStalls,
                holder : Consumers \union {NoConsumer}]
      /\ e.made = queue[j].made
  BY <1>2, <1>3 DEF E!EntryStates, E!Entry
<1> HIDE DEF e
<1> QED
  BY <1>1, <1>2, <1>4, OneEntry

RunRecord == [job : JobIds \union {NoJobId}, step : E_Steps, attempt : Nat,
              version : Nat, seen : E!Statuses]

RowBecomes(j, row) == exports' = [exports EXCEPT ![j] = row]

(* Nobody but w writes the row of j. *)
NoOtherWriter(w, j) == \A v \in Consumers : Writing(v) /\ runs[v].job = j => v = w

(* A step of one delivery, which may write the row of its job: nobody else is
   writing that row, and what says COMPLETED has its object. *)
LEMMA RunMoves ==
    ASSUME ExportInv, NEW w \in Consumers, NEW r \in RunRecord, runs' = [runs EXCEPT ![w] = r],
           Entries', objects' \subseteq JobIds, objects \subseteq objects',
           NEW j \in JobIds, NEW row \in [status : E!Statuses, version : Nat, fresh : BOOLEAN],
           RowBecomes(j, row),
           r.step # "idle" => r.job = j,
           r.step = "claiming" => r.seen \in E!Claimable,
           r.step \in {"generating", "stored"} =>
               row.status = "PROCESSING" /\ NoOtherWriter(w, j),
           row.status = exports[j].status \/ NoOtherWriter(w, j),
           r.step = "stored" => j \in objects',
           row.status = "COMPLETED" => j \in objects'
    PROVE  ExportInv'
<1>1. /\ runs' \in [Consumers -> RunRecord]
      /\ runs'[w] = r
      /\ \A v \in Consumers \ {w} : runs'[v] = runs[v]
  BY DEF ExportInv, RunsTyped, RunRecord
<1>2. /\ exports' \in [JobIds -> [status : E!Statuses, version : Nat, fresh : BOOLEAN]]
      /\ exports'[j] = row
      /\ \A k \in JobIds \ {j} : exports'[k] = exports[k]
  BY DEF RowBecomes, ExportInv, E!TypeOK
<1>3. E!TypeOK' /\ RunsTyped' /\ AttemptsLeft'
  BY <1>1, <1>2 DEF E!TypeOK, RunsTyped, RunRecord, Entries
<1>4. (DeliveriesHaveJobs /\ ClaimsAreClaimable /\ StoredIsThere)'
  BY <1>1 DEF ExportInv, DeliveriesHaveJobs, ClaimsAreClaimable, StoredIsThere
<1>5. \A v \in Consumers : Writing(v) => runs[v].job \in JobIds
  BY DEF ExportInv, DeliveriesHaveJobs, Writing
<1>6. WritersOwnTheRow'
  <2> SUFFICES ASSUME NEW v \in Consumers, Writing(v)'
               PROVE  (exports[runs[v].job].status = "PROCESSING")'
    BY DEF WritersOwnTheRow
  <2> USE DEF NoOtherWriter
  <2>1. CASE v = w
    BY <1>1, <1>2, <2>1 DEF Writing
  <2>2. CASE v # w
    <3>1. Writing(v) /\ runs'[v].job = runs[v].job /\ runs[v].job \in JobIds
      BY <1>1, <1>5, <2>2 DEF Writing
    <3>2. exports[runs[v].job].status = "PROCESSING"
      BY <3>1 DEF ExportInv, WritersOwnTheRow
    <3> QED
      BY <1>2, <2>2, <3>1, <3>2
  <2> QED
    BY <2>1, <2>2
<1>7. E!SoleGenerator'
  <2> SUFFICES ASSUME NEW u \in Consumers, NEW v \in Consumers, Writing(u)', Writing(v)',
                      (runs[u].job = runs[v].job)'
               PROVE  u = v
    BY DEF E!SoleGenerator, E!Job, Writing
  <2> USE DEF NoOtherWriter
  <2>1. CASE u = w
    BY <1>1, <2>1 DEF Writing
  <2>2. CASE v = w
    BY <1>1, <2>2 DEF Writing
  <2>3. CASE u # w /\ v # w
    BY <1>1, <2>3 DEF Writing, ExportInv, E!OneGeneration, E!SoleGenerator, E!Job
  <2> QED
    BY <2>1, <2>2, <2>3
<1>8. E!CompletedIsStored'
  BY <1>2 DEF ExportInv, E!OneGeneration, E!CompletedIsStored
<1> QED
  BY <1>3, <1>4, <1>6, <1>7, <1>8 DEF ExportInv, E!OneGeneration

(* A step that touches no delivery and no row's status. *)
LEMMA RunsStand ==
    ASSUME ExportInv, Entries', UNCHANGED <<runs, objects>>,
           exports' \in [JobIds -> [status : E!Statuses, version : Nat, fresh : BOOLEAN]],
           \A j \in JobIds :
               \/ exports'[j].status = exports[j].status
               \/ exports[j].status # "PROCESSING" /\ exports'[j].status # "COMPLETED"
    PROVE  ExportInv'
<1>1. \A v \in Consumers : Writing(v) => runs[v].job \in JobIds
  BY DEF ExportInv, DeliveriesHaveJobs, Writing
<1>2. WritersOwnTheRow'
  BY <1>1 DEF ExportInv, WritersOwnTheRow, Writing
<1>3. E!OneGeneration'
  BY DEF ExportInv, E!OneGeneration, E!SoleGenerator, E!CompletedIsStored, E!Job
<1> QED
  BY <1>2, <1>3 DEF ExportInv, E!TypeOK, Entries, RunsTyped, DeliveriesHaveJobs,
     ClaimsAreClaimable, StoredIsThere

(* A step of one delivery that leaves every row alone. *)
LEMMA RunGoes ==
    ASSUME ExportInv, NEW w \in Consumers, runs[w].step # "idle", NEW r \in RunRecord,
           runs' = [runs EXCEPT ![w] = r], Entries', exports' = exports,
           objects' \subseteq JobIds, objects \subseteq objects',
           r.step # "idle" => r.job = runs[w].job,
           r.step = "claiming" => r.seen \in E!Claimable,
           r.step \in {"generating", "stored"} => Writing(w),
           r.step = "stored" => runs[w].job \in objects'
    PROVE  ExportInv'
<1> DEFINE j == runs[w].job
           row == exports[j]
<1>1. j \in JobIds
  BY DEF ExportInv, DeliveriesHaveJobs
<1>2. row \in [status : E!Statuses, version : Nat, fresh : BOOLEAN]
  BY <1>1 DEF ExportInv, E!TypeOK
<1>3. RowBecomes(j, row)
  BY <1>1 DEF RowBecomes, ExportInv, E!TypeOK
<1>4. r.step \in {"generating", "stored"} =>
          row.status = "PROCESSING" /\ NoOtherWriter(w, j)
  BY DEF NoOtherWriter, ExportInv, WritersOwnTheRow, E!OneGeneration, E!SoleGenerator, E!Job, Writing
<1>5. row.status = "COMPLETED" => j \in objects'
  BY <1>1 DEF ExportInv, E!OneGeneration, E!CompletedIsStored
<1>6. r.step # "idle" => r.job = j
  OBVIOUS
<1>7. r.step = "stored" => j \in objects'
  OBVIOUS
<1>8. row.status = exports[j].status
  OBVIOUS
<1> HIDE DEF j, row
<1> QED
  BY <1>1, <1>2, <1>3, <1>4, <1>5, <1>6, <1>7, <1>8, RunMoves

LEMMA NoRunTyped == E!NoRun \in RunRecord /\ E!NoRun.step = "idle"
BY DEF E!NoRun, E!Run, RunRecord, E_Steps, E!Statuses

LEMMA InvEntries == ExportInv => Entries
BY DEF ExportInv, Entries, E!TypeOK

LEMMA RunIsTyped ==
    ASSUME ExportInv, NEW w \in Consumers, runs[w].step # "idle"
    PROVE  runs[w] \in RunRecord /\ runs[w].job \in JobIds
BY DEF ExportInv, RunsTyped, RunRecord, DeliveriesHaveJobs

LEMMA ExportBegins == E!Init => ExportInv
<1> SUFFICES ASSUME E!Init PROVE ExportInv
  OBVIOUS
<1>1. Entries
  BY EntriesBegin DEF E!Init
<1>2. runs \in [Consumers -> RunRecord] /\ \A w \in Consumers : runs[w].step = "idle"
  BY NoRunTyped DEF E!Init
<1>3. E!TypeOK /\ RunsTyped /\ AttemptsLeft
  BY <1>1, <1>2 DEF Entries, E!TypeOK, RunsTyped, RunRecord, E!Init, E!NoExport, E!Statuses
<1>4. \A j \in JobIds : exports[j].status = "NONE"
  BY DEF E!Init, E!NoExport
<1> QED
  BY <1>2, <1>3, <1>4 DEF ExportInv, DeliveriesHaveJobs, ClaimsAreClaimable, WritersOwnTheRow,
     StoredIsThere, Writing, E!OneGeneration, E!SoleGenerator, E!CompletedIsStored

LEMMA DeliverKeepsExport ==
    ASSUME ExportInv, NEW w \in Consumers, NEW j \in JobIds, E!Deliver(w, j) PROVE ExportInv'
<1> DEFINE r == E!Run(j, "reading", queue[j].made + 1, 0, "NONE")
           row == exports[j]
<1>1. Entries'
  BY InvEntries, TakeKeeps DEF E!Deliver
<1>2. queue[j].made \in Nat
  BY ExportAssumed DEF ExportInv, E!TypeOK, E!QueueTypeOK, E!QueueAssumption
<1>3. r \in RunRecord /\ r.step = "reading" /\ r.job = j
  BY <1>2 DEF E!Run, RunRecord, E_Steps, E!Statuses
<1>4. runs' = [runs EXCEPT ![w] = r]
  BY DEF E!Deliver, E!Becomes
<1>5. row \in [status : E!Statuses, version : Nat, fresh : BOOLEAN]
      /\ RowBecomes(j, row) /\ row.status = exports[j].status
  BY DEF RowBecomes, ExportInv, E!TypeOK, E!Deliver
<1>6. row.status = "COMPLETED" => j \in objects
  BY DEF ExportInv, E!OneGeneration, E!CompletedIsStored
<1>7. objects' = objects /\ objects \subseteq JobIds
  BY DEF E!Deliver, ExportInv, E!TypeOK
<1> HIDE DEF r, row
<1> QED
  BY <1>1, <1>3, <1>4, <1>5, <1>6, <1>7, RunMoves

LEMMA SkipsKeeps ==
    ASSUME ExportInv, NEW w \in Consumers, runs[w].step # "idle", E!Skips(w),
           UNCHANGED <<exports, objects>>
    PROVE  ExportInv'
<1>1. Entries'
  BY InvEntries, RunIsTyped, AcknowledgeKeeps DEF E!Skips, E!Job
<1> QED
  BY <1>1, NoRunTyped, RunGoes DEF E!Skips, E!Becomes, ExportInv, E!TypeOK

LEMMA ReadKeepsExport ==
    ASSUME ExportInv, NEW w \in Consumers, E!ReadForClaim(w) PROVE ExportInv'
<1> DEFINE row == exports[runs[w].job]
           r == [runs[w] EXCEPT !.step = "claiming", !.version = row.version, !.seen = row.status]
<1>1. runs[w].step = "reading"
  BY DEF E!ReadForClaim, E!Is
<1>2. UNCHANGED <<exports, objects>>
  BY DEF E!ReadForClaim
<1>3. CASE row.status \in E!Claimable
  <2>1. runs' = [runs EXCEPT ![w] = r] /\ queue' = queue
    BY <1>3 DEF E!ReadForClaim, E!Becomes, E!Job
  <2>2. runs[w] \in RunRecord /\ runs[w].job \in JobIds
    BY <1>1, RunIsTyped
  <2>3. row.version \in Nat /\ row.status \in E!Statuses
    BY <2>2 DEF ExportInv, E!TypeOK
  <2>4. /\ r \in RunRecord /\ r.step = "claiming" /\ r.job = runs[w].job
        /\ r.seen \in E!Claimable
    BY <1>3, <2>2, <2>3 DEF RunRecord, E_Steps
  <2>5. Entries'
    BY <2>1, InvEntries DEF Entries, E!QueueTypeOK, AttemptsLeft
  <2> HIDE DEF r
  <2> QED
    BY <1>1, <1>2, <2>1, <2>4, <2>5, RunGoes DEF ExportInv, E!TypeOK
<1>4. CASE row.status \notin E!Claimable
  BY <1>1, <1>2, <1>4, SkipsKeeps DEF E!ReadForClaim, E!Job
<1> QED
  BY <1>3, <1>4

LEMMA ClaimKeepsExport ==
    ASSUME ExportInv, NEW w \in Consumers, E!Claim(w) PROVE ExportInv'
<1> DEFINE j == runs[w].job
           r == [runs[w] EXCEPT !.step = "generating"]
           row == E!Export("PROCESSING", exports[j].version + 1)
<1>1. runs[w].step = "claiming"
  BY DEF E!Claim, E!Is
<1>2. CASE exports[j].status = runs[w].seen /\ exports[j].version = runs[w].version
  <2>1. runs[w] \in RunRecord /\ j \in JobIds
    BY <1>1, RunIsTyped
  <2>2. /\ runs' = [runs EXCEPT ![w] = r] /\ queue' = queue /\ objects' = objects
        /\ RowBecomes(j, row)
    BY <1>2, <2>1 DEF RowBecomes, E!Claim, E!Goes, E!Writes, E!Job, ExportInv, E!TypeOK, RunsTyped
  <2>3. exports[j].version \in Nat
    BY <2>1 DEF ExportInv, E!TypeOK
  <2>4. /\ row \in [status : E!Statuses, version : Nat, fresh : BOOLEAN]
        /\ row.status = "PROCESSING"
    BY <2>3 DEF E!Export, E!Statuses
  <2>5. r \in RunRecord /\ r.step = "generating" /\ r.job = j
    BY <2>1 DEF RunRecord, E_Steps
  <2>6. runs[w].seen \in E!Claimable
    BY <1>1 DEF ExportInv, ClaimsAreClaimable
  <2>7. NoOtherWriter(w, j)
    BY <1>2, <2>6 DEF NoOtherWriter, ExportInv, WritersOwnTheRow, E!Claimable
  <2>8. Entries'
    BY <2>2, InvEntries DEF Entries, E!QueueTypeOK, AttemptsLeft
  <2>9. objects' \subseteq JobIds /\ objects \subseteq objects'
    BY <2>2 DEF ExportInv, E!TypeOK
  <2> HIDE DEF r, row, j
  <2> QED
    BY <2>1, <2>2, <2>4, <2>5, <2>7, <2>8, <2>9, RunMoves
<1>3. CASE ~(exports[j].status = runs[w].seen /\ exports[j].version = runs[w].version)
  BY <1>1, <1>3, SkipsKeeps DEF E!Claim, E!Job
<1> QED
  BY <1>2, <1>3

LEMMA StoreKeepsExport ==
    ASSUME ExportInv, NEW w \in Consumers, E!Store(w) PROVE ExportInv'
<1> DEFINE r == [runs[w] EXCEPT !.step = "stored"]
<1>1. runs[w].step = "generating"
  BY DEF E!Store, E!Is
<1>2. runs[w] \in RunRecord /\ runs[w].job \in JobIds
  BY <1>1, RunIsTyped
<1>3. runs' = [runs EXCEPT ![w] = r]
  BY DEF E!Store, E!Goes, ExportInv, RunsTyped
<1>4. r \in RunRecord /\ r.step = "stored" /\ r.job = runs[w].job
  BY <1>2 DEF RunRecord, E_Steps
<1>5. /\ objects' = objects \union {runs[w].job} /\ objects \subseteq JobIds
      /\ UNCHANGED <<queue, exports>>
  BY DEF E!Store, E!Job, ExportInv, E!TypeOK
<1>6. Entries'
  BY <1>5, InvEntries DEF Entries, E!QueueTypeOK, AttemptsLeft
<1> HIDE DEF r
<1> QED
  BY <1>1, <1>2, <1>3, <1>4, <1>5, <1>6, RunGoes DEF Writing

(* Who writes is the only one, so the row may leave PROCESSING. *)
LEMMA WriterEnds ==
    ASSUME ExportInv, NEW w \in Consumers, Writing(w), NEW s \in E!Statuses,
           NEW step \in E_Steps \ {"claiming", "generating", "stored"},
           E!Writes(runs[w].job, s), E!Goes(w, step), UNCHANGED <<queue, objects>>,
           s = "COMPLETED" => runs[w].job \in objects
    PROVE  ExportInv'
<1> DEFINE j == runs[w].job
           r == [runs[w] EXCEPT !.step = step]
           row == E!Export(s, exports[j].version + 1)
<1>1. runs[w] \in RunRecord /\ j \in JobIds
  BY RunIsTyped DEF Writing
<1>2. runs' = [runs EXCEPT ![w] = r] /\ RowBecomes(j, row)
  BY <1>1 DEF RowBecomes, E!Goes, E!Writes, ExportInv, E!TypeOK, RunsTyped
<1>3. exports[j].version \in Nat
  BY <1>1 DEF ExportInv, E!TypeOK
<1>4. /\ row \in [status : E!Statuses, version : Nat, fresh : BOOLEAN]
      /\ row.status = s
  BY <1>3 DEF E!Export
<1>5. r \in RunRecord /\ r.step = step /\ r.job = j
  BY <1>1 DEF RunRecord
<1>6. NoOtherWriter(w, j)
  BY DEF NoOtherWriter, ExportInv, E!OneGeneration, E!SoleGenerator, E!Job, Writing
<1>7. Entries'
  BY InvEntries DEF Entries, E!QueueTypeOK, AttemptsLeft
<1>8. objects' \subseteq JobIds /\ objects \subseteq objects' /\ (s = "COMPLETED" => j \in objects')
  BY DEF ExportInv, E!TypeOK
<1>9. step \notin {"claiming", "generating", "stored"}
  OBVIOUS
<1> HIDE DEF r, row, j
<1> QED
  BY <1>1, <1>2, <1>4, <1>5, <1>6, <1>7, <1>8, <1>9, RunMoves

LEMMA CompleteKeepsExport ==
    ASSUME ExportInv, NEW w \in Consumers, E!Complete(w) PROVE ExportInv'
<1>1. runs[w].step = "stored"
  BY DEF E!Complete, E!Is
<1>2. runs[w].job \in objects
  BY <1>1 DEF ExportInv, StoredIsThere
<1>3. "COMPLETED" \in E!Statuses /\ "returned" \in E_Steps \ {"claiming", "generating", "stored"}
  BY DEF E!Statuses, E_Steps
<1> QED
  BY <1>1, <1>2, <1>3, WriterEnds DEF E!Complete, E!Job, Writing

LEMMA FailKeepsExport ==
    ASSUME ExportInv, NEW w \in Consumers, NEW unrecoverable \in BOOLEAN, E!Fail(w, unrecoverable)
    PROVE  ExportInv'
<1> DEFINE next == IF unrecoverable \/ runs[w].attempt >= MaxAttempts THEN "FAILED" ELSE "RETRYING"
           step == IF unrecoverable THEN "gaveUp" ELSE "threw"
<1>1. Writing(w)
  BY DEF E!Fail, E!Is, Writing
<1>2. exports[runs[w].job].status = "PROCESSING"
  BY <1>1 DEF ExportInv, WritersOwnTheRow
<1>3. E!Writes(runs[w].job, next) /\ E!Goes(w, step) /\ UNCHANGED <<queue, objects>>
  BY <1>2 DEF E!Fail, E!Job
<1>4. /\ next \in E!Statuses /\ next # "COMPLETED"
      /\ step \in E_Steps \ {"claiming", "generating", "stored"}
  BY DEF E!Statuses, E_Steps
<1> HIDE DEF next, step
<1> QED
  BY <1>1, <1>3, <1>4, WriterEnds

LEMMA FinishKeepsExport ==
    ASSUME ExportInv, NEW w \in Consumers, E!Finish(w) PROVE ExportInv'
<1>1. runs[w].step # "idle"
  BY DEF E!Finish, E!Is
<1>2. Entries'
  BY <1>1, InvEntries, RunIsTyped, AcknowledgeKeeps, RejectKeeps DEF E!Finish, E!Job
<1> QED
  BY <1>1, <1>2, NoRunTyped, RunGoes DEF E!Finish, E!Becomes, ExportInv, E!TypeOK

LEMMA CrashKeepsExport ==
    ASSUME ExportInv, NEW w \in Consumers, E!Crash(w) PROVE ExportInv'
<1>1. Entries'
  BY InvEntries DEF E!Crash, Entries, E!QueueTypeOK, AttemptsLeft
<1> QED
  BY <1>1, NoRunTyped, RunGoes DEF E!Crash, E!Is, E!Becomes, ExportInv, E!TypeOK

LEMMA RequestsKeepExport ==
    ASSUME ExportInv, NEW a \in Requesters,
           \/ E!Request(a)
           \/ \E j \in JobIds : E!Create(a, j)
           \/ \E published \in BOOLEAN : E!PublishRequest(a, published)
    PROVE  ExportInv'
<1>1. CASE E!Request(a)
  <2>1. Entries'
    BY <1>1, InvEntries DEF E!Request, Entries, E!QueueTypeOK, AttemptsLeft
  <2> QED
    BY <1>1, <2>1, RunsStand DEF E!Request, ExportInv, E!TypeOK
<1>2. ASSUME NEW j \in JobIds, E!Create(a, j) PROVE ExportInv'
  <2>1. Entries'
    BY <1>2, InvEntries DEF E!Create, Entries, E!QueueTypeOK, AttemptsLeft
  <2>2. /\ exports' \in [JobIds -> [status : E!Statuses, version : Nat, fresh : BOOLEAN]]
        /\ \A k \in JobIds \ {j} : exports'[k].status = exports[k].status
        /\ exports[j].status = "NONE" /\ exports'[j].status = "QUEUED"
    BY <1>2 DEF E!Create, E!Export, E!NoExport, E!Statuses, ExportInv, E!TypeOK
  <2> QED
    BY <1>2, <2>1, <2>2, RunsStand DEF E!Create
<1>3. ASSUME NEW published \in BOOLEAN, E!PublishRequest(a, published) PROVE ExportInv'
  <2>1. CASE published
    BY <1>3, <2>1, InvEntries, PublishKeeps, RunsStand DEF E!PublishRequest, ExportInv, E!TypeOK
  <2>2. CASE ~published
    <3>1. Entries'
      BY <1>3, <2>2, InvEntries DEF E!PublishRequest, Entries, E!QueueTypeOK, AttemptsLeft
    <3> QED
      BY <1>3, <3>1, RunsStand DEF E!PublishRequest, ExportInv, E!TypeOK
  <2> QED
    BY <2>1, <2>2
<1> QED
  BY <1>1, <1>2, <1>3

LEMMA TimeKeepsExport ==
    ASSUME ExportInv, NEW j \in JobIds, E!Age(j) \/ E!DetectStalled(j) \/ E!LoseLock(j)
    PROVE  ExportInv'
<1>1. CASE E!Age(j)
  <2>1. Entries'
    BY <1>1, InvEntries DEF E!Age, Entries, E!QueueTypeOK, AttemptsLeft
  <2>2. /\ exports' \in [JobIds -> [status : E!Statuses, version : Nat, fresh : BOOLEAN]]
        /\ \A k \in JobIds : exports'[k].status = exports[k].status
    BY <1>1 DEF E!Age, ExportInv, E!TypeOK
  <2> QED
    BY <1>1, <2>1, <2>2, RunsStand DEF E!Age
<1>2. CASE E!DetectStalled(j) \/ E!LoseLock(j)
  <2>1. Entries'
    BY <1>2, InvEntries, StallKeeps DEF E!DetectStalled, E!LoseLock
  <2> QED
    BY <1>2, <2>1, RunsStand DEF E!DetectStalled, E!LoseLock, ExportInv, E!TypeOK
<1> QED
  BY <1>1, <1>2

LEMMA ExportStep == ASSUME ExportInv, [E!Next]_(E!vars) PROVE ExportInv'
<1>1. CASE UNCHANGED E!vars
  <2>1. Entries'
    BY <1>1, InvEntries DEF E!vars, Entries, E!QueueTypeOK, AttemptsLeft
  <2> QED
    BY <1>1, <2>1, RunsStand DEF E!vars, ExportInv, E!TypeOK
<1>2. CASE E!Next
  BY <1>2, RequestsKeepExport, DeliverKeepsExport, ReadKeepsExport, ClaimKeepsExport,
     StoreKeepsExport, CompleteKeepsExport, FinishKeepsExport, CrashKeepsExport,
     FailKeepsExport, TimeKeepsExport DEF E!Next
<1> QED
  BY <1>1, <1>2

(* One worker at a time writes an export, and every export that says COMPLETED
   has its object, whoever died on the way, of any number of exports, workers
   and attempts (case-export.processor.ts). *)
THEOREM OneWriterOfAnExport == OfficeSpec => []OneGeneration
<1>1. OfficeInit => ExportInv
  BY ExportBegins DEF OfficeInit
<1>2. ExportInv /\ [OfficeNext]_officeVars => ExportInv'
  <2>1. [OfficeNext]_officeVars => [E!Next]_(E!vars)
    BY DEF OfficeNext, officeVars, deskVars, exportVars, E!vars
  <2> QED
    BY <2>1, ExportStep
<1>3. ExportInv => OneGeneration
  BY DEF ExportInv, OneGeneration
<1> QED
  BY <1>1, <1>2, <1>3, PTL DEF OfficeSpec

-----------------------------------------------------------------------------
(* CaseRecords *)

(* What a request that has read a case knows of it, however it has changed
   since: late and older say that it has. *)
Knows(r, rows) ==
    r.step = "read" =>
        /\ r.case \in Records
        /\ r.level # "STANDARD" => r.who \in Readers
        /\ rows[r.case].level # "STANDARD" => r.late \/ r.level # "STANDARD"
        /\ r.kind = "update" =>
               /\ r.input.level \notin {R!Keep, "STANDARD"} => r.who \in Readers
               /\ r.older \/ R!Ordered(rows[r.case], r.input)

(* What #conflictFor would find among these rows. *)
Occupying(r, rows) ==
    r.input.number \in Numbers
    /\ \E d \in Records \ {r.case} : rows[d].state # "free" /\ rows[d].number = r.input.number

(* A request that was refused looks for its number, and would find it now. *)
Blames(r, rows) ==
    r.step = "clashed" =>
        r.older \/ (IF Occupying(r, rows) THEN "number" \in r.clash ELSE "code" \in r.clash)

(* The two unique indexes, which free rows do not count in. *)
NamesAreUnique ==
    /\ \A c, d \in Records : c # d /\ records[c].state # "free" /\ records[d].state # "free" =>
           /\ records[c].code # records[d].code
           /\ records[c].number # NoNumber => records[c].number # records[d].number
    /\ \A c \in Records : records[c].state = "free" => records[c].number = NoNumber

EffectHolds ==
    /\ effect \in R!Effect
    /\ R!ShownAsAllowed /\ R!ClassificationStays /\ R!ConflictsAreNamed

RecordsInv ==
    /\ R!RecordsTyped
    /\ \A q \in Requests : Knows(requests[q], records) /\ Blames(requests[q], records)
    /\ NamesAreUnique
    /\ R!DatesInOrder
    /\ EffectHolds

LEMMA MergedIs ==
    ASSUME NEW row \in R!Row, NEW in \in R!Input
    PROVE  /\ R!Merged(row, in) \in R!Row
           /\ R!Merged(row, in).state = row.state
           /\ R!Merged(row, in).code = R!Given(in.code, row.code)
           /\ R!Merged(row, in).number = R!Given(in.number, row.number)
           /\ R!Merged(row, in).level = R!Given(in.level, row.level)
           /\ R!Merged(row, in).openedAt = R!GivenDate(in.openedAt, row.openedAt)
           /\ R!Merged(row, in).closedAt = R!GivenDate(in.closedAt, row.closedAt)
<1> USE RecordsAssumed DEF R!RecordsAssumption
<1> DEFINE code == R!Given(in.code, row.code)
           number == R!Given(in.number, row.number)
           level == R!Given(in.level, row.level)
           openedAt == R!GivenDate(in.openedAt, row.openedAt)
           closedAt == R!GivenDate(in.closedAt, row.closedAt)
<1>1. code \in Codes /\ number \in Numbers \cup {NoNumber} /\ level \in R!Levels
  BY DEF R!Given, R!Row, R!Input
<1>2. openedAt \in 1 .. MaxDate
  BY DEF R!GivenDate, R!Row, R!Input
<1>3. closedAt \in R!NoDate .. MaxDate
  <2>1. in.closedAt \in R!KeepDate .. MaxDate /\ row.closedAt \in R!NoDate .. MaxDate
    BY DEF R!Row, R!Input
  <2> QED
    BY <2>1 DEF R!GivenDate, R!KeepDate, R!NoDate
<1>4. R!Merged(row, in) = [row EXCEPT !.code = code, !.number = number, !.level = level,
                                      !.openedAt = openedAt, !.closedAt = closedAt]
  BY DEF R!Merged
<1> HIDE DEF code, number, level, openedAt, closedAt
<1>5. /\ R!Merged(row, in) \in R!Row
      /\ R!Merged(row, in).state = row.state
      /\ R!Merged(row, in).code = code
      /\ R!Merged(row, in).number = number
      /\ R!Merged(row, in).level = level
      /\ R!Merged(row, in).openedAt = openedAt
      /\ R!Merged(row, in).closedAt = closedAt
  <2>1. [row EXCEPT !.code = code, !.number = number, !.level = level,
                    !.openedAt = openedAt, !.closedAt = closedAt] \in R!Row
    BY <1>1, <1>2, <1>3 DEF R!Row
  <2> QED
    BY <2>1, <1>4 DEF R!Row
<1> QED
  BY <1>5 DEF code, number, level, openedAt, closedAt

(* Whether the dates are in order depends on the dates alone. *)
LEMMA OrderedByDates ==
    ASSUME NEW row \in R!Row, NEW new \in R!Row, NEW in \in R!Input,
           new.openedAt = row.openedAt, new.closedAt = row.closedAt
    PROVE  R!Ordered(new, in) <=> R!Ordered(row, in)
BY MergedIs DEF R!Ordered

LEMMA NothingGiven == R!NoInput \in R!Input
BY RecordsAssumed DEF R!RecordsAssumption, R!NoInput, R!Input, R!KeepDate, R!Keep

LEMMA IdleRecord == R!Idle \in R!Request /\ R!Idle.step = "idle"
BY NothingGiven, RecordsAssumed DEF R!RecordsAssumption, R!Idle, R!Request, R!Levels

LEMMA NoEffectHolds == ASSUME effect' = R!NoEffect PROVE EffectHolds'
BY DEF R!NoEffect, EffectHolds, R!Effect, R!Levels, R!ShownAsAllowed, R!ClassificationStays,
   R!ConflictsAreNamed

(* A step of one request that leaves the cases alone. *)
LEMMA RecordRead ==
    ASSUME RecordsInv, NEW q \in Requests, NEW r \in R!Request, R!Becomes(q, r),
           UNCHANGED <<records, crossed>>, EffectHolds', Knows(r, records), Blames(r, records)
    PROVE  RecordsInv'
<1>1. requests' \in [Requests -> R!Request]
      /\ \A p \in Requests : requests'[p] = IF p = q THEN r ELSE requests[p]
  BY DEF RecordsInv, R!RecordsTyped, R!Becomes
<1>2. \A p \in Requests : (Knows(requests[p], records) /\ Blames(requests[p], records))'
  BY <1>1 DEF RecordsInv
<1> QED
  BY <1>1, <1>2 DEF RecordsInv, R!RecordsTyped, NamesAreUnique, R!DatesInOrder, EffectHolds

LEMMA RecordEnds ==
    ASSUME RecordsInv, NEW q \in Requests, R!Becomes(q, R!Idle), UNCHANGED <<records, crossed>>,
           EffectHolds'
    PROVE  RecordsInv'
BY IdleRecord, RecordRead DEF Knows, Blames

LEMMA UnfiledTyped ==
    /\ R!Unfiled \in R!Row /\ R!Unfiled.state = "kept"
    /\ R!Unfiled.number = NoNumber /\ R!Unfiled.level = "STANDARD"
<1>1. (CHOOSE k \in Codes : TRUE) \in Codes
  BY RecordsAssumed DEF R!RecordsAssumption
<1>2. 1 \in 1 .. MaxDate /\ R!NoDate \in R!NoDate .. MaxDate
  BY RecordsAssumed DEF R!RecordsAssumption, R!NoDate
<1> QED
  BY <1>1, <1>2 DEF R!Unfiled, R!Row, R!Levels

LEMMA RecordsBegin == R!RecordsInit => RecordsInv
<1> SUFFICES ASSUME R!RecordsInit PROVE RecordsInv
  OBVIOUS
<1> USE RecordsAssumed DEF R!RecordsAssumption
<1> DEFINE born == [R!Unfiled EXCEPT !.state = "free"]
<1>1. /\ born \in R!Row /\ born.state = "free" /\ born.number = NoNumber
  BY UnfiledTyped DEF R!Row
<1>2. records = [c \in Records |-> born]
  BY DEF R!RecordsInit
<1> HIDE DEF born
<1>3. \A c \in Records : records[c] \in R!Row /\ records[c].state = "free" /\ records[c].number = NoNumber
  BY <1>1, <1>2
<1>4. effect \in R!Effect /\ effect.what = "nothing"
  BY DEF R!RecordsInit, R!NoEffect, R!Effect, R!Levels
<1>5. R!RecordsTyped
  BY <1>1, <1>2, <1>4, IdleRecord DEF R!RecordsInit, R!RecordsTyped
<1>6. \A q \in Requests : Knows(requests[q], records) /\ Blames(requests[q], records)
  BY IdleRecord DEF R!RecordsInit, Knows, Blames
<1>7. NamesAreUnique /\ R!DatesInOrder
  BY <1>3 DEF NamesAreUnique, R!DatesInOrder
<1>8. EffectHolds
  BY <1>4 DEF EffectHolds, R!ShownAsAllowed, R!ClassificationStays, R!ConflictsAreNamed
<1> QED
  BY <1>5, <1>6, <1>7, <1>8 DEF RecordsInv

LEMMA ReadCaseKeeps ==
    ASSUME RecordsInv, NEW q \in Requests, NEW who \in Users, NEW c \in Records,
           NEW kind \in {"detail", "content", "remove", "update"}, NEW in \in R!Input,
           R!ReadCase(q, who, c, kind, in)
    PROVE  RecordsInv'
<1> DEFINE r == [R!Idle EXCEPT !.step = "read", !.kind = kind, !.who = who, !.case = c,
                               !.input = in, !.level = records[c].level]
<1>1. records[c] \in R!Row
  BY DEF RecordsInv, R!RecordsTyped
<1>2. /\ r \in R!Request /\ r.step = "read" /\ r.kind = kind /\ r.who = who /\ r.case = c
      /\ r.input = in /\ r.level = records[c].level
  BY <1>1, IdleRecord DEF R!Request, R!Row
<1>3. R!Becomes(q, r) /\ UNCHANGED <<records, crossed>> /\ effect' = R!NoEffect
  BY DEF R!ReadCase
<1> HIDE DEF r
<1>4. records[c].level # "STANDARD" => who \in Readers
  BY DEF R!ReadCase, R!Accessible
<1>5. kind = "update" => /\ in.level \notin {R!Keep, "STANDARD"} => who \in Readers
                         /\ R!Ordered(records[c], in)
  <2>1. kind = "update" => R!MayUse(who, R!Merged(records[c], in).level) /\ R!Ordered(records[c], in)
    BY DEF R!ReadCase
  <2>2. R!Merged(records[c], in).level = R!Given(in.level, records[c].level)
    BY <1>1, MergedIs
  <2> QED
    BY <2>1, <2>2 DEF R!MayUse, R!Given
<1>6. Knows(r, records) /\ Blames(r, records)
  BY <1>2, <1>4, <1>5 DEF Knows, Blames
<1> QED
  BY <1>2, <1>3, <1>6, NoEffectHolds, RecordRead

LEMMA AuditKeeps ==
    ASSUME RecordsInv, NEW q \in Requests, R!AuditConfidentialRead(q) PROVE RecordsInv'
<1> DEFINE r == [requests[q] EXCEPT !.recorded = TRUE]
<1>1. requests[q] \in R!Request /\ Knows(requests[q], records) /\ requests[q].step = "read"
  BY DEF RecordsInv, R!RecordsTyped, R!AuditConfidentialRead
<1>2. /\ r \in R!Request /\ r.step = "read" /\ r.kind = requests[q].kind /\ r.who = requests[q].who
      /\ r.case = requests[q].case /\ r.input = requests[q].input /\ r.level = requests[q].level
      /\ r.late = requests[q].late /\ r.older = requests[q].older
  BY <1>1 DEF R!Request
<1>3. R!Becomes(q, r) /\ UNCHANGED <<records, crossed>> /\ effect' = R!NoEffect
  BY DEF R!AuditConfidentialRead
<1> HIDE DEF r
<1>4. Knows(r, records) /\ Blames(r, records)
  BY <1>1, <1>2 DEF Knows, Blames
<1> QED
  BY <1>2, <1>3, <1>4, NoEffectHolds, RecordRead

LEMMA ShowKeeps ==
    ASSUME RecordsInv, NEW q \in Requests, R!Show(q) PROVE RecordsInv'
<1> DEFINE r == requests[q]
           level == IF r.kind = "detail" THEN r.level ELSE records[r.case].level
           reader == r.who \in Readers
           excused == r.kind = "content" /\ r.late
<1>1. r \in R!Request /\ Knows(r, records) /\ r.step = "read" /\ r.kind \in {"detail", "content"}
  BY DEF RecordsInv, R!RecordsTyped, R!Show
<1>2. r.level # "STANDARD" => r.recorded
  BY DEF R!Show
<1>3. r.case \in Records
  BY <1>1 DEF Knows
<1>4. level \in R!Levels /\ r.recorded \in BOOLEAN /\ reader \in BOOLEAN /\ excused \in BOOLEAN
  BY <1>1, <1>3 DEF RecordsInv, R!RecordsTyped, R!Row, R!Request
<1>5. level # "STANDARD" => excused \/ (reader /\ r.recorded)
  BY <1>1, <1>2 DEF Knows
<1>6. effect' = [R!NoEffect EXCEPT !.what = "read", !.reader = reader, !.level = level,
                                   !.recorded = r.recorded, !.excused = excused]
  BY DEF R!Show
<1> HIDE DEF level, reader, excused
<1>7. /\ effect' \in R!Effect /\ effect'.what = "read" /\ effect'.level = level
      /\ effect'.reader = reader /\ effect'.recorded = r.recorded /\ effect'.excused = excused
  BY <1>4, <1>6 DEF R!NoEffect, R!Effect, R!Levels
<1>8. EffectHolds'
  BY <1>5, <1>7 DEF EffectHolds, R!ShownAsAllowed, R!ClassificationStays, R!ConflictsAreNamed
<1> QED
  BY <1>8, RecordEnds DEF R!Show

LEMMA AbortKeepsRecords ==
    ASSUME RecordsInv, NEW q \in Requests, R!Abort(q) PROVE RecordsInv'
BY NoEffectHolds, RecordEnds DEF R!Abort

LEMMA TellKeeps ==
    ASSUME RecordsInv, NEW q \in Requests, R!TellConflict(q) PROVE RecordsInv'
<1> DEFINE r == requests[q]
           named == IF R!Occupied(r) THEN "number" \in r.clash ELSE "code" \in r.clash
<1>1. r \in R!Request /\ Blames(r, records) /\ r.step = "clashed"
  BY DEF RecordsInv, R!RecordsTyped, R!TellConflict
<1>2. named \in BOOLEAN /\ r.older \in BOOLEAN
  <2>1. r.older \in BOOLEAN
    BY <1>1 DEF R!Request
  <2>2. ("number" \in r.clash) \in BOOLEAN /\ ("code" \in r.clash) \in BOOLEAN
    OBVIOUS
  <2>3. named \in BOOLEAN
    BY <2>2, Zenon
  <2> QED
    BY <2>1, <2>3
<1>3. r.older \/ named
  BY <1>1 DEF Blames, Occupying, R!Occupied
<1>4. effect' = [R!NoEffect EXCEPT !.what = "told", !.excused = r.older, !.named = named]
  BY DEF R!TellConflict
<1> HIDE DEF named
<1>5. /\ effect' \in R!Effect /\ effect'.what = "told"
      /\ effect'.excused = r.older /\ effect'.named = named
  BY <1>2, <1>4 DEF R!NoEffect, R!Effect, R!Levels
<1>6. EffectHolds'
  BY <1>3, <1>5 DEF EffectHolds, R!ShownAsAllowed, R!ClassificationStays, R!ConflictsAreNamed
<1> QED
  BY <1>6, RecordEnds DEF R!TellConflict

LEMMA RemoveKeepsRecords ==
    ASSUME RecordsInv, NEW q \in Requests, R!RemoveCase(q) PROVE RecordsInv'
<1> DEFINE c == requests[q].case
<1>1. c \in Records /\ records[c] \in R!Row /\ records[c].state = "kept"
  BY DEF RecordsInv, R!RecordsTyped, R!RemoveCase, Knows
<1>2. records' = [records EXCEPT ![c].state = "deleted"] /\ records \in [Records -> R!Row]
  BY DEF R!RemoveCase, RecordsInv, R!RecordsTyped
<1>3. /\ records' \in [Records -> R!Row]
      /\ \A d \in Records :
             /\ records'[d].code = records[d].code /\ records'[d].number = records[d].number
             /\ records'[d].level = records[d].level
             /\ records'[d].openedAt = records[d].openedAt
             /\ records'[d].closedAt = records[d].closedAt
             /\ records'[d].state = "free" <=> records[d].state = "free"
  BY <1>1, <1>2 DEF R!Row
<1>4. requests' \in [Requests -> R!Request]
      /\ \A p \in Requests : requests'[p] = IF p = q THEN R!Idle ELSE requests[p]
  BY IdleRecord DEF RecordsInv, R!RecordsTyped, R!RemoveCase, R!Becomes
<1>5. crossed' = crossed /\ EffectHolds'
  BY NoEffectHolds DEF R!RemoveCase
<1>6. ASSUME NEW s \in R!Request, Knows(s, records), Blames(s, records) PROVE Knows(s, records') /\ Blames(s, records')
  <2>1. Occupying(s, records') <=> Occupying(s, records)
    BY <1>3 DEF Occupying
  <2>2. s.step = "read" => s.case \in Records /\ (R!Ordered(records'[s.case], s.input) <=>
                                                  R!Ordered(records[s.case], s.input))
    <3>1. s.input \in R!Input /\ (s.step = "read" => s.case \in Records)
      BY <1>6 DEF R!Request, Knows
    <3> QED
      BY <1>2, <1>3, <3>1, OrderedByDates
  <2> QED
    BY <1>3, <1>6, <2>1, <2>2 DEF Knows, Blames
<1>7. \A p \in Requests : (Knows(requests[p], records) /\ Blames(requests[p], records))'
  <2> TAKE p \in Requests
  <2>1. CASE p = q
    BY <1>4, <2>1, IdleRecord DEF Knows, Blames
  <2>2. CASE p # q
    <3>1. requests[p] \in R!Request /\ Knows(requests[p], records) /\ Blames(requests[p], records)
      BY DEF RecordsInv, R!RecordsTyped
    <3>2. requests'[p] = requests[p]
      BY <1>4, <2>2
    <3> QED
      BY <1>6, <3>1, <3>2
  <2> QED
    BY <2>1, <2>2
<1>8. NamesAreUnique'
  BY <1>3 DEF RecordsInv, NamesAreUnique
<1>9. R!DatesInOrder'
  BY <1>3, <1>5 DEF RecordsInv, R!DatesInOrder
<1> QED
  BY <1>3, <1>4, <1>5, <1>7, <1>8, <1>9 DEF RecordsInv, R!RecordsTyped, EffectHolds

(* What becomes of the request of somebody else when the row of c is written. *)
LEMMA OthersAreMarked ==
    ASSUME NEW q \in Requests, NEW p \in Requests \ {q}, requests[p] \in R!Request,
           NEW c \in Records, NEW row \in R!Row, requests[p].step # "idle"
    PROVE  LET s == requests[p]
               t == R!Overtaken(q, c, row)[p]
               old == records[c]
           IN  /\ t \in R!Request
               /\ t.step = s.step /\ t.kind = s.kind /\ t.who = s.who /\ t.case = s.case
               /\ t.input = s.input /\ t.level = s.level /\ t.recorded = s.recorded
               /\ t.clash = s.clash
               /\ t.late <=> s.late \/ (s.case = c /\ old.level = "STANDARD" /\ row.level # "STANDARD")
               /\ t.older <=> s.older
                      \/ (s.step = "read" /\ s.case = c
                          /\ <<row.openedAt, row.closedAt>> # <<old.openedAt, old.closedAt>>)
                      \/ (s.step = "clashed" /\ <<row.code, row.number>> # <<old.code, old.number>>)
<1> DEFINE s == requests[p]
           t == R!Overtaken(q, c, row)[p]
           old == records[c]
           late == s.late \/ (s.case = c /\ old.level = "STANDARD" /\ row.level # "STANDARD")
           older == s.older
                      \/ (s.step = "read" /\ s.case = c
                          /\ <<row.openedAt, row.closedAt>> # <<old.openedAt, old.closedAt>>)
                      \/ (s.step = "clashed" /\ <<row.code, row.number>> # <<old.code, old.number>>)
<1>1. t = [s EXCEPT !.late = late, !.older = older]
  BY DEF R!Overtaken
<1>2. late \in BOOLEAN /\ older \in BOOLEAN
  BY Zenon
<1> HIDE DEF late, older, t, s
<1>3. s \in R!Request
  BY DEF s
<1>4. /\ t \in R!Request
      /\ t.step = s.step /\ t.kind = s.kind /\ t.who = s.who /\ t.case = s.case
      /\ t.input = s.input /\ t.level = s.level /\ t.recorded = s.recorded
      /\ t.clash = s.clash /\ t.late = late /\ t.older = older
  BY <1>1, <1>2, <1>3 DEF R!Request
<1>5. (t.late <=> late) /\ (t.older <=> older)
  BY <1>4
<1> QED
  BY <1>4, <1>5 DEF late, older, t, s

LEMMA RecordWritten ==
    ASSUME RecordsInv, NEW q \in Requests, NEW c \in Records, NEW row \in R!Row,
           R!Written(q, c, row, R!Idle), row.state = "kept", R!Clashes(c, row) = {},
           crossed' \subseteq Records, crossed \ {c} \subseteq crossed',
           c \notin crossed' => row.closedAt = R!NoDate \/ row.closedAt >= row.openedAt,
           EffectHolds'
    PROVE  RecordsInv'
<1>1. /\ records' \in [Records -> R!Row] /\ records'[c] = row
      /\ \A d \in Records \ {c} : records'[d] = records[d]
      /\ records \in [Records -> R!Row]
  BY DEF R!Written, RecordsInv, R!RecordsTyped
<1>2. \A p \in Requests : requests'[p] = IF p = q THEN R!Idle ELSE R!Overtaken(q, c, row)[p]
  BY DEF R!Written
<1>3. ASSUME NEW p \in Requests
      PROVE  requests'[p] \in R!Request /\ Knows(requests'[p], records') /\ Blames(requests'[p], records')
  <2> DEFINE s == requests[p]
             t == requests'[p]
             old == records[c]
  <2>1. s \in R!Request /\ Knows(s, records) /\ Blames(s, records)
    BY DEF RecordsInv, R!RecordsTyped
  <2>2. CASE p = q
    BY <1>2, <2>2, IdleRecord DEF Knows, Blames
  <2>3. CASE p # q /\ s.step = "idle"
    <3>1. t = s
      BY <1>2, <2>3 DEF R!Overtaken
    <3> QED
      BY <2>1, <2>3, <3>1 DEF Knows, Blames
  <2>4. CASE p # q /\ s.step # "idle"
    <3>1. t = R!Overtaken(q, c, row)[p] /\ p \in Requests \ {q}
      BY <1>2, <2>4
    <3>2. /\ t \in R!Request
          /\ t.step = s.step /\ t.kind = s.kind /\ t.who = s.who /\ t.case = s.case
          /\ t.input = s.input /\ t.level = s.level /\ t.recorded = s.recorded
          /\ t.clash = s.clash
          /\ t.late <=> s.late \/ (s.case = c /\ old.level = "STANDARD" /\ row.level # "STANDARD")
          /\ t.older <=> s.older
                 \/ (s.step = "read" /\ s.case = c
                     /\ <<row.openedAt, row.closedAt>> # <<old.openedAt, old.closedAt>>)
                 \/ (s.step = "clashed" /\ <<row.code, row.number>> # <<old.code, old.number>>)
      BY <2>1, <2>4, <3>1, OthersAreMarked
    <3> HIDE DEF t, s
    <3>3. ASSUME s.step = "read" PROVE Knows(t, records')
      <4>1. s.case \in Records /\ (s.level # "STANDARD" => s.who \in Readers)
        BY <2>1, <3>3 DEF Knows
      <4>2. records'[s.case].level # "STANDARD" => t.late \/ t.level # "STANDARD"
        BY <1>1, <2>1, <3>2, <3>3, <4>1 DEF Knows
      <4>3. ASSUME s.kind = "update", ~t.older PROVE R!Ordered(records'[s.case], s.input)
        <5>1. R!Ordered(records[s.case], s.input)
          BY <2>1, <3>2, <3>3, <4>3 DEF Knows
        <5>2. /\ records'[s.case].openedAt = records[s.case].openedAt
              /\ records'[s.case].closedAt = records[s.case].closedAt
          BY <1>1, <3>2, <3>3, <4>1, <4>3
        <5>3. s.input \in R!Input
          BY <2>1 DEF R!Request
        <5> QED
          BY <1>1, <4>1, <5>1, <5>2, <5>3, OrderedByDates
      <4>4. s.kind = "update" => (s.input.level \notin {R!Keep, "STANDARD"} => s.who \in Readers)
        BY <2>1, <3>3 DEF Knows
      <4> QED
        BY <3>2, <3>3, <4>1, <4>2, <4>3, <4>4 DEF Knows
    <3>4. ASSUME s.step = "clashed" PROVE Blames(t, records')
      <4>1. CASE t.older
        BY <4>1 DEF Blames
      <4>2. CASE ~t.older
        <5>1. ~s.older /\ row.number = old.number
          BY <3>2, <3>4, <4>2
        <5>2. IF Occupying(s, records) THEN "number" \in s.clash ELSE "code" \in s.clash
          BY <2>1, <3>4, <5>1 DEF Blames
        <5>3. \A d \in Records, n \in Numbers :
                  (records'[d].state # "free" /\ records'[d].number = n) <=>
                  (records[d].state # "free" /\ records[d].number = n)
          BY <1>1, <5>1, RecordsAssumed DEF R!RecordsAssumption, RecordsInv, NamesAreUnique
        <5>4. Occupying(t, records') <=> Occupying(s, records)
          BY <3>2, <5>3 DEF Occupying
        <5> QED
          BY <3>2, <5>2, <5>4 DEF Blames
      <4> QED
        BY <4>1, <4>2
    <3> QED
      BY <2>4, <3>2, <3>3, <3>4 DEF Knows, Blames, t
  <2> QED
    BY <2>2, <2>3, <2>4
<1>4. requests' \in [Requests -> R!Request]
  BY <1>3 DEF R!Written
<1>5. NamesAreUnique'
  <2>1. \A d \in Records \ {c} : records[d].state # "free" =>
            /\ records[d].code # row.code
            /\ row.number # NoNumber => records[d].number # row.number
    BY DEF R!Clashes
  <2> QED
    BY <1>1, <2>1 DEF RecordsInv, NamesAreUnique
<1>6. R!DatesInOrder'
  BY <1>1 DEF RecordsInv, R!DatesInOrder
<1> QED
  BY <1>1, <1>3, <1>4, <1>5, <1>6 DEF RecordsInv, R!RecordsTyped, EffectHolds

(* The row that clashes names a number that somebody else has, or else a code. *)
LEMMA ClashNames ==
    ASSUME RecordsInv, NEW c \in Records, NEW row \in R!Row, R!Clashes(c, row) # {}
    PROVE  /\ "code" \in R!Clashes(c, row) \/ "number" \in R!Clashes(c, row)
           /\ "number" \in R!Clashes(c, row) <=>
                  row.number \in Numbers /\ \E d \in Records \ {c} :
                      records[d].state # "free" /\ records[d].number = row.number
<1>1. row.number \in Numbers <=> row.number # NoNumber
  BY RecordsAssumed DEF R!RecordsAssumption, R!Row
<1> QED
  BY <1>1 DEF R!Clashes

LEMMA CreateKeeps ==
    ASSUME RecordsInv, NEW q \in Requests, NEW who \in Users, NEW c \in Records, NEW row \in R!Row,
           R!CreateCase(q, who, c, row)
    PROVE  RecordsInv'
<1>1. effect' = R!NoEffect /\ crossed' = crossed /\ row.state = "kept" /\ records[c].state = "free"
  BY DEF R!CreateCase
<1>2. EffectHolds'
  BY <1>1, NoEffectHolds
<1>3. CASE R!Clashes(c, row) = {}
  <2>1. R!Merged(row, R!NoInput).closedAt = row.closedAt /\ R!Merged(row, R!NoInput).openedAt = row.openedAt
    BY MergedIs, NothingGiven DEF R!NoInput, R!GivenDate, R!KeepDate
  <2>2. row.closedAt = R!NoDate \/ row.closedAt >= row.openedAt
    BY <2>1 DEF R!CreateCase, R!Ordered
  <2>3. R!Written(q, c, row, R!Idle) /\ crossed \subseteq Records
    BY <1>3 DEF R!CreateCase, RecordsInv, R!RecordsTyped
  <2> QED
    BY <1>1, <1>2, <1>3, <2>2, <2>3, RecordWritten
<1>4. CASE R!Clashes(c, row) # {}
  <2> DEFINE in == [R!NoInput EXCEPT !.number = row.number]
             r == [R!Idle EXCEPT !.step = "clashed", !.who = who, !.input = in,
                                 !.clash = R!Clashes(c, row)]
  <2>1. in \in R!Input /\ in.number = row.number
    BY NothingGiven DEF R!Input, R!Row, R!NoInput
  <2>2. R!Clashes(c, row) \in SUBSET {"code", "number"}
    BY DEF R!Clashes
  <2>3. R!Becomes(q, r) /\ records' = records
    BY <1>4 DEF R!CreateCase
  <2> HIDE DEF in
  <2>4. /\ r \in R!Request /\ r.step = "clashed" /\ r.input = in /\ r.case = NoRecord
        /\ r.clash = R!Clashes(c, row)
    BY <2>1, <2>2, IdleRecord DEF R!Request, R!Idle
  <2> HIDE DEF r
  <2>5. Occupying(r, records) <=> "number" \in R!Clashes(c, row)
    <3>1. \A d \in Records : records[d].state # "free" => d # c /\ d # NoRecord
      BY <1>1, RecordsAssumed DEF R!RecordsAssumption
    <3> QED
      BY <1>4, <2>1, <2>4, <3>1, ClashNames DEF Occupying
  <2>6. Knows(r, records) /\ Blames(r, records)
    BY <1>4, <2>4, <2>5, ClashNames DEF Knows, Blames
  <2> QED
    BY <1>1, <1>2, <2>3, <2>4, <2>6, RecordRead
<1> QED
  BY <1>3, <1>4

LEMMA WriteKeepsRecords ==
    ASSUME RecordsInv, NEW q \in Requests, R!WriteCase(q) PROVE RecordsInv'
<1> DEFINE r == requests[q]
           c == r.case
           row == R!Merged(records[c], r.input)
<1>1. /\ r \in R!Request /\ r.step = "read" /\ r.kind = "update" /\ Knows(r, records)
      /\ records[c].state = "kept"
  BY DEF RecordsInv, R!RecordsTyped, R!WriteCase
<1>2. c \in Records
  BY <1>1 DEF Knows
<1>3. records[c] \in R!Row /\ r.input \in R!Input
  BY <1>1, <1>2 DEF RecordsInv, R!RecordsTyped, R!Request
<1>4. /\ row \in R!Row /\ row.state = "kept"
      /\ row.number = R!Given(r.input.number, records[c].number)
      /\ row.level = R!Given(r.input.level, records[c].level)
  BY <1>1, <1>3, MergedIs
<1>5. CASE R!Clashes(c, row) # {}
  <2> DEFINE t == [r EXCEPT !.step = "clashed", !.older = FALSE, !.clash = R!Clashes(c, row)]
  <2>1. R!Becomes(q, t) /\ effect' = R!NoEffect /\ UNCHANGED <<records, crossed>>
    BY <1>5 DEF R!WriteCase
  <2>2. R!Clashes(c, row) \in SUBSET {"code", "number"}
    BY DEF R!Clashes
  <2>3. /\ t \in R!Request /\ t.step = "clashed" /\ t.input = r.input /\ t.case = c
        /\ t.clash = R!Clashes(c, row)
    BY <1>1, <2>2 DEF R!Request
  <2> HIDE DEF t
  <2>4. Occupying(t, records) <=> "number" \in R!Clashes(c, row)
    <3>1. CASE r.input.number \in Numbers
      <4>1. row.number = r.input.number
        BY <1>4, <3>1, RecordsAssumed DEF R!RecordsAssumption, R!Given
      <4> QED
        BY <1>2, <1>4, <1>5, <2>3, <3>1, <4>1, ClashNames DEF Occupying
    <3>2. CASE r.input.number \notin Numbers
      <4>1. row.number = NoNumber \/ row.number = records[c].number
        BY <1>3, <1>4, <3>2 DEF R!Given, R!Input
      <4>2. \A d \in Records \ {c} :
                records[d].state # "free" /\ row.number # NoNumber => records[d].number # row.number
        BY <1>1, <1>2, <4>1 DEF RecordsInv, NamesAreUnique
      <4>3. NoNumber \notin Numbers
        BY RecordsAssumed DEF R!RecordsAssumption
      <4> QED
        BY <1>2, <1>4, <1>5, <2>3, <3>2, <4>2, <4>3, ClashNames DEF Occupying
    <3> QED
      BY <3>1, <3>2
  <2>5. Knows(t, records) /\ Blames(t, records)
    BY <1>2, <1>4, <1>5, <2>3, <2>4, ClashNames DEF Knows, Blames
  <2> QED
    BY <2>1, <2>3, <2>5, NoEffectHolds, RecordRead
<1>6. CASE R!Clashes(c, row) = {}
  <2> DEFINE what == IF records[c].level # "STANDARD" /\ row.level = "STANDARD"
                     THEN "declassified" ELSE "written"
             reader == r.who \in Readers
  <2>1. /\ R!Written(q, c, row, R!Idle)
        /\ crossed' = IF r.older THEN crossed \cup {c} ELSE crossed \ {c}
        /\ effect' = [R!NoEffect EXCEPT !.what = what, !.reader = reader, !.level = row.level,
                                        !.excused = r.late]
    BY <1>6 DEF R!WriteCase
  <2>2. row.level \in R!Levels /\ r.late \in BOOLEAN /\ reader \in BOOLEAN
    BY <1>1, <1>4 DEF R!Row, R!Request
  <2>3. what = "declassified" \/ (what = "written" /\ row.level # "STANDARD") => reader \/ r.late
    <3>1. records[c].level # "STANDARD" => r.late \/ reader
      BY <1>1 DEF Knows
    <3>2. row.level # "STANDARD" => r.late \/ reader
      <4>1. r.input.level \notin {R!Keep, "STANDARD"} => reader
        BY <1>1 DEF Knows
      <4> QED
        BY <1>4, <3>1, <4>1 DEF R!Given
    <3> QED
      BY <3>1, <3>2
  <2>4. what \in {"declassified", "written"}
    OBVIOUS
  <2> HIDE DEF what, reader
  <2>5. /\ effect' \in R!Effect /\ effect'.what = what /\ effect'.level = row.level
        /\ effect'.reader = reader /\ effect'.excused = r.late
    BY <2>1, <2>2, <2>4 DEF R!NoEffect, R!Effect, R!Levels
  <2>6. EffectHolds'
    BY <2>2, <2>3, <2>4, <2>5 DEF EffectHolds, R!ShownAsAllowed, R!ClassificationStays,
       R!ConflictsAreNamed
  <2>7. c \notin crossed' => row.closedAt = R!NoDate \/ row.closedAt >= row.openedAt
    BY <1>1, <2>1 DEF Knows, R!Ordered
  <2>8. crossed' \subseteq Records /\ crossed \ {c} \subseteq crossed'
    BY <1>2, <2>1 DEF RecordsInv, R!RecordsTyped
  <2> HIDE DEF row, c, r
  <2> QED
    BY <1>2, <1>4, <1>6, <2>1, <2>6, <2>7, <2>8, RecordWritten
<1> QED
  BY <1>5, <1>6

LEMMA RecordsStep == ASSUME RecordsInv, [R!RecordsNext]_(R!recordVars) PROVE RecordsInv'
<1>1. CASE UNCHANGED R!recordVars
  BY <1>1 DEF R!recordVars, RecordsInv, R!RecordsTyped, Knows, Blames, Occupying, NamesAreUnique,
     R!DatesInOrder, EffectHolds, R!ShownAsAllowed, R!ClassificationStays, R!ConflictsAreNamed
<1>2. ASSUME NEW q \in Requests, R!Serve(q) PROVE RecordsInv'
  <2>1. ASSUME NEW who \in Users, NEW c \in Records, NEW kind \in {"detail", "content", "remove"},
               R!ReadCase(q, who, c, kind, R!NoInput)
        PROVE  RecordsInv'
    BY <2>1, NothingGiven, ReadCaseKeeps
  <2>2. ASSUME NEW who \in Users, NEW c \in Records, NEW in \in Inputs,
               R!ReadCase(q, who, c, "update", in)
        PROVE  RecordsInv'
    BY <2>2, ReadCaseKeeps, RecordsAssumed DEF R!RecordsAssumption
  <2>3. ASSUME NEW who \in Users, NEW c \in Records, NEW in \in Inputs,
               R!CreateCase(q, who, c, R!Merged(R!Unfiled, in))
        PROVE  RecordsInv'
    <3>1. R!Merged(R!Unfiled, in) \in R!Row
      BY UnfiledTyped, MergedIs, RecordsAssumed DEF R!RecordsAssumption
    <3> QED
      BY <2>3, <3>1, CreateKeeps
  <2> QED
    BY <1>2, <2>1, <2>2, <2>3, AuditKeeps, ShowKeeps, WriteKeepsRecords, TellKeeps,
       RemoveKeepsRecords, AbortKeepsRecords DEF R!Serve
<1> QED
  BY <1>1, <1>2 DEF R!RecordsNext

(* A confidential case is shown to who may read it and after that is on record,
   and keeps its level against who may not; the dates of a case stay in order,
   and a conflict is told by the name of what clashed; but for what a request
   read before others changed it (cases.service.ts). *)
THEOREM CasesStayGuarded == OfficeSpec => []CasesAreGuarded
<1>1. OfficeInit => RecordsInv
  BY RecordsBegin DEF OfficeInit
<1>2. RecordsInv /\ [OfficeNext]_officeVars => RecordsInv'
  <2>1. [OfficeNext]_officeVars => [R!RecordsNext]_(R!recordVars)
    BY DEF OfficeNext, officeVars, deskVars, recordVars, R!recordVars
  <2> QED
    BY <2>1, RecordsStep
<1>3. RecordsInv => CasesAreGuarded
  BY DEF RecordsInv, EffectHolds, CasesAreGuarded, R!CasesAreGuarded
<1> QED
  BY <1>1, <1>2, <1>3, PTL DEF OfficeSpec

-----------------------------------------------------------------------------
(* Tasks *)

(* A request that means to change a task has a row of it that is not newer
   than the task, and is the task itself when the versions are the same. *)
EditsAgree ==
    \A q \in Requests :
        LET e == edits[q] IN
        /\ e.step \in {"create", "update"} => e.item \in TaskItems
        /\ e.step = "create" => e.assignedTo \in People \cup {Nobody}
        /\ e.step = "update" =>
               /\ T!Admissible(e.read, e.status)
               /\ e.read.version > 0
               /\ e.read.version <= tasks[e.item].version
               /\ e.read.version = tasks[e.item].version => e.read = tasks[e.item]

(* The last record says what the task is, and a task that is not there is as
   the first record says it was. *)
TrailEndsHere ==
    \A i \in TaskItems :
        /\ trail[i].to = tasks[i]
        /\ tasks[i].version = 0 => tasks[i] = T!NoTask

TasksInv == T!TypeOK /\ EditsAgree /\ TrailEndsHere

(* What EditsAreChained says of one step. *)
ChainStep ==
    \A i \in TaskItems :
        /\ trail'[i] # trail[i] => trail'[i].from = trail[i].to
        /\ tasks[i].status = "COMPLETED" /\ tasks'[i].status = "COMPLETED" =>
            tasks'[i].completedAt = tasks[i].completedAt

LEMMA NoTaskTyped == T!NoTask \in T!Task
BY TasksAssumed DEF T!TaskAssumption, T!NoTask, T!Task, T!Statuses

LEMMA IdleEdit == T!Idle \in T!Edit /\ T!Idle.step = "idle"
BY NoTaskTyped DEF T!Idle, T!Edit

LEMMA TasksBegin == T!Init => TasksInv
<1> SUFFICES ASSUME T!Init PROVE TasksInv
  OBVIOUS
<1>1. /\ tasks \in [TaskItems -> T!Task] /\ edits \in [Requests -> T!Edit]
      /\ trail \in [TaskItems -> [from : T!Task, to : T!Task]]
  BY NoTaskTyped, IdleEdit DEF T!Init
<1>2. \A i \in TaskItems : tasks[i] = T!NoTask /\ trail[i].to = T!NoTask
  BY DEF T!Init
<1>3. \A q \in Requests : edits[q].step = "idle"
  BY IdleEdit DEF T!Init
<1> QED
  BY <1>1, <1>2, <1>3 DEF TasksInv, T!TypeOK, T!Init, EditsAgree, TrailEndsHere

(* A request that reads, or ends, without a change of a task. *)
LEMMA EditMoves ==
    ASSUME TasksInv, NEW q \in Requests, NEW e \in T!Edit, T!Becomes(q, e),
           UNCHANGED <<tasks, trail>>, pending' \subseteq TaskItems,
           e.step \in {"create", "update"} => e.item \in TaskItems,
           e.step = "create" => e.assignedTo \in People \cup {Nobody},
           e.step = "update" => /\ T!Admissible(e.read, e.status)
                                /\ e.read.version > 0
                                /\ e.read = tasks[e.item]
    PROVE  TasksInv' /\ ChainStep
<1>1. /\ edits' \in [Requests -> T!Edit]
      /\ \A p \in Requests : edits'[p] = IF p = q THEN e ELSE edits[p]
  BY DEF TasksInv, T!TypeOK, T!Becomes
<1>2. e.step = "update" => tasks[e.item].version <= tasks[e.item].version
  BY TasksAssumed DEF T!TaskAssumption, TasksInv, T!TypeOK, T!Task
<1>3. EditsAgree'
  BY <1>1, <1>2 DEF TasksInv, EditsAgree, T!Admissible
<1> QED
  BY <1>1, <1>3 DEF TasksInv, T!TypeOK, TrailEndsHere, ChainStep

(* A request that writes a task it has an agreeing row of, and its record. *)
LEMMA TaskWritten ==
    ASSUME TasksInv, NEW q \in Requests, T!Becomes(q, T!Idle), pending' = pending,
           NEW i \in TaskItems, NEW old \in T!Task, NEW new \in T!Task, old = tasks[i],
           new.version > old.version,
           tasks' = [tasks EXCEPT ![i] = new],
           trail' = [trail EXCEPT ![i] = [from |-> old, to |-> new]],
           old.status = "COMPLETED" /\ new.status = "COMPLETED" => new.completedAt = old.completedAt
    PROVE  TasksInv' /\ ChainStep
<1>1. /\ edits' \in [Requests -> T!Edit]
      /\ \A p \in Requests : edits'[p] = IF p = q THEN T!Idle ELSE edits[p]
  BY IdleEdit DEF TasksInv, T!TypeOK, T!Becomes
<1>2. /\ tasks' \in [TaskItems -> T!Task] /\ tasks'[i] = new
      /\ \A j \in TaskItems \ {i} : tasks'[j] = tasks[j]
      /\ trail' \in [TaskItems -> [from : T!Task, to : T!Task]]
      /\ trail'[i].from = old /\ trail'[i].to = new
      /\ \A j \in TaskItems \ {i} : trail'[j] = trail[j]
  BY DEF TasksInv, T!TypeOK
<1>3. old.version \in Nat /\ new.version \in Nat
  BY TasksAssumed DEF T!TaskAssumption, T!Task
<1>4. EditsAgree'
  <2> SUFFICES ASSUME NEW p \in Requests, p # q, edits[p].step \in {"create", "update"}
               PROVE  /\ edits[p].item \in TaskItems
                      /\ edits[p].step = "create" => edits[p].assignedTo \in People \cup {Nobody}
                      /\ edits[p].step = "update" =>
                             /\ T!Admissible(edits[p].read, edits[p].status)
                             /\ edits[p].read.version > 0
                             /\ edits[p].read.version <= tasks'[edits[p].item].version
                             /\ edits[p].read.version = tasks'[edits[p].item].version
                                    => edits[p].read = tasks'[edits[p].item]
    BY <1>1, IdleEdit DEF EditsAgree
  <2>1. /\ edits[p].item \in TaskItems
        /\ edits[p].step = "create" => edits[p].assignedTo \in People \cup {Nobody}
        /\ edits[p].step = "update" =>
               /\ T!Admissible(edits[p].read, edits[p].status)
               /\ edits[p].read.version > 0
               /\ edits[p].read.version <= tasks[edits[p].item].version
               /\ edits[p].read.version = tasks[edits[p].item].version
                      => edits[p].read = tasks[edits[p].item]
    BY DEF TasksInv, EditsAgree
  <2>2. edits[p].read.version \in Nat
    BY TasksAssumed DEF T!TaskAssumption, TasksInv, T!TypeOK, T!Edit, T!Task
  <2>3. CASE edits[p].item = i
    BY <1>2, <1>3, <2>1, <2>2, <2>3
  <2>4. CASE edits[p].item # i
    BY <1>2, <2>1, <2>4
  <2> QED
    BY <2>3, <2>4
<1>5. TrailEndsHere'
  BY <1>2, <1>3 DEF TasksInv, TrailEndsHere
<1>6. ChainStep
  BY <1>2 DEF TasksInv, TrailEndsHere, ChainStep
<1> QED
  BY <1>1, <1>2, <1>4, <1>5, <1>6 DEF TasksInv, T!TypeOK

LEMMA CreateKeepsTasks ==
    ASSUME TasksInv, NEW q \in Requests, T!CreateFromChecklist(q) PROVE TasksInv' /\ ChainStep
<1> DEFINE e == edits[q]
           new == [T!NoTask EXCEPT !.assignedTo = e.assignedTo, !.version = 1]
<1>1. e \in T!Edit /\ e.item \in TaskItems /\ e.step = "create"
  BY DEF TasksInv, T!TypeOK, EditsAgree, T!CreateFromChecklist
<1>2. T!Becomes(q, T!Idle) /\ pending' = pending /\ pending \subseteq TaskItems
  BY DEF T!CreateFromChecklist, TasksInv, T!TypeOK
<1>3. CASE tasks[e.item].version > 0
  <2>1. UNCHANGED <<tasks, trail>>
    BY <1>3 DEF T!CreateFromChecklist
  <2> QED
    BY <1>2, <2>1, IdleEdit, EditMoves
<1>4. CASE ~(tasks[e.item].version > 0)
  <2>1. tasks[e.item] = T!NoTask
    <3>1. tasks[e.item].version \in Nat
      BY <1>1, TasksAssumed DEF T!TaskAssumption, TasksInv, T!TypeOK, T!Task
    <3> QED
      BY <1>1, <1>4, <3>1 DEF TasksInv, TrailEndsHere
  <2>2. /\ tasks' = [tasks EXCEPT ![e.item] = new]
        /\ trail' = [trail EXCEPT ![e.item] = [from |-> T!NoTask, to |-> new]]
    BY <1>4 DEF T!CreateFromChecklist
  <2>3. e.assignedTo \in People \cup {Nobody}
    BY <1>1 DEF TasksInv, EditsAgree
  <2>4. new \in T!Task /\ new.version = 1 /\ new.status = "OPEN"
    <3>1. 1 \in 0 .. MaxUpdates + 1
      BY TasksAssumed DEF T!TaskAssumption
    <3>2. "OPEN" \in T!Statuses /\ 0 \in 0 .. MaxUpdates + 1
      BY TasksAssumed DEF T!TaskAssumption, T!Statuses
    <3> QED
      BY <2>3, <3>1, <3>2 DEF T!NoTask, T!Task
  <2>5. T!NoTask.version = 0 /\ T!NoTask.status = "OPEN"
    BY DEF T!NoTask
  <2>6. new.version > T!NoTask.version
    BY <2>4, <2>5
  <2> HIDE DEF new
  <2> QED
    BY <1>1, <1>2, <2>1, <2>2, <2>4, <2>5, <2>6, NoTaskTyped, TaskWritten
<1> QED
  BY <1>3, <1>4

LEMMA UpdateKeepsTasks ==
    ASSUME TasksInv, NEW q \in Requests, T!Update(q) PROVE TasksInv' /\ ChainStep
<1> DEFINE e == edits[q]
           i == e.item
           old == tasks[i]
           new == T!Written(e)
<1>1. /\ e \in T!Edit /\ i \in TaskItems /\ e.step = "update" /\ T!Admissible(e.read, e.status)
      /\ e.read.version = tasks[i].version => e.read = tasks[i]
  BY DEF TasksInv, T!TypeOK, EditsAgree, T!Update
<1>2. e.read = old
  BY <1>1 DEF T!Update, T!Unchanged
<1>3. old \in T!Task /\ old.version <= MaxUpdates
  BY <1>1 DEF TasksInv, T!TypeOK, T!Update
<1>4. old.version + 1 \in 0 .. MaxUpdates + 1 /\ 0 \in 0 .. MaxUpdates + 1
  BY <1>3, TasksAssumed DEF T!TaskAssumption, T!Task
<1>5. /\ new.status = IF e.status = T!Keep THEN old.status ELSE e.status
      /\ new.completedAt = IF e.status = T!Keep THEN old.completedAt
                           ELSE IF e.status = "COMPLETED" THEN old.version + 1 ELSE 0
      /\ new.version = old.version + 1
  BY DEF T!Written
<1>6. new \in T!Task
  <2>1. e.status \in T!Statuses \cup {T!Keep} /\ e.assignedTo \in People \cup {Nobody, T!Keep}
    BY <1>1 DEF T!Edit
  <2> QED
    BY <1>3, <1>4, <2>1 DEF T!Written, T!Task
<1>7. new.version > old.version
  BY <1>3, <1>5, TasksAssumed DEF T!TaskAssumption, T!Task
<1>8. old.status = "COMPLETED" /\ new.status = "COMPLETED" => new.completedAt = old.completedAt
  BY <1>1, <1>2, <1>5 DEF T!Admissible
<1>9. /\ T!Becomes(q, T!Idle) /\ pending' = pending
      /\ tasks' = [tasks EXCEPT ![i] = new]
      /\ trail' = [trail EXCEPT ![i] = [from |-> old, to |-> new]]
  BY <1>2 DEF T!Update
<1> HIDE DEF new, i
<1>10. old = tasks[i]
  OBVIOUS
<1> HIDE DEF old
<1> QED
  BY <1>1, <1>3, <1>6, <1>7, <1>8, <1>9, <1>10, TaskWritten

LEMMA ReadKeepsTasks ==
    ASSUME TasksInv, NEW q \in Requests, NEW i \in TaskItems, NEW s \in T!Statuses \cup {T!Keep},
           NEW who \in People \cup {Nobody, T!Keep}, T!ReadForUpdate(q, i, s, who)
    PROVE  TasksInv' /\ ChainStep
<1> DEFINE e == [step |-> "update", item |-> i, read |-> tasks[i], status |-> s, assignedTo |-> who]
<1>1. e \in T!Edit /\ e.step = "update" /\ e.item = i /\ e.read = tasks[i] /\ e.status = s
  BY DEF TasksInv, T!TypeOK, T!Edit
<1>2. /\ T!Becomes(q, e) /\ UNCHANGED <<tasks, trail>> /\ T!Admissible(tasks[i], s)
      /\ tasks[i].version > 0 /\ pending' = pending
  BY DEF T!ReadForUpdate
<1>3. pending' \subseteq TaskItems
  BY <1>2 DEF TasksInv, T!TypeOK
<1> HIDE DEF e
<1> QED
  BY <1>1, <1>2, <1>3, EditMoves

LEMMA SourceKeepsTasks ==
    ASSUME TasksInv, NEW q \in Requests, NEW i \in TaskItems, NEW who \in People \cup {Nobody},
           T!GetTaskSource(q, i, who)
    PROVE  TasksInv' /\ ChainStep
<1> DEFINE e == [T!Idle EXCEPT !.step = "create", !.item = i, !.assignedTo = who]
<1>1. e \in T!Edit /\ e.step = "create" /\ e.item = i /\ e.assignedTo = who
  BY IdleEdit DEF T!Edit
<1>2. T!Becomes(q, e) /\ UNCHANGED <<tasks, trail, pending>> /\ pending \subseteq TaskItems
  BY DEF T!GetTaskSource, TasksInv, T!TypeOK
<1> HIDE DEF e
<1> QED
  BY <1>1, <1>2, EditMoves

LEMMA TasksStep == ASSUME TasksInv, [T!Next]_(T!vars) PROVE TasksInv' /\ ChainStep
<1>1. CASE UNCHANGED T!vars
  BY <1>1 DEF T!vars, TasksInv, T!TypeOK, EditsAgree, TrailEndsHere, ChainStep
<1>2. ASSUME NEW i \in TaskItems, T!Review(i) PROVE TasksInv' /\ ChainStep
  BY <1>2 DEF T!Review, TasksInv, T!TypeOK, EditsAgree, TrailEndsHere, ChainStep
<1>3. ASSUME NEW q \in Requests, T!Abort(q) PROVE TasksInv' /\ ChainStep
  BY <1>3, IdleEdit, EditMoves DEF T!Abort, TasksInv, T!TypeOK
<1> QED
  BY <1>1, <1>2, <1>3, SourceKeepsTasks, CreateKeepsTasks, ReadKeepsTasks, UpdateKeepsTasks
  DEF T!Next

(* The records of a task's trail follow from one another, whoever read and
   wrote it at once, and a completed task keeps the moment it was completed
   (tasks.service.ts, update). *)
THEOREM TrailIsAChain == OfficeSpec => EditsAreChained
<1>1. OfficeInit => TasksInv
  BY TasksBegin DEF OfficeInit
<1>2. [OfficeNext]_officeVars => [T!Next]_(T!vars)
  BY DEF OfficeNext, officeVars, deskVars, taskVars, T!vars
<1>3. TasksInv /\ [OfficeNext]_officeVars => TasksInv'
  BY <1>2, TasksStep
<1>4. TasksInv /\ [OfficeNext]_officeVars => [ChainStep]_(T!vars)
  BY <1>2, TasksStep
<1> QED
  BY <1>1, <1>3, <1>4, PTL DEF OfficeSpec, EditsAreChained, T!EditsAreChained, ChainStep

-----------------------------------------------------------------------------
(* Checklists *)

(* Status, document and reviewer of an item belong together. *)
Whole(row) ==
    /\ row.status \in C!documentRequiredStatuses <=> row.document # NoEvidence
    /\ row.status \in C!humanReviewedStatuses <=> row.validatedBy # NoReviewer

(* What the update of a request makes of its item, and of the items. *)
After(u, row) ==
    [row EXCEPT !.status = IF u.status = C!Keep THEN @ ELSE u.status,
                !.document = IF u.document = C!Keep THEN @ ELSE u.document,
                !.validatedBy = u.validatedBy]
AllAfter(u, rows) == [rows EXCEPT ![u.item] = After(u, rows[u.item])]

(* What a request that has read its item counts on, unless it was overtaken:
   its item will be whole, and the status of the checklist as it counted it. *)
CountsOn(u, rows) ==
    u.step # "idle" =>
        /\ u.item \in ListItems
        /\ u.older \/ Whole(After(u, rows[u.item]))
        /\ u.step = "counted" => u.counted # "none"
        /\ u.step = "counted" /\ u.counted = "COMPLETED" =>
               u.overtaken \/ C!PendingRequired(AllAfter(u, rows)) = {}

ChecklistInv ==
    /\ C!TypeOK
    /\ \A q \in Requests : CountsOn(updates[q], items)
    /\ C!ChecklistHolds

LEMMA WholeItems == C!ReviewIsWhole <=> \A i \in ListItems \ mixed : Whole(items[i])
BY DEF C!ReviewIsWhole, Whole

LEMMA WrittenIsAfter ==
    ASSUME C!TypeOK, NEW u \in C!Update, u.item \in ListItems
    PROVE  /\ C!Written(u) = AllAfter(u, items)
           /\ After(u, items[u.item]) \in C!Item
           /\ AllAfter(u, items) \in [ListItems -> C!Item]
<1> DEFINE row == items[u.item]
           status == IF u.status = C!Keep THEN row.status ELSE u.status
           document == IF u.document = C!Keep THEN row.document ELSE u.document
<1>1. row \in C!Item /\ items \in [ListItems -> C!Item]
  BY DEF C!TypeOK
<1>2. status \in C!Statuses /\ document \in Evidence \cup {NoEvidence}
      /\ u.validatedBy \in Reviewers \cup {NoReviewer}
  BY <1>1 DEF C!Item, C!Update
<1>3. After(u, row) = [row EXCEPT !.status = status, !.document = document,
                                  !.validatedBy = u.validatedBy]
  BY DEF After
<1>4. C!Written(u) = [items EXCEPT ![u.item].status = status, ![u.item].document = document,
                                   ![u.item].validatedBy = u.validatedBy]
  BY <1>1 DEF C!Written, C!Item
<1> HIDE DEF status, document
<1>5. After(u, row) \in C!Item
  BY <1>1, <1>2, <1>3 DEF C!Item
<1>6. C!Written(u) = [items EXCEPT ![u.item] = [row EXCEPT !.status = status,
                             !.document = document, !.validatedBy = u.validatedBy]]
  BY <1>1, <1>4 DEF C!Item
<1> QED
  BY <1>1, <1>3, <1>5, <1>6 DEF AllAfter

LEMMA IdleUpdate == C!Idle \in C!Update /\ C!Idle.step = "idle"
BY DEF C!Idle, C!Update

LEMMA ChecklistBegins == C!Init => ChecklistInv
<1> SUFFICES ASSUME C!Init PROVE ChecklistInv
  OBVIOUS
<1>1. C!Blank \in C!Item /\ Whole(C!Blank)
  BY DEF C!Blank, C!Item, C!Statuses, Whole, C!documentRequiredStatuses, C!humanReviewedStatuses
<1>2. C!TypeOK
  BY <1>1, IdleUpdate DEF C!Init, C!TypeOK
<1>3. \A i \in ListItems : Whole(items[i])
  BY <1>1 DEF C!Init
<1>4. C!ChecklistHolds
  BY <1>3, WholeItems DEF C!Init, C!ChecklistHolds, C!CompletedUnlessOvertaken, C!CompletedIsReviewed
<1> QED
  BY <1>2, <1>4, IdleUpdate DEF C!Init, ChecklistInv, CountsOn

(* A request moves, and the items stay. *)
LEMMA UpdateMoves ==
    ASSUME ChecklistInv, NEW q \in Requests, NEW u \in C!Update, C!Becomes(q, u),
           UNCHANGED <<items, checklist, mixed, stale>>, CountsOn(u, items)
    PROVE  ChecklistInv'
<1>1. /\ updates' \in [Requests -> C!Update]
      /\ \A p \in Requests : updates'[p] = IF p = q THEN u ELSE updates[p]
  BY DEF ChecklistInv, C!TypeOK, C!Becomes
<1>2. \A p \in Requests : CountsOn(updates[p], items)'
  BY <1>1 DEF ChecklistInv
<1> QED
  BY <1>1, <1>2 DEF ChecklistInv, C!TypeOK, C!ChecklistHolds, C!CompletedUnlessOvertaken,
     C!CompletedIsReviewed, C!ReviewIsWhole

(* The items change: whoever had read or counted them otherwise is marked. *)
LEMMA OthersAreOvertaken ==
    ASSUME ChecklistInv, NEW now \in [ListItems -> C!Item], NEW p \in Requests
    PROVE  C!Overtaken(now)[p] \in C!Update /\ CountsOn(C!Overtaken(now)[p], now)
<1> DEFINE s == updates[p]
           t == C!Overtaken(now)[p]
           overtaken == s.overtaken \/ (s.step = "counted" /\ now # items)
           older == s.older \/ now[s.item] # items[s.item]
<1>1. s \in C!Update /\ CountsOn(s, items)
  BY DEF ChecklistInv, C!TypeOK
<1>2. CASE s.step = "idle"
  BY <1>1, <1>2 DEF C!Overtaken, CountsOn
<1>3. CASE s.step # "idle"
  <2>1. t = [s EXCEPT !.overtaken = overtaken, !.older = older]
    BY <1>3 DEF C!Overtaken
  <2>2. overtaken \in BOOLEAN /\ older \in BOOLEAN
    BY Zenon
  <2>3. s.item \in ListItems
    BY <1>1, <1>3 DEF CountsOn
  <2> HIDE DEF overtaken, older, t
  <2>4. /\ t \in C!Update /\ t.step = s.step /\ t.item = s.item /\ t.status = s.status
        /\ t.document = s.document /\ t.validatedBy = s.validatedBy /\ t.counted = s.counted
        /\ t.overtaken = overtaken /\ t.older = older
    BY <1>1, <2>1, <2>2 DEF C!Update
  <2>5. t.older \/ Whole(After(t, now[t.item]))
    <3>1. CASE older
      BY <2>4, <3>1
    <3>2. CASE ~older
      <4>1. now[s.item] = items[s.item] /\ ~s.older
        BY <3>2 DEF older
      <4>2. Whole(After(s, items[s.item]))
        BY <1>1, <1>3, <4>1 DEF CountsOn
      <4>3. After(t, now[t.item]) = After(s, items[s.item])
        BY <2>4, <4>1 DEF After
      <4> QED
        BY <4>2, <4>3
    <3> QED
      BY <3>1, <3>2
  <2>6. ASSUME t.step = "counted", t.counted = "COMPLETED"
        PROVE  t.overtaken \/ C!PendingRequired(AllAfter(t, now)) = {}
    <3>1. CASE overtaken
      BY <2>4, <3>1
    <3>2. CASE ~overtaken
      <4>1. now = items /\ ~s.overtaken
        BY <2>4, <2>6, <3>2 DEF overtaken
      <4>2. C!PendingRequired(AllAfter(s, items)) = {}
        BY <1>1, <1>3, <2>4, <2>6, <4>1 DEF CountsOn
      <4>3. AllAfter(t, now) = AllAfter(s, items)
        BY <2>4, <4>1 DEF AllAfter, After
      <4> QED
        BY <4>2, <4>3
    <3> QED
      BY <3>1, <3>2
  <2>7. t.step = "counted" => t.counted # "none"
    BY <1>1, <1>3, <2>4 DEF CountsOn
  <2> QED
    BY <2>3, <2>4, <2>5, <2>6, <2>7 DEF CountsOn, t
<1> QED
  BY <1>2, <1>3

LEMMA ItemsChange ==
    ASSUME ChecklistInv, NEW now \in [ListItems -> C!Item], items' = now,
           updates' \in [Requests -> C!Update],
           \A p \in Requests : updates'[p] = C!Idle \/ updates'[p] = C!Overtaken(now)[p],
           mixed' \subseteq ListItems, stale' \in BOOLEAN,
           checklist' \in {"COMPLETED", "NEEDS_REVIEW"},
           checklist' = "COMPLETED" => stale' \/ C!PendingRequired(now) = {},
           \A i \in ListItems \ mixed' : Whole(now[i])
    PROVE  ChecklistInv'
<1>1. \A p \in Requests : CountsOn(updates[p], items)'
  BY OthersAreOvertaken, IdleUpdate DEF CountsOn
<1>2. C!ReviewIsWhole'
  BY DEF C!ReviewIsWhole, Whole
<1>3. C!CompletedUnlessOvertaken'
  BY DEF C!CompletedUnlessOvertaken, C!CompletedIsReviewed
<1> QED
  BY <1>1, <1>2, <1>3 DEF ChecklistInv, C!TypeOK, C!ChecklistHolds

(* A status, a document and a reviewer chosen as the service chooses them. *)
LEMMA ReviewableIsWhole ==
    ASSUME NEW row \in C!Item, NEW status \in C!Statuses, NEW who \in Reviewers,
           NEW document \in Evidence \cup {NoEvidence},
           row.status = status, row.document = document, row.validatedBy = C!ReviewerFor(status, who),
           status \in {"MISSING", "NOT_APPLICABLE"} => document = NoEvidence,
           status \in C!documentRequiredStatuses => document # NoEvidence
    PROVE  Whole(row)
BY ChecklistAssumed DEF C!ChecklistAssumption, Whole, C!ReviewerFor, C!Statuses,
   C!documentRequiredStatuses, C!humanReviewedStatuses

LEMMA ReadKeepsChecklist ==
    ASSUME ChecklistInv, NEW q \in Requests, NEW i \in ListItems, NEW who \in Reviewers,
           NEW s \in C!Statuses \cup {C!Keep}, NEW d \in Evidence \cup {NoEvidence, C!Keep},
           C!ReadItem(q, i, who, s, d)
    PROVE  ChecklistInv'
<1> DEFINE row == items[i]
           status == IF s = C!Keep THEN row.status ELSE s
           document == C!DocumentFor(i, status, d)
           written == IF d = C!Keep /\ document = row.document THEN C!Keep ELSE document
           u == [C!Idle EXCEPT !.step = "read", !.item = i, !.status = s,
                               !.document = written, !.validatedBy = C!ReviewerFor(status, who)]
<1>1. row \in C!Item
  BY DEF ChecklistInv, C!TypeOK
<1>2. status \in C!Statuses
  BY <1>1 DEF C!Item
<1>3. document \in Evidence \cup {NoEvidence}
  BY <1>1 DEF C!DocumentFor, C!Item
<1>4. /\ C!Reviewable(status, d, document) /\ C!Becomes(q, u)
      /\ UNCHANGED <<items, checklist, mixed, stale>>
  BY DEF C!ReadItem
<1>5. document # C!Keep
  BY <1>3, ChecklistAssumed DEF C!ChecklistAssumption
<1>6. /\ status \in {"MISSING", "NOT_APPLICABLE"} => document = NoEvidence
      /\ status \in C!documentRequiredStatuses => document # NoEvidence
  BY <1>4 DEF C!Reviewable, C!DocumentFor
<1>7. (IF written = C!Keep THEN row.document ELSE written) = document
  BY <1>5
<1>8. written \in Evidence \cup {NoEvidence, C!Keep}
      /\ C!ReviewerFor(status, who) \in Reviewers \cup {NoReviewer}
  BY <1>3 DEF C!ReviewerFor
<1>9. (IF s = C!Keep THEN row.status ELSE s) = status
  OBVIOUS
<1> HIDE DEF status, document, written
<1>10. /\ u \in C!Update /\ u.step = "read" /\ u.item = i /\ u.status = s
       /\ u.document = written /\ u.validatedBy = C!ReviewerFor(status, who)
  BY <1>8, IdleUpdate DEF C!Update
<1> HIDE DEF u
<1>11. After(u, row) = [row EXCEPT !.status = status, !.document = document,
                                   !.validatedBy = C!ReviewerFor(status, who)]
  BY <1>7, <1>9, <1>10 DEF After
<1>12. /\ After(u, row) \in C!Item /\ After(u, row).status = status
       /\ After(u, row).document = document
       /\ After(u, row).validatedBy = C!ReviewerFor(status, who)
  BY <1>1, <1>2, <1>3, <1>8, <1>11 DEF C!Item
<1>13. Whole(After(u, row))
  BY <1>2, <1>3, <1>6, <1>12, ReviewableIsWhole
<1>14. CountsOn(u, items)
  BY <1>10, <1>13 DEF CountsOn
<1> QED
  BY <1>4, <1>10, <1>14, UpdateMoves

LEMMA HoldKeepsChecklist ==
    ASSUME ChecklistInv, NEW q \in Requests, C!UpdateItem(q) PROVE ChecklistInv'
<1> DEFINE s == updates[q]
           u == [s EXCEPT !.step = "updated"]
<1>1. s \in C!Update /\ CountsOn(s, items) /\ s.step = "read"
  BY DEF ChecklistInv, C!TypeOK, C!UpdateItem
<1>2. /\ u \in C!Update /\ u.step = "updated" /\ u.item = s.item /\ u.status = s.status
      /\ u.document = s.document /\ u.validatedBy = s.validatedBy /\ u.older = s.older
  BY <1>1 DEF C!Update
<1>3. C!Becomes(q, u) /\ UNCHANGED <<items, checklist, mixed, stale>>
  BY DEF C!UpdateItem
<1> HIDE DEF u, s
<1>4. CountsOn(u, items)
  BY <1>1, <1>2 DEF CountsOn, After
<1> QED
  BY <1>2, <1>3, <1>4, UpdateMoves

LEMMA CountKeepsChecklist ==
    ASSUME ChecklistInv, NEW q \in Requests, C!RefreshChecklistStatus(q) PROVE ChecklistInv'
<1> DEFINE s == updates[q]
           u == [s EXCEPT !.step = "counted", !.counted = C!StatusFor(s)]
<1>1. s \in C!Update /\ CountsOn(s, items) /\ s.step = "updated" /\ C!TypeOK
  BY DEF ChecklistInv, C!TypeOK, C!RefreshChecklistStatus
<1>2. C!Written(s) = AllAfter(s, items)
  BY <1>1, WrittenIsAfter DEF CountsOn
<1>3. C!StatusFor(s) \in {"COMPLETED", "NEEDS_REVIEW"}
  BY DEF C!StatusFor
<1>4. /\ u \in C!Update /\ u.step = "counted" /\ u.item = s.item /\ u.status = s.status
      /\ u.document = s.document /\ u.validatedBy = s.validatedBy /\ u.older = s.older
      /\ u.counted = C!StatusFor(s)
  BY <1>1, <1>3 DEF C!Update
<1>5. C!Becomes(q, u) /\ UNCHANGED <<items, checklist, mixed, stale>>
  BY DEF C!RefreshChecklistStatus
<1> HIDE DEF u, s
<1>6. u.counted # "none" /\ (u.counted = "COMPLETED" => C!PendingRequired(AllAfter(u, items)) = {})
  <2>1. AllAfter(u, items) = AllAfter(s, items)
    BY <1>4 DEF AllAfter, After
  <2> QED
    BY <1>2, <1>3, <1>4, <2>1 DEF C!StatusFor
<1>7. CountsOn(u, items)
  BY <1>1, <1>4, <1>6 DEF CountsOn, After
<1> QED
  BY <1>4, <1>5, <1>7, UpdateMoves

LEMMA CommitKeepsChecklist ==
    ASSUME ChecklistInv, NEW q \in Requests, C!CommitUpdate(q) PROVE ChecklistInv'
<1> DEFINE u == updates[q]
           now == AllAfter(u, items)
<1>1. u \in C!Update /\ CountsOn(u, items) /\ u.step = "counted" /\ C!TypeOK
  BY DEF ChecklistInv, C!TypeOK, C!CommitUpdate
<1>2. u.item \in ListItems
  BY <1>1 DEF CountsOn
<1>3. C!Written(u) = now /\ now \in [ListItems -> C!Item]
  BY <1>1, <1>2, WrittenIsAfter
<1>4. /\ items' = now /\ checklist' = u.counted /\ stale' = u.overtaken
      /\ updates' = [C!Overtaken(items') EXCEPT ![q] = C!Idle]
      /\ mixed' = IF u.older THEN mixed \cup {u.item} ELSE mixed \ {u.item}
  BY <1>3 DEF C!CommitUpdate
<1>5. u.counted \in {"COMPLETED", "NEEDS_REVIEW"} /\ u.overtaken \in BOOLEAN
  BY <1>1 DEF C!Update, CountsOn
<1>6. u.counted = "COMPLETED" => u.overtaken \/ C!PendingRequired(now) = {}
  BY <1>1 DEF CountsOn
<1>7. \A p \in Requests : updates'[p] = IF p = q THEN C!Idle ELSE C!Overtaken(now)[p]
  BY <1>4 DEF C!Overtaken
<1>8. updates' \in [Requests -> C!Update]
  <2>1. \A p \in Requests : updates'[p] \in C!Update
    BY <1>3, <1>7, IdleUpdate, OthersAreOvertaken
  <2> QED
    BY <1>4, <2>1 DEF C!Overtaken
<1>9. \A i \in ListItems \ mixed' : Whole(now[i])
  <2>1. now[u.item] = After(u, items[u.item]) /\ \A i \in ListItems \ {u.item} : now[i] = items[i]
    BY <1>1, <1>2 DEF AllAfter, C!TypeOK
  <2>2. u.older \/ Whole(now[u.item])
    BY <1>1, <2>1 DEF CountsOn
  <2>3. \A i \in ListItems \ mixed : Whole(items[i])
    BY WholeItems DEF ChecklistInv, C!ChecklistHolds
  <2> QED
    BY <1>4, <2>1, <2>2, <2>3
<1>10. mixed' \subseteq ListItems
  BY <1>1, <1>2, <1>4 DEF C!TypeOK
<1> HIDE DEF now, u
<1> QED
  BY <1>3, <1>4, <1>5, <1>6, <1>7, <1>8, <1>9, <1>10, ItemsChange

LEMMA AnalyseKeepsChecklist ==
    ASSUME ChecklistInv, NEW S \in SUBSET ListItems, NEW d \in Evidence, C!Analyse(S, d)
    PROVE  ChecklistInv'
<1> DEFINE now == [i \in ListItems |->
               IF i \in S /\ C!Promotable(i)
                 THEN [items[i] EXCEPT !.status = "AWAITING_VALIDATION", !.document = d]
                 ELSE items[i]]
<1>1. /\ items' = now /\ checklist' = "NEEDS_REVIEW" /\ updates' = C!Overtaken(now)
      /\ stale' = FALSE /\ mixed' = mixed
  BY DEF C!Analyse
<1>2. \A i \in ListItems : items[i] \in C!Item
  BY DEF ChecklistInv, C!TypeOK
<1>3. ASSUME NEW i \in ListItems, i \in S, C!Promotable(i)
      PROVE  LET new == [items[i] EXCEPT !.status = "AWAITING_VALIDATION", !.document = d]
             IN  new \in C!Item /\ (Whole(items[i]) => Whole(new))
  <2>1. items[i] \in C!Item /\ items[i].status = "MISSING" /\ d # NoEvidence
    BY <1>2, <1>3, ChecklistAssumed DEF C!ChecklistAssumption, C!Promotable
  <2> QED
    BY <2>1 DEF C!Item, C!Statuses, Whole, C!documentRequiredStatuses, C!humanReviewedStatuses
<1>4. now \in [ListItems -> C!Item]
  BY <1>2, <1>3
<1>5. \A i \in ListItems \ mixed : Whole(now[i])
  <2>1. \A i \in ListItems \ mixed : Whole(items[i])
    BY WholeItems DEF ChecklistInv, C!ChecklistHolds
  <2> QED
    BY <1>3, <2>1
<1> HIDE DEF now
<1>6. updates' \in [Requests -> C!Update]
  <2>1. \A p \in Requests : updates'[p] \in C!Update
    BY <1>1, <1>4, OthersAreOvertaken
  <2> QED
    BY <1>1, <2>1 DEF C!Overtaken
<1>7. mixed \subseteq ListItems
  BY DEF ChecklistInv, C!TypeOK
<1> QED
  BY <1>1, <1>4, <1>5, <1>6, <1>7, ItemsChange

LEMMA ChecklistStep == ASSUME ChecklistInv, [C!Next]_(C!vars) PROVE ChecklistInv'
<1>1. CASE UNCHANGED C!vars
  BY <1>1 DEF C!vars, ChecklistInv, C!TypeOK, C!ChecklistHolds, C!CompletedUnlessOvertaken,
     C!CompletedIsReviewed, C!ReviewIsWhole
<1>2. CASE C!Apply
  BY <1>2 DEF C!Apply, ChecklistInv, C!TypeOK, C!ChecklistHolds, C!CompletedUnlessOvertaken,
     C!CompletedIsReviewed, C!ReviewIsWhole
<1>3. ASSUME NEW q \in Requests, C!Abort(q) PROVE ChecklistInv'
  BY <1>3, IdleUpdate, UpdateMoves DEF C!Abort, CountsOn
<1>4. ASSUME NEW q \in Requests, NEW i \in ListItems, NEW s \in Asked[i] \cup {C!Keep},
             NEW who \in Reviewers, NEW d \in Evidence \cup {NoEvidence, C!Keep},
             C!ReadItem(q, i, who, s, d)
      PROVE  ChecklistInv'
  <2>1. s \in C!Statuses \cup {C!Keep}
    BY ChecklistAssumed DEF C!ChecklistAssumption
  <2> QED
    BY <1>4, <2>1, ReadKeepsChecklist
<1> QED
  BY <1>1, <1>2, <1>3, <1>4, HoldKeepsChecklist, CountKeepsChecklist, CommitKeepsChecklist,
     AnalyseKeepsChecklist DEF C!Next

(* A checklist is completed with its required items reviewed, and the fields of
   an item belong together, but for what was written over a change that the
   writer had not seen (checklists.service.ts, updateItem and
   refreshChecklistStatus). *)
THEOREM ChecklistsHold == OfficeSpec => []ChecklistHolds
<1>1. OfficeInit => ChecklistInv
  BY ChecklistBegins DEF OfficeInit
<1>2. ChecklistInv /\ [OfficeNext]_officeVars => ChecklistInv'
  <2>1. [OfficeNext]_officeVars => [C!Next]_(C!vars)
    BY DEF OfficeNext, officeVars, deskVars, checklistVars, C!vars
  <2> QED
    BY <2>1, ChecklistStep
<1>3. ChecklistInv => ChecklistHolds
  BY DEF ChecklistInv, ChecklistHolds
<1> QED
  BY <1>1, <1>2, <1>3, PTL DEF OfficeSpec

-----------------------------------------------------------------------------
(* PreparationDigest, with the one worker that docker-compose.yml starts. *)

OneSweeper == \A v, w \in Sweepers : v = w

Completion == [id : 1 .. MaxDone, case : Prepared, finishedAt : 1 .. Horizon]
BucketOf == [to : Recipients, counts : SUBSET Completion, left : SUBSET Completion]
SweepOf == [step : {"idle", "marked", "grouped"}, now : 0 .. Horizon,
            marks : [Recipients -> SUBSET Nat] \union {{}}, buckets : SUBSET BucketOf]

(* No row of p is later than its watermark. *)
Covered(p, marks) == \A e \in digests : e.to = p => \E t \in marks[p] : e.createdAt <= t

(* What a sweep knows of a bucket it has yet to write. *)
BucketHolds(b, s) ==
    /\ b.counts \subseteq done /\ b.left \subseteq done
    /\ Covered(b.to, s.marks)
    /\ D!Due(s.marks[b.to], s.now)
    /\ \A x \in b.counts : D!Counts(x, s.marks[b.to]) /\ x.finishedAt <= s.now

SweepHolds(s) ==
    /\ s.step # "grouped" => s.buckets = {}
    /\ s.step # "idle" => s.now \in 1 .. clock /\ s.marks \in [Recipients -> SUBSET Nat]
    /\ s.step = "marked" => \A p \in Recipients : Covered(p, s.marks)
    /\ \A b \in s.buckets : BucketHolds(b, s)
    /\ \A b, c \in s.buckets : b.to = c.to => b = c

(* The rows of a person have a last one; none tells of what came after it. *)
RowsAreTimely ==
    /\ \A d \in digests : d.createdAt <= clock /\ \A x \in d.counts : x.finishedAt <= d.createdAt
    /\ \A e \in digests : \E d \in digests :
           d.to = e.to /\ \A c \in digests : c.to = e.to => c.createdAt <= d.createdAt

DigestInv ==
    /\ D!TypeOK /\ IsFiniteSet(done)
    /\ sweeps \in [Sweepers -> SweepOf] /\ \A w \in Sweepers : SweepHolds(sweeps[w])
    /\ lastSwept \in [Sweepers -> SUBSET (1 .. Horizon)]
    /\ RowsAreTimely
    /\ D!TellsOnce

LEMMA IdleSweep == D!Idle \in SweepOf /\ D!Idle.step = "idle" /\ D!Idle.buckets = {}
BY DigestAssumed DEF D!DigestAssumption, D!Idle, SweepOf

LEMMA IdleHolds == SweepHolds(D!Idle)
BY IdleSweep DEF SweepHolds

LEMMA DigestBegins == D!Init => DigestInv
<1> SUFFICES ASSUME D!Init PROVE DigestInv
  OBVIOUS
<1>1. 1 \in 1 .. Horizon /\ 0 \in 0 .. MaxRestarts
  BY DigestAssumed DEF D!DigestAssumption
<1>2. IsFiniteSet(done)
  BY FS_EmptySet DEF D!Init
<1>3. sweeps \in [Sweepers -> SweepOf] /\ \A w \in Sweepers : sweeps[w] = D!Idle
  BY IdleSweep DEF D!Init
<1>4. D!TypeOK
  BY <1>1 DEF D!Init, D!TypeOK
<1>5. digests = {} /\ lastSwept \in [Sweepers -> SUBSET (1 .. Horizon)]
  BY DEF D!Init
<1> QED
  BY <1>2, <1>3, <1>4, <1>5, IdleHolds
  DEF DigestInv, RowsAreTimely, D!TellsOnce, D!ToldOnce, D!OnceADay

(* The last row of a person is at its watermark. *)
LEMMA MarksCover ==
    ASSUME DigestInv
    PROVE  /\ D!LastEnqueued \in [Recipients -> SUBSET Nat]
           /\ \A p \in Recipients : Covered(p, D!LastEnqueued)
<1> SUFFICES ASSUME NEW p \in Recipients
             PROVE  D!LastEnqueued[p] \in SUBSET Nat /\ Covered(p, D!LastEnqueued)
  BY DEF D!LastEnqueued
<1> DEFINE times == {d.createdAt : d \in {x \in digests : x.to = p}}
<1>1. D!LastEnqueued[p] = IF times = {} THEN {} ELSE {D!Max(times)}
  BY DEF D!LastEnqueued
<1>2. CASE times = {}
  BY <1>1, <1>2 DEF Covered
<1>3. CASE times # {}
  <2>1. PICK e \in digests : e.to = p
    BY <1>3
  <2>2. PICK d \in digests : d.to = p /\ \A c \in digests : c.to = p => c.createdAt <= d.createdAt
    BY <2>1 DEF DigestInv, RowsAreTimely
  <2>3. \A t \in times : t \in Nat
    BY DigestAssumed DEF D!DigestAssumption, DigestInv, D!TypeOK
  <2>4. d.createdAt \in times /\ \A t \in times : d.createdAt >= t
    BY <2>2, <2>3
  <2>5. D!Max(times) \in times /\ \A t \in times : D!Max(times) >= t
    BY <2>4 DEF D!Max
  <2>6. \A c \in digests : c.to = p => c.createdAt \in times
    OBVIOUS
  <2> HIDE DEF times
  <2>7. \A c \in digests : c.to = p => c.createdAt <= D!Max(times)
    BY <2>3, <2>5, <2>6
  <2> QED
    BY <1>1, <1>3, <2>3, <2>5, <2>7 DEF Covered
<1> QED
  BY <1>2, <1>3

(* A sweep that moves without a row written. *)
LEMMA SweepMoves ==
    ASSUME DigestInv, NEW w \in Sweepers, NEW s \in SweepOf, sweeps' = [sweeps EXCEPT ![w] = s],
           SweepHolds(s), UNCHANGED <<clock, responsible, done, digests>>,
           restarts' \in 0 .. MaxRestarts, lastSwept' \in [Sweepers -> SUBSET (1 .. Horizon)]
    PROVE  DigestInv'
<1>1. /\ sweeps' \in [Sweepers -> SweepOf]
      /\ \A v \in Sweepers : sweeps'[v] = IF v = w THEN s ELSE sweeps[v]
  BY DEF DigestInv
<1>2. \A v \in Sweepers : SweepHolds(sweeps[v])'
  BY <1>1 DEF DigestInv, SweepHolds, BucketHolds, Covered, D!Due, D!Counts
<1> QED
  BY <1>1, <1>2 DEF DigestInv, D!TypeOK, RowsAreTimely, D!TellsOnce, D!ToldOnce, D!OnceADay,
     D!SamePerson

LEMMA BeginKeepsDigest ==
    ASSUME DigestInv, NEW w \in Sweepers, D!Begin(w) PROVE DigestInv'
<1> DEFINE s == [step |-> "marked", now |-> clock, marks |-> D!LastEnqueued, buckets |-> {}]
<1>1. clock \in 1 .. Horizon
  BY DEF DigestInv, D!TypeOK
<1>2. clock \in 0 .. Horizon /\ clock \in 1 .. clock
  BY <1>1, DigestAssumed DEF D!DigestAssumption
<1>3. /\ s \in SweepOf /\ s.step = "marked" /\ s.now = clock /\ s.marks = D!LastEnqueued
      /\ s.buckets = {}
  BY <1>2, MarksCover DEF SweepOf
<1>4. /\ sweeps' = [sweeps EXCEPT ![w] = s] /\ UNCHANGED <<clock, responsible, done, digests>>
      /\ restarts' = restarts /\ lastSwept' = [lastSwept EXCEPT ![w] = {clock}]
  BY DEF D!Begin
<1> HIDE DEF s
<1>5. SweepHolds(s)
  BY <1>2, <1>3, MarksCover DEF SweepHolds
<1>6. restarts \in 0 .. MaxRestarts /\ lastSwept' \in [Sweepers -> SUBSET (1 .. Horizon)]
  BY <1>1, <1>4 DEF DigestInv, D!TypeOK
<1> QED
  BY <1>3, <1>4, <1>5, <1>6, SweepMoves

LEMMA GroupKeepsDigest ==
    ASSUME DigestInv, NEW w \in Sweepers, D!Group(w) PROVE DigestInv'
<1> DEFINE old == sweeps[w]
           buckets == {b \in {D!Bucket(p, old) : p \in Recipients} : b.counts # {}}
           s == [old EXCEPT !.step = "grouped", !.buckets = buckets]
<1>1. old \in SweepOf /\ SweepHolds(old) /\ old.step = "marked"
  BY DEF DigestInv, D!Group
<1>2. /\ sweeps' = [sweeps EXCEPT ![w] = IF buckets = {} THEN D!Idle ELSE s]
      /\ UNCHANGED <<clock, responsible, done, digests, lastSwept, restarts>>
  BY DEF D!Group, DigestInv
<1>3. restarts' \in 0 .. MaxRestarts /\ lastSwept' \in [Sweepers -> SUBSET (1 .. Horizon)]
  BY <1>2 DEF DigestInv, D!TypeOK
<1>4. \A p \in Recipients :
          LET b == D!Bucket(p, old) IN
          /\ b.to = p /\ b \in BucketOf /\ b.counts \subseteq done /\ b.left \subseteq done
          /\ \A x \in b.counts :
                 D!Due(old.marks[p], old.now) /\ D!Counts(x, old.marks[p]) /\ x.finishedAt <= old.now
  <2> TAKE p \in Recipients
  <2>1. done \subseteq Completion
    BY DEF DigestInv, D!TypeOK, Completion
  <2>2. D!Taken(old.now) \subseteq D!Within(old.now) /\ D!Within(old.now) \subseteq done
        /\ \A x \in D!Within(old.now) : x.finishedAt <= old.now
    BY DEF D!Taken, D!Within
  <2>3. \A S : D!News(p, S, old) \subseteq S /\ \A x \in D!News(p, S, old) :
                    D!Due(old.marks[p], old.now) /\ D!Counts(x, old.marks[p])
    BY DEF D!News
  <2> DEFINE told == D!News(p, D!Taken(old.now), old)
             left == D!News(p, D!Within(old.now), old) \ told
  <2>4. D!Bucket(p, old) = [to |-> p, counts |-> told, left |-> left]
    BY DEF D!Bucket
  <2>5. /\ told \subseteq done /\ left \subseteq done
        /\ \A x \in told : D!Due(old.marks[p], old.now) /\ D!Counts(x, old.marks[p])
                           /\ x.finishedAt <= old.now
    BY <2>2, <2>3
  <2> HIDE DEF told, left
  <2> QED
    BY <2>1, <2>4, <2>5 DEF BucketOf
<1>5. buckets \subseteq BucketOf
  BY <1>4
<1>6. CASE buckets = {}
  BY <1>2, <1>3, <1>6, IdleSweep, IdleHolds, SweepMoves
<1>7. CASE buckets # {}
  <2>1. \A b \in buckets : \E p \in Recipients : b = D!Bucket(p, old) /\ b.counts # {}
    OBVIOUS
  <2> HIDE DEF buckets
  <2>2. /\ s \in SweepOf /\ s.step = "grouped" /\ s.now = old.now /\ s.marks = old.marks
        /\ s.buckets = buckets
    BY <1>1, <1>5 DEF SweepOf
  <2>3. sweeps' = [sweeps EXCEPT ![w] = s]
    BY <1>2, <1>7
  <2> HIDE DEF s, old
  <2>4. \A b \in buckets : BucketHolds(b, s)
    BY <1>1, <1>4, <2>1, <2>2 DEF BucketHolds, SweepHolds, Covered
  <2>5. \A b, c \in buckets : b.to = c.to => b = c
    BY <1>4, <2>1
  <2>6. SweepHolds(s)
    BY <1>1, <2>2, <2>4, <2>5 DEF SweepHolds
  <2> QED
    BY <1>2, <1>3, <2>2, <2>3, <2>6, SweepMoves
<1> QED
  BY <1>6, <1>7

(* A sweep after one of its buckets. *)
LEMMA DequeuedHolds ==
    ASSUME NEW s \in SweepOf, SweepHolds(s), NEW b \in s.buckets
    PROVE  /\ D!Dequeued(s, b) \in SweepOf
           /\ SweepHolds(D!Dequeued(s, b))
           /\ D!Dequeued(s, b).buckets \subseteq s.buckets \ {b}
           /\ D!Dequeued(s, b).buckets # {} => D!Dequeued(s, b).marks = s.marks
<1> DEFINE t == [s EXCEPT !.buckets = s.buckets \ {b}]
<1>1. D!Dequeued(s, b) = IF s.buckets = {b} THEN D!Idle ELSE t
  BY DEF D!Dequeued
<1>2. CASE s.buckets = {b}
  BY <1>1, <1>2, IdleSweep, IdleHolds
<1>3. CASE s.buckets # {b}
  <2>1. /\ t \in SweepOf /\ t.step = s.step /\ t.now = s.now /\ t.marks = s.marks
        /\ t.buckets = s.buckets \ {b}
    BY DEF SweepOf
  <2> HIDE DEF t
  <2>2. SweepHolds(t)
    BY <2>1 DEF SweepHolds, BucketHolds, Covered
  <2> QED
    BY <1>1, <1>3, <2>1, <2>2
<1> QED
  BY <1>2, <1>3

LEMMA SkipKeepsDigest ==
    ASSUME DigestInv, NEW w \in Sweepers, NEW b \in sweeps[w].buckets, D!Skip(w, b)
    PROVE  DigestInv'
<1> DEFINE s == sweeps[w]
           t == D!Dequeued(s, b)
<1>1. s \in SweepOf /\ SweepHolds(s)
  BY DEF DigestInv
<1>2. t \in SweepOf /\ SweepHolds(t)
  BY <1>1, DequeuedHolds
<1>3. /\ sweeps' = [sweeps EXCEPT ![w] = t]
      /\ UNCHANGED <<clock, responsible, done, digests, lastSwept, restarts>>
  BY DEF D!Skip, DigestInv
<1>4. restarts' \in 0 .. MaxRestarts /\ lastSwept' \in [Sweepers -> SUBSET (1 .. Horizon)]
  BY <1>3 DEF DigestInv, D!TypeOK
<1> HIDE DEF t, s
<1> QED
  BY <1>2, <1>3, <1>4, SweepMoves

LEMMA EnqueueKeepsDigest ==
    ASSUME OneSweeper, DigestInv, NEW w \in Sweepers, NEW b \in sweeps[w].buckets, D!Enqueue(w, b)
    PROVE  DigestInv'
<1> DEFINE s == sweeps[w]
           t == D!Dequeued(s, b)
           new == [to |-> b.to, createdAt |-> clock, counts |-> b.counts, left |-> b.left]
<1>1. s \in SweepOf /\ SweepHolds(s) /\ b \in s.buckets
  BY DEF DigestInv
<1>2. /\ t \in SweepOf /\ SweepHolds(t) /\ t.buckets \subseteq s.buckets \ {b}
      /\ t.buckets # {} => t.marks = s.marks
  BY <1>1, DequeuedHolds
<1>3. /\ sweeps' = [sweeps EXCEPT ![w] = t] /\ digests' = digests \union {new}
      /\ UNCHANGED <<clock, responsible, done, lastSwept, restarts>>
  BY DEF D!Enqueue, DigestInv
<1>4. BucketHolds(b, s) /\ s.step # "idle" /\ s.step = "grouped" /\ s.now \in 1 .. clock
  BY <1>1 DEF SweepHolds
<1>5. clock \in 1 .. Horizon /\ Horizon \in Nat /\ DigestInterval \in Nat
  BY DigestAssumed DEF D!DigestAssumption, DigestInv, D!TypeOK
<1>6. b.to \in Recipients /\ s.marks \in [Recipients -> SUBSET Nat]
  BY <1>1, <1>4 DEF SweepHolds, SweepOf, BucketOf
<1>7. /\ new.to = b.to /\ new.createdAt = clock /\ new.counts = b.counts /\ new.left = b.left
      /\ new \in [to : Recipients, createdAt : 1 .. Horizon, counts : SUBSET done, left : SUBSET done]
  BY <1>4, <1>5, <1>6 DEF BucketHolds
<1> HIDE DEF new, t, s
<1>8. D!TypeOK'
  BY <1>3, <1>7 DEF DigestInv, D!TypeOK
<1>9. \A d \in digests : d.createdAt \in 1 .. Horizon /\ d.counts \subseteq done
  BY DEF DigestInv, D!TypeOK
<1>10. \A x \in done : x.finishedAt \in Nat
  BY <1>5 DEF DigestInv, D!TypeOK
(* The row is after the watermark of its person, by a day. *)
<1>11. \A e \in digests : e.to = b.to =>
           /\ e.createdAt + DigestInterval <= clock
           /\ e.counts \cap b.counts = {}
  <2> TAKE e \in digests
  <2> HAVE e.to = b.to
  <2>1. PICK m \in s.marks[b.to] : e.createdAt <= m
    BY <1>4 DEF BucketHolds, Covered
  <2>2. m \in Nat /\ e.createdAt \in Nat /\ s.now \in Nat /\ s.now <= clock /\ clock \in Nat
    BY <1>4, <1>5, <1>6, <1>9, <2>1
  <2>3. m + DigestInterval <= s.now
    BY <1>4, <2>1 DEF BucketHolds, D!Due
  <2>4. e.createdAt + DigestInterval <= clock
    BY <1>5, <2>1, <2>2, <2>3
  <2>5. \A x \in e.counts : x.finishedAt <= e.createdAt
    BY DEF DigestInv, RowsAreTimely
  <2>6. \A x \in b.counts : x.finishedAt > m
    BY <1>4, <2>1 DEF BucketHolds, D!Counts
  <2>7. ASSUME NEW x \in e.counts, x \in b.counts PROVE FALSE
    <3>1. x.finishedAt <= e.createdAt /\ x.finishedAt > m
      BY <2>5, <2>6, <2>7
    <3>2. x.finishedAt \in Nat
      BY <1>9, <1>10
    <3> QED
      BY <2>1, <2>2, <3>1, <3>2
  <2> QED
    BY <2>4, <2>7
<1>12. D!ToldOnce'
  BY <1>3, <1>7, <1>11 DEF DigestInv, D!TellsOnce, D!ToldOnce, D!SamePerson
<1>13. D!OnceADay'
  <2> SUFFICES ASSUME NEW d \in digests', NEW e \in digests', D!SamePerson(d, e)
               PROVE  \/ d.createdAt >= e.createdAt + DigestInterval
                      \/ e.createdAt >= d.createdAt + DigestInterval
    BY <1>3 DEF D!OnceADay
  <2>1. CASE d \in digests /\ e \in digests
    BY <2>1 DEF DigestInv, D!TellsOnce, D!OnceADay
  <2>2. CASE d = new /\ e \in digests
    <3>1. e.createdAt + DigestInterval <= clock /\ d.createdAt = clock
      BY <1>7, <1>11, <2>2 DEF D!SamePerson
    <3> QED
      BY <1>5, <1>9, <2>2, <3>1
  <2>3. CASE d \in digests /\ e = new
    <3>1. d.createdAt + DigestInterval <= clock /\ e.createdAt = clock
      BY <1>7, <1>11, <2>3 DEF D!SamePerson
    <3> QED
      BY <1>5, <1>9, <2>3, <3>1
  <2> QED
    BY <1>3, <2>1, <2>2, <2>3 DEF D!SamePerson
<1>14. RowsAreTimely'
  <2>1. \A x \in new.counts : x.finishedAt <= new.createdAt
    <3> TAKE x \in new.counts
    <3>1. x.finishedAt <= s.now /\ x.finishedAt \in Nat /\ s.now <= clock /\ s.now \in Nat
      BY <1>4, <1>5, <1>7, <1>10 DEF BucketHolds
    <3> QED
      BY <1>5, <1>7, <3>1
  <2>2. \A d \in digests : d.createdAt <= clock /\ \A x \in d.counts : x.finishedAt <= d.createdAt
    BY DEF DigestInv, RowsAreTimely
  <2>3. \A d \in digests' : d.createdAt <= clock' /\ \A x \in d.counts : x.finishedAt <= d.createdAt
    BY <1>3, <1>5, <1>7, <2>1, <2>2
  <2>4. \A e \in digests' : \E d \in digests' :
            d.to = e.to /\ \A c \in digests' : c.to = e.to => c.createdAt <= d.createdAt
    <3> TAKE e \in digests'
    <3>1. CASE e.to = b.to
      BY <1>3, <1>5, <1>7, <2>2, <3>1
    <3>2. CASE e.to # b.to
      <4>1. e \in digests
        BY <1>3, <1>7, <3>2
      <4>2. PICK d \in digests : d.to = e.to /\ \A c \in digests : c.to = e.to => c.createdAt <= d.createdAt
        BY <4>1 DEF DigestInv, RowsAreTimely
      <4> QED
        BY <1>3, <1>7, <3>2, <4>2
    <3> QED
      BY <3>1, <3>2
  <2> QED
    BY <2>3, <2>4 DEF RowsAreTimely
<1>15. /\ sweeps' \in [Sweepers -> SweepOf] /\ \A v \in Sweepers : sweeps'[v] = t
  BY <1>2, <1>3 DEF DigestInv, OneSweeper
<1>16. \A v \in Sweepers : SweepHolds(sweeps[v])'
  <2>1. \A c \in t.buckets : c.to # b.to
    BY <1>1, <1>2 DEF SweepHolds
  <2>2. t.step # "marked"
    BY <1>1, <1>4 DEF t, D!Dequeued, D!Idle, SweepOf
  <2>3. \A c \in t.buckets, e \in digests' : e.to = c.to => \E m \in t.marks[c.to] : e.createdAt <= m
    <3> TAKE c \in t.buckets, e \in digests'
    <3> HAVE e.to = c.to
    <3>1. BucketHolds(c, t) /\ c.to # b.to
      BY <1>2, <2>1 DEF SweepHolds
    <3>2. e \in digests
      BY <1>3, <1>7, <3>1
    <3> QED
      BY <3>1, <3>2 DEF BucketHolds, Covered
  <2>4. \A c \in t.buckets :
            /\ c.counts \subseteq done /\ c.left \subseteq done
            /\ D!Due(t.marks[c.to], t.now)
            /\ \A x \in c.counts : D!Counts(x, t.marks[c.to]) /\ x.finishedAt <= t.now
    BY <1>2 DEF SweepHolds, BucketHolds
  <2>5. /\ t.step # "grouped" => t.buckets = {}
        /\ t.step # "idle" => t.now \in 1 .. clock /\ t.marks \in [Recipients -> SUBSET Nat]
        /\ \A c, d \in t.buckets : c.to = d.to => c = d
    BY <1>2 DEF SweepHolds
  <2> TAKE v \in Sweepers
  <2>6. sweeps'[v] = t
    BY <1>15
  <2> QED
    BY <1>3, <2>2, <2>3, <2>4, <2>5, <2>6 DEF SweepHolds, BucketHolds, Covered, D!Due, D!Counts
<1> QED
  BY <1>3, <1>8, <1>12, <1>13, <1>14, <1>15, <1>16 DEF DigestInv, D!TellsOnce

LEMMA DigestFinite ==
    /\ \A S : IsFiniteSet(S) <=> D!IsFiniteSet(S)
    /\ \A S : Cardinality(S) = D!Cardinality(S)
BY DEF IsFiniteSet, D!IsFiniteSet, Cardinality, D!Cardinality

LEMMA PrepareKeepsDigest ==
    ASSUME DigestInv, NEW c \in Prepared, D!Prepare(c) PROVE DigestInv'
<1> DEFINE x == [id |-> D!Cardinality(done) + 1, case |-> c, finishedAt |-> clock]
<1>1. IsFiniteSet(done) /\ Cardinality(done) \in Nat /\ Cardinality(done) = D!Cardinality(done)
  BY FS_CardinalityType, DigestFinite DEF DigestInv
<1>2. D!Cardinality(done) + 1 \in 1 .. MaxDone
  BY <1>1, DigestAssumed DEF D!DigestAssumption, D!Prepare
<1>3. x \in [id : 1 .. MaxDone, case : Prepared, finishedAt : 1 .. Horizon]
  BY <1>2 DEF DigestInv, D!TypeOK
<1>4. /\ done' = done \union {x}
      /\ UNCHANGED <<clock, responsible, digests, sweeps, lastSwept, restarts>>
  BY DEF D!Prepare
<1> HIDE DEF x
<1>5. IsFiniteSet(done')
  BY <1>1, <1>4, FS_AddElement
<1>6. D!TypeOK'
  BY <1>3, <1>4 DEF DigestInv, D!TypeOK
<1>7. \A w \in Sweepers : SweepHolds(sweeps[w])'
  BY <1>4 DEF DigestInv, SweepHolds, BucketHolds, Covered, D!Due, D!Counts
<1> QED
  BY <1>4, <1>5, <1>6, <1>7 DEF DigestInv, RowsAreTimely, D!TellsOnce, D!ToldOnce, D!OnceADay,
     D!SamePerson

LEMMA TickKeepsDigest == ASSUME DigestInv, D!Tick PROVE DigestInv'
<1>1. /\ clock \in 1 .. Horizon /\ clock' \in 1 .. Horizon /\ clock <= clock'
      /\ UNCHANGED <<responsible, done, digests, sweeps, lastSwept, restarts>>
  BY DigestAssumed DEF D!DigestAssumption, D!Tick, DigestInv, D!TypeOK
<1>2. D!TypeOK'
  BY <1>1 DEF DigestInv, D!TypeOK
<1>3. \A d \in digests : d.createdAt <= clock'
  <2>1. \A d \in digests : d.createdAt <= clock /\ d.createdAt \in 1 .. Horizon
    BY DEF DigestInv, RowsAreTimely, D!TypeOK
  <2> QED
    BY <1>1, <2>1, DigestAssumed DEF D!DigestAssumption
<1>4. RowsAreTimely'
  BY <1>1, <1>3 DEF DigestInv, RowsAreTimely
<1>5. \A w \in Sweepers : SweepHolds(sweeps[w])'
  <2>1. 1 .. clock \subseteq 1 .. clock'
    BY <1>1
  <2> QED
    BY <1>1, <2>1 DEF DigestInv, SweepHolds, BucketHolds, Covered, D!Due, D!Counts
<1> QED
  BY <1>1, <1>2, <1>4, <1>5 DEF DigestInv, D!TellsOnce, D!ToldOnce, D!OnceADay, D!SamePerson

LEMMA DigestStep == ASSUME OneSweeper, DigestInv, [D!Next]_(D!vars) PROVE DigestInv'
<1>1. CASE UNCHANGED D!vars
  <2>1. \A w \in Sweepers : SweepHolds(sweeps[w])'
    BY <1>1 DEF D!vars, DigestInv, SweepHolds, BucketHolds, Covered, D!Due, D!Counts
  <2> QED
    BY <1>1, <2>1 DEF D!vars, DigestInv, D!TypeOK, RowsAreTimely, D!TellsOnce, D!ToldOnce,
       D!OnceADay, D!SamePerson
<1>2. ASSUME NEW c \in Prepared, NEW p \in Recipients, D!Reassign(c, p) PROVE DigestInv'
  <2>1. /\ responsible' \in [Prepared -> Recipients]
        /\ UNCHANGED <<clock, done, digests, sweeps, lastSwept, restarts>>
    BY <1>2 DEF D!Reassign, DigestInv, D!TypeOK
  <2>2. \A w \in Sweepers : SweepHolds(sweeps[w])'
    BY <2>1 DEF DigestInv, SweepHolds, BucketHolds, Covered, D!Due, D!Counts
  <2> QED
    BY <2>1, <2>2 DEF DigestInv, D!TypeOK, RowsAreTimely, D!TellsOnce, D!ToldOnce,
       D!OnceADay, D!SamePerson
<1>3. ASSUME NEW w \in Sweepers, D!Restart(w) PROVE DigestInv'
  <2>1. /\ sweeps' = [sweeps EXCEPT ![w] = D!Idle]
        /\ UNCHANGED <<clock, responsible, done, digests>>
        /\ restarts' = restarts + 1 /\ restarts < MaxRestarts
        /\ lastSwept' = [lastSwept EXCEPT ![w] = {}]
    BY <1>3 DEF D!Restart
  <2>2. restarts' \in 0 .. MaxRestarts /\ lastSwept' \in [Sweepers -> SUBSET (1 .. Horizon)]
    BY <2>1, DigestAssumed DEF D!DigestAssumption, DigestInv, D!TypeOK
  <2> QED
    BY <2>1, <2>2, IdleSweep, IdleHolds, SweepMoves
<1> QED
  BY <1>1, <1>2, <1>3, TickKeepsDigest, PrepareKeepsDigest, BeginKeepsDigest, GroupKeepsDigest,
     EnqueueKeepsDigest, SkipKeepsDigest DEF D!Next

(* Nobody is told of one completion in two summaries, nor gets two summaries
   within a day, wherever the one worker stops between its reads and its
   insertions (preparation-digest.service.ts). *)
THEOREM DigestsTellOnce == OneSweeper => (OfficeSpec => []TellsOnce)
<1> SUFFICES ASSUME OneSweeper PROVE OfficeSpec => []TellsOnce
  OBVIOUS
<1>1. OfficeInit => DigestInv /\ TasksInv
  BY DigestBegins, TasksBegin DEF OfficeInit
<1>2. DigestInv /\ TasksInv /\ [OfficeNext]_officeVars => (DigestInv /\ TasksInv)'
  <2>1. [OfficeNext]_officeVars => [D!Next]_(D!vars)
    BY DEF OfficeNext, officeVars, deskVars, digestVars, D!vars
  <2>2. [OfficeNext]_officeVars => [T!Next]_(T!vars)
    BY DEF OfficeNext, officeVars, deskVars, taskVars, T!vars
  <2> QED
    BY <2>1, <2>2, DigestStep, TasksStep
<1>3. DigestInv /\ TasksInv => TellsOnce
  BY DEF DigestInv, TasksInv, TellsOnce
<1> QED
  BY <1>1, <1>2, <1>3, PTL DEF OfficeSpec
-----------------------------------------------------------------------------
(* ReviewScreens *)

Carried(s, t) == IF flights[s].thing = NoThing THEN flights[s].read[t] ELSE flights[s].value

(* Only a confirmation is told that it came second, and only a load follows one. *)
FlightsFollow ==
    \A s \in Slots : /\ flights[s].step = "known" => flights[s].thing \in Entities
                     /\ flights[s].thing # NoThing => flights[s].after = NoThing

(* An answer tells what the server holds, but for what it is known to have
   crossed: what another answer due tells of too, or what others changed. *)
CarriedIsSo ==
    \A s \in Slots : flights[s].step = "served" =>
        \A t \in V!About(s) \ flights[s].since : Carried(s, t) = server[t]
CrossedIsKnown ==
    \A p, s \in V!Due : p # s => V!About(p) \cap V!About(s) \subseteq flights[p].since

(* What the screen shows is so, or the answer that tells it is due. *)
ShownOrTold ==
    \A t \in V!On(screen) \ behind :
        shown[t] = server[t] \/ \E s \in Slots : flights[s].step = "served" /\ flights[s].thing = t

(* On the checklist a load is alone, and one request is due about each item. *)
ItemsApart ==
    screen = "checklist" =>
        /\ flags.failure => V!Due = {}
        /\ \A s \in V!Due : /\ flights[s].thing \in ReviewItems \cup {NoThing}
                            /\ flights[s].thing = NoThing => flags.loading /\ V!Due = {s}
                            /\ flights[s].thing # NoThing => flights[s].thing \in busy
        /\ \A p, s \in V!Due : p # s => flights[p].thing # flights[s].thing

(* What is disabled waits for an answer. *)
ControlsWait ==
    /\ \A t \in busy : \E s \in V!Due : flights[s].thing = t
    /\ confirming # NoThing =>
           \E s \in V!Due : flights[s].thing = confirming \/ flights[s].after = confirming
    /\ flags.loading => \E s \in V!Due : flights[s].thing = NoThing

ReviewInv ==
    /\ V!ReviewTyped /\ FlightsFollow /\ CarriedIsSo /\ CrossedIsKnown /\ ShownOrTold
    /\ ItemsApart /\ ControlsWait

(* The status shown is that of the items, until one is decided. *)
ChipInv ==
    /\ chip \in V!Chip
    /\ screen = "checklist" /\ ~chip.old => chip.status = V!StatusOf(server)

LEMMA ThingsApart ==
    /\ NoThing \notin V!Things /\ NoThing \notin Entities /\ NoThing \notin Fields
    /\ NoThing \notin ReviewItems
    /\ Fields \subseteq V!Things /\ Entities \subseteq V!Things /\ ReviewItems \subseteq V!Things
    /\ \A t \in Fields \cup ReviewItems : t \notin Entities
    /\ \A t \in Fields : t \notin ReviewItems
BY ReviewAssumed DEF V!ReviewAssumption, V!Things

LEMMA ReviewFacts ==
    ASSUME V!ReviewTyped
    PROVE  /\ \A s \in Slots : /\ flights[s] \in V!Flight
                               /\ flights[s].thing \in V!Things \cup {NoThing}
                               /\ flights[s].since \subseteq V!Things
                               /\ flights[s].after \in Entities \cup {NoThing}
                               /\ flights[s].value \in V!Values
                               /\ flights[s].read \in [V!Things -> V!Values]
                               /\ V!About(s) \subseteq V!Things
           /\ V!On(screen) \subseteq V!Things
           /\ flags.loading \in BOOLEAN /\ flags.failure \in BOOLEAN
<1>1. \A s \in Slots : flights[s] \in V!Flight
  BY DEF V!ReviewTyped
<1>2. \A s \in Slots : /\ flights[s].thing \in V!Things \cup {NoThing}
                       /\ flights[s].since \subseteq V!Things
                       /\ flights[s].after \in Entities \cup {NoThing}
                       /\ flights[s].value \in V!Values
                       /\ flights[s].read \in [V!Things -> V!Values]
  BY <1>1 DEF V!Flight
<1>3. \A s \in Slots : V!About(s) \subseteq V!Things
  BY <1>2 DEF V!About
<1>4. V!On(screen) \subseteq V!Things
  BY DEF V!On, V!Things
<1>5. flags.loading \in BOOLEAN /\ flags.failure \in BOOLEAN
  BY DEF V!ReviewTyped
<1> QED
  BY <1>1, <1>2, <1>3, <1>4, <1>5

LEMMA LandedIsFlight ==
    /\ V!Landed \in V!Flight /\ V!Landed.step = "idle" /\ V!Landed.thing = NoThing
    /\ V!Blank \in [V!Things -> V!Values]
BY DEF V!Landed, V!Flight, V!Blank, V!Values

LEMMA ReviewBegins == V!ReviewInit \/ V!Unopened => ReviewInv
<1> SUFFICES ASSUME V!ReviewInit \/ V!Unopened PROVE ReviewInv
  OBVIOUS
<1>1. PICK asked \in SUBSET Slots, loading \in BOOLEAN :
          /\ V!Starts(asked, loading) /\ screen \in {"document", "checklist"}
          /\ \/ loading /\ \E s \in Slots : asked = {s}
             \/ ~loading /\ asked = {}
  BY DEF V!ReviewInit, V!Unopened
<1> DEFINE row == [V!Landed EXCEPT !.step = "asked"]
<1>2. /\ server = V!Blank /\ shown = V!Blank
      /\ flights = [s \in Slots |-> IF s \in asked THEN row ELSE V!Landed]
      /\ flags = [loading |-> loading, failure |-> FALSE]
      /\ busy = {} /\ confirming = NoThing /\ behind = {} /\ changes = 0
  BY <1>1 DEF V!Starts
<1>3. row \in V!Flight /\ row.step = "asked" /\ row.thing = NoThing
  BY LandedIsFlight DEF V!Flight
<1> HIDE DEF row
<1>4. \A s \in Slots : /\ flights[s].thing = NoThing
                       /\ flights[s].step \in {"idle", "asked"}
                       /\ flights[s].step = "asked" <=> s \in asked
  BY <1>2, <1>3, LandedIsFlight
<1>5. V!Due = asked
  BY <1>4 DEF V!Due
<1>6. MaxChanges \in Nat
  BY ReviewAssumed DEF V!ReviewAssumption
<1>7. V!ReviewTyped
  <2>1. flights \in [Slots -> V!Flight]
    BY <1>2, <1>3, LandedIsFlight
  <2>2. flags \in [loading : BOOLEAN, failure : BOOLEAN]
    BY <1>1, <1>2
  <2>3. changes \in 0 .. MaxChanges
    BY <1>2, <1>6
  <2> QED
    BY <1>1, <1>2, <2>1, <2>2, <2>3, LandedIsFlight DEF V!ReviewTyped
<1>8. FlightsFollow /\ CarriedIsSo /\ ShownOrTold
  BY <1>2, <1>4 DEF FlightsFollow, CarriedIsSo, ShownOrTold
<1>9. CrossedIsKnown
  BY <1>1, <1>5 DEF CrossedIsKnown
<1>10. ItemsApart
  <2>1. ~flags.failure /\ (asked # {} => flags.loading)
    BY <1>1, <1>2
  <2> QED
    BY <1>1, <1>4, <1>5, <2>1 DEF ItemsApart
<1>11. ControlsWait
  <2>1. flags.loading => asked # {}
    BY <1>1, <1>2
  <2> QED
    BY <1>1, <1>2, <1>4, <1>5, <2>1 DEF ControlsWait
<1> QED
  BY <1>7, <1>8, <1>9, <1>10, <1>11 DEF ReviewInv

LEMMA StatusIsAValue == \A values : V!StatusOf(values) \in V!Values
BY DEF V!StatusOf, V!Values

LEMMA ChipBegins == V!ReviewInit \/ V!Unopened => ChipInv
<1> SUFFICES ASSUME V!ReviewInit \/ V!Unopened
             PROVE  ChipInv
    OBVIOUS
<1>1. server = V!Blank /\ chip = [status |-> V!StatusOf(V!Blank), old |-> FALSE]
    BY DEF V!ReviewInit, V!Unopened, V!Starts
<1>2. V!StatusOf(V!Blank) = V!StatusOf(server)
    BY <1>1
<1>3. V!StatusOf(server) \in V!Values
    BY StatusIsAValue
<1>4. chip.status = V!StatusOf(server) /\ chip.old = FALSE
    BY <1>1, <1>2
<1>5. chip \in V!Chip
    BY <1>1, <1>2, <1>3 DEF V!Chip
<1> QED BY <1>4, <1>5 DEF ChipInv

(* What Ask writes. *)
LEMMA AskWrites ==
    ASSUME V!ReviewTyped, NEW s \in Slots, NEW flight \in V!Flight, NEW about \in SUBSET V!Things,
           V!Ask(s, flight, about)
    PROVE  /\ flights' \in [Slots -> V!Flight]
           /\ flights'[s].step = flight.step /\ flights'[s].thing = flight.thing
           /\ flights'[s].after = flight.after
           /\ flights'[s].since = about \cap UNION {V!About(o) : o \in V!Due \ {s}}
           /\ \A p \in Slots \ {s} :
                  /\ flights'[p].step = flights[p].step /\ flights'[p].thing = flights[p].thing
                  /\ flights'[p].value = flights[p].value /\ flights'[p].read = flights[p].read
                  /\ flights'[p].after = flights[p].after
                  /\ flights[p].since \subseteq flights'[p].since
                  /\ p \in V!Due => flights'[p].since = flights[p].since \cup (V!About(p) \cap about)
<1> DEFINE begun == [flight EXCEPT !.since = about \cap UNION {V!About(o) : o \in V!Due \ {s}}]
           crosses(p) == [flights[p] EXCEPT !.since = flights[p].since \cup (V!About(p) \cap about)]
<1>1. begun \in V!Flight /\ begun.step = flight.step /\ begun.thing = flight.thing
      /\ begun.after = flight.after
      /\ begun.since = about \cap UNION {V!About(o) : o \in V!Due \ {s}}
  <2> DEFINE Z == about \cap UNION {V!About(o) : o \in V!Due \ {s}}
  <2>1. Z \in SUBSET V!Things
    OBVIOUS
  <2> HIDE DEF Z
  <2>2. [flight EXCEPT !.since = Z] \in V!Flight
    BY <2>1 DEF V!Flight
  <2>3. /\ [flight EXCEPT !.since = Z].step = flight.step /\ [flight EXCEPT !.since = Z].thing = flight.thing
        /\ [flight EXCEPT !.since = Z].after = flight.after /\ [flight EXCEPT !.since = Z].since = Z
    BY DEF V!Flight
  <2> QED
    BY <2>2, <2>3 DEF Z
<1>2. \A p \in Slots : /\ crosses(p) \in V!Flight
                       /\ crosses(p).step = flights[p].step /\ crosses(p).thing = flights[p].thing
                       /\ crosses(p).value = flights[p].value /\ crosses(p).read = flights[p].read
                       /\ crosses(p).after = flights[p].after
                       /\ crosses(p).since = flights[p].since \cup (V!About(p) \cap about)
  <2> SUFFICES ASSUME NEW p \in Slots
               PROVE  /\ crosses(p) \in V!Flight
                      /\ crosses(p).step = flights[p].step /\ crosses(p).thing = flights[p].thing
                      /\ crosses(p).value = flights[p].value /\ crosses(p).read = flights[p].read
                      /\ crosses(p).after = flights[p].after
                      /\ crosses(p).since = flights[p].since \cup (V!About(p) \cap about)
    OBVIOUS
  <2> DEFINE Z == flights[p].since \cup (V!About(p) \cap about)
  <2>1. flights[p] \in V!Flight /\ Z \in SUBSET V!Things
    BY ReviewFacts
  <2> HIDE DEF Z
  <2>2. /\ [flights[p] EXCEPT !.since = Z] \in V!Flight
        /\ [flights[p] EXCEPT !.since = Z].step = flights[p].step
        /\ [flights[p] EXCEPT !.since = Z].thing = flights[p].thing
        /\ [flights[p] EXCEPT !.since = Z].value = flights[p].value
        /\ [flights[p] EXCEPT !.since = Z].read = flights[p].read
        /\ [flights[p] EXCEPT !.since = Z].after = flights[p].after
        /\ [flights[p] EXCEPT !.since = Z].since = Z
    BY <2>1 DEF V!Flight
  <2> QED
    BY <2>2 DEF Z
<1>3. flights' = [p \in Slots |-> IF p = s THEN begun
                                  ELSE IF p \in V!Due THEN crosses(p) ELSE flights[p]]
  <2>1. \A p \in Slots : flights[p] \in V!Flight
    BY ReviewFacts
  <2>2. \A p \in Slots : [flights[p] EXCEPT !.since = @ \cup (V!About(p) \cap about)] = crosses(p)
    BY <2>1 DEF V!Flight
  <2> QED
    BY <2>2 DEF V!Ask
<1> HIDE DEF begun, crosses
<1>4. /\ flights'[s] = begun
      /\ \A p \in Slots \ {s} : flights'[p] = IF p \in V!Due THEN crosses(p) ELSE flights[p]
      /\ flights' \in [Slots -> V!Flight]
  BY <1>1, <1>2, <1>3, ReviewFacts
<1>5. ASSUME NEW p \in Slots \ {s}
      PROVE  /\ flights'[p].step = flights[p].step /\ flights'[p].thing = flights[p].thing
             /\ flights'[p].value = flights[p].value /\ flights'[p].read = flights[p].read
             /\ flights'[p].after = flights[p].after
             /\ flights[p].since \subseteq flights'[p].since
             /\ p \in V!Due => flights'[p].since = flights[p].since \cup (V!About(p) \cap about)
  <2>1. CASE p \in V!Due
    BY <1>2, <1>4, <2>1
  <2>2. CASE p \notin V!Due
    BY <1>4, <2>2
  <2> QED
    BY <2>1, <2>2
<1> QED
  BY <1>1, <1>4, <1>5

(* A request that begins in a slot that holds nothing which is so. *)
LEMMA AskKeeps ==
    ASSUME ReviewInv, NEW s \in Slots, flights[s].step # "served",
           NEW flight \in V!Flight, NEW about \in SUBSET V!Things, V!Ask(s, flight, about),
           flight.step = "asked", flight.thing # NoThing => flight.after = NoThing,
           about = IF flight.thing = NoThing THEN V!Things ELSE {flight.thing},
           UNCHANGED <<screen, server, shown, behind>>
    PROVE  /\ flights' \in [Slots -> V!Flight] /\ V!Due' = V!Due \cup {s}
           /\ flights'[s].thing = flight.thing /\ flights'[s].after = flight.after
           /\ \A p \in Slots \ {s} : flights'[p].thing = flights[p].thing
                                     /\ flights'[p].after = flights[p].after
           /\ FlightsFollow' /\ CarriedIsSo' /\ CrossedIsKnown' /\ ShownOrTold'
<1>1. V!ReviewTyped /\ FlightsFollow /\ CarriedIsSo /\ CrossedIsKnown /\ ShownOrTold
  BY DEF ReviewInv
<1>2. /\ flights' \in [Slots -> V!Flight]
      /\ flights'[s].step = "asked" /\ flights'[s].thing = flight.thing
      /\ flights'[s].after = flight.after
      /\ flights'[s].since = about \cap UNION {V!About(o) : o \in V!Due \ {s}}
      /\ \A p \in Slots \ {s} :
             /\ flights'[p].step = flights[p].step /\ flights'[p].thing = flights[p].thing
             /\ flights'[p].value = flights[p].value /\ flights'[p].read = flights[p].read
             /\ flights'[p].after = flights[p].after
             /\ flights[p].since \subseteq flights'[p].since
             /\ p \in V!Due => flights'[p].since = flights[p].since \cup (V!About(p) \cap about)
  BY <1>1, AskWrites
<1>3. V!Due' = V!Due \cup {s} /\ V!Due \subseteq Slots
  BY <1>2 DEF V!Due
<1>4. V!About(s)' = about /\ \A p \in Slots \ {s} : V!About(p)' = V!About(p)
  BY <1>2 DEF V!About
<1>5. FlightsFollow'
  BY <1>1, <1>2 DEF FlightsFollow
<1>6. CarriedIsSo'
  <2> SUFFICES ASSUME NEW p \in Slots, flights'[p].step = "served",
                      NEW t \in V!About(p)' \ flights'[p].since
               PROVE  Carried(p, t)' = server'[t]
    BY DEF CarriedIsSo
  <2>1. p # s
    BY <1>2
  <2>2. flights[p].step = "served" /\ t \in V!About(p) \ flights[p].since
    BY <1>2, <1>4, <2>1
  <2>3. Carried(p, t) = server[t]
    BY <1>1, <2>2 DEF CarriedIsSo
  <2> QED
    BY <1>2, <2>1, <2>3 DEF Carried
<1>7. CrossedIsKnown'
  <2> SUFFICES ASSUME NEW p \in V!Due', NEW q \in V!Due', p # q
               PROVE  V!About(p)' \cap V!About(q)' \subseteq flights'[p].since
    BY DEF CrossedIsKnown
  <2>1. CASE p = s
    <3>1. q \in V!Due \ {s} /\ V!About(q)' = V!About(q)
      BY <1>3, <1>4, <2>1
    <3>2. V!About(q) \subseteq UNION {V!About(o) : o \in V!Due \ {s}}
      BY <3>1
    <3> QED
      BY <1>2, <1>4, <2>1, <3>1, <3>2
  <2>2. CASE q = s
    <3>1. p \in V!Due /\ p \in Slots \ {s} /\ V!About(p)' = V!About(p)
      BY <1>3, <1>4, <2>2
    <3>2. flights'[p].since = flights[p].since \cup (V!About(p) \cap about)
      BY <1>2, <3>1
    <3> QED
      BY <1>4, <2>2, <3>1, <3>2
  <2>3. CASE p # s /\ q # s
    <3>1. p \in V!Due /\ q \in V!Due /\ V!About(p)' = V!About(p) /\ V!About(q)' = V!About(q)
          /\ flights[p].since \subseteq flights'[p].since
      BY <1>2, <1>3, <1>4, <2>3
    <3>2. V!About(p) \cap V!About(q) \subseteq flights[p].since
      BY <1>1, <3>1 DEF CrossedIsKnown
    <3> QED
      BY <3>1, <3>2
  <2> QED
    BY <2>1, <2>2, <2>3
<1>8. ShownOrTold'
  <2> SUFFICES ASSUME NEW t \in V!On(screen) \ behind
               PROVE  shown[t] = server[t] \/ \E p \in Slots : flights'[p].step = "served" /\ flights'[p].thing = t
    BY DEF ShownOrTold, V!On
  <2>1. shown[t] = server[t] \/ \E p \in Slots : flights[p].step = "served" /\ flights[p].thing = t
    BY <1>1 DEF ShownOrTold
  <2>2. ASSUME NEW p \in Slots, flights[p].step = "served", flights[p].thing = t
        PROVE  flights'[p].step = "served" /\ flights'[p].thing = t
    BY <1>2, <2>2
  <2> QED
    BY <2>1, <2>2
<1> QED
  BY <1>2, <1>3, <1>5, <1>6, <1>7, <1>8

(* What is asked for. *)
LEMMA AskedFlights ==
    /\ \A after \in Entities \cup {NoThing} :
           LET row == [V!Landed EXCEPT !.step = "asked", !.after = after] IN
           row \in V!Flight /\ row.step = "asked" /\ row.thing = NoThing /\ row.after = after
    /\ \A t \in V!Things, v \in V!Values :
           LET row == [V!Landed EXCEPT !.step = "asked", !.thing = t, !.value = v] IN
           row \in V!Flight /\ row.step = "asked" /\ row.thing = t /\ row.after = NoThing
BY LandedIsFlight DEF V!Landed, V!Flight

(* A request about one thing that is not disabled. *)
LEMMA WriteKeeps ==
    ASSUME ReviewInv, NEW s \in Slots, NEW t \in V!Things, NEW v \in V!Values,
           s \notin V!Due, V!Pressable, V!Write(s, t, v),
           \/ screen = "document" /\ t \in Fields /\ busy' = busy \cup {t} /\ confirming' = confirming
           \/ screen = "document" /\ t \in Entities /\ busy' = busy /\ confirming' = t
           \/ /\ screen = "checklist" /\ t \in ReviewItems \ busy
              /\ busy' = busy \cup {t} /\ confirming' = confirming,
           UNCHANGED <<screen, server, shown, flags, behind, changes>>
    PROVE  ReviewInv'
<1>1. V!ReviewTyped /\ ItemsApart /\ ControlsWait
  BY DEF ReviewInv
<1> DEFINE row == [V!Landed EXCEPT !.step = "asked", !.thing = t, !.value = v]
<1>2. row \in V!Flight /\ row.step = "asked" /\ row.thing = t /\ row.after = NoThing
  BY AskedFlights
<1>3. V!Ask(s, row, {t})
  BY DEF V!Write
<1>4. t # NoThing
  BY ThingsApart
<1> HIDE DEF row
<1>5. flights[s].step # "served"
  BY DEF V!Due
<1>6. /\ flights' \in [Slots -> V!Flight] /\ V!Due' = V!Due \cup {s}
      /\ flights'[s].thing = t
      /\ \A p \in Slots \ {s} : flights'[p].thing = flights[p].thing
                                /\ flights'[p].after = flights[p].after
      /\ FlightsFollow' /\ CarriedIsSo' /\ CrossedIsKnown' /\ ShownOrTold'
  <2>1. {t} = IF row.thing = NoThing THEN V!Things ELSE {row.thing}
    BY <1>2, <1>4
  <2>2. {t} \in SUBSET V!Things
    OBVIOUS
  <2> QED
    BY <1>2, <1>3, <1>5, <2>1, <2>2, AskKeeps
<1>7. busy' \subseteq Fields \cup ReviewItems /\ confirming' \in Entities \cup {NoThing} /\ busy \subseteq busy'
  BY <1>1 DEF V!ReviewTyped
<1>8. V!ReviewTyped'
  BY <1>1, <1>6, <1>7 DEF V!ReviewTyped
<1>9. V!Due \subseteq Slots \ {s}
  BY DEF V!Due
<1>10. ItemsApart'
  <2> SUFFICES ASSUME screen = "checklist"
               PROVE  /\ flags.failure => V!Due' = {}
                      /\ \A p \in V!Due' : /\ flights'[p].thing \in ReviewItems \cup {NoThing}
                                           /\ flights'[p].thing = NoThing => flags.loading /\ V!Due' = {p}
                                           /\ flights'[p].thing # NoThing => flights'[p].thing \in busy'
                      /\ \A p, q \in V!Due' : p # q => flights'[p].thing # flights'[q].thing
    BY DEF ItemsApart
  <2>1. t \in ReviewItems \ busy /\ t \in busy'
    OBVIOUS
  <2>2. ~flags.failure /\ ~flags.loading
    BY DEF V!Pressable
  <2>3. \A p \in V!Due : /\ flights[p].thing \in ReviewItems /\ flights[p].thing \in busy
                         /\ flights'[p].thing = flights[p].thing
    BY <1>1, <1>6, <1>9, <2>2 DEF ItemsApart
  <2>4. \A p, q \in V!Due : p # q => flights[p].thing # flights[q].thing
    BY <1>1 DEF ItemsApart
  <2>5. \A p \in V!Due' : /\ flights'[p].thing \in ReviewItems
                          /\ flights'[p].thing \in busy'
    BY <1>6, <1>7, <2>1, <2>3
  <2>6. \A p, q \in V!Due' : p # q => flights'[p].thing # flights'[q].thing
    BY <1>6, <2>1, <2>3, <2>4
  <2> QED
    BY <2>2, <2>5, <2>6, ThingsApart
<1>11. ControlsWait'
  <2>1. \A u \in busy' : \E p \in V!Due' : flights'[p].thing = u
    BY <1>1, <1>6, <1>9 DEF ControlsWait
  <2>2. confirming' # NoThing => \E p \in V!Due' : flights'[p].thing = confirming' \/ flights'[p].after = confirming'
    BY <1>1, <1>6, <1>9 DEF ControlsWait
  <2>3. flags'.loading => \E p \in V!Due' : flights'[p].thing = NoThing
    BY <1>1, <1>6, <1>9 DEF ControlsWait
  <2> QED
    BY <2>1, <2>2, <2>3 DEF ControlsWait
<1> QED
  BY <1>6, <1>8, <1>10, <1>11 DEF ReviewInv

(* A load begins after a failure, or for a confirmation that came second. *)
LEMMA LoadKeeps ==
    ASSUME ReviewInv, NEW s \in Slots, NEW after \in Entities \cup {NoThing}, V!Load(s, after),
           \/ s \notin V!Due /\ after = NoThing /\ flags.failure
           \/ flights[s].step = "known" /\ after = flights[s].thing,
           UNCHANGED <<screen, server, shown, busy, confirming, behind, changes>>
    PROVE  ReviewInv'
<1>1. V!ReviewTyped /\ FlightsFollow /\ ItemsApart /\ ControlsWait
  BY DEF ReviewInv
<1> DEFINE row == [V!Landed EXCEPT !.step = "asked", !.after = after]
<1>2. row \in V!Flight /\ row.step = "asked" /\ row.thing = NoThing /\ row.after = after
  BY AskedFlights
<1>3. V!Ask(s, row, V!Things) /\ flags' = [loading |-> TRUE, failure |-> FALSE]
  BY DEF V!Load
<1> HIDE DEF row
<1>4. flights[s].step # "served"
  BY DEF V!Due
<1>5. /\ flights' \in [Slots -> V!Flight] /\ V!Due' = V!Due \cup {s}
      /\ flights'[s].thing = NoThing /\ flights'[s].after = after
      /\ \A p \in Slots \ {s} : flights'[p].thing = flights[p].thing
                                /\ flights'[p].after = flights[p].after
      /\ FlightsFollow' /\ CarriedIsSo' /\ CrossedIsKnown' /\ ShownOrTold'
  BY <1>2, <1>3, <1>4, AskKeeps
<1>6. flags' \in [loading : BOOLEAN, failure : BOOLEAN] /\ flags'.loading /\ ~flags'.failure
  BY <1>3
<1>7. V!ReviewTyped'
  BY <1>1, <1>5, <1>6 DEF V!ReviewTyped
<1>8. flights[s].step = "known" => flights[s].thing \in Entities /\ s \in V!Due
  BY <1>1 DEF FlightsFollow, V!Due
<1>9. V!Due \subseteq Slots
  BY DEF V!Due
<1>10. ItemsApart'
  <2> SUFFICES ASSUME screen = "checklist"
               PROVE  V!Due' = {s}
    BY <1>5, <1>6 DEF ItemsApart
  <2>1. flights[s].step # "known"
    BY <1>1, <1>8, ThingsApart DEF ItemsApart
  <2> QED
    BY <1>1, <1>5, <2>1 DEF ItemsApart
<1>11. ControlsWait'
  <2>1. ASSUME NEW u \in busy PROVE \E p \in V!Due' : flights'[p].thing = u
    <3>1. PICK p \in V!Due : flights[p].thing = u
      BY <1>1 DEF ControlsWait
    <3>2. u \notin Entities
      BY <1>1, ThingsApart DEF V!ReviewTyped
    <3>3. p # s
      BY <1>8, <3>1, <3>2
    <3> QED
      BY <1>5, <1>9, <3>1, <3>3
  <2>2. ASSUME confirming # NoThing
        PROVE  \E p \in V!Due' : flights'[p].thing = confirming \/ flights'[p].after = confirming
    <3>1. PICK p \in V!Due : flights[p].thing = confirming \/ flights[p].after = confirming
      BY <1>1, <2>2 DEF ControlsWait
    <3>2. CASE p # s
      BY <1>5, <1>9, <3>1, <3>2
    <3>3. CASE p = s /\ flights[s].thing = confirming
      BY <1>5, <3>1, <3>3
    <3>4. CASE p = s /\ flights[s].thing # confirming
      <4>1. flights[s].step = "known"
        BY <3>1, <3>4
      <4>2. flights[s].after = NoThing
        BY <1>1, <1>8, <4>1, ThingsApart DEF FlightsFollow
      <4> QED
        BY <2>2, <3>1, <3>4, <4>2
    <3> QED
      BY <3>2, <3>3, <3>4
  <2>3. \E p \in V!Due' : flights'[p].thing = NoThing
    BY <1>5
  <2> QED
    BY <2>1, <2>2, <2>3 DEF ControlsWait
<1> QED
  BY <1>5, <1>7, <1>10, <1>11 DEF ReviewInv

(* Where an answer is written at the server, the flights stay what they are about. *)
LEMMA ServeKeepsReview == ASSUME ReviewInv, NEW s \in Slots, V!Serve(s) PROVE ReviewInv'
<1>1. /\ V!ReviewTyped /\ FlightsFollow /\ CarriedIsSo /\ CrossedIsKnown /\ ShownOrTold
      /\ ItemsApart /\ ControlsWait
  BY DEF ReviewInv
<1> DEFINE step == IF V!Known(s) THEN "known" ELSE "served"
           read == IF flights[s].thing = NoThing THEN server ELSE V!Blank
           row == [flights[s] EXCEPT !.step = step, !.read = read]
           t == flights[s].thing
           v == flights[s].value
<1>2. /\ flights[s].step = "asked" /\ flights[s] \in V!Flight
      /\ server' = IF t = NoThing \/ V!Known(s) THEN server ELSE [server EXCEPT ![t] = v]
      /\ UNCHANGED <<screen, shown, flags, busy, confirming, behind, changes>>
  BY <1>1, ReviewFacts DEF V!Serve
<1>3. flights' = [flights EXCEPT ![s] = row]
  BY <1>1 DEF V!Serve, V!ReviewTyped
<1>4. step \in {"known", "served"} /\ read \in [V!Things -> V!Values]
  BY <1>1, LandedIsFlight DEF V!ReviewTyped
<1>5. /\ row \in V!Flight /\ row.step = step /\ row.read = read /\ row.thing = t /\ row.value = v
      /\ row.since = flights[s].since /\ row.after = flights[s].after
  <2> HIDE DEF step, read, t, v
  <2> QED
    BY <1>2, <1>4 DEF V!Flight, t, v
<1>6. step = "known" => t \in Entities /\ V!Known(s)
  BY DEF V!Known
<1>7. step = "served" => ~V!Known(s)
  OBVIOUS
<1>8. t = NoThing => read = server
  OBVIOUS
<1> HIDE DEF row, step, read
<1>9. /\ flights' \in [Slots -> V!Flight] /\ flights'[s] = row
      /\ \A p \in Slots : p # s => flights'[p] = flights[p]
  BY <1>1, <1>3, <1>5 DEF V!ReviewTyped
<1>10. V!Due' = V!Due /\ s \in V!Due
  BY <1>2, <1>4, <1>5, <1>9 DEF V!Due
<1>11. \A p \in Slots : /\ flights'[p].thing = flights[p].thing /\ flights'[p].since = flights[p].since
                        /\ flights'[p].after = flights[p].after /\ V!About(p)' = V!About(p)
  BY <1>5, <1>9 DEF V!About
<1>12. server' \in [V!Things -> V!Values] /\ \A u \in V!Things : u # t => server'[u] = server[u]
  <2>1. CASE t = NoThing \/ V!Known(s)
    BY <1>1, <1>2, <2>1 DEF V!ReviewTyped
  <2>2. CASE ~(t = NoThing \/ V!Known(s))
    <3>1. t \in V!Things /\ v \in V!Values /\ server' = [server EXCEPT ![t] = v]
      BY <1>1, <1>2, <2>2, ReviewFacts
    <3> QED
      BY <1>1, <3>1 DEF V!ReviewTyped
  <2> QED
    BY <2>1, <2>2
<1>13. step = "served" => (t # NoThing => server'[t] = v) /\ (t = NoThing => server' = server)
  <2>1. CASE t = NoThing
    BY <1>2, <2>1
  <2>2. CASE t # NoThing /\ step = "served"
    <3>1. t \in V!Things /\ server' = [server EXCEPT ![t] = v]
      BY <1>1, <1>2, <1>7, <2>2, ReviewFacts
    <3> QED
      BY <1>1, <2>2, <3>1 DEF V!ReviewTyped
  <2> QED
    BY <2>1, <2>2
<1>14. V!ReviewTyped'
  BY <1>1, <1>2, <1>9, <1>12 DEF V!ReviewTyped
<1>15. FlightsFollow'
  BY <1>1, <1>5, <1>6, <1>9 DEF FlightsFollow
<1>16. CarriedIsSo'
  <2> SUFFICES ASSUME NEW p \in Slots, flights'[p].step = "served",
                      NEW u \in V!About(p) \ flights[p].since
               PROVE  Carried(p, u)' = server'[u]
    BY <1>11 DEF CarriedIsSo
  <2>1. CASE p = s
    <3>1. step = "served"
      BY <1>5, <1>9, <2>1
    <3>2. CASE t = NoThing
      BY <1>5, <1>8, <1>9, <1>13, <2>1, <3>1, <3>2 DEF Carried
    <3>3. CASE t # NoThing
      <4>1. u = t
        BY <2>1, <3>3 DEF V!About
      <4> QED
        BY <1>5, <1>9, <1>13, <2>1, <3>1, <3>3, <4>1 DEF Carried
    <3> QED
      BY <3>2, <3>3
  <2>2. CASE p # s
    <3>1. flights'[p] = flights[p] /\ flights[p].step = "served" /\ p \in V!Due
      BY <1>9, <2>2 DEF V!Due
    <3>2. Carried(p, u) = server[u]
      BY <1>1, <3>1 DEF CarriedIsSo
    <3>3. u # t \/ t = NoThing
      <4> SUFFICES ASSUME u = t, t # NoThing PROVE FALSE
        OBVIOUS
      <4>1. u \in V!About(s)
        BY DEF V!About
      <4> QED
        BY <1>1, <1>10, <2>2, <3>1, <4>1 DEF CrossedIsKnown
    <3>4. u \in V!Things
      BY <1>1, ReviewFacts
    <3>5. server'[u] = server[u]
      BY <1>2, <1>12, <3>3, <3>4
    <3> QED
      BY <3>1, <3>2, <3>5 DEF Carried
  <2> QED
    BY <2>1, <2>2
<1>17. CrossedIsKnown'
  BY <1>1, <1>10, <1>11 DEF CrossedIsKnown, V!Due
<1>18. ShownOrTold'
  <2> SUFFICES ASSUME NEW u \in V!On(screen) \ behind
               PROVE  shown[u] = server'[u] \/ \E p \in Slots : flights'[p].step = "served" /\ flights'[p].thing = u
    BY <1>2 DEF ShownOrTold, V!On
  <2>1. u \in V!Things
    BY <1>1, ReviewFacts
  <2>2. CASE server'[u] = server[u]
    <3>1. shown[u] = server[u] \/ \E p \in Slots : flights[p].step = "served" /\ flights[p].thing = u
      BY <1>1 DEF ShownOrTold
    <3>2. ASSUME NEW p \in Slots, flights[p].step = "served", flights[p].thing = u
          PROVE  flights'[p].step = "served" /\ flights'[p].thing = u
      BY <1>2, <1>9, <3>2
    <3> QED
      BY <2>2, <3>1, <3>2
  <2>3. CASE server'[u] # server[u]
    <3>1. u = t /\ ~(t = NoThing \/ V!Known(s))
      BY <1>2, <1>12, <2>1, <2>3
    <3>2. step = "served"
      BY <1>4, <1>6, <3>1
    <3> QED
      BY <1>5, <1>9, <3>1, <3>2
  <2> QED
    BY <2>2, <2>3
<1>19. ItemsApart' /\ ControlsWait'
  BY <1>1, <1>2, <1>10, <1>11 DEF ItemsApart, ControlsWait, V!Due
<1> QED
  BY <1>14, <1>15, <1>16, <1>17, <1>18, <1>19 DEF ReviewInv

LEMMA ChangeKeeps ==
    ASSUME ReviewInv, NEW t \in V!Things, NEW v \in V!Values, V!Change(t, v) PROVE ReviewInv'
<1>1. /\ V!ReviewTyped /\ FlightsFollow /\ CarriedIsSo /\ CrossedIsKnown /\ ShownOrTold
      /\ ItemsApart /\ ControlsWait
  BY DEF ReviewInv
<1> DEFINE Z(s) == flights[s].since \cup {t}
           hit(s) == flights[s].step = "served" /\ t \in V!About(s)
<1>2. /\ server' = [server EXCEPT ![t] = v] /\ behind' = behind \cup {t}
      /\ flights' = [s \in Slots |-> IF hit(s) THEN [flights[s] EXCEPT !.since = Z(s)] ELSE flights[s]]
      /\ UNCHANGED <<screen, shown, flags, busy, confirming>>
  <2>1. \A s \in Slots : [flights[s] EXCEPT !.since = @ \cup {t}] = [flights[s] EXCEPT !.since = Z(s)]
    BY <1>1, ReviewFacts DEF V!Flight
  <2> QED
    BY <2>1 DEF V!Change
<1>3. changes' \in 0 .. MaxChanges
  <2>1. MaxChanges \in Nat
    BY ReviewAssumed DEF V!ReviewAssumption
  <2> QED
    BY <1>1, <2>1 DEF V!Change, V!ReviewTyped
<1>4. \A s \in Slots : /\ flights[s] \in V!Flight /\ Z(s) \in SUBSET V!Things
  BY <1>1, ReviewFacts
<1> HIDE DEF Z
<1>5. \A s \in Slots : /\ [flights[s] EXCEPT !.since = Z(s)] \in V!Flight
                       /\ [flights[s] EXCEPT !.since = Z(s)].step = flights[s].step
                       /\ [flights[s] EXCEPT !.since = Z(s)].thing = flights[s].thing
                       /\ [flights[s] EXCEPT !.since = Z(s)].value = flights[s].value
                       /\ [flights[s] EXCEPT !.since = Z(s)].read = flights[s].read
                       /\ [flights[s] EXCEPT !.since = Z(s)].after = flights[s].after
                       /\ [flights[s] EXCEPT !.since = Z(s)].since = Z(s)
  BY <1>4 DEF V!Flight
<1>6. flights' \in [Slots -> V!Flight]
  BY <1>2, <1>4, <1>5
<1>7. \A s \in Slots : /\ flights'[s].step = flights[s].step /\ flights'[s].thing = flights[s].thing
                       /\ flights'[s].value = flights[s].value /\ flights'[s].read = flights[s].read
                       /\ flights'[s].after = flights[s].after
                       /\ flights[s].since \subseteq flights'[s].since
                       /\ hit(s) => t \in flights'[s].since
  <2> SUFFICES ASSUME NEW s \in Slots
               PROVE  /\ flights'[s].step = flights[s].step /\ flights'[s].thing = flights[s].thing
                      /\ flights'[s].value = flights[s].value /\ flights'[s].read = flights[s].read
                      /\ flights'[s].after = flights[s].after
                      /\ flights[s].since \subseteq flights'[s].since
                      /\ hit(s) => t \in flights'[s].since
    OBVIOUS
  <2>1. CASE hit(s)
    <3>1. flights'[s] = [flights[s] EXCEPT !.since = Z(s)]
      BY <1>2, <2>1
    <3>2. flights[s].since \subseteq Z(s) /\ t \in Z(s)
      BY DEF Z
    <3> QED
      BY <1>5, <3>1, <3>2
  <2>2. CASE ~hit(s)
    <3>1. flights'[s] = flights[s]
      BY <1>2, <2>2
    <3> QED
      BY <2>2, <3>1
  <2> QED
    BY <2>1, <2>2
<1>8. V!Due' = V!Due /\ \A s \in Slots : V!About(s)' = V!About(s)
  BY <1>7 DEF V!Due, V!About
<1>9. server' \in [V!Things -> V!Values] /\ \A u \in V!Things : u # t => server'[u] = server[u]
  BY <1>1, <1>2 DEF V!ReviewTyped
<1>10. V!ReviewTyped'
  BY <1>1, <1>2, <1>3, <1>6, <1>9 DEF V!ReviewTyped
<1>11. FlightsFollow'
  BY <1>1, <1>7 DEF FlightsFollow
<1>12. CarriedIsSo'
  <2> SUFFICES ASSUME NEW p \in Slots, flights'[p].step = "served",
                      NEW u \in V!About(p) \ flights'[p].since
               PROVE  Carried(p, u)' = server'[u]
    BY <1>8 DEF CarriedIsSo
  <2>1. flights[p].step = "served" /\ u \in V!About(p) \ flights[p].since /\ u # t /\ u \in V!Things
    BY <1>1, <1>7, ReviewFacts
  <2>2. Carried(p, u) = server[u]
    BY <1>1, <2>1 DEF CarriedIsSo
  <2> QED
    BY <1>7, <1>9, <2>1, <2>2 DEF Carried
<1>13. CrossedIsKnown'
  <2> SUFFICES ASSUME NEW p \in V!Due, NEW q \in V!Due, p # q
               PROVE  V!About(p) \cap V!About(q) \subseteq flights'[p].since
    BY <1>8 DEF CrossedIsKnown, V!Due
  <2>1. V!About(p) \cap V!About(q) \subseteq flights[p].since /\ p \in Slots
    BY <1>1 DEF CrossedIsKnown, V!Due
  <2> QED
    BY <1>7, <2>1
<1>14. ShownOrTold'
  <2> SUFFICES ASSUME NEW u \in V!On(screen) \ behind'
               PROVE  shown[u] = server'[u] \/ \E p \in Slots : flights'[p].step = "served" /\ flights'[p].thing = u
    BY <1>2 DEF ShownOrTold, V!On
  <2>1. u # t /\ u \in V!Things /\ u \in V!On(screen) \ behind
    BY <1>1, <1>2, ReviewFacts
  <2>2. shown[u] = server[u] \/ \E p \in Slots : flights[p].step = "served" /\ flights[p].thing = u
    BY <1>1, <2>1 DEF ShownOrTold
  <2> QED
    BY <1>7, <1>9, <2>1, <2>2
<1>15. ItemsApart' /\ ControlsWait'
  BY <1>1, <1>2, <1>7, <1>8 DEF ItemsApart, ControlsWait, V!Due
<1> QED
  BY <1>10, <1>11, <1>12, <1>13, <1>14, <1>15 DEF ReviewInv

LEMMA GoWrongKeeps == ASSUME ReviewInv, NEW s \in Slots, V!GoWrong(s) PROVE ReviewInv'
<1>1. /\ V!ReviewTyped /\ FlightsFollow /\ CarriedIsSo /\ CrossedIsKnown /\ ShownOrTold
      /\ ItemsApart /\ ControlsWait
  BY DEF ReviewInv
<1> DEFINE row == [flights[s] EXCEPT !.step = "failed"]
<1>2. /\ flights[s].step \in {"asked", "served"} /\ flights[s] \in V!Flight
      /\ behind' = IF flights[s].step = "served" /\ flights[s].thing # NoThing
                   THEN behind \cup {flights[s].thing} ELSE behind
      /\ UNCHANGED <<screen, server, shown, flags, busy, confirming, changes>>
  BY <1>1, ReviewFacts DEF V!GoWrong
<1>3. flights' = [flights EXCEPT ![s] = row]
  BY <1>1 DEF V!GoWrong, V!ReviewTyped
<1>4. /\ row \in V!Flight /\ row.step = "failed" /\ row.thing = flights[s].thing
      /\ row.since = flights[s].since /\ row.after = flights[s].after
  BY <1>2 DEF V!Flight
<1> HIDE DEF row
<1>5. /\ flights' \in [Slots -> V!Flight] /\ flights'[s] = row
      /\ \A p \in Slots : p # s => flights'[p] = flights[p]
  BY <1>1, <1>3, <1>4 DEF V!ReviewTyped
<1>6. V!Due' = V!Due
  BY <1>2, <1>4, <1>5 DEF V!Due
<1>7. \A p \in Slots : /\ flights'[p].thing = flights[p].thing /\ flights'[p].since = flights[p].since
                       /\ flights'[p].after = flights[p].after /\ V!About(p)' = V!About(p)
  BY <1>4, <1>5 DEF V!About
<1>8. behind' \subseteq V!Things /\ behind \subseteq behind'
  BY <1>1, <1>2, ReviewFacts DEF V!ReviewTyped
<1>9. V!ReviewTyped'
  BY <1>1, <1>2, <1>5, <1>8 DEF V!ReviewTyped
<1>10. FlightsFollow'
  BY <1>1, <1>4, <1>5 DEF FlightsFollow
<1>11. CarriedIsSo'
  <2> SUFFICES ASSUME NEW p \in Slots, flights'[p].step = "served",
                      NEW u \in V!About(p) \ flights[p].since
               PROVE  Carried(p, u)' = server[u]
    BY <1>2, <1>7 DEF CarriedIsSo
  <2>1. flights'[p] = flights[p]
    BY <1>4, <1>5
  <2> QED
    BY <1>1, <2>1 DEF CarriedIsSo, Carried
<1>12. CrossedIsKnown'
  BY <1>1, <1>6, <1>7 DEF CrossedIsKnown, V!Due
<1>13. ShownOrTold'
  <2> SUFFICES ASSUME NEW u \in V!On(screen) \ behind'
               PROVE  shown[u] = server[u] \/ \E p \in Slots : flights'[p].step = "served" /\ flights'[p].thing = u
    BY <1>2 DEF ShownOrTold, V!On
  <2>1. u \in V!On(screen) \ behind /\ u \in V!Things
    BY <1>1, <1>8, ReviewFacts
  <2>2. shown[u] = server[u] \/ \E p \in Slots : flights[p].step = "served" /\ flights[p].thing = u
    BY <1>1, <2>1 DEF ShownOrTold
  <2>3. ASSUME NEW p \in Slots, flights[p].step = "served", flights[p].thing = u
        PROVE  flights'[p].step = "served" /\ flights'[p].thing = u
    <3>1. p # s
      BY <1>2, <2>1, <2>3, ThingsApart
    <3> QED
      BY <1>5, <2>3, <3>1
  <2> QED
    BY <2>2, <2>3
<1>14. ItemsApart' /\ ControlsWait'
  BY <1>1, <1>2, <1>6, <1>7 DEF ItemsApart, ControlsWait, V!Due
<1> QED
  BY <1>9, <1>10, <1>11, <1>12, <1>13, <1>14 DEF ReviewInv

(* An answer that has landed is due no more. *)
LEMMA LandedKeeps ==
    ASSUME ReviewInv, NEW s \in Slots, flights' = [flights EXCEPT ![s] = V!Landed], server' = server
    PROVE  /\ flights' \in [Slots -> V!Flight] /\ V!Due' = V!Due \ {s} /\ V!Due \subseteq Slots
           /\ \A p \in Slots \ {s} : flights'[p] = flights[p] /\ V!About(p)' = V!About(p)
           /\ flights'[s].step = "idle"
           /\ FlightsFollow' /\ CarriedIsSo' /\ CrossedIsKnown'
<1>1. V!ReviewTyped /\ FlightsFollow /\ CarriedIsSo /\ CrossedIsKnown
  BY DEF ReviewInv
<1>2. /\ flights' \in [Slots -> V!Flight] /\ flights'[s] = V!Landed
      /\ \A p \in Slots \ {s} : flights'[p] = flights[p]
  BY <1>1, LandedIsFlight DEF V!ReviewTyped
<1>3. V!Due' = V!Due \ {s} /\ V!Due \subseteq Slots
  BY <1>2, LandedIsFlight DEF V!Due
<1>4. \A p \in Slots \ {s} : V!About(p)' = V!About(p)
  BY <1>2 DEF V!About
<1>5. FlightsFollow'
  BY <1>1, <1>2, LandedIsFlight DEF FlightsFollow
<1>6. CarriedIsSo'
  <2> SUFFICES ASSUME NEW p \in Slots, flights'[p].step = "served",
                      NEW u \in V!About(p)' \ flights'[p].since
               PROVE  Carried(p, u)' = server[u]
    BY DEF CarriedIsSo
  <2>1. p \in Slots \ {s}
    BY <1>2, LandedIsFlight
  <2>2. flights'[p] = flights[p] /\ V!About(p)' = V!About(p)
    BY <1>2, <1>4, <2>1
  <2> QED
    BY <1>1, <2>2 DEF CarriedIsSo, Carried
<1>7. CrossedIsKnown'
  <2> SUFFICES ASSUME NEW p \in V!Due', NEW q \in V!Due', p # q
               PROVE  V!About(p)' \cap V!About(q)' \subseteq flights'[p].since
    BY DEF CrossedIsKnown
  <2>1. /\ p \in V!Due /\ q \in V!Due /\ flights'[p] = flights[p]
        /\ V!About(p)' = V!About(p) /\ V!About(q)' = V!About(q)
    BY <1>2, <1>3, <1>4
  <2> QED
    BY <1>1, <2>1 DEF CrossedIsKnown
<1> QED
  BY <1>2, <1>3, <1>4, <1>5, <1>6, <1>7, LandedIsFlight

LEMMA LandLoadKeeps == ASSUME ReviewInv, NEW s \in Slots, V!LandLoad(s) PROVE ReviewInv'
<1>1. /\ V!ReviewTyped /\ FlightsFollow /\ CarriedIsSo /\ ShownOrTold /\ ItemsApart /\ ControlsWait
  BY DEF ReviewInv
<1> DEFINE f == flights[s]
<1>2. /\ f.thing = NoThing /\ f.step \in {"served", "failed"}
      /\ shown' = IF f.step = "served" THEN f.read ELSE shown
      /\ flags' = [loading |-> FALSE, failure |-> flags.failure \/ f.step = "failed"]
      /\ busy' = busy \ {f.after}
      /\ confirming' = IF f.after \in Entities THEN NoThing ELSE confirming
      /\ behind' = IF f.step = "served" THEN (behind \ V!About(s)) \cup f.since ELSE behind
      /\ flights' = [flights EXCEPT ![s] = V!Landed]
      /\ UNCHANGED <<screen, server, changes>>
  BY DEF V!LandLoad, V!Released, V!CaughtUp
<1>3. /\ flights' \in [Slots -> V!Flight] /\ V!Due' = V!Due \ {s} /\ V!Due \subseteq Slots
      /\ \A p \in Slots \ {s} : flights'[p] = flights[p] /\ V!About(p)' = V!About(p)
      /\ flights'[s].step = "idle"
      /\ FlightsFollow' /\ CarriedIsSo' /\ CrossedIsKnown'
  BY <1>2, LandedKeeps
<1>4. /\ f.read \in [V!Things -> V!Values] /\ f.since \subseteq V!Things
      /\ f.after \in Entities \cup {NoThing} /\ V!About(s) = V!Things /\ s \in V!Due
  BY <1>1, <1>2, ReviewFacts DEF V!About, V!Due
<1>5. V!ReviewTyped'
  <2>1. shown' \in [V!Things -> V!Values] /\ behind' \subseteq V!Things
    BY <1>1, <1>2, <1>4 DEF V!ReviewTyped
  <2>2. flags' \in [loading : BOOLEAN, failure : BOOLEAN]
    <3>1. (flags.failure \/ f.step = "failed") \in BOOLEAN
      OBVIOUS
    <3> QED
      BY <1>2, <3>1
  <2>3. busy' \subseteq Fields \cup ReviewItems /\ confirming' \in Entities \cup {NoThing}
    BY <1>1, <1>2 DEF V!ReviewTyped
  <2> QED
    BY <1>1, <1>2, <1>3, <2>1, <2>2, <2>3 DEF V!ReviewTyped
<1>6. ShownOrTold'
  <2> SUFFICES ASSUME NEW u \in V!On(screen) \ behind'
               PROVE  shown'[u] = server[u] \/ \E p \in Slots : flights'[p].step = "served" /\ flights'[p].thing = u
    BY <1>2 DEF ShownOrTold, V!On
  <2>1. u \in V!Things
    BY <1>1, ReviewFacts
  <2>2. CASE f.step = "served"
    <3>1. u \in V!About(s) \ f.since /\ shown'[u] = f.read[u]
      BY <1>2, <1>4, <2>1, <2>2
    <3>2. Carried(s, u) = server[u]
      BY <1>1, <2>2, <3>1 DEF CarriedIsSo
    <3> QED
      BY <1>2, <3>1, <3>2 DEF Carried
  <2>3. CASE f.step # "served"
    <3>1. shown' = shown /\ u \in V!On(screen) \ behind
      BY <1>2, <2>3
    <3>2. shown[u] = server[u] \/ \E p \in Slots : flights[p].step = "served" /\ flights[p].thing = u
      BY <1>1, <3>1 DEF ShownOrTold
    <3>3. ASSUME NEW p \in Slots, flights[p].step = "served", flights[p].thing = u
          PROVE  flights'[p].step = "served" /\ flights'[p].thing = u
      BY <1>3, <2>3, <3>3
    <3> QED
      BY <3>1, <3>2, <3>3
  <2> QED
    BY <2>2, <2>3
<1>7. ItemsApart'
  <2> SUFFICES ASSUME screen = "checklist" PROVE V!Due' = {}
    BY <1>2 DEF ItemsApart
  <2>1. V!Due = {s}
    BY <1>1, <1>2, <1>4 DEF ItemsApart
  <2> QED
    BY <1>3, <2>1
<1>8. ControlsWait'
  <2>1. ASSUME NEW u \in busy' PROVE \E p \in V!Due' : flights'[p].thing = u
    <3>1. u \in busy /\ u # NoThing
      BY <1>1, <1>2, <2>1, ThingsApart DEF V!ReviewTyped
    <3>2. PICK p \in V!Due : flights[p].thing = u
      BY <1>1, <3>1 DEF ControlsWait
    <3> QED
      BY <1>2, <1>3, <3>1, <3>2
  <2>2. ASSUME confirming' # NoThing
        PROVE  \E p \in V!Due' : flights'[p].thing = confirming' \/ flights'[p].after = confirming'
    <3>1. confirming' = confirming /\ f.after = NoThing
      BY <1>2, <1>4, <2>2
    <3>2. PICK p \in V!Due : flights[p].thing = confirming \/ flights[p].after = confirming
      BY <1>1, <2>2, <3>1 DEF ControlsWait
    <3>3. p # s
      BY <1>2, <2>2, <3>1, <3>2
    <3> QED
      BY <1>3, <3>1, <3>2, <3>3
  <2>3. ~flags'.loading
    BY <1>2
  <2> QED
    BY <2>1, <2>2, <2>3 DEF ControlsWait
<1> QED
  BY <1>3, <1>5, <1>6, <1>7, <1>8 DEF ReviewInv

LEMMA LandWriteKeeps == ASSUME ReviewInv, NEW s \in Slots, V!LandWrite(s) PROVE ReviewInv'
<1>1. /\ V!ReviewTyped /\ FlightsFollow /\ CarriedIsSo /\ ShownOrTold /\ ItemsApart /\ ControlsWait
  BY DEF ReviewInv
<1> DEFINE t == flights[s].thing
           v == flights[s].value
           step == flights[s].step
           since == flights[s].since
<1>2. /\ t # NoThing /\ step \in {"served", "failed"}
      /\ shown' = IF step = "served" THEN [shown EXCEPT ![t] = v] ELSE shown
      /\ busy' = busy \ {t}
      /\ confirming' = IF t \in Entities THEN NoThing ELSE confirming
      /\ behind' = IF step = "served" THEN (behind \ V!About(s)) \cup since ELSE behind
      /\ flights' = [flights EXCEPT ![s] = V!Landed]
      /\ UNCHANGED <<screen, server, flags, changes>>
  BY DEF V!LandWrite, V!Released, V!CaughtUp
<1>3. /\ flights' \in [Slots -> V!Flight] /\ V!Due' = V!Due \ {s} /\ V!Due \subseteq Slots
      /\ \A p \in Slots \ {s} : flights'[p] = flights[p] /\ V!About(p)' = V!About(p)
      /\ flights'[s].step = "idle"
      /\ FlightsFollow' /\ CarriedIsSo' /\ CrossedIsKnown'
  BY <1>2, LandedKeeps
<1>4. t \in V!Things /\ v \in V!Values /\ since \subseteq V!Things /\ V!About(s) = {t} /\ s \in V!Due
  BY <1>1, <1>2, ReviewFacts DEF V!About, V!Due
<1> HIDE DEF v, since
<1>5. V!ReviewTyped'
  <2>1. shown' \in [V!Things -> V!Values] /\ behind' \subseteq V!Things
    BY <1>1, <1>2, <1>4 DEF V!ReviewTyped
  <2>2. busy' \subseteq Fields \cup ReviewItems /\ confirming' \in Entities \cup {NoThing}
    BY <1>1, <1>2 DEF V!ReviewTyped
  <2> QED
    BY <1>1, <1>2, <1>3, <2>1, <2>2 DEF V!ReviewTyped
<1>6. ShownOrTold'
  <2> SUFFICES ASSUME NEW u \in V!On(screen) \ behind'
               PROVE  shown'[u] = server[u] \/ \E p \in Slots : flights'[p].step = "served" /\ flights'[p].thing = u
    BY <1>2 DEF ShownOrTold, V!On
  <2>1. u \in V!Things
    BY <1>1, ReviewFacts
  <2>2. CASE step = "served" /\ u = t
    <3>1. u \in V!About(s) \ since /\ shown'[u] = v
      BY <1>1, <1>2, <1>4, <2>2 DEF V!ReviewTyped
    <3>2. Carried(s, u) = server[u]
      BY <1>1, <2>2, <3>1 DEF CarriedIsSo, since
    <3> QED
      BY <1>2, <3>1, <3>2 DEF Carried, v
  <2>3. CASE ~(step = "served" /\ u = t)
    <3>1. shown'[u] = shown[u] /\ u \in V!On(screen) \ behind
      BY <1>1, <1>2, <1>4, <2>1, <2>3 DEF V!ReviewTyped
    <3>2. shown[u] = server[u] \/ \E p \in Slots : flights[p].step = "served" /\ flights[p].thing = u
      BY <1>1, <3>1 DEF ShownOrTold
    <3>3. ASSUME NEW p \in Slots, flights[p].step = "served", flights[p].thing = u
          PROVE  flights'[p].step = "served" /\ flights'[p].thing = u
      BY <1>3, <2>3, <3>3
    <3> QED
      BY <3>1, <3>2, <3>3
  <2> QED
    BY <2>2, <2>3
<1>7. ItemsApart'
  <2> SUFFICES ASSUME screen = "checklist"
               PROVE  /\ ~flags.failure
                      /\ \A p \in V!Due' : /\ flights'[p].thing \in ReviewItems
                                           /\ flights'[p].thing \in busy'
                      /\ \A p, q \in V!Due' : p # q => flights'[p].thing # flights'[q].thing
    BY <1>2, ThingsApart DEF ItemsApart
  <2>1. ~flags.failure
    BY <1>1, <1>4 DEF ItemsApart
  <2>2. \A p \in V!Due \ {s} : /\ flights[p].thing \in ReviewItems /\ flights[p].thing \in busy
                               /\ flights[p].thing # t /\ flights'[p] = flights[p]
    BY <1>1, <1>3, <1>4 DEF ItemsApart
  <2>3. \A p, q \in V!Due : p # q => flights[p].thing # flights[q].thing
    BY <1>1 DEF ItemsApart
  <2> QED
    BY <1>2, <1>3, <2>1, <2>2, <2>3
<1>8. ControlsWait'
  <2>1. ASSUME NEW u \in busy' PROVE \E p \in V!Due' : flights'[p].thing = u
    <3>1. u \in busy /\ u # t
      BY <1>2, <2>1
    <3>2. PICK p \in V!Due : flights[p].thing = u
      BY <1>1, <3>1 DEF ControlsWait
    <3> QED
      BY <1>3, <3>1, <3>2
  <2>2. ASSUME confirming' # NoThing
        PROVE  \E p \in V!Due' : flights'[p].thing = confirming' \/ flights'[p].after = confirming'
    <3>1. confirming' = confirming /\ t \notin Entities /\ flights[s].after = NoThing
          /\ confirming \in Entities
      BY <1>1, <1>2, <2>2 DEF FlightsFollow, V!ReviewTyped
    <3>2. PICK p \in V!Due : flights[p].thing = confirming \/ flights[p].after = confirming
      BY <1>1, <2>2, <3>1 DEF ControlsWait
    <3>3. p # s
      BY <2>2, <3>1, <3>2
    <3> QED
      BY <1>3, <3>1, <3>2, <3>3
  <2>3. flags'.loading => \E p \in V!Due' : flights'[p].thing = NoThing
    BY <1>1, <1>2, <1>3 DEF ControlsWait
  <2> QED
    BY <2>1, <2>2, <2>3 DEF ControlsWait
<1> QED
  BY <1>3, <1>5, <1>6, <1>7, <1>8 DEF ReviewInv

LEMMA ReviewStep == ReviewInv /\ [V!ReviewNext]_(V!reviewVars) => ReviewInv'
<1> SUFFICES ASSUME ReviewInv, [V!ReviewNext]_(V!reviewVars) PROVE ReviewInv'
  OBVIOUS
<1>1. CASE UNCHANGED V!reviewVars
  <2>1. UNCHANGED <<screen, server, shown, flights, flags, busy, confirming, behind, changes>>
    BY <1>1 DEF V!reviewVars
  <2> QED
    BY <2>1 DEF ReviewInv, V!ReviewTyped, FlightsFollow, CarriedIsSo, Carried, V!About, CrossedIsKnown,
       V!Due, ShownOrTold, V!On, ItemsApart, ControlsWait
<1>2. ASSUME NEW s \in Slots, V!LoadAgain(s) PROVE ReviewInv'
  BY <1>2, LoadKeeps DEF V!LoadAgain
<1>3. ASSUME NEW s \in Slots, V!LandKnown(s) PROVE ReviewInv'
  <2>1. flights[s].step = "known" /\ flights[s].thing \in Entities
    BY <1>3 DEF V!LandKnown, ReviewInv, FlightsFollow
  <2> QED
    BY <1>3, <2>1, LoadKeeps DEF V!LandKnown
<1>4. ASSUME NEW s \in Slots, V!Serve(s) \/ V!GoWrong(s) \/ V!LandLoad(s) \/ V!LandWrite(s)
      PROVE  ReviewInv'
  BY <1>4, ServeKeepsReview, GoWrongKeeps, LandLoadKeeps, LandWriteKeeps
<1>5. ASSUME NEW s \in Slots, NEW t \in Entities, V!ConfirmEntity(s, t) PROVE ReviewInv'
  <2>1. t \in V!Things /\ "done" \in V!Values
    BY ThingsApart DEF V!Values
  <2> QED
    BY <1>5, <2>1, WriteKeeps DEF V!ConfirmEntity
<1>6. ASSUME NEW s \in Slots, NEW t \in Fields, NEW v \in V!Values, V!SaveMetadata(s, t, v)
      PROVE  ReviewInv'
  <2>1. t \in V!Things
    BY ThingsApart
  <2> QED
    BY <1>6, <2>1, WriteKeeps DEF V!SaveMetadata
<1>7. ASSUME NEW s \in Slots, NEW t \in ReviewItems, NEW v \in V!Values, V!UpdateItem(s, t, v)
      PROVE  ReviewInv'
  <2>1. t \in V!Things /\ t \in ReviewItems \ busy
    BY <1>7, ThingsApart DEF V!UpdateItem, V!MayUpdate
  <2> QED
    BY <1>7, <2>1, WriteKeeps DEF V!UpdateItem
<1>8. ASSUME NEW t \in V!Things, NEW v \in V!Values, V!Change(t, v) PROVE ReviewInv'
  BY <1>8, ChangeKeeps
<1> QED
  BY <1>1, <1>2, <1>3, <1>4, <1>5, <1>6, <1>7, <1>8 DEF V!ReviewNext

(* Only what decides an item, and a load, have to do with the status shown. *)
LEMMA ChipIsLeftAlone ==
    ASSUME ChipInv, screen' = screen, server' = server, chip' = chip PROVE ChipInv'
BY DEF ChipInv, V!StatusOf

LEMMA ChipStep == ReviewInv /\ ChipInv /\ [V!ReviewNext]_(V!reviewVars) => ChipInv'
<1> SUFFICES ASSUME ReviewInv, ChipInv, [V!ReviewNext]_(V!reviewVars) PROVE ChipInv'
  OBVIOUS
<1>0. V!ReviewTyped /\ chip \in V!Chip
  BY DEF ReviewInv, ChipInv
<1>1. CASE UNCHANGED V!reviewVars
  BY <1>1, ChipIsLeftAlone DEF V!reviewVars
<1>2. ASSUME NEW s \in Slots, V!LoadAgain(s) \/ V!GoWrong(s) \/ V!LandWrite(s) \/ V!LandKnown(s)
      PROVE  ChipInv'
  BY <1>2, ChipIsLeftAlone DEF V!LoadAgain, V!GoWrong, V!LandWrite, V!LandKnown
<1>3. ASSUME NEW s \in Slots, NEW t, NEW v,
             V!ConfirmEntity(s, t) \/ V!SaveMetadata(s, t, v) \/ V!UpdateItem(s, t, v)
      PROVE  ChipInv'
  BY <1>3, ChipIsLeftAlone DEF V!ConfirmEntity, V!SaveMetadata, V!UpdateItem
<1>4. ASSUME NEW t, screen' = screen, chip' = [chip EXCEPT !.old = chip.old \/ t \in ReviewItems],
             \A i \in ReviewItems : i # t => server'[i] = server[i]
      PROVE  ChipInv'
  <2>1. /\ chip' \in V!Chip /\ chip'.status = chip.status
        /\ chip'.old <=> chip.old \/ t \in ReviewItems
    BY <1>0, <1>4 DEF V!Chip
  <2>2. t \notin ReviewItems => V!StatusOf(server') = V!StatusOf(server)
    BY <1>4 DEF V!StatusOf
  <2> QED
    BY <1>4, <2>1, <2>2 DEF ChipInv
<1>5. ASSUME NEW s \in Slots, V!Serve(s) PROVE ChipInv'
  <2>1. \A i \in ReviewItems : i # flights[s].thing => server'[i] = server[i]
    BY <1>0, <1>5, ThingsApart DEF V!Serve, V!ReviewTyped
  <2> QED
    BY <1>4, <1>5, <2>1 DEF V!Serve
<1>6. ASSUME NEW t \in V!Things, NEW v, V!Change(t, v) PROVE ChipInv'
  <2>1. \A i \in ReviewItems : i # t => server'[i] = server[i]
    BY <1>0, <1>6, ThingsApart DEF V!Change, V!ReviewTyped
  <2> QED
    BY <1>4, <1>6, <2>1 DEF V!Change
<1>7. ASSUME NEW s \in Slots, V!LandLoad(s) PROVE ChipInv'
  <2>1. screen' = screen /\ server' = server /\ flights[s].thing = NoThing
    BY <1>7 DEF V!LandLoad
  <2>2. CASE flights[s].step # "served"
    BY <1>7, <2>1, <2>2, ChipIsLeftAlone DEF V!LandLoad, V!ChipRead
  <2>3. CASE flights[s].step = "served"
    <3> DEFINE old == flights[s].since # {}
    <3>1. chip' = [status |-> V!StatusOf(flights[s].read), old |-> old]
      BY <1>7, <2>3 DEF V!LandLoad, V!ChipRead
    <3>2. V!StatusOf(flights[s].read) \in V!Values /\ old \in BOOLEAN
      BY StatusIsAValue
    <3> HIDE DEF old
    <3>3. chip' \in V!Chip /\ chip'.status = V!StatusOf(flights[s].read) /\ chip'.old = old
      BY <3>1, <3>2 DEF V!Chip
    <3>4. ASSUME flights[s].since = {} PROVE V!StatusOf(flights[s].read) = V!StatusOf(server)
      <4>1. \A i \in ReviewItems : flights[s].read[i] = server[i]
        BY <2>1, <2>3, <3>4, ThingsApart DEF ReviewInv, CarriedIsSo, Carried, V!About
      <4> QED
        BY <4>1 DEF V!StatusOf
    <3> QED
      BY <2>1, <3>3, <3>4 DEF old, ChipInv
  <2> QED
    BY <2>2, <2>3
<1> QED
  BY <1>1, <1>2, <1>3, <1>5, <1>6, <1>7 DEF V!ReviewNext

LEMMA ReviewHolds == ReviewInv /\ ChipInv => V!ScreensAreFaithful
<1> SUFFICES ASSUME ReviewInv, ChipInv
             PROVE  /\ V!ReviewTyped /\ V!ShownIsSo /\ V!StatusIsAsRead /\ V!OneAnswerEach
                    /\ V!NothingStaysBusy
  BY DEF V!ScreensAreFaithful
<1>1. V!ReviewTyped /\ ShownOrTold /\ ItemsApart /\ ControlsWait
  BY DEF ReviewInv
<1>2. V!ShownIsSo
  BY <1>1 DEF V!ShownIsSo, V!AtRest, ShownOrTold, V!Due
<1>3. V!OneAnswerEach
  <2> SUFFICES ASSUME screen = "checklist", NEW p \in V!Due, NEW q \in V!Due, p # q
               PROVE  V!About(p) \cap V!About(q) = {}
    BY DEF V!OneAnswerEach
  <2>1. flights[p].thing # NoThing /\ flights[q].thing # NoThing /\ flights[p].thing # flights[q].thing
    BY <1>1 DEF ItemsApart
  <2> QED
    BY <2>1 DEF V!About
<1>4. V!NothingStaysBusy
  BY <1>1 DEF V!NothingStaysBusy, ControlsWait
<1>5. V!StatusIsAsRead
  BY DEF V!StatusIsAsRead, ChipInv
<1> QED
  BY <1>1, <1>2, <1>3, <1>4, <1>5
-----------------------------------------------------------------------------
(* CaseForms *)

(* What is true of a form, given the cases and those that were renamed: the
   cases it made are there, under a code it sent unless they were renamed; what
   it was told, and what it shows when it has closed, is so unless somebody
   else has set the ceiling since, or it was typed while its request was due. *)
FormHolds(r, there, other) ==
    /\ IsFiniteSet(r.sent) /\ IsFiniteSet(r.made)
    /\ \A c \in r.made : there[c].code # NoCode /\ (c \in other \/ there[c].code \in r.sent)
    /\ r.step = "asked" => r.sending \in r.sent
    /\ r.step \in {"saved", "limiting", "done"} => r.saved \in Opened /\ there[r.saved].code # NoCode
    /\ r.step = "saved" /\ ~r.others => there[r.saved].limit = r.told
    /\ r.step = "limiting" /\ ~r.late => r.asking = r.limit
    /\ r.step = "done" /\ r.mayLimit /\ ~r.others /\ ~r.late => there[r.saved].limit = r.limit

CodesAreOneEach ==
    \A c, d \in Opened : c # d /\ opened[c].code = opened[d].code => opened[c].code = NoCode
UnbornHaveNoCeiling == \A c \in Opened : opened[c].code = NoCode => opened[c].limit = BornWith
FormsHold == \A f \in Forms : FormHolds(forms[f], opened, renamed)

FormsInv == F!FormsTyped /\ CodesAreOneEach /\ UnbornHaveNoCeiling /\ FormsHold

LEMMA NewFormIsTyped == F!NewForm \in F!Form
BY FormsAssumed DEF F!FormsAssumption, F!NewForm, F!Form, F!Ceilings

LEMMA FormsBegin == F!FormsInit => FormsInv
<1> SUFFICES ASSUME F!FormsInit PROVE FormsInv
    OBVIOUS
<1> USE FormsAssumed DEF F!FormsAssumption
<1>1. F!FormsTyped
    <2>1. opened \in [Opened -> F!CaseRow]
        BY DEF F!FormsInit, F!CaseRow, F!Ceilings
    <2>2. [F!NewForm EXCEPT !.step = "closed"] \in F!Form
        BY NewFormIsTyped DEF F!Form
    <2>3. forms \in [Forms -> F!Form]
        BY <2>2 DEF F!FormsInit
    <2> QED BY <2>1, <2>3 DEF F!FormsInit, F!FormsTyped
<1>2. CodesAreOneEach /\ UnbornHaveNoCeiling
    BY DEF F!FormsInit, CodesAreOneEach, UnbornHaveNoCeiling
<1>3. FormsHold
    <2> SUFFICES ASSUME NEW f \in Forms PROVE FormHolds(forms[f], opened, renamed)
        BY DEF FormsHold
    <2>1. forms[f].sent = {} /\ forms[f].made = {} /\ forms[f].step = "closed"
        BY DEF F!FormsInit, F!NewForm
    <2> QED BY <2>1, FS_EmptySet DEF FormHolds
<1> QED BY <1>1, <1>2, <1>3 DEF FormsInv

(* A step of one form that leaves the cases alone. *)
LEMMA OneForm ==
    ASSUME FormsInv, NEW f \in Forms, NEW r \in F!Form, FormHolds(r, opened, renamed),
           F!Becomes(f, r), opened' = opened, renamed' = renamed, saves' \in 0 .. MaxSaves
    PROVE  FormsInv'
<1>1. F!FormsTyped'
    BY DEF FormsInv, F!FormsTyped, F!Becomes
<1>2. CodesAreOneEach' /\ UnbornHaveNoCeiling'
    BY DEF FormsInv, CodesAreOneEach, UnbornHaveNoCeiling
<1>3. FormsHold'
    <2> SUFFICES ASSUME NEW g \in Forms PROVE FormHolds(forms'[g], opened', renamed')
        BY Zenon DEF FormsHold
    <2>1. forms'[g] = IF g = f THEN r ELSE forms[g]
        BY DEF F!Becomes, FormsInv, F!FormsTyped
    <2>2. FormHolds(forms[g], opened, renamed)
        BY DEF FormsInv, FormsHold
    <2> QED BY <2>1, <2>2
<1> QED BY <1>1, <1>2, <1>3 DEF FormsInv

LEMMA NewFormHolds ==
    ASSUME NEW r, r.sent = {}, r.made = {}, r.step \in {"open", "closed"}, NEW there, NEW other
    PROVE  FormHolds(r, there, other)
BY FS_EmptySet DEF FormHolds

LEMMA FormOpens ==
    ASSUME FormsInv, NEW f \in Forms, NEW may \in BOOLEAN,
           F!OpenNew(f, may) \/ \E c \in Opened : F!OpenEdit(f, c, may) \/ F!OpenUnloaded(f, c, may)
    PROVE  FormsInv'
<1>1. CASE F!OpenNew(f, may)
    <2> DEFINE r == [F!NewForm EXCEPT !.mayLimit = may]
    <2>1. r \in F!Form
        BY NewFormIsTyped DEF F!Form
    <2>2. FormHolds(r, opened, renamed)
        BY NewFormHolds DEF F!NewForm
    <2>3. F!Becomes(f, r) /\ opened' = opened /\ renamed' = renamed /\ saves' \in 0 .. MaxSaves
        BY <1>1 DEF F!OpenNew, FormsInv, F!FormsTyped
    <2> HIDE DEF r
    <2> QED BY <2>1, <2>2, <2>3, OneForm
<1>2. ASSUME NEW c \in Opened, F!OpenEdit(f, c, may) PROVE FormsInv'
    <2> DEFINE r == [F!NewForm EXCEPT !.case = c, !.code = opened[c].code, !.limit = opened[c].limit,
                                      !.mayLimit = may]
    <2>1. opened[c] \in F!CaseRow
        BY DEF FormsInv, F!FormsTyped
    <2>2. r \in F!Form
        BY <2>1, NewFormIsTyped DEF F!Form, F!CaseRow
    <2>3. FormHolds(r, opened, renamed)
        BY NewFormHolds DEF F!NewForm
    <2>4. F!Becomes(f, r) /\ opened' = opened /\ renamed' = renamed /\ saves' \in 0 .. MaxSaves
        BY <1>2 DEF F!OpenEdit, FormsInv, F!FormsTyped
    <2> HIDE DEF r
    <2> QED BY <2>2, <2>3, <2>4, OneForm
<1>3. ASSUME NEW c \in Opened, F!OpenUnloaded(f, c, may) PROVE FormsInv'
    <2> DEFINE r == [F!NewForm EXCEPT !.case = c, !.mayLimit = may]
    <2>1. r \in F!Form
        BY NewFormIsTyped DEF F!Form
    <2>2. FormHolds(r, opened, renamed)
        BY NewFormHolds DEF F!NewForm
    <2>3. F!Becomes(f, r) /\ opened' = opened /\ renamed' = renamed /\ saves' \in 0 .. MaxSaves
        BY <1>3 DEF F!OpenUnloaded, FormsInv, F!FormsTyped
    <2> HIDE DEF r
    <2> QED BY <2>1, <2>2, <2>3, OneForm
<1> QED BY <1>1, <1>2, <1>3

LEMMA FormTakesCode ==
    ASSUME FormsInv, NEW f \in Forms, NEW k \in FormCodes, F!TypeCode(f, k)
    PROVE  FormsInv'
<1>0. forms[f] \in F!Form /\ FormHolds(forms[f], opened, renamed)
    BY DEF FormsInv, F!FormsTyped, FormsHold
<1> DEFINE r == [forms[f] EXCEPT !.code = k]
<1>1. r \in F!Form
    BY <1>0 DEF F!Form
<1>2. FormHolds(r, opened, renamed)
    BY <1>0 DEF FormHolds, F!Form
<1>3. F!Becomes(f, r) /\ opened' = opened /\ renamed' = renamed /\ saves' \in 0 .. MaxSaves
    BY DEF F!TypeCode, FormsInv, F!FormsTyped
<1> HIDE DEF r
<1> QED BY <1>1, <1>2, <1>3, OneForm

LEMMA FormTakesLimit ==
    ASSUME FormsInv, NEW f \in Forms, NEW l \in FormLimits, F!TypeLimit(f, l)
    PROVE  FormsInv'
<1>0. forms[f] \in F!Form /\ FormHolds(forms[f], opened, renamed)
    BY DEF FormsInv, F!FormsTyped, FormsHold
<1> DEFINE again == forms[f].late \/ forms[f].step = "limiting"
           r == [forms[f] EXCEPT !.limit = l, !.late = again]
<1>1. r \in F!Form
    <2>1. again \in BOOLEAN
        BY Zenon
    <2> HIDE DEF again
    <2> QED BY <1>0, <2>1 DEF F!Form, F!Ceilings
<1>2. /\ r.sent = forms[f].sent /\ r.made = forms[f].made /\ r.step = forms[f].step
      /\ r.sending = forms[f].sending /\ r.saved = forms[f].saved
      /\ r.step \in {"open", "asked", "limiting"} /\ (r.step = "limiting" => r.late)
    BY <1>0 DEF F!Form, F!TypeLimit, F!Editable
<1>4. FormHolds(r, opened, renamed)
    <2> HIDE DEF r
    <2> QED BY <1>0, <1>2 DEF FormHolds
<1>3. F!Becomes(f, r) /\ opened' = opened /\ renamed' = renamed /\ saves' \in 0 .. MaxSaves
    BY DEF F!TypeLimit, FormsInv, F!FormsTyped
<1> HIDE DEF r
<1> QED BY <1>1, <1>3, <1>4, OneForm

LEMMA FormIsLeft ==
    ASSUME FormsInv, NEW f \in Forms, F!Leave(f)
    PROVE  FormsInv'
<1>0. forms[f] \in F!Form /\ FormHolds(forms[f], opened, renamed)
    BY DEF FormsInv, F!FormsTyped, FormsHold
<1> DEFINE closed == [F!NewForm EXCEPT !.step = "closed"]
           left == [forms[f] EXCEPT !.left = TRUE]
<1>1. closed \in F!Form /\ left \in F!Form
    BY <1>0, NewFormIsTyped DEF F!Form
<1>2. FormHolds(closed, opened, renamed)
    BY NewFormHolds DEF F!NewForm
<1>3. FormHolds(left, opened, renamed)
    BY <1>0 DEF FormHolds, F!Form
<1>4. \E r \in {closed, left} : F!Becomes(f, r)
    BY DEF F!Leave
<1>5. opened' = opened /\ renamed' = renamed /\ saves' \in 0 .. MaxSaves
    BY DEF F!Leave, FormsInv, F!FormsTyped
<1> HIDE DEF closed, left
<1> QED BY <1>1, <1>2, <1>3, <1>4, <1>5, OneForm

LEMMA FormIsSent ==
    ASSUME FormsInv, NEW f \in Forms, F!Save(f)
    PROVE  FormsInv'
<1> DEFINE r == [forms[f] EXCEPT !.step = "asked", !.sending = forms[f].code,
                                 !.sent = @ \cup {forms[f].code}]
<1>0. forms[f] \in F!Form /\ FormHolds(forms[f], opened, renamed)
    BY DEF FormsInv, F!FormsTyped, FormsHold
<1>1. forms[f].code \in FormCodes
    BY <1>0 DEF F!Form, F!Save
<1>2. r \in F!Form
    BY <1>0, <1>1 DEF F!Form
<1>3. /\ r.sent = forms[f].sent \cup {forms[f].code} /\ r.made = forms[f].made
      /\ r.step = "asked" /\ r.sending = forms[f].code
    BY <1>0 DEF F!Form
<1>4. IsFiniteSet(r.sent)
    <2>1. IsFiniteSet(forms[f].sent)
        BY <1>0 DEF FormHolds
    <2>2. IsFiniteSet(forms[f].sent \cup {forms[f].code})
        BY <2>1, FS_AddElement
    <2> QED BY <1>3, <2>2
<1>5. FormHolds(r, opened, renamed)
    BY <1>0, <1>3, <1>4 DEF FormHolds
<1>6. F!Becomes(f, r) /\ opened' = opened /\ renamed' = renamed
    BY DEF F!Save
<1>7. saves' \in 0 .. MaxSaves
    BY FormsAssumed DEF F!FormsAssumption, F!Save, FormsInv, F!FormsTyped
<1> HIDE DEF r
<1> QED BY <1>2, <1>5, <1>6, <1>7, OneForm

(* A case gets code k, which no other case has; it was not there, or other
   forms may know it as renamed.  What a form that leaves it alone knows stays
   so. *)
LEMMA CodeIsGiven ==
    ASSUME FormsInv, NEW c \in Opened, NEW k \in FormCodes, F!Free(c, k),
           opened' = [opened EXCEPT ![c].code = k],
           NEW other, other = renamed \/ other = renamed \cup {c},
           opened[c].code \in {NoCode, k} \/ c \in other
    PROVE  /\ opened' \in [Opened -> F!CaseRow]
           /\ (CodesAreOneEach /\ UnbornHaveNoCeiling)'
           /\ \A g \in Forms : FormHolds(forms[g], opened', other)
<1> USE FormsAssumed DEF F!FormsAssumption
<1>1. opened \in [Opened -> F!CaseRow] /\ opened[c] \in F!CaseRow
    BY DEF FormsInv, F!FormsTyped
<1>2. opened' \in [Opened -> F!CaseRow]
    BY <1>1 DEF F!CaseRow
<1>3. \A d \in Opened : /\ opened'[d].limit = opened[d].limit
                        /\ opened'[d].code = IF d = c THEN k ELSE opened[d].code
    BY <1>1 DEF F!CaseRow
<1>4. k # NoCode
    OBVIOUS
<1>5. (CodesAreOneEach /\ UnbornHaveNoCeiling)'
    BY <1>3, <1>4 DEF FormsInv, CodesAreOneEach, UnbornHaveNoCeiling, F!Free
<1>6. ASSUME NEW g \in Forms PROVE FormHolds(forms[g], opened', other)
    <2> DEFINE r == forms[g]
    <2>1. r \in F!Form /\ FormHolds(r, opened, renamed)
        BY DEF FormsInv, F!FormsTyped, FormsHold
    <2>2. \A d \in r.made : d \in Opened /\ opened[d].code # NoCode
        BY <2>1 DEF FormHolds, F!Form
    <2>3. \A d \in r.made : opened'[d].code # NoCode /\ (d \in other \/ opened'[d].code \in r.sent)
        <3> SUFFICES ASSUME NEW d \in r.made
                     PROVE  opened'[d].code # NoCode /\ (d \in other \/ opened'[d].code \in r.sent)
            OBVIOUS
        <3>1. d \in Opened /\ opened[d].code # NoCode
            BY <2>2
        <3>2. d \in renamed \/ opened[d].code \in r.sent
            BY <2>1 DEF FormHolds
        <3> HIDE DEF r
        <3>3. d \in other \/ opened[d].code \in r.sent
            BY <3>2
        <3>4. CASE d = c
            BY <3>4, <3>1, <3>3, <1>3, <1>4
        <3>5. CASE d # c
            BY <3>5, <3>1, <3>3, <1>3
        <3> QED BY <3>4, <3>5
    <2>4. r.step \in {"saved", "limiting", "done"} =>
              /\ r.saved \in Opened /\ opened'[r.saved].code # NoCode
              /\ opened'[r.saved].limit = opened[r.saved].limit
        BY <2>1, <1>3, <1>4 DEF FormHolds
    <2> QED BY <2>1, <2>3, <2>4 DEF FormHolds
<1> QED BY <1>2, <1>5, <1>6

(* The answer to a request that gave case c code k, which the form had sent. *)
LEMMA AnswerIsTaken ==
    ASSUME FormsInv, NEW f \in Forms, NEW c \in Opened, NEW limit \in F!Ceilings,
           F!Saved(f, c, limit), NEW other,
           opened' \in [Opened -> F!CaseRow], opened'[c].code # NoCode,
           forms[f].case = NoOpened => opened'[c].code \in forms[f].sent,
           opened'[c].limit = limit,
           \A g \in Forms : FormHolds(forms[g], opened', other)
    PROVE  forms' \in [Forms -> F!Form] /\ \A g \in Forms : FormHolds(forms'[g], opened', other)
<1> USE FormsAssumed DEF F!FormsAssumption
<1>0. forms \in [Forms -> F!Form] /\ forms[f] \in F!Form /\ FormHolds(forms[f], opened', other)
    BY DEF FormsInv, F!FormsTyped
<1> DEFINE made == IF forms[f].case = NoOpened THEN forms[f].made \cup {c} ELSE {}
           over == [forms[f] EXCEPT !.made = made, !.sending = NoCode]
           told == [over EXCEPT !.step = "saved", !.saved = c, !.told = limit, !.others = FALSE]
           lost == [over EXCEPT !.step = F!Again(over)]
<1>1. made \subseteq Opened
    BY <1>0 DEF F!Form
<1>2. IsFiniteSet(made)
    <2>1. IsFiniteSet(forms[f].made)
        BY <1>0 DEF FormHolds
    <2>2. IsFiniteSet(forms[f].made \cup {c})
        BY <2>1, FS_AddElement
    <2> QED BY <2>2, FS_EmptySet
<1>3. \A d \in made : opened'[d].code # NoCode /\ (d \in other \/ opened'[d].code \in forms[f].sent)
    BY <1>0 DEF FormHolds
<1> HIDE DEF made
<1>4. told \in F!Form /\ lost \in F!Form
    BY <1>0, <1>1 DEF F!Form, F!Again
<1>5. /\ told.sent = forms[f].sent /\ told.made = made /\ told.step = "saved" /\ told.saved = c
      /\ told.told = limit
    BY <1>0 DEF F!Form
<1>6. lost.sent = forms[f].sent /\ lost.made = made /\ lost.step \in {"open", "closed"}
    BY <1>0 DEF F!Form, F!Again
<1> HIDE DEF told, lost
<1>7. FormHolds(told, opened', other) /\ FormHolds(lost, opened', other)
    BY <1>0, <1>2, <1>3, <1>5, <1>6 DEF FormHolds
<1>8. \E r \in {told, lost} : forms' = [forms EXCEPT ![f] = r]
    BY DEF F!Saved, F!Becomes, told, lost, made
<1> QED BY <1>0, <1>4, <1>7, <1>8

LEMMA CaseIsCreated ==
    ASSUME FormsInv, NEW f \in Forms, NEW c \in Opened, F!CreateCase(f, c)
    PROVE  FormsInv'
<1> USE FormsAssumed DEF F!FormsAssumption
<1>0. forms[f] \in F!Form /\ FormHolds(forms[f], opened, renamed)
    BY DEF FormsInv, F!FormsTyped, FormsHold
<1> DEFINE k == forms[f].sending
<1>1. k \in forms[f].sent /\ k \in FormCodes
    BY <1>0 DEF FormHolds, F!Form, F!CreateCase
<1>2. /\ F!Free(c, k) /\ opened' = [opened EXCEPT ![c].code = k]
      /\ opened[c].code = NoCode /\ renamed' = renamed /\ saves' = saves
      /\ F!Saved(f, c, BornWith)
    BY DEF F!CreateCase, F!Kept
<1> HIDE DEF k
<1>3. /\ opened' \in [Opened -> F!CaseRow] /\ (CodesAreOneEach /\ UnbornHaveNoCeiling)'
      /\ \A g \in Forms : FormHolds(forms[g], opened', renamed)
    BY <1>1, <1>2, CodeIsGiven
<1>4. opened'[c].code = k /\ opened'[c].limit = BornWith
    <2>1. opened \in [Opened -> F!CaseRow]
        BY DEF FormsInv, F!FormsTyped
    <2>2. opened[c].limit = BornWith
        BY <1>2 DEF FormsInv, UnbornHaveNoCeiling
    <2> QED BY <1>2, <2>1, <2>2 DEF F!CaseRow
<1>5. BornWith \in F!Ceilings
    BY DEF F!Ceilings
<1>6. k # NoCode
    BY <1>1
<1>7. forms' \in [Forms -> F!Form] /\ \A g \in Forms : FormHolds(forms'[g], opened', renamed)
    BY <1>1, <1>2, <1>3, <1>4, <1>5, <1>6, AnswerIsTaken
<1> QED BY <1>2, <1>3, <1>7 DEF FormsInv, FormsHold, F!FormsTyped

LEMMA CaseIsUpdated ==
    ASSUME FormsInv, NEW f \in Forms, F!UpdateCase(f)
    PROVE  FormsInv'
<1> USE FormsAssumed DEF F!FormsAssumption
<1>0. forms[f] \in F!Form /\ FormHolds(forms[f], opened, renamed)
    BY DEF FormsInv, F!FormsTyped, FormsHold
<1> DEFINE k == forms[f].sending
           c == forms[f].case
<1>1. k \in FormCodes /\ c \in Opened
    BY <1>0 DEF FormHolds, F!Form, F!UpdateCase
<1>2. /\ F!Free(c, k) /\ opened' = [opened EXCEPT ![c].code = k]
      /\ renamed' = IF k = opened[c].code THEN renamed ELSE renamed \cup {c}
      /\ saves' = saves /\ c # NoOpened
      /\ F!Saved(f, c, opened[c].limit)
    BY DEF F!UpdateCase
<1>3. forms[f].case = c
    OBVIOUS
<1> HIDE DEF k, c
<1>4. /\ renamed' = renamed \/ renamed' = renamed \cup {c}
      /\ opened[c].code \in {NoCode, k} \/ c \in renamed'
    BY <1>2
<1>5. /\ opened' \in [Opened -> F!CaseRow] /\ (CodesAreOneEach /\ UnbornHaveNoCeiling)'
      /\ \A g \in Forms : FormHolds(forms[g], opened', renamed')
    BY <1>1, <1>2, <1>4, CodeIsGiven
<1>6. opened'[c].code = k /\ opened'[c].limit = opened[c].limit /\ opened[c].limit \in F!Ceilings
    <2>1. opened \in [Opened -> F!CaseRow]
        BY DEF FormsInv, F!FormsTyped
    <2> QED BY <1>1, <1>2, <2>1 DEF F!CaseRow
<1>7. k # NoCode
    BY <1>1
<1>8. forms' \in [Forms -> F!Form] /\ \A g \in Forms : FormHolds(forms'[g], opened', renamed')
    BY <1>1, <1>2, <1>3, <1>5, <1>6, <1>7, AnswerIsTaken
<1>9. renamed' \subseteq Opened
    BY <1>1, <1>4 DEF FormsInv, F!FormsTyped
<1> QED BY <1>2, <1>5, <1>8, <1>9 DEF FormsInv, FormsHold, F!FormsTyped

LEMMA FormAsksForLimit ==
    ASSUME FormsInv, NEW f \in Forms, F!AskForLimit(f)
    PROVE  FormsInv'
<1>0. forms[f] \in F!Form /\ FormHolds(forms[f], opened, renamed) /\ forms[f].step = "saved"
    BY DEF FormsInv, F!FormsTyped, FormsHold, F!AskForLimit
<1> DEFINE step == IF forms[f].mayLimit /\ forms[f].limit # forms[f].told THEN "limiting" ELSE "done"
           r == [forms[f] EXCEPT !.step = step, !.asking = forms[f].limit, !.late = FALSE]
<1>1. r \in F!Form
    BY <1>0 DEF F!Form
<1>2. /\ r.asking = r.limit
      /\ r.sent = forms[f].sent /\ r.made = forms[f].made /\ r.saved = forms[f].saved
      /\ r.limit = forms[f].limit /\ r.others = forms[f].others /\ r.mayLimit = forms[f].mayLimit
      /\ r.step \in {"limiting", "done"}
      /\ r.step = "done" => ~forms[f].mayLimit \/ forms[f].limit = forms[f].told
    BY <1>0 DEF F!Form
<1>3. F!Becomes(f, r) /\ opened' = opened /\ renamed' = renamed /\ saves' \in 0 .. MaxSaves
    BY DEF F!AskForLimit, FormsInv, F!FormsTyped
<1> HIDE DEF r
<1>4. FormHolds(r, opened, renamed)
    BY <1>0, <1>2 DEF FormHolds
<1> QED BY <1>1, <1>3, <1>4, OneForm

LEMMA FormIsRefused ==
    ASSUME FormsInv, NEW f \in Forms, F!Refuse(f)
    PROVE  FormsInv'
<1>0. forms[f] \in F!Form /\ FormHolds(forms[f], opened, renamed)
    BY DEF FormsInv, F!FormsTyped, FormsHold
<1> DEFINE r == [forms[f] EXCEPT !.step = F!Again(forms[f]), !.sending = NoCode, !.told = FormLimit,
                              !.asking = FormLimit, !.late = FALSE]
<1>5. F!Again(forms[f]) \in {"open", "closed"} /\ FormLimit \in F!Ceilings
    BY DEF F!Again, F!Ceilings
<1>1. r \in F!Form
    BY <1>0, <1>5 DEF F!Form
<1>2. r.sent = forms[f].sent /\ r.made = forms[f].made /\ r.step \in {"open", "closed"}
    BY <1>0, <1>5 DEF F!Form
<1>3. F!Becomes(f, r) /\ opened' = opened /\ renamed' = renamed /\ saves' \in 0 .. MaxSaves
    BY DEF F!Refuse, FormsInv, F!FormsTyped
<1> HIDE DEF r
<1>4. FormHolds(r, opened, renamed)
    BY <1>0, <1>2 DEF FormHolds
<1> QED BY <1>1, <1>3, <1>4, OneForm

(* Who sets the ceiling makes every other form that was told of this case one
   that somebody else has overtaken. *)
LEMMA LimitIsSet ==
    ASSUME FormsInv, NEW f \in Forms, F!SetLimit(f)
    PROVE  FormsInv'
<1> DEFINE r == forms[f]
           seen(g) == forms[g].step \in {"saved", "limiting", "done"} /\ forms[g].saved = r.saved
           ends(step) == [r EXCEPT !.step = step, !.told = FormLimit, !.others = FALSE, !.asking = FormLimit]
           knows(g) == [forms[g] EXCEPT !.others = @ \/ seen(g)]
<1>0. opened \in [Opened -> F!CaseRow] /\ forms \in [Forms -> F!Form]
    BY DEF FormsInv, F!FormsTyped
<1>1. \A g \in Forms : forms[g] \in F!Form /\ FormHolds(forms[g], opened, renamed)
    BY <1>0 DEF FormsInv, FormsHold
<1>2. r \in F!Form /\ r.saved \in Opened /\ opened[r.saved].code # NoCode /\ r.asking \in F!Ceilings
      /\ (~r.late => r.asking = r.limit)
    BY <1>1 DEF F!SetLimit, FormHolds, F!Form
<1>3. /\ opened' = [opened EXCEPT ![r.saved].limit = r.asking] /\ renamed' = renamed /\ saves' = saves
      /\ \E step \in {"done", "open", "closed"} :
           forms' = [g \in Forms |-> IF g = f THEN ends(step) ELSE knows(g)]
    BY DEF F!SetLimit, F!Again
<1>4. opened' \in [Opened -> F!CaseRow]
    BY <1>0, <1>2, <1>3 DEF F!CaseRow
<1>5. \A c \in Opened : /\ opened'[c].code = opened[c].code
                        /\ opened'[c].limit = IF c = r.saved THEN r.asking ELSE opened[c].limit
    BY <1>0, <1>2, <1>3 DEF F!CaseRow
<1>6. CodesAreOneEach' /\ UnbornHaveNoCeiling'
    BY <1>2, <1>5 DEF FormsInv, CodesAreOneEach, UnbornHaveNoCeiling
<1>7. ASSUME NEW g \in Forms
      PROVE  knows(g) \in F!Form /\ (FormHolds(knows(g), opened', renamed))
    <2> DEFINE h == forms[g]
               k == knows(g)
    <2>1. h \in F!Form /\ FormHolds(h, opened, renamed)
        BY <1>1
    <2>2. (h.others \/ seen(g)) \in BOOLEAN
        BY <2>1 DEF F!Form
    <2>3. k \in F!Form
        BY <2>1, <2>2 DEF F!Form
    <2>4. /\ k.sent = h.sent /\ k.made = h.made /\ k.step = h.step /\ k.sending = h.sending
          /\ k.saved = h.saved /\ k.told = h.told /\ k.limit = h.limit /\ k.mayLimit = h.mayLimit
          /\ k.asking = h.asking /\ k.late = h.late
        BY <2>1 DEF F!Form
    <2>5. ~k.others => ~h.others /\ ~seen(g)
        BY <2>1, <2>2 DEF F!Form
    <2>6. \A c \in h.made : c \in Opened
        BY <2>1 DEF F!Form
    <2> HIDE DEF k
    <2>7. \A c \in k.made : opened'[c].code # NoCode /\ (c \in renamed \/ opened'[c].code \in k.sent)
        BY <2>1, <2>4, <2>6, <1>5 DEF FormHolds
    <2>8. k.step \in {"saved", "limiting", "done"} =>
              k.saved \in Opened /\ opened'[k.saved].code # NoCode
        BY <2>1, <2>4, <1>5 DEF FormHolds
    <2>9. k.step \in {"saved", "limiting", "done"} /\ ~k.others =>
              opened'[k.saved].limit = opened[k.saved].limit
        BY <2>1, <2>4, <2>5, <1>5 DEF FormHolds
    <2>10. k.step = "saved" /\ ~k.others => opened'[k.saved].limit = k.told
        BY <2>1, <2>4, <2>5, <2>9 DEF FormHolds
    <2>11. /\ k.step = "done" /\ k.mayLimit /\ ~k.others /\ ~k.late => opened'[k.saved].limit = k.limit
           /\ k.step = "limiting" /\ ~k.late => k.asking = k.limit
        BY <2>1, <2>4, <2>5, <2>9 DEF FormHolds
    <2>12. IsFiniteSet(k.sent) /\ IsFiniteSet(k.made) /\ (k.step = "asked" => k.sending \in k.sent)
        BY <2>1, <2>4 DEF FormHolds
    <2>13. FormHolds(k, opened', renamed)
        BY <2>7, <2>8, <2>10, <2>11, <2>12 DEF FormHolds
    <2> QED BY <2>3, <2>13 DEF k
<1>8. ASSUME NEW step \in {"done", "open", "closed"}
      PROVE  ends(step) \in F!Form /\ FormHolds(ends(step), opened', renamed)
    <2> DEFINE k == ends(step)
    <2>1. k \in F!Form
        BY <1>2 DEF F!Form, F!Ceilings
    <2>2. /\ k.sent = r.sent /\ k.made = r.made /\ k.step = step
          /\ k.saved = r.saved /\ k.limit = r.limit /\ k.late = r.late
        BY <1>2 DEF F!Form
    <2>3. \A c \in r.made : c \in Opened
        BY <1>2 DEF F!Form
    <2>4. FormHolds(r, opened, renamed)
        BY <1>1
    <2> HIDE DEF k, r
    <2>5. \A c \in k.made : opened'[c].code # NoCode /\ (c \in renamed \/ opened'[c].code \in k.sent)
        BY <2>2, <2>3, <2>4, <1>5 DEF FormHolds
    <2>6. (~k.late => opened'[k.saved].limit = k.limit) /\ opened'[k.saved].code # NoCode
        BY <2>2, <1>2, <1>5
    <2>7. IsFiniteSet(k.sent) /\ IsFiniteSet(k.made)
        BY <2>2, <2>4 DEF FormHolds
    <2>8. FormHolds(k, opened', renamed)
        BY <2>2, <2>5, <2>6, <2>7, <1>2 DEF FormHolds
    <2> QED BY <2>1, <2>8 DEF k
<1> HIDE DEF ends, knows, r
<1>9. forms' \in [Forms -> F!Form] /\ \A g \in Forms : FormHolds(forms'[g], opened', renamed)
    BY <1>3, <1>7, <1>8
<1> QED BY <1>3, <1>4, <1>6, <1>9 DEF FormsInv, FormsHold, F!FormsTyped

LEMMA FormsStep ==
    ASSUME FormsInv, [F!FormsNext]_(F!formVars)
    PROVE  FormsInv'
<1>1. CASE F!FormsNext
    <2>1. PICK f \in Forms :
              \/ \E may \in BOOLEAN : F!OpenNew(f, may)
                    \/ \E c \in Opened : F!OpenEdit(f, c, may) \/ F!OpenUnloaded(f, c, may)
              \/ \E k \in FormCodes : F!TypeCode(f, k)
              \/ \E l \in FormLimits : F!TypeLimit(f, l)
              \/ F!Leave(f) \/ F!Save(f) \/ F!UpdateCase(f) \/ F!AskForLimit(f) \/ F!SetLimit(f)
              \/ F!Refuse(f)
              \/ \E c \in Opened : F!CreateCase(f, c)
        BY <1>1 DEF F!FormsNext
    <2>2. CASE \E may \in BOOLEAN : F!OpenNew(f, may)
                    \/ \E c \in Opened : F!OpenEdit(f, c, may) \/ F!OpenUnloaded(f, c, may)
        BY <2>2, FormOpens
    <2>3. CASE \E k \in FormCodes : F!TypeCode(f, k)
        BY <2>3, FormTakesCode
    <2>4. CASE \E l \in FormLimits : F!TypeLimit(f, l)
        BY <2>4, FormTakesLimit
    <2>5. CASE F!Leave(f)
        BY <2>5, FormIsLeft
    <2>6. CASE F!Save(f)
        BY <2>6, FormIsSent
    <2>7. CASE F!UpdateCase(f)
        BY <2>7, CaseIsUpdated
    <2>8. CASE F!AskForLimit(f)
        BY <2>8, FormAsksForLimit
    <2>9. CASE F!SetLimit(f)
        BY <2>9, LimitIsSet
    <2>10. CASE F!Refuse(f)
        BY <2>10, FormIsRefused
    <2>11. CASE \E c \in Opened : F!CreateCase(f, c)
        BY <2>11, CaseIsCreated
    <2> QED BY <2>1, <2>2, <2>3, <2>4, <2>5, <2>6, <2>7, <2>8, <2>9, <2>10, <2>11
<1>2. CASE UNCHANGED F!formVars
    BY <1>2 DEF F!formVars, FormsInv, F!FormsTyped, CodesAreOneEach, UnbornHaveNoCeiling, FormsHold
<1> QED BY <1>1, <1>2

(* The cases a form made and nobody renamed have codes of their own, all among
   those it sent. *)
LEMMA FormsStayFaithful ==
    ASSUME FormsInv
    PROVE  F!FormsAreFaithful
<1>1. ASSUME NEW f \in Forms
      PROVE  Cardinality(forms[f].made \ renamed) <= Cardinality(forms[f].sent)
    <2> DEFINE own == forms[f].made \ renamed
               sent_f == forms[f].sent
               codeOf == [c \in own |-> opened[c].code]
    <2>1. forms[f] \in F!Form /\ FormHolds(forms[f], opened, renamed)
        BY DEF FormsInv, FormsHold, F!FormsTyped
    <2>2. IsFiniteSet(sent_f) /\ own \subseteq Opened
        BY <2>1 DEF FormHolds, F!Form
    <2>3. \A c \in own : opened[c].code # NoCode /\ opened[c].code \in sent_f
        BY <2>1 DEF FormHolds
    <2> HIDE DEF own, sent_f
    <2>4. codeOf \in [own -> sent_f]
        BY <2>3
    <2>5. \A c, d \in own : codeOf[c] = codeOf[d] => c = d
        BY <2>2, <2>3 DEF FormsInv, CodesAreOneEach
    <2> HIDE DEF codeOf
    <2>6. IsFiniteSet(own)
        <3>1. IsFiniteSet(forms[f].made) /\ own \subseteq forms[f].made
            BY <2>1 DEF FormHolds, own
        <3> QED BY <3>1, FS_Subset
    <2>7. ~(Cardinality(sent_f) < Cardinality(own))
        BY <2>2, <2>4, <2>5, <2>6, FS_PigeonHole
    <2>8. Cardinality(own) <= Cardinality(sent_f)
        BY <2>2, <2>6, <2>7, FS_CardinalityType
    <2> QED BY <2>8 DEF own, sent_f
<1>2. F!OneCasePerCode
    BY <1>1 DEF F!OneCasePerCode, F!Cardinality, Cardinality
<1>3. F!CeilingIsAsShown
    BY DEF FormsInv, FormsHold, FormHolds, F!CeilingIsAsShown
<1> QED BY <1>2, <1>3 DEF F!FormsAreFaithful, FormsInv

-----------------------------------------------------------------------------
(* UploadPanel *)

(* Until files are taken out of it, the queue begins with what was sent. *)
QueueBeginsWithSent ==
    batch # "none" /\ ~shortened =>
        Len(sent) <= Len(files) /\ \A i \in DOMAIN sent : files[i] = sent[i]

(* Refusals come with an answer. *)
AnswersRefuse == batch # "shown" => rejected = {}

PanelInv == U!PanelTyped /\ U!QueueIsBounded /\ QueueBeginsWithSent /\ AnswersRefuse

(* The place of j among the members of a set of numbers. *)
Rank(S, j) == Cardinality({k \in S : k <= j})

(* Each place of a finite set of numbers is that of a member. *)
LEMMA RanksAreFilled ==
    ASSUME NEW S, S \subseteq Nat, IsFiniteSet(S), NEW i \in 1 .. Cardinality(S)
    PROVE  \E j \in S : Rank(S, j) = i
<1> SUFFICES ASSUME \A j \in S : Rank(S, j) # i PROVE FALSE
    OBVIOUS
<1> DEFINE n == Cardinality(S)
           free == (1 .. n) \ {i}
           rank == [j \in S |-> Rank(S, j)]
<1>1. n \in Nat
    BY FS_CardinalityType
<1>2. IsFiniteSet(1 .. n) /\ Cardinality(1 .. n) = n
    BY <1>1, FS_Interval
<1>3. IsFiniteSet(free) /\ Cardinality(free) = n - 1
    BY <1>2, FS_RemoveElement
<1>4. ASSUME NEW j \in S
      PROVE  /\ IsFiniteSet({k \in S : k <= j}) /\ Rank(S, j) \in 1 .. n
    <2> DEFINE below == {k \in S : k <= j}
    <2>1. IsFiniteSet(below) /\ Cardinality(below) <= n
        BY FS_Subset
    <2>2. Cardinality(below) \in Nat
        BY <2>1, FS_CardinalityType
    <2>3. Cardinality(below) # 0
        <3>1. j \in below
            OBVIOUS
        <3> HIDE DEF below
        <3> QED BY <3>1, <2>1, FS_EmptySet
    <2>4. Rank(S, j) = Cardinality(below)
        BY DEF Rank
    <2> HIDE DEF below, n
    <2>5. Rank(S, j) \in 1 .. n
        BY <1>1, <2>1, <2>2, <2>3, <2>4
    <2> QED BY <2>1, <2>5 DEF below
<1>5. rank \in [S -> free]
    BY <1>4
<1>6. ASSUME NEW x \in S, NEW y \in S, x < y PROVE rank[x] # rank[y]
    <2> DEFINE upX == {k \in S : k <= x}
               upY == {k \in S : k <= y}
    <2>1. upX \subseteq upY /\ y \in upY /\ y \notin upX
        <3>1. x \in Nat /\ y \in Nat /\ \A k \in S : k \in Nat
            OBVIOUS
        <3>2. \A k \in S : k <= x => k <= y
            BY <3>1, <1>6
        <3>3. ~(y <= x) /\ y <= y
            BY <3>1, <1>6
        <3> QED BY <3>2, <3>3
    <2>2. IsFiniteSet(upY)
        BY <1>4
    <2>3. rank[x] = Cardinality(upX) /\ rank[y] = Cardinality(upY)
        BY DEF Rank
    <2> HIDE DEF upX, upY, rank
    <2>4. Cardinality(upX) # Cardinality(upY)
        BY <2>1, <2>2, FS_Subset
    <2> QED BY <2>3, <2>4
<1> HIDE DEF rank, free, n
<1>7. Cardinality(free) < Cardinality(S)
    BY <1>1, <1>3 DEF n
<1>8. PICK x \in S, y \in S : x # y /\ rank[x] = rank[y]
    BY <1>3, <1>5, <1>7, FS_PigeonHole
<1>9. x < y \/ y < x
    BY <1>8
<1> QED BY <1>6, <1>8, <1>9

(* What is taken of a choice is fit, and there is room for it. *)
LEMMA RoomForTaken ==
    ASSUME PanelInv, NEW choice \in Seq(Files)
    PROVE  /\ U!Screened(choice) \subseteq DOMAIN choice
           /\ \A j \in U!Screened(choice) : choice[j] \in Files \ Unfit
           /\ IsFiniteSet(U!Screened(choice))
           /\ Len(files) + Cardinality(U!Screened(choice)) <= MaxFiles
<1> DEFINE fit == {i \in DOMAIN choice : choice[i] \notin Unfit}
           before(i) == {k \in fit : k < i}
           taken == {i \in fit : U!Room(Cardinality(before(i)))}
<1>1. U!Screened(choice) = taken
    BY DEF U!Screened, U!Cardinality, Cardinality
<1>2. DOMAIN choice = 1 .. Len(choice) /\ Len(choice) \in Nat
    OBVIOUS
<1>3. IsFiniteSet(1 .. Len(choice))
    BY <1>2, FS_Interval
<1>4. IsFiniteSet(fit)
    BY <1>2, <1>3, FS_Subset
<1>5. IsFiniteSet(taken)
    BY <1>4, FS_Subset
<1>6. Cardinality(taken) \in Nat
    BY <1>5, FS_CardinalityType
<1>7. Len(files) \in Nat /\ MaxFiles \in Nat /\ Len(files) <= MaxFiles
    BY PanelAssumed DEF PanelInv, U!PanelTyped, U!QueueIsBounded, U!PanelAssumption
<1>8. CASE Cardinality(taken) = 0
    BY <1>1, <1>2, <1>5, <1>7, <1>8
<1>9. CASE Cardinality(taken) # 0
    <2>1. Cardinality(taken) \in 1 .. Cardinality(taken)
        <3> HIDE DEF taken
        <3> QED BY <1>6, <1>9
    <2>2. taken \subseteq Nat
        BY <1>2
    <2>3. PICK j \in taken : Rank(taken, j) = Cardinality(taken)
        <3> HIDE DEF taken
        <3> QED BY <1>5, <2>1, <2>2, RanksAreFilled
    <2>4. U!Room(Cardinality(before(j))) /\ j \in Nat
        BY <2>2
    <2>5. IsFiniteSet(before(j))
        BY <1>4, FS_Subset
    <2>6. Cardinality(before(j)) \in Nat
        BY <2>5, FS_CardinalityType
    <2>7. IsFiniteSet(before(j) \cup {j}) /\ Cardinality(before(j) \cup {j}) <= Cardinality(before(j)) + 1
        <3> DEFINE b == before(j)
        <3> HIDE DEF b
        <3>1. /\ IsFiniteSet(b \cup {j})
              /\ Cardinality(b \cup {j}) = IF j \in b THEN Cardinality(b) ELSE Cardinality(b) + 1
            <4>1. IsFiniteSet(b)
                BY <2>5 DEF b
            <4> QED BY <4>1, FS_AddElement
        <3>2. Cardinality(b) \in Nat
            BY <2>6 DEF b
        <3>3. Cardinality(b \cup {j}) <= Cardinality(b) + 1
            BY <3>1, <3>2
        <3> QED BY <3>1, <3>3 DEF b
    <2>8. {k \in taken : k <= j} \subseteq before(j) \cup {j}
        BY <2>2
    <2>9. Rank(taken, j) <= Cardinality(before(j) \cup {j})
        <3> DEFINE upTo == {k \in taken : k <= j}
        <3>1. Rank(taken, j) = Cardinality(upTo)
            BY DEF Rank
        <3>2. upTo \in SUBSET (before(j) \cup {j})
            BY <2>8
        <3> HIDE DEF upTo, before, taken
        <3> QED BY <3>1, <3>2, <2>7, FS_Subset
    <2>10. Cardinality(before(j)) + Len(files) < MaxFiles
        BY <2>4 DEF U!Room
    <2> HIDE DEF taken, before
    <2>11. IsFiniteSet(before(j) \cup {j}) /\ Cardinality(before(j) \cup {j}) \in Nat
        BY <2>7, FS_CardinalityType
    <2>12. Len(files) + Cardinality(taken) <= MaxFiles
        BY <1>6, <1>7, <2>3, <2>6, <2>7, <2>9, <2>10, <2>11
    <2> QED BY <1>1, <1>5, <2>12, <1>2 DEF taken
<1> QED BY <1>8, <1>9

LEMMA PanelBegins ==
    ASSUME U!PanelInit
    PROVE  PanelInv
<1> USE DEF U!PanelInit
<1>1. <<>> \in Seq(Files \ Unfit) /\ Len(files) = 0
    OBVIOUS
<1>2. failed \in BOOLEAN /\ shortened \in BOOLEAN
    BY Zenon
<1>3. U!PanelTyped
    BY <1>1, <1>2 DEF U!PanelTyped
<1>4. U!QueueIsBounded
    BY <1>1, PanelAssumed DEF U!QueueIsBounded, U!PanelAssumption
<1> QED BY <1>3, <1>4 DEF PanelInv, QueueBeginsWithSent, AnswersRefuse

LEMMA FilesArePicked ==
    ASSUME PanelInv, NEW choice \in Seq(Files), U!Pick(choice)
    PROVE  PanelInv'
<1> DEFINE taken == U!Screened(choice)
           added == [i \in 1 .. Cardinality(taken) |->
                        choice[CHOOSE j \in taken : Cardinality({k \in taken : k <= j}) = i]]
<1>1. /\ taken \subseteq DOMAIN choice /\ \A j \in taken : choice[j] \in Files \ Unfit
      /\ IsFiniteSet(taken) /\ Len(files) + Cardinality(taken) <= MaxFiles
    BY RoomForTaken
<1>2. /\ files' = files \o added
      /\ refused' = refused \cup {choice[i] : i \in DOMAIN choice \ taken}
      /\ batch # "shown" /\ UNCHANGED <<sent, batch, rejected, failed, shortened>>
    BY DEF U!Pick, U!Queued, U!Cardinality, Cardinality
<1>3. Cardinality(taken) \in Nat /\ taken \subseteq Nat
    BY <1>1, FS_CardinalityType
<1> HIDE DEF taken
<1>4. added \in Seq(Files \ Unfit) /\ Len(added) = Cardinality(taken)
    <2>1. ASSUME NEW i \in 1 .. Cardinality(taken) PROVE added[i] \in Files \ Unfit
        <3>1. \E j \in taken : Cardinality({k \in taken : k <= j}) = i
            BY <1>1, <1>3, RanksAreFilled DEF Rank
        <3>2. (CHOOSE j \in taken : Cardinality({k \in taken : k <= j}) = i) \in taken
            BY <3>1
        <3> QED BY <3>2, <1>1
    <2>2. added \in [1 .. Cardinality(taken) -> Files \ Unfit]
        BY <2>1
    <2> HIDE DEF added
    <2> QED BY <2>2, <1>3
<1> HIDE DEF added
<1>5. /\ files \in Seq(Files \ Unfit) /\ sent \in Seq(Files \ Unfit)
      /\ Len(files) \in Nat /\ refused \subseteq Files
    BY DEF PanelInv, U!PanelTyped
<1>6. files' \in Seq(Files \ Unfit) /\ Len(files') = Len(files) + Len(added)
    BY <1>2, <1>4, <1>5
<1>7. refused' \subseteq Files
    BY <1>2, <1>5
<1>8. U!PanelTyped'
    BY <1>2, <1>6, <1>7 DEF PanelInv, U!PanelTyped
<1>9. U!QueueIsBounded'
    BY <1>1, <1>4, <1>6 DEF U!QueueIsBounded
<1>10. QueueBeginsWithSent'
    <2> SUFFICES ASSUME batch # "none", ~shortened
                 PROVE  Len(sent) <= Len(files') /\ \A i \in DOMAIN sent : files'[i] = sent[i]
        BY <1>2 DEF QueueBeginsWithSent
    <2>1. Len(sent) <= Len(files) /\ \A i \in DOMAIN sent : files[i] = sent[i]
        BY DEF PanelInv, QueueBeginsWithSent
    <2>2. \A i \in 1 .. Len(files) : files'[i] = files[i]
        BY <1>2, <1>4, <1>5
    <2>3. DOMAIN sent = 1 .. Len(sent) /\ Len(sent) \in Nat
        BY <1>5
    <2> QED BY <2>1, <2>2, <2>3, <1>3, <1>4, <1>5, <1>6
<1> QED BY <1>2, <1>8, <1>9, <1>10 DEF PanelInv, AnswersRefuse

LEMMA FileIsTakenOut ==
    ASSUME PanelInv, NEW i \in DOMAIN files, U!RemoveFromQueue(i)
    PROVE  PanelInv'
<1>1. /\ files' = SubSeq(files, 1, i - 1) \o SubSeq(files, i + 1, Len(files))
      /\ shortened' = (shortened \/ batch = "due") /\ batch # "shown"
      /\ UNCHANGED <<refused, sent, batch, rejected, failed>>
    BY DEF U!RemoveFromQueue, U!RemoveAt
<1>2. files \in Seq(Files \ Unfit) /\ Len(files) \in Nat /\ i \in 1 .. Len(files)
    BY DEF PanelInv, U!PanelTyped
<1> DEFINE front == SubSeq(files, 1, i - 1)
           back == SubSeq(files, i + 1, Len(files))
<1>3. front \in Seq(Files \ Unfit) /\ Len(front) = i - 1
    BY <1>2
<1>4. back \in Seq(Files \ Unfit) /\ Len(back) = Len(files) - i
    BY <1>2
<1>5. files' = front \o back
    BY <1>1
<1> HIDE DEF front, back
<1>6. files' \in Seq(Files \ Unfit) /\ Len(files') = Len(files) - 1
    BY <1>2, <1>3, <1>4, <1>5
<1>7. shortened' \in BOOLEAN
    BY <1>1 DEF PanelInv, U!PanelTyped
<1>8. U!PanelTyped'
    BY <1>1, <1>6, <1>7 DEF PanelInv, U!PanelTyped
<1>9. U!QueueIsBounded'
    BY <1>2, <1>6, PanelAssumed DEF PanelInv, U!QueueIsBounded, U!PanelAssumption
<1>10. QueueBeginsWithSent'
    BY <1>1 DEF PanelInv, U!PanelTyped, QueueBeginsWithSent
<1> QED BY <1>1, <1>8, <1>9, <1>10 DEF PanelInv, AnswersRefuse

LEMMA PanelStep ==
    ASSUME PanelInv, [U!PanelNext]_(U!panelVars)
    PROVE  PanelInv'
<1>1. ASSUME NEW choice \in U!Picks, U!Pick(choice) PROVE PanelInv'
    <2>1. choice \in Seq(Files)
        BY DEF U!Picks, U!SeqOf
    <2> QED BY <1>1, <2>1, FilesArePicked
<1>2. ASSUME NEW i \in DOMAIN files, U!RemoveFromQueue(i) PROVE PanelInv'
    BY <1>2, FileIsTakenOut
<1>3. CASE U!Send
    <2>1. /\ sent' = files /\ batch' = "due" /\ failed' = FALSE /\ shortened' = FALSE
          /\ files' = files /\ refused' = refused /\ rejected' = {}
        BY <1>3 DEF U!Send, PanelInv, AnswersRefuse
    <2>2. failed' \in BOOLEAN /\ shortened' \in BOOLEAN
        BY <2>1, Zenon
    <2>3. U!PanelTyped'
        BY <2>1, <2>2 DEF PanelInv, U!PanelTyped
    <2>4. QueueBeginsWithSent'
        BY <2>1 DEF QueueBeginsWithSent, PanelInv, U!PanelTyped
    <2> QED BY <2>1, <2>3, <2>4 DEF PanelInv, U!QueueIsBounded, AnswersRefuse
<1>4. ASSUME NEW refusals \in SUBSET DOMAIN sent, U!Answer(refusals) PROVE PanelInv'
    BY <1>4 DEF U!Answer, PanelInv, U!PanelTyped, U!QueueIsBounded, QueueBeginsWithSent, AnswersRefuse
<1>5. CASE U!SendFails
    <2>1. /\ batch' = "none" /\ sent' = <<>> /\ failed' = TRUE /\ shortened' = shortened
          /\ files' = files /\ refused' = refused /\ rejected' = {}
        BY <1>5 DEF U!SendFails, PanelInv, AnswersRefuse
    <2>2. failed' \in BOOLEAN /\ <<>> \in Seq(Files \ Unfit)
        BY <2>1
    <2>3. U!PanelTyped'
        BY <2>1, <2>2 DEF PanelInv, U!PanelTyped
    <2> QED BY <2>1, <2>3 DEF PanelInv, U!QueueIsBounded, AnswersRefuse, QueueBeginsWithSent
<1>6. CASE U!Reset
    <2>1. /\ files' = <<>> /\ sent' = <<>> /\ refused' = {} /\ rejected' = {}
          /\ batch' = "none" /\ failed' = FALSE /\ shortened' = FALSE
        BY <1>6 DEF U!Reset
    <2>2. failed' \in BOOLEAN /\ shortened' \in BOOLEAN
        BY <2>1, Zenon
    <2>3. <<>> \in Seq(Files \ Unfit) /\ Len(files') = 0
        BY <2>1
    <2>4. U!PanelTyped'
        BY <2>1, <2>2, <2>3 DEF U!PanelTyped
    <2>5. U!QueueIsBounded'
        BY <2>3, PanelAssumed DEF U!QueueIsBounded, U!PanelAssumption
    <2> QED BY <2>1, <2>4, <2>5 DEF PanelInv, QueueBeginsWithSent, AnswersRefuse
<1>7. CASE UNCHANGED U!panelVars
    BY <1>7 DEF U!panelVars, PanelInv, U!PanelTyped, U!QueueIsBounded, QueueBeginsWithSent,
              AnswersRefuse
<1> QED BY <1>1, <1>2, <1>3, <1>4, <1>5, <1>6, <1>7 DEF U!PanelNext

LEMMA PanelStaysFaithful ==
    ASSUME PanelInv
    PROVE  U!PanelIsFaithful
<1>1. U!RefusalsAreNamed
    BY DEF U!RefusalsAreNamed, U!Label, PanelInv, QueueBeginsWithSent, U!PanelTyped
<1> QED BY <1>1 DEF U!PanelIsFaithful, PanelInv

-----------------------------------------------------------------------------
(* However the answers of a review screen and the changes of others cross, what
   it shows at rest is what the server holds or what it told of
   (CaseReviewView.vue); however often the form of a case is sent again, it
   makes one case for each code, and it closes on the ceiling it shows
   (CaseFormView.vue); however files are picked while others are sent, no more
   are sent than the server takes, and a refusal stands under the name of its
   file (FileIntakePanel.vue). *)
THEOREM ScreensStayFaithful == OfficeSpec => []ScreensAreFaithful
<1>1. OfficeInit => ReviewInv /\ ChipInv /\ FormsInv /\ PanelInv
    BY ReviewBegins, ChipBegins, FormsBegin, PanelBegins DEF OfficeInit
<1>2. ReviewInv /\ ChipInv /\ FormsInv /\ PanelInv /\ [OfficeNext]_officeVars =>
          (ReviewInv /\ ChipInv /\ FormsInv /\ PanelInv)'
    <2>1. [OfficeNext]_officeVars => [V!ReviewNext]_(V!reviewVars)
        BY DEF OfficeNext, officeVars, deskVars, screenVars, reviewVars, V!reviewVars
    <2>2. [OfficeNext]_officeVars => [F!FormsNext]_(F!formVars)
        BY DEF OfficeNext, officeVars, deskVars, screenVars, formVars, F!formVars
    <2>3. [OfficeNext]_officeVars => [U!PanelNext]_(U!panelVars)
        BY DEF OfficeNext, officeVars, deskVars, screenVars, panelVars, U!panelVars
    <2> QED BY <2>1, <2>2, <2>3, ReviewStep, ChipStep, FormsStep, PanelStep
<1>3. ReviewInv /\ ChipInv /\ FormsInv /\ PanelInv => ScreensAreFaithful
    BY ReviewHolds, FormsStayFaithful, PanelStaysFaithful DEF ScreensAreFaithful
<1> QED BY <1>1, <1>2, <1>3, PTL DEF OfficeSpec
=============================================================================
