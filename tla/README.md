# LEX-OS: specifications, model checking and proofs

LEX-OS prepares the documents of legal cases: files are uploaded to a case, a
pipeline of persistent jobs reads them, people review what was read, a search
and an assistant answer questions about it, and all of it is paid from a budget
per case. This directory holds TLA+ modules for the parts of the system where
steps of several actors interleave, the TLC configurations that check them on
small instances, and theorems that TLAPS checks for every value of the
constants.

Every definition is a translation of the TypeScript source. `PROJECT.json` maps
each one to its file and lines. A state variable is a database table (or the
columns of it that matter), the queue's state, or what a running request, worker
or screen holds in memory. An action is what happens between two points at which
another actor can come in between.

## 1. Inventory

| Component | State it keeps | Operations | Modules |
|---|---|---|---|
| Processing jobs (worker): `processing.repository.ts`, `pipeline-processor.service.ts`, `processing-cost-policy.service.ts`, `job-state-machine.ts` | `processing_jobs` (status, version, reserved and actual cost), cost columns of `cases`, `documents.processing_status` | claim, resume, refuse at the ceiling, complete and queue the next stage, retry, fail, cancel | `ProcessingJobs`, `ProcessingCancellation` |
| Stages and what they write | extractions, timeline, chunks, type of the document | read the latest text, replace earlier results | `StageResults` |
| Processing delivery: `processing-queue.publisher.ts`, `processing-workers.service.ts`, `processing-reconciler.service.ts` | one BullMQ entry per job: attempts, stalls, lock | publish after commit, deliver, acknowledge, reject, detect stalls, republish stale rows | `ProcessingDelivery`, `DeliveryQueue` |
| Reprocessing (API) | root jobs of a new run | count the active jobs, create a chain | `ProcessingJobs`, `StageResults` |
| Cases (API): `cases.service.ts`, `cases.repository.ts` | the record of a case, its level, its dates; ceiling, spent, reserved, legal hold | create, read, change, classify, remove; set the ceiling, charge an answer, place and release a hold | `CaseRecords`, `ProcessingJobs`, `AssistantBudget`, `LegalHold` |
| Search and assistant | a question under way, the record of disclosures and answers | two queries, fusion, model, verification, charge | `Answers`, `AssistantBudget` |
| Text chunks (`packages/shared/src/knowledge.ts`) | none: a pure algorithm | normalize, cut | `KnowledgeChunks` |
| E-mail outbox | `email_outbox` rows | list, claim, send, mark sent, mark failed | `EmailOutbox` |
| Preparation digest | the last digest row of a person is its watermark | read marks, read completions, group, enqueue | `PreparationDigest` |
| Case export | `CASE_EXPORT` rows, the PDF object | request, publish, claim, store, complete, fail | `CaseExport` |
| File intake, storage reconciliation | documents, file objects, quarantine | stream, inspect, store, commit, clean up, report | `FileIntake` |
| Sessions, password reset | refresh sessions in families, one-use links | login, rotate, replay, logout, block, reset | `Sessions` |
| Second factor | secret, last step, recovery codes | enrol, activate, disable, accept a code | `SecondFactor` |
| Login attempts | counters and windows in Redis | admit, count, clear | `LoginAttempts` |
| Users, invitations, roles | people, invitations, roles | invite, accept, revoke, block, grant | `People` |
| Checklists, tasks | items, lists, tasks with a version, the audit trail | review, analyse, count, edit | `Checklists`, `Tasks` |
| Lists of the API (`http/pagination.ts` and thirteen repositories) | none: a cursor the reader keeps | read a page after a cursor | `Paging` |
| Web: session, lists, preparation | access token, shared renewal, rows and cursor of a screen, polls | renew, send again, load more, refresh, poll | `ClientSession`, `ListScreens`, `PreparationWatch` |
| Web: screens that write | the fields of a form, the entities and items on a screen, the queue of files to send | save a case in two requests, confirm, reload, pick and send files | `CaseForms`, `ReviewScreens`, `UploadPanel` |
| Dashboard, organizations, HTTP, configuration, storage adapters, vocabularies, check digits, other screens, prompts, seeds, infrastructure | none that outlives a request, or data | plumbing, presentation | - |

How they interact. The API and the worker are two processes over one
PostgreSQL database, one Redis (BullMQ and the counters of failed logins) and
one object store; the browser holds a third copy of much of it. No transaction
spans two of them: a row is committed and then published, an object is written
and then recorded. Transactions run at READ COMMITTED, so a read without
`FOR UPDATE` may be stale when it is used, and what protects a row is the
predicate of the final `UPDATE` (status, version, `updatedAt`, null columns), a
row lock, a unique index or a CHECK constraint.

What is hard in it, and where `PROJECT.json` lists it as a hazard: stale reads
before a claim; two deliveries of one job; reservation and settlement spread
over two tables; a ceiling that people move while jobs run; publications that
are lost; workers that die or lose a lock and live on; a timer that starts a
round before the last one ended; a watermark that is the time of a write and not
of the read it covers; a rotation that overtakes the revocation of its family;
administrators who act on each other; objects and rows that are written in two
places; results of the pipeline written over what a person decided; counts of
what others have not yet committed; pages of a list that moves; answers that
arrive out of order at a screen.

Properties that make each component correct:

* jobs - at most one execution can settle a job; a row moves only as the state
  machine allows; a stage is queued only by the completion of the one before;
  a document that claims to be in work has work behind it, and one handed to a
  person has none left, unless two reprocess requests raced;
* cases - a confidential case is shown to who may read it, and on record; nobody
  else takes its level away; its dates stay in order;
* budget - the columns of the case are the sums over its jobs; the ceiling
  holds; no settled or cancelled job keeps a reservation; no cost is lost;
* delivery - every job whose document and case stay is settled in the end, a
  settled job is never reopened;
* readings - a run works on the text it read itself, search finds the last text,
  what counts as classified was classified by a person, and stages leave the
  facts people confirmed;
* answers - what is shown was current when the request began, was disclosed only
  to who may see it, and on record; an answer is whole, cited and charged;
* outbox - a delivery recorded is never undone, each row is settled, nobody
  gets the same message twice;
* digest - nobody is told twice, nor twice a day, and nothing is lost;
* export - one generation per export, a completed export has its object;
* files - a file keeps its object, but for a commit whose answer was lost; one
  content has one original; the report is right about the files there were when
  it began; a hold stops every removal after it;
* access - one live session per login, none after a logout, replay, block or
  reset; one time step lets one login in; failed attempts are limited and
  forgotten; an office keeps an administrator, roles are those granted last;
* reviews - status, document and reviewer of an item agree, a completed list is
  reviewed, the trail of a task is a chain of what it was;
* lists and screens - pages repeat nothing and skip nothing that stays untouched,
  a screen at rest shows one query or what was decided, a form sent again opens
  one case, a refusal stands under the name of its file, the calls of a tab renew
  its session once, polls go on while work is left.

## 2. Modules

```
Amounts ── ProcessingJobs ─── ProcessingCancellation ─── AssistantBudget
            │   │   MCProcessingJobs                      MCAssistantBudget, Office
            │   ├─ implements ─ JobLifecycle   (job-state-machine.ts)
            │   └─ implements ─ CaseLedger     (the promises of ADR-011)
            └── ProcessingJobsProofs (with AssistantBudget)

DeliveryQueue ─┬── ProcessingDelivery    MCProcessingDelivery, ProcessingDeliveryProofs
               └── CaseExport            Office
EmailOutbox           MCEmailOutbox, EmailOutboxProofs

Accounts  ── Sessions, People, SecondFactor, LoginAttempts, Answers
             MCAccounts, AccountsProofs
Documents ── KnowledgeChunks, FileIntake, LegalHold, StageResults, Paging,
             ListScreens, ClientSession, PreparationWatch
             MCDocuments, DocumentsProofs
Office    ── AssistantBudget, CaseRecords, Checklists, Tasks, PreparationDigest,
             CaseExport, CaseForms, ReviewScreens, UploadPanel
             MCOffice, OfficeProofs
```

`Accounts`, `Documents` and `Office` each compose several modules that share no
state. Interleaving them would multiply states and show nothing, so a
variable `part` is chosen in the initial state: the steps are those of one
module and the variables of the others stay as they began. Their constants are
as general as those of their components, whose assumptions they make by name;
the properties the runs check and the theorems state are defined there, so
that both are about one formula. `MCAccounts`, `MCDocuments` and `MCOffice` add
the model values and symmetries of the small instances, nothing else. Modules
that do share state are composed with it: `AssistantBudget` with
`ProcessingJobs`, the queue with its users. One table is split: `People` and
`Sessions` both have a part of `users`. The status and the password of a person
are in each, with every statement that changes them there: `Sessions` has the
reset links and what they end, `People` has the write of a reset (`SetPassword`)
beside invitations, blocking and reactivation. What one of them does to the rest
of the row the other reads nowhere.

### ProcessingJobs

The core. `jobs`, `cases` and `docs` are three tables; `phase`, `target` and
`held` are what each worker execution holds in memory: where it is, the job,
and the row it read (before its claim) or wrote (after it). `approved` counts
reprocess requests between their count of active jobs and their insertion.
`raced` is history: the documents of which one request counted while another had
counted and not inserted (`Unseen`). Nothing but `SettledDocument` reads it.

A job is named by its document, run and stage instead of by a UUID: the id of a
child job is a hash of its parent's id and its stage, so the name and the id are
interchangeable, and the primary key on the child is the guard
`jobs[Child(j)].status = Missing` of `Complete`.

| Action | Code |
|---|---|
| `ReadForClaim` | the unlocked `findFirst` of `claim` and its early returns |
| `GrantClaim`, `BlockClaim` | from `SELECT ... FOR UPDATE` of the case to the commit: reserve and claim, or cancel, mark the case, hand the document to a person |
| `ResumeClaim` | `claim` of a row found PROCESSING: a new version, no look at the budget |
| `LoseClaim` | the conditional update matches no row, or the case is gone: rollback |
| `Complete`, `Fail` | `complete`, `fail`: settlement of the case, the row, the next stage or the document |
| `Retry` | `retry`: keeps the reservation |
| `LoseRun`, `Crash` | every transition of this execution would throw; the process dies |
| `Intake` | the transaction of `FilesRepository` that creates document and root job |
| `ApproveReprocess`, `CreateReprocess` | `reprocess`, split at the count of active jobs |
| `UpdateBudget`, `DeleteCase`, `DeleteDocument` | the API's transactions |

Why these are the steps. `claim`, `complete` and `fail` read the job first and
lock the case later. Between the two another transaction may commit, so the
read is a step. From the lock to the commit nobody else can change the case,
and the job row is written only by an `UPDATE` whose predicate is evaluated on
its latest committed version, so the remainder is one step guarded by
`Current`. `complete`'s own read adds nothing to the row its claim wrote (it
throws if they differ), so it is not a separate step. Two orderings inside
the database are abstracted: deadlocks (`complete` writes the document before it
locks the case and the ceiling's refusal does the reverse; PostgreSQL aborts one
of the two, which is a `LoseClaim` or a failed delivery) and waiting for a lock
(time only).

`ProcessingCancellation` adds `ProcessingRepository.cancel`. It is a module of
its own because nothing calls it yet. `AssistantBudget` composes jobs and
cancellations with the questions of the assistant, with the four points where
`answer` can be overtaken: the slack check, the answer, the unlocked read of the
charge, the write. Two of the promises of `ProcessingJobs` do not survive the
composition: a cancellation that loses its race commits the release of a
reservation the job keeps (so `ReservationsBalance` is stated of
`ProcessingJobs` alone), and the charge of an answer may overwrite a settlement
(`SettledCostIsKept`, below).

`JobLifecycle` and `CaseLedger` are abstract specifications. `JobLifecycle` is
the table of `job-state-machine.ts` as a specification of rows that move, each
time at a new version. `CaseLedger` is the budget as ADR-011 promises it: holds
per job, atomic entries, a reserved amount that is derived and not stored.
`ProcessingJobs` implements both (`ImplementsLifecycle`, `ImplementsLedger`),
with the workers, their stale reads and the two stored columns in between.

### StageResults, KnowledgeChunks, Answers

`StageResults` follows one document through its runs: the text each run reads,
which text its later stages use (the latest there is when they are claimed), the
type, the facts people confirm, the index. Jobs, money and queue are not in it.

`KnowledgeChunks` is `chunkKnowledgeText` with one step per turn of either loop,
from any text in the constants. A text is a sequence of *kinds* of UTF-16 units,
since the code asks nothing else of them.

`Answers` follows one search or one question of the assistant while documents
are read again, indexed and deleted and the case is closed to people or removed:
the query of the words and the query of the vectors each see the archive of
their own moment, the reciprocal ranks are added, results are recorded, the
model is asked, what it says is refused unless it cites what was found, and the
answer is recorded, charged and sent. The model says anything, `Invented`
sources and truncated replies included; `AssistantBudget` has the money of it.

### DeliveryQueue, ProcessingDelivery, CaseExport

`DeliveryQueue` is BullMQ as this code uses it (it is external): one entry per
job id, a bounded number of attempts, a lock held by the consumer that runs the
entry, one stall forgiven and the second one fatal, removal of finished
entries. The backoff delay is only time, so a rejected entry waits at once.

`ProcessingDelivery` composes it with the status and version of the rows and
with the two timers. `Create` may or may not publish: the publication follows
the commit. `ReadForClaim`, `Claim`, `BlockClaim`, `Complete`, `HandleError`
and `Finish` are the steps of one delivery; `Outage` is a database that does
not answer; `Crash` kills the worker; `LoseLock` takes the lock from a worker
that lives. `Reconcile` is one round of the reconciler over the oldest stale
rows: `add` of an id that has an entry is ignored, so a round in several steps
does nothing a sequence of such rounds does not do. `BlockClaim` may fire at
any claim that is not a resumption: what the budget decides is
`ProcessingJobs`' part. `targets` is what is left of the document and the case of
each job: `softDelete` of either looks at no open job (`DeleteDocument`,
`DeleteCase`), and afterwards the read of a claim throws, as do a claim past it,
`complete` and `fail` when they cannot lock the case (`CaseLocks`). `retry` locks
no case and still writes. `claim`, `complete` and `fail` throw for a quote in
another currency as well; every quote, answer and case is in BRL, so no state
gets there.

`CaseExport` uses the same queue with other rules: only QUEUED and RETRYING are
claimed, completion compares the status only, nothing republishes.

### EmailOutbox, PreparationDigest

A round of `dispatchOnce` is a sequence of rows as they were when it listed
them. For each: `Claim` counts the attempt, `Send` has three outcomes (refused,
accepted, accepted but the reply is lost), `MarkSent` or `RecordFailure` writes
the outcome. `MarkAttemptFailed` computes the status from the attempts of the
*listed* row. `Refuses` is the CHECK `email_outbox_sent_consistent`: a failure
does not clear `sentAt`, so a late failure of a row that is already SENT is
rejected by the database, the exception leaves `dispatchOnce`, and the round
ends. `MissSent` and `Crash` lose an acceptance before it is recorded;
`unrecorded` remembers which, for the properties only. The timer of the
dispatcher does not wait for the round before, so rounds overlap in one worker
as in two.

In `PreparationDigest`, `Begin` reads every person's watermark, `Group` reads
the completions and groups them, `Enqueue` inserts one row, `Skip` covers people
who silenced the summary and failed insertions. `left` in a digest remembers
what the limit of the read cut off; it is used by the properties only. The model
counts completed jobs where the message counts documents: which number is
printed is not a property here.

### Sessions, SecondFactor, LoginAttempts, People

`Sessions` has the refresh sessions, persons and reset links as tables and each
request at the statement it has reached. Under READ COMMITTED an `UPDATE` sees
what was committed when it began and waits for rows that are locked, so a
revocation is two steps, the rows its statement sees and its commit, and a
rotation is two, between which it holds the lock of its row. A family is what
rotation derives from one login. `late`, `overtaken` and `replayed` remember
which races happened, so that the properties can say exactly what the code does
not promise: the successor that a rotation commits while a revocation waits for
it, and the login that had checked the old password.

`SecondFactor` is one person's enrolment and challenges by overlapping requests.
Digits are abstracted to the time step they are of, which is not the step that is
recorded: `Window` is what `verifyTotp` accepts, the present step and
`DRIFT_STEPS` to either side, and `consumeStep` records the present one. The clock
is read twice in a row, for the check and for the record; the model reads it once.
`LoginAttempts` is the three counters, the attempts under way, and the one Redis
client of the process with its outages. `People` is invitations, blocking and
roles by administrators whose own right was read when they asked, and the
passwords that come by an acceptance (`chosen`) or by a reset (`reset`).

### FileIntake, LegalHold, Checklists, Tasks

`FileIntake` puts objects in storage, inspects them, and commits rows one by one
in transactions that find duplicates; a failure cleans up; the commit whose
answer is lost is a step of its own. The reconciliation report reads rows,
references and objects at three moments. `LegalHold` has the count that precedes
each removal and the participations that are created meanwhile. `Checklists`
splits the review of an item at the row lock it takes and at the count of the
items that are still open. `Tasks` reads a row and updates it under its
`updatedAt`, with the entry of the audit trail.

### CaseRecords

The record of a case: who may see it at which level, the reading put on record
before it is shown, the two dates, and the codes and numbers that are unique.
A request reads a case, decides, and writes in a statement of its own; what it
read may have changed. `effect` is what the last step showed or did, `crossed`
the cases whose dates two requests changed at once.

### CaseForms, ReviewScreens, UploadPanel

Three screens that write. `CaseForms` saves a case in two requests, the case and
its ceiling; the answer of either may be lost, the form stays open and is sent
again, and other forms may save in between. Its fields and its link back stay in
use while either answer is due (`Editable`, `Leave`), and a case that could not be
loaded is edited from the fields of a new one (`OpenUnloaded`). `ReviewScreens`
has the page of a document and the page of a checklist: requests about single
things, a reload of everything, and answers that land in any order; `chip` is the
status of the list, which the page reads with the list and with nothing else.
`UploadPanel` is the queue of files people pick, the batch that is sent, and the
refusals that name files by their place in the batch.

### Paging, ListScreens, ClientSession, PreparationWatch

`Paging` has the thirteen lists of the API, each with its order and its cursor
as its repository writes them, and one reader that continues after the last row
while rows come, go and are touched. `ListScreens` is what the screens do with
such pages: which controls are disabled while an answer is due, what an answer
does to the rows when it lands, and the participant a dialog puts in front of
them (`CreateParticipant`, `OnParticipantCreated`; `added` remembers whether it
was already, or will be, on a page in view). `ClientSession` is the access token of
each tab, the cookie they share, the renewal the requests of one tab share, and
what a lost answer leaves. `PreparationWatch` is `PreparationStatus.vue` with the
page of the case: polls of three answers, a timer, the return to the tab, the
reload of the list.

## 3. Runs

Each run asks one question of one part of the system. The numbers are distinct
states.

| Run | Checks | What it shows |
|---|---|---|
| `jobs_budget` (210 thousand) | `TypeOK`, `SoleOwner`, `ReservationsBalance`, `SpendingIsSettled`, `WithinLimit`, `NoStrandedReservation`, `ImplementsLifecycle`, `ImplementsLedger` | two documents of one case, two executions that claim, resume, retry and settle, a ceiling that moves: one execution settles a job, rows obey the state machine, the books balance and every transaction is one entry of the ledger |
| `jobs_chain` (2.9 million) | `WorkBehindStatus`, `SettledDocument`, `StageOrder` | two stages, two executions, two runs, two reprocess requests that may race, a ceiling that may stop the chain: document and jobs agree on whether work is left, and stages follow each other |
| `delivery_settles` (794 thousand) | `OneRunOwns`, `SettledIsFinal`, `EveryJobSettles` | two jobs, one of which may lose its document or its case, a reconciler that takes one at a time, publications lost, and a crash, a lost lock or an outage |
| `email_rounds` (733 thousand) | `OutcomeIsEarned`, `SentIsFinal`, `EveryEmailSettles` | two overlapping rounds, rows that run out of attempts, one interruption |
| `accounts` (906 thousand) | `OneLiveSession`, `FamiliesEnd`, `NoOldAccess`, `AdministratorRemains`, `AccessIsGranted`, `SecondFactorHolds`, `AttemptsHold`, `AnswersAreGrounded` | who comes in and what they may read: overlapping logins, refreshes, logouts, blocks and resets; administrators acting on each other; people blocked before they accepted; codes presented at once and at the next step; failed attempts through an outage; searches and answers while the archive changes |
| `documents` (878 thousand) | `FilesAreKept`, `OnlyOvertakenRemovals`, `ReadingsHoldTogether`, `OnlyPeopleReview`, `ListsAreWhole`, `ClientHoldsSession`, `ChunksHold`, `PollingIsFaithful` | a document from its upload to the screen |
| `office` (1.5 million) | `ChecklistHolds`, `EditsAreChained`, `TellsOnce`, `OneGeneration`, `BudgetHolds`, `CasesAreGuarded`, `ScreensAreFaithful` | concurrent reviews, edits, sweeps, exports, everything that writes one budget, the records of cases and the screens this is done on |

Some of these names gather what belongs together: `FamiliesEnd` is
`EndedStaysEnded` and `ReplayEndsSuccessor`; `NoOldAccess` is
`BlockedHasNoSession` and `ResetEndsOldSessions`; `AccessIsGranted` is
`RolesAreOneGrant` and `PasswordComesByInvitation`; `SecondFactorHolds` is one
entry per step, with a code of its window, recovery codes of the enrolment in
force, and a secret that was proven; `FilesAreKept` is `FileHasObject`,
`OneOriginal` and `ReportIsTrue`; `ReadingsHoldTogether` is `Findable` and
`OneTextPerRun`; `OnlyPeopleReview` is `ClassifiedByPerson` after every step and
facts that stay confirmed by who was first; `ListsAreWhole` is `PagesAreWhole` of
the API and `ListIsWhole` of the screens; `ScreensAreFaithful` is
`FormsAreFaithful` and what the review screens and the upload panel promise;
`AnswersAreGrounded` is `NothingStaleIsSent`, `DisclosuresAreRecorded` and
`AnswersAreAccounted`; `TellsOnce` is `ToldOnce` and `OnceADay`; `OneGeneration`
is `SoleGenerator` and `CompletedIsStored`; `BudgetHolds` is `CancelledReleases`
and `WithinLimit` of the composed budget; `CasesAreGuarded` is `ShownAsAllowed`,
`ClassificationStays`, `DatesInOrder` and `ConflictsAreNamed`. The type invariant
of a part is conjoined to its property.

The remaining runs end in a counterexample. Each contradicts a sentence of the
repository, quoted in `PROJECT.json` under `findings`:

* `assistant_lost_update` - the charge of an answer is computed from an
  unlocked read; a settlement in between is overwritten.
* `email_twice` - the claim of an e-mail leaves it claimable, so two rounds
  send it.
* `digest_leftover` - what `MAX_COMPLETIONS` cuts off is older than the
  watermark of the summary it misses, and is never told.
* `delivery_stuck` - the lock of an entry runs out twice, for which nobody needs
  to die; the queue gives the entry up, the row stays PROCESSING, and the
  reconciler does not look at such rows.
* `login_comeback` - with `reconnectStrategy: false` the client of the login
  counters stays closed after Redis was lost once, and the promise of its first
  connection hands it out for ever.

### What the code does not promise

A property that excuses a race says so in its formula. These are the excuses,
and the gaps found while reading for the models; none has a run of its own.

* Two reprocess requests can both count no active job and start two chains,
  though `docs/api/processing.md:48` promises 409 for the second. The chain that
  ends first then hands over a document the other still works on. Both models have
  the race; `SettledDocument` and `OneTextPerRun` except the documents that
  `raced`.
* The slack for an answer is looked at and not reserved, so two answers given at
  once can cost more than the ceiling; two requests can each find no export
  under way; a cancellation that loses its race commits its release.
* Not every job is settled: a lock that runs out under a run that lives, or an
  outage while an outcome is recorded, can use up the attempts of the queue while
  the row is RETRYING. The row waits until its failed entry is removed from Redis
  (up to seven days). `EveryJobSettles` is therefore conditional on `~Disturbed`.
* The deletion of a document or of a case leaves its open jobs open
  (`cases.repository.ts:305`). Each of their claims throws
  (`processing.repository.ts:333` of the worker), their rows stay QUEUED or
  RETRYING for good and keep what they had reserved, and since the reconciler
  takes the oldest rows first and does not filter these, a batch of them hides
  every younger row. `EveryJobSettles` says nothing of such a job (`targets`), nor
  of any job while such a batch stands in front (`Crowded`).
* A rotation that commits while a revocation of its family waits for it leaves
  its successor alive (`overtaken`); a login that had checked the old password
  gets its session after the reset (`late`); overlapping requests for a reset
  leave two links that can be used.
* Two administrators who block each other, or take each other's role, at the same
  moment leave an office without one (`crossed`); two replacements of the roles
  of one person leave the union of both (`mixed`).
* A person who was invited, blocked and reactivated (`users.service.ts:177`) is
  active without a password and may set one by a reset link, without accepting
  anything. `users.service.ts:175` says that who is INVITED must accept to have a
  password, and `password-reset.repository.ts:11` that a reset is no way around;
  `PasswordComesByInvitation` excuses who was `reactivated`.
* A code of the second factor is good at three time steps (`DRIFT_STEPS`), and
  what is recorded is the step of the login and not of the code
  (`second-factor.service.ts:289`), so one code may let in once at each of them,
  against `second-factor.repository.ts:58` and `totp.ts:119`. `OneEntryPerStep` is
  about steps and not about codes.
* A commit whose answer is lost is cleaned up as if it had failed
  (`files.service.ts:161`): the row stays and its object is removed (`lost`). The
  report of the reconciliation may accuse a file that came after it began;
  `ReportIsTrue` is of the files there were.
* A classification under way overwrites the type a person set and leaves the
  person's name beside it (`processing.repository.ts:593` of the worker). The
  document asks for a review again, and that is what `ClassifiedByPerson` promises.
* A hold is counted before the removal: one placed in between does not stop it
  (`taken`), although ADR-012 says that a hold stops removals.
* The count of open items misses what another review has not committed, so a
  checklist may be COMPLETED with an item open (`stale`); a review written over a
  later change of the item may leave a status without its document (`mixed`).
* A document whose new text is not indexed yet is missing from search. A case
  that becomes confidential between the two queries of a search may be shown
  without a record. An answer about a case deleted meanwhile is sent and not
  charged.
* The three answers of a poll are read at different moments, so a document that
  moves between them can be overlooked and polling stops with work left
  (`PreparationStatus.vue:12`).
* A request that read a case before it was classified still shows it, or takes
  its level away (`excused` of `CaseRecords`); two simultaneous changes of one
  date each may leave a case closed before it was opened (`crossed`).
* The form of a new case shows a ceiling of 0,00 (`CaseFormView.vue:50`) while a
  case is born with 250,000000 (`cases.service.ts:54`): a form left alone by
  somebody who may change cases sets the new ceiling to nothing and the assistant
  refuses the case, against `cases.service.ts:43` and
  `docs/product/ordem-de-execucao.md:262`. The form of an old case puts an older
  ceiling back.
* A file taken out of the upload queue while it is being sent shifts the names of
  the refusals; files picked while an answer is due are dropped by "Enviar mais
  arquivos". The reload of a document that crosses other answers may show an
  older state, and `confirmingEntityId` is one variable for all of them.
* A ceiling typed while the second request of a form is due is dropped
  (`CaseFormView.vue:193`): the form closes on a ceiling the case does not have
  (`late` of `CaseForms`). After a failed load the form of a case shows the fields
  of a new one, ceiling 0,00 included (`CaseFormView.vue:155`, `230`).
* The page of a checklist never reads the status of the list from an answer about
  an item (`CaseChecklistView.vue:204`), so the chip it shows (`322`) may be wrong
  from its own first review on until it is loaded again (`old`).
* Lists that let two requests cross show the answer that came last: the button of
  the search of cases (`CasesView.vue:65`), the periods of the agenda, a refresh of
  the documents, the reload after a conflict (`crossed` of `ListScreens`). On the
  audit a further page is read with the fields as they are by then (`Mixed`). A
  participant created while part of the list is not in view is shown again by a
  later page (`CaseDetailView.vue:181`, `added.late`). In the lists ordered by
  `updatedAt` a row that was still ahead and is touched between two pages moves
  behind the reader and is missed; `PagesAreWhole` is of rows that stay in place.
* Two tabs that renew at once, or a tab that restores beside one that renews,
  present one token twice, and the server ends the session of both; so does an
  exchange whose answer was lost (`excused` of `ClientSession`).
* In screens that are not modelled: a poll of an export that goes on after its
  page was left; `ParticipantForm`, whose retry creates a second person.

### Bounds

`MaxVersion` bounds the updates of one row: 4 lets it be claimed, then retried or
resumed, then claimed again, then settled. `MaxRuns` and `MaxRequests` bound
reprocessings and simultaneous requests. In `jobs_budget` a stage costs one or
nothing and the ceilings are one, at which one of two jobs fits, and two, at which
both do; before a ceiling is set nothing fits that costs anything. Two executions
suffice for `SoleOwner` and what depends on it, since each is about a pair; the
theorems below hold for any number. `jobs_chain` uses FILE_VALIDATION and OCR of
the eight stages, the one an intake begins with and the one at which reprocessings
begin; VIRUS_SCAN, which an intake may queue instead, is free. Two reprocess runs
and two requests are the least at which two requests race, and one chain can hand
over while the other goes on. The budget of `office` has one job that costs one, a
ceiling of two, and two answers of one each.

`MaxEmails` and `MaxAttempts` let a row run out of attempts while another round
holds it; `MaxCrashes` and `MaxFaults` count faults: with one crash a delivery
stalls once, with two it stalls for good. `ReconcileBatch = 1` with two jobs
makes the reconciler choose, and `Deletable = {j1}` puts a row nothing settles in
front of one that must be. `Horizon`, `Lookback`, `DigestInterval` and
`MaxDone` give a person two summaries and a completion that leaves the window;
`MaxRestarts` cuts a sweep short at each of its steps. An export of three
attempts, two workers, one crash and two locks that run out let an entry be taken
up beside its former owner and fail for good; what an export promises is about
one row, so one is enough.

`accounts`: one person, one family, three tokens (a login, its successor and
the successor of that), one reset link, two requests, one reactivation, one
expiry; a race is between two requests, and a third would have to meet both
within their locks. People: two of them, since an office is lost by two who
cross, and one role; one founder and one person to invite, block, reactivate and
reset. Second factor: two requests (of one code, or a login and a change of the
enrolment), two secrets, three time steps, the number at which one code is good,
and one recovery code. Failed
attempts: limits of two and one, two requests, one outage. Answers: two
documents, two texts each, two changes of the archive during the question, two
results, and one claim of one citation plus one too many of each.

`documents`: two files of the same bytes, two uploads and one lost answer; two
cases, a document and a person under holds; two runs of one document and two
people; three rows in pages of one at two times or without one, so that every
page ends in a tie once; two queries, two answers due and three pages; two tabs
with two requests; one document with two polls and two loads. Texts have up to
four units of every kind and up to nine of letters and blanks, with chunks of
four that overlap by two: the smallest sizes at which a chunk can end inside a
word, at a blank and between the halves of a pair, and a text has three chunks.

`office`: one checklist with an item that goes back and forth and one that is
settled, two requests; one task with two updates. Two cases with two codes and one
number, four inputs, two people of whom one reads confidential cases, two
requests. Two forms with two saves, after which no form is
opened, and ceilings of nothing, one and two; one
document with its fields and two entities, or one item, two answers due and one
change by somebody else; three files of which one is unfit, two of them picked at
a time.

Symmetry is used for ids nothing compares, and never in a run with a liveness
property. `CHECK_DEADLOCK FALSE` is set where the model may stop: when every row
has used its versions, a clock has reached its horizon, or every list has been
read. The e-mail and delivery models are checked for deadlock: a timer can
always fire, so they stop only if something is wrong.

### Mutants

For each property of a passing run `PROJECT.json` names a definition of the model
and a variant of it, kept beside it in the module and marked as such: the
definition as a plausible slip in the code would have it (a version not
compared, a reservation forgotten, an attempt too few, a flag not cleared). With
the variant in its place the run must fail on that property. It is how one sees
that a property constrains the code and not only the model.

### Fairness

* `EmailOutbox!FairSpec`: `WF(Step(r))`. The timer begins rounds
  (`setInterval`), and a round that has begun goes on because every reply of
  the mail server has a timeout. Nothing is assumed of crashes or producers.
* `ProcessingDelivery!FairSpec`: `WF(Work(w))` for each consumer (BullMQ hands
  out waiting entries, stages end or throw), `WF(DetectStalled(j))` (its
  stalled check is periodic) and `WF(Reconcile)` (timer). Nothing is assumed of
  `Expire`: removal of old entries may never come, and `EveryJobSettles` does
  not need it.

The other modules need none: what they promise is safety. `PollingIsFaithful`
speaks of a page at rest instead of "eventually", since nothing but a person
makes a hidden tab visible again.

## 4. Theorems

All constants are arbitrary: any cases, documents, stages, quotes, people,
tokens, rounds, consumers, rows, texts and bounds that satisfy the assumption of
their module.

| Theorem | Module | States |
|---|---|---|
| `TypeCorrect` | `ProcessingJobsProofs` | `Spec => []TypeOK` |
| `OwnerIsUnique` | `ProcessingJobsProofs` | `Spec => []SoleOwner` |
| `ReservationsAlwaysBalance` | `ProcessingJobsProofs` | `Spec => []ReservationsBalance` |
| `SpendingIsAlwaysSettled` | `ProcessingJobsProofs` | `Spec => []SpendingIsSettled` |
| `CeilingHolds` | `ProcessingJobsProofs` | `Spec => []WithinLimit` |
| `NoReservationIsStranded` | `ProcessingJobsProofs` | `Spec => []NoStrandedReservation` |
| `BudgetAlwaysHolds` | `ProcessingJobsProofs` | `AssistantSpec => []BudgetHolds` |
| `LedgerImplemented` | `ProcessingJobsProofs` | `Spec => ImplementsLedger` |
| `LifecycleImplemented` | `ProcessingJobsProofs` | `Spec => ImplementsLifecycle` |
| `WorkIsBehindStatus` | `ProcessingJobsProofs` | `Spec => []WorkBehindStatus` |
| `HandedOverIsSettled` | `ProcessingJobsProofs` | `Spec => []SettledDocument` |
| `StagesFollow` | `ProcessingJobsProofs` | `Spec => []StageOrder`, if `Chained` |
| `OneRunWrites` | `ProcessingDeliveryProofs` | `Spec => []OneRunOwns` |
| `SettledJobsAreFinal` | `ProcessingDeliveryProofs` | `Spec => SettledIsFinal` |
| `OutboxTyped` | `EmailOutboxProofs` | `Spec => []TypeOK` |
| `OutcomesAreEarned` | `EmailOutboxProofs` | `Spec => []OutcomeIsEarned` |
| `EveryCopyIsCounted` | `EmailOutboxProofs` | `Spec => []CopiesAreCounted` |
| `FailuresAreGenuine` | `EmailOutboxProofs` | `Spec => []FailureIsGenuine` |
| `SentRowsAreFinal` | `EmailOutboxProofs` | `Spec => SentIsFinal` |
| `OneSessionCanBeRenewed` | `AccountsProofs` | `Spec => []OneLiveSession` |
| `RevocationEndsFamilies` | `AccountsProofs` | `Spec => []FamiliesEnd` |
| `OldAccessEnds` | `AccountsProofs` | `Spec => []NoOldAccess` |
| `SessionsTakePart` | `AccountsProofs` | `AccountsSpec => Spec`, the three above hold in the composition |
| `AdministratorStays` | `AccountsProofs` | `AccountsSpec => []AdministratorRemains` |
| `AccessComesFromAGrant` | `AccountsProofs` | `AccountsSpec => []AccessIsGranted` |
| `SecondFactorStandsAlone` | `AccountsProofs` | `AccountsSpec => []SecondFactorHolds` |
| `FailuresStayNearTheLimit` | `AccountsProofs` | `AccountsSpec => []AttemptsHold` |
| `OnlyGroundedAnswersAreSent` | `AccountsProofs` | `AccountsSpec => []AnswersAreGrounded` |
| `FilesStayWhole` | `DocumentsProofs` | `DocumentsSpec => []FilesAreKept` |
| `HoldsStopRemovals` | `DocumentsProofs` | `DocumentsSpec => []OnlyOvertakenRemovals` |
| `ReadingsAreOne` | `DocumentsProofs` | `DocumentsSpec => []ReadingsHoldTogether` |
| `ReviewIsOfPeople` | `DocumentsProofs` | `DocumentsSpec => OnlyPeopleReview` |
| `ListsStayWhole` | `DocumentsProofs` | `DocumentsSpec => []ListsAreWhole` |
| `SessionIsHeld` | `DocumentsProofs` | `DocumentsSpec => []ClientHoldsSession` |
| `PollsAreFaithful` | `DocumentsProofs` | `DocumentsSpec => []PollingIsFaithful` |
| `ChunksAreWhole` | `DocumentsProofs` | `Spec => []ChunksHold` |
| `ChunksTakePart` | `DocumentsProofs` | `DocumentsSpec => Spec`, `ChunksAreWhole` holds in the composition |
| `OneWriterOfAnExport` | `OfficeProofs` | `OfficeSpec => []OneGeneration` |
| `CasesStayGuarded` | `OfficeProofs` | `OfficeSpec => []CasesAreGuarded` |
| `TrailIsAChain` | `OfficeProofs` | `OfficeSpec => EditsAreChained` |
| `ChecklistsHold` | `OfficeProofs` | `OfficeSpec => []ChecklistHolds` |
| `DigestsTellOnce` | `OfficeProofs` | `OfficeSpec => []TellsOnce`, if `OneSweeper` |
| `ScreensStayFaithful` | `OfficeProofs` | `OfficeSpec => []ScreensAreFaithful` |

A step of a composition is a step of one part, or leaves that part's variables
alone; so the property of a part is proved from an inductive invariant of that
part, under the prefix of its instance (`P!`, `H!`, `G!` and so on), and the
theorem states it of the composition that the run checks.

**Jobs.** `SoleOwner` is not inductive: it says nothing about the row an
execution has read and not claimed yet. `Fence` is the strengthening. Besides
types it says that a row nobody created is `NoRow`; that what an execution holds
is a *snapshot*, never a version ahead of the table and equal to the table
when the versions are equal; and that of two executions whose claims are at the
same version of the same job there is one. Each effect of the worker (granted,
refused, resumed, completed, failed, retried) has a lemma that says what it does
to the table, and two lemmas (`FenceUnmoved`, `FenceMoved`) say which effects
keep the fence.

**Budget.** `ReservationsBalance` needs more: the amount a settlement gives back
is the one the row holds, which is true because the row held is current, which is
the fence. `Budget` is `Fence`, the two sums (`Books`), `WithinLimit` and
`NoStrandedReservation` together; none of the last three is inductive without
the others, since the refusal of a claim is sound only because a job refused
holds nothing. The sums are over all jobs of a case; the first lemmas of the
module prove how a sum (`Total`, a cardinality of unit sets, so that no recursion
is needed) changes when one term changes. `LedgerImplemented` is a step
simulation from `Budget`: a claim is a `Reserve` of the ledger or nothing, a
refusal closes it, a settlement and a ceiling are entries of their own
(`LedgerReserve`, `LedgerRefuse`, `LedgerSettle`, `LedgerSetLimit`). Only here is
it used that the stored column of the case equals the sum the ledger derives.

**Life cycle and documents.** `LifecycleImplemented` is a step simulation: each
action maps to a transition of `JobLifecycle` or to a stutter; that two rows
change at once (a completion and the child it queues) is the abstract
`CompleteAndQueue`. What the documents need is coarser: lemma `Effects` says that
a step is quiet, lets a job enter, lets one go on, ends one, or hands on from one
to the next (`Quiet`, `Enters`, `GoesOn`, `Ends`, `HandsOn`), each with what it
does to the document. `WorkBehindStatus` is inductive over these. For
`SettledDocument` the invariant is `OneChain`: while the requests of a document
see each other (it has not `raced`) it has one active job at most, and none beside
a request that has counted, of which there is one at most. `StageOrder` needs
`Chained`: no two stages lead to one, and none leads to a first stage, as in the
code's table.

**Delivery.** `IInv` of `ProcessingDeliveryProofs` is the fence without money: a
run remembers a row it may claim, or one it claimed, at no later version than the
row's, and two claims of a job are at two versions. Nothing is assumed of the
queue, whose entries may be delivered, lost and added in any order: lemma `Moves`
says that a step writes one row that is not settled, at its next version, or
none; deletions write none.

**Outbox.** One inductive invariant, `IInv` of `EmailOutboxProofs`, since none of
its properties is inductive alone. Past the claim a round has counted an
attempt since it listed its row (`Counted`), which is why the stale number it
computes FAILED from is never too high; the copies that left and the rounds
about to send are together no more than the attempts (`Copies`); a receipt in
hand was given (`Receipts`); and an acceptance is recorded, about to be, or
known to be lost (`Acceptances`), where the refusal of the database is needed.
A round does one of two things to its list, drop the row in hand or keep it;
`DropKeepsBooks` and `KeepKeepsLists` are proved once for each, and the nine
actions rest on them. `EveryCopyIsCounted` and `FailuresAreGenuine` are lemmas of
that invariant in their own right; no run checks them.

**Sessions.** `SessionsInv` is `TypeOK`, `Tables`, `Remembered` and
`Locks`. `Tables` is three facts about the rows (a family has one session not
yet rotated; a family is of one person and a session's parent is in it; a
replayed token is stale) and the three promises. `Remembered` says that what a
request read is still sound when it commits: the password a login compared is
current or the login comes late, the session it rotates was issued and is still
live, a revocation has marked all it must reach but what overtook it. `Locks`
says that one rotation of a token is under way at a time: it is why the second
request finds the token rotated.

**Chunks.** `ChunksAreWhole` is about the loops of `chunkKnowledgeText` for any
text and any sizes the module assumes. The invariant relates the turn of each
loop to what has been cut: the chunks so far cover the normalized text up to the
place the next one begins, that place lies within the last chunk, and each
normalized unit stands for the source units it came from.

**Answers.** `AnswersInv` is `AnswersTyped`, `Replaced` (the chunks that
were stale when a request began are gone for each of its later queries),
`Retrieved` (the rows of each query were fresh, of a level the case had and the
reader is allowed), `Disclosed` (confidential results are on record before they
are shown), `Accounted` (what was answered was recorded and charged) and
`Grounded` (an answer is whole and each of its claims cites something
retrieved).

**The composed budget.** `BudgetAlwaysHolds` is about jobs, cancellations and
answers on the same columns. The books do not balance there and nothing is said
of them: `BudgetHolds` is `CancelledReleases` and `WithinLimit` and no more. The
invariant keeps from `Budget` only what survives: the row of a job a person
cancelled holds nothing, and no write takes a case past its ceiling, because the
last word on a charge is a CHECK constraint (`Accepts`).

**People, second factor, attempts.** `PeopleInv` adds that whoever has a request
open administered the office when it asked (`ActorsAdminister`), since the right
is read once; nobody acts on themselves, hence an administrator remains unless
two cross. `FactorInv` adds that no entry is at a step after the one recorded
last (`StepsInOrder`), that a request under way has read a step with a code of its
window (`StepsAreReal`), and that an activation under way proved the secret that is
staged, unless another was staged since (`StagedIsKnown`). `AttemptsInv` counts
who is admitted and has not recorded its failure yet: the counter and what it is
owed stay below the limit and the number of requests (`AdmittedBelow`).

**Export, tasks, checklists.** `ExportInv`: the row of a delivery that writes is
PROCESSING (`WritersOwnTheRow`), which no claim accepts and the end of the run
alone leaves; nothing is assumed of the order of the queue's entries.
`TasksInv`: the row a request read is not newer than the task, and is the task
if the versions agree (`EditsAgree`); the last entry of a trail is what the task
is (`TrailEndsHere`). Together they give `EditsAreChained` step by step
(`ChainStep`). `ChecklistInv` says of each review what it knows at the statement
it has reached: whole after its write unless somebody wrote after it read, and
its count right unless it was overtaken.

**Digest.** `DigestInv` says that a sweep knows a watermark not older than the
last row of the person, that what it is about to tell was finished after it
(`BucketHolds`), and that no row tells of what came after it (`RowsAreTimely`).
`OneSweeper` is a hypothesis: `docker-compose.yml:193` starts one worker, and with
two workers that sweep together both tell.

**Cases.** `RecordsInv` adds the two unique indexes (`NamesAreUnique`) and what
a request may conclude from the row it read, by the statement it has reached: the
level it saw is the case's, or the case was classified since and the request is
excused.

**Intake.** `IntakeInv`: a key is in the hands of one request, its object is there
until it has a row (`HandsApart`, `HandsStaged`); two requests that hold a lock
hold it on different contents (`LocksApart`), so a request that found no original
under its lock is still right (`LocksKnow`). `ReportSound` says of each part of a
report what remains true of the files there were when it began.

**Holds, stages.** `HoldInv`: a request that counted no hold and whose thing is
held by now looked before the hold came (`LookedBefore`). `StageInv`: unless two
requests raced, one run is on its way or about to be (`OneAtATime`), the claim of
the run that read the latest text works on it (`ClaimReadsLatest`, `OwnReading`),
and a kind of facts is not there before its stage (`FactsFollow`).

**Pages and lists.** `PagingInv`: what was received does not follow the cursor
(`ReceivedIsBehind`), what stayed in its place and was not received does
(`RestIsAhead`), and the row the cursor was made of was received and only edited
to later times (`CursorIsOfARow`). It rests on a lemma that time and id order the
rows totally (`TotalOrder`), and on the last row of a page, which exists because a
set of ranks has a least and a greatest (`LeastNatural`). `ScreensInv`: while no
request crosses another one answer is due (`OneAnswerDue`); a first page due is of
the query applied (`FirstPageDue`); a further one belongs to the list in view
(`FurtherPageDue`), which is complete up to its cursor (`CompleteList`). The
screens that disable their controls are proved never to cross, each for its own
reason (`PersonsAlone`, `CostsAlone`, `ParticipantsAlone`, `PersonCasesAlone`). A
participant put in front of a list that is all in view comes on no page, since no
page is left to ask for (`AddedToAll`).

**The session in the browser.** `ClientInv` is about tokens and about tabs. A
token anybody holds was given by the server (`Known`), and the one in the cookie
is the last of its family, or ended, or excused (`Harmless`), or the answer that
replaces it is on the way (`CookieHolds`); what was granted and has not arrived
is the last of its family (`GrantsAreLast`), and two requests under way with one
token are two tabs whose renewals met (`SharedIsExcused`). `PresentedOnce` is not
inductive without these: a renewal presents what it read from the cookie before.
Of a tab, what it shows is what it holds and its cookie and its renewals are of
that session, unless another tab signed in or out meanwhile (`TabsAgree`).

**Polling.** `WatchInv` says why a page that stops has nothing left to wait for:
while it is visible a timer runs, or a poll is under way that will find what has
not changed since it began, or all work has changed (`StaysAwake`); the count it
stopped at is that of the stages shown (`CountIsOfStages`), and what was seen at
work is settled when that count is nil (`SettledWhenNone`). What has settled is
shown or a load brings it (`ShownOrComing`), which needs that lists never claim
too much (`ListsAreTrue`) and that one under way is newer than the one in view
(`ListsAreNewer`), hence that loads do not cross.

**Screens that write.** `ReviewInv`: an answer due tells what the server holds but
for what it is known to have crossed (`CarriedIsSo`, `CrossedIsKnown`), and what a
screen shows is so or the answer that tells it is due (`ShownOrTold`); what is
disabled waits for an answer (`ControlsWait`), so a screen is not at rest with a
request under way, and the status of a checklist is as it was read until an item
of it is decided (`ChipInv`). `FormsInv`: the cases a form made are there under a
code it sent, unless they were renamed, and codes are unique, so the cases map
into the codes without meeting and are no more than these (`FS_PigeonHole`); and
what a form was told of the ceiling, or asked for by the second request
(`asking`), is so, unless somebody else has set it since, and it is what the
fields show unless they were typed in too `late` (`FormHolds`). `PanelInv`: until
files are taken out of it the queue begins with what was sent
(`QueueBeginsWithSent`). That a choice finds room counts the places taken; lemma
`RanksAreFilled`, that each place of a finite set of numbers is that of a member,
is proved by the pigeonhole principle instead of by induction.

Only model-checked: that jobs and e-mails settle (`EveryJobSettles`,
`EveryEmailSettles`), which is liveness under fairness and out of the prover's
reach, and the five runs that end in a counterexample. What a recursive
definition computes for every input is out of reach too; no module here declares
a RECURSIVE operator, and the panel's choice of files is written as a set where
the code has a loop, which is the same because room once used up stays used up.

## 5. What is not modelled, and why

* What a stage computes (OCR, classification, extraction, embedding), the words
  of an answer and the layout of the PDF: data no property depends on. A stage is
  its outcome, its cost, the text it used and what it replaces.
* `VIRUS_SCAN` always throws in the provider; the model gives it claims,
  retries and failures and no completion.
* Events a person adds, tasks made without an item, the description of a case,
  the edit of a person or of preferences, titles and download links: single
  inserts or conditional updates that meet nothing else.
* Dashboard and organizations: queries. The audit trail: entries are written in
  the transactions modelled here, and read through `Paging`.
* Check digits of CPF, CNPJ and CNJ, vocabularies and specialties: formulas and
  tables, which examples test as well as a model.
* Forms and presentation of the web application, prompts, seeds, deployment.

About a sixth of the implementation's lines stand behind a definition. Most of
the rest cannot: of the fifty thousand lines, about half are templates, styles
and texts of screens; the others are prompts, data and seeds, request and
response types, SQL projections and error messages. Components are `partly`
modelled where an operation that changes state is still missing; the note of
each in `PROJECT.json` says which.

## 6. Plan

| Step | Content | State |
|---|---|---|
| jobs, budget, delivery, messages | the core | modelled, most of it proved |
| accounts | sessions, people, second factor, attempts, answers | modelled and proved |
| documents | intake, hold, stages, chunks | modelled and proved |
| office | cases, checklists, tasks, digest, export, the composed budget | modelled and proved |
| lists and screens | pages, lists; session, preparation, forms, review, upload | modelled and proved |
| next: screens that remain | the poll of an export, the rest of the form of a participant | the gaps of section 3 are their first properties |
| next: pure functions | identifiers' check digits, the highlighting of search terms, each against a reference definition over bounded inputs | open |

Every safety property the runs check is proved. What proofs could still add: the
lists of section 3's other screens once they are modelled, and `TellsOnce` for
several workers, which needs the code to change first.

The runs of counterexamples give way to others once what they show has been
settled in the code or in the documentation. Runs stay under three million states:
two actors of each kind, one or two rows, each fault once or twice.
