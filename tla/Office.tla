------------------------------- MODULE Office -------------------------------
(***************************************************************************)
(* The work of an office: the budget of its cases (AssistantBudget), the   *)
(* checklists, the tasks made of them, the digest of what was prepared,    *)
(* the export of a case, its record, and the screens this work is done on. *)
(* They share no state, so they are composed apart: the initial state      *)
(* chooses a part, which takes the steps, and the others stay as they      *)
(* began.                                                                  *)
(***************************************************************************)
EXTENDS AssistantBudget, Integers

CONSTANTS
    Requests, NoItem, Nobody, People,                       \* of several
    ListItems, Required, Evidence, Reviewers, NoEvidence, NoReviewer, Asked, \* of Checklists
    TaskItems, MaxUpdates,                                  \* of Tasks
    Sweepers, Recipients, Prepared, DigestInterval, Lookback, SweepInterval, \* of PreparationDigest
    MaxCompletions, MaxDone, Horizon, MaxRestarts,
    JobIds, Consumers, NoConsumer, NoJobId, MaxAttempts, Requesters, \* of CaseExport
    MaxCrashes, MaxBlocks,
    Records, Codes, Numbers, NoNumber, Users, Readers, NoRecord, MaxDate, Inputs, \* of CaseRecords
    Opened, NoOpened, FormCodes, NoCode, FormLimits, FormLimit, BornWith, Forms, MaxSaves, \* of CaseForms
    Fields, Entities, ReviewItems, NoThing, Slots, MaxChanges, \* of ReviewScreens
    Files, Unfit, MaxFiles, MaxChoice                       \* of UploadPanel

VARIABLES
    part,                                                   \* the part that takes the steps
    items, checklist, updates, mixed, stale,                \* of Checklists
    pending, tasks, edits, trail,                           \* of Tasks
    clock, responsible, done, digests, sweeps, lastSwept, restarts, \* of PreparationDigest
    queue, exports, exporters, runs, objects, faults,       \* of CaseExport
    records, requests, crossed, effect,                     \* of CaseRecords
    opened, forms, renamed, saves,                          \* of CaseForms
    screen, server, shown, flights, flags, busy, confirming, behind, changes,
    chip, \* of ReviewScreens
    files, refused, sent, batch, rejected, failed, shortened  \* of UploadPanel

checklistVars == <<items, checklist, updates, mixed, stale>>
taskVars == <<pending, tasks, edits, trail>>
digestVars == <<clock, responsible, done, digests, sweeps, lastSwept, restarts>>
exportVars == <<queue, exports, exporters, runs, objects, faults>>
recordVars == <<records, requests, crossed, effect>>
formVars == <<opened, forms, renamed, saves>>
reviewVars == <<screen, server, shown, flights, flags, busy, confirming, behind, changes, chip>>
panelVars == <<files, refused, sent, batch, rejected, failed, shortened>>
screenVars == <<formVars, reviewVars, panelVars>>
deskVars == <<checklistVars, taskVars, digestVars, exportVars, recordVars, screenVars>>
officeVars == <<part, deskVars, assistantVars>>

C == INSTANCE Checklists WITH
         Items <- ListItems, Documents <- Evidence, NoDocument <- NoEvidence

T == INSTANCE Tasks WITH Items <- TaskItems

D == INSTANCE PreparationDigest WITH Cases <- Prepared

E == INSTANCE CaseExport WITH asks <- exporters

R == INSTANCE CaseRecords WITH
         Cases <- Records, People <- Users, NoCase <- NoRecord, cases <- records

F == INSTANCE CaseForms WITH
         Cases <- Opened, NoCase <- NoOpened, Codes <- FormCodes, Limits <- FormLimits,
         cases <- opened

V == INSTANCE ReviewScreens WITH Items <- ReviewItems

U == INSTANCE UploadPanel WITH queue <- files

ASSUME ChecklistAssumed == C!ChecklistAssumption
ASSUME TasksAssumed == T!TaskAssumption
ASSUME DigestAssumed == D!DigestAssumption
ASSUME ExportAssumed == E!QueueAssumption
ASSUME RecordsAssumed == R!RecordsAssumption
ASSUME FormsAssumed == F!FormsAssumption
ASSUME ReviewAssumed == V!ReviewAssumption
ASSUME PanelAssumed == U!PanelAssumption

(* Cases begin with any responsible person, and a screen is opened, but only
   when that is what takes the steps. *)
OfficeInit ==
    /\ part \in {"cases", "forms", "review", "panel", "checklist", "tasks", "digest", "export", "budget"}
    /\ C!Init /\ T!Init /\ D!Init /\ E!Init /\ AssistantInit
    /\ R!RecordsInit /\ F!FormsInit /\ U!PanelInit
    /\ part # "digest" => responsible = [c \in Prepared |-> CHOOSE p \in Recipients : TRUE]
    /\ IF part = "review" THEN V!ReviewInit ELSE V!Unopened

(* One part takes a step. *)
OfficeNext ==
    /\ UNCHANGED part
    /\ \/ /\ part = "checklist" /\ C!Next
          /\ UNCHANGED <<taskVars, digestVars, exportVars, assistantVars, recordVars, screenVars>>
       \/ /\ part = "tasks" /\ T!Next
          /\ UNCHANGED <<checklistVars, digestVars, exportVars, assistantVars, recordVars, screenVars>>
       \/ /\ part = "digest" /\ D!Next
          /\ UNCHANGED <<checklistVars, taskVars, exportVars, assistantVars, recordVars, screenVars>>
       \/ /\ part = "export" /\ E!Next
          /\ UNCHANGED <<checklistVars, taskVars, digestVars, assistantVars, recordVars, screenVars>>
       \/ part = "budget" /\ AssistantNext /\ UNCHANGED deskVars
       \/ /\ part = "cases" /\ R!RecordsNext
          /\ UNCHANGED <<checklistVars, taskVars, digestVars, exportVars, assistantVars, screenVars>>
       \/ /\ part = "forms" /\ F!FormsNext
          /\ UNCHANGED <<checklistVars, taskVars, digestVars, exportVars, assistantVars, recordVars,
                         reviewVars, panelVars>>
       \/ /\ part = "review" /\ V!ReviewNext
          /\ UNCHANGED <<checklistVars, taskVars, digestVars, exportVars, assistantVars, recordVars,
                         formVars, panelVars>>
       \/ /\ part = "panel" /\ U!PanelNext
          /\ UNCHANGED <<checklistVars, taskVars, digestVars, exportVars, assistantVars, recordVars,
                         formVars, reviewVars>>

OfficeSpec == OfficeInit /\ [][OfficeNext]_officeVars

-----------------------------------------------------------------------------
(* What a part promises; nothing happens to the state of the others.
   See Checklists: completed means reviewed, and a review is kept whole. *)
ChecklistHolds == part = "checklist" => C!TypeOK /\ C!ChecklistHolds
(* See Tasks: the trail of a task is a chain of what it really was. *)
EditsAreChained == T!EditsAreChained
(* See PreparationDigest: each completion is told once, and once a day. *)
TellsOnce == (part = "tasks" => T!TypeOK) /\ (part = "digest" => D!TypeOK /\ D!TellsOnce)
(* See CaseExport: one worker writes an export, and COMPLETED means stored. *)
OneGeneration == part = "export" => E!TypeOK /\ E!OneGeneration
(* See CaseRecords: a confidential case is shown, and its level taken away, as
   allowed and on record, dates stay in order and conflicts are named. *)
CasesAreGuarded == part = "cases" => R!RecordsTyped /\ R!CasesAreGuarded
(* See ReviewScreens, CaseForms and UploadPanel: a screen at rest shows what is
   so, a form opens one case and leaves the ceiling it shows, and a refusal
   stands under the name of its file. *)
ScreensAreFaithful ==
    /\ part = "review" => V!ScreensAreFaithful
    /\ part = "forms" => F!FormsAreFaithful
    /\ part = "panel" => U!PanelIsFaithful
=============================================================================
