------------------------------ MODULE Documents ------------------------------
(***************************************************************************)
(* What an office keeps about its documents, and how the browser gets it:  *)
(* how files come in, how a hold keeps them, what the stages find in them, *)
(* how their text is cut, how lists are read and shown, how the page of a  *)
(* case follows the work on them, and how the session is renewed           *)
(* meanwhile.  The components share no state, so they are composed apart:  *)
(* the initial state chooses a part, which takes the steps, and the others *)
(* stay as they began.                                                     *)
(***************************************************************************)
EXTENDS KnowledgeChunks

CONSTANTS
    Requests,                                                   \* of FileIntake and LegalHold
    Keys, Contents, ContentOf, NoKey, MaxFiles, MaxLost,        \* of FileIntake
    Cases, CaseDocuments, Persons, CaseOf, NoThing, NoCase,     \* of LegalHold
    Runs, People, NoRun, Nobody,                                \* of StageResults
    Ids, MaxTime, Limit,                                        \* of Paging
    Queries, NoQuery, Pending, MaxPages, MaxUpdates,            \* of ListScreens
    Tabs, Slots, Logins, MaxRotations, MaxExpiries, NoTab, NoSlot, \* of ClientSession
    Prepared, Polls, Loads, NoCount, MaxMoves, MaxTroubles      \* of PreparationWatch

VARIABLES
    part,                                               \* the part that takes the steps
    objects, files, uploads, lost, report,              \* of FileIntake
    holds, removed, parties, removals, excused, taken,  \* of LegalHold
    runs, approved, raced, texts, used, indexed, document, facts, reading, \* of StageResults
    list, rows, shown, reader, throughout,              \* of Paging
    screen, input, applied, pages, cursor, flags, flights, crossed, updates,
    added, \* of ListScreens
    cookie, families, tabs, calls, replays, blameless, overtaken, expiries, \* of ClientSession
    work, polls, loads, page, sending, moved, witnessed, missed, cross, counts \* of PreparationWatch

intakeVars == <<objects, files, uploads, lost, report>>
holdVars == <<holds, removed, parties, removals, excused, taken>>
stageVars == <<runs, approved, raced, texts, used, indexed, document, facts, reading>>
pagingVars == <<list, rows, shown, reader, throughout>>
screenVars == <<screen, input, applied, pages, cursor, flags, flights, crossed, updates, added>>
clientVars == <<cookie, families, tabs, calls, replays, blameless, overtaken, expiries>>
watchVars == <<work, polls, loads, page, sending, moved, witnessed, missed, cross, counts>>
documentsVars == <<part, intakeVars, holdVars, stageVars, pagingVars, screenVars, clientVars,
                   vars, watchVars>>

I == INSTANCE FileIntake

H == INSTANCE LegalHold WITH Documents <- CaseDocuments

S == INSTANCE StageResults

G == INSTANCE Paging

L == INSTANCE ListScreens WITH Slots <- Pending, list <- pages

C == INSTANCE ClientSession WITH excused <- blameless

W == INSTANCE PreparationWatch WITH Documents <- Prepared, crossed <- cross

ASSUME IntakeAssumed == I!IntakeAssumption
ASSUME HoldAssumed == H!HoldAssumption
ASSUME StageAssumed == S!StageAssumption
ASSUME PagingAssumed == G!PagingAssumption
ASSUME ScreensAssumed == L!ScreensAssumption
ASSUME ClientAssumed == C!ClientAssumption
ASSUME WatchAssumed == W!WatchAssumption

(* Texts, units and lists begin in many ways, but only when they are what is
   checked. *)
DocumentsInit ==
    /\ part \in {"intake", "hold", "stages", "paging", "screens", "client", "chunks", "watch"}
    /\ part # "chunks" => source = << >>
    /\ part # "screens" => screen = "cases"
    /\ part # "watch" => work = W!NoList
    /\ W!Init
    /\ G!Init
    /\ part # "paging" => /\ list[1] = G!TasksOrder
                          /\ shown = {}
                          /\ \A i \in Ids : rows[i].createdAt = 1
    /\ I!Init /\ H!Init /\ S!Init /\ L!Init /\ C!Init /\ Init

DocumentsNext ==
    /\ UNCHANGED part
    /\ \/ part = "intake" /\ I!Next
          /\ UNCHANGED <<holdVars, stageVars, pagingVars, screenVars, clientVars, vars, watchVars>>
       \/ part = "hold" /\ H!Next
          /\ UNCHANGED <<intakeVars, stageVars, pagingVars, screenVars, clientVars, vars, watchVars>>
       \/ part = "stages" /\ S!Next
          /\ UNCHANGED <<intakeVars, holdVars, pagingVars, screenVars, clientVars, vars, watchVars>>
       \/ part = "paging" /\ G!Next
          /\ UNCHANGED <<intakeVars, holdVars, stageVars, screenVars, clientVars, vars, watchVars>>
       \/ part = "screens" /\ L!Next
          /\ UNCHANGED <<intakeVars, holdVars, stageVars, pagingVars, clientVars, vars, watchVars>>
       \/ part = "client" /\ C!Next
          /\ UNCHANGED <<intakeVars, holdVars, stageVars, pagingVars, screenVars, vars, watchVars>>
       \/ part = "chunks" /\ Next
          /\ UNCHANGED <<intakeVars, holdVars, stageVars, pagingVars, screenVars, clientVars, watchVars>>
       \/ part = "watch" /\ W!Next
          /\ UNCHANGED <<intakeVars, holdVars, stageVars, pagingVars, screenVars, clientVars, vars>>

DocumentsSpec == DocumentsInit /\ [][DocumentsNext]_documentsVars

-----------------------------------------------------------------------------
(* See FileIntake: a file keeps its object unless the answer to its commit was
   lost, only one original its bytes, and the reconciliation report is right
   about the files that were there when it began. *)
FilesAreKept == part = "intake" => I!TypeOK /\ I!FilesAreKept /\ I!ReportIsTrue
(* See LegalHold: a hold stops every removal that comes after it. *)
OnlyOvertakenRemovals == part = "hold" => H!TypeOK /\ H!OnlyOvertakenRemovals
(* See StageResults: search finds the last text, and a run works on one. *)
ReadingsHoldTogether == part = "stages" => S!TypeOK /\ S!ReadingsHoldTogether
(* See StageResults: what counts as classified is a person's type, and the first
   who confirmed a fact remains. *)
OnlyPeopleReview == S!OnlyPeopleReview
(* See Paging: pages repeat nothing, and skip nothing that stayed in its place.
   See ListScreens: a screen at rest shows the first pages of one query, with
   the exceptions it names. *)
ListsAreWhole ==
    /\ part = "paging" => G!TypeOK /\ G!PagesAreWhole
    /\ part = "screens" => L!ListIsWhole
(* See ClientSession: the application does not end its own session. *)
ClientHoldsSession == part = "client" => C!ClientHoldsSession
(* See PreparationWatch: polls stop when the work is done, and it is shown. *)
PollingIsFaithful == part = "watch" => W!PollingIsFaithful
=============================================================================
