---------------------------- MODULE StageResults ----------------------------
(***************************************************************************)
(* What the stages of the pipeline leave behind for one document: texts    *)
(* read from the file, the type of the document, facts for people to       *)
(* confirm, and the index that search uses.  A stage works on the latest   *)
(* text there is when its job is claimed; what it computes is recorded     *)
(* when it completes, in one transaction.  Running the document again adds *)
(* texts, facts and chunks and removes none.                               *)
(*                                                                         *)
(* A run's text is named by the run.  Cost, queue and status of the jobs   *)
(* are ProcessingJobs' and ProcessingDelivery's, the items of a checklist  *)
(* are Checklists'.  A stop at the ceiling leaves what a failure leaves.   *)
(***************************************************************************)
EXTENDS Naturals, Sequences, FiniteSets

CONSTANTS Runs, People, NoRun, Nobody

StageAssumption ==
    /\ NoRun \notin Runs /\ Nobody \notin People
    /\ "none" \notin People \cup {Nobody}
    /\ IsFiniteSet(Runs)

Stages == <<"FILE_VALIDATION", "OCR", "DOCUMENT_CLASSIFICATION", "ENTITY_EXTRACTION",
            "TIMELINE_GENERATION", "CHECKLIST_ANALYSIS", "EMBEDDING">>
StageNames == {Stages[i] : i \in 1 .. 7}
Kinds == {"entity", "event"}

VARIABLES
    runs,       \* the stage a run is at, and the text its present claim read
    approved,   \* reprocess requests that have counted no active job
    raced,      \* two requests counted before either had created its job
    texts,      \* runs whose text is recorded, oldest first
    used,       \* the texts the results of each run were made from
    indexed,    \* texts that have chunks
    document,   \* whose choice the type is, classification status, classifiedById
    facts,      \* entities and timeline events of each run, and who confirmed them
    reading     \* what a person who confirms has read

vars == <<runs, approved, raced, texts, used, indexed, document, facts, reading>>

(* What each variable holds. *)
TypeOK ==
    /\ runs \in [Runs -> [stage : StageNames \cup {"none", "done", "failed"},
                          claimed : BOOLEAN, source : Runs \cup {NoRun}]]
    /\ approved \in 0 .. Cardinality(Runs)
    /\ raced \in BOOLEAN
    /\ texts \in Seq(Runs) /\ indexed \subseteq Runs
    /\ used \in [Runs -> SUBSET Runs]
    /\ document \in [type : {"none", "machine", "person"}, by : People \cup {Nobody},
                     status : {"PENDING", "CLASSIFIED", "NEEDS_REVIEW"}]
    /\ facts \in [Runs \X Kinds -> People \cup {Nobody, "none"}]
    /\ reading \in [People -> (Runs \X Kinds) \cup {<<>>}]

Init ==
    /\ runs = [r \in Runs |-> [stage |-> "none", claimed |-> FALSE, source |-> NoRun]]
    /\ approved = 0 /\ raced = FALSE
    /\ texts = <<>> /\ indexed = {}
    /\ used = [r \in Runs |-> {}]
    /\ document = [type |-> "none", by |-> Nobody, status |-> "PENDING"]
    /\ facts = [f \in Runs \X Kinds |-> "none"]
    /\ reading = [p \in People |-> <<>>]

Active == {r \in Runs : runs[r].stage \in StageNames}
Waiting == {r \in Runs : runs[r].stage = "none"}

(* The transaction that creates document and root job. *)
Intake(r) ==
    /\ Waiting = Runs
    /\ runs' = [runs EXCEPT ![r].stage = "FILE_VALIDATION"]
    /\ UNCHANGED <<approved, raced, texts, used, indexed, document, facts, reading>>

-----------------------------------------------------------------------------
(* Mutant of Countable: a request does not look at the active jobs. *)
CountableAnyway == TRUE

(* DOCUMENT_PROCESSING_ACTIVE. *)
Countable == Active = {}

(* The request counts the active jobs of the document, *)
Approve ==
    /\ Waiting # Runs
    /\ Countable
    /\ approved < Cardinality(Waiting)
    /\ approved' = approved + 1
    /\ raced' = (raced \/ approved > 0)
    /\ UNCHANGED <<runs, texts, used, indexed, document, facts, reading>>

(* and then creates the root of a new run. *)
Start(r) ==
    /\ r \in Waiting /\ approved > 0
    /\ approved' = approved - 1
    /\ runs' = [runs EXCEPT ![r].stage = "OCR"]
    /\ UNCHANGED <<raced, texts, used, indexed, document, facts, reading>>

(* Mutant of Latest: the oldest text is read. *)
LatestFirst == IF texts = <<>> THEN NoRun ELSE texts[1]

(* The extraction that a claim reads and that search accepts. *)
Latest == IF texts = <<>> THEN NoRun ELSE texts[Len(texts)]

(* A claim, or a later delivery that resumes the job, reads the job with the
   latest text. *)
Claim(r) ==
    /\ r \in Active
    /\ runs' = [runs EXCEPT ![r].claimed = TRUE, ![r].source = Latest]
    /\ UNCHANGED <<approved, raced, texts, used, indexed, document, facts, reading>>

-----------------------------------------------------------------------------
StageAfter(s) ==
    IF s = "EMBEDDING" THEN "done"
    ELSE LET i == CHOOSE i \in 1 .. 6 : Stages[i] = s IN Stages[i + 1]

(* complete: the results of a stage and its successor, in one transaction. *)
Completes(r, s) ==
    /\ runs[r].stage = s /\ runs[r].claimed
    /\ runs' = [runs EXCEPT ![r] =
           [stage |-> StageAfter(s), claimed |-> FALSE, source |-> NoRun]]
    /\ UNCHANGED <<approved, raced, reading>>

MadeFrom(r) ==
    used' = IF runs[r].source = NoRun THEN used
            ELSE [used EXCEPT ![r] = @ \cup {runs[r].source}]

ValidateFile(r) ==
    /\ Completes(r, "FILE_VALIDATION")
    /\ UNCHANGED <<texts, used, indexed, document, facts>>

ReadText(r) ==
    /\ Completes(r, "OCR")
    /\ texts' = Append(texts, r)
    /\ UNCHANGED <<used, indexed, document, facts>>

(* Mutant of Reclassified: the status is left as it was. *)
ReclassifiedSilently == [document EXCEPT !.type = "machine"]

(* The classification replaces the type, whoever chose it, and asks for a
   review; who classified the document before stays in its row. *)
Reclassified == [document EXCEPT !.type = "machine", !.status = "NEEDS_REVIEW"]

ClassifyDocument(r) ==
    /\ Completes(r, "DOCUMENT_CLASSIFICATION")
    /\ document' = Reclassified
    /\ MadeFrom(r)
    /\ UNCHANGED <<texts, indexed, facts>>

ExtractEntities(r) ==
    /\ Completes(r, "ENTITY_EXTRACTION")
    /\ facts' = [facts EXCEPT ![<<r, "entity">>] = Nobody]
    /\ MadeFrom(r)
    /\ UNCHANGED <<texts, indexed, document>>

(* Without a text, TIMELINE_SOURCE_MISSING fails the job. *)
GenerateTimeline(r) ==
    /\ Completes(r, "TIMELINE_GENERATION")
    /\ runs[r].source # NoRun
    /\ facts' = [facts EXCEPT ![<<r, "event">>] = Nobody]
    /\ MadeFrom(r)
    /\ UNCHANGED <<texts, indexed, document>>

AnalyseChecklist(r) ==
    /\ Completes(r, "CHECKLIST_ANALYSIS")
    /\ MadeFrom(r)
    /\ UNCHANGED <<texts, indexed, document, facts>>

(* EMBEDDING_SOURCE_MISSING fails the job; chunks that are there stay. *)
Embed(r) ==
    /\ Completes(r, "EMBEDDING")
    /\ runs[r].source # NoRun
    /\ indexed' = indexed \cup {runs[r].source}
    /\ MadeFrom(r)
    /\ UNCHANGED <<texts, document, facts>>

(* The last attempt fails, or the budget refuses the claim. *)
Stop(r) ==
    /\ r \in Active
    /\ runs' = [runs EXCEPT ![r] = [stage |-> "failed", claimed |-> FALSE, source |-> NoRun]]
    /\ UNCHANGED <<approved, raced, texts, used, indexed, document, facts, reading>>

-----------------------------------------------------------------------------
(* A person chooses the type of the document, or clears it. *)
SetType(p) ==
    /\ Waiting # Runs
    /\ document' = [type |-> "person", by |-> p, status |-> "CLASSIFIED"]
    /\ UNCHANGED <<runs, approved, raced, texts, used, indexed, facts, reading>>

ClearType ==
    /\ Waiting # Runs
    /\ document' = [type |-> "none", by |-> Nobody, status |-> "PENDING"]
    /\ UNCHANGED <<runs, approved, raced, texts, used, indexed, facts, reading>>

(* A person confirms a fact: it is read, *)
ReadFact(p, f) ==
    /\ reading[p] = <<>> /\ facts[f] = Nobody
    /\ reading' = [reading EXCEPT ![p] = f]
    /\ UNCHANGED <<runs, approved, raced, texts, used, indexed, document, facts>>

(* Mutant of Unconfirmed: the update does not look at the row again. *)
UnconfirmedAsRead(f) == TRUE

(* and written where it is not yet confirmed; else ..._ALREADY_CONFIRMED. *)
Unconfirmed(f) == facts[f] = Nobody

Written(p) == IF Unconfirmed(reading[p]) THEN [facts EXCEPT ![reading[p]] = p] ELSE facts

ConfirmEvent(p) ==
    /\ reading[p] # <<>> /\ reading[p][2] = "event"
    /\ facts' = Written(p)
    /\ reading' = [reading EXCEPT ![p] = <<>>]
    /\ UNCHANGED <<runs, approved, raced, texts, used, indexed, document>>

ConfirmEntity(p) ==
    /\ reading[p] # <<>> /\ reading[p][2] = "entity"
    /\ facts' = Written(p)
    /\ reading' = [reading EXCEPT ![p] = <<>>]
    /\ UNCHANGED <<runs, approved, raced, texts, used, indexed, document>>

Next ==
    \/ Approve
    \/ \E r \in Runs :
        \/ Intake(r) \/ Start(r) \/ Claim(r) \/ Stop(r)
        \/ ValidateFile(r) \/ ReadText(r) \/ ClassifyDocument(r) \/ ExtractEntities(r)
        \/ GenerateTimeline(r) \/ AnalyseChecklist(r) \/ Embed(r)
    \/ \E p \in People :
        \/ SetType(p)
        \/ \E f \in Runs \X Kinds : ReadFact(p, f)
        \/ ConfirmEvent(p)
        \/ ConfirmEntity(p)
    \/ ClearType

Spec == Init /\ [][Next]_vars

-----------------------------------------------------------------------------
(* A document whose latest text was read by a run that ended well is found
   by search: the chunks are of the text search looks for, whatever other
   runs did in between. *)
Findable == Latest # NoRun /\ runs[Latest].stage = "done" => Latest \in indexed

(* All results of a run were made from the text it read itself, unless two
   requests to run the document again were decided on at the same time. *)
OneTextPerRun == raced \/ \A r \in Runs : used[r] \subseteq {r}

(* A document that counts as classified has the type a person chose.  The
   choice itself does not last: a classification that was under way writes its
   own type over it, beside the name of the person, and what protects the
   reader is that the document then asks for a review again. *)
ClassifiedByPerson == document.status = "CLASSIFIED" => document.type = "person"

(* What search finds and what the stages worked on is one reading. *)
ReadingsHoldTogether == Findable /\ OneTextPerRun

(* Only people review: whatever a stage writes over, a document never counts
   as classified with the type of a machine, and of two people who confirm a
   fact at once, the second does not become the one who did.  That a person's
   choice of a type is kept is not so, and not said (ClassifiedByPerson). *)
OnlyPeopleReview ==
    [][/\ ClassifiedByPerson'
       /\ \A f \in Runs \X Kinds : facts[f] \in People => facts'[f] = facts[f]]_vars
=============================================================================
