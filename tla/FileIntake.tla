----------------------------- MODULE FileIntake -----------------------------
(***************************************************************************)
(* The upload of a batch of files, and the report that compares the rows   *)
(* of the files with the objects in storage.  All files of a request are   *)
(* put in storage and inspected first; then each one gets its row in a     *)
(* transaction of its own.  Storage takes no part in the transactions, and *)
(* an object whose removal fails is left to the report.                    *)
(***************************************************************************)
EXTENDS Naturals, FiniteSets

CONSTANTS
    Keys,           \* storage keys; a key also names the row of its file
    Contents,       \* the bytes, as checksum and size tell them apart
    ContentOf,      \* [Keys -> Contents]
    Requests,
    NoKey,
    MaxFiles,       \* FILE_INTAKE_MAX_FILES_PER_REQUEST
    MaxLost         \* bound: commits whose answer does not arrive

IntakeAssumption ==
    /\ NoKey \notin Keys
    /\ ContentOf \in [Keys -> Contents]
    /\ MaxFiles \in Nat \ {0} /\ MaxLost \in Nat
    /\ IsFiniteSet(Keys)

VARIABLES
    objects,    \* what the bucket holds
    files,      \* the rows of files, with their only document
    uploads,    \* what each request has put, accepted and persisted
    lost,       \* files whose row was committed and whose request saw an error
    report      \* what the reconciliation report has read

vars == <<objects, files, uploads, lost, report>>

File == [status : {"none", "AVAILABLE", "QUARANTINED"}, original : Keys \cup {NoKey},
         at : 0 .. Cardinality(Keys), deleted : BOOLEAN]
Upload == [step : {"idle", "staging", "persisting", "locked"}, putting : SUBSET Keys,
           clean : SUBSET Keys, unscanned : SUBSET Keys, accepted : SUBSET Keys,
           key : Keys \cup {NoKey}, original : Keys \cup {NoKey}]
ReportReadings == {"files", "references", "objects"}
Report == [read : SUBSET ReportReadings, files : SUBSET Keys, references : SUBSET Keys,
           objects : SUBSET Keys, held : SUBSET Keys, missing : SUBSET Keys]

(* What each variable holds. *)
TypeOK ==
    /\ objects \subseteq Keys
    /\ files \in [Keys -> File]
    /\ uploads \in [Requests -> Upload]
    /\ lost \subseteq Keys
    /\ report \in Report

NoFile == [status |-> "none", original |-> NoKey, at |-> 0, deleted |-> FALSE]
Idle == [step |-> "idle", putting |-> {}, clean |-> {}, unscanned |-> {}, accepted |-> {},
         key |-> NoKey, original |-> NoKey]
NoReport == [read |-> {}, files |-> {}, references |-> {}, objects |-> {},
             held |-> {}, missing |-> {}]

Init ==
    /\ objects = {}
    /\ files = [k \in Keys |-> NoFile]
    /\ uploads = [q \in Requests |-> Idle]
    /\ lost = {}
    /\ report = NoReport

Stored == {k \in Keys : files[k].status # "none"}
Active == {k \in Stored : ~files[k].deleted}
Staged(q) == uploads[q].clean \cup uploads[q].unscanned
InHand == UNION {uploads[q].putting \cup Staged(q) : q \in Requests}
Becomes(q, u) == uploads' = [uploads EXCEPT ![q] = u]

(* #deleteObjectSafely, of each of the keys: any of the removals may fail. *)
DeleteObjectSafely(S) == \E failed \in SUBSET S : objects' = objects \ (S \ failed)
-----------------------------------------------------------------------------
(* A key is random: none that left a trace is drawn again. *)
PutPrivateObject(q, k) ==
    LET u == uploads[q] IN
    /\ u.step \in {"idle", "staging"}
    /\ k \notin objects \cup Stored \cup InHand
    /\ Cardinality(u.putting \cup Staged(q)) < MaxFiles
    /\ objects' = objects \cup {k}
    /\ Becomes(q, [u EXCEPT !.step = "staging", !.putting = @ \cup {k}])
    /\ UNCHANGED <<files, lost, report>>

(* The scanner may be unavailable: such a file is kept in quarantine. *)
Inspect(q, k) ==
    LET u == uploads[q] IN
    /\ k \in u.putting
    /\ \/ Becomes(q, [u EXCEPT !.putting = @ \ {k}, !.clean = @ \cup {k}])
       \/ Becomes(q, [u EXCEPT !.putting = @ \ {k}, !.unscanned = @ \cup {k}])
    /\ UNCHANGED <<objects, files, lost, report>>

(* Too large, infected, of another type, or storage answered with an error. *)
RejectFile(q, k) ==
    /\ k \in uploads[q].putting
    /\ Becomes(q, [uploads[q] EXCEPT !.putting = @ \ {k}])
    /\ DeleteObjectSafely({k})
    /\ UNCHANGED <<files, lost, report>>

(* Parsing failed as a whole: what was accepted so far is removed. *)
RejectRequest(q) ==
    /\ uploads[q].step = "staging" /\ uploads[q].putting = {}
    /\ DeleteObjectSafely(Staged(q))
    /\ Becomes(q, Idle)
    /\ UNCHANGED <<files, lost, report>>

(* Mutant of LockFree: the lock of the checksum is not taken. *)
LockFreeAlways(k) == TRUE

(* pg_advisory_xact_lock of the checksum. *)
LockFree(k) ==
    \A q \in Requests : uploads[q].step = "locked" => ContentOf[uploads[q].key] # ContentOf[k]

Duplicates(k) == {x \in Active : files[x].status = "AVAILABLE" /\ ContentOf[x] = ContentOf[k]}

(* The oldest file of the same content, if there is one. *)
Original(k) ==
    IF Duplicates(k) = {} THEN NoKey
    ELSE CHOOSE x \in Duplicates(k) : \A y \in Duplicates(k) : files[x].at <= files[y].at

FindDuplicate(q, k) ==
    LET u == uploads[q] IN
    /\ u.step \in {"staging", "persisting"} /\ u.putting = {}
    /\ k \in Staged(q)
    /\ LockFree(k)
    /\ Becomes(q, [u EXCEPT !.step = "locked", !.key = k, !.original = Original(k)])
    /\ UNCHANGED <<objects, files, lost, report>>

RowOf(u) ==
    [status |-> IF u.key \in u.unscanned THEN "QUARANTINED" ELSE "AVAILABLE",
     original |-> u.original, at |-> Cardinality(Stored) + 1, deleted |-> FALSE]

(* File, document and job are committed together; the next file follows. *)
CreateIntakeResources(q) ==
    LET u == uploads[q]
        rest == [u EXCEPT !.clean = @ \ {u.key}, !.unscanned = @ \ {u.key},
                          !.accepted = @ \cup {u.key}, !.key = NoKey, !.original = NoKey,
                          !.step = "persisting"]
    IN  /\ u.step = "locked"
        /\ files' = [files EXCEPT ![u.key] = RowOf(u)]
        /\ Becomes(q, IF Staged(q) = {u.key} THEN Idle ELSE rest)
        /\ UNCHANGED <<objects, lost, report>>

(* Mutant of CleanedUp: the whole batch is removed. *)
CleanedUpBatch(q) == Staged(q) \cup uploads[q].accepted

(* What upload removes when the row of a file could not be created. *)
CleanedUp(q) == {uploads[q].key}

(* The request ends; the objects of the files after this one are left. *)
PersistFails(q) ==
    /\ uploads[q].step = "locked"
    /\ DeleteObjectSafely(CleanedUp(q))
    /\ Becomes(q, Idle)
    /\ UNCHANGED <<files, lost, report>>

(* The commit took place and its answer did not arrive: upload takes it for a
   failure and removes the object its row needs (files.service.ts:161). *)
PersistAnswerLost(q) ==
    LET u == uploads[q] IN
    /\ u.step = "locked" /\ Cardinality(lost) < MaxLost
    /\ files' = [files EXCEPT ![u.key] = RowOf(u)]
    /\ lost' = lost \cup {u.key}
    /\ DeleteObjectSafely(CleanedUp(q))
    /\ Becomes(q, Idle)
    /\ UNCHANGED report

(* The process handling the request dies. *)
Crash(q) ==
    /\ uploads[q].step # "idle"
    /\ Becomes(q, Idle)
    /\ UNCHANGED <<objects, files, lost, report>>

(* softDelete of the only document of the file takes the file along. *)
SoftDelete(k) ==
    /\ k \in Active
    /\ files' = [files EXCEPT ![k].deleted = TRUE]
    /\ UNCHANGED <<objects, uploads, lost, report>>

-----------------------------------------------------------------------------
(* Mutant of ReconciliationFiles: files in quarantine are left out. *)
AvailableFiles == {k \in Active : files[k].status = "AVAILABLE"}

ReconciliationFiles == {k \in Active : files[k].status \in {"AVAILABLE", "QUARANTINED"}}

(* The three queries run at once, and nothing ties them together. *)
ReportReads(query) ==
    LET begun == IF report.read = {}
                   THEN [NoReport EXCEPT !.held = Active \cap objects,
                                         !.missing = Active \ objects]
                   ELSE report
    IN  /\ query \notin report.read
        /\ report' = [begun EXCEPT
               !.read = @ \cup {query},
               !.files = IF query = "files" THEN ReconciliationFiles ELSE @,
               !.references = IF query = "references" THEN Active ELSE @,
               !.objects = IF query = "objects" THEN objects ELSE @]
        /\ UNCHANGED <<objects, files, uploads, lost>>

MissingObjectFiles == report.files \ report.objects
OrphanObjects == report.objects \ report.references

EndReport ==
    /\ report.read = ReportReadings
    /\ report' = NoReport
    /\ UNCHANGED <<objects, files, uploads, lost>>

Next ==
    \/ \E q \in Requests :
        \/ \E k \in Keys : \/ PutPrivateObject(q, k) \/ Inspect(q, k)
                           \/ RejectFile(q, k) \/ FindDuplicate(q, k)
        \/ RejectRequest(q)
        \/ CreateIntakeResources(q)
        \/ PersistFails(q)
        \/ PersistAnswerLost(q)
        \/ Crash(q)
    \/ \E k \in Keys : SoftDelete(k)
    \/ \E query \in ReportReadings : ReportReads(query)
    \/ EndReport

Spec == Init /\ [][Next]_vars

-----------------------------------------------------------------------------
(* Whatever of a batch fails, the cleaning up never takes the object of a
   file that has its row, a deleted one included, with one exception that the
   code does not avoid: after a commit whose answer was lost the row stays and
   its object is removed. *)
FileHasObject == Stored \subseteq objects \cup lost

(* However many copies arrive at once, the files of one content that can be
   used have one original among them at most. *)
OneOriginal ==
    \A j, k \in Active :
        /\ files[j].status = "AVAILABLE" /\ files[k].status = "AVAILABLE"
        /\ files[j].original = NoKey /\ files[k].original = NoKey
        /\ ContentOf[j] = ContentOf[k]
        => j = k

(* Originals are kept however uploads meet, fail or crash, and so are objects,
   but for those of a commit whose answer was lost. *)
FilesAreKept == FileHasObject /\ OneOriginal

(* Its three reads are not one snapshot.  Of the files that were there when it
   began the report names none whose object is there, overlooks none whose
   object is gone, and takes no object of theirs for an orphan, unless the
   file was deleted meanwhile.  Of a file that comes while it reads nothing is
   promised: its object may be listed and its row not, or the other way round,
   and the report then accuses an upload that went well. *)
ReportIsTrue ==
    report.read = ReportReadings =>
        /\ MissingObjectFiles \cap report.held = {}
        /\ report.missing \cap Active \subseteq MissingObjectFiles
        /\ OrphanObjects \cap report.held \cap Active = {}
=============================================================================
