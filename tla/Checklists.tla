----------------------------- MODULE Checklists -----------------------------
(***************************************************************************)
(* One checklist of a case: people review its items, the worker promotes   *)
(* items that are missing, and the status of the checklist is derived from *)
(* those of its required items by whoever changed one.                     *)
(*                                                                         *)
(* updateItem reads the item, checks what is asked against that, and       *)
(* writes the fields asked for in a transaction at READ COMMITTED: the     *)
(* count of the pending items does not see what others have not yet        *)
(* committed.  INVALID stands for EXPIRED and ILLEGIBLE too,               *)
(* AWAITING_VALIDATION for RECEIVED too.                                   *)
(***************************************************************************)
EXTENDS Naturals

CONSTANTS
    Items, Required, Documents, Reviewers, Requests, NoDocument, NoReviewer, NoItem,
    Asked       \* bound: the statuses that people ask for, item by item

VARIABLES
    items,      \* status, document, who validated it
    checklist,  \* status of the checklist, "none" before it is applied
    updates,    \* what each request asks for, has read and has counted
    mixed,      \* items written by a request that had read something older
    stale       \* the status comes from a count that another change overtook

vars == <<items, checklist, updates, mixed, stale>>

Statuses == {"MISSING", "AWAITING_VALIDATION", "VALIDATED", "INVALID", "NOT_APPLICABLE"}
documentRequiredStatuses == {"AWAITING_VALIDATION", "VALIDATED", "INVALID"}
humanReviewedStatuses == {"VALIDATED", "INVALID", "NOT_APPLICABLE"}
Settled == {"VALIDATED", "NOT_APPLICABLE"}
Keep == "keep"

ChecklistAssumption ==
    /\ Required \subseteq Items
    /\ Asked \in [Items -> SUBSET Statuses]
    /\ NoDocument \notin Documents /\ NoReviewer \notin Reviewers /\ NoItem \notin Items
    /\ Keep \notin Documents \cup {NoDocument}

Item == [status : Statuses, document : Documents \cup {NoDocument},
         validatedBy : Reviewers \cup {NoReviewer}]
(* status and document: what is written; counted: the status of the checklist
   the count gave; older: the item was changed after it was read; overtaken:
   another change was committed after the count. *)
Update == [step : {"idle", "read", "updated", "counted"}, item : Items \cup {NoItem},
           status : Statuses \cup {Keep},
           document : Documents \cup {NoDocument, Keep},
           validatedBy : Reviewers \cup {NoReviewer},
           counted : {"none", "COMPLETED", "NEEDS_REVIEW"}, older : BOOLEAN, overtaken : BOOLEAN]

(* What each variable holds. *)
TypeOK ==
    /\ items \in [Items -> Item]
    /\ checklist \in {"none", "IN_PROGRESS", "COMPLETED", "NEEDS_REVIEW"}
    /\ updates \in [Requests -> Update]
    /\ mixed \subseteq Items
    /\ stale \in BOOLEAN

Blank == [status |-> "MISSING", document |-> NoDocument, validatedBy |-> NoReviewer]
Idle == [step |-> "idle", item |-> NoItem, status |-> Keep, document |-> Keep,
         validatedBy |-> NoReviewer, counted |-> "none", older |-> FALSE, overtaken |-> FALSE]

Init ==
    /\ items = [i \in Items |-> Blank]
    /\ checklist = "none"
    /\ updates = [q \in Requests |-> Idle]
    /\ mixed = {}
    /\ stale = FALSE

Becomes(q, u) == updates' = [updates EXCEPT ![q] = u]
Locked(i) == \E q \in Requests : updates[q].item = i /\ updates[q].step \in {"updated", "counted"}
-----------------------------------------------------------------------------
(* Applying again changes nothing: upsert, and createMany of what is missing. *)
Apply ==
    /\ checklist = "none"
    /\ checklist' = "IN_PROGRESS"
    /\ UNCHANGED <<items, updates, mixed, stale>>

(* The document and the reviewer that go with a status, from the item read. *)
DocumentFor(i, s, d) ==
    IF s \in {"MISSING", "NOT_APPLICABLE"} THEN NoDocument
    ELSE IF d = Keep THEN items[i].document ELSE d
ReviewerFor(s, who) == IF s \in humanReviewedStatuses THEN who ELSE NoReviewer

(* Mutant of Reviewable: a status that needs a document is taken without. *)
ReviewableBare(s, d, document) == s \in {"MISSING", "NOT_APPLICABLE"} => d \in {Keep, NoDocument}

(* INVALID_CHECKLIST_DOCUMENT, CHECKLIST_DOCUMENT_REQUIRED. *)
Reviewable(s, d, document) ==
    /\ s \in {"MISSING", "NOT_APPLICABLE"} => d \in {Keep, NoDocument}
    /\ s \in documentRequiredStatuses => document # NoDocument

(* s and d are the fields of the input; Keep for one that is not given.  A
   request that gives neither changes the notes. *)
ReadItem(q, i, who, s, d) ==
    LET status == IF s = Keep THEN items[i].status ELSE s
        document == DocumentFor(i, status, d)
    IN  /\ updates[q].step = "idle" /\ checklist # "none"
        /\ Reviewable(status, d, document)
        /\ Becomes(q, [Idle EXCEPT
               !.step = "read", !.item = i, !.status = s,
               !.document = IF d = Keep /\ document = items[i].document THEN Keep ELSE document,
               !.validatedBy = ReviewerFor(status, who)])
        /\ UNCHANGED <<items, checklist, mixed, stale>>

(* The update has its row; others wait for it. *)
UpdateItem(q) ==
    /\ updates[q].step = "read"
    /\ ~Locked(updates[q].item)
    /\ Becomes(q, [updates[q] EXCEPT !.step = "updated"])
    /\ UNCHANGED <<items, checklist, mixed, stale>>

Written(u) ==
    LET i == u.item IN
    [items EXCEPT ![i].status = IF u.status = Keep THEN @ ELSE u.status,
                  ![i].document = IF u.document = Keep THEN @ ELSE u.document,
                  ![i].validatedBy = u.validatedBy]

PendingRequired(now) == {i \in Required : now[i].status \notin Settled}

(* Mutant of StatusFor: the item just changed is not seen. *)
StatusBefore(u) == IF PendingRequired(items) = {} THEN "COMPLETED" ELSE "NEEDS_REVIEW"

(* refreshChecklistStatus: committed items, and the request's own change. *)
StatusFor(u) == IF PendingRequired(Written(u)) = {} THEN "COMPLETED" ELSE "NEEDS_REVIEW"

RefreshChecklistStatus(q) ==
    /\ updates[q].step = "updated"
    /\ Becomes(q, [updates[q] EXCEPT !.step = "counted", !.counted = StatusFor(updates[q])])
    /\ UNCHANGED <<items, checklist, mixed, stale>>

(* Requests whose count, and those whose item, does not have the change of
   the items to now that is committed. *)
Overtaken(now) == [p \in Requests |->
    IF updates[p].step = "idle" THEN updates[p]
    ELSE [updates[p] EXCEPT !.overtaken = @ \/ (updates[p].step = "counted" /\ now # items),
                            !.older = @ \/ now[updates[p].item] # items[updates[p].item]]]

CommitUpdate(q) ==
    LET u == updates[q] IN
    /\ u.step = "counted"
    /\ items' = Written(u)
    /\ checklist' = u.counted
    /\ updates' = [Overtaken(items') EXCEPT ![q] = Idle]
    /\ mixed' = IF u.older THEN mixed \cup {u.item} ELSE mixed \ {u.item}
    /\ stale' = u.overtaken

Abort(q) ==
    /\ updates[q].step # "idle"
    /\ Becomes(q, Idle)
    /\ UNCHANGED <<items, checklist, mixed, stale>>

(* Mutant of Promotable: every item that was not validated is promoted. *)
PromotableReviewed(i) == items[i].status # "VALIDATED"

Promotable(i) == items[i].status = "MISSING"

(* The commit of the worker's analysis: it applies the checklist if need be,
   waits for the items it promotes, and asks for a review in any case. *)
Analyse(S, d) ==
    /\ \A i \in S : ~Locked(i)
    /\ items' = [i \in Items |->
           IF i \in S /\ Promotable(i)
             THEN [items[i] EXCEPT !.status = "AWAITING_VALIDATION", !.document = d]
             ELSE items[i]]
    /\ checklist' = "NEEDS_REVIEW"
    /\ updates' = Overtaken(items')
    /\ stale' = FALSE
    /\ UNCHANGED mixed

Next ==
    \/ Apply
    \/ \E q \in Requests :
        \/ \E i \in Items : \E s \in Asked[i] \cup {Keep}, who \in Reviewers,
              d \in Documents \cup {NoDocument, Keep} : ReadItem(q, i, who, s, d)
        \/ UpdateItem(q)
        \/ RefreshChecklistStatus(q)
        \/ CommitUpdate(q)
        \/ Abort(q)
    \/ \E S \in SUBSET Items, d \in Documents : Analyse(S, d)

Spec == Init /\ [][Next]_vars

-----------------------------------------------------------------------------
(* The documentation of checklists: COMPLETED only when every required item
   is VALIDATED or NOT_APPLICABLE. *)
CompletedIsReviewed == checklist = "COMPLETED" => PendingRequired(items) = {}

(* A checklist is completed only with all its required items reviewed, unless
   two people changed items at once and the later count missed a change. *)
CompletedUnlessOvertaken == stale \/ CompletedIsReviewed

(* Status, document and reviewer of an item belong together, whoever of
   worker and people changed it last, unless somebody wrote over a change
   that was made after they had read the item. *)
ReviewIsWhole ==
    \A i \in Items \ mixed :
        /\ items[i].status \in documentRequiredStatuses <=> items[i].document # NoDocument
        /\ items[i].status \in humanReviewedStatuses <=> items[i].validatedBy # NoReviewer

(* Checklist and items agree, each within itself and with the other. *)
ChecklistHolds == CompletedUnlessOvertaken /\ ReviewIsWhole
=============================================================================
