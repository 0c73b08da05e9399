--------------------------- MODULE DocumentsProofs ---------------------------
(***************************************************************************)
(* What is proved of the parts of Documents.  A step of Documents is a     *)
(* step of one part, or leaves that part's variables alone, so each        *)
(* property is proved as an invariant of its part, under the prefix of its *)
(* instance.                                                               *)
(***************************************************************************)
EXTENDS Documents, FiniteSetTheorems, WellFoundedInduction, TLAPS

-----------------------------------------------------------------------------
(* LegalHold *)

(* What a request is removing, or whom it adds to which case. *)
RequestsKnow ==
    \A q \in Requests :
        /\ removals[q].step = "asked" => removals[q].thing \in H!Things
        /\ removals[q].step = "counted" => removals[q].thing \in CaseDocuments \cup Persons
        /\ removals[q].step = "joining" => removals[q].thing \in Persons /\ removals[q].joins \in Cases
(* A request that found no hold and whose thing is held by now is excused: the
   hold came after it looked. *)
LookedBefore ==
    \A q \in Requests :
        removals[q].step = "counted" /\ H!Held(removals[q].thing) => q \in excused

(* The invariant of LegalHold. *)
HoldInv == H!TypeOK /\ RequestsKnow /\ LookedBefore /\ H!OnlyOvertakenRemovals

LEMMA HoldBegins == H!Init => HoldInv
BY HoldAssumed DEF H!HoldAssumption, H!Init, H!Idle, HoldInv, H!TypeOK, H!Removal, RequestsKnow,
   LookedBefore, H!OnlyOvertakenRemovals, H!Things

(* A request goes on, and neither holds nor participants change. *)
LEMMA OneRemoval ==
    ASSUME HoldInv, NEW q \in Requests, NEW r \in H!Removal,
           H!Becomes(q, r), UNCHANGED <<holds, parties>>,
           r.step = "asked" => r.thing \in H!Things,
           r.step = "counted" => r.thing \in CaseDocuments \cup Persons /\ ~H!Held(r.thing),
           r.step = "joining" => r.thing \in Persons /\ r.joins \in Cases,
           excused' \in {excused, excused \ {q}}
    PROVE  /\ removals' \in [Requests -> H!Removal] /\ excused' \subseteq Requests
           /\ RequestsKnow' /\ LookedBefore'
<1>1. removals' = [removals EXCEPT ![q] = r] /\ removals \in [Requests -> H!Removal]
  BY DEF H!Becomes, HoldInv, H!TypeOK
<1>2. /\ removals' \in [Requests -> H!Removal] /\ excused' \subseteq Requests
      /\ removals'[q] = r
      /\ \A p \in Requests \ {q} : removals'[p] = removals[p] /\ (p \in excused => p \in excused')
  BY <1>1 DEF HoldInv, H!TypeOK
<1>3. RequestsKnow'
  BY <1>2 DEF HoldInv, RequestsKnow, H!Things
<1>4. \A x : H!Held(x)' = H!Held(x)
  BY DEF H!Held, H!CasesOf
<1>5. LookedBefore'
  BY <1>2, <1>4 DEF HoldInv, LookedBefore
<1> QED
  BY <1>2, <1>3, <1>5

LEMMA IdleIsRemoval ==
    /\ H!Idle \in H!Removal
    /\ H!Idle.step = "idle"
BY DEF H!Idle, H!Removal

LEMMA SetLegalHoldKeeps == ASSUME HoldInv, NEW c \in Cases, H!SetLegalHold(c) PROVE HoldInv'
<1>1. H!TypeOK'
  BY HoldAssumed DEF H!HoldAssumption, HoldInv, H!TypeOK, H!SetLegalHold, H!Counted, H!Things
<1>2. RequestsKnow'
  BY DEF HoldInv, RequestsKnow, H!SetLegalHold
<1>3. LookedBefore'
  <2> SUFFICES ASSUME NEW q \in Requests, removals[q].step = "counted", H!Held(removals[q].thing)'
               PROVE  q \in excused'
    BY DEF LookedBefore, H!SetLegalHold
  <2>1. removals[q].thing \in H!Things
    BY DEF HoldInv, RequestsKnow, H!Things
  <2>2. H!Held(removals[q].thing) \/ c \in H!CasesOf(removals[q].thing)
    BY DEF H!SetLegalHold, H!Held, H!CasesOf
  <2> QED
    BY <2>1, <2>2 DEF H!SetLegalHold, H!Counted, HoldInv, LookedBefore
<1>4. H!OnlyOvertakenRemovals'
  BY DEF HoldInv, H!OnlyOvertakenRemovals, H!SetLegalHold
<1> QED
  BY <1>1, <1>2, <1>3, <1>4 DEF HoldInv

LEMMA ReleaseLegalHoldKeeps == ASSUME HoldInv, NEW c \in Cases, H!ReleaseLegalHold(c) PROVE HoldInv'
<1>1. H!TypeOK'
  BY DEF HoldInv, H!TypeOK, H!ReleaseLegalHold
<1>2. RequestsKnow' /\ H!OnlyOvertakenRemovals'
  BY DEF HoldInv, RequestsKnow, H!OnlyOvertakenRemovals, H!ReleaseLegalHold
<1>3. \A x : H!Held(x)' => H!Held(x)
  BY DEF H!Held, H!CasesOf, H!ReleaseLegalHold
<1>4. LookedBefore'
  BY <1>3 DEF HoldInv, LookedBefore, H!ReleaseLegalHold
<1> QED
  BY <1>1, <1>2, <1>4 DEF HoldInv

LEMMA AskRemovalKeeps ==
    ASSUME HoldInv, NEW q \in Requests, NEW x \in H!Things, H!AskRemoval(q, x) PROVE HoldInv'
<1> DEFINE r == [H!Idle EXCEPT !.step = "asked", !.thing = x]
<1>1. r \in H!Removal /\ r.step = "asked" /\ r.thing = x
  BY DEF H!Idle, H!Removal
<1>2. H!Becomes(q, r) /\ UNCHANGED <<holds, removed, parties, excused, taken>>
  BY DEF H!AskRemoval
<1> HIDE DEF r
<1>3. /\ removals' \in [Requests -> H!Removal] /\ excused' \subseteq Requests
      /\ RequestsKnow' /\ LookedBefore'
  BY <1>1, <1>2, OneRemoval
<1> QED
  BY <1>2, <1>3 DEF HoldInv, H!TypeOK, H!OnlyOvertakenRemovals

LEMMA RemoveCaseKeeps ==
    ASSUME HoldInv, NEW q \in Requests, H!RemoveCase(q) PROVE HoldInv'
<1>1. H!Becomes(q, H!Idle) /\ UNCHANGED <<holds, parties, excused, taken>>
  BY DEF H!RemoveCase
<1>2. /\ removals' \in [Requests -> H!Removal] /\ excused' \subseteq Requests
      /\ RequestsKnow' /\ LookedBefore'
  BY <1>1, OneRemoval, IdleIsRemoval
<1>3. removed' \subseteq H!Things /\ holds \cap removed' = {}
  BY DEF H!RemoveCase, HoldInv, H!TypeOK, H!Things
<1> QED
  BY <1>1, <1>2, <1>3 DEF HoldInv, H!TypeOK, H!OnlyOvertakenRemovals

LEMMA CountHeldKeeps ==
    ASSUME HoldInv, NEW q \in Requests, H!CountHeld(q) PROVE HoldInv'
<1> DEFINE r == IF H!InHeldCase(removals[q].thing) THEN H!Idle
                ELSE [removals[q] EXCEPT !.step = "counted"]
<1>1. H!Becomes(q, r) /\ UNCHANGED <<holds, removed, parties, excused, taken>>
  BY DEF H!CountHeld
<1>2. removals[q] \in H!Removal /\ removals[q].thing \in CaseDocuments \cup Persons
  BY DEF H!CountHeld, HoldInv, H!TypeOK, RequestsKnow, H!Things
<1>3. /\ r \in H!Removal /\ r.step \in {"idle", "counted"}
      /\ r.step = "counted" => r.thing \in CaseDocuments \cup Persons /\ ~H!Held(r.thing)
  BY <1>2, IdleIsRemoval DEF H!Removal, H!InHeldCase
<1> HIDE DEF r
<1>4. /\ removals' \in [Requests -> H!Removal] /\ excused' \subseteq Requests
      /\ RequestsKnow' /\ LookedBefore'
  BY <1>1, <1>3, OneRemoval
<1> QED
  BY <1>1, <1>4 DEF HoldInv, H!TypeOK, H!OnlyOvertakenRemovals

(* Where a hold is, the request is excused; so what is taken there is noted so. *)
LEMMA RemoveKeeps ==
    ASSUME HoldInv, NEW q \in Requests, H!Remove(q) PROVE HoldInv'
<1> DEFINE x == removals[q].thing
<1>1. H!Becomes(q, H!Idle) /\ UNCHANGED <<holds, parties>> /\ excused' = excused \ {q}
  BY DEF H!Remove
<1>2. /\ removals' \in [Requests -> H!Removal] /\ excused' \subseteq Requests
      /\ RequestsKnow' /\ LookedBefore'
  BY <1>1, OneRemoval, IdleIsRemoval
<1>3. x \in CaseDocuments \cup Persons /\ (H!Held(x) => q \in excused)
  BY DEF H!Remove, HoldInv, RequestsKnow, LookedBefore
<1>4. removed' \subseteq H!Things /\ holds \cap removed' = {}
  BY <1>3, HoldAssumed DEF H!HoldAssumption, H!Remove, HoldInv, H!TypeOK, H!Things
<1>5. taken' \subseteq H!Things \X BOOLEAN /\ H!OnlyOvertakenRemovals'
  <2>1. CASE x \notin removed /\ H!Held(x)
    <3>1. taken' = taken \cup {<<x, TRUE>>}
      BY <1>3, <2>1 DEF H!Remove
    <3>2. <<x, TRUE>> \in H!Things \X BOOLEAN /\ <<x, TRUE>>[2]
      BY <1>3 DEF H!Things
    <3> HIDE DEF x
    <3> QED
      BY <3>1, <3>2 DEF HoldInv, H!TypeOK, H!OnlyOvertakenRemovals
  <2>2. CASE ~(x \notin removed /\ H!Held(x))
    BY <2>2 DEF H!Remove, HoldInv, H!TypeOK, H!OnlyOvertakenRemovals
  <2> QED
    BY <2>1, <2>2
<1> QED
  BY <1>1, <1>2, <1>4, <1>5 DEF HoldInv, H!TypeOK

LEMMA AskParticipationKeeps ==
    ASSUME HoldInv, NEW q \in Requests, NEW p \in Persons, NEW c \in Cases,
           H!AskParticipation(q, p, c)
    PROVE  HoldInv'
<1> DEFINE r == [step |-> "joining", thing |-> p, joins |-> c]
<1>1. r \in H!Removal /\ r.step = "joining" /\ r.thing = p /\ r.joins = c
  BY DEF H!Removal, H!Things
<1>2. H!Becomes(q, r) /\ UNCHANGED <<holds, removed, parties, excused, taken>>
  BY DEF H!AskParticipation
<1> HIDE DEF r
<1>3. /\ removals' \in [Requests -> H!Removal] /\ excused' \subseteq Requests
      /\ RequestsKnow' /\ LookedBefore'
  BY <1>1, <1>2, OneRemoval
<1> QED
  BY <1>2, <1>3 DEF HoldInv, H!TypeOK, H!OnlyOvertakenRemovals

(* A person who joins a held case comes under its hold: who had counted that
   person is excused. *)
LEMMA CreateParticipantKeeps ==
    ASSUME HoldInv, NEW q \in Requests, H!CreateParticipant(q) PROVE HoldInv'
<1> DEFINE who == removals[q].thing
           into == removals[q].joins
<1>1. who \in Persons /\ into \in Cases
  BY DEF H!CreateParticipant, HoldInv, RequestsKnow
<1>2. /\ removals \in [Requests -> H!Removal] /\ removals' = [removals EXCEPT ![q] = H!Idle]
      /\ UNCHANGED <<holds, removed, taken>>
      /\ parties' = parties \cup {<<who, into>>}
      /\ excused' = IF into \in holds THEN excused \cup H!Counted({who}) ELSE excused
  BY DEF H!CreateParticipant, H!Becomes, HoldInv, H!TypeOK
<1>3. /\ removals' \in [Requests -> H!Removal] /\ removals'[q].step = "idle"
      /\ \A p \in Requests \ {q} : removals'[p] = removals[p]
      /\ excused \subseteq excused' /\ excused' \subseteq Requests
  BY <1>2, IdleIsRemoval DEF HoldInv, H!TypeOK, H!Counted
<1>4. H!TypeOK' /\ H!OnlyOvertakenRemovals'
  BY <1>1, <1>2, <1>3 DEF HoldInv, H!TypeOK, H!OnlyOvertakenRemovals
<1>5. RequestsKnow'
  BY <1>3 DEF HoldInv, RequestsKnow
<1>6. \A x : H!Held(x)' => H!Held(x) \/ (x = who /\ into \in holds)
  BY <1>2 DEF H!Held, H!CasesOf
<1>7. LookedBefore'
  BY <1>2, <1>3, <1>6 DEF HoldInv, LookedBefore, H!Counted
<1> QED
  BY <1>4, <1>5, <1>7 DEF HoldInv

LEMMA AbortKeeps == ASSUME HoldInv, NEW q \in Requests, H!Abort(q) PROVE HoldInv'
<1>1. H!Becomes(q, H!Idle) /\ UNCHANGED <<holds, removed, parties, taken>> /\ excused' = excused \ {q}
  BY DEF H!Abort
<1>2. /\ removals' \in [Requests -> H!Removal] /\ excused' \subseteq Requests
      /\ RequestsKnow' /\ LookedBefore'
  BY <1>1, OneRemoval, IdleIsRemoval
<1> QED
  BY <1>1, <1>2 DEF HoldInv, H!TypeOK, H!OnlyOvertakenRemovals

LEMMA HoldStep == ASSUME HoldInv, [H!Next]_(H!vars) PROVE HoldInv'
<1>1. CASE H!Next
  BY <1>1, SetLegalHoldKeeps, ReleaseLegalHoldKeeps, AskRemovalKeeps, AskParticipationKeeps,
     RemoveCaseKeeps, CountHeldKeeps, RemoveKeeps, CreateParticipantKeeps, AbortKeeps DEF H!Next
<1>2. CASE UNCHANGED H!vars
  BY <1>2 DEF H!vars, HoldInv, H!TypeOK, RequestsKnow, LookedBefore, H!Held, H!CasesOf,
     H!OnlyOvertakenRemovals
<1> QED
  BY <1>1, <1>2

(* A hold stops every removal from a case, but those that had looked for one
   before it came: assertNotUnderLegalHold and the query of softDelete. *)
THEOREM HoldsStopRemovals == DocumentsSpec => []OnlyOvertakenRemovals
<1>1. DocumentsInit => HoldInv
  BY HoldBegins DEF DocumentsInit
<1>2. HoldInv /\ [DocumentsNext]_documentsVars => HoldInv'
  <2>1. [DocumentsNext]_documentsVars => [H!Next]_(H!vars)
    BY DEF DocumentsNext, documentsVars, holdVars, H!vars
  <2> QED
    BY <2>1, HoldStep
<1>3. HoldInv => OnlyOvertakenRemovals
  BY DEF HoldInv, OnlyOvertakenRemovals
<1> QED
  BY <1>1, <1>2, <1>3, PTL DEF DocumentsSpec
-----------------------------------------------------------------------------
(* StageResults *)

(* A row of runs. *)
Run == [stage : S!StageNames \cup {"none", "done", "failed"},
        claimed : BOOLEAN, source : Runs \cup {NoRun}]
(* The claim of the run that read the latest text works on that text. *)
ClaimReadsLatest ==
    S!Latest # NoRun /\ runs[S!Latest].claimed => runs[S!Latest].source = S!Latest
(* Unless two requests raced, one run is on its way at a time, or is about to be, *)
OneAtATime ==
    /\ (S!Waiting = Runs => approved = 0)
    /\ ~raced => /\ approved \in {0, 1}
                 /\ (approved = 1 => S!Active = {})
                 /\ \A p, r \in S!Active : p = r
(* and once it has read its text, that is the latest. *)
OwnReading ==
    ~raced => \A r \in S!Active : runs[r].stage \notin {"FILE_VALIDATION", "OCR"} => S!Latest = r
(* The stages before facts of a kind are there. *)
Before(kind) == {"none", "FILE_VALIDATION", "OCR", "DOCUMENT_CLASSIFICATION", "ENTITY_EXTRACTION"}
                    \cup (IF kind = "event" THEN {"TIMELINE_GENERATION"} ELSE {})
FactsFollow ==
    \A r \in Runs, kind \in S!Kinds :
        runs[r].stage \in Before(kind) => facts[<<r, kind>>] = "none"

(* The invariant of StageResults. *)
StageInv ==
    /\ S!TypeOK
    /\ ClaimReadsLatest /\ S!Findable
    /\ OneAtATime /\ OwnReading /\ S!OneTextPerRun
    /\ S!ClassifiedByPerson /\ FactsFollow

LEMMA SevenStages ==
    S!StageNames = {"FILE_VALIDATION", "OCR", "DOCUMENT_CLASSIFICATION", "ENTITY_EXTRACTION",
                    "TIMELINE_GENERATION", "CHECKLIST_ANALYSIS", "EMBEDDING"}
<1>1. 1 .. 7 = {1, 2, 3, 4, 5, 6, 7}
  OBVIOUS
<1> QED
  BY <1>1 DEF S!StageNames, S!Stages

LEMMA StagesInOrder ==
    /\ S!StageAfter("FILE_VALIDATION") = "OCR"
    /\ S!StageAfter("OCR") = "DOCUMENT_CLASSIFICATION"
    /\ S!StageAfter("DOCUMENT_CLASSIFICATION") = "ENTITY_EXTRACTION"
    /\ S!StageAfter("ENTITY_EXTRACTION") = "TIMELINE_GENERATION"
    /\ S!StageAfter("TIMELINE_GENERATION") = "CHECKLIST_ANALYSIS"
    /\ S!StageAfter("CHECKLIST_ANALYSIS") = "EMBEDDING"
    /\ S!StageAfter("EMBEDDING") = "done"
<1>1. /\ S!Stages[1] = "FILE_VALIDATION" /\ S!Stages[2] = "OCR"
      /\ S!Stages[3] = "DOCUMENT_CLASSIFICATION" /\ S!Stages[4] = "ENTITY_EXTRACTION"
      /\ S!Stages[5] = "TIMELINE_GENERATION" /\ S!Stages[6] = "CHECKLIST_ANALYSIS"
      /\ S!Stages[7] = "EMBEDDING"
  BY DEF S!Stages
<1>2. \A n \in 1 .. 6 : n \in {1, 2, 3, 4, 5, 6}
  OBVIOUS
<1>3. ASSUME NEW s, NEW n \in 1 .. 6, S!Stages[n] = s, s # "EMBEDDING",
             \A m \in 1 .. 6 : S!Stages[m] = s => m = n
      PROVE  S!StageAfter(s) = S!Stages[n + 1]
  <2>1. (CHOOSE i \in 1 .. 6 : S!Stages[i] = s) = n
    BY <1>3
  <2> QED
    BY <1>3, <2>1 DEF S!StageAfter
<1>4. /\ 1 \in 1 .. 6 /\ 2 \in 1 .. 6 /\ 3 \in 1 .. 6 /\ 4 \in 1 .. 6 /\ 5 \in 1 .. 6 /\ 6 \in 1 .. 6
      /\ 1 + 1 = 2 /\ 2 + 1 = 3 /\ 3 + 1 = 4 /\ 4 + 1 = 5 /\ 5 + 1 = 6 /\ 6 + 1 = 7
  OBVIOUS
<1>5. S!StageAfter("FILE_VALIDATION") = S!Stages[2]
  BY <1>1, <1>2, <1>3, <1>4
<1>6. S!StageAfter("OCR") = S!Stages[3]
  BY <1>1, <1>2, <1>3, <1>4
<1>7. S!StageAfter("DOCUMENT_CLASSIFICATION") = S!Stages[4]
  BY <1>1, <1>2, <1>3, <1>4
<1>8. S!StageAfter("ENTITY_EXTRACTION") = S!Stages[5]
  BY <1>1, <1>2, <1>3, <1>4
<1>9. S!StageAfter("TIMELINE_GENERATION") = S!Stages[6]
  BY <1>1, <1>2, <1>3, <1>4
<1>10. S!StageAfter("CHECKLIST_ANALYSIS") = S!Stages[7]
  BY <1>1, <1>2, <1>3, <1>4
<1>11. S!StageAfter("EMBEDDING") = "done"
  BY DEF S!StageAfter
<1> QED
  BY <1>1, <1>5, <1>6, <1>7, <1>8, <1>9, <1>10, <1>11

LEMMA CountsOfRuns == \A T : S!Cardinality(T) = Cardinality(T)
BY DEF S!Cardinality, Cardinality

LEMMA StagesBegin == S!Init => StageInv
<1> SUFFICES ASSUME S!Init PROVE StageInv
  OBVIOUS
<1>1. S!Latest = NoRun /\ S!Active = {}
  BY SevenStages DEF S!Init, S!Latest, S!Active
<1>2. 0 \in 0 .. S!Cardinality(Runs)
  <2>1. S!IsFiniteSet(Runs)
    BY StageAssumed DEF S!StageAssumption
  <2>2. IsFiniteSet(Runs)
    BY <2>1 DEF IsFiniteSet, S!IsFiniteSet
  <2> QED
    BY <2>2, FS_CardinalityType, CountsOfRuns
<1>3. S!TypeOK
  <2>1. texts = <<>> /\ texts \in Seq(Runs)
    <3>1. texts = <<>>
      BY DEF S!Init
    <3> QED
      BY <3>1
  <2> QED
    BY <1>2, <2>1 DEF S!Init, S!TypeOK
<1>4. ClaimReadsLatest /\ S!Findable
  BY <1>1 DEF ClaimReadsLatest, S!Findable
<1>5. OneAtATime /\ OwnReading
  BY <1>1 DEF S!Init, OneAtATime, OwnReading
<1>6. S!OneTextPerRun /\ S!ClassifiedByPerson
  BY DEF S!Init, S!OneTextPerRun, S!ClassifiedByPerson
<1>7. FactsFollow
  BY DEF S!Init, FactsFollow
<1> QED
  BY <1>3, <1>4, <1>5, <1>6, <1>7 DEF StageInv

LEMMA LatestIsRun == ASSUME S!TypeOK PROVE S!Latest \in Runs \cup {NoRun}
BY DEF S!TypeOK, S!Latest

LEMMA RunsTypedOf == ASSUME S!TypeOK PROVE runs \in [Runs -> Run] /\ texts \in Seq(Runs)
BY DEF S!TypeOK, Run

(* The transaction of complete: the run is at its next stage, unclaimed. *)
LEMMA CompletedRun ==
    ASSUME S!TypeOK, NEW r \in Runs, NEW s \in S!StageNames, S!Completes(r, s)
    PROVE  /\ runs' \in [Runs -> Run]
           /\ runs[r].stage = s /\ runs[r].claimed /\ r \in S!Active
           /\ runs'[r] = [stage |-> S!StageAfter(s), claimed |-> FALSE, source |-> NoRun]
           /\ \A p \in Runs \ {r} : runs'[p] = runs[p]
           /\ UNCHANGED <<approved, raced, reading>>
<1> DEFINE next == [stage |-> S!StageAfter(s), claimed |-> FALSE, source |-> NoRun]
<1>1. S!StageAfter(s) \in S!StageNames \cup {"none", "done", "failed"}
  BY SevenStages, StagesInOrder
<1>2. next \in Run
  BY <1>1 DEF Run
<1>3. runs' = [runs EXCEPT ![r] = next] /\ runs[r].stage = s /\ runs[r].claimed
      /\ UNCHANGED <<approved, raced, reading>>
  BY DEF S!Completes
<1> HIDE DEF next
<1>4. runs' \in [Runs -> Run] /\ runs'[r] = next /\ \A p \in Runs \ {r} : runs'[p] = runs[p]
  BY <1>2, <1>3, RunsTypedOf
<1> QED
  BY <1>3, <1>4 DEF S!Active, next

(* What holds of the order of runs and texts goes on to hold when a stage that
   neither reads the text nor writes what the part is about completes. *)
LEMMA CompletedOrder ==
    ASSUME StageInv, NEW r \in Runs, NEW s \in S!StageNames, S!Completes(r, s)
    PROVE  /\ OneAtATime'
           /\ UNCHANGED texts /\ s # "OCR" => ClaimReadsLatest' /\ OwnReading'
           /\ UNCHANGED texts /\ s \notin {"OCR", "EMBEDDING"} /\ indexed \subseteq indexed' => S!Findable'
           /\ UNCHANGED facts /\ s \notin {"ENTITY_EXTRACTION", "TIMELINE_GENERATION"} => FactsFollow'
<1>1. /\ runs[r].stage = s /\ runs[r].claimed /\ r \in S!Active
      /\ runs'[r] = [stage |-> S!StageAfter(s), claimed |-> FALSE, source |-> NoRun]
      /\ \A p \in Runs \ {r} : runs'[p] = runs[p]
      /\ UNCHANGED <<approved, raced, reading>>
  BY CompletedRun DEF StageInv
<1>2. runs'[r].stage = S!StageAfter(s) /\ runs'[r].claimed = FALSE
  BY <1>1
<1>3. S!StageAfter(s) # "none" /\ S!Active' \subseteq S!Active
  BY <1>1, <1>2, SevenStages, StagesInOrder DEF S!Active
<1>4. S!Waiting' = S!Waiting
  BY <1>1, <1>2, <1>3, SevenStages DEF S!Waiting
<1>5. OneAtATime'
  BY <1>1, <1>3, <1>4 DEF StageInv, OneAtATime
<1>6. UNCHANGED texts => S!Latest' = S!Latest /\ S!Latest \in Runs \cup {NoRun}
  BY LatestIsRun DEF StageInv, S!Latest
<1>7. UNCHANGED texts => ClaimReadsLatest'
  <2>1. CASE S!Latest = r
    BY <1>2, <1>6, <2>1 DEF ClaimReadsLatest
  <2>2. CASE S!Latest # r
    BY <1>1, <1>6, <2>2 DEF StageInv, ClaimReadsLatest
  <2> QED
    BY <2>1, <2>2
<1>8. UNCHANGED texts /\ s # "OCR" => OwnReading'
  <2>1. s = "FILE_VALIDATION" => runs'[r].stage = "OCR"
    BY <1>2, StagesInOrder
  <2>2. s # "OCR" /\ runs'[r].stage \notin {"FILE_VALIDATION", "OCR"}
        => runs[r].stage \notin {"FILE_VALIDATION", "OCR"}
    BY <1>1, <2>1
  <2>3. \A p \in S!Active' : /\ p \in S!Active
                             /\ s # "OCR" /\ runs'[p].stage \notin {"FILE_VALIDATION", "OCR"}
                                => runs[p].stage \notin {"FILE_VALIDATION", "OCR"}
    BY <1>1, <1>3, <2>2 DEF S!Active
  <2> QED
    BY <1>1, <1>6, <2>3 DEF StageInv, OwnReading
<1>9. UNCHANGED texts /\ s \notin {"OCR", "EMBEDDING"} /\ indexed \subseteq indexed' => S!Findable'
  <2>1. s # "EMBEDDING" => runs'[r].stage # "done"
    BY <1>2, SevenStages, StagesInOrder
  <2> QED
    BY <1>1, <1>6, <2>1 DEF StageInv, S!Findable
<1>10. UNCHANGED facts /\ s \notin {"ENTITY_EXTRACTION", "TIMELINE_GENERATION"} => FactsFollow'
  <2>1. \A kind \in S!Kinds :
            s \notin {"ENTITY_EXTRACTION", "TIMELINE_GENERATION"} /\ runs'[r].stage \in Before(kind)
            => runs[r].stage \in Before(kind)
    BY <1>1, <1>2, SevenStages, StagesInOrder DEF Before
  <2> QED
    BY <1>1, <2>1 DEF StageInv, FactsFollow
<1> QED
  BY <1>5, <1>7, <1>8, <1>9, <1>10

(* What a run records is made of its own text, unless two requests raced. *)
LEMMA MadeOfOwnText ==
    ASSUME StageInv, NEW r \in Runs, r \in S!Active, runs[r].claimed,
           runs[r].stage \notin {"FILE_VALIDATION", "OCR"}, S!MadeFrom(r), UNCHANGED raced
    PROVE  used' \in [Runs -> SUBSET Runs] /\ S!OneTextPerRun'
<1>1. used \in [Runs -> SUBSET Runs] /\ runs[r].source \in Runs \cup {NoRun}
  BY RunsTypedOf DEF StageInv, S!TypeOK, Run
<1>2. used' \in [Runs -> SUBSET Runs]
  BY <1>1 DEF S!MadeFrom
<1>3. ~raced => runs[r].source = r
  BY StageAssumed DEF StageInv, OwnReading, ClaimReadsLatest, S!StageAssumption
<1>4. S!OneTextPerRun'
  BY <1>1, <1>3 DEF StageInv, S!OneTextPerRun, S!MadeFrom
<1> QED
  BY <1>2, <1>4

LEMMA ValidateFileKeeps == ASSUME StageInv, NEW r \in Runs, S!ValidateFile(r) PROVE StageInv'
<1>1. "FILE_VALIDATION" \in S!StageNames /\ S!Completes(r, "FILE_VALIDATION")
  BY SevenStages DEF S!ValidateFile
<1>2. /\ runs' \in [Runs -> Run] /\ UNCHANGED <<approved, raced, reading>>
      /\ UNCHANGED <<texts, used, indexed, document, facts>>
  BY <1>1, CompletedRun DEF StageInv, S!ValidateFile
<1>3. S!TypeOK'
  BY <1>2 DEF StageInv, S!TypeOK, Run
<1>4. OneAtATime' /\ ClaimReadsLatest' /\ OwnReading' /\ S!Findable' /\ FactsFollow'
  BY <1>1, <1>2, CompletedOrder
<1> QED
  BY <1>2, <1>3, <1>4 DEF StageInv, S!OneTextPerRun, S!ClassifiedByPerson

(* The text just read is the latest one, and its run the only one. *)
LEMMA ReadTextKeeps == ASSUME StageInv, NEW r \in Runs, S!ReadText(r) PROVE StageInv'
<1>1. "OCR" \in S!StageNames /\ S!Completes(r, "OCR")
  BY SevenStages DEF S!ReadText
<1>2. /\ runs' \in [Runs -> Run] /\ UNCHANGED <<approved, raced, reading>>
      /\ UNCHANGED <<used, indexed, document, facts>> /\ r \in S!Active
      /\ runs'[r] = [stage |-> "DOCUMENT_CLASSIFICATION", claimed |-> FALSE, source |-> NoRun]
      /\ \A p \in Runs \ {r} : runs'[p] = runs[p]
  BY <1>1, CompletedRun, StagesInOrder DEF StageInv, S!ReadText
<1>3. texts \in Seq(Runs) /\ texts' = Append(texts, r)
  BY DEF StageInv, S!TypeOK, S!ReadText
<1>4. texts' \in Seq(Runs) /\ S!Latest' = r
  BY <1>3 DEF S!Latest
<1>5. S!TypeOK'
  BY <1>2, <1>4 DEF StageInv, S!TypeOK, Run
<1>6. OneAtATime' /\ FactsFollow'
  BY <1>1, <1>2, CompletedOrder
<1>7. ClaimReadsLatest' /\ S!Findable'
  BY <1>2, <1>4 DEF ClaimReadsLatest, S!Findable
<1>8. OwnReading'
  <2>1. S!Active' \subseteq S!Active
    BY <1>2 DEF S!Active
  <2> QED
    BY <1>2, <1>4, <2>1 DEF StageInv, OneAtATime, OwnReading
<1> QED
  BY <1>2, <1>5, <1>6, <1>7, <1>8 DEF StageInv, S!OneTextPerRun, S!ClassifiedByPerson

LEMMA ClassifyDocumentKeeps == ASSUME StageInv, NEW r \in Runs, S!ClassifyDocument(r) PROVE StageInv'
<1>1. "DOCUMENT_CLASSIFICATION" \in S!StageNames /\ S!Completes(r, "DOCUMENT_CLASSIFICATION")
  BY SevenStages DEF S!ClassifyDocument
<1>2. /\ runs' \in [Runs -> Run] /\ UNCHANGED <<approved, raced, reading>>
      /\ UNCHANGED <<texts, indexed, facts>> /\ r \in S!Active
      /\ runs[r].stage = "DOCUMENT_CLASSIFICATION" /\ runs[r].claimed
  BY <1>1, CompletedRun DEF StageInv, S!ClassifyDocument
<1>3. used' \in [Runs -> SUBSET Runs] /\ S!OneTextPerRun'
  BY <1>2, MadeOfOwnText DEF S!ClassifyDocument
<1>4. /\ document' \in [type : {"none", "machine", "person"}, by : People \cup {Nobody},
                        status : {"PENDING", "CLASSIFIED", "NEEDS_REVIEW"}]
      /\ S!ClassifiedByPerson'
  BY DEF S!ClassifyDocument, S!Reclassified, StageInv, S!TypeOK, S!ClassifiedByPerson
<1>5. S!TypeOK'
  BY <1>2, <1>3, <1>4 DEF StageInv, S!TypeOK, Run
<1>6. OneAtATime' /\ ClaimReadsLatest' /\ OwnReading' /\ S!Findable' /\ FactsFollow'
  BY <1>1, <1>2, CompletedOrder
<1> QED
  BY <1>3, <1>4, <1>5, <1>6 DEF StageInv

(* Facts of a kind appear when their stage completes. *)
LEMMA FactsAppear ==
    ASSUME StageInv, NEW r \in Runs, NEW kind \in S!Kinds,
           facts' = [facts EXCEPT ![<<r, kind>>] = Nobody],
           runs' \in [Runs -> Run], runs'[r].stage \notin Before(kind),
           \A k \in S!Kinds : k # kind /\ runs'[r].stage \in Before(k) => runs[r].stage \in Before(k),
           \A p \in Runs \ {r} : runs'[p] = runs[p]
    PROVE  facts' \in [Runs \X S!Kinds -> People \cup {Nobody, "none"}] /\ FactsFollow'
<1>1. facts \in [Runs \X S!Kinds -> People \cup {Nobody, "none"}] /\ <<r, kind>> \in Runs \X S!Kinds
  BY DEF StageInv, S!TypeOK
<1>2. /\ facts' \in [Runs \X S!Kinds -> People \cup {Nobody, "none"}]
      /\ \A p \in Runs, k \in S!Kinds : p # r \/ k # kind => facts'[<<p, k>>] = facts[<<p, k>>]
  BY <1>1
<1> QED
  BY <1>2 DEF StageInv, FactsFollow

LEMMA ExtractEntitiesKeeps == ASSUME StageInv, NEW r \in Runs, S!ExtractEntities(r) PROVE StageInv'
<1>1. "ENTITY_EXTRACTION" \in S!StageNames /\ S!Completes(r, "ENTITY_EXTRACTION")
  BY SevenStages DEF S!ExtractEntities
<1>2. /\ runs' \in [Runs -> Run] /\ UNCHANGED <<approved, raced, reading>>
      /\ UNCHANGED <<texts, indexed, document>> /\ r \in S!Active
      /\ runs[r].stage = "ENTITY_EXTRACTION" /\ runs[r].claimed
      /\ runs'[r] = [stage |-> "TIMELINE_GENERATION", claimed |-> FALSE, source |-> NoRun]
      /\ \A p \in Runs \ {r} : runs'[p] = runs[p]
  BY <1>1, CompletedRun, StagesInOrder DEF StageInv, S!ExtractEntities
<1>3. used' \in [Runs -> SUBSET Runs] /\ S!OneTextPerRun'
  BY <1>2, MadeOfOwnText DEF S!ExtractEntities
<1>4. facts' \in [Runs \X S!Kinds -> People \cup {Nobody, "none"}] /\ FactsFollow'
  <2>1. facts' = [facts EXCEPT ![<<r, "entity">>] = Nobody] /\ "entity" \in S!Kinds
    BY DEF S!ExtractEntities, S!Kinds
  <2>2. /\ runs'[r].stage \notin Before("entity")
        /\ \A k \in S!Kinds : k # "entity" /\ runs'[r].stage \in Before(k) => runs[r].stage \in Before(k)
    BY <1>2 DEF Before, S!Kinds
  <2> QED
    BY <1>2, <2>1, <2>2, FactsAppear
<1>5. S!TypeOK'
  BY <1>2, <1>3, <1>4 DEF StageInv, S!TypeOK, Run
<1>6. OneAtATime' /\ ClaimReadsLatest' /\ OwnReading' /\ S!Findable'
  BY <1>1, <1>2, CompletedOrder
<1> QED
  BY <1>2, <1>3, <1>4, <1>5, <1>6 DEF StageInv, S!ClassifiedByPerson

LEMMA GenerateTimelineKeeps == ASSUME StageInv, NEW r \in Runs, S!GenerateTimeline(r) PROVE StageInv'
<1>1. "TIMELINE_GENERATION" \in S!StageNames /\ S!Completes(r, "TIMELINE_GENERATION")
  BY SevenStages DEF S!GenerateTimeline
<1>2. /\ runs' \in [Runs -> Run] /\ UNCHANGED <<approved, raced, reading>>
      /\ UNCHANGED <<texts, indexed, document>> /\ r \in S!Active
      /\ runs[r].stage = "TIMELINE_GENERATION" /\ runs[r].claimed
      /\ runs'[r] = [stage |-> "CHECKLIST_ANALYSIS", claimed |-> FALSE, source |-> NoRun]
      /\ \A p \in Runs \ {r} : runs'[p] = runs[p]
  BY <1>1, CompletedRun, StagesInOrder DEF StageInv, S!GenerateTimeline
<1>3. used' \in [Runs -> SUBSET Runs] /\ S!OneTextPerRun'
  BY <1>2, MadeOfOwnText DEF S!GenerateTimeline
<1>4. facts' \in [Runs \X S!Kinds -> People \cup {Nobody, "none"}] /\ FactsFollow'
  <2>1. facts' = [facts EXCEPT ![<<r, "event">>] = Nobody] /\ "event" \in S!Kinds
    BY DEF S!GenerateTimeline, S!Kinds
  <2>2. /\ runs'[r].stage \notin Before("event")
        /\ \A k \in S!Kinds : k # "event" /\ runs'[r].stage \in Before(k) => runs[r].stage \in Before(k)
    BY <1>2 DEF Before, S!Kinds
  <2> QED
    BY <1>2, <2>1, <2>2, FactsAppear
<1>5. S!TypeOK'
  BY <1>2, <1>3, <1>4 DEF StageInv, S!TypeOK, Run
<1>6. OneAtATime' /\ ClaimReadsLatest' /\ OwnReading' /\ S!Findable'
  BY <1>1, <1>2, CompletedOrder
<1> QED
  BY <1>2, <1>3, <1>4, <1>5, <1>6 DEF StageInv, S!ClassifiedByPerson

LEMMA AnalyseChecklistKeeps == ASSUME StageInv, NEW r \in Runs, S!AnalyseChecklist(r) PROVE StageInv'
<1>1. "CHECKLIST_ANALYSIS" \in S!StageNames /\ S!Completes(r, "CHECKLIST_ANALYSIS")
  BY SevenStages DEF S!AnalyseChecklist
<1>2. /\ runs' \in [Runs -> Run] /\ UNCHANGED <<approved, raced, reading>>
      /\ UNCHANGED <<texts, indexed, document, facts>> /\ r \in S!Active
      /\ runs[r].stage = "CHECKLIST_ANALYSIS" /\ runs[r].claimed
  BY <1>1, CompletedRun DEF StageInv, S!AnalyseChecklist
<1>3. used' \in [Runs -> SUBSET Runs] /\ S!OneTextPerRun'
  BY <1>2, MadeOfOwnText DEF S!AnalyseChecklist
<1>4. S!TypeOK'
  BY <1>2, <1>3 DEF StageInv, S!TypeOK, Run
<1>5. OneAtATime' /\ ClaimReadsLatest' /\ OwnReading' /\ S!Findable' /\ FactsFollow'
  BY <1>1, <1>2, CompletedOrder
<1> QED
  BY <1>2, <1>3, <1>4, <1>5 DEF StageInv, S!ClassifiedByPerson

(* The last stage indexes the text its claim read: the latest, if the run read
   that one. *)
LEMMA EmbedKeeps == ASSUME StageInv, NEW r \in Runs, S!Embed(r) PROVE StageInv'
<1>1. "EMBEDDING" \in S!StageNames /\ S!Completes(r, "EMBEDDING")
  BY SevenStages DEF S!Embed
<1>2. /\ runs' \in [Runs -> Run] /\ UNCHANGED <<approved, raced, reading>>
      /\ UNCHANGED <<texts, document, facts>> /\ r \in S!Active
      /\ runs[r].stage = "EMBEDDING" /\ runs[r].claimed
      /\ \A p \in Runs \ {r} : runs'[p] = runs[p]
      /\ runs[r].source # NoRun /\ indexed' = indexed \cup {runs[r].source}
  BY <1>1, CompletedRun DEF StageInv, S!Embed
<1>3. used' \in [Runs -> SUBSET Runs] /\ S!OneTextPerRun'
  BY <1>2, MadeOfOwnText DEF S!Embed
<1>4. runs[r].source \in Runs
  BY <1>2, RunsTypedOf DEF StageInv, Run
<1>5. S!TypeOK'
  BY <1>2, <1>3, <1>4 DEF StageInv, S!TypeOK, Run
<1>6. OneAtATime' /\ ClaimReadsLatest' /\ OwnReading' /\ FactsFollow'
  BY <1>1, <1>2, CompletedOrder
<1>7. S!Findable'
  <2>1. S!Latest' = S!Latest /\ S!Latest \in Runs \cup {NoRun}
    BY <1>2, LatestIsRun DEF StageInv, S!Latest
  <2>2. S!Latest = r /\ r # NoRun => runs[r].source = r
    BY <1>2 DEF StageInv, ClaimReadsLatest
  <2> QED
    BY <1>2, <2>1, <2>2 DEF StageInv, S!Findable
<1> QED
  BY <1>2, <1>3, <1>5, <1>6, <1>7 DEF StageInv, S!ClassifiedByPerson

LEMMA RunCount ==
    /\ S!Cardinality(Runs) \in Nat
    /\ \A T : T \subseteq Runs => S!Cardinality(T) \in Nat /\ S!Cardinality(T) <= S!Cardinality(Runs)
<1>1. IsFiniteSet(Runs)
  <2>1. S!IsFiniteSet(Runs)
    BY StageAssumed DEF S!StageAssumption
  <2> QED
    BY <2>1 DEF IsFiniteSet, S!IsFiniteSet
<1>2. \A T : T \subseteq Runs => IsFiniteSet(T) /\ Cardinality(T) <= Cardinality(Runs)
  BY <1>1, FS_Subset
<1> QED
  BY <1>1, <1>2, FS_CardinalityType, CountsOfRuns

(* A run begins, is claimed or stops; of what was recorded nothing changes. *)
LEMMA OneRunMoves ==
    ASSUME StageInv, NEW r \in Runs, NEW next \in Run, runs' = [runs EXCEPT ![r] = next],
           UNCHANGED <<texts, used, indexed, document, facts, reading>>,
           r = S!Latest /\ next.claimed => next.source = r, next.stage # "done",
           \A k \in S!Kinds : next.stage \in Before(k) => runs[r].stage \in Before(k)
    PROVE  /\ runs' \in [Runs -> Run] /\ runs'[r] = next
           /\ \A p \in Runs \ {r} : runs'[p] = runs[p]
           /\ S!Latest' = S!Latest
           /\ ClaimReadsLatest' /\ S!Findable' /\ S!ClassifiedByPerson' /\ FactsFollow'
<1>1. /\ runs' \in [Runs -> Run] /\ runs'[r] = next
      /\ \A p \in Runs \ {r} : runs'[p] = runs[p]
  BY RunsTypedOf DEF StageInv
<1>2. S!Latest' = S!Latest /\ S!Latest \in Runs \cup {NoRun}
  BY LatestIsRun DEF StageInv, S!Latest
<1>3. ClaimReadsLatest'
  BY <1>1, <1>2 DEF StageInv, ClaimReadsLatest
<1>4. S!Findable'
  BY <1>1, <1>2 DEF StageInv, S!Findable
<1>5. S!ClassifiedByPerson' /\ FactsFollow'
  BY <1>1 DEF StageInv, S!ClassifiedByPerson, FactsFollow
<1> QED
  BY <1>1, <1>2, <1>3, <1>4, <1>5

LEMMA IntakeKeeps == ASSUME StageInv, NEW r \in Runs, S!Intake(r) PROVE StageInv'
<1> DEFINE next == [runs[r] EXCEPT !.stage = "FILE_VALIDATION"]
<1>1. runs[r] \in Run /\ runs[r].stage = "none" /\ S!Active = {}
  BY RunsTypedOf, SevenStages DEF StageInv, S!Intake, S!Waiting, S!Active
<1>2. /\ next \in Run /\ next.stage = "FILE_VALIDATION" /\ next.claimed = runs[r].claimed
      /\ next.source = runs[r].source
  BY <1>1, SevenStages DEF Run
<1>3. runs' = [runs EXCEPT ![r] = next] /\ S!Waiting = Runs
      /\ UNCHANGED <<approved, raced, texts, used, indexed, document, facts, reading>>
  BY DEF S!Intake
<1>4. r = S!Latest /\ next.claimed => next.source = r
  BY <1>2, StageAssumed DEF StageInv, ClaimReadsLatest, S!StageAssumption
<1>5. \A k \in S!Kinds : next.stage \in Before(k) => runs[r].stage \in Before(k)
  BY <1>1 DEF Before
<1> HIDE DEF next
<1>6. /\ runs' \in [Runs -> Run] /\ runs'[r] = next
      /\ \A p \in Runs \ {r} : runs'[p] = runs[p]
      /\ S!Latest' = S!Latest
      /\ ClaimReadsLatest' /\ S!Findable' /\ S!ClassifiedByPerson' /\ FactsFollow'
  BY <1>2, <1>3, <1>4, <1>5, OneRunMoves
<1>7. S!Active' \subseteq {r} /\ approved = 0
  BY <1>1, <1>3, <1>6 DEF StageInv, OneAtATime, S!Active
<1>8. S!TypeOK'
  BY <1>3, <1>6 DEF StageInv, S!TypeOK, Run
<1>9. OneAtATime' /\ OwnReading'
  BY <1>2, <1>3, <1>6, <1>7 DEF OneAtATime, OwnReading
<1> QED
  BY <1>3, <1>6, <1>8, <1>9 DEF StageInv, S!OneTextPerRun

(* The request that counted nothing creates the root of its run. *)
LEMMA StartKeeps == ASSUME StageInv, NEW r \in Runs, S!Start(r) PROVE StageInv'
<1> DEFINE next == [runs[r] EXCEPT !.stage = "OCR"]
<1>1. runs[r] \in Run /\ runs[r].stage = "none"
  BY RunsTypedOf DEF StageInv, S!Start, S!Waiting
<1>2. /\ next \in Run /\ next.stage = "OCR" /\ next.claimed = runs[r].claimed
      /\ next.source = runs[r].source
  BY <1>1, SevenStages DEF Run
<1>3. /\ runs' = [runs EXCEPT ![r] = next] /\ approved > 0 /\ approved' = approved - 1
      /\ UNCHANGED <<raced, texts, used, indexed, document, facts, reading>>
  BY DEF S!Start
<1>4. r = S!Latest /\ next.claimed => next.source = r
  BY <1>2, StageAssumed DEF StageInv, ClaimReadsLatest, S!StageAssumption
<1>5. \A k \in S!Kinds : next.stage \in Before(k) => runs[r].stage \in Before(k)
  BY <1>1 DEF Before
<1> HIDE DEF next
<1>6. /\ runs' \in [Runs -> Run] /\ runs'[r] = next
      /\ \A p \in Runs \ {r} : runs'[p] = runs[p]
      /\ S!Latest' = S!Latest
      /\ ClaimReadsLatest' /\ S!Findable' /\ S!ClassifiedByPerson' /\ FactsFollow'
  BY <1>2, <1>3, <1>4, <1>5, OneRunMoves
<1>7. approved \in Nat /\ approved' \in 0 .. S!Cardinality(Runs)
  BY <1>3, RunCount DEF StageInv, S!TypeOK
<1>8. S!TypeOK'
  BY <1>3, <1>6, <1>7 DEF StageInv, S!TypeOK, Run
<1>9. ~raced => S!Active = {} /\ approved' = 0
  BY <1>3, <1>7 DEF StageInv, OneAtATime
<1>10. S!Active' \subseteq S!Active \cup {r} /\ r \notin S!Waiting'
  BY <1>2, <1>6 DEF S!Active, S!Waiting
<1>11. OneAtATime'
  BY <1>3, <1>9, <1>10 DEF OneAtATime
<1>12. OwnReading'
  BY <1>2, <1>3, <1>6, <1>9, <1>10 DEF OwnReading
<1> QED
  BY <1>3, <1>6, <1>8, <1>11, <1>12 DEF StageInv, S!OneTextPerRun

(* A claim works on the latest text there is. *)
LEMMA ClaimKeeps == ASSUME StageInv, NEW r \in Runs, S!Claim(r) PROVE StageInv'
<1> DEFINE next == [runs[r] EXCEPT !.claimed = TRUE, !.source = S!Latest]
<1>1. runs[r] \in Run /\ r \in S!Active /\ S!Latest \in Runs \cup {NoRun}
  BY RunsTypedOf, LatestIsRun DEF StageInv, S!Claim
<1>2. next \in Run /\ next.stage = runs[r].stage /\ next.source = S!Latest
  BY <1>1 DEF Run
<1>3. /\ runs' = [runs EXCEPT ![r] = next]
      /\ UNCHANGED <<approved, raced, texts, used, indexed, document, facts, reading>>
  BY RunsTypedOf DEF StageInv, S!Claim
<1>4. /\ r = S!Latest /\ next.claimed => next.source = r
      /\ next.stage # "done"
      /\ \A k \in S!Kinds : next.stage \in Before(k) => runs[r].stage \in Before(k)
  BY <1>1, <1>2, SevenStages DEF S!Active
<1> HIDE DEF next
<1>5. /\ runs' \in [Runs -> Run] /\ runs'[r] = next
      /\ \A p \in Runs \ {r} : runs'[p] = runs[p]
      /\ S!Latest' = S!Latest
      /\ ClaimReadsLatest' /\ S!Findable' /\ S!ClassifiedByPerson' /\ FactsFollow'
  BY <1>2, <1>3, <1>4, OneRunMoves
<1>6. S!TypeOK'
  BY <1>3, <1>5 DEF StageInv, S!TypeOK, Run
<1>7. \A p \in Runs : runs'[p].stage = runs[p].stage
  BY <1>2, <1>5
<1>8. S!Active' = S!Active /\ S!Waiting' = S!Waiting
  BY <1>7 DEF S!Active, S!Waiting
<1>9. OneAtATime' /\ OwnReading'
  BY <1>3, <1>5, <1>7, <1>8 DEF StageInv, OneAtATime, OwnReading, S!Active
<1> QED
  BY <1>3, <1>5, <1>6, <1>9 DEF StageInv, S!OneTextPerRun

LEMMA StopKeeps == ASSUME StageInv, NEW r \in Runs, S!Stop(r) PROVE StageInv'
<1> DEFINE next == [stage |-> "failed", claimed |-> FALSE, source |-> NoRun]
<1>1. next \in Run /\ next.stage = "failed" /\ next.claimed = FALSE /\ r \in S!Active
  BY DEF Run, S!Stop
<1>2. /\ runs' = [runs EXCEPT ![r] = next]
      /\ UNCHANGED <<approved, raced, texts, used, indexed, document, facts, reading>>
  BY DEF S!Stop
<1>3. \A k \in S!Kinds : next.stage \in Before(k) => runs[r].stage \in Before(k)
  BY <1>1 DEF Before
<1> HIDE DEF next
<1>4. /\ runs' \in [Runs -> Run] /\ runs'[r] = next
      /\ \A p \in Runs \ {r} : runs'[p] = runs[p]
      /\ S!Latest' = S!Latest
      /\ ClaimReadsLatest' /\ S!Findable' /\ S!ClassifiedByPerson' /\ FactsFollow'
  BY <1>1, <1>2, <1>3, OneRunMoves
<1>5. S!TypeOK'
  BY <1>2, <1>4 DEF StageInv, S!TypeOK, Run
<1>6. S!Active' \subseteq S!Active /\ S!Waiting' = S!Waiting
  BY <1>1, <1>4, SevenStages DEF S!Active, S!Waiting
<1>7. \A p \in S!Active' : runs'[p] = runs[p]
  BY <1>1, <1>4, SevenStages DEF S!Active
<1>8. OneAtATime' /\ OwnReading'
  BY <1>2, <1>4, <1>6, <1>7 DEF StageInv, OneAtATime, OwnReading
<1> QED
  BY <1>2, <1>4, <1>5, <1>8 DEF StageInv, S!OneTextPerRun

(* A request that finds nothing at work is the only one, or they raced. *)
LEMMA ApproveKeeps == ASSUME StageInv, S!Approve PROVE StageInv'
<1>1. /\ S!Waiting # Runs /\ S!Active = {} /\ approved < S!Cardinality(S!Waiting)
      /\ approved' = approved + 1 /\ raced' = (raced \/ approved > 0)
      /\ UNCHANGED <<runs, texts, used, indexed, document, facts, reading>>
  BY DEF S!Approve, S!Countable
<1>2. S!Waiting \subseteq Runs
  BY DEF S!Waiting
<1>3. approved \in Nat /\ approved' \in 0 .. S!Cardinality(Runs)
  BY <1>1, <1>2, RunCount DEF StageInv, S!TypeOK
<1>4. S!TypeOK'
  BY <1>1, <1>3 DEF StageInv, S!TypeOK
<1>5. ~raced' => ~raced /\ approved = 0 /\ approved' = 1
  <2>1. ~raced' => ~raced /\ ~(approved > 0)
    BY <1>1, Zenon
  <2> QED
    BY <1>1, <1>3, <2>1
<1>6. S!Active' = S!Active /\ S!Waiting' = S!Waiting /\ S!Latest' = S!Latest
  BY <1>1 DEF S!Active, S!Waiting, S!Latest
<1>7. OneAtATime' /\ OwnReading'
  BY <1>1, <1>5, <1>6 DEF OneAtATime, OwnReading
<1>8. ClaimReadsLatest' /\ S!Findable' /\ S!ClassifiedByPerson' /\ FactsFollow'
  BY <1>1, <1>6 DEF StageInv, ClaimReadsLatest, S!Findable, S!ClassifiedByPerson, FactsFollow
<1>9. S!OneTextPerRun'
  BY <1>1, <1>5 DEF StageInv, S!OneTextPerRun
<1> QED
  BY <1>4, <1>7, <1>8, <1>9 DEF StageInv

(* People: their choices and their confirmations. *)
LEMMA PeopleKeep ==
    ASSUME StageInv, UNCHANGED <<runs, approved, raced, texts, used, indexed>>,
           document' \in [type : {"none", "machine", "person"}, by : People \cup {Nobody},
                          status : {"PENDING", "CLASSIFIED", "NEEDS_REVIEW"}],
           S!ClassifiedByPerson',
           facts' \in [Runs \X S!Kinds -> People \cup {Nobody, "none"}],
           \A f \in Runs \X S!Kinds : facts[f] = "none" => facts'[f] = "none",
           reading' \in [People -> (Runs \X S!Kinds) \cup {<<>>}]
    PROVE  StageInv'
<1>1. S!Active' = S!Active /\ S!Waiting' = S!Waiting /\ S!Latest' = S!Latest
  BY DEF S!Active, S!Waiting, S!Latest
<1>2. S!TypeOK'
  BY DEF StageInv, S!TypeOK
<1>3. ClaimReadsLatest' /\ S!Findable' /\ OneAtATime' /\ OwnReading' /\ S!OneTextPerRun'
  BY <1>1 DEF StageInv, ClaimReadsLatest, S!Findable, OneAtATime, OwnReading, S!OneTextPerRun
<1>4. FactsFollow'
  BY DEF StageInv, FactsFollow
<1> QED
  BY <1>2, <1>3, <1>4 DEF StageInv

LEMMA SetTypeKeeps == ASSUME StageInv, NEW p \in People, S!SetType(p) PROVE StageInv'
BY PeopleKeep DEF S!SetType, StageInv, S!TypeOK, S!ClassifiedByPerson

LEMMA ClearTypeKeeps == ASSUME StageInv, S!ClearType PROVE StageInv'
BY PeopleKeep DEF S!ClearType, StageInv, S!TypeOK, S!ClassifiedByPerson

LEMMA ReadFactKeeps ==
    ASSUME StageInv, NEW p \in People, NEW f \in Runs \X S!Kinds, S!ReadFact(p, f) PROVE StageInv'
BY PeopleKeep DEF S!ReadFact, StageInv, S!TypeOK, S!ClassifiedByPerson

(* What was confirmed stays, and what is not there yet is not written. *)
LEMMA WrittenKeeps ==
    ASSUME StageInv, NEW p \in People, reading[p] # <<>>, facts' = S!Written(p)
    PROVE  /\ facts' \in [Runs \X S!Kinds -> People \cup {Nobody, "none"}]
           /\ \A f \in Runs \X S!Kinds : facts[f] = "none" => facts'[f] = "none"
           /\ \A f \in Runs \X S!Kinds : facts[f] \in People => facts'[f] = facts[f]
<1>1. /\ reading[p] \in Runs \X S!Kinds
      /\ facts \in [Runs \X S!Kinds -> People \cup {Nobody, "none"}]
  BY DEF StageInv, S!TypeOK
<1>2. CASE facts[reading[p]] = Nobody
  <2>1. facts' = [facts EXCEPT ![reading[p]] = p]
    BY <1>2 DEF S!Written, S!Unconfirmed
  <2>2. \A f \in Runs \X S!Kinds : f # reading[p] => facts'[f] = facts[f]
    BY <1>1, <2>1
  <2>3. facts[reading[p]] # "none" /\ facts[reading[p]] \notin People
    BY <1>2, StageAssumed DEF S!StageAssumption
  <2>4. facts' \in [Runs \X S!Kinds -> People \cup {Nobody, "none"}]
    BY <1>1, <2>1
  <2> QED
    BY <2>2, <2>3, <2>4
<1>3. CASE facts[reading[p]] # Nobody
  BY <1>1, <1>3 DEF S!Written, S!Unconfirmed
<1> QED
  BY <1>2, <1>3

LEMMA ConfirmKeeps ==
    ASSUME StageInv, NEW p \in People, S!ConfirmEvent(p) \/ S!ConfirmEntity(p) PROVE StageInv'
<1>1. /\ reading[p] # <<>> /\ facts' = S!Written(p) /\ reading' = [reading EXCEPT ![p] = <<>>]
      /\ UNCHANGED <<runs, approved, raced, texts, used, indexed, document>>
  BY DEF S!ConfirmEvent, S!ConfirmEntity
<1>2. reading' \in [People -> (Runs \X S!Kinds) \cup {<<>>}]
  BY <1>1 DEF StageInv, S!TypeOK
<1> QED
  BY <1>1, <1>2, WrittenKeeps, PeopleKeep DEF StageInv, S!TypeOK, S!ClassifiedByPerson

LEMMA StageStep == ASSUME StageInv, [S!Next]_(S!vars) PROVE StageInv'
<1>1. CASE S!Next
  BY <1>1, ApproveKeeps, IntakeKeeps, StartKeeps, ClaimKeeps, StopKeeps, ValidateFileKeeps,
     ReadTextKeeps, ClassifyDocumentKeeps, ExtractEntitiesKeeps, GenerateTimelineKeeps,
     AnalyseChecklistKeeps, EmbedKeeps, SetTypeKeeps, ReadFactKeeps, ConfirmKeeps, ClearTypeKeeps
     DEF S!Next
<1>2. CASE UNCHANGED S!vars
  BY <1>2, PeopleKeep DEF S!vars, StageInv, S!TypeOK, S!ClassifiedByPerson
<1> QED
  BY <1>1, <1>2

(* No stage and nobody else undoes a confirmation: a stage writes the facts of
   its own run, which nobody could confirm before. *)
LEMMA ConfirmedStays ==
    ASSUME StageInv, [S!Next]_(S!vars)
    PROVE  \A f \in Runs \X S!Kinds : facts[f] \in People => facts'[f] = facts[f]
<1>1. ASSUME NEW r \in Runs, S!ExtractEntities(r)
      PROVE  \A f \in Runs \X S!Kinds : facts[f] \in People => facts'[f] = facts[f]
  <2>1. runs[r].stage = "ENTITY_EXTRACTION" /\ facts' = [facts EXCEPT ![<<r, "entity">>] = Nobody]
    BY <1>1 DEF S!ExtractEntities, S!Completes
  <2>2. facts[<<r, "entity">>] = "none" /\ "none" \notin People
    BY <2>1, StageAssumed DEF StageInv, FactsFollow, Before, S!Kinds, S!StageAssumption
  <2>3. facts \in [Runs \X S!Kinds -> {"none"} \cup People \cup {Nobody}]
    BY DEF StageInv, S!TypeOK
  <2> QED
    BY <2>1, <2>2, <2>3
<1>2. ASSUME NEW r \in Runs, S!GenerateTimeline(r)
      PROVE  \A f \in Runs \X S!Kinds : facts[f] \in People => facts'[f] = facts[f]
  <2>1. runs[r].stage = "TIMELINE_GENERATION" /\ facts' = [facts EXCEPT ![<<r, "event">>] = Nobody]
    BY <1>2 DEF S!GenerateTimeline, S!Completes
  <2>2. facts[<<r, "event">>] = "none" /\ "none" \notin People
    BY <2>1, StageAssumed DEF StageInv, FactsFollow, Before, S!Kinds, S!StageAssumption
  <2>3. facts \in [Runs \X S!Kinds -> {"none"} \cup People \cup {Nobody}]
    BY DEF StageInv, S!TypeOK
  <2> QED
    BY <2>1, <2>2, <2>3
<1>3. ASSUME NEW p \in People, S!ConfirmEvent(p) \/ S!ConfirmEntity(p)
      PROVE  \A f \in Runs \X S!Kinds : facts[f] \in People => facts'[f] = facts[f]
  BY <1>3, WrittenKeeps DEF S!ConfirmEvent, S!ConfirmEntity
<1>4. CASE UNCHANGED facts
  BY <1>4
<1>5. \/ \E r \in Runs : S!ExtractEntities(r) \/ S!GenerateTimeline(r)
      \/ \E p \in People : S!ConfirmEvent(p) \/ S!ConfirmEntity(p)
      \/ UNCHANGED facts
  BY DEF S!Next, S!vars, S!Approve, S!Intake, S!Start, S!Claim, S!Stop, S!ValidateFile, S!ReadText,
     S!ClassifyDocument, S!AnalyseChecklist, S!Embed, S!SetType, S!ReadFact, S!ClearType
<1> QED
  BY <1>1, <1>2, <1>3, <1>4, <1>5

LEMMA StagesAlone == [DocumentsNext]_documentsVars => [S!Next]_(S!vars)
BY DEF DocumentsNext, documentsVars, stageVars, S!vars

(* What search finds and what the stages work on is one reading of the document,
   though claims, retries and runs of it interleave: findLatestExtraction when a
   job is claimed, and the result that complete records. *)
THEOREM ReadingsAreOne == DocumentsSpec => []ReadingsHoldTogether
<1>1. DocumentsInit => StageInv
  BY StagesBegin DEF DocumentsInit
<1>2. StageInv /\ [DocumentsNext]_documentsVars => StageInv'
  BY StagesAlone, StageStep
<1>3. StageInv => ReadingsHoldTogether
  BY DEF StageInv, S!TypeOK, ReadingsHoldTogether, S!ReadingsHoldTogether
<1> QED
  BY <1>1, <1>2, <1>3, PTL DEF DocumentsSpec

ReviewStep ==
    /\ S!ClassifiedByPerson'
    /\ \A f \in Runs \X S!Kinds : facts[f] \in People => facts'[f] = facts[f]

(* No stage makes a document count as classified, though it may write its type
   over a person's; and of two who confirm a fact at once the first remains:
   the updates of review that ask for the row as it was read. *)
THEOREM ReviewIsOfPeople == DocumentsSpec => OnlyPeopleReview
<1>1. DocumentsInit => StageInv
  BY StagesBegin DEF DocumentsInit
<1>2. StageInv /\ [DocumentsNext]_documentsVars => StageInv'
  BY StagesAlone, StageStep
<1>3. StageInv /\ [DocumentsNext]_documentsVars => [ReviewStep]_(S!vars)
  BY StagesAlone, StageStep, ConfirmedStays DEF ReviewStep, StageInv
<1> QED
  BY <1>1, <1>2, <1>3, PTL DEF DocumentsSpec, OnlyPeopleReview, S!OnlyPeopleReview, ReviewStep
-----------------------------------------------------------------------------
(* FileIntake *)

(* The files of a request that have no row yet. *)
HandOf(u) == u.putting \cup u.clean \cup u.unscanned
Hand(q) == HandOf(uploads[q])
(* A key is in one hand at most; until it has its row, its object is there. *)
HandsApart == \A p, q \in Requests : p # q => Hand(p) \cap Hand(q) = {}
HandsStaged == \A q \in Requests : Hand(q) \cap I!Stored = {} /\ Hand(q) \subseteq objects
(* A file is inspected once, and all are before one is persisted. *)
UploadSound(u) ==
    /\ u.putting \cap (u.clean \cup u.unscanned) = {}
    /\ u.step = "locked" => u.putting = {} /\ u.key \in u.clean \cup u.unscanned
UploadsSound == \A q \in Requests : UploadSound(uploads[q])
(* The locks of different requests are of different contents; *)
LocksApart ==
    \A p, q \in Requests :
        /\ p # q /\ uploads[p].step = "locked" /\ uploads[q].step = "locked"
        => ContentOf[uploads[p].key] # ContentOf[uploads[q].key]
(* so what a request found under its lock is still so. *)
LocksKnow ==
    \A q \in Requests : uploads[q].step = "locked" /\ uploads[q].original = NoKey
                        => I!Duplicates(uploads[q].key) = {}
(* Each part of a report remains true of the files there were when it began. *)
ReportSound ==
    report.read # {} =>
        /\ report.held \subseteq objects \cap I!Stored
        /\ report.missing \subseteq I!Stored \ objects
        /\ "objects" \in report.read => /\ report.held \subseteq report.objects
                                        /\ report.missing \cap report.objects = {}
        /\ "files" \in report.read => report.missing \cap I!Active \subseteq report.files
        /\ "references" \in report.read => report.held \cap I!Active \subseteq report.references

(* The invariant of FileIntake. *)
IntakeInv ==
    /\ I!TypeOK
    /\ HandsApart /\ HandsStaged /\ UploadsSound /\ LocksApart /\ LocksKnow
    /\ I!FileHasObject /\ I!OneOriginal
    /\ ReportSound

(* There is a least among natural numbers. *)
LEMMA LeastNatural ==
    ASSUME NEW T, T \subseteq Nat, T # {}
    PROVE  \E x \in T : \A y \in T : x <= y
<1>1. \E x \in T : \A y \in T : ~ (<<y, x>> \in OpToRel(<, Nat))
  BY NatLessThanWellFounded, WFMin
<1>2. \A x, y \in T : ~ (<<y, x>> \in OpToRel(<, Nat)) => x <= y
  BY DEF OpToRel
<1> QED
  BY <1>1, <1>2

LEMMA IntakeBegins == I!Init => IntakeInv
<1> SUFFICES ASSUME I!Init PROVE IntakeInv
  OBVIOUS
<1>1. I!Stored = {} /\ \A q \in Requests : uploads[q] = I!Idle
  BY DEF I!Init, I!Stored, I!NoFile
<1>2. I!Active = {}
  BY <1>1 DEF I!Active
<1>3. 0 \in 0 .. I!Cardinality(Keys)
  <2>1. IsFiniteSet(Keys)
    <3>1. I!IsFiniteSet(Keys)
      BY IntakeAssumed DEF I!IntakeAssumption
    <3> QED
      BY <3>1 DEF IsFiniteSet, I!IsFiniteSet
  <2>2. I!Cardinality(Keys) = Cardinality(Keys)
    BY DEF Cardinality, I!Cardinality
  <2> QED
    BY <2>1, <2>2, FS_CardinalityType
<1>4. I!Idle \in I!Upload /\ I!NoReport \in I!Report
  BY DEF I!Idle, I!Upload, I!NoReport, I!Report
<1>5. I!NoFile \in I!File
  BY <1>3 DEF I!NoFile, I!File
<1>6. I!TypeOK
  BY <1>4, <1>5 DEF I!Init, I!TypeOK
<1>7. HandOf(I!Idle) = {} /\ UploadSound(I!Idle) /\ I!Idle.step # "locked"
  BY DEF HandOf, UploadSound, I!Idle
<1>8. HandsApart /\ HandsStaged /\ UploadsSound /\ LocksApart /\ LocksKnow
  BY <1>1, <1>7 DEF HandsApart, HandsStaged, Hand, UploadsSound, LocksApart, LocksKnow
<1>9. I!FileHasObject /\ I!OneOriginal /\ ReportSound
  BY <1>1, <1>2 DEF I!Init, I!FileHasObject, I!OneOriginal, ReportSound, I!NoReport
<1> QED
  BY <1>6, <1>8, <1>9 DEF IntakeInv

(* What a report said goes on to hold while rows come, and none returns; the
   objects of rows stay as they are. *)
LEMMA ReportGoesOn ==
    ASSUME ReportSound, UNCHANGED report, I!Stored \subseteq I!Stored',
           I!Active' \cap I!Stored \subseteq I!Active,
           objects \cap I!Stored \subseteq objects', objects' \cap I!Stored \subseteq objects
    PROVE  ReportSound'
BY DEF ReportSound

(* A request goes on and no row changes: it holds of keys what it held, and
   keys that left no trace. *)
LEMMA OneUpload ==
    ASSUME IntakeInv, NEW q \in Requests, NEW u \in I!Upload, I!Becomes(q, u), UploadSound(u),
           UNCHANGED <<files, lost, report>>,
           HandOf(u) \subseteq Hand(q) \cup (Keys \ (objects \cup I!Stored \cup I!InHand)),
           objects \ Hand(q) \subseteq objects', objects' \subseteq objects \cup HandOf(u),
           HandOf(u) \subseteq objects',
           u.step = "locked" =>
               /\ u.original = NoKey => I!Duplicates(u.key) = {}
               /\ \A p \in Requests \ {q} :
                      uploads[p].step = "locked" => ContentOf[uploads[p].key] # ContentOf[u.key]
    PROVE  IntakeInv'
<1>1. uploads \in [Requests -> I!Upload] /\ uploads' = [uploads EXCEPT ![q] = u]
  BY DEF IntakeInv, I!TypeOK, I!Becomes
<1>2. /\ uploads' \in [Requests -> I!Upload] /\ uploads'[q] = u
      /\ \A p \in Requests \ {q} : uploads'[p] = uploads[p]
  BY <1>1
<1>3. I!Stored' = I!Stored /\ I!Active' = I!Active
  BY DEF I!Stored, I!Active
<1>4. /\ Hand(q)' = HandOf(u) /\ \A p \in Requests \ {q} : Hand(p)' = Hand(p)
      /\ \A p \in Requests : Hand(p) \subseteq I!InHand
  BY <1>2 DEF Hand, HandOf, I!InHand, I!Staged
<1>5. HandOf(u) \subseteq Keys
  BY DEF HandOf, I!Upload
<1>6. I!TypeOK'
  BY <1>2, <1>5 DEF IntakeInv, I!TypeOK
<1>7. HandsApart'
  BY <1>4 DEF IntakeInv, HandsApart
<1>8. HandsStaged'
  BY <1>3, <1>4 DEF IntakeInv, HandsApart, HandsStaged
<1>9. UploadsSound'
  BY <1>2 DEF IntakeInv, UploadsSound
<1>10. LocksApart'
  BY <1>2 DEF IntakeInv, LocksApart
<1>11. LocksKnow'
  <2>1. \A k : I!Duplicates(k)' = I!Duplicates(k)
    BY <1>3 DEF I!Duplicates
  <2> QED
    BY <1>2, <2>1 DEF IntakeInv, LocksKnow
<1>12. I!FileHasObject'
  BY <1>3 DEF IntakeInv, HandsStaged, I!FileHasObject
<1>13. I!OneOriginal'
  BY <1>3 DEF IntakeInv, I!OneOriginal
<1>14. ReportSound'
  <2>1. objects \cap I!Stored \subseteq objects' /\ objects' \cap I!Stored \subseteq objects
    BY DEF IntakeInv, HandsStaged
  <2> QED
    BY <1>3, <2>1, ReportGoesOn DEF IntakeInv
<1> QED
  BY <1>6, <1>7, <1>8, <1>9, <1>10, <1>11, <1>12, <1>13, <1>14 DEF IntakeInv

LEMMA UploadOf ==
    ASSUME IntakeInv, NEW q \in Requests
    PROVE  /\ uploads[q] \in I!Upload /\ UploadSound(uploads[q])
           /\ Hand(q) = uploads[q].putting \cup I!Staged(q)
           /\ Hand(q) \subseteq objects
BY DEF IntakeInv, I!TypeOK, UploadsSound, Hand, HandOf, I!Staged, HandsStaged

LEMMA PutPrivateObjectKeeps ==
    ASSUME IntakeInv, NEW q \in Requests, NEW k \in Keys, I!PutPrivateObject(q, k) PROVE IntakeInv'
<1> DEFINE u == [uploads[q] EXCEPT !.step = "staging", !.putting = @ \cup {k}]
<1>1. /\ k \notin objects \cup I!Stored \cup I!InHand /\ objects' = objects \cup {k}
      /\ I!Becomes(q, u) /\ UNCHANGED <<files, lost, report>>
  BY DEF I!PutPrivateObject
<1>2. uploads[q] \in I!Upload /\ UploadSound(uploads[q]) /\ Hand(q) \subseteq objects
  BY UploadOf
<1>3. /\ u \in I!Upload /\ u.step = "staging" /\ u.putting = uploads[q].putting \cup {k}
      /\ u.clean = uploads[q].clean /\ u.unscanned = uploads[q].unscanned
  BY <1>2 DEF I!Upload
<1> HIDE DEF u
<1>4. HandOf(u) = Hand(q) \cup {k}
  BY <1>3 DEF HandOf, Hand
<1>5. UploadSound(u)
  BY <1>1, <1>2, <1>3 DEF UploadSound, Hand, HandOf
<1> QED
  BY <1>1, <1>2, <1>3, <1>4, <1>5, OneUpload

LEMMA InspectKeeps ==
    ASSUME IntakeInv, NEW q \in Requests, NEW k \in Keys, I!Inspect(q, k) PROVE IntakeInv'
<1>1. ASSUME NEW u, I!Becomes(q, u), k \in uploads[q].putting,
             \/ u = [uploads[q] EXCEPT !.putting = @ \ {k}, !.clean = @ \cup {k}]
             \/ u = [uploads[q] EXCEPT !.putting = @ \ {k}, !.unscanned = @ \cup {k}],
             UNCHANGED <<objects, files, lost, report>>
      PROVE  IntakeInv'
  <2>1. uploads[q] \in I!Upload /\ UploadSound(uploads[q]) /\ Hand(q) \subseteq objects
    BY UploadOf
  <2>2. /\ u \in I!Upload /\ u.step = uploads[q].step /\ u.putting = uploads[q].putting \ {k}
        /\ u.clean \cup u.unscanned = uploads[q].clean \cup uploads[q].unscanned \cup {k}
    <3>1. CASE u = [uploads[q] EXCEPT !.putting = @ \ {k}, !.clean = @ \cup {k}]
      <4>1. /\ u \in I!Upload /\ u.step = uploads[q].step /\ u.putting = uploads[q].putting \ {k}
            /\ u.clean = uploads[q].clean \cup {k} /\ u.unscanned = uploads[q].unscanned
        BY <2>1, <3>1 DEF I!Upload
      <4> QED
        BY <4>1
    <3>2. CASE u = [uploads[q] EXCEPT !.putting = @ \ {k}, !.unscanned = @ \cup {k}]
      <4>1. /\ u \in I!Upload /\ u.step = uploads[q].step /\ u.putting = uploads[q].putting \ {k}
            /\ u.clean = uploads[q].clean /\ u.unscanned = uploads[q].unscanned \cup {k}
        BY <2>1, <3>2 DEF I!Upload
      <4> QED
        BY <4>1
    <3> QED
      BY <1>1, <3>1, <3>2
  <2>3. u.step # "locked"
    BY <1>1, <2>1, <2>2 DEF UploadSound
  <2>4. HandOf(u) = Hand(q)
    BY <1>1, <2>2 DEF HandOf, Hand
  <2>5. UploadSound(u)
    BY <2>1, <2>2, <2>3 DEF UploadSound
  <2> QED
    BY <1>1, <2>1, <2>2, <2>3, <2>4, <2>5, OneUpload
<1> QED
  BY <1>1 DEF I!Inspect

LEMMA RejectFileKeeps ==
    ASSUME IntakeInv, NEW q \in Requests, NEW k \in Keys, I!RejectFile(q, k) PROVE IntakeInv'
<1> DEFINE u == [uploads[q] EXCEPT !.putting = @ \ {k}]
<1>1. /\ k \in uploads[q].putting /\ I!Becomes(q, u) /\ I!DeleteObjectSafely({k})
      /\ UNCHANGED <<files, lost, report>>
  BY DEF I!RejectFile
<1>2. uploads[q] \in I!Upload /\ UploadSound(uploads[q]) /\ Hand(q) \subseteq objects
  BY UploadOf
<1>3. /\ u \in I!Upload /\ u.step = uploads[q].step /\ u.putting = uploads[q].putting \ {k}
      /\ u.clean = uploads[q].clean /\ u.unscanned = uploads[q].unscanned
  BY <1>2 DEF I!Upload
<1>4. objects' \subseteq objects /\ objects \ {k} \subseteq objects'
  BY <1>1 DEF I!DeleteObjectSafely
<1> HIDE DEF u
<1>5. u.step # "locked" /\ HandOf(u) = Hand(q) \ {k} /\ k \in Hand(q)
  BY <1>1, <1>2, <1>3 DEF UploadSound, HandOf, Hand
<1>6. UploadSound(u)
  BY <1>2, <1>3, <1>5 DEF UploadSound
<1> QED
  BY <1>1, <1>2, <1>3, <1>4, <1>5, <1>6, OneUpload

(* A request that ends lets go of what it holds. *)
LEMMA EndsKeep ==
    ASSUME IntakeInv, NEW q \in Requests, I!Becomes(q, I!Idle), UNCHANGED <<files, lost, report>>,
           objects \ Hand(q) \subseteq objects', objects' \subseteq objects
    PROVE  IntakeInv'
<1>1. /\ I!Idle \in I!Upload /\ UploadSound(I!Idle) /\ HandOf(I!Idle) = {}
      /\ I!Idle.step # "locked"
  BY DEF I!Idle, I!Upload, UploadSound, HandOf
<1> QED
  BY <1>1, OneUpload

LEMMA RejectRequestKeeps ==
    ASSUME IntakeInv, NEW q \in Requests, I!RejectRequest(q) PROVE IntakeInv'
<1>1. objects \ Hand(q) \subseteq objects' /\ objects' \subseteq objects
  BY UploadOf DEF I!RejectRequest, I!DeleteObjectSafely
<1> QED
  BY <1>1, EndsKeep DEF I!RejectRequest

LEMMA PersistFailsKeeps ==
    ASSUME IntakeInv, NEW q \in Requests, I!PersistFails(q) PROVE IntakeInv'
<1>1. uploads[q].key \in Hand(q)
  BY UploadOf DEF I!PersistFails, UploadSound, I!Staged
<1>2. objects \ Hand(q) \subseteq objects' /\ objects' \subseteq objects
  BY <1>1 DEF I!PersistFails, I!DeleteObjectSafely, I!CleanedUp
<1> QED
  BY <1>2, EndsKeep DEF I!PersistFails

LEMMA CrashKeeps == ASSUME IntakeInv, NEW q \in Requests, I!Crash(q) PROVE IntakeInv'
BY EndsKeep DEF I!Crash

(* The oldest of the files of one content, if any: there is one, for the rows
   are numbered. *)
LEMMA OriginalIsOne ==
    ASSUME IntakeInv, NEW k \in Keys
    PROVE  /\ I!Original(k) \in Keys \cup {NoKey}
           /\ I!Original(k) = NoKey => I!Duplicates(k) = {}
<1> DEFINE D == I!Duplicates(k)
<1>1. D \subseteq Keys /\ \A x \in D : files[x].at \in Nat
  BY DEF I!Duplicates, I!Active, I!Stored, IntakeInv, I!TypeOK, I!File
<1>2. CASE D = {}
  BY <1>2 DEF I!Original
<1>3. CASE D # {}
  <2> DEFINE T == {files[x].at : x \in D}
  <2>1. T \subseteq Nat /\ T # {}
    BY <1>1, <1>3
  <2>2. \E m \in T : \A n \in T : m <= n
    BY <2>1, LeastNatural
  <2>3. \E x \in D : \A y \in D : files[x].at <= files[y].at
    BY <2>2
  <2>4. I!Original(k) \in D
    BY <1>3, <2>3 DEF I!Original
  <2> QED
    BY <1>1, <2>4, IntakeAssumed DEF I!IntakeAssumption
<1> QED
  BY <1>2, <1>3

LEMMA FindDuplicateKeeps ==
    ASSUME IntakeInv, NEW q \in Requests, NEW k \in Keys, I!FindDuplicate(q, k) PROVE IntakeInv'
<1> DEFINE u == [uploads[q] EXCEPT !.step = "locked", !.key = k, !.original = I!Original(k)]
<1>1. /\ uploads[q].putting = {} /\ k \in I!Staged(q) /\ I!LockFree(k)
      /\ I!Becomes(q, u) /\ UNCHANGED <<objects, files, lost, report>>
  BY DEF I!FindDuplicate
<1>2. uploads[q] \in I!Upload /\ UploadSound(uploads[q]) /\ Hand(q) \subseteq objects
  BY UploadOf
<1>3. /\ I!Original(k) \in Keys \cup {NoKey}
      /\ I!Original(k) = NoKey => I!Duplicates(k) = {}
  BY OriginalIsOne
<1>4. /\ u \in I!Upload /\ u.step = "locked" /\ u.putting = uploads[q].putting
      /\ u.clean = uploads[q].clean /\ u.unscanned = uploads[q].unscanned
      /\ u.key = k /\ u.original = I!Original(k)
  BY <1>2, <1>3 DEF I!Upload
<1> HIDE DEF u
<1>5. HandOf(u) = Hand(q)
  BY <1>4 DEF HandOf, Hand
<1>6. UploadSound(u)
  BY <1>1, <1>2, <1>4 DEF UploadSound, I!Staged
<1>7. \A p \in Requests \ {q} :
          uploads[p].step = "locked" => ContentOf[uploads[p].key] # ContentOf[u.key]
  BY <1>1, <1>4 DEF I!LockFree
<1> QED
  BY <1>1, <1>2, <1>3, <1>4, <1>5, <1>6, <1>7, OneUpload

LEMMA RowsAreFinite ==
    ASSUME IntakeInv, NEW k \in Keys, k \notin I!Stored
    PROVE  I!Cardinality(I!Stored) + 1 \in 0 .. I!Cardinality(Keys)
<1>1. IsFiniteSet(Keys) /\ \A T : I!Cardinality(T) = Cardinality(T)
  <2>1. I!IsFiniteSet(Keys)
    BY IntakeAssumed DEF I!IntakeAssumption
  <2> QED
    BY <2>1 DEF IsFiniteSet, I!IsFiniteSet, Cardinality, I!Cardinality
<1>2. I!Stored \subseteq Keys
  BY DEF I!Stored
<1>3. IsFiniteSet(I!Stored) /\ Cardinality(I!Stored) <= Cardinality(Keys)
  BY <1>1, <1>2, FS_Subset
<1>4. Cardinality(I!Stored \cup {k}) = Cardinality(I!Stored) + 1
  BY <1>3, FS_AddElement
<1>5. Cardinality(I!Stored \cup {k}) <= Cardinality(Keys)
  BY <1>1, <1>2, FS_Subset
<1> QED
  BY <1>1, <1>3, <1>4, <1>5, FS_CardinalityType

(* A file gets its row: with a document of its own, or as the copy of another;
   the request goes on with other files, or ends. *)
LEMMA OneRow ==
    ASSUME IntakeInv, NEW q \in Requests, uploads[q].step = "locked",
           NEW v \in I!Upload, I!Becomes(q, v), UploadSound(v), v.step # "locked",
           HandOf(v) \subseteq Hand(q) \ {uploads[q].key},
           files' = [files EXCEPT ![uploads[q].key] = I!RowOf(uploads[q])],
           lost \subseteq lost', lost' \subseteq Keys, UNCHANGED report,
           objects \ {uploads[q].key} \subseteq objects', objects' \subseteq objects,
           uploads[q].key \in objects' \cup lost'
    PROVE  IntakeInv'
<1> DEFINE u == uploads[q]
           k == uploads[q].key
           row == I!RowOf(uploads[q])
<1>1. u \in I!Upload /\ k \in Hand(q) /\ Hand(q) \subseteq objects /\ Hand(q) \cap I!Stored = {}
  BY UploadOf DEF UploadSound, I!Staged, IntakeInv, HandsStaged
<1>2. k \in Keys /\ k \notin I!Stored
  BY <1>1 DEF IntakeInv, I!TypeOK
<1>3. /\ row \in I!File /\ row.status \in {"AVAILABLE", "QUARANTINED"}
      /\ row.original = u.original /\ row.deleted = FALSE
  BY <1>1, <1>2, RowsAreFinite DEF I!RowOf, I!File, I!Upload
<1>4. files \in [Keys -> I!File] /\ uploads \in [Requests -> I!Upload] /\ uploads' = [uploads EXCEPT ![q] = v]
  BY DEF IntakeInv, I!TypeOK, I!Becomes
<1> HIDE DEF row
<1>5. /\ files' \in [Keys -> I!File] /\ files'[k] = row
      /\ \A j \in Keys \ {k} : files'[j] = files[j]
  BY <1>2, <1>3, <1>4 DEF row
<1>6. /\ uploads' \in [Requests -> I!Upload] /\ uploads'[q] = v
      /\ \A p \in Requests \ {q} : uploads'[p] = uploads[p]
  BY <1>4
<1>7. I!Stored' = I!Stored \cup {k} /\ I!Active' = I!Active \cup {k} /\ k \notin I!Active
  BY <1>2, <1>3, <1>5 DEF I!Stored, I!Active
<1>8. /\ Hand(q)' = HandOf(v) /\ \A p \in Requests \ {q} : Hand(p)' = Hand(p) /\ k \notin Hand(p)
  BY <1>1, <1>6 DEF IntakeInv, HandsApart, Hand
<1>9. I!TypeOK'
  BY <1>5, <1>6 DEF IntakeInv, I!TypeOK
<1>10. HandsApart'
  BY <1>8 DEF IntakeInv, HandsApart
<1>11. HandsStaged'
  BY <1>1, <1>7, <1>8 DEF IntakeInv, HandsStaged
<1>12. UploadsSound' /\ LocksApart'
  BY <1>6 DEF IntakeInv, UploadsSound, LocksApart
<1>13. LocksKnow'
  <2>1. \A c : ContentOf[c] # ContentOf[k] => I!Duplicates(c)' \subseteq I!Duplicates(c)
    <3>1. \A x \in I!Active' : x # k => x \in I!Active /\ files'[x] = files[x]
      BY <1>5, <1>7 DEF I!Active, I!Stored
    <3> QED
      BY <3>1 DEF I!Duplicates
  <2>2. \A p \in Requests : uploads'[p].step = "locked" =>
            p # q /\ uploads'[p] = uploads[p] /\ ContentOf[k] # ContentOf[uploads[p].key]
    BY <1>6 DEF IntakeInv, LocksApart
  <2> QED
    BY <2>1, <2>2 DEF IntakeInv, LocksKnow
<1>14. I!FileHasObject'
  BY <1>7 DEF IntakeInv, I!FileHasObject
<1>15. I!OneOriginal'
  <2>1. row.original = NoKey => I!Duplicates(k) = {}
    BY <1>3 DEF IntakeInv, LocksKnow
  <2>2. I!Active \subseteq Keys \ {k}
    BY <1>2 DEF I!Active, I!Stored
  <2> QED
    BY <1>5, <1>7, <2>1, <2>2 DEF IntakeInv, I!OneOriginal, I!Duplicates
<1>16. ReportSound'
  <2>1. objects \cap I!Stored \subseteq objects' /\ objects' \cap I!Stored \subseteq objects
    BY <1>2
  <2>2. I!Stored \subseteq I!Stored' /\ I!Active' \cap I!Stored \subseteq I!Active
    BY <1>2, <1>7
  <2>3. ReportSound
    BY DEF IntakeInv
  <2> QED
    BY <2>1, <2>2, <2>3, ReportGoesOn
<1> QED
  BY <1>9, <1>10, <1>11, <1>12, <1>13, <1>14, <1>15, <1>16 DEF IntakeInv

LEMMA CreateIntakeResourcesKeeps ==
    ASSUME IntakeInv, NEW q \in Requests, I!CreateIntakeResources(q) PROVE IntakeInv'
<1> DEFINE u == uploads[q]
           rest == [u EXCEPT !.clean = @ \ {u.key}, !.unscanned = @ \ {u.key},
                             !.accepted = @ \cup {u.key}, !.key = NoKey, !.original = NoKey,
                             !.step = "persisting"]
           v == IF I!Staged(q) = {u.key} THEN I!Idle ELSE rest
<1>1. /\ u.step = "locked" /\ files' = [files EXCEPT ![u.key] = I!RowOf(u)]
      /\ I!Becomes(q, v) /\ UNCHANGED <<objects, lost, report>>
  BY DEF I!CreateIntakeResources
<1>2. u \in I!Upload /\ UploadSound(u) /\ Hand(q) \subseteq objects /\ u.key \in Hand(q)
  BY <1>1, UploadOf DEF UploadSound, I!Staged
<1>3. u.key \in Keys
  BY <1>2 DEF IntakeInv, I!TypeOK
<1>4. /\ rest \in I!Upload /\ rest.step = "persisting" /\ rest.putting = u.putting
      /\ rest.clean = u.clean \ {u.key} /\ rest.unscanned = u.unscanned \ {u.key}
  BY <1>2, <1>3 DEF I!Upload
<1>5. /\ I!Idle \in I!Upload /\ UploadSound(I!Idle) /\ HandOf(I!Idle) = {}
      /\ I!Idle.step # "locked"
  BY DEF I!Idle, I!Upload, UploadSound, HandOf
<1>6. UploadSound(rest) /\ HandOf(rest) \subseteq Hand(q) \ {u.key}
  BY <1>1, <1>2, <1>4 DEF UploadSound, HandOf, Hand
<1> HIDE DEF rest
<1>7. v \in I!Upload /\ UploadSound(v) /\ v.step # "locked" /\ HandOf(v) \subseteq Hand(q) \ {u.key}
  BY <1>4, <1>5, <1>6
<1> HIDE DEF v
<1>8. lost \subseteq Keys
  BY DEF IntakeInv, I!TypeOK
<1> QED
  BY <1>1, <1>2, <1>7, <1>8, OneRow

LEMMA PersistAnswerLostKeeps ==
    ASSUME IntakeInv, NEW q \in Requests, I!PersistAnswerLost(q) PROVE IntakeInv'
<1> DEFINE u == uploads[q]
<1>1. /\ u.step = "locked" /\ files' = [files EXCEPT ![u.key] = I!RowOf(u)]
      /\ lost' = lost \cup {u.key} /\ I!Becomes(q, I!Idle) /\ UNCHANGED report
  BY DEF I!PersistAnswerLost
<1>2. UploadSound(u) /\ u \in I!Upload /\ u.key \in Hand(q) /\ Hand(q) \subseteq objects
  BY <1>1, UploadOf DEF UploadSound, I!Staged
<1>3. u.key \in Keys /\ lost \subseteq Keys
  BY <1>2 DEF IntakeInv, I!TypeOK
<1>4. objects \ {u.key} \subseteq objects' /\ objects' \subseteq objects
  BY DEF I!PersistAnswerLost, I!DeleteObjectSafely, I!CleanedUp
<1>5. /\ I!Idle \in I!Upload /\ UploadSound(I!Idle) /\ HandOf(I!Idle) = {}
      /\ I!Idle.step # "locked"
  BY DEF I!Idle, I!Upload, UploadSound, HandOf
<1> QED
  BY <1>1, <1>3, <1>4, <1>5, OneRow

LEMMA SoftDeleteKeepsFiles ==
    ASSUME IntakeInv, NEW k \in Keys, I!SoftDelete(k) PROVE IntakeInv'
<1> DEFINE row == [files[k] EXCEPT !.deleted = TRUE]
<1>1. files[k] \in I!File /\ k \in I!Stored
  BY DEF IntakeInv, I!TypeOK, I!SoftDelete, I!Active
<1>2. row \in I!File /\ row.status = files[k].status /\ row.original = files[k].original /\ row.deleted = TRUE
  BY <1>1 DEF I!File
<1>3. files' = [files EXCEPT ![k] = row] /\ UNCHANGED <<objects, uploads, lost, report>>
  BY DEF I!SoftDelete
<1> HIDE DEF row
<1>4. /\ files' \in [Keys -> I!File] /\ files'[k] = row /\ \A j \in Keys \ {k} : files'[j] = files[j]
  BY <1>2, <1>3 DEF IntakeInv, I!TypeOK
<1>5. I!Stored' = I!Stored /\ I!Active' = I!Active \ {k}
  BY <1>1, <1>2, <1>4 DEF I!Stored, I!Active
<1>6. I!TypeOK' /\ HandsApart' /\ HandsStaged' /\ UploadsSound' /\ LocksApart'
  BY <1>3, <1>4, <1>5 DEF IntakeInv, I!TypeOK, HandsApart, HandsStaged, UploadsSound, LocksApart, Hand
<1>7. \A j \in I!Active' : j # k /\ files'[j] = files[j] /\ j \in I!Active
  BY <1>4, <1>5 DEF I!Active, I!Stored
<1>8. LocksKnow'
  <2>1. \A c : I!Duplicates(c)' \subseteq I!Duplicates(c)
    BY <1>7 DEF I!Duplicates
  <2> QED
    BY <1>3, <2>1 DEF IntakeInv, LocksKnow
<1>9. I!FileHasObject' /\ I!OneOriginal'
  BY <1>3, <1>5, <1>7 DEF IntakeInv, I!FileHasObject, I!OneOriginal
<1>10. ReportSound'
  BY <1>3, <1>5, ReportGoesOn DEF IntakeInv
<1> QED
  BY <1>6, <1>8, <1>9, <1>10 DEF IntakeInv

(* The first read of a report notes what there is; each part is true of it. *)
LEMMA ReportReadsKeeps ==
    ASSUME IntakeInv, NEW query \in I!ReportReadings, I!ReportReads(query) PROVE IntakeInv'
<1> DEFINE begun == IF report.read = {}
                      THEN [I!NoReport EXCEPT !.held = I!Active \cap objects,
                                              !.missing = I!Active \ objects]
                      ELSE report
           next == [begun EXCEPT
                       !.read = @ \cup {query},
                       !.files = IF query = "files" THEN I!ReconciliationFiles ELSE @,
                       !.references = IF query = "references" THEN I!Active ELSE @,
                       !.objects = IF query = "objects" THEN objects ELSE @]
<1>1. report' = next /\ UNCHANGED <<objects, files, uploads, lost>>
  BY DEF I!ReportReads
<1>2. /\ I!Active \subseteq I!Stored /\ I!Stored \subseteq Keys /\ objects \subseteq Keys
      /\ I!ReconciliationFiles = I!Active
      /\ report \in I!Report
  BY DEF I!Active, I!Stored, I!ReconciliationFiles, IntakeInv, I!TypeOK, I!File
<1>3. /\ begun \in I!Report
      /\ begun.held \subseteq objects \cap I!Stored
      /\ begun.missing \subseteq I!Stored \ objects
      /\ "objects" \in begun.read => /\ begun.held \subseteq begun.objects
                                     /\ begun.missing \cap begun.objects = {}
      /\ "files" \in begun.read => begun.missing \cap I!Active \subseteq begun.files
      /\ "references" \in begun.read => begun.held \cap I!Active \subseteq begun.references
  <2>1. CASE report.read = {}
    <3>1. /\ begun \in I!Report /\ begun.read = {}
          /\ begun.held = I!Active \cap objects /\ begun.missing = I!Active \ objects
      BY <1>2, <2>1 DEF I!NoReport, I!Report
    <3> QED
      BY <1>2, <3>1
  <2>2. CASE report.read # {}
    BY <1>2, <2>2 DEF IntakeInv, ReportSound
  <2> QED
    BY <2>1, <2>2
<1> HIDE DEF begun
<1>4. /\ next \in I!Report
      /\ next.read = begun.read \cup {query} /\ next.held = begun.held /\ next.missing = begun.missing
      /\ next.files = IF query = "files" THEN I!Active ELSE begun.files
      /\ next.references = IF query = "references" THEN I!Active ELSE begun.references
      /\ next.objects = IF query = "objects" THEN objects ELSE begun.objects
  <2> DEFINE found == IF query = "files" THEN I!Active ELSE begun.files
             named == IF query = "references" THEN I!Active ELSE begun.references
             listed == IF query = "objects" THEN objects ELSE begun.objects
  <2>1. begun \in I!Report /\ I!ReconciliationFiles = I!Active
    BY <1>2, <1>3
  <2> HIDE DEF begun
  <2>2. next = [begun EXCEPT !.read = begun.read \cup {query}, !.files = found,
                             !.references = named, !.objects = listed]
    BY <2>1
  <2>3. /\ begun.read \cup {query} \in SUBSET I!ReportReadings /\ found \in SUBSET Keys
        /\ named \in SUBSET Keys /\ listed \in SUBSET Keys
    BY <1>2, <2>1 DEF I!Report
  <2> HIDE DEF next, found, named, listed
  <2>4. /\ next \in I!Report
        /\ next.read = begun.read \cup {query} /\ next.held = begun.held
        /\ next.missing = begun.missing
        /\ next.files = found /\ next.references = named /\ next.objects = listed
    BY <2>1, <2>2, <2>3 DEF I!Report
  <2> QED
    BY <2>4 DEF found, named, listed
<1> HIDE DEF next
<1>5. I!Stored' = I!Stored /\ I!Active' = I!Active
  BY <1>1 DEF I!Stored, I!Active
<1>6. "objects" \in next.read => /\ next.held \subseteq next.objects
                                 /\ next.missing \cap next.objects = {}
  BY <1>3, <1>4
<1>7. "files" \in next.read => next.missing \cap I!Active \subseteq next.files
  BY <1>3, <1>4
<1>8. "references" \in next.read => next.held \cap I!Active \subseteq next.references
  BY <1>3, <1>4
<1>9. ReportSound'
  BY <1>1, <1>3, <1>4, <1>5, <1>6, <1>7, <1>8 DEF ReportSound
<1>10. I!TypeOK' /\ HandsApart' /\ HandsStaged' /\ UploadsSound' /\ LocksApart'
  BY <1>1, <1>4, <1>5 DEF IntakeInv, I!TypeOK, HandsApart, HandsStaged, UploadsSound, LocksApart, Hand
<1>11. LocksKnow' /\ I!FileHasObject' /\ I!OneOriginal'
  BY <1>1, <1>5 DEF IntakeInv, LocksKnow, I!Duplicates, I!FileHasObject, I!OneOriginal
<1> QED
  BY <1>9, <1>10, <1>11 DEF IntakeInv

LEMMA EndReportKeeps == ASSUME IntakeInv, I!EndReport PROVE IntakeInv'
<1>1. /\ report' = I!NoReport /\ UNCHANGED <<objects, files, uploads, lost>>
      /\ I!NoReport \in I!Report /\ I!NoReport.read = {}
  BY DEF I!EndReport, I!NoReport, I!Report
<1>2. I!Stored' = I!Stored /\ I!Active' = I!Active
  BY <1>1 DEF I!Stored, I!Active
<1>3. I!TypeOK' /\ HandsApart' /\ HandsStaged' /\ UploadsSound' /\ LocksApart'
  BY <1>1, <1>2 DEF IntakeInv, I!TypeOK, HandsApart, HandsStaged, UploadsSound, LocksApart, Hand
<1>4. LocksKnow' /\ I!FileHasObject' /\ I!OneOriginal'
  BY <1>1, <1>2 DEF IntakeInv, LocksKnow, I!Duplicates, I!FileHasObject, I!OneOriginal
<1>5. ReportSound'
  BY <1>1 DEF ReportSound
<1> QED
  BY <1>3, <1>4, <1>5 DEF IntakeInv

LEMMA IntakeStutters == ASSUME IntakeInv, UNCHANGED I!vars PROVE IntakeInv'
<1>1. I!Stored' = I!Stored /\ I!Active' = I!Active
  BY DEF I!vars, I!Stored, I!Active
<1>2. I!TypeOK' /\ HandsApart' /\ HandsStaged' /\ UploadsSound' /\ LocksApart'
  BY <1>1 DEF I!vars, IntakeInv, I!TypeOK, HandsApart, HandsStaged, UploadsSound, LocksApart, Hand
<1>3. LocksKnow' /\ I!FileHasObject' /\ I!OneOriginal' /\ ReportSound'
  BY <1>1 DEF I!vars, IntakeInv, LocksKnow, I!Duplicates, I!FileHasObject, I!OneOriginal, ReportSound
<1> QED
  BY <1>2, <1>3 DEF IntakeInv

LEMMA IntakeStep == ASSUME IntakeInv, [I!Next]_(I!vars) PROVE IntakeInv'
<1>1. CASE I!Next
  BY <1>1, PutPrivateObjectKeeps, InspectKeeps, RejectFileKeeps, FindDuplicateKeeps,
     RejectRequestKeeps, CreateIntakeResourcesKeeps, PersistFailsKeeps, PersistAnswerLostKeeps,
     CrashKeeps, SoftDeleteKeepsFiles, ReportReadsKeeps, EndReportKeeps DEF I!Next
<1>2. CASE UNCHANGED I!vars
  BY <1>2, IntakeStutters
<1> QED
  BY <1>1, <1>2

(* A file keeps its object unless the answer to its commit was lost, only one
   original its bytes, and the report is right about the files that were there
   when it began: upload and its cleaning up, the lock of the checksum, and the
   three reads of the reconciliation report, however they interleave. *)
THEOREM FilesStayWhole == DocumentsSpec => []FilesAreKept
<1>1. DocumentsInit => IntakeInv
  BY IntakeBegins DEF DocumentsInit
<1>2. IntakeInv /\ [DocumentsNext]_documentsVars => IntakeInv'
  <2>1. [DocumentsNext]_documentsVars => [I!Next]_(I!vars)
    BY DEF DocumentsNext, documentsVars, intakeVars, I!vars
  <2> QED
    BY <2>1, IntakeStep
<1>3. IntakeInv => FilesAreKept
  <2> SUFFICES ASSUME IntakeInv PROVE I!TypeOK /\ I!FilesAreKept /\ I!ReportIsTrue
    BY DEF FilesAreKept
  <2>1. I!TypeOK /\ I!FilesAreKept
    BY DEF IntakeInv, I!FilesAreKept
  <2>2. I!ReportIsTrue
    BY DEF IntakeInv, ReportSound, I!ReportIsTrue, I!ReportReadings, I!MissingObjectFiles, I!OrphanObjects
  <2> QED
    BY <2>1, <2>2
<1> QED
  BY <1>1, <1>2, <1>3, PTL DEF DocumentsSpec

-----------------------------------------------------------------------------
(* Paging *)

Columns == {"createdAt", "updatedAt", "occurredAt"}
(* Whether a row comes after a place of the list that is read. *)
Follows(i, c) == G!Follows(i, c, list[1])
(* What was received is behind the cursor, *)
ReceivedIsBehind ==
    reader.more => \A i \in Ids : reader.received[i] > 0 => G!Begun /\ ~Follows(i, reader.cursor)
(* what stayed in its place and was not received is ahead of it, *)
RestIsAhead ==
    reader.more /\ G!Begun =>
        \A i \in throughout : reader.received[i] = 0 => Follows(i, reader.cursor)
(* and the row the cursor was made of was received, and is edited to later
   times only. *)
CursorIsOfARow ==
    G!Begun => /\ reader.cursor.id \in Ids /\ reader.received[reader.cursor.id] > 0
               /\ list[1].by = "updatedAt" =>
                      rows[reader.cursor.id]["updatedAt"] >= reader.cursor.time

(* The invariant of Paging. *)
PagingInv ==
    /\ G!TypeOK
    /\ ReceivedIsBehind /\ RestIsAhead /\ CursorIsOfARow
    /\ G!ReceivedOnce /\ G!NothingSkipped

(* Each service makes its cursor of the column its repository orders by; only
   the lists by edition are newest first of a column that changes. *)
LEMMA CursorsFit ==
    ASSUME list \in G!Lists
    PROVE  /\ list[1].by = list[2] /\ list[1].by \in Columns /\ list[1].newest \in BOOLEAN
           /\ list[1].by = "updatedAt" => list[1].newest
<1> DEFINE Pairs == {<<G!NewestFirst("createdAt"), "createdAt">>, <<G!OldestFirst("createdAt"), "createdAt">>,
                     <<G!NewestFirst("updatedAt"), "updatedAt">>, <<G!OldestFirst("occurredAt"), "occurredAt">>}
<1>1. G!Lists = Pairs
  BY DEF G!Lists, G!TasksOrder, G!FilesOrder, G!PersonsOrder, G!DocumentsOrder, G!ExtractionsOrder,
     G!JobsOrder, G!AuditOrder, G!ParticipantsOrder, G!AssignableOrder, G!ManagedOrder, G!CasesOrder,
     G!PersonCasesOrder, G!TimelineOrder, G!TasksCursor, G!FilesCursor, G!PersonsCursor,
     G!DocumentsCursor, G!ExtractionsCursor, G!JobsCursor, G!AuditCursor, G!ParticipantsCursor,
     G!AssignableCursor, G!ManagedCursor, G!CasesCursor, G!PersonCasesCursor, G!TimelineCursor
<1>2. ASSUME NEW l \in Pairs
      PROVE  /\ l[1].by = l[2] /\ l[1].by \in Columns /\ l[1].newest \in BOOLEAN
             /\ l[1].by = "updatedAt" => l[1].newest
  <2>1. CASE l = <<G!NewestFirst("createdAt"), "createdAt">>
    BY <2>1 DEF G!NewestFirst, Columns
  <2>2. CASE l = <<G!OldestFirst("createdAt"), "createdAt">>
    BY <2>2 DEF G!OldestFirst, Columns
  <2>3. CASE l = <<G!NewestFirst("updatedAt"), "updatedAt">>
    BY <2>3 DEF G!NewestFirst, Columns
  <2>4. CASE l = <<G!OldestFirst("occurredAt"), "occurredAt">>
    BY <2>4 DEF G!OldestFirst, Columns
  <2> QED
    BY <2>1, <2>2, <2>3, <2>4
<1> QED
  BY <1>1, <1>2

LEMMA TimesOfRows ==
    ASSUME G!TypeOK
    PROVE  /\ \A i \in Ids, c \in Columns : rows[i][c] \in 1 .. (MaxTime + 1) /\ rows[i][c] \in Nat
           /\ \A i \in Ids : i \in Nat
           /\ \A i \in Ids : rows[i][list[1].by] \in Nat /\ rows[i][list[1].by] > 0
<1>1. rows \in [Ids -> G!Row] /\ list \in G!Lists /\ MaxTime \in Nat /\ Ids \subseteq Nat
  BY PagingAssumed DEF G!PagingAssumption, G!TypeOK
<1>2. \A i \in Ids, c \in Columns : rows[i][c] \in 1 .. (MaxTime + 1)
  BY <1>1 DEF G!Row, G!Times, G!Undated, Columns
<1> QED
  BY <1>1, <1>2, CursorsFit

(* The ordering of a list is total on its rows: ties are broken by the id. *)
LEMMA TotalOrder ==
    ASSUME G!TypeOK
    PROVE  /\ \A i, j \in Ids : i # j => Follows(i, G!Place(j)) \/ Follows(j, G!Place(i))
           /\ \A i, j \in Ids : ~(Follows(i, G!Place(j)) /\ Follows(j, G!Place(i)))
           /\ \A i, j \in Ids, c \in [time : Nat, id : Nat] :
                  Follows(i, G!Place(j)) /\ Follows(j, c) => Follows(i, c)
           /\ \A i \in Ids : G!Place(i) \in [time : Nat, id : Nat]
<1> DEFINE T(i) == rows[i][list[1].by]
<1>1. \A i \in Ids : i \in Nat /\ T(i) \in Nat
  BY TimesOfRows
<1>2. \A i, j \in Ids :
          Follows(i, G!Place(j)) <=> IF list[1].newest THEN T(i) < T(j) \/ (T(i) = T(j) /\ i < j)
                                    ELSE T(i) > T(j) \/ (T(i) = T(j) /\ i > j)
  BY DEF Follows, G!Follows, G!Place
<1>3. \A i \in Ids, c \in [time : Nat, id : Nat] :
          Follows(i, c) <=> IF list[1].newest THEN T(i) < c.time \/ (T(i) = c.time /\ i < c.id)
                            ELSE T(i) > c.time \/ (T(i) = c.time /\ i > c.id)
  BY DEF Follows, G!Follows
<1>4. \A i \in Ids : G!Place(i) \in [time : Nat, id : Nat]
  BY <1>1 DEF G!Place
<1> HIDE DEF T
<1>5. \A i, j \in Ids : i # j => Follows(i, G!Place(j)) \/ Follows(j, G!Place(i))
  BY <1>1, <1>2
<1>6. \A i, j \in Ids : ~(Follows(i, G!Place(j)) /\ Follows(j, G!Place(i)))
  BY <1>1, <1>2
<1>7. \A i, j \in Ids, c \in [time : Nat, id : Nat] :
          Follows(i, G!Place(j)) /\ Follows(j, c) => Follows(i, c)
  <2> SUFFICES ASSUME NEW i \in Ids, NEW j \in Ids, NEW c \in [time : Nat, id : Nat],
                      Follows(i, G!Place(j)), Follows(j, c)
               PROVE  Follows(i, c)
    OBVIOUS
  <2>1. c.time \in Nat /\ c.id \in Nat
    OBVIOUS
  <2> QED
    BY <1>1, <1>2, <1>3, <2>1
<1> QED
  BY <1>4, <1>5, <1>6, <1>7

LEMMA CountsOfRows ==
    /\ \A Z : G!Cardinality(Z) = Cardinality(Z)
    /\ \A Z : Z \subseteq Ids => IsFiniteSet(Z) /\ Cardinality(Z) \in Nat
<1>1. \A Z : G!Cardinality(Z) = Cardinality(Z)
  BY DEF G!Cardinality, Cardinality
<1>2. IsFiniteSet(Ids)
  <2>1. G!IsFiniteSet(Ids)
    BY PagingAssumed DEF G!PagingAssumption
  <2> QED
    BY <2>1 DEF IsFiniteSet, G!IsFiniteSet
<1>3. \A Z : Z \subseteq Ids => IsFiniteSet(Z)
  BY <1>2, FS_Subset
<1> QED
  BY <1>1, <1>3, FS_CardinalityType

(* A row that comes later has more rows ahead of it. *)
LEMMA LaterHasMoreAhead ==
    ASSUME G!TypeOK, NEW Z, Z \subseteq Ids, NEW i \in Z, NEW j \in Z, i # j, Follows(i, G!Place(j))
    PROVE  Cardinality(G!Ahead(j, Z)) < Cardinality(G!Ahead(i, Z))
<1>1. G!Ahead(i, Z) \subseteq Z /\ G!Ahead(j, Z) \subseteq Z
  BY DEF G!Ahead
<1>2. G!Ahead(j, Z) \subseteq G!Ahead(i, Z)
  <2> SUFFICES ASSUME NEW k \in G!Ahead(j, Z) PROVE k \in G!Ahead(i, Z)
    OBVIOUS
  <2>1. k \in Z /\ k # j /\ Follows(j, G!Place(k))
    BY DEF G!Ahead, Follows
  <2>2. Follows(i, G!Place(k))
    BY <2>1, TotalOrder
  <2>3. k # i
    BY <2>1, TotalOrder
  <2> QED
    BY <2>1, <2>2, <2>3 DEF G!Ahead, Follows
<1>3. j \in G!Ahead(i, Z) /\ j \notin G!Ahead(j, Z)
  BY DEF G!Ahead, Follows
<1>4. IsFiniteSet(G!Ahead(i, Z)) /\ Cardinality(G!Ahead(i, Z)) \in Nat
      /\ Cardinality(G!Ahead(j, Z)) \in Nat
  BY <1>1, CountsOfRows
<1>5. Cardinality(G!Ahead(j, Z)) <= Cardinality(G!Ahead(i, Z))
      /\ (Cardinality(G!Ahead(j, Z)) = Cardinality(G!Ahead(i, Z)) => G!Ahead(j, Z) = G!Ahead(i, Z))
  BY <1>2, <1>4, FS_Subset
<1> QED
  BY <1>3, <1>4, <1>5

(* Some row of a page is the first, and the one it is cut at is the last. *)
LEMMA FirstOfPage ==
    ASSUME G!TypeOK, NEW Z, Z \subseteq Ids, Z # {}
    PROVE  \E i \in Z : G!Ahead(i, Z) = {}
<1> DEFINE N == {Cardinality(G!Ahead(i, Z)) : i \in Z}
<1>1. \A i \in Z : G!Ahead(i, Z) \subseteq Ids
  BY DEF G!Ahead
<1>2. N \subseteq Nat /\ N # {}
  BY <1>1, CountsOfRows
<1>3. \E m \in N : \A n \in N : m <= n
  BY <1>2, LeastNatural
<1>4. PICK i \in Z : \A j \in Z : Cardinality(G!Ahead(i, Z)) <= Cardinality(G!Ahead(j, Z))
  BY <1>3
<1>5. \A j \in Z : j # i => ~Follows(i, G!Place(j))
  BY <1>1, <1>4, CountsOfRows, LaterHasMoreAhead
<1> QED
  BY <1>5 DEF G!Ahead, Follows

LEMMA LastOfPage ==
    ASSUME G!TypeOK, NEW Z, Z \subseteq Ids, Z # {}
    PROVE  G!LastOf(Z) \in Z /\ \A j \in Z : j # G!LastOf(Z) => Follows(G!LastOf(Z), G!Place(j))
<1> DEFINE c == Cardinality(Z)
           N == {c - Cardinality(G!Ahead(i, Z)) : i \in Z}
<1>1. \A i \in Z : /\ G!Ahead(i, Z) \subseteq Z \ {i}
                   /\ Cardinality(G!Ahead(i, Z)) \in Nat
  BY CountsOfRows DEF G!Ahead
<1>2. IsFiniteSet(Z) /\ c \in Nat
  BY CountsOfRows
<1>3. \A i \in Z : IsFiniteSet(Z \ {i}) /\ Cardinality(Z \ {i}) = c - 1
  BY <1>2, FS_RemoveElement
<1>4. \A i \in Z : Cardinality(G!Ahead(i, Z)) <= c - 1
  <2> SUFFICES ASSUME NEW i \in Z PROVE Cardinality(G!Ahead(i, Z)) <= c - 1
    OBVIOUS
  <2>1. Cardinality(G!Ahead(i, Z)) <= Cardinality(Z \ {i})
    BY <1>1, <1>3, FS_Subset
  <2> QED
    BY <1>3, <2>1
<1>5. N \subseteq Nat /\ N # {}
  BY <1>1, <1>2, <1>4
<1>6. \E m \in N : \A n \in N : m <= n
  BY <1>5, LeastNatural
<1>7. PICK i \in Z : \A j \in Z : c - Cardinality(G!Ahead(i, Z)) <= c - Cardinality(G!Ahead(j, Z))
  BY <1>6
<1>8. \A j \in Z : j # i => ~Follows(j, G!Place(i))
  BY <1>1, <1>2, <1>7, LaterHasMoreAhead
<1>9. G!Ahead(i, Z) = Z \ {i}
  BY <1>8, TotalOrder DEF G!Ahead, Follows
<1>10. \E l \in Z : G!Cardinality(G!Ahead(l, Z)) = G!Cardinality(Z) - 1
  BY <1>3, <1>9, CountsOfRows
<1>11. G!LastOf(Z) \in Z /\ G!Cardinality(G!Ahead(G!LastOf(Z), Z)) = G!Cardinality(Z) - 1
  BY <1>10 DEF G!LastOf
<1> DEFINE l == G!LastOf(Z)
<1>12. l \in Z /\ Cardinality(G!Ahead(l, Z)) = c - 1
  BY <1>11, CountsOfRows
<1> HIDE DEF l
<1>13. G!Ahead(l, Z) = Z \ {l}
  BY <1>1, <1>3, <1>12, FS_Subset
<1>14. l \in Z /\ \A j \in Z : j # l => Follows(l, G!Place(j))
  BY <1>12, <1>13 DEF G!Ahead, Follows
<1> QED
  BY <1>14 DEF l

LEMMA PagingBegins == G!Init => PagingInv
<1> SUFFICES ASSUME G!Init PROVE PagingInv
  OBVIOUS
<1>1. reader = G!NewReader /\ throughout = shown /\ shown \subseteq Ids /\ list \in G!Lists
  BY DEF G!Init
<1>2. rows \in [Ids -> G!Row]
  <2>1. PICK place \in [Ids -> IF list[1].by = "occurredAt" THEN G!Times \cup {G!Undated} ELSE G!Times] :
            rows = [i \in Ids |-> IF list[1].by = "occurredAt" THEN G!NewRow(1, place[i])
                                  ELSE G!NewRow(place[i], G!Undated)]
    BY DEF G!Init
  <2>2. CASE list[1].by = "occurredAt"
    BY <2>1, <2>2, PagingAssumed DEF G!NewRow, G!Row, G!Times, G!Undated, G!PagingAssumption
  <2>3. CASE list[1].by # "occurredAt"
    BY <2>1, <2>3 DEF G!NewRow, G!Row
  <2> QED
    BY <2>2, <2>3
<1>3. G!TypeOK
  BY <1>1, <1>2, PagingAssumed DEF G!TypeOK, G!NewReader, G!Start, G!Undated, G!PagingAssumption
<1>4. ~G!Begun /\ reader.more /\ \A i \in Ids : reader.received[i] = 0
  BY <1>1 DEF G!NewReader, G!Begun
<1> QED
  BY <1>3, <1>4 DEF PagingInv, ReceivedIsBehind, RestIsAhead, CursorIsOfARow, G!ReceivedOnce,
     G!NothingSkipped

(* A page of the rows from the cursor on, and what is left of them. *)
LEMMA PageIsTaken ==
    ASSUME PagingInv
    PROVE  LET portion == G!Take(G!Rest)
           IN  /\ G!Rest \subseteq shown /\ portion \subseteq G!Rest /\ portion \subseteq Ids
               /\ G!Cardinality(G!Rest) <= Limit => portion = G!Rest
               /\ G!Cardinality(G!Rest) > Limit =>
                      /\ G!LastOf(portion) \in portion
                      /\ \A i \in portion : ~Follows(i, G!CursorOf(G!LastOf(portion)))
                      /\ \A i \in G!Rest \ portion : Follows(i, G!CursorOf(G!LastOf(portion)))
<1> DEFINE portion == G!Take(G!Rest)
           R == G!Rest
<1>1. G!TypeOK /\ shown \subseteq Ids /\ Limit \in Nat /\ Limit > 0
  BY PagingAssumed DEF G!PagingAssumption, PagingInv, G!TypeOK
<1>2. R \subseteq shown /\ portion \subseteq R /\ portion \subseteq Ids /\ R \subseteq Ids
  BY <1>1 DEF G!Rest, G!Take
<1>3. \A i \in R : portion = {j \in R : Cardinality(G!Ahead(j, R)) < Limit}
  BY CountsOfRows DEF G!Take
<1>4. \A i \in R : i \in portion <=> Cardinality(G!Ahead(i, R)) < Limit
  BY <1>3
<1> HIDE DEF portion, R
<1>5. ASSUME Cardinality(R) <= Limit PROVE portion = R
  <2> SUFFICES ASSUME NEW i \in R PROVE Cardinality(G!Ahead(i, R)) < Limit
    BY <1>2, <1>4
  <2>1. G!Ahead(i, R) \subseteq R \ {i} /\ IsFiniteSet(R) /\ Cardinality(R) \in Nat
    BY <1>2, CountsOfRows DEF G!Ahead
  <2>2. IsFiniteSet(R \ {i}) /\ Cardinality(R \ {i}) = Cardinality(R) - 1
    BY <2>1, FS_RemoveElement
  <2>3. Cardinality(G!Ahead(i, R)) <= Cardinality(R \ {i}) /\ Cardinality(G!Ahead(i, R)) \in Nat
    BY <2>1, <2>2, FS_Subset, FS_CardinalityType
  <2> QED
    BY <1>1, <1>5, <2>1, <2>2, <2>3
<1>6. ASSUME Cardinality(R) > Limit
      PROVE  /\ G!LastOf(portion) \in portion
             /\ \A i \in portion : ~Follows(i, G!CursorOf(G!LastOf(portion)))
             /\ \A i \in R \ portion : Follows(i, G!CursorOf(G!LastOf(portion)))
  <2>1. R # {}
    BY <1>1, <1>6, FS_EmptySet
  <2>2. portion # {}
    BY <1>1, <1>2, <1>4, <2>1, FirstOfPage, FS_EmptySet
  <2> DEFINE l == G!LastOf(portion)
  <2>3. l \in portion /\ \A j \in portion : j # l => Follows(l, G!Place(j))
    BY <1>1, <1>2, <2>2, LastOfPage
  <2>4. G!CursorOf(l) = G!Place(l)
    BY <1>1, CursorsFit DEF G!CursorOf, G!Place, G!TypeOK
  <2> HIDE DEF l
  <2>5. \A i \in portion : ~Follows(i, G!Place(l))
    BY <1>1, <1>2, <2>3, TotalOrder
  <2>6. \A i \in R \ portion : Follows(i, G!Place(l))
    <3> SUFFICES ASSUME NEW i \in R \ portion, ~Follows(i, G!Place(l)) PROVE FALSE
      OBVIOUS
    <3>1. i # l /\ i \in Ids /\ l \in Ids /\ l \in R
      BY <1>2, <2>3
    <3>2. Follows(l, G!Place(i))
      BY <1>1, <3>1, TotalOrder
    <3>3. Cardinality(G!Ahead(i, R)) < Cardinality(G!Ahead(l, R))
      BY <1>1, <1>2, <3>1, <3>2, LaterHasMoreAhead
    <3>4. G!Ahead(i, R) \subseteq Ids /\ G!Ahead(l, R) \subseteq Ids
      BY <1>2 DEF G!Ahead
    <3>5. Cardinality(G!Ahead(i, R)) \in Nat /\ Cardinality(G!Ahead(l, R)) \in Nat
      BY <3>4, CountsOfRows
    <3> QED
      BY <1>1, <1>4, <2>3, <3>1, <3>3, <3>5
  <2> QED
    BY <2>3, <2>4, <2>5, <2>6 DEF l
<1> QED
  BY <1>2, <1>5, <1>6, CountsOfRows DEF portion, R

LEMMA PlacesAreNumbers ==
    ASSUME MaxTime \in Nat, Ids \subseteq Nat, NEW d \in [time : 0 .. (MaxTime + 1), id : Ids \cup {0}]
    PROVE  d \in [time : Nat, id : Nat]
<1>1. 0 .. (MaxTime + 1) \subseteq Nat
  OBVIOUS
<1>2. Ids \cup {0} \subseteq Nat
  OBVIOUS
<1> QED
  BY <1>1, <1>2, Zenon

(* A page is received once: it follows the cursor, what was received does not. *)
LEMMA ReadPageKeeps == ASSUME PagingInv, G!ReadPage PROVE PagingInv'
<1> DEFINE portion == G!Take(G!Rest)
           n == G!Cardinality(G!Rest)
           more == n > Limit
           l == G!LastOf(portion)
           c == reader.cursor
           next == IF more THEN G!CursorOf(l) ELSE c
           got == [i \in Ids |-> reader.received[i] + IF i \in portion THEN 1 ELSE 0]
<1>1. /\ reader.more /\ reader' = [cursor |-> next, more |-> more, received |-> got]
      /\ UNCHANGED <<list, rows, shown, throughout>>
  BY DEF G!ReadPage
<1>2. /\ G!TypeOK /\ reader.received \in [Ids -> Nat] /\ throughout \subseteq shown
      /\ shown \subseteq Ids /\ c \in [time : 0 .. (MaxTime + 1), id : Ids \cup {0}]
      /\ MaxTime \in Nat /\ Ids \subseteq Nat
  BY PagingAssumed DEF PagingInv, G!TypeOK, G!Undated, G!PagingAssumption
<1>3. /\ G!Rest \subseteq shown /\ portion \subseteq G!Rest /\ portion \subseteq Ids
      /\ more \in BOOLEAN /\ (~more => portion = G!Rest)
      /\ more => /\ l \in portion
                 /\ \A i \in portion : ~Follows(i, G!CursorOf(l))
                 /\ \A i \in G!Rest \ portion : Follows(i, G!CursorOf(l))
  <2>1. G!Rest \subseteq Ids
    BY <1>2 DEF G!Rest
  <2>2. n \in Nat /\ Limit \in Nat
    BY <2>1, CountsOfRows, PagingAssumed DEF G!PagingAssumption
  <2>3. ~more => n <= Limit
    BY <2>2
  <2>4. more \in BOOLEAN
    <3> HIDE DEF n
    <3> QED
      BY <2>2
  <2> QED
    BY <2>3, <2>4, PageIsTaken
<1> HIDE DEF portion, more, l
<1>4. \A i \in G!Rest : reader.received[i] = 0
  BY <1>1, <1>2 DEF PagingInv, ReceivedIsBehind, G!Rest, Follows
<1>5. \A i \in throughout : reader.received[i] = 0 => i \in G!Rest
  BY <1>1, <1>2 DEF PagingInv, RestIsAhead, G!Rest, Follows
<1>6. /\ got \in [Ids -> Nat] /\ \A i \in portion : got[i] = 1
      /\ \A i \in Ids \ portion : got[i] = reader.received[i]
  <2>1. got \in [Ids -> Nat] /\ \A i \in Ids \ portion : got[i] = reader.received[i]
    BY <1>2
  <2>2. \A i \in portion : got[i] = 1
    BY <1>2, <1>3, <1>4
  <2> QED
    BY <2>1, <2>2
<1>7. more => /\ l \in Ids /\ G!CursorOf(l).id = l
              /\ G!CursorOf(l).time = rows[l][list[1].by] /\ G!CursorOf(l).time > 0
              /\ G!CursorOf(l) \in [time : 0 .. (MaxTime + 1), id : Ids \cup {0}]
  <2> SUFFICES ASSUME more PROVE G!CursorOf(l) = [time |-> rows[l][list[1].by], id |-> l] /\ l \in Ids
                                 /\ rows[l][list[1].by] \in 1 .. (MaxTime + 1)
    BY <1>2
  <2>1. l \in Ids
    BY <1>2, <1>3
  <2>2. list[1].by = list[2] /\ list[1].by \in Columns
    BY <1>2, CursorsFit DEF G!TypeOK
  <2> QED
    BY <1>2, <2>1, <2>2, TimesOfRows DEF G!CursorOf
<1> HIDE DEF got
<1>8. reader'.cursor = next /\ reader'.more = more /\ reader'.received = got
  BY <1>1
<1>9. G!TypeOK'
  BY <1>1, <1>2, <1>3, <1>6, <1>7 DEF G!TypeOK, G!Undated
<1>10. G!ReceivedOnce'
  BY <1>6, <1>8 DEF PagingInv, G!ReceivedOnce
<1>11. G!NothingSkipped'
  <2> SUFFICES ASSUME ~more, NEW i \in throughout PROVE got[i] > 0
    BY <1>1, <1>8 DEF G!NothingSkipped
  <2>1. i \in Ids /\ reader.received[i] \in Nat
    BY <1>2
  <2>2. i \in portion \/ reader.received[i] # 0
    BY <1>3, <1>5
  <2>3. i \in portion \/ got[i] = reader.received[i]
    BY <1>6, <2>1
  <2> QED
    BY <1>6, <2>1, <2>2, <2>3
<1>12. more => G!Begun'
  BY <1>7, <1>8 DEF G!Begun, G!Start
<1>13. \A i, d : Follows(i, d)' = Follows(i, d)
  BY <1>1 DEF Follows, G!Follows
<1>14. ReceivedIsBehind'
  <2> SUFFICES ASSUME more, NEW i \in Ids, got[i] > 0
               PROVE  ~Follows(i, G!CursorOf(l))
    BY <1>8, <1>12, <1>13 DEF ReceivedIsBehind
  <2>1. CASE i \in portion
    BY <1>3, <2>1
  <2>2. CASE i \notin portion
    <3>1. reader.received[i] > 0
      BY <1>6, <2>2
    <3>2. G!Begun /\ ~Follows(i, c)
      BY <1>1, <3>1 DEF PagingInv, ReceivedIsBehind
    <3>3. Follows(l, c)
      BY <1>3, <3>2 DEF G!Rest, Follows
    <3>4. G!CursorOf(l) = G!Place(l)
      BY <1>2, CursorsFit DEF G!CursorOf, G!Place, G!TypeOK
    <3>5. c \in [time : Nat, id : Nat]
      BY <1>2, PlacesAreNumbers
    <3>6. l \in Ids
      BY <1>7
    <3> HIDE DEF c
    <3>7. Follows(i, G!Place(l)) => Follows(i, c)
      <4>1. G!TypeOK
        BY <1>2
      <4>2. \A j, k \in Ids, d \in [time : Nat, id : Nat] :
                Follows(j, G!Place(k)) /\ Follows(k, d) => Follows(j, d)
        BY <4>1, TotalOrder
      <4> QED
        BY <3>3, <3>5, <3>6, <4>2, Zenon
    <3> QED
      BY <3>2, <3>4, <3>7
  <2> QED
    BY <2>1, <2>2
<1>15. RestIsAhead'
  <2> SUFFICES ASSUME more, NEW i \in throughout, got[i] = 0 PROVE Follows(i, G!CursorOf(l))
    <3>1. reader'.cursor = (IF more THEN G!CursorOf(l) ELSE c) /\ throughout' = throughout
      BY <1>1, <1>8
    <3> QED
      BY <1>2, <1>8, <1>13, <3>1 DEF RestIsAhead
  <2>1. i \in Ids
    BY <1>2
  <2>2. i \notin portion
    BY <1>6, <2>1
  <2>3. i \in G!Rest
    BY <1>5, <1>6, <2>1, <2>2
  <2> QED
    BY <1>3, <2>2, <2>3
<1>16. CursorIsOfARow'
  <2>1. CASE more
    <3>1. reader'.cursor.id = l /\ l \in Ids /\ reader'.received[l] > 0
          /\ reader'.cursor.time = rows[l][list[1].by]
      BY <1>3, <1>6, <1>7, <1>8, <2>1
    <3>2. list[1].by = "updatedAt" => rows[l]["updatedAt"] = reader'.cursor.time /\ rows[l]["updatedAt"] \in Nat
      BY <1>2, <3>1, TimesOfRows DEF Columns
    <3> QED
      BY <1>1, <3>1, <3>2 DEF CursorIsOfARow
  <2>2. CASE ~more
    <3>1. reader'.cursor = reader.cursor
      BY <1>8, <2>2
    <3>2. \A i \in Ids : reader.received[i] > 0 => reader'.received[i] > 0
      BY <1>6, <1>8
    <3> HIDE DEF next, c
    <3> QED
      BY <1>1, <3>1, <3>2 DEF PagingInv, CursorIsOfARow, G!Begun, G!Start
  <2> QED
    BY <2>1, <2>2
<1> QED
  BY <1>9, <1>10, <1>11, <1>14, <1>15, <1>16 DEF PagingInv

(* A row changes places or comes within the filter, and the reader is as it was:
   of what was received nothing comes to follow the cursor, of what stayed
   nothing comes before it. *)
LEMMA RowsMove ==
    ASSUME PagingInv, UNCHANGED <<list, reader>>, rows' \in [Ids -> G!Row],
           shown' \subseteq Ids, throughout' \subseteq throughout \cap shown',
           \A i \in Ids : reader.received[i] > 0 /\ ~Follows(i, reader.cursor)
                          => ~Follows(i, reader.cursor)',
           \A i \in throughout' : Follows(i, reader.cursor) => Follows(i, reader.cursor)',
           \A i \in Ids : reader.received[i] > 0 /\ list[1].by = "updatedAt" =>
                          rows'[i]["updatedAt"] >= rows[i]["updatedAt"]
    PROVE  PagingInv'
<1>1. G!TypeOK'
  BY DEF PagingInv, G!TypeOK
<1>2. ReceivedIsBehind'
  BY DEF PagingInv, ReceivedIsBehind, G!Begun, G!Start
<1>3. RestIsAhead'
  BY DEF PagingInv, RestIsAhead, G!Begun, G!Start
<1>4. CursorIsOfARow'
  <2> SUFFICES ASSUME G!Begun
               PROVE  /\ reader.cursor.id \in Ids /\ reader.received[reader.cursor.id] > 0
                      /\ list[1].by = "updatedAt" =>
                             rows'[reader.cursor.id]["updatedAt"] >= reader.cursor.time
    BY DEF CursorIsOfARow, G!Begun, G!Start
  <2>1. /\ reader.cursor.id \in Ids /\ reader.received[reader.cursor.id] > 0
        /\ list[1].by = "updatedAt" => rows[reader.cursor.id]["updatedAt"] >= reader.cursor.time
    BY DEF PagingInv, CursorIsOfARow
  <2>2. /\ rows[reader.cursor.id]["updatedAt"] \in Nat
        /\ rows'[reader.cursor.id]["updatedAt"] \in Nat
    <3>1. \A i \in Ids : rows[i]["updatedAt"] \in Nat
      BY TimesOfRows DEF PagingInv, Columns
    <3>2. \A i \in Ids : rows'[i]["updatedAt"] \in Nat
      BY DEF G!Row, G!Times
    <3> QED
      BY <2>1, <3>1, <3>2
  <2>3. reader.cursor.time \in Nat
    BY PagingAssumed DEF G!PagingAssumption, PagingInv, G!TypeOK, G!Undated
  <2> QED
    BY <2>1, <2>2, <2>3
<1>5. G!ReceivedOnce' /\ G!NothingSkipped'
  BY DEF PagingInv, G!ReceivedOnce, G!NothingSkipped
<1> QED
  BY <1>1, <1>2, <1>3, <1>4, <1>5 DEF PagingInv

LEMMA AppearKeeps ==
    ASSUME PagingInv, NEW i \in Ids, NEW t \in G!Times, NEW o \in G!Facts, G!Appear(i, t, o)
    PROVE  PagingInv'
<1> DEFINE row == G!NewRow(t, o)
<1>1. /\ i \notin shown /\ reader.received[i] = 0 /\ rows' = [rows EXCEPT ![i] = row]
      /\ shown' = shown \cup {i} /\ UNCHANGED <<list, reader, throughout>>
  BY DEF G!Appear
<1>2. row \in G!Row
  BY DEF G!Facts, G!Row, G!NewRow
<1> HIDE DEF row
<1>3. /\ rows' \in [Ids -> G!Row] /\ \A j \in Ids : j # i => rows'[j] = rows[j]
      /\ i \notin throughout /\ throughout \subseteq Ids
  BY <1>1, <1>2 DEF PagingInv, G!TypeOK
<1>4. \A j \in Ids : j # i => Follows(j, reader.cursor)' = Follows(j, reader.cursor)
  BY <1>1, <1>3 DEF Follows, G!Follows
<1>5. \A j \in Ids : reader.received[j] > 0 => rows'[j]["updatedAt"] >= rows[j]["updatedAt"]
  <2>1. \A j \in Ids : rows[j]["updatedAt"] \in Nat
    BY TimesOfRows DEF PagingInv, Columns
  <2> QED
    BY <1>1, <1>3, <2>1
<1>6. throughout' \subseteq throughout \cap shown' /\ shown' \subseteq Ids
  BY <1>1 DEF PagingInv, G!TypeOK
<1> QED
  BY <1>1, <1>3, <1>4, <1>5, <1>6, RowsMove

LEMMA DisappearKeeps == ASSUME PagingInv, NEW i \in Ids, G!Disappear(i) PROVE PagingInv'
<1>1. /\ UNCHANGED <<list, rows, reader>> /\ shown' = shown \ {i} /\ throughout' = throughout \ {i}
  BY DEF G!Disappear
<1>2. \A j \in Ids : Follows(j, reader.cursor)' = Follows(j, reader.cursor)
  BY <1>1 DEF Follows, G!Follows
<1>3. rows' \in [Ids -> G!Row] /\ shown' \subseteq Ids /\ throughout' \subseteq throughout \cap shown'
      /\ throughout' \subseteq Ids
  BY <1>1 DEF PagingInv, G!TypeOK
<1>4. \A j \in Ids : rows'[j]["updatedAt"] >= rows[j]["updatedAt"]
  BY <1>1, TimesOfRows DEF PagingInv, Columns
<1> QED
  BY <1>1, <1>2, <1>3, <1>4, RowsMove

(* An edition moves a row to the front of the lists by edition, where it does not
   follow the cursor, and leaves it in its place in the others. *)
LEMMA EditionKeeps ==
    ASSUME PagingInv, NEW i \in Ids, NEW t \in G!Times, \A j \in Ids : rows[j].updatedAt < t,
           rows' = [rows EXCEPT ![i].updatedAt = t], UNCHANGED <<list, reader>>,
           shown' \subseteq Ids, throughout' \subseteq throughout \cap shown',
           list[1].by = "updatedAt" => i \notin throughout'
    PROVE  PagingInv'
<1> DEFINE row == [rows[i] EXCEPT !.updatedAt = t]
<1>1. rows \in [Ids -> G!Row] /\ rows[i] \in G!Row
  BY DEF PagingInv, G!TypeOK
<1>2. /\ rows' = [rows EXCEPT ![i] = row] /\ row \in G!Row /\ row["updatedAt"] = t
      /\ row["createdAt"] = rows[i]["createdAt"] /\ row["occurredAt"] = rows[i]["occurredAt"]
  BY <1>1 DEF G!Row
<1> HIDE DEF row
<1>3. /\ rows' \in [Ids -> G!Row] /\ rows'[i] = row
      /\ \A j \in Ids : j # i => rows'[j] = rows[j]
  BY <1>1, <1>2
<1>4. \A j \in Ids : j # i => Follows(j, reader.cursor)' = Follows(j, reader.cursor)
  BY <1>3 DEF Follows, G!Follows
<1>5. list[1].by \in Columns /\ (list[1].by = "updatedAt" => list[1].newest)
  BY CursorsFit DEF PagingInv, G!TypeOK
<1>6. list[1].by # "updatedAt" => Follows(i, reader.cursor)' = Follows(i, reader.cursor)
  BY <1>2, <1>3, <1>5 DEF Follows, G!Follows, Columns
<1>7. /\ \A j \in Ids : rows[j]["updatedAt"] \in Nat /\ rows[j]["updatedAt"] < t
      /\ t \in Nat /\ reader.cursor.time \in Nat
  BY <1>1, TimesOfRows, PagingAssumed
     DEF G!PagingAssumption, PagingInv, G!TypeOK, G!Undated, G!Times, G!Row, Columns
<1>8. list[1].by = "updatedAt" => ~Follows(i, reader.cursor)'
  <2> SUFFICES ASSUME list[1].by = "updatedAt" PROVE ~Follows(i, reader.cursor)'
    OBVIOUS
  <2>1. reader.cursor.time < t
    <3>1. CASE G!Begun
      <4>1. reader.cursor.id \in Ids /\ rows[reader.cursor.id]["updatedAt"] >= reader.cursor.time
        BY <3>1 DEF PagingInv, CursorIsOfARow
      <4> QED
        BY <1>7, <4>1
    <3>2. CASE ~G!Begun
      <4>1. reader.cursor.time = 0 /\ t > 0
        BY <3>2, PagingAssumed DEF G!PagingAssumption, G!Begun, G!Start, G!Times
      <4> QED
        BY <4>1
    <3> QED
      BY <3>1, <3>2
  <2>2. rows'[i][list'[1].by] = t /\ list'[1].newest
    BY <1>2, <1>3, <1>5
  <2> QED
    BY <1>7, <2>1, <2>2 DEF Follows, G!Follows
<1>9. \A j \in Ids : rows'[j]["updatedAt"] >= rows[j]["updatedAt"]
  BY <1>2, <1>3, <1>7
<1>10. \A j \in throughout' : j \in Ids /\ (Follows(j, reader.cursor) => Follows(j, reader.cursor)')
  <2>1. throughout' \subseteq Ids
    BY DEF PagingInv, G!TypeOK
  <2> QED
    BY <1>4, <1>6, <2>1
<1>11. \A j \in Ids : ~Follows(j, reader.cursor) => ~Follows(j, reader.cursor)'
  BY <1>4, <1>6, <1>8
<1> QED
  BY <1>3, <1>9, <1>10, <1>11, RowsMove

LEMMA TouchKeeps ==
    ASSUME PagingInv, NEW i \in Ids, NEW t \in G!Times, G!Touch(i, t) PROVE PagingInv'
<1>1. /\ \A j \in Ids : rows[j].updatedAt < t
      /\ rows' = [rows EXCEPT ![i].updatedAt = t] /\ UNCHANGED <<list, reader, shown>>
      /\ throughout' = IF list[1].by = "updatedAt" THEN throughout \ {i} ELSE throughout
  BY DEF G!Touch
<1>2. shown \subseteq Ids /\ throughout \subseteq shown
  BY DEF PagingInv, G!TypeOK
<1> QED
  BY <1>1, <1>2, EditionKeeps

LEMMA ReappearKeeps ==
    ASSUME PagingInv, NEW i \in Ids, NEW t \in G!Times, G!Reappear(i, t) PROVE PagingInv'
<1>1. /\ i \notin shown /\ \A j \in Ids : rows[j].updatedAt < t
      /\ rows' = [rows EXCEPT ![i].updatedAt = t] /\ UNCHANGED <<list, reader, throughout>>
      /\ shown' = shown \cup {i}
  BY DEF G!Reappear
<1>2. shown \subseteq Ids /\ throughout \subseteq shown
  BY DEF PagingInv, G!TypeOK
<1> QED
  BY <1>1, <1>2, EditionKeeps

LEMMA PagingStep == ASSUME PagingInv, [G!Next]_(G!vars) PROVE PagingInv'
<1>1. CASE G!Next
  BY <1>1, ReadPageKeeps, AppearKeeps, DisappearKeeps, TouchKeeps, ReappearKeeps DEF G!Next
<1>2. CASE UNCHANGED G!vars
  <2>1. \A d, i : Follows(i, d)' = Follows(i, d)
    BY <1>2 DEF G!vars, Follows, G!Follows
  <2>2. G!Begun' = G!Begun
    BY <1>2 DEF G!vars, G!Begun, G!Start
  <2>3. reader' = reader /\ throughout' = throughout
    BY <1>2 DEF G!vars
  <2>4. ReceivedIsBehind' /\ RestIsAhead'
    BY <2>1, <2>2, <2>3 DEF PagingInv, ReceivedIsBehind, RestIsAhead
  <2> QED
    BY <1>2, <2>2, <2>4 DEF G!vars, PagingInv, G!TypeOK, CursorIsOfARow, G!ReceivedOnce, G!NothingSkipped
<1> QED
  BY <1>1, <1>2
-----------------------------------------------------------------------------
(* ListScreens *)

(* The pages in view are the first of the query applied, and the cursor is
   where they end. *)
CompleteList ==
    /\ pages # <<>>
    /\ \A i \in DOMAIN pages : pages[i] = [query |-> applied, of |-> applied, number |-> i]
    /\ cursor # L!Null => cursor = [of |-> applied, after |-> Len(pages)]
(* A further page has a number that is left, *)
RoomForAPage == cursor.after < MaxPages /\ \A s \in Pending : flights[s].from.after < MaxPages
(* only a form that is typed holds what was not applied, and only edited rows
   are under change, *)
FieldsAreApplied ==
    /\ screen \notin L!Typed => applied = input
    /\ screen \in L!Panels \cup L!Edited => input = NoQuery
    /\ updates > 0 => screen \in L!Edited \cup {"participants"}
(* one answer is due while no request crosses another, *)
OneAnswerDue == ~crossed => \A s, t \in L!Due : s = t
(* a first page that is due is of the query applied, *)
FirstPageDue ==
    ~crossed => \A s \in L!Due : ~flights[s].appending => flights[s].query = applied
                                                          /\ flights[s].from = L!Null
(* and a further one belongs to the list in view. *)
FurtherPageDue ==
    ~crossed /\ ~L!Mixed /\ (~flags.failure \/ screen = "personCases") =>
        \A s \in L!Due : flights[s].appending =>
            /\ CompleteList /\ cursor # L!Null /\ flights[s].from = cursor
            /\ screen # "audit" => flights[s].query = applied
ListAtRest == ~crossed /\ ~L!Mixed /\ L!Due = {} /\ ~flags.failure => CompleteList
(* What each screen that disables its controls ties to the answers due. *)
PersonCasesAlone ==
    screen = "personCases" => /\ ~crossed
                              /\ L!Due # {} => flags.loading
                              /\ (pages = <<>> /\ cursor = L!Null) \/ CompleteList
PersonsAlone ==
    screen = "persons" => /\ ~crossed
                          /\ L!Due # {} => flags.loading \/ (flags.more /\ ~flags.failure)
CostsAlone == screen = "costs" => ~crossed /\ cursor = L!Null /\ (L!Due # {} => flags.loading)
ParticipantsAlone ==
    screen = "participants" =>
        /\ ~crossed
        /\ flags.failure => cursor = L!Null
        /\ \A s \in L!Due : /\ ~flags.failure
                            /\ flights[s].appending => flags.more /\ cursor # L!Null
                            /\ ~flights[s].appending => cursor = L!Null
ControlsAlone == PersonCasesAlone /\ PersonsAlone /\ CostsAlone /\ ParticipantsAlone

(* A participant is created behind the pages in view only late: otherwise no
   page is left, and no page is asked for. *)
AddedToAll ==
    /\ L!ParticipantShownOnce
    /\ screen = "participants" /\ (added.front \/ updates > 0) /\ ~added.late =>
           cursor = L!Null /\ L!Due = {} /\ ~flags.failure

(* The invariant of ListScreens. *)
ScreensInv ==
    /\ L!TypeOK /\ RoomForAPage /\ FieldsAreApplied
    /\ OneAnswerDue /\ FirstPageDue /\ FurtherPageDue /\ ListAtRest
    /\ ControlsAlone /\ AddedToAll

LEMMA ScreensBegin == L!Init => ScreensInv
<1> SUFFICES ASSUME L!Init PROVE ScreensInv
  OBVIOUS
<1> DEFINE sent(s) == [t \in Pending |-> [L!Landed EXCEPT !.due = (t = s)]]
<1>1. PICK s \in Pending : flights = sent(s)
  BY DEF L!Init
<1>2. \A t \in Pending : flights[t] = [L!Landed EXCEPT !.due = (t = s)]
  BY <1>1
<1>3. \A t \in Pending : flights[t].due = (t = s) /\ ~flights[t].appending
                         /\ flights[t].query = NoQuery /\ flights[t].from = L!Null
                         /\ flights[t].from.after = 0
  <2> TAKE t \in Pending
  <2>1. flights[t] = [due |-> (t = s), appending |-> FALSE, query |-> NoQuery, from |-> L!Null]
    <3> HIDE DEF sent
    <3> QED
      BY <1>2 DEF L!Landed
  <2>2. (t = s) \in BOOLEAN
    OBVIOUS
  <2> HIDE DEF sent
  <2> QED
    BY <2>1 DEF L!Null
<1>4. L!Due = {s}
  BY <1>3 DEF L!Due
<1>5. /\ screen \in L!Screens /\ input = NoQuery /\ applied = NoQuery /\ pages = <<>> /\ cursor = L!Null
      /\ flags = [loading |-> TRUE, more |-> FALSE, failure |-> FALSE, moreFailure |-> FALSE]
      /\ crossed = FALSE /\ updates = 0 /\ cursor.after = 0
      /\ added = [front |-> FALSE, again |-> FALSE, late |-> FALSE]
  BY DEF L!Init, L!Null
<1>6. NoQuery \in Queries /\ MaxPages \in Nat \ {0} /\ MaxUpdates \in Nat
  BY ScreensAssumed DEF L!ScreensAssumption
<1>7. L!Null \in L!Cursor
  BY <1>6 DEF L!Null, L!Cursor
<1>8. flights \in [Pending -> L!Flight]
  BY <1>1, <1>6, <1>7 DEF L!Landed, L!Flight
<1>9. pages \in Seq(L!Page)
  <2>1. << >> \in Seq(L!Page)
    OBVIOUS
  <2> QED
    BY <1>5, <2>1
<1>10. L!TypeOK
  <2>1. screen \in L!Screens /\ input \in Queries /\ applied \in Queries /\ cursor \in L!Cursor
        /\ crossed \in BOOLEAN
    BY <1>5, <1>6, <1>7, Zenon
  <2>3. updates \in 0 .. MaxUpdates
    <3>1. 0 \in 0 .. MaxUpdates
      BY <1>6
    <3> QED
      BY <1>5, <3>1, Zenon
  <2>2. flags \in [loading : BOOLEAN, more : BOOLEAN, failure : BOOLEAN, moreFailure : BOOLEAN]
    BY <1>5
  <2>4. added \in L!Added
    BY <1>5 DEF L!Added
  <2> QED
    BY <1>8, <1>9, <2>1, <2>2, <2>3, <2>4, Zenon DEF L!TypeOK
<1>11. RoomForAPage
  BY <1>3, <1>5, <1>6 DEF RoomForAPage
<1>12. FieldsAreApplied
  BY <1>5 DEF FieldsAreApplied
<1>13. OneAnswerDue /\ ListAtRest
  BY <1>4 DEF OneAnswerDue, ListAtRest
<1>14. FirstPageDue /\ FurtherPageDue
  BY <1>3, <1>4, <1>5 DEF FirstPageDue, FurtherPageDue
<1>15. ControlsAlone
  BY <1>3, <1>4, <1>5 DEF ControlsAlone, PersonCasesAlone, PersonsAlone, CostsAlone, ParticipantsAlone
<1>16. AddedToAll
  BY <1>5 DEF AddedToAll, L!ParticipantShownOnce
<1> QED
  BY <1>10, <1>11, <1>12, <1>13, <1>14, <1>15, <1>16 DEF ScreensInv

(* A request goes out in a place where no answer is due. *)
LEMMA RequestIsSent ==
    ASSUME NEW q, NEW from, L!Send(q, from), flights \in [Pending -> L!Flight]
    PROVE  \E s \in Pending \ L!Due :
               /\ flights' = [flights EXCEPT ![s] =
                      [due |-> TRUE, appending |-> from # L!Null, query |-> q, from |-> from]]
               /\ L!Due' = L!Due \cup {s}
               /\ flights'[s].appending = (from # L!Null) /\ flights'[s].query = q /\ flights'[s].from = from
               /\ \A t \in Pending \ {s} : flights'[t] = flights[t]
<1> DEFINE request == [due |-> TRUE, appending |-> from # L!Null, query |-> q, from |-> from]
<1>1. PICK s \in Pending \ L!Due : flights' = [flights EXCEPT ![s] = request]
  BY DEF L!Send
<1>2. flights'[s] = request /\ \A t \in Pending \ {s} : flights'[t] = flights[t]
  BY <1>1
<1>3. L!Due' = {t \in Pending : flights'[t].due}
  BY DEF L!Due
<1>4. L!Due' = L!Due \cup {s}
  BY <1>2, <1>3 DEF L!Due
<1> QED
  BY <1>1, <1>2, <1>4

(* An answer, or a failure, leaves its place. *)
LEMMA RequestLands ==
    ASSUME NEW s \in Pending, flights \in [Pending -> L!Flight], flights' = [flights EXCEPT ![s] = L!Landed]
    PROVE  /\ L!Due' = L!Due \ {s}
           /\ \A t \in Pending \ {s} : flights'[t] = flights[t]
           /\ flights'[s] = L!Landed
<1>1. flights'[s] = L!Landed /\ \A t \in Pending \ {s} : flights'[t] = flights[t]
  OBVIOUS
<1>2. L!Due' = {t \in Pending : flights'[t].due}
  BY DEF L!Due
<1> QED
  BY <1>1, <1>2 DEF L!Due, L!Landed

(* A first page is asked for; where controls are disabled, with nothing due. *)
LEMMA FirstPageIsAsked ==
    ASSUME ScreensInv, NEW q \in Queries, L!LoadFirst(q), input' \in Queries,
           updates' \in 0 .. MaxUpdates, FieldsAreApplied',
           screen \in {"persons", "costs", "personCases", "participants"} => L!Due = {},
           screen = "participants" => cursor = L!Null /\ flags.failure, added' = added,
           screen = "participants" => updates' = updates
    PROVE  ScreensInv'
<1>1. /\ L!Send(q, L!Null) /\ applied' = q /\ crossed' = (L!Due # {})
      /\ screen' = screen /\ pages' = pages /\ cursor' = cursor
      /\ flags' = [flags EXCEPT !.loading = IF screen \in {"documents", "participants"} THEN @ ELSE TRUE,
                                !.failure = FALSE]
  BY DEF L!LoadFirst
<1>2. /\ L!TypeOK /\ flights \in [Pending -> L!Flight] /\ pages \in Seq(L!Page) /\ cursor \in L!Cursor
      /\ flags \in [loading : BOOLEAN, more : BOOLEAN, failure : BOOLEAN, moreFailure : BOOLEAN]
      /\ screen \in L!Screens /\ crossed \in BOOLEAN
  BY DEF ScreensInv, L!TypeOK
<1>3. PICK s \in Pending \ L!Due :
          /\ flights' = [flights EXCEPT ![s] =
                 [due |-> TRUE, appending |-> L!Null # L!Null, query |-> q, from |-> L!Null]]
          /\ L!Due' = L!Due \cup {s}
          /\ flights'[s].appending = (L!Null # L!Null) /\ flights'[s].query = q
          /\ flights'[s].from = L!Null
          /\ \A t \in Pending \ {s} : flights'[t] = flights[t]
  BY <1>1, <1>2, RequestIsSent
<1>4. /\ flags' \in [loading : BOOLEAN, more : BOOLEAN, failure : BOOLEAN, moreFailure : BOOLEAN]
      /\ flags'.failure = FALSE
      /\ screen \notin {"documents", "participants"} => flags'.loading
  BY <1>1, <1>2
<1>5. /\ L!Null \in L!Cursor /\ L!Null.after = 0 /\ MaxPages \in Nat \ {0} /\ 0 < MaxPages
  BY ScreensAssumed DEF L!ScreensAssumption, L!Null, L!Cursor
<1>6. flights' \in [Pending -> L!Flight]
  <2>1. [due |-> TRUE, appending |-> FALSE, query |-> q, from |-> L!Null] \in L!Flight
    BY <1>5 DEF L!Flight
  <2> QED
    BY <1>2, <1>3, <2>1
<1>7. L!TypeOK'
  BY <1>1, <1>2, <1>4, <1>6, Zenon DEF L!TypeOK
<1>8. RoomForAPage'
  BY <1>1, <1>3, <1>5 DEF ScreensInv, RoomForAPage
<1>9. ~crossed' => L!Due' = {s}
  BY <1>1, <1>3
<1>10. OneAnswerDue' /\ FirstPageDue' /\ FurtherPageDue' /\ ListAtRest'
  <2>1. ~flights'[s].appending
    BY <1>3
  <2>2. s \in L!Due' /\ \A t \in L!Due' : ~crossed' => t = s
    BY <1>3, <1>9
  <2>3. OneAnswerDue' /\ ListAtRest'
    BY <2>2 DEF OneAnswerDue, ListAtRest
  <2>4. FirstPageDue'
    BY <1>1, <1>3, <2>2 DEF FirstPageDue
  <2>5. FurtherPageDue'
    BY <2>1, <2>2 DEF FurtherPageDue
  <2> QED
    BY <2>3, <2>4, <2>5
<1>11. PersonsAlone' /\ CostsAlone' /\ ParticipantsAlone'
  <2>1. PersonsAlone'
    BY <1>1, <1>4 DEF PersonsAlone
  <2>2. CostsAlone'
    BY <1>1, <1>4 DEF ScreensInv, ControlsAlone, CostsAlone
  <2>3. ParticipantsAlone'
    BY <1>1, <1>3, <1>4, <1>9 DEF ParticipantsAlone
  <2> QED
    BY <2>1, <2>2, <2>3
<1>12. PersonCasesAlone'
  <2> SUFFICES ASSUME screen = "personCases"
               PROVE  ~crossed' /\ flags'.loading /\ ((pages = <<>> /\ cursor = L!Null) \/ CompleteList')
    BY <1>1 DEF PersonCasesAlone
  <2>1. ~crossed' /\ flags'.loading
    BY <1>1, <1>4
  <2>2. applied' = applied
    BY <1>1 DEF ScreensInv, FieldsAreApplied, L!Typed, L!Panels
  <2>3. (pages = <<>> /\ cursor = L!Null) \/ CompleteList
    BY DEF ScreensInv, ControlsAlone, PersonCasesAlone
  <2>4. CompleteList => CompleteList'
    BY <1>1, <2>2 DEF CompleteList
  <2> QED
    BY <2>1, <2>3, <2>4
<1>13. AddedToAll'
  BY <1>1 DEF ScreensInv, AddedToAll, L!ParticipantShownOnce
<1> QED
  BY <1>7, <1>8, <1>10, <1>11, <1>12, <1>13 DEF ScreensInv, ControlsAlone

LEMMA SubmitKeeps == ASSUME ScreensInv, L!Submit PROVE ScreensInv'
<1>1. /\ screen \in L!Typed /\ (screen = "cases" \/ ~flags.loading)
      /\ L!LoadFirst(input) /\ UNCHANGED <<input, updates>>
  BY DEF L!Submit, L!MaySubmit
<1>2. screen' = screen /\ applied' = input /\ added' = added
  BY <1>1 DEF L!LoadFirst
<1>3. input \in Queries /\ updates \in 0 .. MaxUpdates
  BY DEF ScreensInv, L!TypeOK
<1>4. FieldsAreApplied'
  BY <1>1, <1>2 DEF ScreensInv, FieldsAreApplied
<1>5. screen \in {"persons", "costs", "personCases", "participants"} => screen = "costs"
  BY <1>1 DEF L!Typed
<1>6. screen = "costs" => L!Due = {}
  BY <1>1 DEF ScreensInv, ControlsAlone, CostsAlone
<1>7. screen # "participants"
  BY <1>1 DEF L!Typed
<1> QED
  BY <1>1, <1>2, <1>3, <1>4, <1>5, <1>6, <1>7, FirstPageIsAsked

LEMMA ChooseKeeps == ASSUME ScreensInv, NEW q \in Queries, L!Choose(q) PROVE ScreensInv'
<1>1. L!MayChoose /\ input' = q /\ L!LoadFirst(q) /\ updates' = updates
  BY DEF L!Choose
<1>2. screen' = screen /\ applied' = q /\ added' = added
  BY <1>1 DEF L!LoadFirst
<1>3. updates \in 0 .. MaxUpdates
  BY DEF ScreensInv, L!TypeOK
<1>4. screen \in {"agenda", "persons", "costs"}
  BY <1>1 DEF L!MayChoose
<1>5. FieldsAreApplied'
  BY <1>1, <1>2, <1>4 DEF ScreensInv, FieldsAreApplied, L!Panels, L!Edited
<1>6. screen \in {"persons", "costs"} => L!Due = {}
  BY <1>1 DEF ScreensInv, ControlsAlone, PersonsAlone, CostsAlone, L!MayChoose, L!Shown
<1> QED
  BY <1>1, <1>2, <1>3, <1>4, <1>5, <1>6, FirstPageIsAsked

LEMMA RetryKeeps == ASSUME ScreensInv, L!Retry PROVE ScreensInv'
<1> DEFINE q == IF screen = "cases" THEN applied ELSE input
<1>1. flags.failure /\ ~flags.loading /\ L!LoadFirst(q) /\ UNCHANGED <<input, updates>>
  BY DEF L!Retry
<1>2. screen' = screen /\ applied' = q /\ added' = added
  BY <1>1 DEF L!LoadFirst
<1>3. input \in Queries /\ q \in Queries /\ updates \in 0 .. MaxUpdates
  BY DEF ScreensInv, L!TypeOK
<1>4. FieldsAreApplied'
  BY <1>1, <1>2 DEF ScreensInv, FieldsAreApplied, L!Typed
<1>5. screen \in {"persons", "costs", "personCases"} => L!Due = {}
  BY <1>1 DEF ScreensInv, ControlsAlone, PersonsAlone, CostsAlone, PersonCasesAlone
<1>6. screen = "participants" => L!Due = {} /\ cursor = L!Null /\ flags.failure
  BY <1>1 DEF ScreensInv, ControlsAlone, ParticipantsAlone
<1> HIDE DEF q
<1> QED
  BY <1>1, <1>2, <1>3, <1>4, <1>5, <1>6, FirstPageIsAsked

LEMMA RefreshDocumentsKeeps == ASSUME ScreensInv, L!RefreshDocuments PROVE ScreensInv'
<1>1. screen = "documents" /\ L!LoadFirst(input) /\ UNCHANGED <<input, updates>>
  BY DEF L!RefreshDocuments
<1>2. screen' = screen /\ applied' = input /\ added' = added
  BY <1>1 DEF L!LoadFirst
<1>3. input \in Queries /\ updates \in 0 .. MaxUpdates
  BY DEF ScreensInv, L!TypeOK
<1>4. FieldsAreApplied'
  BY <1>1, <1>2 DEF ScreensInv, FieldsAreApplied
<1> QED
  BY <1>1, <1>2, <1>3, <1>4, FirstPageIsAsked

LEMMA ConflictKeeps == ASSUME ScreensInv, L!Conflict PROVE ScreensInv'
<1>1. screen \in L!Edited /\ updates > 0 /\ updates' = updates - 1 /\ L!LoadFirst(input) /\ input' = input
  BY DEF L!Conflict
<1>2. screen' = screen /\ applied' = input /\ added' = added
  BY <1>1 DEF L!LoadFirst
<1>3. input \in Queries /\ updates \in 0 .. MaxUpdates /\ MaxUpdates \in Nat
  BY ScreensAssumed DEF ScreensInv, L!TypeOK, L!ScreensAssumption
<1>4. updates' \in 0 .. MaxUpdates
  BY <1>1, <1>3
<1>5. screen \in L!Edited
  BY <1>1
<1>6. FieldsAreApplied'
  BY <1>1, <1>2, <1>5 DEF ScreensInv, FieldsAreApplied
<1>7. screen \notin {"persons", "costs", "personCases", "participants"}
  BY <1>5 DEF L!Edited
<1> QED
  BY <1>1, <1>2, <1>3, <1>4, <1>6, <1>7, FirstPageIsAsked

(* Fields and changes of rows leave the list and the answers due alone. *)
LEMMA ListIsLeftAlone ==
    ASSUME ScreensInv, input' \in Queries, updates' \in 0 .. MaxUpdates, FieldsAreApplied',
           UNCHANGED <<screen, applied, pages, cursor, flags, flights, crossed>>,
           added' \in L!Added, AddedToAll'
    PROVE  ScreensInv'
<1>1. L!TypeOK'
  BY DEF ScreensInv, L!TypeOK
<1>2. L!Due' = L!Due /\ L!Mixed' = L!Mixed
  BY DEF L!Due, L!Mixed
<1>3. CompleteList' = CompleteList
  BY DEF CompleteList
<1>4. RoomForAPage' /\ OneAnswerDue' /\ FirstPageDue' /\ FurtherPageDue' /\ ListAtRest'
  BY <1>2, <1>3 DEF ScreensInv, RoomForAPage, OneAnswerDue, FirstPageDue, FurtherPageDue, ListAtRest
<1>5. ControlsAlone'
  BY <1>2, <1>3 DEF ScreensInv, ControlsAlone, PersonCasesAlone, PersonsAlone, CostsAlone,
     ParticipantsAlone
<1> QED
  BY <1>1, <1>4, <1>5 DEF ScreensInv

LEMMA TypeKeeps == ASSUME ScreensInv, NEW q \in Queries, L!Type(q) PROVE ScreensInv'
<1>1. /\ screen \in L!Typed /\ input' = q
      /\ UNCHANGED <<screen, applied, pages, cursor, flags, flights, crossed, updates, added>>
  BY DEF L!Type
<1>2. updates \in 0 .. MaxUpdates
  BY DEF ScreensInv, L!TypeOK
<1>3. FieldsAreApplied'
  BY <1>1 DEF ScreensInv, FieldsAreApplied, L!Typed, L!Panels, L!Edited
<1>4. added' \in L!Added /\ AddedToAll'
  BY <1>1 DEF ScreensInv, L!TypeOK, AddedToAll, L!ParticipantShownOnce, L!Typed
<1> QED
  BY <1>1, <1>2, <1>3, <1>4, ListIsLeftAlone

LEMMA UpdateKeeps == ASSUME ScreensInv, L!Update \/ L!Updated PROVE ScreensInv'
<1>1. /\ \/ updates < MaxUpdates /\ updates' = updates + 1
         \/ updates > 0 /\ updates' = updates - 1
      /\ UNCHANGED <<screen, input, applied, pages, cursor, flags, flights, crossed, added>>
  BY DEF L!Update, L!Updated
<1>2. screen \in L!Edited \/ (screen = "participants" /\ updates > 0)
  BY DEF L!Update, L!Updated, ScreensInv, FieldsAreApplied
<1>3. input \in Queries /\ updates \in 0 .. MaxUpdates /\ MaxUpdates \in Nat
  BY ScreensAssumed DEF ScreensInv, L!TypeOK, L!ScreensAssumption
<1>4. updates' \in 0 .. MaxUpdates
  BY <1>1, <1>3
<1>5. FieldsAreApplied'
  BY <1>1, <1>2 DEF ScreensInv, FieldsAreApplied
<1>6. L!Due' = L!Due
  BY <1>1 DEF L!Due
<1>7. added' \in L!Added /\ AddedToAll'
  BY <1>1, <1>2, <1>6 DEF ScreensInv, L!TypeOK, AddedToAll, L!ParticipantShownOnce, L!Edited
<1> QED
  BY <1>1, <1>3, <1>4, <1>5, <1>7, ListIsLeftAlone

(* A participant that is created late is noted, and one that is put in front
   was being created. *)
LEMMA ParticipantIsAdded ==
    ASSUME ScreensInv, L!CreateParticipant \/ L!OnParticipantCreated PROVE ScreensInv'
<1>1. /\ screen = "participants"
      /\ UNCHANGED <<screen, input, applied, pages, cursor, flags, flights, crossed>>
  BY DEF L!CreateParticipant, L!OnParticipantCreated
<1>2. input \in Queries /\ updates \in 0 .. MaxUpdates /\ MaxUpdates \in Nat /\ added \in L!Added
      /\ flags.failure \in BOOLEAN
  BY ScreensAssumed DEF ScreensInv, L!TypeOK, L!ScreensAssumption
<1>3. FieldsAreApplied'
  BY <1>1 DEF ScreensInv, FieldsAreApplied
<1>4. L!Due' = L!Due
  BY <1>1 DEF L!Due
<1>5. CASE L!CreateParticipant
  <2> DEFINE late == added.late \/ cursor # L!Null \/ L!Due # {} \/ flags.failure
  <2>1. updates = 0 /\ updates' = 1 /\ 1 \in 0 .. MaxUpdates /\ added' = [added EXCEPT !.late = late]
    BY <1>2, <1>5 DEF L!CreateParticipant
  <2>2. late \in BOOLEAN
    BY <1>2 DEF L!Added
  <2> HIDE DEF late
  <2>3. added' \in L!Added /\ added'.front = added.front /\ added'.again = added.again /\ added'.late = late
    BY <1>2, <2>1, <2>2 DEF L!Added
  <2>4. AddedToAll'
    BY <1>1, <1>4, <2>3 DEF late, ScreensInv, AddedToAll, L!ParticipantShownOnce
  <2> QED
    BY <1>1, <1>2, <1>3, <2>1, <2>3, <2>4, ListIsLeftAlone
<1>6. CASE L!OnParticipantCreated
  <2>1. updates > 0 /\ updates' = updates - 1 /\ added' = [added EXCEPT !.front = TRUE]
    BY <1>6 DEF L!OnParticipantCreated
  <2>2. updates' \in 0 .. MaxUpdates
    BY <1>2, <2>1
  <2>3. added' \in L!Added /\ added'.again = added.again /\ added'.late = added.late
    BY <1>2, <2>1 DEF L!Added
  <2>4. AddedToAll'
    BY <1>1, <1>4, <2>1, <2>3 DEF ScreensInv, AddedToAll, L!ParticipantShownOnce
  <2> QED
    BY <1>1, <1>2, <1>3, <2>2, <2>3, <2>4, ListIsLeftAlone
<1> QED
  BY <1>5, <1>6

(* A further page is asked for of the list in view, and nothing else is due
   where controls are disabled. *)
LEMMA LoadMoreKeeps == ASSUME ScreensInv, L!LoadMore PROVE ScreensInv'
<1>1. /\ cursor # L!Null /\ ~flags.more /\ ~flags.loading
      /\ screen \in L!Panels \/ (~flags.loading /\ ~flags.failure)
      /\ L!Send(L!QueryOfMore, cursor)
      /\ flags' = IF screen = "personCases" THEN [flags EXCEPT !.loading = TRUE, !.failure = FALSE]
                  ELSE [flags EXCEPT !.more = TRUE, !.moreFailure = FALSE]
      /\ crossed' = (crossed \/ L!Due # {})
      /\ UNCHANGED <<screen, input, applied, pages, cursor, updates, added>>
  BY DEF L!LoadMore, L!Shown
<1>2. /\ L!TypeOK /\ flights \in [Pending -> L!Flight] /\ pages \in Seq(L!Page) /\ cursor \in L!Cursor
      /\ flags \in [loading : BOOLEAN, more : BOOLEAN, failure : BOOLEAN, moreFailure : BOOLEAN]
      /\ screen \in L!Screens /\ crossed \in BOOLEAN /\ input \in Queries /\ applied \in Queries
  BY DEF ScreensInv, L!TypeOK
<1> DEFINE q == L!QueryOfMore
<1>3. q \in Queries /\ (screen \notin {"audit", "costs"} => q = applied)
  BY <1>2 DEF L!QueryOfMore, ScreensInv, FieldsAreApplied, L!Typed
<1> HIDE DEF q
<1>4. PICK s \in Pending \ L!Due :
          /\ flights' = [flights EXCEPT ![s] =
                 [due |-> TRUE, appending |-> cursor # L!Null, query |-> q, from |-> cursor]]
          /\ L!Due' = L!Due \cup {s}
          /\ flights'[s].appending = (cursor # L!Null) /\ flights'[s].query = q
          /\ flights'[s].from = cursor
          /\ \A t \in Pending \ {s} : flights'[t] = flights[t]
  BY <1>1, <1>2, RequestIsSent DEF q
<1>5. /\ flags' \in [loading : BOOLEAN, more : BOOLEAN, failure : BOOLEAN, moreFailure : BOOLEAN]
      /\ screen # "personCases" => flags'.more /\ flags'.failure = flags.failure
      /\ screen = "personCases" => flags'.loading
  BY <1>1, <1>2
<1>6. flights' \in [Pending -> L!Flight]
  <2>1. [due |-> TRUE, appending |-> cursor # L!Null, query |-> q, from |-> cursor] \in L!Flight
    BY <1>2, <1>3 DEF L!Flight
  <2> QED
    BY <1>2, <1>4, <2>1
<1>7. crossed' \in BOOLEAN
  BY <1>1
<1>8. L!TypeOK'
  BY <1>1, <1>2, <1>5, <1>6, <1>7, Zenon DEF L!TypeOK
<1>9. RoomForAPage' /\ FieldsAreApplied'
  BY <1>1, <1>4 DEF ScreensInv, RoomForAPage, FieldsAreApplied
<1>10. ~crossed' => ~crossed /\ L!Due = {} /\ L!Due' = {s}
  BY <1>1, <1>4
<1>11. OneAnswerDue' /\ FirstPageDue' /\ ListAtRest'
  <2>1. OneAnswerDue' /\ ListAtRest'
    BY <1>10 DEF OneAnswerDue, ListAtRest
  <2>2. FirstPageDue'
    BY <1>1, <1>4, <1>10 DEF FirstPageDue
  <2> QED
    BY <2>1, <2>2
<1>12. L!Mixed' = L!Mixed /\ CompleteList' = CompleteList
  BY <1>1 DEF L!Mixed, CompleteList
<1>13. screen # "costs"
  BY <1>1 DEF ScreensInv, ControlsAlone, CostsAlone
<1>14. FurtherPageDue'
  <2> SUFFICES ASSUME ~crossed', ~L!Mixed, ~flags'.failure \/ screen = "personCases"
               PROVE  CompleteList /\ cursor # L!Null /\ flights'[s].from = cursor
                      /\ (screen # "audit" => flights'[s].query = applied)
    BY <1>1, <1>10, <1>12 DEF FurtherPageDue
  <2>1. CompleteList
    <3>1. CASE screen = "personCases"
      BY <1>1, <3>1 DEF ScreensInv, ControlsAlone, PersonCasesAlone
    <3>2. CASE screen # "personCases"
      BY <1>5, <1>10, <3>2 DEF ScreensInv, ListAtRest
    <3> QED
      BY <3>1, <3>2
  <2> QED
    BY <1>1, <1>3, <1>4, <1>13, <2>1
<1>15. screen \in {"persons", "personCases", "participants"} => L!Due = {} /\ ~crossed
  BY <1>1 DEF ScreensInv, ControlsAlone, PersonsAlone, PersonCasesAlone, ParticipantsAlone
<1>16. screen \in {"persons", "participants"} => ~flags.failure
  BY <1>1 DEF ScreensInv, ControlsAlone, PersonsAlone, ParticipantsAlone, L!Panels
<1>17. PersonsAlone' /\ CostsAlone' /\ PersonCasesAlone'
  BY <1>1, <1>5, <1>12, <1>13, <1>15, <1>16
  DEF ScreensInv, ControlsAlone, PersonsAlone, CostsAlone, PersonCasesAlone
<1>18. ParticipantsAlone'
  BY <1>1, <1>4, <1>5, <1>15, <1>16 DEF ParticipantsAlone
<1>19. AddedToAll'
  BY <1>1 DEF ScreensInv, AddedToAll, L!ParticipantShownOnce
<1> QED
  BY <1>8, <1>9, <1>11, <1>14, <1>17, <1>18, <1>19 DEF ScreensInv, ControlsAlone

(* What an answer and a failure have in common: nothing else was due, unless
   requests crossed. *)
LEMMA LastAnswerLands ==
    ASSUME ScreensInv, NEW s \in Pending, flights[s].due, crossed' = crossed,
           flights' = [flights EXCEPT ![s] = L!Landed]
    PROVE  /\ flights' \in [Pending -> L!Flight]
           /\ \A t \in Pending : flights'[t].from.after < MaxPages
           /\ ~crossed => L!Due = {s} /\ L!Due' = {}
           /\ OneAnswerDue' /\ FirstPageDue' /\ FurtherPageDue'
<1>1. /\ flights \in [Pending -> L!Flight] /\ NoQuery \in Queries
      /\ MaxPages \in Nat \ {0} /\ 0 < MaxPages
  BY ScreensAssumed DEF ScreensInv, L!TypeOK, L!ScreensAssumption
<1>2. /\ L!Due' = L!Due \ {s} /\ flights'[s] = L!Landed
      /\ \A t \in Pending \ {s} : flights'[t] = flights[t]
  BY <1>1, RequestLands
<1>3. L!Landed \in L!Flight /\ L!Landed.from.after = 0
  BY <1>1 DEF L!Landed, L!Flight, L!Null, L!Cursor
<1>4. flights' \in [Pending -> L!Flight]
  BY <1>1, <1>3
<1>5. \A t \in Pending : flights'[t].from.after < MaxPages
  BY <1>1, <1>2, <1>3 DEF ScreensInv, RoomForAPage
<1>6. s \in L!Due
  BY DEF L!Due
<1>7. ~crossed => L!Due = {s} /\ L!Due' = {}
  BY <1>2, <1>6 DEF ScreensInv, OneAnswerDue
<1>8. OneAnswerDue' /\ FirstPageDue' /\ FurtherPageDue'
  BY <1>7 DEF OneAnswerDue, FirstPageDue, FurtherPageDue
<1> QED
  BY <1>4, <1>5, <1>7, <1>8

(* The pages of one query, and the one that comes next. *)
LEMMA PageIsAppended ==
    ASSUME pages \in Seq(L!Page), CompleteList, NEW next, pages' = Append(pages, next),
           next = [query |-> applied, of |-> applied, number |-> Len(pages) + 1],
           applied' = applied,
           cursor' # L!Null => cursor' = [of |-> applied, after |-> Len(pages) + 1]
    PROVE  CompleteList'
<1>1. Len(pages') = Len(pages) + 1 /\ DOMAIN pages' = 1 .. (Len(pages) + 1) /\ Len(pages) \in Nat
  OBVIOUS
<1>2. pages' # << >>
  BY <1>1
<1>3. ASSUME NEW i \in DOMAIN pages'
      PROVE  pages'[i] = [query |-> applied, of |-> applied, number |-> i]
  <2>1. CASE i \in DOMAIN pages
    <3>1. pages'[i] = pages[i]
      BY <2>1
    <3> QED
      BY <2>1, <3>1 DEF CompleteList
  <2>2. CASE i = Len(pages) + 1
    <3>1. pages'[i] = next
      BY <2>2
    <3> QED
      BY <2>2, <3>1
  <2>3. i \in DOMAIN pages \/ i = Len(pages) + 1
    BY <1>1
  <2> QED
    BY <2>1, <2>2, <2>3
<1>4. cursor' # L!Null => cursor' = [of |-> applied', after |-> Len(pages')]
  BY <1>1
<1> QED
  BY <1>2, <1>3, <1>4 DEF CompleteList, L!Null

LEMMA AnswerKeeps ==
    ASSUME ScreensInv, NEW s \in Pending, NEW hasNextPage \in BOOLEAN, L!Answer(s, hasNextPage)
    PROVE  ScreensInv'
<1> DEFINE f == flights[s]
           next == [query |-> f.query, of |-> IF f.appending THEN f.from.of ELSE f.query,
                    number |-> f.from.after + 1]
<1>1. /\ f.due
      /\ hasNextPage => next.number < MaxPages /\ screen \notin {"agenda", "costs"}
      /\ pages' = IF f.appending THEN Append(pages, next) ELSE <<next>>
      /\ cursor' = IF hasNextPage THEN [of |-> f.query, after |-> next.number] ELSE L!Null
      /\ flags' = [flags EXCEPT !.loading = FALSE, !.more = FALSE]
      /\ flights' = [flights EXCEPT ![s] = L!Landed]
      /\ added' = L!AddedAfter(f.appending)
      /\ UNCHANGED <<screen, input, applied, crossed, updates>>
  BY DEF L!Answer, L!Rested
<1>2. /\ L!TypeOK /\ flights \in [Pending -> L!Flight] /\ pages \in Seq(L!Page) /\ cursor \in L!Cursor
      /\ flags \in [loading : BOOLEAN, more : BOOLEAN, failure : BOOLEAN, moreFailure : BOOLEAN]
      /\ MaxPages \in Nat \ {0} /\ NoQuery \in Queries
  BY ScreensAssumed DEF ScreensInv, L!TypeOK, L!ScreensAssumption
<1>3. /\ f.query \in Queries /\ f.appending \in BOOLEAN /\ f.from.of \in Queries
      /\ f.from.after \in 0 .. MaxPages
  BY <1>2 DEF L!Flight, L!Cursor
<1>4. f.from.after < MaxPages
  BY DEF ScreensInv, RoomForAPage
<1>5. next \in L!Page /\ next.number = f.from.after + 1 /\ next.number \in 1 .. MaxPages
  BY <1>2, <1>3, <1>4 DEF L!Page
<1>6. /\ flights' \in [Pending -> L!Flight]
      /\ \A t \in Pending : flights'[t].from.after < MaxPages
      /\ ~crossed => L!Due = {s} /\ L!Due' = {}
      /\ OneAnswerDue' /\ FirstPageDue' /\ FurtherPageDue'
  BY <1>1, LastAnswerLands
<1> HIDE DEF next
<1>7. pages' \in Seq(L!Page)
  <2>1. Append(pages, next) \in Seq(L!Page) /\ <<next>> \in Seq(L!Page)
    BY <1>2, <1>5
  <2> QED
    BY <1>1, <2>1
<1>8. cursor' \in L!Cursor /\ cursor'.after < MaxPages
  <2>1. L!Null \in L!Cursor /\ L!Null.after < MaxPages
    BY <1>2 DEF L!Null, L!Cursor
  <2>2. hasNextPage => [of |-> f.query, after |-> next.number] \in L!Cursor /\ next.number < MaxPages
    BY <1>1, <1>2, <1>3, <1>5 DEF L!Cursor
  <2> QED
    BY <1>1, <2>1, <2>2
<1>9. /\ flags' \in [loading : BOOLEAN, more : BOOLEAN, failure : BOOLEAN, moreFailure : BOOLEAN]
      /\ flags'.failure = flags.failure
  BY <1>1, <1>2
<1>19. added' \in L!Added /\ AddedToAll'
  <2>1. added \in L!Added /\ updates \in 0 .. MaxUpdates /\ f.appending \in BOOLEAN
    BY <1>2, <1>3 DEF L!TypeOK
  <2>2. s \in L!Due /\ AddedToAll
    BY <1>1 DEF L!Due, ScreensInv
  <2> HIDE DEF f
  <2>3. CASE screen # "participants"
    <3>1. added' = added
      BY <1>1, <2>3 DEF L!AddedAfter
    <3> QED
      BY <1>1, <2>1, <2>2, <2>3, <3>1 DEF AddedToAll, L!ParticipantShownOnce
  <2>4. CASE screen = "participants" /\ f.appending
    <3>1. added' = [added EXCEPT !.again = added.again \/ added.front \/ updates > 0]
      BY <1>1, <2>4 DEF L!AddedAfter
    <3>2. /\ added' \in L!Added /\ added'.front = added.front /\ added'.late = added.late
          /\ added'.again = (added.again \/ added.front \/ updates > 0)
      BY <2>1, <3>1 DEF L!Added
    <3>3. added.front \/ updates > 0 => added.late
      BY <2>2, <2>4 DEF AddedToAll
    <3> QED
      BY <1>1, <2>2, <3>2, <3>3 DEF AddedToAll, L!ParticipantShownOnce
  <2>5. CASE screen = "participants" /\ ~f.appending
    <3>1. added' = [front |-> FALSE, again |-> updates > 0, late |-> added.late /\ updates > 0]
      BY <1>1, <2>5 DEF L!AddedAfter
    <3>2. /\ added' \in L!Added /\ ~added'.front
          /\ added'.again = (updates > 0) /\ added'.late = (added.late /\ updates > 0)
      BY <2>1, <3>1 DEF L!Added
    <3>3. updates > 0 => added.late
      BY <2>2, <2>5 DEF AddedToAll
    <3> QED
      BY <1>1, <2>2, <3>2, <3>3 DEF AddedToAll, L!ParticipantShownOnce
  <2> QED
    BY <2>1, <2>3, <2>4, <2>5
<1>10. L!TypeOK'
  BY <1>1, <1>2, <1>6, <1>7, <1>8, <1>9, <1>19, Zenon DEF L!TypeOK
<1>11. RoomForAPage' /\ FieldsAreApplied'
  BY <1>1, <1>6, <1>8 DEF ScreensInv, RoomForAPage, FieldsAreApplied
<1>12. ASSUME ~crossed, ~f.appending PROVE CompleteList'
  <2>1. f.query = applied /\ f.from = L!Null
    BY <1>6, <1>12 DEF ScreensInv, FirstPageDue
  <2>2. next = [query |-> applied, of |-> applied, number |-> 1] /\ next.number = 1
    BY <1>12, <2>1 DEF next, L!Null
  <2>3. pages' = <<next>> /\ (cursor' # L!Null => cursor' = [of |-> applied, after |-> 1])
    BY <1>1, <1>12, <2>1, <2>2
  <2>4. Len(pages') = 1 /\ DOMAIN pages' = {1} /\ pages' # << >> /\ pages'[1] = next
    BY <2>3
  <2> QED
    BY <1>1, <2>2, <2>3, <2>4 DEF CompleteList, L!Null
<1>13. ASSUME ~crossed, f.appending, ~L!Mixed', ~flags.failure \/ screen = "personCases"
       PROVE  CompleteList'
  <2>1. pages' = Append(pages, next)
    BY <1>1, <1>13
  <2>2. /\ Len(pages) \in Nat /\ DOMAIN pages = 1 .. Len(pages)
        /\ DOMAIN pages' = 1 .. (Len(pages) + 1) /\ pages'[Len(pages) + 1] = next
        /\ \A i \in DOMAIN pages : pages'[i] = pages[i]
    BY <1>2, <2>1
  <2>3. screen = "audit" => /\ \A i \in DOMAIN pages : pages[i].of = pages[i].query
                            /\ next.of = next.query
    BY <1>1, <1>13, <2>2 DEF L!Mixed
  <2>4. ~L!Mixed
    BY <2>3 DEF L!Mixed
  <2>5. /\ CompleteList /\ cursor # L!Null /\ f.from = cursor
        /\ screen # "audit" => f.query = applied
    BY <1>6, <1>13, <2>4 DEF ScreensInv, FurtherPageDue
  <2>6. f.from.of = applied /\ f.from.after = Len(pages)
    BY <2>5 DEF CompleteList
  <2>7. next.of = applied /\ next.query = f.query /\ next.number = Len(pages) + 1
    BY <1>13, <2>6 DEF next
  <2>8. f.query = applied
    BY <2>3, <2>5, <2>7
  <2>9. next = [query |-> applied, of |-> applied, number |-> Len(pages) + 1]
    BY <1>13, <2>6, <2>8 DEF next
  <2>10. cursor' # L!Null => cursor' = [of |-> applied, after |-> Len(pages) + 1]
    BY <1>1, <2>7, <2>8
  <2> HIDE DEF f
  <2> QED
    BY <1>1, <1>2, <2>1, <2>5, <2>9, <2>10, PageIsAppended
<1>14. ~crossed /\ ~L!Mixed' /\ (~flags.failure \/ screen = "personCases") => CompleteList'
  BY <1>3, <1>12, <1>13
<1>15. ListAtRest'
  BY <1>1, <1>9, <1>14 DEF ListAtRest
<1>16. PersonCasesAlone' /\ PersonsAlone'
  <2>1. screen = "personCases" => ~L!Mixed'
    BY <1>1 DEF L!Mixed
  <2> QED
    BY <1>1, <1>6, <1>14, <2>1 DEF ScreensInv, ControlsAlone, PersonCasesAlone, PersonsAlone
<1>17. CostsAlone'
  BY <1>1, <1>6 DEF ScreensInv, ControlsAlone, CostsAlone
<1>18. ParticipantsAlone'
  <2>1. s \in L!Due
    BY <1>1 DEF L!Due
  <2> QED
    BY <1>1, <1>6, <1>9, <2>1 DEF ScreensInv, ControlsAlone, ParticipantsAlone
<1> QED
  BY <1>6, <1>10, <1>11, <1>15, <1>16, <1>17, <1>18, <1>19 DEF ScreensInv, ControlsAlone

LEMMA FailKeeps == ASSUME ScreensInv, NEW s \in Pending, L!Fail(s) PROVE ScreensInv'
<1> DEFINE f == flights[s]
<1>1. /\ f.due
      /\ pages' = IF f.appending \/ screen \in L!Panels \cup L!Edited \cup {"costs"} THEN pages ELSE <<>>
      /\ flags' = IF f.appending /\ screen \in {"documents", "participants"}
                  THEN [L!Rested EXCEPT !.moreFailure = TRUE] ELSE [L!Rested EXCEPT !.failure = TRUE]
      /\ flights' = [flights EXCEPT ![s] = L!Landed]
      /\ UNCHANGED <<screen, input, applied, cursor, crossed, updates, added>>
  BY DEF L!Fail
<1>2. /\ L!TypeOK /\ flights \in [Pending -> L!Flight] /\ pages \in Seq(L!Page) /\ cursor \in L!Cursor
      /\ flags \in [loading : BOOLEAN, more : BOOLEAN, failure : BOOLEAN, moreFailure : BOOLEAN]
  BY DEF ScreensInv, L!TypeOK
<1>3. f.appending \in BOOLEAN
  BY <1>2 DEF L!Flight
<1>4. /\ flights' \in [Pending -> L!Flight]
      /\ \A t \in Pending : flights'[t].from.after < MaxPages
      /\ ~crossed => L!Due = {s} /\ L!Due' = {}
      /\ OneAnswerDue' /\ FirstPageDue' /\ FurtherPageDue'
  BY <1>1, LastAnswerLands
<1>5. pages' \in Seq(L!Page)
  <2>1. << >> \in Seq(L!Page)
    OBVIOUS
  <2> QED
    BY <1>1, <1>2, <2>1
<1>6. /\ flags' \in [loading : BOOLEAN, more : BOOLEAN, failure : BOOLEAN, moreFailure : BOOLEAN]
      /\ ~flags'.failure => f.appending /\ screen \in {"documents", "participants"} /\ ~flags.failure
      /\ flags'.failure => flags.failure \/ ~(f.appending /\ screen = "participants")
  BY <1>1, <1>2 DEF L!Rested
<1>7. L!TypeOK'
  BY <1>1, <1>2, <1>4, <1>5, <1>6, Zenon DEF L!TypeOK
<1>8. RoomForAPage' /\ FieldsAreApplied'
  BY <1>1, <1>4 DEF ScreensInv, RoomForAPage, FieldsAreApplied
<1>9. s \in L!Due
  BY <1>1 DEF L!Due
<1>10. ListAtRest'
  <2> SUFFICES ASSUME ~crossed, ~flags'.failure PROVE CompleteList'
    BY <1>1 DEF ListAtRest
  <2>1. f.appending /\ screen \in {"documents", "participants"} /\ ~flags.failure
    BY <1>6
  <2>2. ~L!Mixed
    BY <2>1 DEF L!Mixed
  <2>3. CompleteList
    BY <1>9, <2>1, <2>2 DEF ScreensInv, FurtherPageDue
  <2>4. pages' = pages
    BY <1>1, <2>1
  <2> QED
    BY <1>1, <2>3, <2>4 DEF CompleteList
<1>11. PersonCasesAlone'
  <2> SUFFICES ASSUME screen = "personCases"
               PROVE  ~crossed /\ L!Due' = {} /\ ((pages' = <<>> /\ cursor = L!Null) \/ CompleteList')
    BY <1>1 DEF PersonCasesAlone
  <2>1. ~crossed /\ ((pages = <<>> /\ cursor = L!Null) \/ CompleteList)
    BY DEF ScreensInv, ControlsAlone, PersonCasesAlone
  <2>2. pages' = pages
    BY <1>1 DEF L!Panels
  <2>3. CompleteList => CompleteList'
    BY <1>1, <2>2 DEF CompleteList
  <2> QED
    BY <1>4, <2>1, <2>2, <2>3
<1>12. PersonsAlone' /\ CostsAlone'
  BY <1>1, <1>4 DEF ScreensInv, ControlsAlone, PersonsAlone, CostsAlone
<1>13. ParticipantsAlone'
  <2> SUFFICES ASSUME screen = "participants"
               PROVE  ~crossed /\ L!Due' = {} /\ (flags'.failure => cursor = L!Null)
    BY <1>1 DEF ParticipantsAlone
  <2>1. ~crossed /\ ~flags.failure /\ (~f.appending => cursor = L!Null)
    BY <1>9 DEF ScreensInv, ControlsAlone, ParticipantsAlone
  <2> QED
    BY <1>3, <1>4, <1>6, <2>1
<1>14. AddedToAll'
  BY <1>1, <1>9 DEF ScreensInv, AddedToAll, L!ParticipantShownOnce
<1> QED
  BY <1>4, <1>7, <1>8, <1>10, <1>11, <1>12, <1>13, <1>14 DEF ScreensInv, ControlsAlone

LEMMA ScreensStep == ASSUME ScreensInv, [L!Next]_(L!vars) PROVE ScreensInv'
<1>1. CASE L!Next
  BY <1>1, TypeKeeps, ChooseKeeps, SubmitKeeps, RetryKeeps, RefreshDocumentsKeeps, UpdateKeeps,
     ParticipantIsAdded,
     ConflictKeeps, LoadMoreKeeps, AnswerKeeps, FailKeeps DEF L!Next
<1>2. CASE UNCHANGED L!vars
  <2>1. UNCHANGED <<screen, input, applied, pages, cursor, flags, flights, crossed, updates, added>>
    BY <1>2 DEF L!vars
  <2>2. input \in Queries /\ updates \in 0 .. MaxUpdates
    BY DEF ScreensInv, L!TypeOK
  <2>3. FieldsAreApplied'
    BY <2>1 DEF ScreensInv, FieldsAreApplied
  <2>4. L!Due' = L!Due
    BY <2>1 DEF L!Due
  <2>5. added' \in L!Added /\ AddedToAll'
    BY <2>1, <2>4 DEF ScreensInv, L!TypeOK, AddedToAll, L!ParticipantShownOnce
  <2> QED
    BY <2>1, <2>2, <2>3, <2>5, ListIsLeftAlone
<1> QED
  BY <1>1, <1>2

(* A list read page by page repeats no row, whatever appears, goes or is edited
   meanwhile, and skips none that stayed in its place: in a list ordered by
   updatedAt an edited row moves, and is missed when it was still ahead.  What
   a screen shows at rest is the first pages of one query, unless two of its
   requests crossed or the audit's fields changed between two pages; and a
   participant created while its whole list was in view is shown once. *)
THEOREM ListsStayWhole == DocumentsSpec => []ListsAreWhole
<1>1. DocumentsInit => PagingInv /\ ScreensInv
  BY PagingBegins, ScreensBegin DEF DocumentsInit
<1>2. PagingInv /\ ScreensInv /\ [DocumentsNext]_documentsVars => (PagingInv /\ ScreensInv)'
  <2>1. [DocumentsNext]_documentsVars => [G!Next]_(G!vars)
    BY DEF DocumentsNext, documentsVars, pagingVars, G!vars
  <2>2. [DocumentsNext]_documentsVars => [L!Next]_(L!vars)
    BY DEF DocumentsNext, documentsVars, screenVars, L!vars
  <2> QED
    BY <2>1, <2>2, PagingStep, ScreensStep
<1>3. PagingInv /\ ScreensInv => ListsAreWhole
  <2> SUFFICES ASSUME PagingInv, ScreensInv
               PROVE  G!TypeOK /\ G!PagesAreWhole /\ L!TypeOK /\ L!PagesOfOneQuery /\ L!NeverCrossed
                      /\ L!ParticipantShownOnce
    BY DEF ListsAreWhole, L!ListIsWhole
  <2>1. G!TypeOK /\ G!PagesAreWhole
    BY DEF PagingInv, G!PagesAreWhole
  <2>2. L!TypeOK /\ L!NeverCrossed
    BY DEF ScreensInv, ControlsAlone, PersonCasesAlone, PersonsAlone, CostsAlone, ParticipantsAlone,
       L!NeverCrossed
  <2>5. L!ParticipantShownOnce
    BY DEF ScreensInv, AddedToAll
  <2>3. screen \in L!Chosen => applied = input
    BY DEF ScreensInv, FieldsAreApplied, L!Chosen, L!Typed
  <2>4. L!PagesOfOneQuery
    BY <2>3 DEF ScreensInv, ListAtRest, CompleteList, L!PagesOfOneQuery
  <2> QED
    BY <2>1, <2>2, <2>4, <2>5
<1> QED
  BY <1>1, <1>2, <1>3, PTL DEF DocumentsSpec

-----------------------------------------------------------------------------
(* ClientSession: the application does not end its own session. *)

(* A call is made by a tab; a login renews nothing. *)
CallsAreOfTabs ==
    \A s \in Slots : /\ calls[s].kind # "none" => calls[s].tab \in Tabs
                     /\ calls[s].kind = "none" => calls[s].step = "idle"
                     /\ calls[s].kind = "login" => calls[s].step \in {"sent", "granted"}

(* A token the server has given, and one whose return ends nothing, or is excused. *)
Known(k) == k.family # 0 => k.rotation \in 1 .. families[k.family].rotation
Harmless(k) == \/ k.family = 0 \/ families[k.family].ended
               \/ families[k.family].rotation = k.rotation \/ k \in blameless
Exchanges(s) == calls[s].step \in {"refreshing", "granted", "refused"}
Granted(s) == calls[s].step = "granted"

TokensAreKnown == Known(cookie) /\ \A s \in Slots : Exchanges(s) => Known(calls[s].token)

(* What was granted and has not arrived is the last its family was given, and
   the browser has only what was there before. *)
LoginIsNew(s) ==
    LET k == calls[s].token IN
    /\ k.rotation = 1 /\ families[k.family].rotation = 1 /\ cookie.family # k.family
    /\ \A p \in Slots \ {s} : Exchanges(p) => calls[p].token.family # k.family
RenewalIsLast(s) ==
    LET k == calls[s].token IN
    /\ families[k.family].rotation = k.rotation + 1
    /\ cookie.family = k.family => cookie.rotation <= k.rotation
    /\ \A p \in Slots \ {s} : Exchanges(p) /\ calls[p].token.family = k.family =>
           ~Granted(p) /\ calls[p].token.rotation <= k.rotation
GrantsAreLast ==
    \A s \in Slots : Granted(s) =>
        /\ calls[s].token.family # 0
        /\ calls[s].kind = "login" => LoginIsNew(s)
        /\ calls[s].kind # "login" => RenewalIsLast(s)

(* The cookie can be given again, or its answer is on the way. *)
Spent(k) == \E s \in Slots : Granted(s) /\ calls[s].kind # "login" /\ calls[s].token = k
CookieHolds == Harmless(cookie) \/ Spent(cookie)
AskedInTime == \A s \in Slots : calls[s].step = "refreshing" => Harmless(calls[s].token)
SharedIsExcused ==
    \A s, p \in Slots : s # p /\ Exchanges(s) /\ Exchanges(p) /\ calls[s].token = calls[p].token
        /\ calls[s].token.family # 0 => calls[s].token \in blameless

(* What a tab shows it holds, and its cookie and its renewals are of that session. *)
TabAgrees(t) ==
    /\ tabs[t].held = tabs[t].shown
    /\ tabs[t].shown # 0 => cookie.family \in {0, tabs[t].shown}
    /\ \A p \in Slots : calls[p].tab = t /\ calls[p].kind \in {"call", "logout"} =>
           /\ tabs[t].shown # 0
           /\ Exchanges(p) => calls[p].token.family \in {0, tabs[t].shown}
TabsAgree == \A t \in Tabs : t \notin overtaken => TabAgrees(t)

TokensSound ==
    /\ TokensAreKnown /\ GrantsAreLast /\ CookieHolds /\ AskedInTime /\ SharedIsExcused
    /\ C!PresentedOnce

ClientInv == C!TypeOK /\ CallsAreOfTabs /\ TokensSound /\ TabsAgree

LEMMA ClientBegins == C!Init => ClientInv
<1> SUFFICES ASSUME C!Init PROVE ClientInv
  OBVIOUS
<1>1. \A s \in Slots : calls[s].step = "idle" /\ calls[s].kind = "none"
  BY DEF C!Init, C!Idle
<1>2. cookie = C!NoToken /\ cookie.family = 0
  BY DEF C!Init, C!NoToken
<1>3. MaxRotations \in Nat /\ MaxExpiries \in Nat /\ Logins \subseteq Nat
  BY ClientAssumed DEF C!ClientAssumption
<1>4. C!TypeOK
  <2>1. C!NoToken \in C!Token
    BY <1>3 DEF C!NoToken, C!Token, C!Sessions
  <2>2. C!Idle \in C!Call
    BY <2>1 DEF C!Idle, C!Call, C!Sessions
  <2>3. C!SignedOut \in C!Tab
    BY DEF C!SignedOut, C!Tab, C!Sessions
  <2>4. families \in [Logins -> [rotation : 0 .. MaxRotations, ended : BOOLEAN]]
    BY <1>3 DEF C!Init
  <2> QED
    BY <1>2, <1>3, <2>1, <2>2, <2>3, <2>4 DEF C!Init, C!TypeOK
<1>5. CallsAreOfTabs
  BY <1>1 DEF CallsAreOfTabs
<1>6. TokensSound
  BY <1>1, <1>2 DEF C!Init, TokensSound, TokensAreKnown, Known, GrantsAreLast, Granted, CookieHolds,
     Harmless, AskedInTime, SharedIsExcused, Exchanges, C!PresentedOnce
<1>7. TabsAgree
  <2>1. \A t \in Tabs : tabs[t].held = 0 /\ tabs[t].shown = 0
    BY DEF C!Init, C!SignedOut
  <2> QED
    BY <1>1, <2>1 DEF TabsAgree, TabAgrees
<1> QED
  BY <1>4, <1>5, <1>6, <1>7 DEF ClientInv

(* What the parts of the state are. *)
LEMMA ClientTypes ==
    ASSUME C!TypeOK
    PROVE  /\ cookie.family \in C!Sessions /\ cookie.rotation \in 0 .. MaxRotations
           /\ \A s \in Slots :
                  /\ calls[s] \in C!Call /\ calls[s].token \in C!Token
                  /\ calls[s].token.family \in C!Sessions
                  /\ calls[s].token.rotation \in 0 .. MaxRotations
           /\ \A f \in Logins : families[f].rotation \in 0 .. MaxRotations
           /\ MaxRotations \in Nat /\ MaxExpiries \in Nat /\ Logins \subseteq Nat \ {0} /\ 0 \notin Logins
           /\ \A f \in C!Sessions : f # 0 => f \in Logins
<1>1. cookie.family \in C!Sessions /\ cookie.rotation \in 0 .. MaxRotations
  BY DEF C!TypeOK, C!Token
<1>2. \A s \in Slots : calls[s] \in C!Call
  BY DEF C!TypeOK
<1>3. \A s \in Slots : calls[s].token \in C!Token
  BY <1>2 DEF C!Call
<1>4. \A s \in Slots : calls[s].token.family \in C!Sessions /\ calls[s].token.rotation \in 0 .. MaxRotations
  BY <1>3 DEF C!Token
<1>5. \A f \in Logins : families[f].rotation \in 0 .. MaxRotations
  BY DEF C!TypeOK
<1>6. MaxRotations \in Nat /\ MaxExpiries \in Nat /\ Logins \subseteq Nat \ {0} /\ 0 \notin Logins
  BY ClientAssumed DEF C!ClientAssumption
<1>7. \A f \in C!Sessions : f # 0 => f \in Logins
  BY DEF C!Sessions
<1> QED
  BY <1>1, <1>2, <1>3, <1>4, <1>5, <1>6, <1>7

(* Writing one call. *)
LEMMA CallWritten ==
    ASSUME C!TypeOK, NEW s \in Slots, NEW c \in C!Call, C!Becomes(s, c)
    PROVE  /\ calls' \in [Slots -> C!Call] /\ calls'[s] = c
           /\ \A p \in Slots : p # s => calls'[p] = calls[p]
BY DEF C!TypeOK, C!Becomes

LEMMA CallsAreWhole ==
    ASSUME C!TypeOK
    PROVE  /\ C!NoToken \in C!Token /\ C!Idle \in C!Call /\ C!SignedOut \in C!Tab
           /\ \A f \in C!Sessions : C!SignedIn(f) \in C!Tab
<1>1. MaxRotations \in Nat
  BY ClientTypes
<1>2. C!NoToken \in C!Token
  BY <1>1 DEF C!NoToken, C!Token, C!Sessions
<1>3. C!Idle \in C!Call
  BY <1>2 DEF C!Idle, C!Call, C!Sessions
<1>4. C!SignedOut \in C!Tab /\ \A f \in C!Sessions : C!SignedIn(f) \in C!Tab
  BY DEF C!SignedOut, C!SignedIn, C!Tab, C!Sessions
<1> QED
  BY <1>2, <1>3, <1>4

(* What ends or refuses exchanges, and begins one at most with the cookie as it
   is, keeps the tokens sound, if what it drops is excused and the new one is
   too unless it is alone with the cookie. *)
LEMMA ExchangesGoOn ==
    ASSUME C!TypeOK, TokensSound, NEW s \in Slots,
           \A p \in Slots : Exchanges(p)' =>
               \/ calls'[p] = calls[p]
               \/ /\ calls[p].step = "refreshing" /\ calls'[p].step = "refused"
                  /\ calls'[p].token = calls[p].token
               \/ /\ p = s /\ calls'[p].step = "refreshing" /\ calls'[p].token = cookie
                  /\ calls'[p].kind # "login",
           calls'[s].step = "refreshing" /\ calls'[s] # calls[s] =>
               \A p \in Slots \ {s} : Exchanges(p)' /\ calls[p].token = cookie /\ cookie.family # 0
                   => cookie \in blameless',
           \A p \in Slots : Granted(p) /\ calls[p].kind # "login" /\ calls'[p] # calls[p]
               => calls[p].token \in blameless',
           cookie' \in {cookie, C!NoToken},
           \A f \in Logins : /\ families'[f].rotation = families[f].rotation
                             /\ families[f].ended => families'[f].ended,
           replays' \subseteq blameless', blameless \subseteq blameless'
    PROVE  TokensSound'
<1> USE ClientTypes
<1>1. /\ \A k \in C!Token : Known(k) => Known(k)'
      /\ \A k \in C!Token : Harmless(k) => Harmless(k)'
  <2> SUFFICES ASSUME NEW k \in C!Token PROVE (Known(k) => Known(k)') /\ (Harmless(k) => Harmless(k)')
    OBVIOUS
  <2>1. k.family \in C!Sessions
    BY DEF C!Token
  <2>2. k.family # 0 => /\ families'[k.family].rotation = families[k.family].rotation
                        /\ families[k.family].ended => families'[k.family].ended
    BY <2>1
  <2> QED
    BY <2>2 DEF Known, Harmless
<1>2. /\ TokensAreKnown /\ GrantsAreLast /\ CookieHolds /\ AskedInTime /\ SharedIsExcused
      /\ C!PresentedOnce
  BY DEF TokensSound
<1>3. cookie \in C!Token /\ \A p \in Slots : calls[p].token \in C!Token
  BY DEF C!TypeOK
<1>4. cookie' = cookie \/ cookie'.family = 0
  BY DEF C!NoToken
<1>5. \A p \in Slots : Exchanges(p)' =>
          \/ Exchanges(p) /\ calls'[p] = calls[p]
          \/ /\ calls[p].step = "refreshing" /\ calls'[p].step = "refused" /\ Exchanges(p)
             /\ calls'[p].token = calls[p].token
          \/ p = s /\ calls'[p].step = "refreshing" /\ calls'[p].token = cookie /\ calls'[p].kind # "login"
             /\ calls'[p] # calls[p]
  BY DEF Exchanges
<1>6. TokensAreKnown'
  <2>1. Known(cookie)'
    BY <1>1, <1>2, <1>3, <1>4 DEF TokensAreKnown, Known
  <2>2. \A p \in Slots : Exchanges(p)' => Known(calls[p].token)'
    BY <1>1, <1>2, <1>3, <1>5 DEF TokensAreKnown, Known
  <2> QED
    BY <2>1, <2>2 DEF TokensAreKnown
<1>7. \A p \in Slots : Granted(p)' => Granted(p) /\ calls'[p] = calls[p]
  BY <1>5 DEF Granted, Exchanges
<1>8. GrantsAreLast'
  <2> SUFFICES ASSUME NEW g \in Slots, Granted(g)'
               PROVE  (/\ calls[g].token.family # 0
                       /\ calls[g].kind = "login" => LoginIsNew(g)
                       /\ calls[g].kind # "login" => RenewalIsLast(g))'
    BY DEF GrantsAreLast
  <2>1. Granted(g) /\ calls'[g] = calls[g] /\ calls[g].token.family # 0
    BY <1>2, <1>7 DEF GrantsAreLast
  <2>2. families'[calls[g].token.family].rotation = families[calls[g].token.family].rotation
    BY <2>1
  <2>3. CASE calls[g].kind = "login"
    <3>1. LoginIsNew(g)
      BY <1>2, <2>1, <2>3 DEF GrantsAreLast
    <3> QED
      BY <1>4, <1>5, <2>1, <2>2, <2>3, <3>1 DEF LoginIsNew
  <2>4. CASE calls[g].kind # "login"
    <3>1. RenewalIsLast(g)
      BY <1>2, <2>1, <2>4 DEF GrantsAreLast
    <3>2. \A p \in Slots \ {g} : Exchanges(p)' /\ calls'[p].token.family = calls[g].token.family =>
              ~Granted(p)' /\ calls'[p].token.rotation <= calls[g].token.rotation
      BY <1>5, <1>7, <2>1, <3>1 DEF RenewalIsLast
    <3>3. cookie'.family = calls[g].token.family => cookie'.rotation <= calls[g].token.rotation
      BY <1>4, <2>1, <3>1 DEF RenewalIsLast
    <3> QED
      BY <2>1, <2>2, <2>4, <3>1, <3>2, <3>3 DEF RenewalIsLast
  <2> QED
    BY <2>1, <2>3, <2>4
<1>9. CookieHolds'
  <2>1. CASE cookie'.family = 0
    BY <2>1 DEF CookieHolds, Harmless
  <2>2. CASE cookie' = cookie /\ Harmless(cookie)
    BY <1>1, <1>3, <2>2 DEF CookieHolds, Harmless
  <2>3. CASE cookie' = cookie /\ Spent(cookie)
    <3>1. PICK g \in Slots : Granted(g) /\ calls[g].kind # "login" /\ calls[g].token = cookie
      BY <2>3 DEF Spent
    <3>2. CASE calls'[g] = calls[g]
      BY <2>3, <3>1, <3>2 DEF CookieHolds, Spent, Granted
    <3>3. CASE calls'[g] # calls[g]
      BY <2>3, <3>1, <3>3 DEF CookieHolds, Harmless
    <3> QED
      BY <3>2, <3>3
  <2> QED
    BY <1>2, <1>4, <2>1, <2>2, <2>3 DEF CookieHolds
<1>10. AskedInTime'
  <2> SUFFICES ASSUME NEW p \in Slots, calls'[p].step = "refreshing" PROVE Harmless(calls[p].token)'
    BY DEF AskedInTime
  <2>1. Exchanges(p)'
    BY DEF Exchanges
  <2>2. CASE calls'[p] = calls[p]
    <3>1. Harmless(calls[p].token)
      BY <1>2, <2>2 DEF AskedInTime
    <3> QED
      BY <1>1, <1>3, <2>2, <3>1 DEF Harmless
  <2>3. CASE calls'[p] # calls[p]
    <3>1. p = s /\ calls'[p].token = cookie
      BY <1>5, <2>1, <2>3
    <3>2. Harmless(cookie) => Harmless(cookie)'
      BY <1>1, <1>3, <3>1, <1>4 DEF Harmless
    <3>3. CASE Harmless(cookie)
      BY <1>1, <1>3, <3>1, <3>3 DEF Harmless
    <3>4. CASE Spent(cookie)
      <4>1. PICK g \in Slots : Granted(g) /\ calls[g].kind # "login" /\ calls[g].token = cookie
        BY <3>4 DEF Spent
      <4>2. cookie.family # 0
        BY <1>2, <4>1 DEF GrantsAreLast
      <4>3. cookie \in blameless'
        <5>1. CASE calls'[g] # calls[g]
          BY <4>1, <5>1
        <5>2. CASE calls'[g] = calls[g]
          <6>1. g # s /\ Exchanges(g)'
            BY <2>3, <3>1, <4>1, <5>2 DEF Granted, Exchanges
          <6> QED
            BY <2>3, <3>1, <4>1, <4>2, <6>1
        <5> QED
          BY <5>1, <5>2
      <4> QED
        BY <3>1, <4>3 DEF Harmless
    <3> QED
      BY <1>2, <3>3, <3>4 DEF CookieHolds
  <2> QED
    BY <2>2, <2>3
<1>11. SharedIsExcused'
  <2> SUFFICES ASSUME NEW p \in Slots, NEW q \in Slots, p # q, Exchanges(p)', Exchanges(q)',
                      calls'[p].token = calls'[q].token, calls'[p].token.family # 0
               PROVE  calls'[p].token \in blameless'
    BY DEF SharedIsExcused
  <2> DEFINE Begins(r) == r = s /\ calls'[r].step = "refreshing" /\ calls'[r].token = cookie
                         /\ calls'[r] # calls[r]
             GoesOn(r) == Exchanges(r) /\ calls'[r].token = calls[r].token
  <2>1. (GoesOn(p) \/ Begins(p)) /\ (GoesOn(q) \/ Begins(q))
    BY <1>5
  <2>2. CASE GoesOn(p) /\ GoesOn(q)
    BY <1>2, <2>2 DEF SharedIsExcused
  <2>3. CASE Begins(p)
    BY <1>5, <2>1, <2>3
  <2>4. CASE Begins(q)
    BY <1>5, <2>1, <2>4
  <2> QED
    BY <2>1, <2>2, <2>3, <2>4
<1>12. C!PresentedOnce'
  BY DEF C!PresentedOnce
<1> QED
  BY <1>6, <1>8, <1>9, <1>10, <1>11, <1>12 DEF TokensSound

(* Types, action by action. *)
LEMMA CallTyped ==
    ASSUME NEW c \in C!Call
    PROVE  /\ \A step \in {"idle", "sent", "served", "joined", "refreshing", "granted", "refused"} :
                  [c EXCEPT !.step = step] \in C!Call
           /\ \A k \in C!Token : [c EXCEPT !.step = "refreshing", !.token = k] \in C!Call
           /\ \A k \in C!Token : [c EXCEPT !.step = "granted", !.token = k] \in C!Call
           /\ \A p \in Slots : [c EXCEPT !.step = "joined", !.on = p] \in C!Call
           /\ \A k \in C!Token : \A f \in C!Sessions :
                  [c EXCEPT !.step = "sent", !.retried = TRUE, !.on = NoSlot, !.token = k,
                            !.with = [family |-> f, good |-> TRUE]] \in C!Call
BY DEF C!Call

LEMMA CallBegun ==
    ASSUME C!TypeOK, NEW t \in Tabs
    PROVE  /\ [C!Idle EXCEPT !.tab = t, !.kind = "login", !.step = "sent"] \in C!Call
           /\ [C!Idle EXCEPT !.tab = t, !.kind = "restore", !.step = "refreshing", !.token = cookie]
                  \in C!Call
           /\ \A kind \in {"call", "logout"} :
                  [C!Idle EXCEPT !.tab = t, !.kind = kind, !.step = "sent", !.with = C!With(t)] \in C!Call
<1>1. C!NoToken \in C!Token /\ cookie \in C!Token
  BY CallsAreWhole DEF C!TypeOK
<1>2. C!With(t) \in [family : C!Sessions, good : BOOLEAN]
  BY DEF C!TypeOK, C!Tab, C!With
<1> QED
  BY <1>1, <1>2 DEF C!Idle, C!Call, C!Sessions

(* A step that writes one call leaves the calls as they must be. *)
LEMMA CallsKept ==
    ASSUME C!TypeOK, CallsAreOfTabs, NEW s \in Slots, NEW c \in C!Call, C!Becomes(s, c),
           c.kind # "none" => c.tab \in Tabs, c.kind = "none" => c.step = "idle",
           c.kind = "login" => c.step \in {"sent", "granted"}
    PROVE  calls' \in [Slots -> C!Call] /\ CallsAreOfTabs'
BY CallWritten DEF CallsAreOfTabs

LEMMA FamiliesKept ==
    ASSUME C!TypeOK, NEW f \in Logins
    PROVE  /\ \A r \in 0 .. MaxRotations :
                  [families EXCEPT ![f].rotation = r]
                      \in [Logins -> [rotation : 0 .. MaxRotations, ended : BOOLEAN]]
           /\ [families EXCEPT ![f].ended = TRUE]
                  \in [Logins -> [rotation : 0 .. MaxRotations, ended : BOOLEAN]]
<1>1. families[f] \in [rotation : 0 .. MaxRotations, ended : BOOLEAN]
  BY DEF C!TypeOK
<1>2. /\ \A r \in 0 .. MaxRotations : [families[f] EXCEPT !.rotation = r]
                                          \in [rotation : 0 .. MaxRotations, ended : BOOLEAN]
      /\ [families[f] EXCEPT !.ended = TRUE] \in [rotation : 0 .. MaxRotations, ended : BOOLEAN]
  BY <1>1
<1> QED
  BY <1>2 DEF C!TypeOK

LEMMA TabsKept ==
    ASSUME C!TypeOK, NEW t \in Tabs, NEW row \in C!Tab
    PROVE  [tabs EXCEPT ![t] = row] \in [Tabs -> C!Tab]
BY DEF C!TypeOK

(* Tokens that are excused are tokens. *)
LEMMA ExcusesAreTokens ==
    ASSUME C!TypeOK
    PROVE  /\ cookie \in C!Token /\ \A p \in Slots : calls[p].token \in C!Token
           /\ \A s, t, kind : C!Excuses(s, t, kind) => blameless' \subseteq C!Token /\ blameless \subseteq blameless'
<1>1. cookie \in C!Token /\ \A p \in Slots : calls[p].token \in C!Token
  BY ClientTypes DEF C!TypeOK
<1> QED
  BY <1>1 DEF C!Excuses, C!TypeOK

(* Where no tab is written, requests of a tab that shows somebody, and renewals
   with the cookie it has, keep the tabs in agreement. *)
LEMMA TabsStay ==
    ASSUME TabsAgree, tabs' = tabs, cookie' = cookie, overtaken \subseteq overtaken',
           \A p \in Slots : calls'[p].kind \in {"call", "logout"} =>
               /\ \/ calls[p].tab = calls'[p].tab /\ calls[p].kind \in {"call", "logout"}
                  \/ tabs[calls'[p].tab].shown # 0
               /\ Exchanges(p)' =>
                      \/ calls'[p].token = cookie
                      \/ /\ calls[p].tab = calls'[p].tab /\ calls[p].kind \in {"call", "logout"}
                         /\ Exchanges(p) /\ calls'[p].token = calls[p].token
    PROVE  TabsAgree'
<1> SUFFICES ASSUME NEW t \in Tabs, t \notin overtaken PROVE TabAgrees(t)'
  BY DEF TabsAgree
<1>1. TabAgrees(t)
  BY DEF TabsAgree
<1>2. ASSUME NEW p \in Slots, calls'[p].tab = t, calls'[p].kind \in {"call", "logout"}
      PROVE  /\ tabs[t].shown # 0
             /\ Exchanges(p)' => calls'[p].token.family \in {0, tabs[t].shown}
  <2>1. tabs[t].shown # 0
    BY <1>1, <1>2 DEF TabAgrees
  <2> QED
    BY <1>1, <1>2, <2>1 DEF TabAgrees
<1> QED
  BY <1>1, <1>2 DEF TabAgrees

LEMMA ClientExpires == ASSUME ClientInv, NEW t \in Tabs, C!Expire(t) PROVE ClientInv'
<1>1. C!TypeOK /\ CallsAreOfTabs /\ TokensSound /\ TabsAgree
  BY DEF ClientInv
<1>2. UNCHANGED <<cookie, families, calls, replays, blameless, overtaken>>
  BY DEF C!Expire
<1>3. tabs[t] \in C!Tab /\ tabs' = [tabs EXCEPT ![t] = [tabs[t] EXCEPT !.good = FALSE]]
  BY <1>1 DEF C!TypeOK, C!Expire
<1>4. [tabs[t] EXCEPT !.good = FALSE] \in C!Tab
  BY <1>3 DEF C!Tab
<1>5. tabs' \in [Tabs -> C!Tab]
  BY <1>1, <1>3, <1>4, TabsKept
<1>6. expiries' \in 0 .. MaxExpiries
  BY <1>1, ClientTypes DEF C!Expire, C!TypeOK
<1>7. C!TypeOK'
  BY <1>1, <1>2, <1>5, <1>6 DEF C!TypeOK
<1>8. CallsAreOfTabs' /\ TokensSound'
  BY <1>1, <1>2 DEF CallsAreOfTabs, TokensSound, TokensAreKnown, Known, GrantsAreLast, Granted,
     LoginIsNew, RenewalIsLast, Exchanges, CookieHolds, Harmless, Spent, AskedInTime, SharedIsExcused,
     C!PresentedOnce
<1>9. \A u \in Tabs : tabs'[u].held = tabs[u].held /\ tabs'[u].shown = tabs[u].shown
  BY <1>1, <1>3 DEF C!TypeOK, C!Tab
<1>10. TabsAgree'
  BY <1>1, <1>2, <1>9 DEF TabsAgree, TabAgrees, Exchanges
<1> QED
  BY <1>7, <1>8, <1>10 DEF ClientInv

(* A call that begins or ends without an exchange. *)
LEMMA QuietCallKeeps ==
    ASSUME ClientInv, NEW s \in Slots, NEW c \in C!Call, C!Becomes(s, c),
           c.step \notin {"refreshing", "granted", "refused"}, ~Exchanges(s),
           c.kind # "none" => c.tab \in Tabs, c.kind = "none" => c.step = "idle",
           c.kind = "login" => c.step \in {"sent", "granted"},
           c.kind \in {"call", "logout"} =>
               \/ calls[s].tab = c.tab /\ calls[s].kind \in {"call", "logout"}
               \/ tabs[c.tab].shown # 0,
           families' \in [Logins -> [rotation : 0 .. MaxRotations, ended : BOOLEAN]],
           \A f \in Logins : /\ families'[f].rotation = families[f].rotation
                             /\ families[f].ended => families'[f].ended,
           UNCHANGED <<cookie, tabs, replays, blameless, overtaken, expiries>>
    PROVE  ClientInv'
<1>1. C!TypeOK /\ CallsAreOfTabs /\ TokensSound /\ TabsAgree
  BY DEF ClientInv
<1>2. calls'[s] = c /\ \A p \in Slots : p # s => calls'[p] = calls[p]
  BY <1>1, CallWritten
<1>3. calls' \in [Slots -> C!Call] /\ CallsAreOfTabs'
  BY <1>1, CallsKept
<1>4. C!TypeOK'
  BY <1>1, <1>3 DEF C!TypeOK
<1>5. \A p \in Slots : Exchanges(p)' => calls'[p] = calls[p]
  BY <1>2 DEF Exchanges
<1>6. \A p \in Slots : Granted(p) => calls'[p] = calls[p]
  BY <1>2 DEF Exchanges, Granted
<1>7. calls'[s].step # "refreshing"
  BY <1>2
<1>8. TokensSound'
  <2>1. replays' \subseteq blameless' /\ blameless \subseteq blameless'
    BY <1>1 DEF TokensSound, C!PresentedOnce
  <2> QED
    BY <1>1, <1>5, <1>6, <1>7, <2>1, ExchangesGoOn
<1>9. \A p \in Slots : Exchanges(p)' => Exchanges(p) /\ calls'[p] = calls[p]
  BY <1>5 DEF Exchanges
<1>10. \A p \in Slots : calls'[p].kind \in {"call", "logout"} =>
          \/ calls[p].tab = calls'[p].tab /\ calls[p].kind \in {"call", "logout"}
          \/ tabs[calls'[p].tab].shown # 0
  BY <1>2
<1>11. TabsAgree'
  BY <1>1, <1>9, <1>10, TabsStay
<1> QED
  BY <1>3, <1>4, <1>8, <1>11 DEF ClientInv

LEMMA LoginKeeps == ASSUME ClientInv, NEW s \in Slots, NEW t \in Tabs, C!Login(s, t) PROVE ClientInv'
<1> DEFINE c == [C!Idle EXCEPT !.tab = t, !.kind = "login", !.step = "sent"]
<1>1. C!TypeOK /\ CallsAreOfTabs
  BY DEF ClientInv
<1>2. c \in C!Call
  BY <1>1, CallBegun
<1>3. c.kind = "login" /\ c.tab = t /\ c.step = "sent"
  BY DEF C!Idle
<1>4. C!Becomes(s, c) /\ ~Exchanges(s)
      /\ UNCHANGED <<cookie, families, tabs, replays, blameless, overtaken, expiries>>
  BY <1>1 DEF C!Login, CallsAreOfTabs, Exchanges
<1> HIDE DEF c
<1> QED
  BY <1>1, <1>2, <1>3, <1>4, QuietCallKeeps DEF C!TypeOK

LEMMA SendKeeps ==
    ASSUME ClientInv, NEW s \in Slots, NEW t \in Tabs, NEW kind \in {"call", "logout"}, C!Send(s, t, kind)
    PROVE  ClientInv'
<1> DEFINE c == [C!Idle EXCEPT !.tab = t, !.kind = kind, !.step = "sent", !.with = C!With(t)]
<1>1. C!TypeOK /\ CallsAreOfTabs
  BY DEF ClientInv
<1>2. c \in C!Call
  BY <1>1, CallBegun
<1>3. c.kind = kind /\ c.tab = t /\ c.step = "sent"
  BY DEF C!Idle
<1>4. C!Becomes(s, c) /\ ~Exchanges(s) /\ tabs[t].shown # 0
      /\ UNCHANGED <<cookie, families, tabs, replays, blameless, overtaken, expiries>>
  BY <1>1 DEF C!Send, CallsAreOfTabs, Exchanges
<1> HIDE DEF c
<1> QED
  BY <1>1, <1>2, <1>3, <1>4, QuietCallKeeps DEF C!TypeOK

LEMMA ServeKeeps == ASSUME ClientInv, NEW s \in Slots, C!Serve(s) PROVE ClientInv'
<1>1. C!TypeOK /\ CallsAreOfTabs
  BY DEF ClientInv
<1>2. calls[s] \in C!Call /\ calls[s].step = "sent" /\ ~Exchanges(s)
  BY <1>1, ClientTypes DEF C!Serve, Exchanges
<1>3. UNCHANGED <<cookie, tabs, replays, blameless, overtaken, expiries>>
  BY DEF C!Serve
<1>4. CASE calls[s].kind = "logout"
  <2> DEFINE c == [calls[s] EXCEPT !.step = "served"]
             f == calls[s].with.family
  <2>1. C!Becomes(s, c) /\ families' = [families EXCEPT ![f].ended = TRUE] /\ f # 0
    BY <1>4 DEF C!Serve, C!Admitted
  <2>2. f \in Logins
    BY <1>2, <2>1 DEF C!Call, C!Sessions
  <2>3. c \in C!Call /\ c.kind = "logout" /\ c.tab = calls[s].tab /\ c.step = "served"
    <3>1. c \in C!Call
      BY <1>2, CallTyped
    <3>2. c.kind = calls[s].kind /\ c.tab = calls[s].tab /\ c.step = "served"
      BY <1>2 DEF C!Call
    <3> QED
      BY <1>4, <3>1, <3>2
  <2>4. c.tab \in Tabs
    BY <1>1, <1>4, <2>3 DEF CallsAreOfTabs
  <2>5. families' \in [Logins -> [rotation : 0 .. MaxRotations, ended : BOOLEAN]]
    BY <1>1, <2>1, <2>2, FamiliesKept
  <2>6. \A g \in Logins : /\ families'[g].rotation = families[g].rotation
                          /\ families[g].ended => families'[g].ended
    BY <1>1, <2>1, <2>2 DEF C!TypeOK
  <2> HIDE DEF c, f
  <2> QED
    BY <1>2, <1>3, <1>4, <2>1, <2>3, <2>4, <2>5, <2>6, QuietCallKeeps
<1>5. CASE calls[s].kind # "logout"
  <2>1. C!Becomes(s, C!Idle) /\ families' = families
    BY <1>5 DEF C!Serve
  <2>2. C!Idle \in C!Call /\ C!Idle.step = "idle" /\ C!Idle.kind = "none"
    BY <1>1, CallsAreWhole DEF C!Idle
  <2> QED
    BY <1>1, <1>2, <1>3, <2>1, <2>2, QuietCallKeeps DEF C!TypeOK
<1> QED
  BY <1>4, <1>5

LEMMA EndOfCallKeeps == ASSUME ClientInv, NEW s \in Slots, C!EndOfCall(s) PROVE ClientInv'
<1>1. C!TypeOK /\ ~Exchanges(s) /\ C!Becomes(s, C!Idle)
      /\ UNCHANGED <<cookie, families, tabs, replays, blameless, overtaken, expiries>>
  BY DEF ClientInv, C!EndOfCall, Exchanges
<1>2. C!Idle \in C!Call /\ C!Idle.step = "idle" /\ C!Idle.kind = "none"
  BY <1>1, CallsAreWhole DEF C!Idle
<1> QED
  BY <1>1, <1>2, QuietCallKeeps DEF C!TypeOK

(* A login is the first session of a family nobody has a token of. *)
LEMMA ServeLoginKeeps == ASSUME ClientInv, NEW s \in Slots, C!ServeLogin(s) PROVE ClientInv'
<1>1. /\ C!TypeOK /\ CallsAreOfTabs /\ TabsAgree
      /\ TokensAreKnown /\ GrantsAreLast /\ CookieHolds /\ AskedInTime /\ SharedIsExcused
      /\ C!PresentedOnce
  BY DEF ClientInv, TokensSound
<1>2. /\ calls[s] \in C!Call /\ calls[s].kind = "login" /\ calls[s].step = "sent" /\ ~Exchanges(s)
      /\ UNCHANGED <<cookie, tabs, replays, blameless, overtaken, expiries>>
  BY <1>1, ClientTypes DEF C!ServeLogin, Exchanges
<1>3. PICK f \in Logins :
          /\ families[f].rotation = 0
          /\ families' = [families EXCEPT ![f].rotation = 1]
          /\ C!Becomes(s, [calls[s] EXCEPT !.step = "granted",
                                           !.token = [family |-> f, rotation |-> 1]])
  BY DEF C!ServeLogin
<1> DEFINE k == [family |-> f, rotation |-> 1]
           c == [calls[s] EXCEPT !.step = "granted", !.token = k]
<1>4. MaxRotations \in Nat \ {0} /\ f # 0
  BY ClientAssumed DEF C!ClientAssumption
<1>5. k \in C!Token /\ k.family = f /\ k.rotation = 1
  BY <1>4 DEF C!Token, C!Sessions
<1> HIDE DEF k
<1>6. c \in C!Call
  BY <1>2, <1>5, CallTyped
<1>7. c.step = "granted" /\ c.token = k /\ c.kind = "login" /\ c.tab = calls[s].tab /\ c.tab \in Tabs
  BY <1>1, <1>2 DEF C!Call, CallsAreOfTabs
<1>8. C!Becomes(s, c)
  BY <1>3 DEF k
<1> HIDE DEF c
<1>9. calls' \in [Slots -> C!Call] /\ CallsAreOfTabs'
  BY <1>1, <1>6, <1>7, <1>8, CallsKept
<1>10. calls'[s] = c /\ \A p \in Slots : p # s => calls'[p] = calls[p]
  BY <1>1, <1>6, <1>8, CallWritten
<1>11. families' \in [Logins -> [rotation : 0 .. MaxRotations, ended : BOOLEAN]]
  <2>1. 1 \in 0 .. MaxRotations
    BY <1>4
  <2>2. families' = [families EXCEPT ![f].rotation = 1]
    BY <1>3
  <2> QED
    BY <1>1, <2>1, <2>2, FamiliesKept
<1>12. /\ families'[f].rotation = 1
       /\ \A g \in Logins : g # f => families'[g] = families[g]
       /\ \A g \in Logins : families'[g].ended = families[g].ended
  BY <1>1, <1>3 DEF C!TypeOK
<1>13. C!TypeOK'
  BY <1>1, <1>2, <1>9, <1>11 DEF C!TypeOK
<1>14. cookie.family # f /\ \A p \in Slots : Exchanges(p) => calls[p].token.family # f
  <2>1. \A h \in C!Token : Known(h) => h.family # f
    BY <1>3, <1>4 DEF Known
  <2> QED
    BY <1>1, <2>1, ExcusesAreTokens DEF TokensAreKnown
<1>15. \A h \in C!Token : h.family # f =>
           (Known(h) => Known(h)') /\ (Harmless(h) => Harmless(h)')
  <2> SUFFICES ASSUME NEW h \in C!Token, h.family # f
               PROVE  (Known(h) => Known(h)') /\ (Harmless(h) => Harmless(h)')
    OBVIOUS
  <2>1. h.family # 0 => families'[h.family] = families[h.family]
    BY <1>12 DEF C!Token, C!Sessions
  <2> QED
    BY <1>2, <2>1 DEF Known, Harmless
<1>16. \A p \in Slots : Exchanges(p)' => p = s \/ (Exchanges(p) /\ calls'[p] = calls[p])
  BY <1>10 DEF Exchanges
<1>17. cookie \in C!Token /\ \A p \in Slots : calls[p].token \in C!Token
  BY <1>1, ExcusesAreTokens
<1>18. TokensAreKnown'
  <2>1. Known(cookie)'
    BY <1>1, <1>2, <1>14, <1>15, <1>17 DEF TokensAreKnown, Known
  <2>2. Known(calls[s].token)'
    BY <1>5, <1>7, <1>10, <1>12 DEF Known
  <2>3. ASSUME NEW p \in Slots, Exchanges(p)', p # s PROVE Known(calls[p].token)'
    <3>1. Exchanges(p) /\ calls'[p] = calls[p]
      BY <1>16, <2>3
    <3>2. Known(calls[p].token) /\ calls[p].token \in C!Token /\ calls[p].token.family # f
      BY <1>1, <1>14, <1>17, <3>1 DEF TokensAreKnown
    <3> QED
      BY <1>15, <3>1, <3>2 DEF Known
  <2> QED
    BY <2>1, <2>2, <2>3 DEF TokensAreKnown
<1>19. GrantsAreLast'
  <2> SUFFICES ASSUME NEW g \in Slots, Granted(g)'
               PROVE  (/\ calls[g].token.family # 0
                       /\ calls[g].kind = "login" => LoginIsNew(g)
                       /\ calls[g].kind # "login" => RenewalIsLast(g))'
    BY DEF GrantsAreLast
  <2>1. CASE g = s
    <3>1. LoginIsNew(s)'
      BY <1>2, <1>5, <1>7, <1>10, <1>12, <1>14, <1>16 DEF LoginIsNew
    <3> QED
      BY <1>4, <1>5, <1>7, <1>10, <2>1, <3>1
  <2>2. CASE g # s
    <3>1. Granted(g) /\ calls'[g] = calls[g] /\ Exchanges(g)
      BY <1>10, <2>2 DEF Granted, Exchanges
    <3>2. calls[g].token.family # f /\ calls[g].token.family \in Logins
      BY <1>1, <1>14, <3>1, ClientTypes DEF GrantsAreLast
    <3>3. families'[calls[g].token.family] = families[calls[g].token.family]
      BY <1>12, <3>2
    <3>4. calls'[s].token.family # calls[g].token.family
      BY <1>5, <1>7, <1>10, <3>2
    <3>5. CASE calls[g].kind = "login"
      <4>1. LoginIsNew(g)
        BY <1>1, <3>1, <3>5 DEF GrantsAreLast
      <4> QED
        BY <1>1, <1>2, <1>16, <3>1, <3>3, <3>4, <3>5, <4>1 DEF LoginIsNew, GrantsAreLast
    <3>6. CASE calls[g].kind # "login"
      <4>1. RenewalIsLast(g)
        BY <1>1, <3>1, <3>6 DEF GrantsAreLast
      <4>2. \A p \in Slots \ {g} : Exchanges(p)' /\ calls'[p].token.family = calls[g].token.family =>
                ~Granted(p)' /\ calls'[p].token.rotation <= calls[g].token.rotation
        BY <1>16, <3>4, <4>1 DEF RenewalIsLast, Granted
      <4> QED
        BY <1>1, <1>2, <3>1, <3>3, <3>6, <4>1, <4>2 DEF RenewalIsLast, GrantsAreLast
    <3> QED
      BY <3>5, <3>6
  <2> QED
    BY <2>1, <2>2
<1>20. CookieHolds'
  <2>1. CASE Harmless(cookie)
    BY <1>2, <1>14, <1>15, <1>17, <2>1 DEF CookieHolds, Harmless
  <2>2. CASE Spent(cookie)
    <3>1. PICK g \in Slots : Granted(g) /\ calls[g].kind # "login" /\ calls[g].token = cookie
      BY <2>2 DEF Spent
    <3>2. calls'[g] = calls[g]
      BY <1>2, <1>10, <3>1
    <3> QED
      BY <1>2, <3>1, <3>2 DEF CookieHolds, Spent, Granted
  <2> QED
    BY <1>1, <2>1, <2>2 DEF CookieHolds
<1>21. AskedInTime'
  <2> SUFFICES ASSUME NEW p \in Slots, calls'[p].step = "refreshing" PROVE Harmless(calls[p].token)'
    BY DEF AskedInTime
  <2>1. p # s /\ calls'[p] = calls[p]
    BY <1>7, <1>10
  <2>2. Harmless(calls[p].token) /\ calls[p].token \in C!Token /\ calls[p].token.family # f
    BY <1>1, <1>14, <1>17, <2>1 DEF AskedInTime, Exchanges
  <2> QED
    BY <1>15, <2>1, <2>2 DEF Harmless
<1>22. SharedIsExcused'
  BY <1>1, <1>2, <1>5, <1>7, <1>10, <1>14, <1>16 DEF SharedIsExcused
<1>23. TokensSound'
  BY <1>1, <1>2, <1>18, <1>19, <1>20, <1>21, <1>22 DEF TokensSound, C!PresentedOnce
<1>24. TabsAgree'
  <2>1. \A p \in Slots : calls'[p].kind \in {"call", "logout"} => calls'[p] = calls[p]
    BY <1>7, <1>10
  <2> QED
    BY <1>1, <1>2, <2>1, TabsStay DEF Exchanges
<1> QED
  BY <1>9, <1>13, <1>23, <1>24 DEF ClientInv


(* A renewal that begins with the cookie, and is excused if another has it. *)
LEMMA RenewalBegins ==
    ASSUME ClientInv, NEW s \in Slots, NEW c \in C!Call, C!Becomes(s, c), ~Exchanges(s),
           c.step = "refreshing", c.token = cookie, c.kind \in {"call", "logout", "restore"},
           c.tab \in Tabs,
           c.kind \in {"call", "logout"} => calls[s].tab = c.tab /\ calls[s].kind \in {"call", "logout"},
           blameless' \in {blameless, blameless \cup {cookie}},
           \A p \in Slots \ {s} : Exchanges(p) /\ calls[p].token = cookie /\ cookie.family # 0
               => cookie \in blameless',
           UNCHANGED <<cookie, families, tabs, replays, overtaken, expiries>>
    PROVE  ClientInv'
<1>1. C!TypeOK /\ CallsAreOfTabs /\ TokensSound /\ TabsAgree
  BY DEF ClientInv
<1>2. calls'[s] = c /\ \A p \in Slots : p # s => calls'[p] = calls[p]
  BY <1>1, CallWritten
<1>3. calls' \in [Slots -> C!Call] /\ CallsAreOfTabs'
  BY <1>1, CallsKept
<1>4. blameless' \subseteq C!Token /\ blameless \subseteq blameless'
  BY <1>1, ExcusesAreTokens DEF C!TypeOK
<1>5. C!TypeOK'
  BY <1>1, <1>3, <1>4 DEF C!TypeOK
<1>6. \A p \in Slots : Exchanges(p)' =>
          \/ calls'[p] = calls[p]
          \/ p = s /\ calls'[p].step = "refreshing" /\ calls'[p].token = cookie /\ calls'[p].kind # "login"
  BY <1>2 DEF Exchanges
<1>7. \A p \in Slots \ {s} : Exchanges(p)' /\ calls[p].token = cookie /\ cookie.family # 0
          => cookie \in blameless'
  BY <1>2 DEF Exchanges
<1>8. \A p \in Slots : Granted(p) => calls'[p] = calls[p]
  BY <1>2 DEF Exchanges, Granted
<1>9. replays' \subseteq blameless'
  BY <1>1, <1>4 DEF TokensSound, C!PresentedOnce
<1>10. TokensSound'
  BY <1>1, <1>4, <1>6, <1>7, <1>8, <1>9, ExchangesGoOn
<1>11. \A p \in Slots : calls'[p].kind \in {"call", "logout"} =>
           /\ calls[p].tab = calls'[p].tab /\ calls[p].kind \in {"call", "logout"}
           /\ Exchanges(p)' => \/ calls'[p].token = cookie
                               \/ Exchanges(p) /\ calls'[p].token = calls[p].token
  BY <1>2 DEF Exchanges
<1>12. TabsAgree'
  BY <1>1, <1>11, TabsStay
<1> QED
  BY <1>3, <1>5, <1>10, <1>12 DEF ClientInv

LEMMA RestoreKeeps ==
    ASSUME ClientInv, NEW s \in Slots, NEW t \in Tabs, C!Restore(s, t) PROVE ClientInv'
<1> DEFINE c == [C!Idle EXCEPT !.tab = t, !.kind = "restore", !.step = "refreshing", !.token = cookie]
<1>1. C!TypeOK /\ CallsAreOfTabs
  BY DEF ClientInv
<1>2. c \in C!Call
  BY <1>1, CallBegun
<1>3. c.kind = "restore" /\ c.tab = t /\ c.step = "refreshing" /\ c.token = cookie
  BY DEF C!Idle
<1>4. C!Becomes(s, c) /\ ~Exchanges(s) /\ C!Excuses(s, t, "restore")
      /\ UNCHANGED <<cookie, families, tabs, replays, overtaken, expiries>>
  BY <1>1 DEF C!Restore, CallsAreOfTabs, Exchanges
<1>5. blameless' \in {blameless, blameless \cup {cookie}}
  BY <1>4 DEF C!Excuses
<1>6. ASSUME NEW p \in Slots \ {s}, Exchanges(p), calls[p].token = cookie PROVE cookie \in blameless'
  <2>1. C!Beside(s, t, "restore")
    BY <1>6 DEF C!Beside, C!Exchanging, Exchanges
  <2> QED
    BY <1>4, <2>1 DEF C!Excuses
<1> HIDE DEF c
<1> QED
  BY <1>2, <1>3, <1>4, <1>5, <1>6, RenewalBegins

(* A tab has one renewal of its requests: another exchange with the cookie is a
   restore or of another tab. *)
LEMMA RenewKeeps == ASSUME ClientInv, NEW s \in Slots, C!Renew(s) PROVE ClientInv'
<1>1. C!TypeOK /\ CallsAreOfTabs /\ GrantsAreLast
  BY DEF ClientInv, TokensSound
<1> DEFINE t == calls[s].tab
           kind == calls[s].kind
<1>2. /\ calls[s] \in C!Call /\ calls[s].step = "sent" /\ kind # "login" /\ ~Exchanges(s)
      /\ UNCHANGED <<cookie, families, tabs, replays, overtaken, expiries>>
  BY <1>1, ClientTypes DEF C!Renew, Exchanges
<1>3. kind \in {"call", "logout", "restore"} /\ t \in Tabs
  BY <1>1, <1>2 DEF CallsAreOfTabs, C!Call
<1>4. CASE C!Leaders(t) # {}
  <2>1. PICK q \in C!Leaders(t) : C!Becomes(s, [calls[s] EXCEPT !.step = "joined", !.on = q])
    BY <1>4 DEF C!Renew
  <2> DEFINE c == [calls[s] EXCEPT !.step = "joined", !.on = q]
  <2>2. q \in Slots
    BY <2>1 DEF C!Leaders, C!Of
  <2>3. c \in C!Call
    BY <1>2, <2>2, CallTyped
  <2>4. c.step = "joined" /\ c.kind = kind /\ c.tab = t
    BY <1>2 DEF C!Call
  <2>5. C!Becomes(s, c) /\ blameless' = blameless
    BY <1>4, <2>1 DEF C!Renew
  <2> HIDE DEF c
  <2> QED
    BY <1>1, <1>2, <1>3, <2>3, <2>4, <2>5, QuietCallKeeps DEF C!TypeOK
<1>5. CASE C!Leaders(t) = {}
  <2> DEFINE c == [calls[s] EXCEPT !.step = "refreshing", !.token = cookie]
  <2>1. C!Becomes(s, c) /\ C!Excuses(s, t, kind)
    BY <1>5 DEF C!Renew
  <2>2. c \in C!Call
    BY <1>1, <1>2, CallTyped, ExcusesAreTokens
  <2>3. c.step = "refreshing" /\ c.kind = kind /\ c.tab = t /\ c.token = cookie
    BY <1>2 DEF C!Call
  <2>4. blameless' \in {blameless, blameless \cup {cookie}}
    BY <2>1 DEF C!Excuses
  <2>5. ASSUME NEW p \in Slots \ {s}, Exchanges(p), calls[p].token = cookie, cookie.family # 0
        PROVE  cookie \in blameless'
    <3>1. calls[p].kind # "none" /\ calls[p] \in C!Call
      BY <1>1, <2>5, ClientTypes DEF CallsAreOfTabs, Exchanges
    <3>2. calls[p].kind # "login"
      <4> SUFFICES ASSUME calls[p].kind = "login" PROVE FALSE
        OBVIOUS
      <4>1. Granted(p)
        BY <1>1, <2>5 DEF CallsAreOfTabs, Exchanges, Granted
      <4>2. LoginIsNew(p)
        BY <1>1, <4>1 DEF GrantsAreLast
      <4> QED
        BY <2>5, <4>2 DEF LoginIsNew
    <3>3. calls[p].kind \in {"call", "logout", "restore"}
      BY <3>1, <3>2 DEF C!Call
    <3>4. calls[p].tab # t \/ calls[p].kind = "restore"
      BY <1>5, <2>5, <3>3 DEF C!Leaders, C!Of, C!Exchanging, Exchanges
    <3>5. C!Beside(s, t, kind)
      BY <2>5, <3>4 DEF C!Beside, C!Exchanging, Exchanges
    <3> QED
      BY <2>1, <3>5 DEF C!Excuses
  <2> HIDE DEF c
  <2> QED
    BY <1>2, <1>3, <2>1, <2>2, <2>3, <2>4, <2>5, RenewalBegins
<1> QED
  BY <1>4, <1>5

(* A tab that is cleared agrees with itself; its requests that go on make it
   one whose session changed. *)
LEMMA ClearedAgrees ==
    ASSUME C!TypeOK, TabsAgree, NEW t \in Tabs, tabs' = [tabs EXCEPT ![t] = C!SignedOut],
           cookie' \in {cookie, C!NoToken},
           \A u \in overtaken : u # t => u \in overtaken',
           \A p \in Slots : calls'[p].kind \in {"call", "logout"} =>
               calls'[p] = calls[p] /\ (calls[p].tab = t => t \in overtaken')
    PROVE  tabs' \in [Tabs -> C!Tab] /\ TabsAgree'
<1>1. tabs' \in [Tabs -> C!Tab]
  BY CallsAreWhole, TabsKept
<1> SUFFICES ASSUME NEW u \in Tabs, u \notin overtaken' PROVE TabAgrees(u)'
  BY <1>1 DEF TabsAgree
<1>2. CASE u = t
  <2>1. tabs'[u].held = 0 /\ tabs'[u].shown = 0
    BY <1>2 DEF C!TypeOK, C!SignedOut
  <2> QED
    BY <1>2, <2>1 DEF TabAgrees
<1>3. CASE u # t
  <2>1. TabAgrees(u) /\ tabs'[u] = tabs[u]
    BY <1>3 DEF TabsAgree, C!TypeOK
  <2>2. cookie' = cookie \/ cookie'.family = 0
    BY DEF C!NoToken
  <2>3. tabs'[u].held = tabs'[u].shown /\ (tabs'[u].shown # 0 => cookie'.family \in {0, tabs'[u].shown})
    BY <2>1, <2>2 DEF TabAgrees
  <2>4. ASSUME NEW p \in Slots, calls'[p].tab = u, calls'[p].kind \in {"call", "logout"}
        PROVE  tabs'[u].shown # 0 /\ (Exchanges(p)' => calls'[p].token.family \in {0, tabs'[u].shown})
    BY <2>1, <2>4 DEF TabAgrees, Exchanges
  <2> QED
    BY <2>3, <2>4 DEF TabAgrees
<1> QED
  BY <1>2, <1>3

LEMMA EndOfLogoutKeeps == ASSUME ClientInv, NEW s \in Slots, C!EndOfLogout(s) PROVE ClientInv'
<1>1. C!TypeOK /\ CallsAreOfTabs /\ TokensSound /\ TabsAgree
  BY DEF ClientInv
<1> DEFINE t == calls[s].tab
<1>2. /\ calls[s].kind = "logout" /\ calls[s].step \in {"sent", "served"} /\ ~Exchanges(s)
      /\ C!Becomes(s, C!Idle) /\ cookie' \in {cookie, C!NoToken}
      /\ UNCHANGED <<families, replays, blameless, expiries>>
      /\ tabs' = [tabs EXCEPT ![t] = C!SignedOut]
      /\ overtaken' = IF C!GoesOn(t, {s}) THEN overtaken \cup {t} ELSE overtaken
  BY DEF C!EndOfLogout, C!Clear, Exchanges
<1>3. t \in Tabs
  BY <1>1, <1>2 DEF CallsAreOfTabs
<1>4. C!Idle \in C!Call /\ C!Idle.step = "idle" /\ C!Idle.kind = "none"
  BY <1>1, CallsAreWhole DEF C!Idle
<1>5. calls' \in [Slots -> C!Call] /\ CallsAreOfTabs'
  BY <1>1, <1>2, <1>4, CallsKept
<1>6. calls'[s] = C!Idle /\ \A p \in Slots : p # s => calls'[p] = calls[p]
  BY <1>1, <1>2, <1>4, CallWritten
<1>7. \A p \in Slots : calls'[p].kind \in {"call", "logout"} =>
          calls'[p] = calls[p] /\ (calls[p].tab = t => t \in overtaken')
  <2> SUFFICES ASSUME NEW p \in Slots, calls'[p].kind \in {"call", "logout"}
               PROVE  calls'[p] = calls[p] /\ (calls[p].tab = t => t \in overtaken')
    OBVIOUS
  <2>1. p # s /\ calls'[p] = calls[p]
    BY <1>4, <1>6
  <2>2. calls[p].tab = t => C!GoesOn(t, {s})
    BY <2>1 DEF C!GoesOn, C!Of
  <2> QED
    BY <1>2, <2>1, <2>2
<1>8. \A u \in overtaken : u # t => u \in overtaken'
  BY <1>2
<1>9. tabs' \in [Tabs -> C!Tab] /\ TabsAgree'
  BY <1>1, <1>2, <1>3, <1>7, <1>8, ClearedAgrees
<1>10. overtaken' \subseteq Tabs /\ cookie' \in C!Token
  BY <1>1, <1>2, <1>3, CallsAreWhole DEF C!TypeOK
<1>11. C!TypeOK'
  BY <1>1, <1>2, <1>5, <1>9, <1>10 DEF C!TypeOK
<1>12. \A p \in Slots : Exchanges(p)' => calls'[p] = calls[p]
  BY <1>4, <1>6 DEF Exchanges
<1>13. \A p \in Slots : Granted(p) => calls'[p] = calls[p]
  BY <1>2, <1>6 DEF Granted, Exchanges
<1>14. calls'[s].step # "refreshing"
  BY <1>4, <1>6
<1>15. replays' \subseteq blameless' /\ blameless \subseteq blameless'
  BY <1>1, <1>2 DEF TokensSound, C!PresentedOnce
<1>16. TokensSound'
  BY <1>1, <1>2, <1>12, <1>13, <1>14, <1>15, ExchangesGoOn
<1> QED
  BY <1>5, <1>9, <1>11, <1>16 DEF ClientInv

(* The exchanges a reload drops are excused, and those that share its cookie. *)
LEMMA ReloadKeeps ==
    ASSUME ClientInv, NEW s \in Slots, NEW t \in Tabs, C!Reload(s, t) PROVE ClientInv'
<1>1. C!TypeOK /\ CallsAreOfTabs /\ TokensSound /\ TabsAgree
  BY DEF ClientInv
<1> DEFINE c == [C!Idle EXCEPT !.tab = t, !.kind = "restore", !.step = "refreshing", !.token = cookie]
<1>2. /\ calls[s].kind = "none" \/ calls[s].tab = t
      /\ tabs' = [tabs EXCEPT ![t] = C!SignedOut]
      /\ calls' = [p \in Slots |-> IF p = s THEN c ELSE IF p \in C!Of(t) THEN C!Idle ELSE calls[p]]
      /\ overtaken' = overtaken \ {t}
      /\ UNCHANGED <<cookie, families, replays, expiries>>
  BY DEF C!Reload, C!Of
<1>3. c \in C!Call /\ C!Idle \in C!Call
  BY <1>1, CallBegun, CallsAreWhole
<1>4. c.kind = "restore" /\ c.tab = t /\ c.step = "refreshing" /\ c.token = cookie
  BY DEF C!Idle
<1>5. C!Idle.kind = "none" /\ C!Idle.step = "idle"
  BY DEF C!Idle
<1> HIDE DEF c
<1>6. /\ calls'[s] = c
      /\ \A p \in Slots : p # s /\ calls[p].tab = t => calls'[p] = C!Idle
      /\ \A p \in Slots : p # s /\ calls[p].tab # t => calls'[p] = calls[p]
  BY <1>2 DEF C!Of
<1>7. calls' \in [Slots -> C!Call]
  BY <1>1, <1>2, <1>3, ClientTypes
<1>8. CallsAreOfTabs'
  BY <1>1, <1>4, <1>5, <1>6 DEF CallsAreOfTabs
<1>9. /\ blameless' = blameless \cup {calls[p].token : p \in C!Exchanging \cap C!Of(t)}
                      \cup {calls[p].token : p \in {x \in C!Exchanging : calls[x].token = cookie}}
  BY DEF C!Reload
<1>10. blameless' \subseteq C!Token /\ blameless \subseteq blameless'
  <2>1. \A p \in C!Exchanging : calls[p].token \in C!Token
    BY <1>1, ExcusesAreTokens DEF C!Exchanging
  <2> QED
    BY <1>1, <1>9, <2>1 DEF C!TypeOK
<1>11. \A p \in Slots : calls'[p].kind \in {"call", "logout"} =>
           calls'[p] = calls[p] /\ (calls[p].tab = t => t \in overtaken')
  BY <1>4, <1>5, <1>6
<1>12. \A u \in overtaken : u # t => u \in overtaken'
  BY <1>2
<1>13. tabs' \in [Tabs -> C!Tab] /\ TabsAgree'
  BY <1>1, <1>2, <1>11, <1>12, ClearedAgrees
<1>14. overtaken' \subseteq Tabs
  BY <1>1, <1>2 DEF C!TypeOK
<1>15. C!TypeOK'
  BY <1>1, <1>2, <1>7, <1>10, <1>13, <1>14 DEF C!TypeOK
<1>16. \A p \in Slots : Exchanges(p)' =>
          \/ calls'[p] = calls[p]
          \/ p = s /\ calls'[p].step = "refreshing" /\ calls'[p].token = cookie /\ calls'[p].kind # "login"
  BY <1>4, <1>5, <1>6 DEF Exchanges
<1>17. \A p \in Slots \ {s} : Exchanges(p)' /\ calls[p].token = cookie /\ cookie.family # 0
           => cookie \in blameless'
  <2> SUFFICES ASSUME NEW p \in Slots \ {s}, Exchanges(p)', calls[p].token = cookie
               PROVE  cookie \in blameless'
    OBVIOUS
  <2>1. Exchanges(p)
    BY <1>5, <1>6 DEF Exchanges
  <2>2. p \in {x \in C!Exchanging : calls[x].token = cookie}
    BY <2>1 DEF C!Exchanging, Exchanges
  <2> QED
    BY <1>9, <2>2
<1>18. \A p \in Slots : Granted(p) /\ calls[p].kind # "login" /\ calls'[p] # calls[p]
           => calls[p].token \in blameless'
  <2> SUFFICES ASSUME NEW p \in Slots, Granted(p), calls'[p] # calls[p]
               PROVE  calls[p].token \in blameless'
    OBVIOUS
  <2>1. calls[p].tab = t
    BY <1>1, <1>2, <1>6 DEF CallsAreOfTabs, Granted
  <2>2. p \in C!Exchanging \cap C!Of(t)
    BY <2>1 DEF C!Exchanging, C!Of, Granted
  <2> QED
    BY <1>9, <2>2
<1>19. replays' \subseteq blameless'
  BY <1>1, <1>2, <1>10 DEF TokensSound, C!PresentedOnce
<1>20. cookie' \in {cookie, C!NoToken}
       /\ \A f \in Logins : families'[f].rotation = families[f].rotation
                            /\ (families[f].ended => families'[f].ended)
  BY <1>2
<1>21. TokensSound'
  BY <1>1, <1>10, <1>16, <1>17, <1>18, <1>19, <1>20, ExchangesGoOn
<1> QED
  BY <1>8, <1>13, <1>15, <1>21 DEF ClientInv

(* An answer that is lost excuses its token. *)
LEMMA GiveUpKeeps == ASSUME ClientInv, NEW s \in Slots, C!GiveUp(s) PROVE ClientInv'
<1>1. C!TypeOK /\ CallsAreOfTabs /\ TokensSound /\ TabsAgree
  BY DEF ClientInv
<1> DEFINE t == calls[s].tab
<1>2. /\ calls[s].step \in {"refreshing", "granted", "refused"}
      /\ blameless' = IF calls[s].step = "granted" /\ calls[s].kind # "login"
                      THEN blameless \cup {calls[s].token} ELSE blameless
      /\ calls' = [p \in Slots |-> IF p \in C!Waiting(s) THEN C!Idle ELSE calls[p]]
      /\ overtaken' = IF C!GoesOn(t, C!Waiting(s)) THEN overtaken \cup {t} ELSE overtaken
      /\ UNCHANGED <<cookie, families, replays, expiries>>
      /\ IF calls[s].kind = "login" THEN tabs' = tabs ELSE tabs' = [tabs EXCEPT ![t] = C!SignedOut]
  BY DEF C!GiveUp, C!Clear
<1>3. t \in Tabs
  BY <1>1, <1>2 DEF CallsAreOfTabs
<1>4. C!Idle \in C!Call /\ C!Idle.kind = "none" /\ C!Idle.step = "idle"
  BY <1>1, CallsAreWhole DEF C!Idle
<1>5. \A p \in Slots : p \in C!Waiting(s) <=> p = s \/ (calls[p].step = "joined" /\ calls[p].on = s)
  BY DEF C!Waiting
<1>6. /\ \A p \in Slots : p \in C!Waiting(s) => calls'[p] = C!Idle
      /\ \A p \in Slots : p \notin C!Waiting(s) => calls'[p] = calls[p]
  BY <1>2
<1>7. calls' \in [Slots -> C!Call]
  BY <1>1, <1>2, <1>4, ClientTypes
<1>8. CallsAreOfTabs'
  BY <1>1, <1>4, <1>6 DEF CallsAreOfTabs
<1>9. blameless' \subseteq C!Token /\ blameless \subseteq blameless'
  BY <1>1, <1>2, ExcusesAreTokens DEF C!TypeOK
<1>10. overtaken' \subseteq Tabs /\ overtaken \subseteq overtaken'
  BY <1>1, <1>2, <1>3 DEF C!TypeOK
<1>11. \A p \in Slots : calls'[p].kind \in {"call", "logout"} =>
           calls'[p] = calls[p] /\ (calls[p].tab = t => t \in overtaken')
  <2> SUFFICES ASSUME NEW p \in Slots, calls'[p].kind \in {"call", "logout"}
               PROVE  calls'[p] = calls[p] /\ (calls[p].tab = t => t \in overtaken')
    OBVIOUS
  <2>1. p \notin C!Waiting(s) /\ calls'[p] = calls[p]
    BY <1>4, <1>6
  <2>2. calls[p].tab = t => C!GoesOn(t, C!Waiting(s))
    BY <2>1 DEF C!GoesOn, C!Of
  <2> QED
    BY <1>2, <2>1, <2>2
<1>12. tabs' \in [Tabs -> C!Tab] /\ TabsAgree'
  <2>1. CASE calls[s].kind = "login"
    <3>1. tabs' = tabs /\ tabs \in [Tabs -> C!Tab]
      BY <1>1, <1>2, <2>1 DEF C!TypeOK
    <3>2. TabsAgree'
      BY <1>1, <1>2, <1>10, <1>11, <3>1, TabsStay DEF Exchanges
    <3> QED
      BY <3>1, <3>2
  <2>2. CASE calls[s].kind # "login"
    <3>1. tabs' = [tabs EXCEPT ![t] = C!SignedOut]
      BY <1>2, <2>2
    <3> QED
      BY <1>1, <1>2, <1>3, <1>10, <1>11, <3>1, ClearedAgrees
  <2> QED
    BY <2>1, <2>2
<1>13. C!TypeOK'
  BY <1>1, <1>2, <1>7, <1>9, <1>10, <1>12 DEF C!TypeOK
<1>14. \A p \in Slots : Exchanges(p)' => calls'[p] = calls[p]
  BY <1>4, <1>6 DEF Exchanges
<1>15. \A p \in Slots : Granted(p) /\ calls[p].kind # "login" /\ calls'[p] # calls[p]
           => calls[p].token \in blameless'
  BY <1>2, <1>5, <1>6 DEF Granted
<1>16. calls'[s].step # "refreshing"
  BY <1>4, <1>5, <1>6
<1>17. replays' \subseteq blameless'
  BY <1>1, <1>2, <1>9 DEF TokensSound, C!PresentedOnce
<1>18. cookie' \in {cookie, C!NoToken}
       /\ \A f \in Logins : families'[f].rotation = families[f].rotation
                            /\ (families[f].ended => families'[f].ended)
  BY <1>2
<1>19. TokensSound'
  BY <1>1, <1>9, <1>14, <1>15, <1>16, <1>17, <1>18, ExchangesGoOn
<1> QED
  BY <1>8, <1>12, <1>13, <1>19 DEF ClientInv

(* A renewal with the current token: its family has nothing else on the way. *)
LEMMA RenewalGranted ==
    ASSUME ClientInv, NEW s \in Slots, C!ServeRefresh(s), C!Current(calls[s].token)
    PROVE  ClientInv'
<1> DEFINE k == calls[s].token
           f == calls[s].token.family
           c == [calls[s] EXCEPT !.step = "granted"]
<1>1. /\ C!TypeOK /\ CallsAreOfTabs /\ TabsAgree
      /\ TokensAreKnown /\ GrantsAreLast /\ CookieHolds /\ AskedInTime /\ SharedIsExcused
      /\ C!PresentedOnce
  BY DEF ClientInv, TokensSound
<1>2. /\ calls[s] \in C!Call /\ k \in C!Token /\ calls[s].step = "refreshing" /\ Exchanges(s)
      /\ UNCHANGED <<cookie, tabs, blameless, overtaken, expiries>>
      /\ k.rotation < MaxRotations /\ C!Becomes(s, c)
  BY <1>1, ClientTypes DEF C!ServeRefresh, Exchanges
<1>3. /\ f # 0 /\ families[f].rotation = k.rotation /\ ~families[f].ended
      /\ replays' = replays
  BY DEF C!Current, C!ServeRefresh
<1>4. f \in Logins /\ k.rotation \in Nat /\ k.rotation + 1 \in 0 .. MaxRotations
  BY <1>1, <1>2, <1>3, ClientTypes
<1>5. families' = [families EXCEPT ![f].rotation = k.rotation + 1]
  <2>1. families' = [families EXCEPT ![f].rotation = @ + 1]
    BY <1>3 DEF C!ServeRefresh
  <2> QED
    BY <1>1, <1>3, <1>4, <2>1 DEF C!TypeOK
<1>6. families' \in [Logins -> [rotation : 0 .. MaxRotations, ended : BOOLEAN]]
  BY <1>1, <1>4, <1>5, FamiliesKept
<1>7. /\ families'[f].rotation = k.rotation + 1
      /\ \A g \in Logins : g # f => families'[g] = families[g]
      /\ \A g \in Logins : families'[g].ended = families[g].ended
  BY <1>1, <1>4, <1>5 DEF C!TypeOK
<1>8. c \in C!Call /\ c.step = "granted" /\ c.token = k /\ c.kind = calls[s].kind
      /\ c.tab = calls[s].tab /\ c.kind # "login" /\ c.tab \in Tabs /\ c.kind # "none"
  <2>1. c \in C!Call
    BY <1>2, CallTyped
  <2>2. c.step = "granted" /\ c.token = k /\ c.kind = calls[s].kind /\ c.tab = calls[s].tab
    BY <1>2 DEF C!Call
  <2>3. calls[s].kind # "login" /\ calls[s].tab \in Tabs /\ calls[s].kind # "none"
    BY <1>1, <1>2 DEF CallsAreOfTabs
  <2> QED
    BY <2>1, <2>2, <2>3
<1> HIDE DEF c
<1>9. calls' \in [Slots -> C!Call] /\ CallsAreOfTabs'
  BY <1>1, <1>2, <1>8, CallsKept
<1>10. calls'[s] = c /\ \A p \in Slots : p # s => calls'[p] = calls[p]
  BY <1>1, <1>2, <1>8, CallWritten
<1>11. C!TypeOK'
  BY <1>1, <1>2, <1>3, <1>6, <1>9 DEF C!TypeOK
<1>12. \A p \in Slots : /\ Exchanges(p)' <=> Exchanges(p)
                        /\ calls'[p].token = calls[p].token
                        /\ calls'[p].kind = calls[p].kind
                        /\ Granted(p)' <=> Granted(p) \/ p = s
  BY <1>2, <1>8, <1>10 DEF Exchanges, Granted
<1>13. \A h \in C!Token : Known(h) => Known(h)' /\ (h.family = f => h.rotation \in Nat /\ h.rotation <= k.rotation)
  <2> SUFFICES ASSUME NEW h \in C!Token, Known(h)
               PROVE  Known(h)' /\ (h.family = f => h.rotation \in Nat /\ h.rotation <= k.rotation)
    OBVIOUS
  <2>1. CASE h.family = f
    <3>1. h.rotation \in 1 .. k.rotation
      BY <1>3, <2>1 DEF Known
    <3>2. h.rotation \in 1 .. (k.rotation + 1) /\ h.rotation \in Nat /\ h.rotation <= k.rotation
      BY <1>4, <3>1
    <3> QED
      BY <1>7, <2>1, <3>2 DEF Known
  <2>2. CASE h.family # f
    <3>1. h.family # 0 => families'[h.family] = families[h.family]
      BY <1>7, <2>2 DEF C!Token, C!Sessions
    <3> QED
      BY <2>2, <3>1 DEF Known
  <2> QED
    BY <2>1, <2>2
<1>14. cookie \in C!Token /\ \A p \in Slots : calls[p].token \in C!Token
  BY <1>1, ExcusesAreTokens
<1>15. TokensAreKnown'
  <2>1. Known(cookie)'
    BY <1>1, <1>2, <1>13, <1>14 DEF TokensAreKnown, Known
  <2>2. ASSUME NEW p \in Slots, Exchanges(p)' PROVE Known(calls[p].token)'
    <3>1. Known(calls[p].token) /\ calls[p].token \in C!Token
      BY <1>1, <1>12, <1>14, <2>2 DEF TokensAreKnown
    <3> QED
      BY <1>12, <1>13, <3>1 DEF Known
  <2> QED
    BY <2>1, <2>2 DEF TokensAreKnown
<1>16. \A p \in Slots : Exchanges(p) /\ calls[p].token.family = f => ~Granted(p) /\ calls[p].token.rotation <= k.rotation
  <2> SUFFICES ASSUME NEW p \in Slots, Exchanges(p), calls[p].token.family = f
               PROVE  ~Granted(p) /\ calls[p].token.rotation <= k.rotation
    OBVIOUS
  <2>1. calls[p].token.rotation \in Nat /\ calls[p].token.rotation <= k.rotation
    BY <1>1, <1>13, <1>14 DEF TokensAreKnown
  <2>2. ASSUME Granted(p) PROVE FALSE
    <3>1. p # s
      BY <1>2, <2>2 DEF Granted
    <3>2. CASE calls[p].kind = "login"
      <4>1. LoginIsNew(p)
        BY <1>1, <2>2, <3>2 DEF GrantsAreLast
      <4> QED
        BY <1>2, <3>1, <4>1 DEF LoginIsNew
    <3>3. CASE calls[p].kind # "login"
      <4>1. RenewalIsLast(p)
        BY <1>1, <2>2, <3>3 DEF GrantsAreLast
      <4>2. families[f].rotation = calls[p].token.rotation + 1 /\ k.rotation <= calls[p].token.rotation
        BY <1>2, <3>1, <4>1 DEF RenewalIsLast
      <4> QED
        BY <1>3, <1>4, <2>1, <4>2
    <3> QED
      BY <3>2, <3>3
  <2> QED
    BY <2>1, <2>2
<1>17. GrantsAreLast'
  <2> SUFFICES ASSUME NEW g \in Slots, Granted(g)'
               PROVE  (/\ calls[g].token.family # 0
                       /\ calls[g].kind = "login" => LoginIsNew(g)
                       /\ calls[g].kind # "login" => RenewalIsLast(g))'
    BY DEF GrantsAreLast
  <2>1. CASE g = s
    <3>1. calls'[s].token = k /\ calls'[s].kind # "login"
      BY <1>8, <1>10
    <3>2. cookie'.family = f => cookie'.rotation <= k.rotation
      BY <1>1, <1>2, <1>13, <1>14 DEF TokensAreKnown
    <3>3. \A p \in Slots \ {s} : Exchanges(p)' /\ calls'[p].token.family = f =>
              ~Granted(p)' /\ calls'[p].token.rotation <= k.rotation
      BY <1>12, <1>16
    <3>4. RenewalIsLast(s)'
      BY <1>7, <3>1, <3>2, <3>3 DEF RenewalIsLast
    <3> QED
      BY <1>3, <2>1, <3>1, <3>4
  <2>2. CASE g # s
    <3>1. Granted(g) /\ calls'[g] = calls[g] /\ Exchanges(g)
      BY <1>10, <2>2 DEF Granted, Exchanges
    <3>2. calls[g].token.family # f /\ calls[g].token.family \in Logins
      BY <1>1, <1>16, <3>1, ClientTypes DEF GrantsAreLast
    <3>3. families'[calls[g].token.family] = families[calls[g].token.family]
      BY <1>7, <3>2
    <3>4. CASE calls[g].kind = "login"
      <4>1. LoginIsNew(g)
        BY <1>1, <3>1, <3>4 DEF GrantsAreLast
      <4> QED
        BY <1>1, <1>2, <1>12, <3>1, <3>3, <3>4, <4>1 DEF LoginIsNew, GrantsAreLast
    <3>5. CASE calls[g].kind # "login"
      <4>1. RenewalIsLast(g)
        BY <1>1, <3>1, <3>5 DEF GrantsAreLast
      <4>2. \A p \in Slots \ {g} : Exchanges(p)' /\ calls'[p].token.family = calls[g].token.family =>
                ~Granted(p)' /\ calls'[p].token.rotation <= calls[g].token.rotation
        BY <1>12, <3>2, <4>1 DEF RenewalIsLast
      <4> QED
        BY <1>1, <1>2, <3>1, <3>3, <3>5, <4>1, <4>2 DEF RenewalIsLast, GrantsAreLast
    <3> QED
      BY <3>4, <3>5
  <2> QED
    BY <2>1, <2>2
<1>18. \A h \in C!Token : Harmless(h) => Harmless(h)' \/ h = k
  <2> SUFFICES ASSUME NEW h \in C!Token, Harmless(h), h # k PROVE Harmless(h)'
    OBVIOUS
  <2>1. CASE h.family = f
    <3>1. h.rotation # k.rotation
      BY <1>2, <2>1 DEF C!Token
    <3> QED
      BY <1>2, <1>3, <2>1, <3>1 DEF Harmless
  <2>2. CASE h.family # f
    <3>1. h.family # 0 => families'[h.family] = families[h.family]
      BY <1>7, <2>2 DEF C!Token, C!Sessions
    <3> QED
      BY <1>2, <3>1 DEF Harmless
  <2> QED
    BY <2>1, <2>2
<1>19. CookieHolds'
  <2>1. CASE Harmless(cookie)
    <3>1. CASE cookie = k
      BY <1>2, <1>8, <1>10, <3>1 DEF CookieHolds, Spent, Granted
    <3>2. CASE cookie # k
      BY <1>2, <1>14, <1>18, <2>1, <3>2 DEF CookieHolds, Harmless
    <3> QED
      BY <3>1, <3>2
  <2>2. CASE Spent(cookie)
    <3>1. PICK g \in Slots : Granted(g) /\ calls[g].kind # "login" /\ calls[g].token = cookie
      BY <2>2 DEF Spent
    <3> QED
      BY <1>2, <1>12, <3>1 DEF CookieHolds, Spent
  <2> QED
    BY <1>1, <2>1, <2>2 DEF CookieHolds
<1>20. AskedInTime'
  <2> SUFFICES ASSUME NEW p \in Slots, calls'[p].step = "refreshing" PROVE Harmless(calls[p].token)'
    BY DEF AskedInTime
  <2>1. p # s /\ calls'[p] = calls[p]
    BY <1>8, <1>10
  <2>2. Harmless(calls[p].token) /\ calls[p].token \in C!Token /\ Exchanges(p)
    BY <1>1, <1>14, <2>1 DEF AskedInTime, Exchanges
  <2>3. CASE calls[p].token # k
    BY <1>18, <2>1, <2>2, <2>3 DEF Harmless
  <2>4. CASE calls[p].token = k
    <3>1. k \in blameless
      BY <1>1, <1>2, <1>3, <2>1, <2>2, <2>4 DEF SharedIsExcused
    <3> QED
      BY <1>2, <2>1, <2>4, <3>1 DEF Harmless
  <2> QED
    BY <2>3, <2>4
<1>21. SharedIsExcused'
  BY <1>1, <1>2, <1>12 DEF SharedIsExcused
<1>22. TokensSound'
  BY <1>1, <1>2, <1>3, <1>15, <1>17, <1>19, <1>20, <1>21 DEF TokensSound, C!PresentedOnce
<1>23. \A p \in Slots : calls'[p].tab = calls[p].tab
  BY <1>8, <1>10
<1>24. TabsAgree'
  BY <1>1, <1>2, <1>12, <1>23, TabsStay
<1> QED
  BY <1>9, <1>11, <1>22, <1>24 DEF ClientInv

(* One with another token ends its family, which it was excused for. *)
LEMMA RenewalRefused ==
    ASSUME ClientInv, NEW s \in Slots, C!ServeRefresh(s), ~C!Current(calls[s].token)
    PROVE  ClientInv'
<1> DEFINE k == calls[s].token
           c == [calls[s] EXCEPT !.step = "refused"]
<1>1. /\ C!TypeOK /\ CallsAreOfTabs /\ TabsAgree /\ TokensSound /\ AskedInTime /\ C!PresentedOnce
  BY DEF ClientInv, TokensSound
<1>2. /\ calls[s] \in C!Call /\ k \in C!Token /\ k.family \in C!Sessions
      /\ calls[s].step = "refreshing" /\ Exchanges(s)
      /\ UNCHANGED <<cookie, tabs, blameless, overtaken, expiries>>
      /\ C!Becomes(s, c)
  BY <1>1, ClientTypes DEF C!ServeRefresh, Exchanges
<1>3. /\ families' \in [Logins -> [rotation : 0 .. MaxRotations, ended : BOOLEAN]]
      /\ \A f \in Logins : families'[f].rotation = families[f].rotation
                           /\ (families[f].ended => families'[f].ended)
  <2>1. CASE k.family = 0
    <3>1. families' = families
      BY <2>1 DEF C!ServeRefresh
    <3> QED
      BY <1>1, <3>1 DEF C!TypeOK
  <2>2. CASE k.family # 0
    <3>1. families' = [families EXCEPT ![k.family].ended = TRUE] /\ k.family \in Logins
      BY <1>2, <2>2 DEF C!ServeRefresh, C!Sessions
    <3>2. families' \in [Logins -> [rotation : 0 .. MaxRotations, ended : BOOLEAN]]
      BY <1>1, <3>1, FamiliesKept
    <3> QED
      BY <1>1, <3>1, <3>2 DEF C!TypeOK
  <2> QED
    BY <2>1, <2>2
<1>4. replays' \subseteq blameless
  <2>1. Harmless(k)
    BY <1>1, <1>2 DEF AskedInTime
  <2>2. k.family # 0 /\ ~families[k.family].ended => k \in blameless
    BY <2>1 DEF Harmless, C!Current
  <2>3. replays' = IF k.family # 0 /\ ~C!Current(k) /\ ~families[k.family].ended
                   THEN replays \cup {k} ELSE replays
    BY DEF C!ServeRefresh
  <2> QED
    BY <1>1, <2>2, <2>3 DEF C!PresentedOnce
<1>5. c \in C!Call /\ c.step = "refused" /\ c.token = k /\ c.kind = calls[s].kind
      /\ c.tab = calls[s].tab /\ c.kind # "login" /\ c.tab \in Tabs /\ c.kind # "none"
  <2>1. c \in C!Call
    BY <1>2, CallTyped
  <2>2. c.step = "refused" /\ c.token = k /\ c.kind = calls[s].kind /\ c.tab = calls[s].tab
    BY <1>2 DEF C!Call
  <2>3. calls[s].kind # "login" /\ calls[s].tab \in Tabs /\ calls[s].kind # "none"
    BY <1>1, <1>2 DEF CallsAreOfTabs
  <2> QED
    BY <2>1, <2>2, <2>3
<1> HIDE DEF c
<1>6. calls' \in [Slots -> C!Call] /\ CallsAreOfTabs'
  BY <1>1, <1>2, <1>5, CallsKept
<1>7. calls'[s] = c /\ \A p \in Slots : p # s => calls'[p] = calls[p]
  BY <1>1, <1>2, <1>5, CallWritten
<1>8. replays' \subseteq C!Token
  BY <1>1, <1>4 DEF C!TypeOK
<1>9. C!TypeOK'
  BY <1>1, <1>2, <1>3, <1>6, <1>8 DEF C!TypeOK
<1>10. \A p \in Slots : Exchanges(p)' =>
           \/ calls'[p] = calls[p]
           \/ calls[p].step = "refreshing" /\ calls'[p].step = "refused"
              /\ calls'[p].token = calls[p].token
  BY <1>2, <1>5, <1>7
<1>11. \A p \in Slots : Granted(p) => calls'[p] = calls[p]
  BY <1>2, <1>7 DEF Granted
<1>12. calls'[s].step # "refreshing"
  BY <1>5, <1>7
<1>13. replays' \subseteq blameless' /\ blameless \subseteq blameless' /\ cookie' = cookie
  BY <1>2, <1>4
<1>14. TokensSound'
  BY <1>1, <1>3, <1>10, <1>11, <1>12, <1>13, ExchangesGoOn
<1>15. \A p \in Slots : calls'[p].tab = calls[p].tab /\ calls'[p].kind = calls[p].kind
           /\ calls'[p].token = calls[p].token /\ (Exchanges(p)' => Exchanges(p))
  BY <1>2, <1>5, <1>7 DEF Exchanges
<1>16. TabsAgree'
  BY <1>1, <1>2, <1>15, TabsStay
<1> QED
  BY <1>6, <1>9, <1>14, <1>16 DEF ClientInv

(* The answer's cookie is the current token of its family, and no other answer
   of that family is on the way. *)
LEMMA CookieArrives ==
    ASSUME C!TypeOK, TokensSound, NEW s \in Slots, Granted(s), NEW b \in C!Token,
           b.family = calls[s].token.family, b.rotation = families[b.family].rotation,
           cookie' = b,
           \A p \in Slots : Exchanges(p)' => p # s /\ calls'[p] = calls[p],
           UNCHANGED <<families, replays, blameless>>
    PROVE  TokensSound'
<1>1. /\ TokensAreKnown /\ GrantsAreLast /\ CookieHolds /\ AskedInTime /\ SharedIsExcused
      /\ C!PresentedOnce
  BY DEF TokensSound
<1>2. b.family # 0 /\ b.family \in Logins
  BY <1>1, ClientTypes DEF GrantsAreLast
<1>3. families[b.family].rotation \in Nat /\ families[b.family].rotation >= 1
  <2>1. families[b.family].rotation \in Nat
    BY <1>2, ClientTypes
  <2>2. calls[s].token.rotation \in 1 .. families[b.family].rotation
    BY <1>1, <1>2 DEF TokensAreKnown, Known, Exchanges, Granted
  <2> QED
    BY <2>1, <2>2
<1>4. \A p \in Slots : Exchanges(p)' => p # s /\ calls'[p] = calls[p] /\ Exchanges(p)
  BY DEF Exchanges
<1>5. \A g \in Slots : Granted(g)' => Granted(g) /\ calls'[g] = calls[g] /\ calls[g].token.family # b.family
  <2> SUFFICES ASSUME NEW g \in Slots, Granted(g)'
               PROVE  Granted(g) /\ calls'[g] = calls[g] /\ calls[g].token.family # b.family
    OBVIOUS
  <2>1. Exchanges(g) /\ g # s /\ calls'[g] = calls[g] /\ Granted(g)
    BY <1>4 DEF Granted, Exchanges
  <2>2. CASE calls[s].kind = "login"
    BY <1>1, <2>1, <2>2 DEF GrantsAreLast, LoginIsNew
  <2>3. CASE calls[s].kind # "login"
    BY <1>1, <2>1, <2>3 DEF GrantsAreLast, RenewalIsLast
  <2> QED
    BY <2>1, <2>2, <2>3
<1>6. TokensAreKnown'
  <2>1. Known(cookie)'
    BY <1>3 DEF Known
  <2>2. \A p \in Slots : Exchanges(p)' => Known(calls[p].token)'
    BY <1>1, <1>4 DEF TokensAreKnown, Known
  <2> QED
    BY <2>1, <2>2 DEF TokensAreKnown
<1>7. GrantsAreLast'
  <2> SUFFICES ASSUME NEW g \in Slots, Granted(g)'
               PROVE  (/\ calls[g].token.family # 0
                       /\ calls[g].kind = "login" => LoginIsNew(g)
                       /\ calls[g].kind # "login" => RenewalIsLast(g))'
    BY DEF GrantsAreLast
  <2>1. Granted(g) /\ calls'[g] = calls[g] /\ calls[g].token.family # b.family
    BY <1>5
  <2>2. CASE calls[g].kind = "login"
    <3>1. LoginIsNew(g)
      BY <1>1, <2>1, <2>2 DEF GrantsAreLast
    <3> QED
      BY <1>1, <1>4, <2>1, <2>2, <3>1 DEF LoginIsNew, GrantsAreLast
  <2>3. CASE calls[g].kind # "login"
    <3>1. RenewalIsLast(g)
      BY <1>1, <2>1, <2>3 DEF GrantsAreLast
    <3>2. \A p \in Slots \ {g} : Exchanges(p)' /\ calls'[p].token.family = calls[g].token.family =>
              ~Granted(p)' /\ calls'[p].token.rotation <= calls[g].token.rotation
      BY <1>4, <1>5, <3>1 DEF RenewalIsLast
    <3> QED
      BY <1>1, <2>1, <2>3, <3>1, <3>2 DEF RenewalIsLast, GrantsAreLast
  <2> QED
    BY <2>2, <2>3
<1>8. CookieHolds'
  BY DEF CookieHolds, Harmless
<1>9. AskedInTime'
  BY <1>1, <1>4 DEF AskedInTime, Harmless, Exchanges
<1>10. SharedIsExcused'
  BY <1>1, <1>4 DEF SharedIsExcused
<1> QED
  BY <1>1, <1>6, <1>7, <1>8, <1>9, <1>10 DEF TokensSound, C!PresentedOnce

LEMMA ReceiveKeeps == ASSUME ClientInv, NEW s \in Slots, C!Receive(s) PROVE ClientInv'
<1> DEFINE t == calls[s].tab
           k == calls[s].token
           f == calls[s].token.family
           kind == calls[s].kind
           opens == kind \in {"login", "restore"}
<1>1. /\ C!TypeOK /\ CallsAreOfTabs /\ TabsAgree /\ TokensSound /\ GrantsAreLast
  BY DEF ClientInv, TokensSound
<1>2. /\ Granted(s) /\ Exchanges(s) /\ calls[s] \in C!Call /\ k \in C!Token
      /\ UNCHANGED <<families, replays, blameless, expiries>>
      /\ cookie' = IF kind = "login" THEN k ELSE [k EXCEPT !.rotation = @ + 1]
      /\ tabs' = [tabs EXCEPT ![t] = IF opens THEN C!SignedIn(f) ELSE [@ EXCEPT !.held = f, !.good = TRUE]]
      /\ calls' = IF opens THEN [calls EXCEPT ![s] = C!Idle] ELSE C!SentAgain(s, f)
      /\ overtaken' =
             ((IF opens THEN overtaken \ {t} ELSE overtaken)
              \cup {u \in Tabs \ {t} : tabs[u].shown \notin {0, f} \/ C!Of(u) # {}})
             \cup (IF opens /\ C!GoesOn(t, {s}) THEN {t} ELSE {})
  BY <1>1, ClientTypes DEF C!Receive, Granted, Exchanges
<1>3. t \in Tabs /\ f # 0 /\ f \in Logins /\ f \in C!Sessions
  BY <1>1, <1>2, ClientTypes DEF CallsAreOfTabs, GrantsAreLast, Granted
<1>4. kind \in {"login", "restore", "call", "logout"}
  BY <1>1, <1>2 DEF CallsAreOfTabs, Granted, C!Call
<1>5. cookie' \in C!Token /\ cookie'.family = f /\ cookie'.rotation = families[f].rotation
  <2>1. families[f].rotation \in 0 .. MaxRotations
    BY <1>1, <1>3, ClientTypes
  <2>2. CASE kind = "login"
    <3>1. LoginIsNew(s)
      BY <1>1, <1>2, <2>2 DEF GrantsAreLast
    <3> QED
      BY <1>2, <2>2, <3>1 DEF LoginIsNew
  <2>3. CASE kind # "login"
    <3>1. families[f].rotation = k.rotation + 1
      BY <1>1, <1>2, <2>3 DEF GrantsAreLast, RenewalIsLast
    <3>2. cookie' = [k EXCEPT !.rotation = k.rotation + 1]
      BY <1>2, <2>3
    <3>3. cookie' = [k EXCEPT !.rotation = families[f].rotation]
      BY <3>1, <3>2
    <3> QED
      BY <1>2, <2>1, <3>3 DEF C!Token
  <2> QED
    BY <2>2, <2>3
<1>6. tabs[t] \in C!Tab /\ \A u \in Tabs : u # t => tabs'[u] = tabs[u]
  BY <1>1, <1>2, <1>3 DEF C!TypeOK
<1>7. tabs' \in [Tabs -> C!Tab] /\ tabs'[t].held = f /\ (opens => tabs'[t].shown = f)
      /\ (~opens => tabs'[t].shown = tabs[t].shown)
  <2>1. CASE opens
    <3>1. tabs' = [tabs EXCEPT ![t] = C!SignedIn(f)]
      BY <1>2, <2>1
    <3>2. C!SignedIn(f) \in C!Tab /\ C!SignedIn(f).held = f /\ C!SignedIn(f).shown = f
      BY <1>1, <1>3, CallsAreWhole DEF C!SignedIn
    <3> QED
      BY <1>1, <1>3, <2>1, <3>1, <3>2, TabsKept DEF C!TypeOK
  <2>2. CASE ~opens
    <3> DEFINE row == [tabs[t] EXCEPT !.held = f, !.good = TRUE]
    <3>1. tabs' = [tabs EXCEPT ![t] = row]
      BY <1>1, <1>2, <1>3, <2>2 DEF C!TypeOK
    <3>2. row \in C!Tab /\ row.held = f /\ row.shown = tabs[t].shown
      BY <1>3, <1>6 DEF C!Tab
    <3> HIDE DEF row
    <3> QED
      BY <1>1, <1>3, <2>2, <3>1, <3>2, TabsKept DEF C!TypeOK
  <2> QED
    BY <2>1, <2>2
<1>8. overtaken' \subseteq Tabs
  BY <1>1, <1>2, <1>3 DEF C!TypeOK
<1>9. \A p \in Slots : p \in C!Waiting(s) <=> p = s \/ (calls[p].step = "joined" /\ calls[p].on = s)
  BY DEF C!Waiting
<1>10. C!Idle \in C!Call /\ C!Idle.kind = "none" /\ C!Idle.step = "idle" /\ C!NoToken \in C!Token
  BY <1>1, CallsAreWhole DEF C!Idle
<1>11. /\ calls' \in [Slots -> C!Call]
       /\ \A p \in Slots : \/ calls'[p] = C!Idle
                           \/ p # s /\ calls'[p] = calls[p]
                           \/ /\ calls'[p].step = "sent" /\ calls'[p].tab = calls[p].tab
                              /\ calls'[p].kind = calls[p].kind /\ p \in C!Waiting(s) /\ ~opens
       /\ opens => calls'[s] = C!Idle /\ \A p \in Slots : p # s => calls'[p] = calls[p]
  <2>1. CASE opens
    <3>1. calls' = [calls EXCEPT ![s] = C!Idle]
      BY <1>2, <2>1
    <3>2. calls' \in [Slots -> C!Call] /\ calls'[s] = C!Idle /\ \A p \in Slots : p # s => calls'[p] = calls[p]
      BY <1>1, <1>10, <3>1 DEF C!TypeOK
    <3> QED
      BY <2>1, <3>2
  <2>2. CASE ~opens
    <3> DEFINE again(p) == [calls[p] EXCEPT !.step = "sent", !.retried = TRUE, !.on = NoSlot,
                                !.token = C!NoToken, !.with = [family |-> f, good |-> TRUE]]
    <3>1. calls' = [p \in Slots |-> IF p \in C!Waiting(s) THEN again(p) ELSE calls[p]]
      BY <1>2, <2>2 DEF C!SentAgain
    <3>2. \A p \in Slots : again(p) \in C!Call /\ again(p).step = "sent"
                           /\ again(p).tab = calls[p].tab /\ again(p).kind = calls[p].kind
      <4> SUFFICES ASSUME NEW p \in Slots
                   PROVE  again(p) \in C!Call /\ again(p).step = "sent"
                          /\ again(p).tab = calls[p].tab /\ again(p).kind = calls[p].kind
        OBVIOUS
      <4>1. calls[p] \in C!Call
        BY <1>1, ClientTypes
      <4>2. again(p) \in C!Call
        BY <1>3, <1>10, <4>1, CallTyped
      <4> QED
        BY <4>1, <4>2 DEF C!Call
    <3>3. \A p \in Slots : calls[p] \in C!Call
      BY <1>1, ClientTypes
    <3> HIDE DEF again
    <3>4. calls' \in [Slots -> C!Call]
      BY <3>1, <3>2, <3>3
    <3>5. \A p \in Slots : \/ p \notin C!Waiting(s) /\ calls'[p] = calls[p]
                           \/ p \in C!Waiting(s) /\ calls'[p] = again(p)
      BY <3>1
    <3> QED
      BY <1>9, <2>2, <3>2, <3>4, <3>5
  <2> QED
    BY <2>1, <2>2
<1>12. CallsAreOfTabs'
  <2> SUFFICES ASSUME NEW p \in Slots
               PROVE  /\ calls'[p].kind # "none" => calls'[p].tab \in Tabs
                      /\ calls'[p].kind = "none" => calls'[p].step = "idle"
                      /\ calls'[p].kind = "login" => calls'[p].step \in {"sent", "granted"}
    BY DEF CallsAreOfTabs
  <2>1. CASE calls'[p] = C!Idle
    BY <1>10, <2>1
  <2>2. CASE calls'[p] = calls[p]
    BY <1>1, <2>2 DEF CallsAreOfTabs
  <2>3. CASE /\ calls'[p].step = "sent" /\ calls'[p].tab = calls[p].tab
             /\ calls'[p].kind = calls[p].kind /\ p \in C!Waiting(s)
    <3>1. calls[p].step # "idle"
      BY <1>2, <1>9, <2>3 DEF Granted
    <3> QED
      BY <1>1, <2>3, <3>1 DEF CallsAreOfTabs
  <2> QED
    BY <1>11, <2>1, <2>2, <2>3
<1>13. C!TypeOK'
  BY <1>1, <1>2, <1>5, <1>7, <1>8, <1>11 DEF C!TypeOK
<1>14. \A p \in Slots : Exchanges(p)' => p # s /\ calls'[p] = calls[p]
  BY <1>10, <1>11 DEF Exchanges
<1>15. TokensSound'
  BY <1>1, <1>2, <1>5, <1>14, CookieArrives
<1>16. \A u \in Tabs : u # t /\ u \notin overtaken' =>
           u \notin overtaken /\ tabs[u].shown \in {0, f} /\ C!Of(u) = {}
  BY <1>2
<1>17. TabsAgree'
  <2> SUFFICES ASSUME NEW u \in Tabs, u \notin overtaken' PROVE TabAgrees(u)'
    BY DEF TabsAgree
  <2>1. CASE u # t
    <3>1. TabAgrees(u) /\ tabs[u].shown \in {0, f} /\ tabs'[u] = tabs[u]
      BY <1>1, <1>6, <1>16, <2>1 DEF TabsAgree
    <3>2. \A p \in Slots : calls[p].tab # u
      BY <1>16, <2>1 DEF C!Of
    <3>3. \A p \in Slots : calls'[p].tab = u => calls'[p].kind = "none"
      BY <1>10, <1>11, <3>2
    <3> QED
      BY <1>5, <3>1, <3>3 DEF TabAgrees
  <2>2. CASE u = t /\ opens
    <3>1. ~C!GoesOn(t, {s})
      BY <1>2, <2>2
    <3>2. \A p \in Slots : p # s => calls[p].tab # t
      BY <3>1 DEF C!GoesOn, C!Of
    <3>3. \A p \in Slots : calls'[p].tab = u => calls'[p].kind = "none"
      BY <1>10, <1>11, <2>2, <3>2
    <3> QED
      BY <1>5, <1>7, <2>2, <3>3 DEF TabAgrees
  <2>3. CASE u = t /\ ~opens
    <3>1. t \notin overtaken
      BY <1>2, <2>3
    <3>2. TabAgrees(t)
      BY <1>1, <1>3, <3>1 DEF TabsAgree
    <3>3. tabs[t].shown # 0 /\ tabs[t].shown = f
      BY <1>2, <1>3, <1>4, <2>3, <3>2 DEF TabAgrees
    <3>4. tabs'[t].held = f /\ tabs'[t].shown = f
      BY <1>7, <2>3, <3>3
    <3>5. ASSUME NEW p \in Slots, calls'[p].tab = t, calls'[p].kind \in {"call", "logout"}, Exchanges(p)'
          PROVE  calls'[p].token.family \in {0, f}
      <4>1. calls'[p] = calls[p] /\ Exchanges(p)
        BY <1>14, <3>5 DEF Exchanges
      <4> QED
        BY <3>2, <3>3, <3>5, <4>1 DEF TabAgrees
    <3> QED
      BY <1>3, <1>5, <2>3, <3>4, <3>5 DEF TabAgrees
  <2> QED
    BY <2>1, <2>2, <2>3
<1> QED
  BY <1>12, <1>13, <1>15, <1>17 DEF ClientInv

LEMMA ClientStep == ClientInv /\ [C!Next]_(C!vars) => ClientInv'
<1> SUFFICES ASSUME ClientInv, [C!Next]_(C!vars) PROVE ClientInv'
  OBVIOUS
<1>1. CASE UNCHANGED C!vars
  <2>1. UNCHANGED <<cookie, families, tabs, calls, replays, blameless, overtaken, expiries>>
    BY <1>1 DEF C!vars
  <2>2. (C!TypeOK /\ CallsAreOfTabs /\ TabsAgree)'
    BY <2>1 DEF ClientInv, C!TypeOK, CallsAreOfTabs, TabsAgree, TabAgrees, Exchanges
  <2>3. TokensSound'
    BY <2>1 DEF ClientInv, TokensSound, TokensAreKnown, Known, GrantsAreLast, Granted, LoginIsNew,
       RenewalIsLast, Exchanges, CookieHolds, Harmless, Spent, AskedInTime, SharedIsExcused,
       C!PresentedOnce
  <2> QED
    BY <2>2, <2>3 DEF ClientInv
<1>2. ASSUME NEW t \in Tabs, C!Expire(t) PROVE ClientInv'
  BY <1>2, ClientExpires
<1>3. ASSUME NEW s \in Slots, NEW t \in Tabs,
             \/ C!Login(s, t) \/ C!Restore(s, t) \/ C!Reload(s, t)
             \/ \E kind \in {"call", "logout"} : C!Send(s, t, kind)
      PROVE  ClientInv'
  BY <1>3, LoginKeeps, RestoreKeeps, ReloadKeeps, SendKeeps
<1>4. ASSUME NEW s \in Slots,
             C!ServeLogin(s) \/ C!Serve(s) \/ C!Renew(s) \/ C!EndOfLogout(s) \/ C!EndOfCall(s)
      PROVE  ClientInv'
  BY <1>4, ServeLoginKeeps, ServeKeeps, RenewKeeps, EndOfLogoutKeeps, EndOfCallKeeps
<1>5. ASSUME NEW s \in Slots, C!ServeRefresh(s) \/ C!Receive(s) \/ C!GiveUp(s)
      PROVE  ClientInv'
  BY <1>5, RenewalGranted, RenewalRefused, ReceiveKeeps, GiveUpKeeps
<1> QED
  BY <1>1, <1>2, <1>3, <1>4, <1>5 DEF C!Next

(* What the application does with its tokens does not end its own session: a
   refresh token that ends a family was excused, and a tab at rest acts for the
   person it shows (session and request of the web client). *)
THEOREM SessionIsHeld == DocumentsSpec => []ClientHoldsSession
<1>1. DocumentsInit => ClientInv
  BY ClientBegins DEF DocumentsInit
<1>2. ClientInv /\ [DocumentsNext]_documentsVars => ClientInv'
  <2>1. [DocumentsNext]_documentsVars => [C!Next]_(C!vars)
    BY DEF DocumentsNext, documentsVars, clientVars, C!vars
  <2> QED
    BY <2>1, ClientStep
<1>3. ClientInv => ClientHoldsSession
  BY DEF ClientInv, TokensSound, TabsAgree, TabAgrees, ClientHoldsSession, C!ClientHoldsSession,
     C!ShownIsHeld
<1> QED
  BY <1>1, <1>2, <1>3, PTL DEF DocumentsSpec

-----------------------------------------------------------------------------
(* PreparationWatch: polls go on while work is left, and then it is shown. *)

LEMMA CountsOfPrepared ==
    /\ W!Cardinality({}) = 0
    /\ \A T \in SUBSET Prepared :
           /\ W!Cardinality(T) \in 0 .. W!Cardinality(Prepared)
           /\ T # {} => W!Cardinality(T) > 0
<1>1. \A T : W!Cardinality(T) = Cardinality(T)
  BY DEF W!Cardinality, Cardinality
<1>2. IsFiniteSet(Prepared)
  BY WatchAssumed DEF W!WatchAssumption, W!IsFiniteSet, IsFiniteSet
<1>3. ASSUME NEW T \in SUBSET Prepared
      PROVE  /\ Cardinality(T) \in 0 .. Cardinality(Prepared)
             /\ T # {} => Cardinality(T) > 0
  <2>1. IsFiniteSet(T) /\ Cardinality(T) <= Cardinality(Prepared)
    BY <1>2, FS_Subset
  <2>2. Cardinality(T) \in Nat /\ Cardinality(Prepared) \in Nat
    BY <1>2, <2>1, FS_CardinalityType
  <2>3. T # {} => Cardinality(T) # 0
    BY <2>1, FS_EmptySet
  <2> QED
    BY <2>1, <2>2, <2>3
<1>4. Cardinality({}) = 0
  BY FS_EmptySet
<1> QED
  BY <1>1, <1>3, <1>4

APoll == [step : {"idle", "asking"}, unread : SUBSET W!ActiveStatuses, found : SUBSET Prepared]
AList == [Prepared -> {"none", "open", "settled"}]
ALoad == [step : {"idle", "asked", "read"}, list : AList]
APage == [timer : BOOLEAN, visible : BOOLEAN, previous : {NoCount} \cup 0 .. W!Cardinality(Prepared),
          stages : SUBSET Prepared, list : AList, failed : BOOLEAN]

WatchTyped ==
    /\ work \in [Prepared -> W!ActiveStatuses \cup {"none", "settled"}]
    /\ polls \in [Polls -> APoll]
    /\ loads \in [Loads -> ALoad]
    /\ page \in APage
    /\ cross \in BOOLEAN

(* The poll that began last will find the work that has not changed since; or
   another is due. *)
WillFind(p) == W!Polling(p) /\ \A d \in W!Active \ moved : d \in polls[p].found \/ work[d] \in polls[p].unread
StaysAwake ==
    \/ page.timer \/ ~page.visible \/ W!Active \subseteq moved
    \/ \E p \in Polls : WillFind(p)

(* The page stops asking only when the last answer was that nothing is at work. *)
LastWasEmpty ==
    page.timer \/ ~page.visible \/ page.stages = {} \/ \E p \in Polls : W!Polling(p)
CountIsOfStages ==
    /\ page.previous # NoCount => page.previous = W!Cardinality(page.stages)
    /\ page.previous = NoCount => witnessed = {}

(* What was at work was there, and what nobody finds at work has settled. *)
SeenAtWork ==
    /\ \A p \in Polls : \A d \in polls[p].found : work[d] # "none"
    /\ \A d \in witnessed : d \in Prepared /\ work[d] # "none"
SettledWhenNone == page.previous = 0 => \A d \in witnessed \ missed : work[d] = "settled"

(* Lists show nothing settled that is not, and a list under way is newer than
   the one shown. *)
OneLoad == ~cross => \A l, k \in Loads : W!Loading(l) /\ W!Loading(k) => l = k
ListsAreTrue ==
    /\ \A d \in Prepared : page.list[d] = "settled" => work[d] = "settled"
    /\ \A l \in Loads : loads[l].step = "read" =>
           \A d \in Prepared : loads[l].list[d] = "settled" => work[d] = "settled"
ListsAreNewer ==
    ~cross => \A l \in Loads : loads[l].step = "read" =>
                  \A d \in Prepared : page.list[d] = "settled" => loads[l].list[d] = "settled"

(* What has settled is shown, or a load brings it. *)
Brings(l, d) == loads[l].step = "asked" \/ (loads[l].step = "read" /\ loads[l].list[d] = "settled")
ShownOrComing ==
    ~cross /\ page.previous = 0 /\ ~page.failed =>
        \A d \in witnessed \ missed : page.list[d] = "settled" \/ \E l \in Loads : Brings(l, d)

WatchInv ==
    /\ WatchTyped /\ StaysAwake /\ LastWasEmpty /\ CountIsOfStages /\ SeenAtWork /\ SettledWhenNone
    /\ OneLoad /\ ListsAreTrue /\ ListsAreNewer /\ ShownOrComing

LEMMA WatchFacts ==
    ASSUME WatchTyped
    PROVE  /\ \A p \in Polls : /\ polls[p] \in APoll /\ polls[p].found \subseteq Prepared
                               /\ polls[p].unread \subseteq W!ActiveStatuses
           /\ \A l \in Loads : loads[l] \in ALoad /\ loads[l].list \in AList
           /\ page.timer \in BOOLEAN /\ page.visible \in BOOLEAN /\ page.failed \in BOOLEAN
           /\ page.list \in AList /\ page.stages \subseteq Prepared
           /\ page.previous \in {NoCount} \cup 0 .. W!Cardinality(Prepared)
           /\ NoCount \notin Nat /\ NoCount # 0
<1>1. \A p \in Polls : polls[p] \in APoll
  BY DEF WatchTyped
<1>2. \A p \in Polls : polls[p].found \subseteq Prepared /\ polls[p].unread \subseteq W!ActiveStatuses
  BY <1>1 DEF APoll
<1>3. \A l \in Loads : loads[l] \in ALoad /\ loads[l].list \in AList
  BY DEF WatchTyped, ALoad
<1>4. /\ page.timer \in BOOLEAN /\ page.visible \in BOOLEAN /\ page.failed \in BOOLEAN
      /\ page.list \in AList /\ page.stages \subseteq Prepared
      /\ page.previous \in {NoCount} \cup 0 .. W!Cardinality(Prepared)
  BY DEF WatchTyped, APage
<1>5. NoCount \notin Nat /\ NoCount # 0
  BY WatchAssumed DEF W!WatchAssumption
<1> QED
  BY <1>1, <1>2, <1>3, <1>4, <1>5

LEMMA WatchBegins == W!Init => WatchInv
<1> SUFFICES ASSUME W!Init PROVE WatchInv
  OBVIOUS
<1>1. PICK p \in Polls : polls = [q \in Polls |-> IF q = p THEN W!Asking ELSE W!NoPoll]
  BY DEF W!Init
<1>2. PICK l \in Loads : loads = [k \in Loads |-> IF k = l THEN W!Asked ELSE W!NoLoad]
  BY DEF W!Init
<1>3. /\ work \in [Prepared -> {"none", "QUEUED"}]
      /\ page = [timer |-> FALSE, visible |-> TRUE, previous |-> NoCount, stages |-> {},
                 list |-> W!NoList, failed |-> FALSE]
      /\ cross = FALSE /\ moved = {} /\ witnessed = {} /\ missed = {}
  BY DEF W!Init
<1>4. W!NoList \in AList /\ \A d \in Prepared : W!NoList[d] = "none"
  BY DEF W!NoList, AList
<1>5. W!Asking \in APoll /\ W!NoPoll \in APoll /\ W!Asked \in ALoad /\ W!NoLoad \in ALoad
  BY <1>4 DEF W!Asking, W!NoPoll, W!Poll, W!Asked, W!NoLoad, APoll, ALoad
<1>6. WatchTyped
  <2>1. polls \in [Polls -> APoll] /\ loads \in [Loads -> ALoad] /\ cross \in BOOLEAN
    BY <1>1, <1>2, <1>3, <1>5
  <2>2. page \in APage
    BY <1>3, <1>4 DEF APage
  <2>3. work \in [Prepared -> W!ActiveStatuses \cup {"none", "settled"}]
    BY <1>3 DEF W!ActiveStatuses
  <2> QED
    BY <2>1, <2>2, <2>3 DEF WatchTyped
<1>7. StaysAwake
  <2>1. WillFind(p)
    BY <1>1 DEF WillFind, W!Polling, W!Asking, W!Poll, W!Active
  <2> QED
    BY <2>1 DEF StaysAwake
<1>8. LastWasEmpty /\ CountIsOfStages /\ SettledWhenNone /\ ShownOrComing
  BY <1>3 DEF LastWasEmpty, CountIsOfStages, SettledWhenNone, ShownOrComing
<1>9. \A q \in Polls : polls[q].found = {}
  BY <1>1 DEF W!Asking, W!NoPoll, W!Poll
<1>10. SeenAtWork
  BY <1>3, <1>9 DEF SeenAtWork
<1>11. \A k \in Loads : loads[k].step # "read" /\ (W!Loading(k) => k = l)
  BY <1>2 DEF W!Asked, W!NoLoad, W!Loading
<1>12. OneLoad /\ ListsAreTrue /\ ListsAreNewer
  BY <1>3, <1>4, <1>11 DEF OneLoad, ListsAreTrue, ListsAreNewer
<1> QED
  BY <1>6, <1>7, <1>8, <1>10, <1>12 DEF WatchInv

(* A poll that begins will find what is at work. *)
LEMMA PollBegun ==
    ASSUME WatchInv, W!BeginPoll(polls), work' = work
    PROVE  /\ polls' \in [Polls -> APoll] /\ StaysAwake' /\ LastWasEmpty'
           /\ \A p \in Polls : polls'[p].found \subseteq polls[p].found
<1>1. WatchTyped
  BY DEF WatchInv
<1>2. PICK p \in Polls : polls' = [polls EXCEPT ![p] = W!Asking]
  BY DEF W!BeginPoll
<1>3. W!Asking \in APoll /\ W!Asking.step = "asking" /\ W!Asking.found = {}
      /\ W!Asking.unread = W!ActiveStatuses
  BY DEF W!Asking, W!Poll, APoll
<1>4. polls' \in [Polls -> APoll] /\ polls'[p] = W!Asking /\ \A q \in Polls : q # p => polls'[q] = polls[q]
  BY <1>1, <1>2, <1>3 DEF WatchTyped
<1>5. W!Polling(p)' /\ WillFind(p)'
  BY <1>3, <1>4 DEF WillFind, W!Polling, W!Active
<1>6. \A q \in Polls : polls'[q].found \subseteq polls[q].found
  BY <1>3, <1>4
<1> QED
  BY <1>4, <1>5, <1>6 DEF StaysAwake, LastWasEmpty

(* A load that begins is alone unless it crosses another. *)
LEMMA LoadBegun ==
    ASSUME WatchInv, W!BeginLoad
    PROVE  /\ loads' \in [Loads -> ALoad] /\ cross' \in BOOLEAN /\ OneLoad'
           /\ \E l \in Loads : loads'[l].step = "asked"
           /\ \A l \in Loads : loads'[l].step = "read" => cross' /\ loads'[l] = loads[l]
<1>1. WatchTyped
  BY DEF WatchInv
<1>2. PICK l \in Loads : loads' = [loads EXCEPT ![l] = W!Asked]
  BY DEF W!BeginLoad
<1>3. W!Asked \in ALoad /\ W!Asked.step = "asked"
  BY DEF W!Asked, W!NoList, ALoad, AList
<1>4. loads' \in [Loads -> ALoad] /\ loads'[l] = W!Asked /\ \A k \in Loads : k # l => loads'[k] = loads[k]
  BY <1>1, <1>2, <1>3 DEF WatchTyped
<1>5. cross' \in BOOLEAN /\ (cross' <=> \E k \in Loads : W!Loading(k))
  BY DEF W!BeginLoad
<1>6. \A k \in Loads : k # l /\ W!Loading(k)' => cross'
  BY <1>4, <1>5 DEF W!Loading
<1>7. OneLoad'
  BY <1>6 DEF OneLoad
<1>8. \A k \in Loads : loads'[k].step = "read" => cross' /\ loads'[k] = loads[k]
  BY <1>3, <1>4, <1>6 DEF W!Loading
<1> QED
  BY <1>3, <1>4, <1>5, <1>7, <1>8

(* Where no document changes and the list shown stays, lists stay true. *)
LEMMA ListsStayTrue ==
    ASSUME WatchInv, work' = work, page'.list = page.list,
           \A l \in Loads : loads'[l].step = "read" => (cross' \/ ~cross) /\ loads'[l] = loads[l]
    PROVE  ListsAreTrue' /\ ListsAreNewer'
<1>1. ListsAreTrue /\ ListsAreNewer
  BY DEF WatchInv
<1>2. ListsAreTrue'
  BY <1>1 DEF ListsAreTrue
<1>3. ListsAreNewer'
  BY <1>1 DEF ListsAreNewer
<1> QED
  BY <1>2, <1>3

LEMMA MoveKeeps == ASSUME WatchInv, NEW d \in Prepared, W!Move(d) PROVE WatchInv'
<1>1. /\ WatchTyped /\ StaysAwake /\ LastWasEmpty /\ CountIsOfStages /\ SeenAtWork /\ SettledWhenNone
      /\ OneLoad /\ ListsAreTrue /\ ListsAreNewer /\ ShownOrComing
  BY DEF WatchInv
<1>2. PICK status \in W!Moves[work[d]] : work' = [work EXCEPT ![d] = status]
  BY DEF W!Move
<1>3. moved' = moved \cup {d} /\ UNCHANGED <<polls, loads, page, witnessed, missed, cross>>
  BY DEF W!Move
<1>4. work[d] \in W!ActiveStatuses \cup {"none", "settled"}
  BY <1>1 DEF WatchTyped
<1>5. status \in W!ActiveStatuses \cup {"settled"} /\ work[d] # "settled"
  BY <1>2, <1>4 DEF W!Moves, W!ActiveStatuses
<1>6. /\ work' \in [Prepared -> W!ActiveStatuses \cup {"none", "settled"}] /\ work'[d] = status
      /\ \A e \in Prepared : e # d => work'[e] = work[e]
  BY <1>1, <1>2, <1>5 DEF WatchTyped
<1>7. status # "none"
  BY <1>5 DEF W!ActiveStatuses
<1>8. /\ \A e \in Prepared : work[e] = "settled" => work'[e] = "settled"
      /\ \A e \in Prepared : work[e] # "none" => work'[e] # "none"
  BY <1>5, <1>6, <1>7
<1>9. WatchTyped'
  BY <1>1, <1>3, <1>6 DEF WatchTyped
<1>10. \A e \in W!Active' \ moved' : e \in W!Active \ moved /\ work'[e] = work[e]
  BY <1>3, <1>6 DEF W!Active
<1>11. StaysAwake'
  <2>1. CASE page.timer \/ ~page.visible
    BY <1>3, <2>1 DEF StaysAwake
  <2>2. CASE W!Active \subseteq moved
    BY <1>3, <1>10, <2>2 DEF StaysAwake
  <2>3. ASSUME NEW p \in Polls, WillFind(p) PROVE WillFind(p)'
    BY <1>3, <1>10, <2>3 DEF WillFind, W!Polling
  <2> QED
    BY <1>1, <2>1, <2>2, <2>3 DEF StaysAwake
<1>12. LastWasEmpty' /\ CountIsOfStages'
  BY <1>1, <1>3 DEF LastWasEmpty, CountIsOfStages, W!Polling
<1>13. SeenAtWork'
  BY <1>1, <1>3, <1>8, WatchFacts DEF SeenAtWork
<1>14. SettledWhenNone'
  BY <1>1, <1>3, <1>8 DEF SettledWhenNone, SeenAtWork
<1>15. OneLoad' /\ ListsAreNewer' /\ ShownOrComing'
  BY <1>1, <1>3 DEF OneLoad, W!Loading, ListsAreNewer, ShownOrComing, Brings
<1>16. ListsAreTrue'
  BY <1>1, <1>3, <1>8 DEF ListsAreTrue
<1> QED
  BY <1>9, <1>11, <1>12, <1>13, <1>14, <1>15, <1>16 DEF WatchInv

(* A page that differs in its timer, in what is visible or in what failed. *)
LEMMA PageKept ==
    ASSUME WatchTyped, NEW b \in BOOLEAN
    PROVE  /\ [page EXCEPT !.timer = b] \in APage /\ [page EXCEPT !.visible = b] \in APage
           /\ [page EXCEPT !.failed = b] \in APage
           /\ \A newer \in AList : [page EXCEPT !.list = newer] \in APage
           /\ [page EXCEPT !.previous = NoCount, !.failed = FALSE] \in APage
BY DEF WatchTyped, APage

LEMMA AsksKeep ==
    ASSUME WatchInv, W!BeginPoll(polls), page' \in APage,
           page'.list = page.list, page'.stages = page.stages, page'.previous = page.previous,
           page'.failed = page.failed,
           UNCHANGED <<work, loads, witnessed, missed, cross>>
    PROVE  WatchInv'
<1>1. /\ WatchTyped /\ CountIsOfStages /\ SeenAtWork /\ SettledWhenNone
      /\ OneLoad /\ ListsAreTrue /\ ListsAreNewer /\ ShownOrComing
  BY DEF WatchInv
<1>2. /\ polls' \in [Polls -> APoll] /\ StaysAwake' /\ LastWasEmpty'
      /\ \A p \in Polls : polls'[p].found \subseteq polls[p].found
  BY PollBegun
<1>3. WatchTyped'
  BY <1>1, <1>2 DEF WatchTyped
<1>4. CountIsOfStages' /\ SettledWhenNone' /\ ShownOrComing'
  BY <1>1 DEF CountIsOfStages, SettledWhenNone, ShownOrComing, Brings
<1>5. SeenAtWork'
  BY <1>1, <1>2 DEF SeenAtWork
<1>6. OneLoad' /\ ListsAreTrue' /\ ListsAreNewer'
  BY <1>1 DEF OneLoad, W!Loading, ListsAreTrue, ListsAreNewer
<1> QED
  BY <1>2, <1>3, <1>4, <1>5, <1>6 DEF WatchInv

LEMMA TimerKeeps == ASSUME WatchInv, W!TimerFires PROVE WatchInv'
<1>1. WatchTyped /\ page \in APage
  BY DEF WatchInv, WatchTyped
<1>2. page' = [page EXCEPT !.timer = FALSE] /\ W!BeginPoll(polls)
      /\ UNCHANGED <<work, loads, witnessed, missed, cross>>
  BY DEF W!TimerFires
<1>3. page' \in APage
  BY <1>1, <1>2, PageKept
<1>4. /\ page'.list = page.list /\ page'.stages = page.stages /\ page'.previous = page.previous
      /\ page'.failed = page.failed
  BY <1>1, <1>2 DEF APage
<1> QED
  BY <1>2, <1>3, <1>4, AsksKeep

LEMMA ShowKeeps == ASSUME WatchInv, W!Show PROVE WatchInv'
<1>1. WatchTyped /\ page \in APage
  BY DEF WatchInv, WatchTyped
<1>2. page' = [page EXCEPT !.visible = TRUE] /\ W!BeginPoll(polls)
      /\ UNCHANGED <<work, loads, witnessed, missed, cross>>
  BY DEF W!Show
<1>3. page' \in APage
  BY <1>1, <1>2, PageKept
<1>4. /\ page'.list = page.list /\ page'.stages = page.stages /\ page'.previous = page.previous
      /\ page'.failed = page.failed
  BY <1>1, <1>2 DEF APage
<1> QED
  BY <1>2, <1>3, <1>4, AsksKeep

LEMMA HideKeeps == ASSUME WatchInv, W!Hide PROVE WatchInv'
<1>1. /\ WatchTyped /\ page \in APage /\ CountIsOfStages /\ SeenAtWork /\ SettledWhenNone
      /\ OneLoad /\ ListsAreTrue /\ ListsAreNewer /\ ShownOrComing
  BY DEF WatchInv, WatchTyped
<1>2. page' = [page EXCEPT !.visible = FALSE]
      /\ UNCHANGED <<work, polls, loads, moved, witnessed, missed, cross>>
  BY DEF W!Hide
<1>3. page' \in APage
  BY <1>1, <1>2, PageKept
<1>4. /\ page'.list = page.list /\ page'.stages = page.stages /\ page'.previous = page.previous
      /\ page'.failed = page.failed /\ ~page'.visible
  BY <1>1, <1>2 DEF APage
<1>5. WatchTyped' /\ StaysAwake' /\ LastWasEmpty'
  BY <1>1, <1>2, <1>3, <1>4 DEF WatchTyped, StaysAwake, LastWasEmpty
<1>6. CountIsOfStages' /\ SettledWhenNone' /\ ShownOrComing' /\ SeenAtWork'
  BY <1>1, <1>2, <1>4 DEF CountIsOfStages, SettledWhenNone, ShownOrComing, Brings, SeenAtWork
<1>7. OneLoad' /\ ListsAreTrue' /\ ListsAreNewer'
  BY <1>1, <1>2, <1>4 DEF OneLoad, W!Loading, ListsAreTrue, ListsAreNewer
<1> QED
  BY <1>5, <1>6, <1>7 DEF WatchInv

LEMMA IntakeFinishedKeeps == ASSUME WatchInv, W!IntakeFinished PROVE WatchInv'
<1>1. WatchTyped /\ page \in APage /\ SeenAtWork
  BY DEF WatchInv, WatchTyped
<1>2. /\ page' = [page EXCEPT !.previous = NoCount, !.failed = FALSE]
      /\ W!BeginPoll(polls) /\ W!BeginLoad /\ witnessed' = {} /\ UNCHANGED <<work, missed>>
  BY DEF W!IntakeFinished
<1>3. page' \in APage
  BY <1>1, <1>2, PageKept
<1>4. page'.list = page.list /\ page'.previous = NoCount /\ NoCount # 0
  BY <1>1, <1>2, WatchFacts DEF APage
<1>5. /\ polls' \in [Polls -> APoll] /\ StaysAwake' /\ LastWasEmpty'
      /\ \A p \in Polls : polls'[p].found \subseteq polls[p].found
  BY <1>2, PollBegun
<1>6. /\ loads' \in [Loads -> ALoad] /\ cross' \in BOOLEAN /\ OneLoad'
      /\ \A l \in Loads : loads'[l].step = "read" => cross' /\ loads'[l] = loads[l]
  BY <1>2, LoadBegun
<1>7. WatchTyped'
  BY <1>1, <1>2, <1>3, <1>5, <1>6 DEF WatchTyped
<1>8. CountIsOfStages' /\ SettledWhenNone' /\ ShownOrComing'
  BY <1>2, <1>4 DEF CountIsOfStages, SettledWhenNone, ShownOrComing
<1>9. SeenAtWork'
  BY <1>1, <1>2, <1>5 DEF SeenAtWork
<1>10. ListsAreTrue' /\ ListsAreNewer'
  BY <1>2, <1>4, <1>6, ListsStayTrue
<1> QED
  BY <1>5, <1>6, <1>7, <1>8, <1>9, <1>10 DEF WatchInv

LEMMA ReadStatusKeeps ==
    ASSUME WatchInv, NEW p \in Polls, NEW s \in W!ActiveStatuses, W!ReadStatus(p, s) PROVE WatchInv'
<1>1. /\ WatchTyped /\ StaysAwake /\ LastWasEmpty /\ CountIsOfStages /\ SeenAtWork /\ SettledWhenNone
      /\ OneLoad /\ ListsAreTrue /\ ListsAreNewer /\ ShownOrComing
  BY DEF WatchInv
<1> DEFINE row == [step |-> "asking", unread |-> polls[p].unread \ {s},
                   found |-> polls[p].found \cup {d \in Prepared : work[d] = s}]
<1>2. /\ s \in polls[p].unread /\ polls' = [polls EXCEPT ![p] = row]
      /\ UNCHANGED <<work, loads, page, moved, witnessed, missed, cross>>
  BY <1>1 DEF W!ReadStatus, W!Poll, WatchTyped
<1>3. row \in APoll
  BY <1>1, WatchFacts DEF APoll
<1>4. row.step = "asking" /\ row.unread = polls[p].unread \ {s}
      /\ row.found = polls[p].found \cup {d \in Prepared : work[d] = s}
  OBVIOUS
<1> HIDE DEF row
<1>5. polls' \in [Polls -> APoll] /\ polls'[p] = row /\ \A q \in Polls : q # p => polls'[q] = polls[q]
  BY <1>1, <1>2, <1>3 DEF WatchTyped
<1>6. WatchTyped'
  BY <1>1, <1>2, <1>5 DEF WatchTyped
<1>7. ASSUME NEW q \in Polls, WillFind(q) PROVE WillFind(q)'
  <2>1. CASE q = p
    <3>1. \A d \in W!Active \ moved : d \in row.found \/ work[d] \in row.unread
      BY <1>4, <1>7, <2>1 DEF WillFind, W!Active
    <3> QED
      BY <1>2, <1>4, <1>5, <2>1, <3>1 DEF WillFind, W!Polling, W!Active
  <2>2. CASE q # p
    BY <1>2, <1>5, <1>7, <2>2 DEF WillFind, W!Polling, W!Active
  <2> QED
    BY <2>1, <2>2
<1>8. StaysAwake'
  BY <1>1, <1>2, <1>7 DEF StaysAwake, W!Active
<1>9. LastWasEmpty'
  BY <1>1, <1>2, <1>4, <1>5 DEF LastWasEmpty, W!Polling
<1>10. SeenAtWork'
  <2>1. \A d \in row.found : work[d] # "none"
    BY <1>1, <1>4 DEF SeenAtWork, W!ActiveStatuses
  <2>2. \A q \in Polls : \A d \in polls'[q].found : work[d] # "none"
    BY <1>1, <1>5, <2>1 DEF SeenAtWork
  <2> QED
    BY <1>1, <1>2, <2>2 DEF SeenAtWork
<1>11. CountIsOfStages' /\ SettledWhenNone' /\ OneLoad' /\ ListsAreTrue' /\ ListsAreNewer' /\ ShownOrComing'
  BY <1>1, <1>2 DEF CountIsOfStages, SettledWhenNone, OneLoad, W!Loading, ListsAreTrue, ListsAreNewer,
     ShownOrComing, Brings
<1> QED
  BY <1>6, <1>8, <1>9, <1>10, <1>11 DEF WatchInv

(* A poll that ends leaves the others as they are. *)
LEMMA PollEnded ==
    ASSUME WatchTyped, NEW p \in Polls, polls' = [polls EXCEPT ![p] = W!NoPoll]
    PROVE  /\ polls' \in [Polls -> APoll]
           /\ \A q \in Polls : polls'[q].found \subseteq polls[q].found
           /\ \A q \in Polls : q # p => polls'[q] = polls[q]
<1>1. W!NoPoll \in APoll /\ W!NoPoll.found = {}
  BY DEF W!NoPoll, W!Poll, APoll
<1>2. polls' \in [Polls -> APoll] /\ polls'[p] = W!NoPoll /\ \A q \in Polls : q # p => polls'[q] = polls[q]
  BY <1>1 DEF WatchTyped
<1> QED
  BY <1>1, <1>2

LEMMA PollFailsKeeps == ASSUME WatchInv, NEW p \in Polls, W!PollFails(p) PROVE WatchInv'
<1>1. /\ WatchTyped /\ page \in APage /\ CountIsOfStages /\ SeenAtWork /\ SettledWhenNone
      /\ OneLoad /\ ListsAreTrue /\ ListsAreNewer /\ ShownOrComing
  BY DEF WatchInv, WatchTyped
<1>2. /\ polls' = [polls EXCEPT ![p] = W!NoPoll] /\ page' = [page EXCEPT !.timer = W!Scheduled]
      /\ UNCHANGED <<work, loads, moved, witnessed, missed, cross>>
  BY DEF W!PollFails
<1>3. W!Scheduled \in BOOLEAN /\ (W!Scheduled \/ ~page.visible)
  BY <1>1, WatchFacts DEF W!Scheduled
<1>4. page' \in APage
  BY <1>1, <1>2, <1>3, PageKept
<1>5. /\ page'.list = page.list /\ page'.stages = page.stages /\ page'.previous = page.previous
      /\ page'.failed = page.failed /\ (page'.timer \/ ~page'.visible)
  BY <1>1, <1>2, <1>3 DEF APage
<1>6. polls' \in [Polls -> APoll] /\ \A q \in Polls : polls'[q].found \subseteq polls[q].found
  BY <1>1, <1>2, PollEnded
<1>7. WatchTyped' /\ StaysAwake' /\ LastWasEmpty'
  BY <1>1, <1>2, <1>4, <1>5, <1>6 DEF WatchTyped, StaysAwake, LastWasEmpty
<1>8. SeenAtWork'
  BY <1>1, <1>2, <1>6 DEF SeenAtWork
<1>9. CountIsOfStages' /\ SettledWhenNone' /\ ShownOrComing'
  BY <1>1, <1>2, <1>5 DEF CountIsOfStages, SettledWhenNone, ShownOrComing, Brings
<1>10. OneLoad' /\ ListsAreTrue' /\ ListsAreNewer'
  BY <1>1, <1>2, <1>5 DEF OneLoad, W!Loading, ListsAreTrue, ListsAreNewer
<1> QED
  BY <1>7, <1>8, <1>9, <1>10 DEF WatchInv

(* An answer that finds nothing at work: what was seen has settled, and the list
   is loaded unless it was when the count became nought. *)
LEMMA LandKeeps == ASSUME WatchInv, NEW p \in Polls, W!Land(p) PROVE WatchInv'
<1> DEFINE n == W!Cardinality(polls[p].found)
           F == polls[p].found
<1>1. /\ WatchTyped /\ page \in APage /\ StaysAwake /\ LastWasEmpty /\ CountIsOfStages /\ SeenAtWork
      /\ SettledWhenNone /\ OneLoad /\ ListsAreTrue /\ ListsAreNewer /\ ShownOrComing
  BY DEF WatchInv, WatchTyped
<1>2. /\ W!Polling(p) /\ polls[p].unread = {} /\ polls' = [polls EXCEPT ![p] = W!NoPoll]
      /\ IF W!Decreased(n) THEN W!BeginLoad ELSE UNCHANGED <<loads, cross>>
      /\ page' = [page EXCEPT !.stages = F, !.previous = n, !.failed = @ /\ ~W!Decreased(n),
                              !.timer = IF n > 0 THEN W!Scheduled ELSE @]
      /\ witnessed' = witnessed \cup F
      /\ missed' = (missed \ F) \cup (W!Active \ F)
      /\ UNCHANGED <<work, moved>>
  BY DEF W!Land, W!Told, W!Found
<1>3. F \in SUBSET Prepared /\ n \in 0 .. W!Cardinality(Prepared) /\ (F # {} <=> n > 0) /\ n \in Nat
  <2>1. F \in SUBSET Prepared
    BY <1>1, WatchFacts
  <2>2. n \in 0 .. W!Cardinality(Prepared) /\ (F # {} => n > 0)
    BY <2>1, CountsOfPrepared
  <2>3. F = {} => n = 0
    BY CountsOfPrepared
  <2> HIDE DEF n, F
  <2> QED
    BY <2>1, <2>2, <2>3
<1>4. W!Scheduled \in BOOLEAN /\ (W!Scheduled \/ ~page.visible)
      /\ page.timer \in BOOLEAN /\ page.failed \in BOOLEAN
      /\ W!Decreased(n) \in BOOLEAN
  BY <1>1, WatchFacts DEF W!Scheduled, W!Decreased
<1> HIDE DEF n, F
<1>5. /\ page' \in APage /\ page'.list = page.list /\ page'.stages = F /\ page'.previous = n
      /\ page'.visible = page.visible /\ (page'.failed <=> page.failed /\ ~W!Decreased(n))
      /\ page'.timer = IF n > 0 THEN W!Scheduled ELSE page.timer
  <2> DEFINE timer == IF n > 0 THEN W!Scheduled ELSE page.timer
             failed == page.failed /\ ~W!Decreased(n)
  <2>1. timer \in BOOLEAN /\ failed \in BOOLEAN
    BY <1>4
  <2>2. page' = [page EXCEPT !.stages = F, !.previous = n, !.failed = failed, !.timer = timer]
    BY <1>1, <1>2 DEF APage
  <2> HIDE DEF timer, failed
  <2>3. /\ page' \in APage /\ page'.list = page.list /\ page'.stages = F /\ page'.previous = n
        /\ page'.visible = page.visible /\ page'.failed = failed /\ page'.timer = timer
    BY <1>1, <1>3, <2>1, <2>2 DEF APage
  <2> QED
    BY <2>3 DEF timer, failed
<1>6. /\ polls' \in [Polls -> APoll] /\ \A q \in Polls : polls'[q].found \subseteq polls[q].found
      /\ \A q \in Polls : q # p => polls'[q] = polls[q]
  BY <1>1, <1>2, PollEnded
<1>7. /\ loads' \in [Loads -> ALoad] /\ cross' \in BOOLEAN /\ OneLoad'
      /\ \A l \in Loads : loads'[l].step = "read" => (cross' \/ ~cross) /\ loads'[l] = loads[l]
      /\ W!Decreased(n) => \E l \in Loads : loads'[l].step = "asked"
      /\ ~W!Decreased(n) => loads' = loads /\ cross' = cross
  <2>1. CASE W!Decreased(n)
    BY <1>2, <2>1, LoadBegun
  <2>2. CASE ~W!Decreased(n)
    <3>1. loads' = loads /\ cross' = cross
      BY <1>2, <2>2
    <3> QED
      BY <1>1, <2>2, <3>1 DEF WatchTyped, OneLoad, W!Loading
  <2> QED
    BY <2>1, <2>2
<1>8. WatchTyped'
  BY <1>1, <1>2, <1>5, <1>6, <1>7 DEF WatchTyped
<1>9. F # {} => page'.timer \/ ~page'.visible
  BY <1>3, <1>4, <1>5
<1>10. StaysAwake'
  <2>1. CASE F # {}
    BY <1>9, <2>1 DEF StaysAwake
  <2>2. CASE page.timer \/ ~page.visible
    BY <1>4, <1>5, <2>2 DEF StaysAwake, W!Scheduled
  <2>3. CASE W!Active \subseteq moved
    BY <1>2, <2>3 DEF StaysAwake, W!Active
  <2>4. ASSUME NEW q \in Polls, WillFind(q), F = {} PROVE StaysAwake'
    <3>1. CASE q = p
      <4>1. W!Active \subseteq moved
        BY <1>2, <2>4, <3>1 DEF WillFind, F
      <4> QED
        BY <1>2, <4>1 DEF StaysAwake, W!Active
    <3>2. CASE q # p
      <4>1. WillFind(q)'
        BY <1>2, <1>6, <2>4, <3>2 DEF WillFind, W!Polling, W!Active
      <4> QED
        BY <4>1 DEF StaysAwake
    <3> QED
      BY <3>1, <3>2
  <2> QED
    BY <1>1, <2>1, <2>2, <2>3, <2>4 DEF StaysAwake
<1>11. LastWasEmpty'
  BY <1>5, <1>9 DEF LastWasEmpty
<1>12. CountIsOfStages'
  BY <1>3, <1>5, WatchFacts, <1>1 DEF CountIsOfStages, n, F
<1>13. SeenAtWork'
  <2>1. \A d \in F : d \in Prepared /\ work[d] # "none"
    BY <1>1, <1>3 DEF SeenAtWork, F
  <2> QED
    BY <1>1, <1>2, <1>6, <2>1 DEF SeenAtWork
<1>14. ASSUME n = 0 PROVE \A d \in witnessed' \ missed' : d \in witnessed \ missed /\ work[d] = "settled"
  <2> SUFFICES ASSUME NEW d \in witnessed' \ missed'
               PROVE  d \in witnessed \ missed /\ work[d] = "settled"
    OBVIOUS
  <2>1. d \in witnessed \ missed /\ d \notin W!Active
    BY <1>2, <1>3, <1>14
  <2>2. d \in Prepared /\ work[d] # "none" /\ work[d] \in W!ActiveStatuses \cup {"none", "settled"}
    BY <1>1, <2>1 DEF SeenAtWork, WatchTyped
  <2> QED
    BY <2>1, <2>2 DEF W!Active
<1>15. SettledWhenNone'
  BY <1>2, <1>5, <1>14 DEF SettledWhenNone
<1>16. ListsAreTrue' /\ ListsAreNewer'
  BY <1>2, <1>5, <1>7, ListsStayTrue
<1>17. ShownOrComing'
  <2> SUFFICES ASSUME ~cross', page'.previous = 0, ~page'.failed, NEW d \in witnessed' \ missed'
               PROVE  page'.list[d] = "settled" \/ \E l \in Loads : Brings(l, d)'
    BY DEF ShownOrComing
  <2>1. n = 0 /\ d \in witnessed \ missed
    BY <1>5, <1>14
  <2>2. CASE W!Decreased(n)
    BY <1>7, <2>2 DEF Brings
  <2>3. CASE ~W!Decreased(n)
    <3>1. page.previous # NoCount
      BY <1>1, <2>1 DEF CountIsOfStages
    <3>2. page.previous \in Nat
      BY <1>1, <3>1, WatchFacts
    <3>3. page.previous = 0
      BY <2>1, <2>3, <3>1, <3>2 DEF W!Decreased
    <3>4. ~page.failed /\ ~cross
      BY <1>5, <1>7, <2>3
    <3>5. page.list[d] = "settled" \/ \E l \in Loads : Brings(l, d)
      BY <1>1, <2>1, <3>3, <3>4 DEF ShownOrComing
    <3> QED
      BY <1>5, <1>7, <2>3, <3>5 DEF Brings
  <2> QED
    BY <2>2, <2>3
<1> QED
  BY <1>7, <1>8, <1>10, <1>11, <1>12, <1>13, <1>15, <1>16, <1>17 DEF WatchInv

LEMMA ReadListKeeps == ASSUME WatchInv, NEW l \in Loads, W!ReadList(l) PROVE WatchInv'
<1>1. /\ WatchTyped /\ StaysAwake /\ LastWasEmpty /\ CountIsOfStages /\ SeenAtWork /\ SettledWhenNone
      /\ OneLoad /\ ListsAreTrue /\ ListsAreNewer /\ ShownOrComing
  BY DEF WatchInv
<1> DEFINE read == [d \in Prepared |-> IF d \in W!Active THEN "open" ELSE work[d]]
           row == [step |-> "read", list |-> read]
<1>2. /\ loads[l].step = "asked" /\ loads' = [loads EXCEPT ![l] = row]
      /\ UNCHANGED <<work, polls, page, moved, witnessed, missed, cross>>
  BY DEF W!ReadList
<1>3. /\ read \in AList
      /\ \A d \in Prepared : read[d] = "settled" <=> work[d] = "settled"
  <2>1. \A d \in Prepared : work[d] \in W!ActiveStatuses \cup {"none", "settled"}
    BY <1>1 DEF WatchTyped
  <2> QED
    BY <2>1 DEF AList, W!Active, W!ActiveStatuses
<1> HIDE DEF read
<1>4. row \in ALoad /\ row.step = "read" /\ row.list = read
  BY <1>3 DEF ALoad
<1> HIDE DEF row
<1>5. loads' \in [Loads -> ALoad] /\ loads'[l] = row /\ \A k \in Loads : k # l => loads'[k] = loads[k]
  BY <1>1, <1>2, <1>4 DEF WatchTyped
<1>6. WatchTyped'
  BY <1>1, <1>2, <1>5 DEF WatchTyped
<1>7. StaysAwake' /\ LastWasEmpty' /\ CountIsOfStages' /\ SeenAtWork' /\ SettledWhenNone'
  BY <1>1, <1>2 DEF StaysAwake, WillFind, W!Polling, W!Active, LastWasEmpty, CountIsOfStages, SeenAtWork,
     SettledWhenNone
<1>8. OneLoad'
  BY <1>1, <1>2, <1>4, <1>5 DEF OneLoad, W!Loading
<1>9. ListsAreTrue' /\ ListsAreNewer'
  <2>1. \A d \in Prepared : page.list[d] = "settled" => row.list[d] = "settled"
    BY <1>1, <1>3, <1>4 DEF ListsAreTrue
  <2>2. \A d \in Prepared : row.list[d] = "settled" => work[d] = "settled"
    BY <1>3, <1>4
  <2> QED
    BY <1>1, <1>2, <1>5, <2>1, <2>2 DEF ListsAreTrue, ListsAreNewer
<1>10. ShownOrComing'
  <2> SUFFICES ASSUME ~cross, page.previous = 0, ~page.failed, NEW d \in witnessed \ missed
               PROVE  page.list[d] = "settled" \/ \E k \in Loads : Brings(k, d)'
    BY <1>2 DEF ShownOrComing
  <2>1. d \in Prepared /\ work[d] = "settled"
    BY <1>1 DEF SettledWhenNone, SeenAtWork
  <2>2. Brings(l, d)'
    BY <1>3, <1>4, <1>5, <2>1 DEF Brings
  <2> QED
    BY <2>2
<1> QED
  BY <1>6, <1>7, <1>8, <1>9, <1>10 DEF WatchInv

(* A load that ends leaves the others as they are; if none crossed it, there
   are no others. *)
LEMMA LoadEnded ==
    ASSUME WatchInv, NEW l \in Loads, W!Loading(l), loads' = [loads EXCEPT ![l] = W!NoLoad],
           cross' = cross
    PROVE  /\ loads' \in [Loads -> ALoad] /\ OneLoad' /\ loads'[l].step = "idle"
           /\ \A k \in Loads : k # l => loads'[k] = loads[k]
           /\ ~cross => \A k \in Loads : loads'[k].step = "idle"
<1>1. WatchTyped /\ OneLoad
  BY DEF WatchInv
<1>2. W!NoLoad \in ALoad /\ W!NoLoad.step = "idle"
  BY DEF W!NoLoad, W!NoList, ALoad, AList
<1>3. loads' \in [Loads -> ALoad] /\ loads'[l] = W!NoLoad /\ \A k \in Loads : k # l => loads'[k] = loads[k]
  BY <1>1, <1>2 DEF WatchTyped
<1>4. ~cross => \A k \in Loads : loads'[k].step = "idle"
  BY <1>1, <1>2, <1>3 DEF OneLoad, W!Loading
<1>5. OneLoad'
  BY <1>1, <1>2, <1>3 DEF OneLoad, W!Loading
<1> QED
  BY <1>2, <1>3, <1>4, <1>5

LEMMA LandListKeeps == ASSUME WatchInv, NEW l \in Loads, W!LandList(l) PROVE WatchInv'
<1>1. /\ WatchTyped /\ page \in APage /\ StaysAwake /\ LastWasEmpty /\ CountIsOfStages /\ SeenAtWork
      /\ SettledWhenNone /\ OneLoad /\ ListsAreTrue /\ ListsAreNewer /\ ShownOrComing
  BY DEF WatchInv, WatchTyped
<1>2. /\ loads[l].step = "read" /\ W!Loading(l) /\ loads' = [loads EXCEPT ![l] = W!NoLoad]
      /\ page' = [page EXCEPT !.list = loads[l].list]
      /\ UNCHANGED <<work, polls, moved, witnessed, missed, cross>>
  BY DEF W!LandList, W!Loading
<1>3. page' \in APage
  BY <1>1, <1>2, PageKept, WatchFacts
<1>4. /\ page'.list = loads[l].list /\ page'.stages = page.stages /\ page'.previous = page.previous
      /\ page'.failed = page.failed /\ page'.timer = page.timer /\ page'.visible = page.visible
  BY <1>1, <1>2 DEF APage
<1>5. /\ loads' \in [Loads -> ALoad] /\ OneLoad' /\ loads'[l].step = "idle"
      /\ \A k \in Loads : k # l => loads'[k] = loads[k]
      /\ ~cross => \A k \in Loads : loads'[k].step = "idle"
  BY <1>2, LoadEnded
<1>6. WatchTyped'
  BY <1>1, <1>2, <1>3, <1>5 DEF WatchTyped
<1>7. StaysAwake' /\ LastWasEmpty' /\ CountIsOfStages' /\ SeenAtWork' /\ SettledWhenNone'
  BY <1>1, <1>2, <1>4 DEF StaysAwake, WillFind, W!Polling, W!Active, LastWasEmpty, CountIsOfStages,
     SeenAtWork, SettledWhenNone
<1>8. ListsAreTrue' /\ ListsAreNewer'
  BY <1>1, <1>2, <1>4, <1>5 DEF ListsAreTrue, ListsAreNewer
<1>9. ShownOrComing'
  <2> SUFFICES ASSUME ~cross, page.previous = 0, ~page.failed, NEW d \in witnessed \ missed
               PROVE  loads[l].list[d] = "settled"
    BY <1>2, <1>4 DEF ShownOrComing
  <2>1. d \in Prepared
    BY <1>1 DEF SeenAtWork
  <2>2. CASE page.list[d] = "settled"
    BY <1>1, <1>2, <2>1, <2>2 DEF ListsAreNewer
  <2>3. ASSUME NEW k \in Loads, Brings(k, d) PROVE loads[l].list[d] = "settled"
    <3>1. k = l
      BY <1>1, <1>2, <2>3 DEF OneLoad, W!Loading, Brings
    <3> QED
      BY <1>2, <2>3, <3>1 DEF Brings
  <2> QED
    BY <1>1, <2>2, <2>3 DEF ShownOrComing
<1> QED
  BY <1>5, <1>6, <1>7, <1>8, <1>9 DEF WatchInv

LEMMA LoadFailsKeeps == ASSUME WatchInv, NEW l \in Loads, W!LoadFails(l) PROVE WatchInv'
<1>1. /\ WatchTyped /\ page \in APage /\ StaysAwake /\ LastWasEmpty /\ CountIsOfStages /\ SeenAtWork
      /\ SettledWhenNone /\ OneLoad
  BY DEF WatchInv, WatchTyped
<1>2. /\ W!Loading(l) /\ loads' = [loads EXCEPT ![l] = W!NoLoad]
      /\ page' = [page EXCEPT !.failed = TRUE]
      /\ UNCHANGED <<work, polls, moved, witnessed, missed, cross>>
  BY DEF W!LoadFails
<1>3. page' \in APage
  BY <1>1, <1>2, PageKept
<1>4. /\ page'.list = page.list /\ page'.stages = page.stages /\ page'.previous = page.previous
      /\ page'.failed /\ page'.timer = page.timer /\ page'.visible = page.visible
  BY <1>1, <1>2 DEF APage
<1>5. /\ loads' \in [Loads -> ALoad] /\ OneLoad' /\ loads'[l].step = "idle"
      /\ \A k \in Loads : k # l => loads'[k] = loads[k]
  BY <1>2, LoadEnded
<1>6. WatchTyped'
  BY <1>1, <1>2, <1>3, <1>5 DEF WatchTyped
<1>7. StaysAwake' /\ LastWasEmpty' /\ CountIsOfStages' /\ SeenAtWork' /\ SettledWhenNone'
  BY <1>1, <1>2, <1>4 DEF StaysAwake, WillFind, W!Polling, W!Active, LastWasEmpty, CountIsOfStages,
     SeenAtWork, SettledWhenNone
<1>8. \A k \in Loads : loads'[k].step = "read" => loads'[k] = loads[k]
  BY <1>5
<1>9. ListsAreTrue' /\ ListsAreNewer'
  BY <1>2, <1>4, <1>8, ListsStayTrue
<1>10. ShownOrComing'
  BY <1>4 DEF ShownOrComing
<1> QED
  BY <1>5, <1>6, <1>7, <1>9, <1>10 DEF WatchInv

LEMMA LoadAgainKeeps == ASSUME WatchInv, W!LoadAgain PROVE WatchInv'
<1>1. /\ WatchTyped /\ page \in APage /\ StaysAwake /\ LastWasEmpty /\ CountIsOfStages /\ SeenAtWork
      /\ SettledWhenNone
  BY DEF WatchInv, WatchTyped
<1>2. /\ W!BeginLoad /\ page' = [page EXCEPT !.failed = FALSE]
      /\ UNCHANGED <<work, polls, moved, witnessed, missed>>
  BY DEF W!LoadAgain
<1>3. page' \in APage
  BY <1>1, <1>2, PageKept
<1>4. /\ page'.list = page.list /\ page'.stages = page.stages /\ page'.previous = page.previous
      /\ page'.timer = page.timer /\ page'.visible = page.visible
  BY <1>1, <1>2 DEF APage
<1>5. /\ loads' \in [Loads -> ALoad] /\ cross' \in BOOLEAN /\ OneLoad'
      /\ \E l \in Loads : loads'[l].step = "asked"
      /\ \A l \in Loads : loads'[l].step = "read" => cross' /\ loads'[l] = loads[l]
  BY <1>2, LoadBegun
<1>6. WatchTyped'
  BY <1>1, <1>2, <1>3, <1>5 DEF WatchTyped
<1>7. StaysAwake' /\ LastWasEmpty' /\ CountIsOfStages' /\ SeenAtWork' /\ SettledWhenNone'
  BY <1>1, <1>2, <1>4 DEF StaysAwake, WillFind, W!Polling, W!Active, LastWasEmpty, CountIsOfStages,
     SeenAtWork, SettledWhenNone
<1>8. ListsAreTrue' /\ ListsAreNewer'
  BY <1>2, <1>4, <1>5, ListsStayTrue
<1>9. ShownOrComing'
  BY <1>5 DEF ShownOrComing, Brings
<1> QED
  BY <1>5, <1>6, <1>7, <1>8, <1>9 DEF WatchInv

LEMMA WatchStep == WatchInv /\ [W!Next]_(W!vars) => WatchInv'
<1> SUFFICES ASSUME WatchInv, [W!Next]_(W!vars) PROVE WatchInv'
  OBVIOUS
<1>1. CASE UNCHANGED W!vars
  <2>1. UNCHANGED <<work, polls, loads, page, moved, witnessed, missed, cross>>
    BY <1>1 DEF W!vars
  <2> QED
    BY <2>1 DEF WatchInv, WatchTyped, StaysAwake, WillFind, W!Polling, W!Active, LastWasEmpty,
       CountIsOfStages, SeenAtWork, SettledWhenNone, OneLoad, W!Loading, ListsAreTrue, ListsAreNewer,
       ShownOrComing, Brings
<1>2. ASSUME NEW d \in Prepared, W!Move(d) PROVE WatchInv'
  BY <1>2, MoveKeeps
<1>3. CASE W!TimerFires \/ W!Hide \/ W!Show \/ W!IntakeFinished \/ W!LoadAgain
  BY <1>3, TimerKeeps, HideKeeps, ShowKeeps, IntakeFinishedKeeps, LoadAgainKeeps
<1>4. ASSUME NEW p \in Polls, (\E s \in W!ActiveStatuses : W!ReadStatus(p, s)) \/ W!Land(p) \/ W!PollFails(p)
      PROVE  WatchInv'
  BY <1>4, ReadStatusKeeps, LandKeeps, PollFailsKeeps
<1>5. ASSUME NEW l \in Loads, W!ReadList(l) \/ W!LandList(l) \/ W!LoadFails(l) PROVE WatchInv'
  BY <1>5, ReadListKeeps, LandListKeeps, LoadFailsKeeps
<1> QED
  BY <1>1, <1>2, <1>3, <1>4, <1>5 DEF W!Next

(* The page of a case asks on while anything is at work that has not changed
   since it last asked, and then shows what has settled (poll of
   PreparationStatus and loadDocuments of CaseDetailView). *)
THEOREM PollsAreFaithful == DocumentsSpec => []PollingIsFaithful
<1>1. DocumentsInit => WatchInv
  BY WatchBegins DEF DocumentsInit
<1>2. WatchInv /\ [DocumentsNext]_documentsVars => WatchInv'
  <2>1. [DocumentsNext]_documentsVars => [W!Next]_(W!vars)
    BY DEF DocumentsNext, documentsVars, watchVars, W!vars
  <2> QED
    BY <2>1, WatchStep
<1>3. WatchInv => PollingIsFaithful
  <2> SUFFICES ASSUME WatchInv PROVE W!TypeOK /\ W!StopsWhenDone /\ W!SettledIsShown
    BY DEF PollingIsFaithful, W!PollingIsFaithful
  <2>1. /\ WatchTyped /\ StaysAwake /\ LastWasEmpty /\ CountIsOfStages /\ SeenAtWork /\ ShownOrComing
    BY DEF WatchInv
  <2>2. W!TypeOK
    BY <2>1, WatchFacts DEF W!TypeOK, W!Found, WatchTyped
  <2>3. W!StopsWhenDone
    BY <2>1 DEF W!StopsWhenDone, W!AtRest, StaysAwake, WillFind
  <2>4. W!SettledIsShown
    <3> SUFFICES ASSUME W!AtRest, ~page.failed, ~cross, \A l \in Loads : ~W!Loading(l),
                        NEW d \in witnessed \ missed
                 PROVE  page.list[d] = "settled" /\ d \notin page.stages
      BY DEF W!SettledIsShown
    <3>1. page.stages = {}
      BY <2>1 DEF LastWasEmpty, W!AtRest
    <3>2. page.previous = 0
      BY <2>1, <3>1, CountsOfPrepared DEF CountIsOfStages
    <3>3. page.list[d] = "settled" \/ \E l \in Loads : Brings(l, d)
      BY <2>1, <3>2 DEF ShownOrComing
    <3> QED
      BY <3>1, <3>3 DEF Brings, W!Loading
  <2> QED
    BY <2>2, <2>3, <2>4
<1> QED
  BY <1>1, <1>2, <1>3, PTL DEF DocumentsSpec

-----------------------------------------------------------------------------
(* KnowledgeChunks: whatever the text, chunkKnowledgeText cites what was read
   and leaves out nothing.  The invariants of the two loops are proved apart:
   what has been normalized, then what has been cut. *)

Item == [unit : Units, from : Nat, to : Nat]
Chunk == [from : Nat, to : Nat]

-----------------------------------------------------------------------------
(* The loop of normalizeWithSourceMap. *)

(* What has been normalized so far ends where the next unit is read. *)
ReadSoFar ==
    /\ phase = "reading" => start = 0 /\ chunks = << >>
    /\ phase = "reading" /\ text # << >> => text[Len(text)].to = index
    /\ phase # "reading" => index = Len(source)

TextInv == TypeOK /\ ReadSoFar /\ CitationsAreExact

(* A turn of the loop moves within the text it reads. *)
LEMMA AfterAdvances ==
    ASSUME NEW i \in Nat, i < Len(source), source \in Seq(Units)
    PROVE  After(i) \in Nat /\ i < After(i) /\ After(i) <= Len(source)
  BY DEF After, IsCrLf, Unit

(* What a turn passes over is blank, but for a unit it keeps. *)
LEMMA AfterPasses ==
    ASSUME NEW i \in Nat, i < Len(source), source \in Seq(Units)
    PROVE  /\ Unit(i) \notin Blanks => After(i) = i + 1
           /\ Unit(i) \in Blanks => \A p \in i .. After(i) - 1 : Unit(p) \in Blanks
  <1>1. Unit(i) = "cr" => Unit(i) \in Blanks
    BY DEF Blanks
  <1>2. ASSUME NEW p \in i .. After(i) - 1, Unit(i) \in Blanks
        PROVE  Unit(p) \in Blanks
    <2>1. CASE p = i
      BY <1>2, <2>1
    <2>2. CASE p # i
      <3>1. IsCrLf(i) /\ p = i + 1
        BY <2>2 DEF After
      <3> QED
        BY <3>1 DEF IsCrLf, Blanks
    <2> QED
      BY <2>1, <2>2
  <1>3. Unit(i) \notin Blanks => After(i) = i + 1
    BY <1>1 DEF After, IsCrLf
  <1> QED
    BY <1>2, <1>3

(* Appending an item that stands for what comes next keeps the citations. *)
LEMMA Appended ==
    ASSUME TextInv, phase = "reading", index < Len(source),
           NEW u \in Units, text' = Append(text, [unit |-> u, from |-> index, to |-> After(index)]),
           UNCHANGED source,
           IF u = "space" THEN Unit(index) \in Blanks ELSE u = Unit(index) /\ u \notin Blanks
    PROVE  /\ text' \in Seq(Item) /\ text' # << >> /\ text'[Len(text')].to = After(index)
           /\ CitationsAreExact'
  <1> USE DEF TextInv, TypeOK
  <1> DEFINE new == [unit |-> u, from |-> index, to |-> After(index)]
  <1>1. index \in Nat /\ After(index) \in Nat /\ index < After(index) /\ After(index) <= Len(source)
    BY AfterAdvances
  <1>2. new \in Item
    BY <1>1 DEF Item
  <1>3. /\ text \in Seq(Item) /\ text' \in Seq(Item) /\ Len(text') = Len(text) + 1
        /\ text'[Len(text')] = new
        /\ \A i \in 1 .. Len(text) : text'[i] = text[i]
    BY <1>2 DEF Item
  <1>4. ASSUME NEW i \in 1 .. Len(text')
        PROVE  /\ text'[i].from < text'[i].to /\ text'[i].to <= Len(source)
               /\ i < Len(text') => text'[i].to = text'[i + 1].from
               /\ IF text'[i].unit = "space"
                  THEN \A p \in text'[i].from .. text'[i].to - 1 : Unit(p) \in Blanks
                  ELSE text'[i].to = text'[i].from + 1 /\ Unit(text'[i].from) = text'[i].unit
    <2>1. CASE i = Len(text')
      <3>1. CASE u = "space"
        <4>1. \A p \in index .. After(index) - 1 : Unit(p) \in Blanks
          BY <1>1, <3>1, AfterPasses
        <4> QED
          BY <1>1, <1>3, <2>1, <3>1, <4>1
      <3>2. CASE u # "space"
        <4>1. After(index) = index + 1
          BY <1>1, <3>2, AfterPasses
        <4> QED
          BY <1>1, <1>3, <2>1, <3>2, <4>1
      <3> QED
        BY <3>1, <3>2
    <2>2. CASE i # Len(text')
      <3>1. i \in 1 .. Len(text) /\ text'[i] = text[i]
        BY <1>3, <2>2
      <3>2. text'[i].to = text'[i + 1].from
        <4>1. CASE i < Len(text)
          BY <1>3, <3>1, <4>1 DEF CitationsAreExact
        <4>2. CASE i = Len(text)
          <5>1. text[i].to = index
            BY <3>1, <4>2 DEF ReadSoFar
          <5> QED
            BY <1>3, <3>1, <4>2, <5>1
        <4>3. i < Len(text) \/ i = Len(text)
          BY <3>1
        <4> QED
          BY <4>1, <4>2, <4>3
      <3> QED
        BY <3>1, <3>2 DEF CitationsAreExact
    <2> QED
      BY <2>1, <2>2
  <1>5. CitationsAreExact'
    BY <1>4 DEF CitationsAreExact, Unit
  <1>6. Len(text) \in Nat /\ text' # << >>
    BY <1>3
  <1>7. text'[Len(text')].to = After(index)
    BY <1>3
  <1> QED
    BY <1>3, <1>5, <1>6, <1>7

(* Widening the last space over one more blank keeps them too. *)
LEMMA WidenedKeeps ==
    ASSUME TextInv, phase = "reading", index < Len(source), EndsInSpace,
           Unit(index) \in Blanks, text' = Widened(After(index)), UNCHANGED source
    PROVE  /\ text' \in Seq(Item) /\ text' # << >> /\ text'[Len(text')].to = After(index)
           /\ CitationsAreExact'
  <1> USE DEF TextInv, TypeOK
  <1>1. index \in Nat /\ After(index) \in Nat /\ index < After(index) /\ After(index) <= Len(source)
    BY AfterAdvances
  <1>2. text \in Seq(Item) /\ Len(text) \in 1 .. Len(text) /\ text[Len(text)].unit = "space"
    BY DEF EndsInSpace, Item
  <1>3. /\ text' \in Seq(Item) /\ Len(text') = Len(text)
        /\ text'[Len(text)] = [text[Len(text)] EXCEPT !.to = After(index)]
        /\ \A i \in 1 .. Len(text) : i # Len(text) => text'[i] = text[i]
    <2> DEFINE wide == [text[Len(text)] EXCEPT !.to = After(index)]
    <2>1. text[Len(text)] \in Item
      BY <1>2
    <2>2. wide \in Item
      BY <1>1, <2>1 DEF Item
    <2>3. text' = [text EXCEPT ![Len(text)] = wide]
      BY DEF Widened
    <2> HIDE DEF wide
    <2>4. text' \in Seq(Item) /\ Len(text') = Len(text) /\ text'[Len(text)] = wide
      BY <1>2, <2>2, <2>3
    <2>5. \A i \in 1 .. Len(text) : i # Len(text) => text'[i] = text[i]
      BY <1>2, <2>3
    <2> QED
      BY <2>4, <2>5 DEF wide
  <1>4. text[Len(text)].to = index /\ text[Len(text)] \in Item
    BY <1>2 DEF ReadSoFar, EndsInSpace
  <1>5. /\ text'[Len(text)].unit = "space" /\ text'[Len(text)].to = After(index)
        /\ text'[Len(text)].from = text[Len(text)].from
    BY <1>2, <1>3, <1>4 DEF Item
  <1>6. ASSUME NEW i \in 1 .. Len(text')
        PROVE  /\ text'[i].from < text'[i].to /\ text'[i].to <= Len(source)
               /\ i < Len(text') => text'[i].to = text'[i + 1].from
               /\ IF text'[i].unit = "space"
                  THEN \A p \in text'[i].from .. text'[i].to - 1 : Unit(p) \in Blanks
                  ELSE text'[i].to = text'[i].from + 1 /\ Unit(text'[i].from) = text'[i].unit
    <2>1. CASE i = Len(text)
      <3>1. /\ text[i].from < index /\ text[i].from \in Nat
            /\ \A p \in text[i].from .. index - 1 : Unit(p) \in Blanks
        BY <1>2, <1>4, <2>1 DEF CitationsAreExact, Item
      <3>2. \A p \in index .. After(index) - 1 : Unit(p) \in Blanks
        BY <1>1, AfterPasses
      <3>3. \A p \in text[i].from .. After(index) - 1 : Unit(p) \in Blanks
        <4> SUFFICES ASSUME NEW p \in text[i].from .. After(index) - 1 PROVE Unit(p) \in Blanks
          OBVIOUS
        <4>1. p \in text[i].from .. index - 1 \/ p \in index .. After(index) - 1
          BY <1>1, <3>1
        <4> QED
          BY <3>1, <3>2, <4>1
      <3>4. i = Len(text') /\ text'[i].unit = "space" /\ text'[i].to = After(index)
            /\ text'[i].from = text[i].from
        BY <1>3, <1>5, <2>1
      <3> QED
        BY <1>1, <1>2, <1>3, <2>1, <3>1, <3>3, <3>4
    <2>2. CASE i # Len(text)
      <3>1. i \in 1 .. Len(text) /\ i + 1 \in 1 .. Len(text) /\ text'[i] = text[i]
        <4>1. Len(text) \in Nat /\ i \in 1 .. Len(text)
          BY <1>2, <1>3
        <4> QED
          BY <1>3, <2>2, <4>1
      <3>2. text'[i + 1].from = text[i + 1].from
        BY <1>3, <1>5, <3>1
      <3> QED
        <4>1. /\ text[i].from < text[i].to /\ text[i].to <= Len(source)
              /\ i < Len(text) => text[i].to = text[i + 1].from
              /\ IF text[i].unit = "space"
                 THEN \A p \in text[i].from .. text[i].to - 1 : Unit(p) \in Blanks
                 ELSE text[i].to = text[i].from + 1 /\ Unit(text[i].from) = text[i].unit
          BY <3>1 DEF CitationsAreExact
        <4> QED
          BY <1>3, <3>1, <3>2, <4>1
    <2> QED
      BY <2>1, <2>2
  <1>7. CitationsAreExact'
    BY <1>6 DEF CitationsAreExact, Unit
  <1> QED
    BY <1>2, <1>3, <1>5, <1>7

(* What a step must leave behind for TextInv, when it does not touch start. *)
LEMMA TextInvStep ==
    ASSUME TextInv, Read
    PROVE  TextInv'
  <1> USE DEF TextInv, TypeOK
  <1>1. /\ phase = "reading" /\ index < Len(source) /\ index' = After(index)
        /\ UNCHANGED <<source, phase, start, chunks>>
    BY DEF Read
  <1>2. After(index) \in Nat /\ index < After(index) /\ After(index) <= Len(source)
    BY <1>1, AfterAdvances
  <1>3. Unit(index) \in Units
    BY <1>1 DEF Unit
  <1>4. text' \in Seq(Item) /\ (text' # << >> => text'[Len(text')].to = After(index))
        /\ CitationsAreExact'
    <2>1. CASE /\ Unit(index) \notin Blanks
               /\ text' = Append(text, [unit |-> Unit(index), from |-> index, to |-> After(index)])
      <3>1. Unit(index) # "space"
        BY <2>1 DEF Blanks
      <3> QED
        BY <1>1, <1>3, <2>1, <3>1, Appended
    <2>2. CASE Unit(index) \in Blanks /\ text = << >> /\ UNCHANGED text
      BY <1>1, <2>2 DEF Item, CitationsAreExact, Unit
    <2>3. CASE Unit(index) \in Blanks /\ EndsInSpace /\ text' = Widened(After(index))
      BY <1>1, <2>3, WidenedKeeps
    <2>4. CASE /\ Unit(index) \in Blanks /\ text # << >> /\ ~EndsInSpace
               /\ text' = Append(text, [unit |-> "space", from |-> index, to |-> After(index)])
      <3>1. "space" \in Units
        BY DEF Units, Blanks
      <3> QED
        BY <1>1, <2>4, <3>1, Appended
    <2> QED
      BY <2>1, <2>2, <2>3, <2>4 DEF Read
  <1>5. start = 0 /\ chunks = << >>
    BY <1>1 DEF ReadSoFar
  <1>6. TypeOK'
    BY <1>1, <1>2, <1>4, <1>5 DEF Item
  <1> QED
    BY <1>1, <1>4, <1>5, <1>6 DEF ReadSoFar

LEMMA NormalizeKeeps ==
    ASSUME TextInv, Normalize
    PROVE  TextInv'
  <1> USE DEF TextInv, TypeOK
  <1>1. /\ phase = "reading" /\ index = Len(source) /\ phase' = "cutting"
        /\ start = 0 /\ chunks = << >> /\ UNCHANGED <<source, index, start, chunks>>
    BY DEF Normalize, ReadSoFar
  <1>2. text \in Seq(Item)
    BY DEF Item
  <1>3. /\ text' \in Seq(Item) /\ Len(text') <= Len(text)
        /\ \A i \in 1 .. Len(text') : text'[i] = text[i]
    BY <1>2 DEF Normalize, EndsInSpace
  <1>4. CitationsAreExact'
    <2>0. Len(text) \in Nat /\ Len(text') \in Nat
      BY <1>2, <1>3
    <2>1. ASSUME NEW i \in 1 .. Len(text')
          PROVE  /\ i \in 1 .. Len(text) /\ text'[i] = text[i]
                 /\ i < Len(text') => i < Len(text) /\ text'[i + 1] = text[i + 1]
      <3> HIDE DEF TextInv, TypeOK
      <3>1. i \in 1 .. Len(text) /\ (i < Len(text') => i < Len(text) /\ i + 1 \in 1 .. Len(text'))
        BY <1>3, <2>0
      <3>2. \A j \in 1 .. Len(text') : text'[j] = text[j]
        BY <1>3
      <3> QED
        BY <3>1, <3>2, Zenon
    <2> SUFFICES ASSUME NEW i \in 1 .. Len(text')
                 PROVE  /\ text[i].from < text[i].to /\ text[i].to <= Len(source)
                        /\ i < Len(text') => text[i].to = text[i + 1].from
                        /\ IF text[i].unit = "space"
                           THEN \A p \in text[i].from .. text[i].to - 1 : Unit(p) \in Blanks
                           ELSE text[i].to = text[i].from + 1 /\ Unit(text[i].from) = text[i].unit
      BY <1>1, <2>1 DEF CitationsAreExact, Unit
    <2> QED
      BY <2>1 DEF CitationsAreExact
  <1> QED
    BY <1>1, <1>3, <1>4 DEF ReadSoFar, Item

-----------------------------------------------------------------------------
(* The loop of chunkKnowledgeText. *)

(* Where the next chunk begins: at the beginning, after a space within the
   overlap, where the last chunk ended, or at the end of the text. *)
Continues ==
    /\ phase = "done" => start = Size
    /\ chunks = << >> => start = 0
    /\ chunks # << >> =>
           LET last == chunks[Len(chunks)] IN
           \/ start = Size /\ last.to = Size
           \/ /\ last.from < start /\ last.to < Size
              /\ \/ start = last.to
                 \/ start - 1 \in WordStarts(last.from, last.to)

ChunkInv == Continues /\ ChunksCover /\ PairsAreWhole /\ WordsAreWhole

ChunksInv == TextInv /\ ChunkInv

LEMMA HalfIsNat ==
    Maximum \div 2 \in Nat /\ Maximum \div 2 < Maximum /\ Maximum \in Nat /\ Maximum >= 2
  BY ChunkAssumption

(* A chunk ends after its beginning, and beyond the chunk it overlaps. *)
LEMMA EndAdvances ==
    ASSUME TypeOK, start < Size, NEW end \in 0 .. Size, EndsAt(start, end)
    PROVE  /\ start < end /\ end - start <= Maximum
           /\ end = Size \/ end > start + Maximum \div 2 \/ end >= start + Maximum - 1
  <1> USE DEF TypeOK
  <1>1. start \in Nat /\ Size \in Nat
    BY DEF Size
  <1>2. Furthest(start) \in Nat /\ Furthest(start) <= start + Maximum /\ start < Furthest(start)
        /\ (Furthest(start) < Size => Furthest(start) = start + Maximum)
    BY <1>1, HalfIsNat DEF Furthest
  <1>3. CASE Furthest(start) = Size /\ end = Size
    BY <1>1, <1>2, <1>3, HalfIsNat
  <1>4. CASE Furthest(start) < Size /\ end \in WordEnds(start)
    <2>1. (start + Maximum) - start = Maximum
      BY <1>1, HalfIsNat
    <2>2. Furthest(start) = start + Maximum /\ Furthest(start) - start = Maximum
      BY <1>2, <1>4, <2>1
    <2>3. end <= start + Maximum /\ end > start + Maximum \div 2
      BY <1>4, <2>2 DEF WordEnds
    <2> QED
      BY <1>1, <2>3, HalfIsNat
  <1>5. CASE Furthest(start) < Size /\ CutAt(start, end)
    <2>1. Furthest(start) = start + Maximum
      BY <1>2, <1>5
    <2>2. end = Furthest(start) \/ end = Furthest(start) - 1
      BY <1>5, Zenon DEF CutAt
    <2> QED
      BY <1>1, <2>1, <2>2, HalfIsNat
  <1> QED
    BY <1>3, <1>4, <1>5 DEF EndsAt

(* The next chunk begins inside this one, beyond its beginning. *)
LEMMA StartAdvances ==
    ASSUME TypeOK, start < Size, NEW end \in 0 .. Size, NEW next \in 0 .. Size,
           start < end, ContinuesAt(start, end, next)
    PROVE  /\ start < next /\ next <= end
           /\ \/ next = Size /\ end = Size
              \/ /\ end < Size
                 /\ next = end \/ next - 1 \in WordStarts(start, end)
  <1> USE DEF TypeOK
  <1>1. start \in Nat /\ Size \in Nat
    BY DEF Size
  <1>2. CASE end = Size /\ next = Size
    BY <1>1, <1>2
  <1>3. CASE end < Size /\ next - 1 \in WordStarts(start, end)
    <2>1. next - 1 > start /\ next - 1 < end
      BY <1>3 DEF WordStarts
    <2> QED
      BY <1>1, <1>3, <2>1
  <1>4. CASE end < Size /\ next = end
    BY <1>1, <1>4
  <1> QED
    BY <1>2, <1>3, <1>4 DEF ContinuesAt

(* A chunk that ends inside a word has no space in its second half. *)
LEMMA CutsLongWords ==
    ASSUME TypeOK, start < Size, NEW end \in 0 .. Size, EndsAt(start, end),
           end < Size, Kind(end) # "space"
    PROVE  \A p \in Spaces : p < end => p <= start + Maximum \div 2
  <1> USE DEF TypeOK
  <1>1. start \in Nat /\ Size \in Nat
    BY DEF Size
  <1>2. end \notin WordEnds(start)
    BY DEF WordEnds, Spaces
  <1>3. Furthest(start) < Size /\ WordEnds(start) = {} /\ CutAt(start, end)
    BY <1>2 DEF EndsAt
  <1>4. Furthest(start) = start + Maximum /\ Furthest(start) - start = Maximum
    BY <1>1, <1>3, HalfIsNat DEF Furthest
  <1>5. end <= Furthest(start)
    <2>1. end = Furthest(start) \/ end = Furthest(start) - 1
      BY <1>3, Zenon DEF CutAt
    <2> QED
      BY <1>1, <1>4, <2>1, HalfIsNat
  <1>6. ASSUME NEW p \in Spaces, p < end
        PROVE  p <= start + Maximum \div 2
    <2>1. p \in Nat /\ p <= Furthest(start)
      BY <1>1, <1>4, <1>5, <1>6, HalfIsNat DEF Spaces
    <2>2. p \notin WordEnds(start)
      BY <1>3
    <2>3. ~(p > start + (Furthest(start) - start) \div 2)
      BY <1>6, <2>1, <2>2 DEF WordEnds
    <2> QED
      BY <1>1, <1>4, <2>1, <2>3, HalfIsNat
  <1> QED
    BY <1>6

(* No chunk ends inside a surrogate pair. *)
LEMMA PairsAreKept ==
    ASSUME TypeOK, start < Size, NEW end \in 0 .. Size, EndsAt(start, end), 0 < end, end < Size
    PROVE  ~SplitsPair(end)
  <1> USE DEF TypeOK
  <1>1. start \in Nat /\ Size \in Nat
    BY DEF Size
  <1>2. CASE end \in WordEnds(start)
    BY <1>2 DEF WordEnds, Spaces, SplitsPair
  <1>3. CASE Furthest(start) < Size /\ CutAt(start, end)
    <2>1. CASE SplitsPair(Furthest(start))
      <3>1. end = Furthest(start) - 1 /\ Kind(Furthest(start) - 1) = "high"
        BY <1>3, <2>1, Zenon DEF CutAt, SplitsPair
      <3>2. Kind(end) = "high"
        BY <3>1
      <3> QED
        BY <3>2 DEF SplitsPair
    <2>2. CASE ~SplitsPair(Furthest(start))
      BY <1>3, <2>2, Zenon DEF CutAt
    <2> QED
      BY <2>1, <2>2
  <1> QED
    BY <1>2, <1>3 DEF EndsAt

(* One more chunk keeps all that is said of the chunks. *)
LEMMA CutKeeps ==
    ASSUME ChunksInv, Cut
    PROVE  ChunksInv'
  <1> USE DEF ChunksInv, TextInv, TypeOK
  <1>1. /\ phase = "cutting" /\ start < Size /\ UNCHANGED <<source, index, text, phase>>
    BY DEF Cut
  <1>2. PICK end \in 0 .. Size, next \in 0 .. Size :
            /\ EndsAt(start, end) /\ ContinuesAt(start, end, next)
            /\ chunks' = Append(chunks, [from |-> start, to |-> end]) /\ start' = next
    BY DEF Cut
  <1>3. start \in Nat /\ Size \in Nat /\ Size' = Size
    BY <1>1 DEF Size
  <1>4. /\ start < end /\ end - start <= Maximum
        /\ end = Size \/ end > start + Maximum \div 2 \/ end >= start + Maximum - 1
    BY <1>1, <1>2, EndAdvances
  <1>5. /\ start < next /\ next <= end
        /\ \/ next = Size /\ end = Size
           \/ end < Size /\ (next = end \/ next - 1 \in WordStarts(start, end))
    BY <1>1, <1>2, <1>4, StartAdvances
  <1> DEFINE new == [from |-> start, to |-> end]
  <1>6. new \in Chunk /\ new.from = start /\ new.to = end /\ chunks' = Append(chunks, new)
    BY <1>2, <1>3 DEF Chunk
  <1> HIDE DEF new
  <1>7. /\ chunks \in Seq(Chunk) /\ chunks' \in Seq(Chunk) /\ chunks' # << >>
        /\ Len(chunks') = Len(chunks) + 1 /\ Len(chunks) \in Nat
        /\ chunks'[Len(chunks')] = new
        /\ \A i \in 1 .. Len(chunks) : chunks'[i] = chunks[i]
    <2>1. chunks \in Seq(Chunk)
      BY DEF Chunk
    <2>2. chunks' \in Seq(Chunk) /\ Len(chunks') = Len(chunks) + 1 /\ Len(chunks) \in Nat
      BY <1>6, <2>1
    <2>3. chunks'[Len(chunks')] = new
      BY <1>6, <2>1, <2>2
    <2>4. \A i \in 1 .. Len(chunks) : chunks'[i] = chunks[i]
      BY <1>6, <2>1
    <2>5. chunks' # << >>
      BY <2>2
    <2> QED
      BY <2>1, <2>2, <2>3, <2>4, <2>5
  <1>8. TextInv'
    <2>1. TypeOK'
      BY <1>1, <1>2, <1>3, <1>7 DEF Chunk, Size
    <2>2. ReadSoFar' /\ CitationsAreExact'
      BY <1>1 DEF ReadSoFar, CitationsAreExact, Unit
    <2> QED
      BY <2>1, <2>2
  <1>9. \A a, b : Kind(a)' = Kind(a) /\ SplitsPair(a)' = SplitsPair(a)
                /\ WordStarts(a, b)' = WordStarts(a, b) /\ Spaces' = Spaces
    BY <1>1 DEF Kind, SplitsPair, WordStarts, Spaces, Size
  <1>10. Continues'
    BY <1>1, <1>2, <1>3, <1>4, <1>5, <1>6, <1>7, <1>9 DEF Continues
  <1>11. ASSUME chunks # << >>
         PROVE  LET last == chunks[Len(chunks)] IN
                last.from < start /\ start <= last.to /\ last.to < end
    <2> DEFINE last == chunks[Len(chunks)]
    <2>1. last \in Chunk /\ last.from \in Nat /\ last.to \in Nat
      <3>1. Len(chunks) \in 1 .. Len(chunks)
        BY <1>7, <1>11
      <3>2. last \in Chunk
        BY <1>7, <3>1
      <3> QED
        BY <3>2 DEF Chunk
    <2>2. last.from < start /\ last.to < Size
          /\ (start = last.to \/ start - 1 \in WordStarts(last.from, last.to))
      BY <1>1, <1>3, <1>11 DEF ChunkInv, Continues
    <2>3. start <= last.to
      <3>1. CASE start = last.to
        BY <1>3, <2>1, <3>1
      <3>2. CASE start - 1 \in WordStarts(last.from, last.to)
        <4>1. start - 1 < last.to
          BY <3>2 DEF WordStarts
        <4> QED
          BY <1>3, <2>1, <4>1
      <3> QED
        BY <2>2, <3>1, <3>2
    <2>4. last.to < end
      <3>1. CASE start = last.to
        BY <1>3, <1>4, <2>1, <3>1
      <3>2. CASE start - 1 \in WordStarts(last.from, last.to)
        <4>1. last.to <= start - 1 + Overlap
          BY <1>3, <2>1, <3>2, ChunkAssumption DEF WordStarts
        <4>2. Overlap \in Nat /\ Overlap <= Maximum \div 2
          BY ChunkAssumption
        <4>3. Overlap < Maximum /\ Maximum \in Nat
          BY <4>2, HalfIsNat
        <4>4. CASE end = Size
          BY <2>2, <4>4
        <4>5. CASE end > start + Maximum \div 2
          <5>1. Maximum \div 2 \in Nat
            BY HalfIsNat
          <5> DEFINE half == Maximum \div 2
          <5>2. half \in Nat /\ Overlap <= half /\ end > start + half
            BY <4>2, <4>5, <5>1
          <5> HIDE DEF half
          <5>3. start \in Nat /\ end \in Nat /\ last.to \in Nat /\ Overlap \in Nat
            BY <1>3, <2>1, <4>2
          <5> HIDE DEF last
          <5> QED
            BY <4>1, <5>2, <5>3
        <4>6. CASE end >= start + Maximum - 1
          BY <1>3, <2>1, <4>1, <4>2, <4>3, <4>6
        <4> QED
          BY <1>4, <4>4, <4>5, <4>6
      <3> QED
        BY <2>2, <3>1, <3>2
    <2> QED
      BY <2>2, <2>3, <2>4
  <1>12. ChunksCover'
    <2>1. chunks'[1].from = 0
      <3>1. CASE chunks = << >>
        BY <1>6, <1>7, <3>1 DEF ChunkInv, Continues
      <3>2. CASE chunks # << >>
        <4>1. 1 \in 1 .. Len(chunks)
          BY <1>7, <3>2
        <4> QED
          BY <1>7, <3>2, <4>1 DEF ChunkInv, ChunksCover
      <3> QED
        BY <3>1, <3>2
    <2>2. ASSUME NEW i \in 1 .. Len(chunks')
          PROVE  /\ chunks'[i].from < chunks'[i].to /\ chunks'[i].to <= Size
                 /\ chunks'[i].to - chunks'[i].from <= Maximum
                 /\ i < Len(chunks') => /\ chunks'[i].from < chunks'[i + 1].from
                                        /\ chunks'[i + 1].from <= chunks'[i].to
                                        /\ chunks'[i].to < chunks'[i + 1].to
      <3>1. CASE i = Len(chunks')
        BY <1>2, <1>3, <1>4, <1>6, <1>7, <3>1
      <3>2. CASE i = Len(chunks)
        <4>1. chunks # << >> /\ chunks'[i] = chunks[i] /\ chunks'[i + 1] = new
          BY <1>7, <3>2
        <4>2. /\ chunks[i].from < chunks[i].to /\ chunks[i].to <= Size
              /\ chunks[i].to - chunks[i].from <= Maximum
          BY <3>2, <4>1, <1>7 DEF ChunkInv, ChunksCover
        <4> QED
          BY <1>6, <1>7, <1>11, <3>2, <4>1, <4>2
      <3>3. CASE i < Len(chunks)
        <4>1. i \in 1 .. Len(chunks) /\ i + 1 \in 1 .. Len(chunks)
          <5>1. Len(chunks) \in Nat /\ i \in Nat /\ i >= 1
            BY <1>7
          <5> QED
            BY <3>3, <5>1
        <4>2. chunks'[i] = chunks[i] /\ chunks'[i + 1] = chunks[i + 1]
          BY <1>7, <4>1
        <4> QED
          BY <3>3, <4>1, <4>2 DEF ChunkInv, ChunksCover
      <3> QED
        BY <1>7, <3>1, <3>2, <3>3
    <2> QED
      BY <1>1, <1>3, <1>7, <2>1, <2>2 DEF ChunksCover
  <1>13. PairsAreWhole'
    <2>1. 0 < start => ~SplitsPair(start)
      <3>1. CASE chunks = << >>
        BY <3>1 DEF ChunkInv, Continues
      <3>2. CASE chunks # << >>
        <4> DEFINE last == chunks[Len(chunks)]
        <4>1. /\ last.from < start /\ last.to < Size
              /\ start = last.to \/ start - 1 \in WordStarts(last.from, last.to)
          BY <1>1, <1>3, <3>2 DEF ChunkInv, Continues
        <4>2. CASE start = last.to
          <5>1. Len(chunks) \in 1 .. Len(chunks)
            BY <1>7, <3>2
          <5>2. last.to > 0 /\ last.to < Size => ~SplitsPair(last.to)
            BY <5>1 DEF ChunkInv, PairsAreWhole
          <5> QED
            BY <4>1, <4>2, <5>2
        <4>3. CASE start - 1 \in WordStarts(last.from, last.to)
          BY <4>3 DEF WordStarts, Spaces, SplitsPair
        <4> QED
          BY <4>1, <4>2, <4>3
      <3> QED
        BY <3>1, <3>2
    <2>2. 0 < end /\ end < Size => ~SplitsPair(end)
      BY <1>1, <1>2, PairsAreKept
    <2>3. ASSUME NEW i \in 1 .. Len(chunks'), NEW p \in {chunks'[i].from, chunks'[i].to},
                 p > 0, p < Size
          PROVE  ~SplitsPair(p)
      <3>1. CASE i = Len(chunks')
        BY <1>3, <1>6, <1>7, <2>1, <2>2, <2>3, <3>1
      <3>2. CASE i # Len(chunks')
        <4>1. i \in 1 .. Len(chunks)
          BY <1>7, <3>2
        <4>2. chunks'[i] = chunks[i]
          BY <1>7, <4>1
        <4> QED
          BY <2>3, <4>1, <4>2 DEF ChunkInv, PairsAreWhole
      <3> QED
        BY <3>1, <3>2
    <2> QED
      BY <1>3, <1>9, <2>3 DEF PairsAreWhole
  <1>14. WordsAreWhole'
    <2>1. ASSUME NEW i \in 1 .. Len(chunks'), chunks'[i].to < Size, Kind(chunks'[i].to) # "space",
                 NEW p \in Spaces, p < chunks'[i].to
          PROVE  p <= chunks'[i].from + Maximum \div 2
      <3>1. CASE i = Len(chunks')
        BY <1>1, <1>2, <1>6, <1>7, <2>1, <3>1, CutsLongWords
      <3>2. CASE i # Len(chunks')
        <4>1. i \in 1 .. Len(chunks)
          BY <1>7, <3>2
        <4>2. chunks'[i] = chunks[i]
          BY <1>7, <4>1
        <4> QED
          BY <2>1, <4>1, <4>2 DEF ChunkInv, WordsAreWhole
      <3> QED
        BY <3>1, <3>2
    <2> QED
      BY <1>3, <1>9, <2>1 DEF WordsAreWhole
  <1> QED
    BY <1>8, <1>10, <1>12, <1>13, <1>14 DEF ChunkInv

-----------------------------------------------------------------------------
(* The invariant holds throughout. *)
LEMMA Inductive == Spec => []ChunksInv
  <1>1. Init => ChunksInv
    <2> SUFFICES ASSUME Init PROVE ChunksInv
      OBVIOUS
    <2>1. source \in Seq(Units)
      BY ChunkAssumption DEF Init
    <2> QED
      BY <2>1 DEF Init, ChunksInv, TextInv, ChunkInv, TypeOK, ReadSoFar, CitationsAreExact,
                  Continues, ChunksCover, PairsAreWhole, WordsAreWhole, Size
  <1>2. ChunksInv /\ [Next]_vars => ChunksInv'
    <2> SUFFICES ASSUME ChunksInv, [Next]_vars PROVE ChunksInv'
      OBVIOUS
    <2>1. ASSUME phase = "reading", start = 0, chunks = << >>, start' = start, chunks' = chunks,
                 phase' # "done", TextInv'
          PROVE  ChunksInv'
      BY <2>1 DEF ChunksInv, ChunkInv, Continues, ChunksCover, PairsAreWhole, WordsAreWhole
    <2>2. CASE Read
      <3>1. phase = "reading" /\ phase' = phase /\ start = 0 /\ chunks = << >>
            /\ start' = start /\ chunks' = chunks
        BY <2>2 DEF Read, ChunksInv, TextInv, ReadSoFar
      <3>2. TextInv'
        BY <2>2, TextInvStep DEF ChunksInv
      <3> QED
        BY <2>1, <3>1, <3>2
    <2>3. CASE Normalize
      <3>1. phase = "reading" /\ phase' = "cutting" /\ start = 0 /\ chunks = << >>
            /\ start' = start /\ chunks' = chunks
        BY <2>3 DEF Normalize, ChunksInv, TextInv, ReadSoFar
      <3>2. TextInv'
        BY <2>3, NormalizeKeeps DEF ChunksInv
      <3> QED
        BY <2>1, <3>1, <3>2
    <2>4. CASE Cut
      BY <2>4, CutKeeps
    <2>5. CASE Finish
      <3>1. /\ phase = "cutting" /\ start = Size /\ phase' = "done"
            /\ UNCHANGED <<source, index, text, start, chunks>>
        BY <2>5 DEF Finish
      <3>2. TextInv'
        BY <3>1 DEF ChunksInv, TextInv, TypeOK, ReadSoFar, CitationsAreExact, Unit
      <3>3. text # << >> => chunks # << >> /\ chunks[Len(chunks)].to = Size
        <4> SUFFICES ASSUME text # << >>
                     PROVE  chunks # << >> /\ chunks[Len(chunks)].to = Size
          OBVIOUS
        <4>1. start # 0
          BY <3>1 DEF Size, ChunksInv, TextInv, TypeOK
        <4>2. chunks # << >>
          BY <4>1 DEF ChunksInv, ChunkInv, Continues
        <4> DEFINE last == chunks[Len(chunks)]
        <4>3. last.to \in Nat /\ Size \in Nat
          <5>1. chunks \in Seq(Chunk) /\ Len(chunks) \in 1 .. Len(chunks)
            BY <4>2 DEF ChunksInv, TextInv, TypeOK, Chunk
          <5>2. last \in Chunk
            BY <5>1
          <5> QED
            BY <5>2 DEF Chunk, Size, ChunksInv, TextInv, TypeOK
        <4>4. CASE start - 1 \in WordStarts(last.from, last.to)
          <5>1. start - 1 < last.to
            BY <4>4 DEF WordStarts
          <5>2. ~(last.to < Size)
            BY <3>1, <4>3, <5>1
          <5> QED
            BY <4>2, <5>2 DEF ChunksInv, ChunkInv, Continues
        <4>5. CASE start = last.to
          BY <3>1, <4>2, <4>5
        <4> QED
          BY <4>2, <4>4, <4>5 DEF ChunksInv, ChunkInv, Continues
      <3> QED
        BY <3>1, <3>2, <3>3 DEF ChunksInv, ChunkInv, Continues, ChunksCover, PairsAreWhole,
                 WordsAreWhole, Size, Kind, SplitsPair, Spaces, WordStarts
    <2>6. CASE UNCHANGED vars
      BY <2>6 DEF vars, ChunksInv, TextInv, TypeOK, ReadSoFar, CitationsAreExact, Unit, ChunkInv,
               Continues, ChunksCover, PairsAreWhole, WordsAreWhole, Size, Kind, SplitsPair,
               Spaces, WordStarts
    <2> QED
      BY <2>2, <2>3, <2>4, <2>5, <2>6 DEF Next
  <1> QED
    BY <1>1, <1>2, PTL DEF Spec

(* Whatever text a stage extracts, its chunks leave out nothing, cut neither
   a surrogate pair nor a word that could be kept, and cite exactly what was
   read. *)
THEOREM ChunksAreWhole == Spec => []ChunksHold
  <1>1. ChunksInv => ChunksHold
    BY DEF ChunksInv, TextInv, ChunkInv, ChunksHold
  <1> QED
    BY <1>1, Inductive, PTL

(* What is proved of the chunks by themselves holds of them in Documents. *)
THEOREM ChunksTakePart == DocumentsSpec => Spec
<1>1. DocumentsInit => Init
  BY DEF DocumentsInit
<1>2. [DocumentsNext]_documentsVars => [Next]_vars
  BY DEF DocumentsNext, documentsVars, vars
<1> QED
  BY <1>1, <1>2, PTL DEF DocumentsSpec, Spec
=============================================================================
