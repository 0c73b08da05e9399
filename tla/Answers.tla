------------------------------- MODULE Answers -------------------------------
(***************************************************************************)
(* A search in the documents of a case, and an answer of the assistant,    *)
(* which begins with a search and may say only what it can cite.  The      *)
(* words and the vectors are searched by two queries at once, each of      *)
(* which sees the archive of its own moment; the result is ranked and      *)
(* recorded; then the model is asked, what it says is checked against what *)
(* was retrieved, recorded, charged to the case and sent.                  *)
(*                                                                         *)
(* Questions share only what they read, so the module follows one of them  *)
(* while documents are read again, indexed and deleted, and the case is    *)
(* closed to people or deleted.  A text has one chunk: <<document, text>>. *)
(* Which chunks a query matches, and in which order, is left open.  The    *)
(* budget of the case is AssistantBudget's.                                *)
(***************************************************************************)
EXTENDS Naturals, Sequences, FiniteSets

CONSTANTS
    Documents,          \* numbers, so that the ids of chunks have an order
    MaxTexts,           \* bound: texts read from a document
    MaxChanges,         \* bound: what happens to the archive meanwhile
    Limit,              \* the results a request asks for
    MaxClaims, MaxCitations,    \* of an answer, and of one claim in it
    Invented            \* an id the model cites and the search did not return

Chunks == Documents \X (1 .. MaxTexts)

AnswersAssumption ==
    /\ Documents \subseteq Nat /\ IsFiniteSet(Documents) /\ Invented \notin Chunks
    /\ {MaxTexts, MaxChanges, Limit, MaxClaims, MaxCitations} \subseteq Nat /\ MaxTexts > 0

VARIABLES
    archive,    \* of each document: its texts so far, whether it was deleted
    chunks,     \* of the texts that were indexed
    case,       \* confidentiality level, whether it was deleted
    ask,        \* the request, and what it holds
    trail,      \* what the request left in the audit log
    charged,    \* whether the case was charged
    stale,      \* chunks replaced or deleted before the request began
    levels,     \* the levels the case had while the request was reading
    changes     \* of the archive so far

vars == <<archive, chunks, case, ask, trail, charged, stale, levels, changes>>
archiveVars == <<archive, chunks, case, stale, levels, changes>>

(* RESTRICTED is treated as CONFIDENTIAL is. *)
Levels == {"STANDARD", "CONFIDENTIAL"}
Modes == {"HYBRID", "LEXICAL", "SEMANTIC"}
Lists(S, n) == UNION {[1 .. k -> S] : k \in 0 .. n}

(* What one query returned, and the level it saw. *)
IsRows(rows) ==
    /\ rows.read \in {"due", "widened", "read"} /\ rows.level \in Levels
    /\ \A i \in 1 .. Len(rows.found) : rows.found[i] \in Chunks

(* What each variable holds. *)
TypeOK ==
    /\ archive \in [Documents -> [texts : 1 .. MaxTexts, deleted : BOOLEAN]]
    /\ chunks \subseteq Chunks
    /\ case \in [level : Levels, deleted : BOOLEAN]
    /\ ask.step \in {"idle", "searching", "searched", "disclosed", "opened", "said", "recorded",
                     "charged", "sent", "ended"}
    /\ IsRows(ask.lexical) /\ IsRows(ask.semantic)
    /\ ask.results \subseteq Chunks
    /\ \A i \in 1 .. Len(ask.claims) : ask.claims[i].cites \subseteq Chunks
    /\ trail \subseteq {"searched", "disclosed", "failed", "invalid", "refused", "generated"}
    /\ charged \in BOOLEAN
    /\ stale \subseteq Chunks /\ levels \subseteq Levels
    /\ changes \in 0 .. MaxChanges

Due == [read |-> "due", found |-> << >>, level |-> "STANDARD"]
Unread == [Due EXCEPT !.read = "read"]
NoAsk == [step |-> "idle", allowed |-> FALSE,
          lexical |-> Due, semantic |-> Due, results |-> {},
          outcome |-> "none", claims |-> << >>, whole |-> FALSE]

Init ==
    /\ archive = [d \in Documents |-> [texts |-> 1, deleted |-> FALSE]]
    /\ chunks = Documents \X {1}
    /\ case = [level |-> "STANDARD", deleted |-> FALSE]
    /\ ask = NoAsk
    /\ trail = {} /\ charged = FALSE
    /\ stale = {} /\ levels = {} /\ changes = 0

-----------------------------------------------------------------------------
(* The archive meanwhile.  Stale and levels are for the properties. *)
Changes(gone) ==
    /\ changes < MaxChanges
    /\ changes' = changes + 1
    /\ stale' = IF ask.step = "idle" THEN stale \cup gone ELSE stale
    /\ levels' = IF ask.step = "searching" THEN levels \cup {case'.level} ELSE levels
    /\ UNCHANGED <<ask, trail, charged>>

ChunksOf(d) == {d} \X (1 .. MaxTexts)

ReadAgain(d) ==
    /\ ~archive[d].deleted /\ archive[d].texts < MaxTexts
    /\ archive' = [archive EXCEPT ![d].texts = @ + 1]
    /\ UNCHANGED <<chunks, case>>
    /\ Changes({d} \X (1 .. archive[d].texts))

(* The index is made of the text its run has read, which may not be the last. *)
Index(d) ==
    /\ \E text \in 1 .. archive[d].texts :
          /\ <<d, text>> \notin chunks
          /\ chunks' = chunks \cup {<<d, text>>}
    /\ UNCHANGED <<archive, case>>
    /\ Changes({})

DeleteDocument(d) ==
    /\ ~archive[d].deleted
    /\ archive' = [archive EXCEPT ![d].deleted = TRUE]
    /\ UNCHANGED <<chunks, case>>
    /\ Changes(ChunksOf(d))

ChangeLevel ==
    /\ ~case.deleted
    /\ \E level \in Levels \ {case.level} : case' = [case EXCEPT !.level = level]
    /\ UNCHANGED <<archive, chunks>>
    /\ Changes({})

DeleteCase ==
    /\ ~case.deleted
    /\ case' = [case EXCEPT !.deleted = TRUE]
    /\ UNCHANGED <<archive, chunks>>
    /\ Changes(Chunks)

-----------------------------------------------------------------------------
(* search *)
Becomes(r) ==
    /\ ask' = r
    /\ UNCHANGED archiveVars

(* Until its results are disclosed an answer is a search like any other. *)
Begin(mode, allowed) ==
    /\ ask.step = "idle"
    /\ ask' = [NoAsk EXCEPT !.step = "searching", !.allowed = allowed,
                            !.lexical = IF mode = "SEMANTIC" THEN Unread ELSE Due,
                            !.semantic = IF mode = "LEXICAL" THEN Unread ELSE Due]
    /\ levels' = {case.level}
    /\ UNCHANGED <<archive, chunks, case, stale, changes, trail, charged>>

(* Mutant of InScope: any text of a document, however old. *)
InScopeAnyText(c) ==
    /\ c \in chunks /\ ~case.deleted /\ ~archive[c[1]].deleted
    /\ ask.allowed \/ case.level = "STANDARD"

(* authorizedScopeSql *)
InScope(c) ==
    /\ c \in chunks /\ ~case.deleted /\ ~archive[c[1]].deleted
    /\ c[2] = archive[c[1]].texts
    /\ ask.allowed \/ case.level = "STANDARD"

(* Whatever a query matches, best first. *)
Matches ==
    LET scope == {c \in chunks : InScope(c)} IN
    {found \in Lists(scope, Cardinality(scope)) :
        \A i, j \in 1 .. Len(found) : found[i] = found[j] => i = j}

(* The words of the query must all be there; if nothing has them all, a second
   query asks for any of them. *)
Lexical ==
    /\ ask.step = "searching" /\ ask.lexical.read # "read"
    /\ \E found \in Matches :
        Becomes([ask EXCEPT !.lexical =
            [read |-> IF found = << >> /\ ask.lexical.read = "due" THEN "widened" ELSE "read",
             found |-> found, level |-> case.level]])
    /\ UNCHANGED <<trail, charged>>

Semantic ==
    /\ ask.step = "searching" /\ ask.semantic.read = "due"
    /\ \E found \in Matches :
        Becomes([ask EXCEPT !.semantic = [read |-> "read", found |-> found, level |-> case.level]])
    /\ UNCHANGED <<trail, charged>>

Found(rows) == {rows.found[i] : i \in 1 .. Len(rows.found)}
Rank(rows, c) == CHOOSE i \in 1 .. Len(rows.found) : rows.found[i] = c

(* reciprocalRank, as a fraction. *)
Share(rows, c) == IF c \in Found(rows) THEN <<1, 60 + Rank(rows, c)>> ELSE <<0, 1>>
Plus(a, b) == <<a[1] * b[2] + b[1] * a[2], a[2] * b[2]>>
ReciprocalRank(c) == Plus(Share(ask.lexical, c), Share(ask.semantic, c))

(* Of two with the same score the smaller id is first. *)
Before(c, d) ==
    LET a == ReciprocalRank(c)  b == ReciprocalRank(d) IN
    \/ a[1] * b[2] > b[1] * a[2]
    \/ /\ a[1] * b[2] = b[1] * a[2]
       /\ c[1] < d[1] \/ (c[1] = d[1] /\ c[2] < d[2])

Candidates == Found(ask.lexical) \cup Found(ask.semantic)
Ranked == {c \in Candidates : Cardinality({d \in Candidates : Before(d, c)}) < Limit}

(* The level of a result is the one its lexical row has, if it has one. *)
LevelOf(c) == IF c \in Found(ask.lexical) THEN ask.lexical.level ELSE ask.semantic.level

RecordSearch ==
    /\ ask.step = "searching" /\ ask.lexical.read = "read" /\ ask.semantic.read = "read"
    /\ Becomes([ask EXCEPT !.step = "searched", !.results = Ranked])
    /\ trail' = trail \cup {"searched"}
    /\ UNCHANGED charged

Confidential == \E c \in ask.results : LevelOf(c) # "STANDARD"

RecordDisclosure ==
    /\ ask.step = "searched"
    /\ Becomes([ask EXCEPT !.step = "disclosed"])
    /\ trail' = IF Confidential THEN trail \cup {"disclosed"} ELSE trail
    /\ UNCHANGED charged

SendResults ==
    /\ ask.step = "disclosed"
    /\ Becomes([ask EXCEPT !.step = "sent", !.outcome = "results"])
    /\ UNCHANGED <<trail, charged>>

-----------------------------------------------------------------------------
(* answer: without a source there is nothing to ask the model. *)
RefuseUnsourced ==
    /\ ask.step = "disclosed" /\ ask.results = {}
    /\ Becomes([ask EXCEPT !.step = "charged", !.outcome = "unsourced"])
    /\ trail' = trail \cup {"refused"}
    /\ UNCHANGED charged

(* legalAreaFor: the case is read again, as this person may read it. *)
OpenCase ==
    /\ ask.step = "disclosed" /\ ask.results # {}
    /\ Becomes([ask EXCEPT !.step =
           IF ~case.deleted /\ (ask.allowed \/ case.level = "STANDARD") THEN "opened" ELSE "ended"])
    /\ UNCHANGED <<trail, charged>>

(* generate of the provider: why the model stopped comes first, since output
   cut at the ceiling of tokens may still parse, with claims missing. *)
Generated(reply) == reply.stop \notin {"refusal", "max_tokens"} /\ reply.json

(* parseProviderOutput and mapClaim, of one claim *)
Anchored(claim) ==
    /\ claim.cites # {} /\ claim.cites \subseteq ask.results
    /\ Cardinality(claim.cites) <= MaxCitations
    /\ ~claim.again

Parsed(claims) ==
    /\ Len(claims) <= MaxClaims
    /\ \A i \in 1 .. Len(claims) : Anchored(claims[i])

Verdict(reply) ==
    IF ~Generated(reply) THEN "failed"
    ELSE IF ~Parsed(reply.claims) THEN "invalid"
    ELSE IF reply.claims = << >> THEN "unsupported"
    ELSE "answer"

(* The model says anything, or nothing: it refuses, it is cut short, it
   fails to answer in time, it cites what it likes. *)
Replies ==
    LET claims == Lists([cites : SUBSET (ask.results \cup {Invented}), again : BOOLEAN],
                        MaxClaims + 1)
    IN  {[stop |-> "end_turn", json |-> FALSE, claims |-> << >>],
         [stop |-> "refusal", json |-> FALSE, claims |-> << >>]}
        \cup [stop : {"end_turn", "max_tokens"}, json : {TRUE}, claims : claims]

Generate ==
    /\ ask.step = "opened"
    /\ \E reply \in Replies :
        LET verdict == Verdict(reply) IN
        Becomes([ask EXCEPT !.step = "said", !.outcome = verdict,
                            !.claims = IF verdict = "answer" THEN reply.claims ELSE << >>,
                            !.whole = (verdict = "answer" /\ reply.stop # "max_tokens")])
    /\ UNCHANGED <<trail, charged>>

(* A failure and an invalid output are recorded, and end the request. *)
RecordFailure ==
    /\ ask.step = "said" /\ ask.outcome \in {"failed", "invalid"}
    /\ Becomes([ask EXCEPT !.step = "ended"])
    /\ trail' = trail \cup {ask.outcome}
    /\ UNCHANGED charged

RecordAnswer ==
    /\ ask.step = "said" /\ ask.outcome \in {"unsupported", "answer"}
    /\ Becomes([ask EXCEPT !.step = "recorded"])
    /\ trail' = trail \cup {IF ask.outcome = "answer" THEN "generated" ELSE "refused"}
    /\ UNCHANGED charged

(* chargeAssistantCost: a case deleted meanwhile is charged nothing. *)
Charge ==
    /\ ask.step = "recorded"
    /\ Becomes([ask EXCEPT !.step = "charged"])
    /\ charged' = ~case.deleted
    /\ UNCHANGED trail

SendAnswer ==
    /\ ask.step = "charged"
    /\ Becomes([ask EXCEPT !.step = "sent"])
    /\ UNCHANGED <<trail, charged>>

(* The slack of the budget is short, a query or a write fails, the process dies. *)
Abort ==
    /\ ask.step \notin {"idle", "sent", "ended"}
    /\ Becomes([ask EXCEPT !.step = "ended"])
    /\ UNCHANGED <<trail, charged>>

Next ==
    \/ \E d \in Documents : ReadAgain(d) \/ Index(d) \/ DeleteDocument(d)
    \/ ChangeLevel
    \/ DeleteCase
    \/ \E mode \in Modes, allowed \in BOOLEAN : Begin(mode, allowed)
    \/ Lexical
    \/ Semantic
    \/ RecordSearch
    \/ RecordDisclosure
    \/ SendResults
    \/ RefuseUnsourced
    \/ OpenCase
    \/ Generate
    \/ RecordFailure
    \/ RecordAnswer
    \/ Charge
    \/ SendAnswer
    \/ Abort

Spec == Init /\ [][Next]_vars

-----------------------------------------------------------------------------
Sent == ask.step = "sent"

(* What is sent rests on texts that nobody had replaced or deleted before the
   request began; an answer is all the model said, and each claim of it cites
   what the search retrieved. *)
NothingStaleIsSent ==
    Sent =>
        /\ ask.results \cap stale = {}
        /\ ask.outcome = "answer" =>
               /\ ask.whole /\ ask.claims # << >>
               /\ \A i \in 1 .. Len(ask.claims) :
                      ask.claims[i].cites # {} /\ ask.claims[i].cites \subseteq ask.results

(* Who may not read a confidential case finds nothing in it; who may leaves a
   record of it, and only then. *)
DisclosuresAreRecorded ==
    /\ levels = {"CONFIDENTIAL"} /\ ~ask.allowed => ask.results = {}
    /\ Sent /\ levels = {"CONFIDENTIAL"} /\ ask.results # {} => "disclosed" \in trail
    /\ "disclosed" \in trail => "CONFIDENTIAL" \in levels

(* Nothing is charged that the log does not know, and what the model answered
   is charged before it is sent, also when it found no support, unless the case
   was deleted under it. *)
AnswersAreAccounted ==
    /\ charged => {"generated", "refused"} \cap trail # {}
    /\ Sent /\ ask.outcome \in {"answer", "unsupported"} => charged \/ case.deleted
    /\ ask.outcome \in {"results", "unsourced", "failed", "invalid"} => ~charged

(* What is sent rests on the last texts the reader may see, is whole, and is
   in the log and in the account of the case. *)
AnswersAreGrounded == NothingStaleIsSent /\ DisclosuresAreRecorded /\ AnswersAreAccounted
=============================================================================
