--------------------------- MODULE AssistantBudget ---------------------------
(***************************************************************************)
(* Everything that writes the budget of a case: the jobs, their            *)
(* cancellation, and the questions put to the assistant, the one other     *)
(* expense of a case (AssistantService.answer).  The budget is looked at   *)
(* before the model is called, without a lock and without a reservation;   *)
(* the answer is audited with its cost; then a transaction reads the case, *)
(* again without a lock, and writes back what was spent as a whole.        *)
(***************************************************************************)
EXTENDS ProcessingCancellation

CONSTANTS
    Questions,      \* the questions in flight at once
    AnswerCost,     \* the most an answer may cost, asked as slack beforehand
    MaxAudited      \* bound: what the answers of one case may cost in all

ASSUME AnswerCostAssumption == AnswerCost \in Nat /\ MaxAudited \in Nat

VARIABLES
    asks,       \* each question: its step, case, cost, and the row its charge read
    audited     \* the sum of the costs in the audit trail of each case

assistantVars == <<cancellationVars, asks, audited>>

NoCase == [limit |-> 0, spent |-> 0, reserved |-> 0, budget |-> "ACTIVE", deleted |-> FALSE]

Ask(step, c, cost, seen) == [step |-> step, about |-> c, cost |-> cost, seen |-> seen]
NoQuestion == Ask("idle", {}, 0, NoCase)

AssistantInit ==
    /\ CancellationInit
    /\ asks = [q \in Questions |-> NoQuestion]
    /\ audited = [c \in Cases |-> 0]

Becomes(q, ask) == asks' = [asks EXCEPT ![q] = ask]

(* assertAssistantBudgetAvailable *)
SlackFor(case) ==
    /\ case.budget = "ACTIVE"
    /\ case.spent + case.reserved + AnswerCost <= case.limit

PutQuestion(q, c) ==
    /\ asks[q].step = "idle"
    /\ ~cases[c].deleted
    /\ SlackFor(cases[c])
    /\ Becomes(q, Ask("answering", c, 0, NoCase))
    /\ UNCHANGED <<cancellationVars, audited>>

(* The model fails, or its output is refused: nothing is charged. *)
AnswerFails(q) ==
    /\ asks[q].step = "answering"
    /\ Becomes(q, NoQuestion)
    /\ UNCHANGED <<cancellationVars, audited>>

Answer(q, amount) ==
    /\ asks[q].step = "answering"
    /\ audited[asks[q].about] + amount <= MaxAudited
    /\ audited' = [audited EXCEPT ![asks[q].about] = @ + amount]
    /\ Becomes(q, Ask("answered", asks[q].about, amount, NoCase))
    /\ UNCHANGED cancellationVars

ReadForCharge(q) ==
    LET c == asks[q].about IN
    /\ asks[q].step = "answered"
    /\ ~cases[c].deleted
    /\ Becomes(q, Ask("charging", c, asks[q].cost, cases[c]))
    /\ UNCHANGED <<cancellationVars, audited>>

Charged(case, seen, amount) ==
    [case EXCEPT
        !.spent = seen.spent + amount,
        !.budget = IF seen.spent + amount + seen.reserved >= seen.limit
                     THEN "LIMIT_REACHED" ELSE @]

(* cases_processing_cost_within_limit, checked on the row as it is now. *)
Accepts(case) == case.spent + case.reserved <= case.limit

ChargedCase(q) == Charged(cases[asks[q].about], asks[q].seen, asks[q].cost)

Charge(q) ==
    LET c == asks[q].about IN
    /\ asks[q].step = "charging"
    /\ ~cases[c].deleted
    /\ Accepts(ChargedCase(q))
    /\ cases' = [cases EXCEPT ![c] = ChargedCase(q)]
    /\ Becomes(q, NoQuestion)
    /\ UNCHANGED <<jobs, docs, executions, approved, raced, cancelling, audited>>

(* The case is gone, or the CHECK rejects the update. *)
ChargeFails(q) ==
    /\ asks[q].step \in {"answered", "charging"}
    /\ \/ cases[asks[q].about].deleted
       \/ asks[q].step = "charging" /\ ~Accepts(ChargedCase(q))
    /\ Becomes(q, NoQuestion)
    /\ UNCHANGED <<cancellationVars, audited>>

Assist(q) ==
    \/ \E c \in Cases : PutQuestion(q, c)
    \/ AnswerFails(q)
    \/ \E amount \in 0..AnswerCost : Answer(q, amount)
    \/ ReadForCharge(q)
    \/ Charge(q)
    \/ ChargeFails(q)

AssistantNext ==
    \/ CancellationNext /\ UNCHANGED <<asks, audited>>
    \/ \E q \in Questions : Assist(q)

AssistantSpec == AssistantInit /\ [][AssistantNext]_assistantVars

-----------------------------------------------------------------------------
(* What the workers settled stays on the case's account, whatever answer is
   charged to it meanwhile. *)
SettledCostIsKept ==
    \A c \in Cases : Total(Cost, JobsOf(c)) <= cases[c].spent

(* A cancelled job holds no reservation, and no case passes its ceiling, the
   answers included (jobs-management.repository.ts and assistant.service.ts). *)
BudgetHolds == CancelledReleases /\ WithinLimit
=============================================================================
