----------------------------- MODULE CaseLedger -----------------------------
(***************************************************************************)
(* What the processing budget of a case promises (ADR-011): a hard ceiling *)
(* over what is spent and what is on hold, holds taken only while the      *)
(* budget is open, and each hold settled at no more than its amount.       *)
(*                                                                         *)
(* The ledger keeps the hold of each job and derives the reserved amount;  *)
(* ProcessingJobs keeps a column of the case and a column of the job and   *)
(* has to keep them in agreement.                                          *)
(***************************************************************************)
EXTENDS Naturals, FiniteSets, Amounts

CONSTANTS Cases, Jobs, CaseOfJob, Quotes, Limits

VARIABLES limit, spent, holds, open

JobsOf(c) == {j \in Jobs : CaseOfJob[j] = c}
OnHold(c) == Total(holds, JobsOf(c))

Init ==
    /\ limit = [c \in Cases |-> 0]
    /\ spent = [c \in Cases |-> 0]
    /\ holds = [j \in Jobs |-> 0]
    /\ open = [c \in Cases |-> TRUE]

Reserve(j, amount) ==
    LET c == CaseOfJob[j] IN
    /\ open[c]
    /\ holds[j] = 0
    /\ spent[c] + OnHold(c) + amount <= limit[c]
    /\ holds' = [holds EXCEPT ![j] = amount]
    /\ UNCHANGED <<limit, spent, open>>

(* A hold that does not fit closes the budget. *)
Refuse(c, amount) ==
    /\ spent[c] + OnHold(c) + amount > limit[c]
    /\ open' = [open EXCEPT ![c] = FALSE]
    /\ UNCHANGED <<limit, spent, holds>>

(* The budget closes when what remains committed fills it. *)
Settle(j, actual) ==
    LET c == CaseOfJob[j]
        committed == spent[c] + actual + (OnHold(c) - holds[j])
    IN  /\ actual <= holds[j]
        /\ spent' = [spent EXCEPT ![c] = @ + actual]
        /\ holds' = [holds EXCEPT ![j] = 0]
        /\ open' = [open EXCEPT ![c] = @ /\ ~(limit[c] > 0 /\ committed >= limit[c])]
        /\ UNCHANGED limit

SetLimit(c, amount) ==
    /\ spent[c] + OnHold(c) <= amount
    /\ limit' = [limit EXCEPT ![c] = amount]
    /\ open' = [open EXCEPT ![c] = ~(OnHold(c) = 0 /\ amount > 0 /\ spent[c] >= amount)]
    /\ UNCHANGED <<spent, holds>>

Next ==
    \/ \E j \in Jobs :
        \/ \E amount \in Quotes : Reserve(j, amount)
        \/ \E actual \in 0..holds[j] : Settle(j, actual)
    \/ \E c \in Cases :
        \/ \E amount \in Quotes : Refuse(c, amount)
        \/ \E amount \in Limits : SetLimit(c, amount)

Spec == Init /\ [][Next]_<<limit, spent, holds, open>>
=============================================================================
