----------------------------- MODULE EmailOutbox -----------------------------
(***************************************************************************)
(* The transactional outbox of e-mails.  The API and the worker insert     *)
(* rows; EmailDispatcherService drains them in rounds.  A round lists the  *)
(* oldest PENDING rows, and for each of them counts an attempt (claim),    *)
(* hands the message to the mail server and records the outcome: a list, a *)
(* claim, a delivery and a record are four separate steps.  Rounds may     *)
(* overlap: in two workers, and in one, whose timer does not wait for the  *)
(* round before.                                                           *)
(***************************************************************************)
EXTENDS Naturals, Sequences, FiniteSets

CONSTANTS
    Rounds,         \* the rounds that may be in progress at once
    Batch,          \* BATCH: how many rows a round lists
    MaxAttempts,    \* MAX_ATTEMPTS
    MaxEmails,      \* bound: rows ever inserted
    MaxCrashes      \* bound: rounds ever cut short

ASSUME OutboxAssumption ==
    /\ Batch \in Nat \ {0} /\ MaxAttempts \in Nat \ {0}
    /\ MaxEmails \in Nat /\ MaxCrashes \in Nat
    /\ IsFiniteSet(Rounds)

Emails == 1 .. MaxEmails    \* rows, numbered in the order they are inserted

VARIABLES
    outbox,     \* the rows: status, attempts, and whether the template is one of emailTemplates
    rounds,     \* each round: the rows still to do, as listed, and the step it is at
    accepted,   \* how often the mail server accepted each message
    unrecorded, \* messages accepted once without the worker getting to record it
    crashes     \* rounds cut short so far

vars == <<outbox, rounds, accepted, unrecorded, crashes>>

Row == [status : {"NONE", "PENDING", "SENT", "FAILED"}, attempts : Nat, known : BOOLEAN]
Listed == [email : Emails, attempts : Nat]
Steps == {"idle", "next", "sending", "accepted", "failed"}

(* What each variable holds. *)
TypeOK ==
    /\ outbox \in [Emails -> Row]
    /\ rounds \in [Rounds -> [todo : Seq(Listed), step : Steps]]
    /\ accepted \in [Emails -> Nat]
    /\ unrecorded \subseteq Emails
    /\ crashes \in 0 .. MaxCrashes

Round(todo, step) == [todo |-> todo, step |-> step]
NoRound == Round(<< >>, "idle")
NoRow == [status |-> "NONE", attempts |-> 0, known |-> TRUE]

Init ==
    /\ outbox = [e \in Emails |-> NoRow]
    /\ rounds = [r \in Rounds |-> NoRound]
    /\ accepted = [e \in Emails |-> 0]
    /\ unrecorded = {}
    /\ crashes = 0

Pending == {e \in Emails : outbox[e].status = "PENDING"}
InHand(r) == Head(rounds[r].todo).email

Inserted == [status |-> "PENDING", attempts |-> 0, known |-> TRUE]

(* A producer inserts a row.  The API and the worker are built apart, so   *)
(* the dispatcher may not know the template.                               *)
Enqueue(e, known) ==
    /\ outbox[e].status = "NONE"
    /\ \A d \in Emails : d < e => outbox[d].status # "NONE"
    /\ outbox' = [outbox EXCEPT ![e] = [Inserted EXCEPT !.known = known]]
    /\ UNCHANGED <<rounds, accepted, unrecorded, crashes>>

Oldest == {e \in Pending : Cardinality({d \in Pending : d < e}) < Batch}

(* pending: the rows as they are now, oldest first, are the round's work. *)
List(r) ==
    /\ rounds[r].step = "idle"
    /\ \E order \in [1 .. Cardinality(Oldest) -> Oldest] :
        /\ \A i, j \in DOMAIN order : i < j => order[i] < order[j]
        /\ LET todo == [i \in DOMAIN order |->
                          [email |-> order[i], attempts |-> outbox[order[i]].attempts]]
           IN  rounds' = [rounds EXCEPT ![r] =
                            IF Oldest = {} THEN NoRound ELSE Round(todo, "next")]
    /\ UNCHANGED <<outbox, accepted, unrecorded, crashes>>

At(r, step) == rounds[r].step = step
Goes(r, step) == rounds' = [rounds EXCEPT ![r].step = step]

(* On to the next row of the list, or the round is over. *)
Advance(r) ==
    LET rest == Tail(rounds[r].todo)
    IN  rounds' = [rounds EXCEPT ![r] = IF rest = << >> THEN NoRound ELSE Round(rest, "next")]

Abandon(r) == rounds' = [rounds EXCEPT ![r] = NoRound]

(* The database refuses a row with sentAt that is not SENT, and a failure  *)
(* does not clear sentAt.                                                  *)
RefusesNothing(status) == FALSE    \* variant: the constraint is dropped
Refuses(status) == status = "SENT"

\* Variants: an attempt too few, and rows that are tried for ever.
FailedTooSoon(attempts) == IF attempts + 1 >= MaxAttempts THEN "FAILED" ELSE "PENDING"
FailedNever(attempts) == "PENDING"
FailedStatus(attempts) == IF attempts >= MaxAttempts THEN "FAILED" ELSE "PENDING"

(* markAttemptFailed.  When the database refuses the update the exception  *)
(* leaves dispatchOnce, and the rest of the round is not done.             *)
MarkAttemptFailed(r, attempts) ==
    IF Refuses(outbox[InHand(r)].status)
    THEN Abandon(r) /\ UNCHANGED outbox
    ELSE Advance(r) /\ outbox' = [outbox EXCEPT ![InHand(r)].status = FailedStatus(attempts)]

(* An unknown template is not tried: it fails for good. *)
Discard(r) ==
    /\ At(r, "next")
    /\ ~outbox[InHand(r)].known
    /\ MarkAttemptFailed(r, MaxAttempts)
    /\ UNCHANGED <<accepted, unrecorded, crashes>>

Claimed(row) == [row EXCEPT !.attempts = @ + 1]

(* claim: the attempt is counted if the row is still PENDING, and the row  *)
(* stays PENDING.                                                          *)
Claim(r) ==
    /\ At(r, "next")
    /\ outbox[InHand(r)].known
    /\ IF outbox[InHand(r)].status = "PENDING"
       THEN Goes(r, "sending") /\ outbox' = [outbox EXCEPT ![InHand(r)] = Claimed(@)]
       ELSE Advance(r) /\ UNCHANGED outbox
    /\ UNCHANGED <<accepted, unrecorded, crashes>>

(* provider.send.  Every reply has a timeout, so a message the server took *)
(* may look like a failure to the worker.                                  *)
Send(r) ==
    /\ At(r, "sending")
    /\ \/ Goes(r, "failed") /\ UNCHANGED <<accepted, unrecorded>>
       \/ /\ accepted' = [accepted EXCEPT ![InHand(r)] = @ + 1]
          /\ \/ Goes(r, "accepted") /\ UNCHANGED unrecorded
             \/ Goes(r, "failed") /\ unrecorded' = unrecorded \union {InHand(r)}
    /\ UNCHANGED <<outbox, crashes>>

MarkSent(r) ==
    /\ At(r, "accepted")
    /\ outbox' = [outbox EXCEPT ![InHand(r)].status = "SENT"]
    /\ Advance(r)
    /\ UNCHANGED <<accepted, unrecorded, crashes>>

(* The catch of dispatchOnce, with the attempts of the row as it was listed. *)
RecordFailure(r) ==
    /\ At(r, "failed")
    /\ MarkAttemptFailed(r, Head(rounds[r].todo).attempts + 1)
    /\ UNCHANGED <<accepted, unrecorded, crashes>>

Loses(r) == IF At(r, "accepted") THEN {InHand(r)} ELSE {}

(* markSent is inside the try: when the database does not answer, the      *)
(* accepted message is recorded as a failure.                              *)
MissSent(r) ==
    /\ At(r, "accepted")
    /\ crashes < MaxCrashes
    /\ crashes' = crashes + 1
    /\ Goes(r, "failed")
    /\ unrecorded' = unrecorded \union Loses(r)
    /\ UNCHANGED <<outbox, accepted>>

(* The worker dies, or the database does not answer a claim or a failure. *)
Crash(r) ==
    /\ ~At(r, "idle")
    /\ crashes < MaxCrashes
    /\ crashes' = crashes + 1
    /\ Abandon(r)
    /\ unrecorded' = unrecorded \union Loses(r)
    /\ UNCHANGED <<outbox, accepted>>

Step(r) ==
    List(r) \/ Discard(r) \/ Claim(r) \/ Send(r) \/ MarkSent(r) \/ RecordFailure(r)

Next ==
    \/ \E e \in Emails, known \in BOOLEAN : Enqueue(e, known)
    \/ \E r \in Rounds : Step(r) \/ MissSent(r) \/ Crash(r)

Spec == Init /\ [][Next]_vars

(* A round that has begun goes on, and the timer begins another. *)
FairSpec == Spec /\ \A r \in Rounds : WF_vars(Step(r))
-----------------------------------------------------------------------------
Recording(e) == {r \in Rounds : At(r, "accepted") /\ InHand(r) = e}

(* "a linha é a prova de que alguém não recebeu o que deveria": a FAILED   *)
(* row is never one whose delivery a round got to record, whatever the     *)
(* order in which overlapping rounds write their outcomes.                 *)
FailureIsGenuine ==
    \A e \in Emails :
        outbox[e].status = "FAILED" /\ accepted[e] > 0
            => e \in unrecorded \/ Recording(e) # {}

(* The outcome a row shows was earned: SENT was accepted by the server, and *)
(* a known template is given up only when its attempts are spent.           *)
OutcomeIsEarned ==
    \A e \in Emails :
        /\ outbox[e].status = "SENT" => accepted[e] > 0
        /\ outbox[e].status = "FAILED" /\ outbox[e].known
               => outbox[e].attempts >= MaxAttempts

(* Every copy of a message was counted as an attempt before it left. *)
CopiesAreCounted == \A e \in Emails : accepted[e] <= outbox[e].attempts

(* No late failure of an overlapping round brings a SENT row back. *)
SentIsFinal ==
    [][\A e \in Emails : outbox[e].status = "SENT" => outbox'[e].status = "SENT"]_vars

(* Every row is settled in the end, however the server answers. *)
EveryEmailSettles ==
    \A e \in Emails : outbox[e].status = "PENDING" ~> outbox[e].status \in {"SENT", "FAILED"}

(* The comment on claim: of two workers "os dois tentam e só um leva", so   *)
(* no row is in the hands of two rounds that send it.                       *)
OnlyOneTakes ==
    \A q, r \in Rounds :
        At(q, "sending") /\ At(r, "sending") /\ InHand(q) = InHand(r) => q = r
=============================================================================
