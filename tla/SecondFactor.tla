---------------------------- MODULE SecondFactor ----------------------------
(***************************************************************************)
(* The second factor of one person: enrolment in two steps, the challenge  *)
(* of a login, recovery codes and switching it off.  Each request reads    *)
(* the row of the person, checks a code against what it read, and updates  *)
(* the row later under a condition of its own.                             *)
(*                                                                         *)
(* A secret is a number, in the order they are drawn, and the time step of *)
(* the server is a counter.  A request goes on only with a code that       *)
(* verifyTotp accepts for the secret it read: of the present step or of    *)
(* one within DRIFT_STEPS of it.  What a login records is the present step,*)
(* not that of the code: one code may let in again at the next step.  The  *)
(* clock is read twice in a row, by verifyTotp and for the record; the     *)
(* model reads it once.  A refused code changes nothing here.              *)
(***************************************************************************)
EXTENDS Integers, Sequences

CONSTANTS
    Requests,
    RecoveryCodes,  \* how many codes an activation hands out
    MaxSecrets,     \* bound: secrets drawn
    RequireSecondFactor,    \* the column of the office, which no operation sets
    MaxStep         \* bound: time steps

SecondFactorAssumption ==
    /\ MaxSecrets \in Nat /\ MaxStep \in Nat \ {0} /\ RecoveryCodes \in Nat
    /\ RequireSecondFactor \in BOOLEAN

VARIABLES
    person,     \* totp_secret, totp_activated_at (set or not), totp_last_step
    recovery,   \* the unused recovery codes: the secret they came with, and a number
    now,        \* totpStepAt()
    requests,   \* what each request has read and checked
    entries,    \* logins recorded at each time step since the enrolment changed: their codes
    proven,     \* secrets the activation of which checked a code of them
    swapped     \* secrets staged while an activation of another one was under way

vars == <<person, recovery, now, requests, entries, proven, swapped>>

Secrets == 1 .. MaxSecrets
NoSecret == 0
Times == 1 .. MaxStep
NoStep == 0
DRIFT_STEPS == 1
Codes == 1 - DRIFT_STEPS .. MaxStep + DRIFT_STEPS   \* the step a code is of
RecoveryCode == [secret : Secrets, number : 1 .. RecoveryCodes]

(* drawn: the secrets drawn so far, in order; only the last one is stored. *)
Person == [secret : Secrets \cup {NoSecret}, active : BOOLEAN, last : Times \cup {NoStep},
           drawn : 0 .. MaxSecrets]
Request == [op : {"idle", "begin", "activate", "disable", "app", "recovery"},
            secret : Secrets \cup {NoSecret}, number : 0 .. RecoveryCodes,
            step : Times \cup {NoStep}, code : Codes]

(* What each variable holds; the CHECK of the table is part of it. *)
TypeOK ==
    /\ person \in Person
    /\ person.active => person.secret # NoSecret
    /\ recovery \subseteq RecoveryCode
    /\ now \in Times
    /\ requests \in [Requests -> Request]
    /\ entries \in [Times -> Seq(Codes)]
    /\ proven \subseteq Secrets
    /\ swapped \subseteq Secrets

Idle == [op |-> "idle", secret |-> NoSecret, number |-> 0, step |-> NoStep, code |-> 0]
NoEntries == [t \in Times |-> << >>]

Init ==
    /\ person = [secret |-> NoSecret, active |-> FALSE, last |-> NoStep, drawn |-> 0]
    /\ recovery = {}
    /\ now = 1
    /\ requests = [q \in Requests |-> Idle]
    /\ entries = NoEntries
    /\ proven = {}
    /\ swapped = {}

Becomes(q, r) == requests' = [requests EXCEPT ![q] = r]
Reads(q, r) ==
    /\ requests[q].op = "idle"
    /\ Becomes(q, r)
    /\ UNCHANGED <<person, recovery, now, entries, proven, swapped>>

-----------------------------------------------------------------------------
(* Enrolment. *)
Begin(q) == ~person.active /\ Reads(q, [Idle EXCEPT !.op = "begin"])

(* Mutant of Stageable: a secret in use is replaced. *)
StageableAnyway == TRUE

Stageable == ~person.active

StageSecret(q) ==
    LET k == person.drawn + 1 IN
    /\ requests[q].op = "begin"
    /\ Stageable
    /\ k <= MaxSecrets
    /\ person' = [person EXCEPT !.secret = k, !.last = NoStep, !.drawn = k]
    /\ entries' = NoEntries
    /\ swapped' = IF \E p \in Requests : requests[p].op = "activate" THEN swapped \cup {k}
                                                                     ELSE swapped
    /\ Becomes(q, Idle)
    /\ UNCHANGED <<recovery, now, proven>>

(* A code of the secret as read has been verified. *)
AskActivation(q) ==
    /\ ~person.active /\ person.secret # NoSecret
    /\ Reads(q, [Idle EXCEPT !.op = "activate", !.secret = person.secret, !.step = now])

CodesOf(k) == {c \in RecoveryCode : c.secret = k}

(* The secret that starts to count is the one the row holds now; the clock is
   read again after the code was checked. *)
Activate(q) ==
    /\ requests[q].op = "activate"
    /\ ~person.active /\ person.secret # NoSecret
    /\ \E t \in requests[q].step .. now :
           person' = [person EXCEPT !.active = TRUE, !.last = t]
    /\ entries' = NoEntries
    /\ recovery' = CodesOf(person.secret)
    /\ proven' = proven \cup {requests[q].secret}
    /\ Becomes(q, Idle)
    /\ UNCHANGED <<now, swapped>>

AskDisable(q) ==
    /\ person.active /\ ~RequireSecondFactor
    /\ Reads(q, [Idle EXCEPT !.op = "disable", !.secret = person.secret])

(* Mutant of Disable: the recovery codes are not deleted. *)
DisableKeepingCodes(q) ==
    /\ requests[q].op = "disable"
    /\ person' = [person EXCEPT !.secret = NoSecret, !.active = FALSE, !.last = NoStep]
    /\ entries' = NoEntries
    /\ Becomes(q, Idle)
    /\ UNCHANGED <<recovery, now, proven, swapped>>

Disable(q) ==
    /\ requests[q].op = "disable"
    /\ person' = [person EXCEPT !.secret = NoSecret, !.active = FALSE, !.last = NoStep]
    /\ recovery' = {}
    /\ entries' = NoEntries
    /\ Becomes(q, Idle)
    /\ UNCHANGED <<now, proven, swapped>>

-----------------------------------------------------------------------------
(* The challenge of a login. *)

(* The codes verifyTotp accepts at a step. *)
Window(t) == {c \in Codes : t - DRIFT_STEPS <= c /\ c <= t + DRIFT_STEPS}

AcceptAppCode(q) ==
    /\ person.active
    /\ \E c \in Window(now) :
           Reads(q, [Idle EXCEPT !.op = "app", !.secret = person.secret,
                                 !.step = now, !.code = c])

(* Mutant of Unused: the step stored may be the one to record. *)
UnusedOrSame(t) == person.last <= t

(* The WHERE of consumeStep: totpLastStep is null or earlier. *)
Unused(t) == person.last < t

(* It is the step of the challenge that is consumed, not the one the code is
   for, and nothing else of the row is asked for. *)
ConsumeStep(q) ==
    LET r == requests[q] IN
    /\ r.op = "app"
    /\ Unused(r.step)
    /\ person' = [person EXCEPT !.last = r.step]
    /\ entries' = [entries EXCEPT ![r.step] = Append(@, r.code)]
    /\ Becomes(q, Idle)
    /\ UNCHANGED <<recovery, now, proven, swapped>>

AcceptRecoveryCode(q) ==
    /\ person.active
    /\ \E k \in 1 .. person.drawn, n \in 1 .. RecoveryCodes : 
           Reads(q, [Idle EXCEPT !.op = "recovery", !.secret = k, !.number = n])

ConsumeRecoveryCode(q) ==
    LET c == [secret |-> requests[q].secret, number |-> requests[q].number] IN
    /\ requests[q].op = "recovery"
    /\ c \in recovery
    /\ recovery' = recovery \ {c}
    /\ Becomes(q, Idle)
    /\ UNCHANGED <<person, now, entries, proven, swapped>>

(* An update matches no row, or the process dies. *)
Refuse(q) ==
    /\ requests[q].op # "idle"
    /\ Becomes(q, Idle)
    /\ UNCHANGED <<person, recovery, now, entries, proven, swapped>>

Tick ==
    /\ now < MaxStep
    /\ now' = now + 1
    /\ UNCHANGED <<person, recovery, requests, entries, proven, swapped>>

Next ==
    \/ \E q \in Requests :
        \/ Begin(q) \/ StageSecret(q) \/ AskActivation(q) \/ Activate(q)
        \/ AskDisable(q) \/ Disable(q)
        \/ AcceptAppCode(q) \/ ConsumeStep(q)
        \/ AcceptRecoveryCode(q) \/ ConsumeRecoveryCode(q)
        \/ Refuse(q)
    \/ Tick

Spec == Init /\ [][Next]_vars

-----------------------------------------------------------------------------
(* One time step is recorded by one login, however many present a code in it
   at once, and a code is accepted at the steps beside its own only: it lets
   in at three steps at most, once at each.  It does let in more than once,
   which second-factor.repository.ts:59 ("recusa a reapresentação do mesmo
   código") and totp.ts:119 do not say: the step recorded is the present one,
   and a code of the step before or after it passes again at the next.  A
   change of the enrolment starts the count anew. *)
OneEntryPerStep ==
    \A t \in Times : /\ Len(entries[t]) <= 1
                     /\ \A i \in 1 .. Len(entries[t]) : entries[t][i] \in Window(t)

(* The recovery codes that can be used belong to the enrolment that is in
   force: none is left of one that was switched off or never came about. *)
CodesOfThisEnrolment ==
    \A c \in recovery : person.active /\ c.secret = person.secret

(* What the login asks for was proven to have reached the device, unless a
   new enrolment was begun while the activation was under way. *)
ActiveSecretIsProven ==
    person.active => person.secret \in proven \cup swapped

(* What a login gets through with: one code at a step, recovery codes of the
   enrolment in force, a secret that reached the device. *)
SecondFactorHolds == OneEntryPerStep /\ CodesOfThisEnrolment /\ ActiveSecretIsProven
=============================================================================
