------------------------------ MODULE Accounts ------------------------------
(***************************************************************************)
(* Who may come in and what they may read: Sessions, People, SecondFactor, *)
(* LoginAttempts and Answers side by side.  They share no state, so they   *)
(* are composed apart: the initial state chooses a part, which takes the   *)
(* steps, and the others stay as they began.                               *)
(***************************************************************************)
EXTENDS Sessions

CONSTANTS
    Members, Founders, Roles, Permissions, PermissionsOf, MaxGrants, MaxOfficeReactivations, \* of People
    Challenges, RecoveryCodes, RequireSecondFactor, MaxSecrets, MaxStep,    \* of SecondFactor
    Attempts, AttemptLimit, MaxOutages,                                     \* of LoginAttempts
    Documents, MaxTexts, MaxChanges, SearchLimit, MaxClaims, MaxCitations, Invented \* of Answers

VARIABLES
    part,       \* the part that takes the steps
    people, invitations, acts, granted, mixed, crossed,         \* of People
    person, recovery, now, attempts, entries, proven, swapped,  \* of SecondFactor
    redis, client, connection, counters, tries, outages,        \* of LoginAttempts
    archive, indexed, case, ask, log, charged, stale, levels, changes \* of Answers

P == INSTANCE People WITH
         Users <- Members, MaxReactivations <- MaxOfficeReactivations,
         users <- people, requests <- acts

F == INSTANCE SecondFactor WITH Requests <- Challenges, requests <- attempts

A == INSTANCE LoginAttempts WITH
         Requests <- Attempts, Limit <- AttemptLimit, requests <- tries

R == INSTANCE Answers WITH Limit <- SearchLimit, chunks <- indexed, trail <- log

ASSUME PeopleAssumed == P!PeopleAssumption
ASSUME SecondFactorAssumed == F!SecondFactorAssumption
ASSUME AttemptsAssumed == A!AttemptsAssumption
ASSUME AnswersAssumed == R!AnswersAssumption

peopleVars == <<people, invitations, acts, granted, mixed, crossed>>
factorVars == <<person, recovery, now, attempts, entries, proven, swapped>>
attemptVars == <<redis, client, connection, counters, tries, outages>>
answerVars == <<archive, indexed, case, ask, log, charged, stale, levels, changes>>
allVars == <<part, vars, peopleVars, factorVars, attemptVars, answerVars>>

AccountsInit ==
    /\ part \in {"sessions", "people", "factor", "attempts", "answers"}
    /\ Init
    /\ P!Init
    /\ F!Init
    /\ A!Init
    /\ R!Init

AccountsNext ==
    /\ UNCHANGED part
    /\ \/ part = "sessions" /\ Next /\ UNCHANGED <<peopleVars, factorVars, attemptVars, answerVars>>
       \/ part = "people" /\ P!Next /\ UNCHANGED <<vars, factorVars, attemptVars, answerVars>>
       \/ part = "factor" /\ F!Next /\ UNCHANGED <<vars, peopleVars, attemptVars, answerVars>>
       \/ part = "attempts" /\ A!Next /\ UNCHANGED <<vars, peopleVars, factorVars, answerVars>>
       \/ part = "answers" /\ R!Next /\ UNCHANGED <<vars, peopleVars, factorVars, attemptVars>>

AccountsSpec == AccountsInit /\ [][AccountsNext]_allVars

-----------------------------------------------------------------------------
(* See People: an office keeps somebody who administers it. *)
AdministratorRemains == P!AdministratorRemains
(* See People: roles and passwords are those somebody granted. *)
AccessIsGranted == P!TypeOK /\ P!AccessIsGranted
(* See SecondFactor: one login to a time step, codes of the enrolment in force. *)
SecondFactorHolds == F!TypeOK /\ F!SecondFactorHolds
(* See LoginAttempts: failures stay near the limit, and a lockout ends. *)
AttemptsHold == A!AttemptsHold
(* See Answers: what is sent rests on what the reader may read, as it was. *)
AnswersAreGrounded == R!TypeOK /\ R!AnswersAreGrounded
(* See LoginAttempts: attempts are refused only while Redis is lost. *)
UnavailabilityIsTemporary == A!UnavailabilityIsTemporary
=============================================================================
