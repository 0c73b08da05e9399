---------------------------- MODULE JobLifecycle ----------------------------
(***************************************************************************)
(* What a processing job promises to whoever reads its row: the allowed    *)
(* transitions, each at a new version, out of a row that is created once   *)
(* and never leaves a terminal status.  There are no workers, claims or    *)
(* races here; ProcessingJobs implements this with all of them.            *)
(***************************************************************************)
EXTENDS Naturals

CONSTANT Jobs

VARIABLES status, version

allowedTransitions ==
    [QUEUED     |-> {"PROCESSING", "CANCELLED"},
     PROCESSING |-> {"COMPLETED", "RETRYING", "FAILED", "CANCELLED"},
     RETRYING   |-> {"PROCESSING", "CANCELLED"},
     COMPLETED  |-> {},
     FAILED     |-> {},
     CANCELLED  |-> {},
     NONE       |-> {}]

CanTransition(from, to) == to \in allowedTransitions[from]

Init ==
    /\ status = [j \in Jobs |-> "NONE"]
    /\ version = [j \in Jobs |-> 0]

Create(j) ==
    /\ status[j] = "NONE"
    /\ status' = [status EXCEPT ![j] = "QUEUED"]
    /\ UNCHANGED version

Transition(j, to) ==
    /\ CanTransition(status[j], to)
    /\ status' = [status EXCEPT ![j] = to]
    /\ version' = [version EXCEPT ![j] = @ + 1]

(* A redelivery takes over a job that is being processed. *)
Resume(j) ==
    /\ status[j] = "PROCESSING"
    /\ version' = [version EXCEPT ![j] = @ + 1]
    /\ UNCHANGED status

(* A job completes and queues its successor in the same transaction. *)
CompleteAndQueue(j, next) ==
    /\ CanTransition(status[j], "COMPLETED")
    /\ status[next] = "NONE"
    /\ status' = [status EXCEPT ![j] = "COMPLETED", ![next] = "QUEUED"]
    /\ version' = [version EXCEPT ![j] = @ + 1]

Next ==
    \E j \in Jobs :
        \/ Create(j)
        \/ \E to \in DOMAIN allowedTransitions : Transition(j, to)
        \/ Resume(j)
        \/ \E next \in Jobs : CompleteAndQueue(j, next)

Spec == Init /\ [][Next]_<<status, version>>
=============================================================================
