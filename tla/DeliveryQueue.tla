---------------------------- MODULE DeliveryQueue ----------------------------
(***************************************************************************)
(* The BullMQ queues, as ProcessingQueuePublisher, ProcessingWorkersService *)
(* and the exports use them: at most one entry per persistent job, added   *)
(* with a bounded number of attempts; a worker holds the lock of the entry *)
(* it runs; an entry whose lock runs out goes back once and then fails.    *)
(* The delay of the backoff is only time, so a failed attempt goes back to *)
(* "waiting" at once.                                                      *)
(***************************************************************************)
EXTENDS Naturals

CONSTANTS
    JobIds,         \* the ids of persistent jobs, which are the entries' ids too
    Consumers,      \* the concurrent consumers of all the workers
    NoConsumer,
    NoJobId,
    MaxAttempts     \* config.processing.jobAttempts

ASSUME QueueAssumption ==
    /\ MaxAttempts \in Nat \ {0}
    /\ NoConsumer \notin Consumers /\ NoJobId \notin JobIds

VARIABLE queue      \* the entry of each job: its state, failed attempts, stalls and lock

MaxStalls == 1      \* BullMQ's default maxStalledCount

EntryStates == {"absent", "waiting", "active", "completed", "failed"}

QueueTypeOK ==
    queue \in [JobIds -> [state : EntryStates, made : 0 .. MaxAttempts,
                          stalls : 0 .. MaxStalls, holder : Consumers \union {NoConsumer}]]

Entry(state, made, stalls, holder) ==
    [state |-> state, made |-> made, stalls |-> stalls, holder |-> holder]

Absent == Entry("absent", 0, 0, NoConsumer)
Added == Entry("waiting", 0, 0, NoConsumer)

QueueInit == queue = [j \in JobIds |-> Absent]

(* Queue.add with the job's id: an id that has an entry is ignored. *)
AddedAll(js) ==
    [j \in JobIds |-> IF j \in js /\ queue[j].state = "absent" THEN Added ELSE queue[j]]

Publish(j) == queue' = AddedAll({j})

(* A consumer takes the lock of a waiting entry. *)
Take(w, j) ==
    /\ queue[j].state = "waiting"
    /\ queue' = [queue EXCEPT ![j].state = "active", ![j].holder = w]

Holds(w, j) == queue[j].state = "active" /\ queue[j].holder = w

(* The processor returned: only the holder of the lock finishes the entry. *)
Acknowledge(w, j) ==
    queue' = IF Holds(w, j)
             THEN [queue EXCEPT ![j] = Entry("completed", @.made, @.stalls, NoConsumer)]
             ELSE queue

(* The processor threw: another attempt, or none after the last one and    *)
(* after an UnrecoverableError.                                            *)
Reject(w, j, unrecoverable) ==
    queue' = IF Holds(w, j)
             THEN [queue EXCEPT ![j] =
                     Entry(IF unrecoverable \/ @.made + 1 >= MaxAttempts
                           THEN "failed" ELSE "waiting", @.made + 1, @.stalls, NoConsumer)]
             ELSE queue

(* The lock ran out: back to waiting, or failed after too many stalls. *)
Stall(j) ==
    /\ queue[j].state = "active"
    /\ queue' = [queue EXCEPT ![j] =
                    IF @.stalls < MaxStalls
                    THEN Entry("waiting", @.made, @.stalls + 1, NoConsumer)
                    ELSE Entry("failed", @.made, @.stalls, NoConsumer)]

(* removeOnComplete, removeOnFail. *)
Remove(j) ==
    /\ queue[j].state \in {"completed", "failed"}
    /\ queue' = [queue EXCEPT ![j] = Absent]
=============================================================================
