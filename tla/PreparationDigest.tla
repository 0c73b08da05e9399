-------------------------- MODULE PreparationDigest --------------------------
(***************************************************************************)
(* PreparationDigestService: the daily summary of the documents that left  *)
(* the pipeline, for the person responsible for the case.  A sweep reads   *)
(* the last summary of every person, then the completions of the last      *)
(* days, then inserts one outbox row per person it has news for: three     *)
(* kinds of step, in no transaction.  The insertion time of a person's     *)
(* last row is the watermark of what that person was told.                 *)
(***************************************************************************)
EXTENDS Naturals, FiniteSets, FiniteSetsExt

CONSTANTS
    Sweepers,       \* the workers that sweep
    Recipients,     \* the people responsible for cases
    Cases,          \* the cases, each with its responsible person
    DigestInterval, \* DIGEST_INTERVAL_MS, in ticks of the clock
    Lookback,       \* MAX_LOOKBACK_MS
    SweepInterval,  \* SWEEP_INTERVAL_MS
    MaxCompletions, \* MAX_COMPLETIONS
    MaxDone,        \* bound: documents prepared
    Horizon,        \* bound: the last tick of the clock
    MaxRestarts     \* bound: restarts of workers

DigestAssumption ==
    /\ DigestInterval \in Nat \ {0} /\ Lookback \in Nat /\ SweepInterval \in Nat
    /\ MaxCompletions \in Nat \ {0} /\ MaxDone \in Nat /\ Horizon \in Nat \ {0}
    /\ MaxRestarts \in Nat

VARIABLES
    clock,
    responsible,    \* the person responsible for each case
    done,           \* completed EMBEDDING jobs, numbered in the order they finish
    digests,        \* the preparation-digest rows of the outbox
    sweeps,         \* each worker's sweep in progress
    lastSwept,      \* each worker's memory of its last sweep, {} after a start
    restarts

vars == <<clock, responsible, done, digests, sweeps, lastSwept, restarts>>

Idle == [step |-> "idle", now |-> 0, marks |-> {}, buckets |-> {}]

Init ==
    /\ clock = 1
    /\ responsible \in [Cases -> Recipients]
    /\ done = {}
    /\ digests = {}
    /\ sweeps = [w \in Sweepers |-> Idle]
    /\ lastSwept = [w \in Sweepers |-> {}]
    /\ restarts = 0

Tick ==
    /\ clock < Horizon
    /\ clock' = clock + 1
    /\ UNCHANGED <<responsible, done, digests, sweeps, lastSwept, restarts>>

(* ProcessingRepository.complete of an EMBEDDING job. *)
Prepare(c) ==
    /\ Cardinality(done) < MaxDone
    /\ done' = done \union {[id |-> Cardinality(done) + 1, case |-> c, finishedAt |-> clock]}
    /\ UNCHANGED <<clock, responsible, digests, sweeps, lastSwept, restarts>>

(* CasesRepository.update with another responsible person. *)
Reassign(c, p) ==
    /\ responsible[c] # p
    /\ responsible' = [responsible EXCEPT ![c] = p]
    /\ UNCHANGED <<clock, done, digests, sweeps, lastSwept, restarts>>

(* The time of the last row of each person, as a set of at most one time. *)
LastEnqueued ==
    [p \in Recipients |->
        LET times == {d.createdAt : d \in {x \in digests : x.to = p}}
        IN  IF times = {} THEN {} ELSE {Max(times)}]

(* #sweep, held back by the worker's own clock, and the first read. *)
Begin(w) ==
    /\ sweeps[w].step = "idle"
    /\ \A t \in lastSwept[w] : clock - t >= SweepInterval
    /\ lastSwept' = [lastSwept EXCEPT ![w] = {clock}]
    /\ sweeps' = [sweeps EXCEPT ![w] =
                    [step |-> "marked", now |-> clock, marks |-> LastEnqueued, buckets |-> {}]]
    /\ UNCHANGED <<clock, responsible, done, digests, restarts>>

Within(now) == {x \in done : x.finishedAt + Lookback > now /\ x.finishedAt <= now}

(* #completionsWithin: the oldest ones, at most MaxCompletions. *)
Taken(now) ==
    {x \in Within(now) : Cardinality({y \in Within(now) : y.id < x.id}) < MaxCompletions}

\* Variant: what was told before is told again.
CountsAgain(x, previous) == TRUE

Counts(x, previous) == \A t \in previous : x.finishedAt > t
Due(previous, now) == \A t \in previous : t + DigestInterval <= now

(* What a read that returned these completions has to tell to p. *)
News(p, completions, sweep) ==
    {x \in completions : /\ responsible[x.case] = p
                         /\ Due(sweep.marks[p], sweep.now)
                         /\ Counts(x, sweep.marks[p])}

Bucket(p, sweep) ==
    LET told == News(p, Taken(sweep.now), sweep)
    IN  [to |-> p, counts |-> told, left |-> News(p, Within(sweep.now), sweep) \ told]

(* The second read, and the grouping by person. *)
Group(w) ==
    /\ sweeps[w].step = "marked"
    /\ LET buckets == {b \in {Bucket(p, sweeps[w]) : p \in Recipients} : b.counts # {}}
       IN  sweeps' = [sweeps EXCEPT ![w] =
                        IF buckets = {} THEN Idle
                        ELSE [@ EXCEPT !.step = "grouped", !.buckets = buckets]]
    /\ UNCHANGED <<clock, responsible, done, digests, lastSwept, restarts>>

Dequeued(sweep, b) ==
    IF sweep.buckets = {b} THEN Idle ELSE [sweep EXCEPT !.buckets = @ \ {b}]

(* #enqueue: the row is created now, not when the sweep began. *)
Enqueue(w, b) ==
    /\ digests' = digests \union
                    {[to |-> b.to, createdAt |-> clock, counts |-> b.counts, left |-> b.left]}
    /\ sweeps' = [sweeps EXCEPT ![w] = Dequeued(@, b)]
    /\ UNCHANGED <<clock, responsible, done, lastSwept, restarts>>

(* The person is not active or silenced the summary, or the insertion      *)
(* failed: no row, and no watermark.                                       *)
Skip(w, b) ==
    /\ sweeps' = [sweeps EXCEPT ![w] = Dequeued(@, b)]
    /\ UNCHANGED <<clock, responsible, done, digests, lastSwept, restarts>>

(* The worker stops and starts again: its memory and its sweep are gone. *)
Restart(w) ==
    /\ restarts < MaxRestarts
    /\ restarts' = restarts + 1
    /\ sweeps' = [sweeps EXCEPT ![w] = Idle]
    /\ lastSwept' = [lastSwept EXCEPT ![w] = {}]
    /\ UNCHANGED <<clock, responsible, done, digests>>

Next ==
    \/ Tick
    \/ \E c \in Cases : Prepare(c)
    \/ \E c \in Cases, p \in Recipients : Reassign(c, p)
    \/ \E w \in Sweepers :
        \/ Begin(w)
        \/ Group(w)
        \/ \E b \in sweeps[w].buckets : Enqueue(w, b) \/ Skip(w, b)
        \/ Restart(w)

Spec == Init /\ [][Next]_vars
-----------------------------------------------------------------------------
(* What each variable holds. *)
TypeOK ==
    /\ clock \in 1 .. Horizon
    /\ responsible \in [Cases -> Recipients]
    /\ done \subseteq [id : 1 .. MaxDone, case : Cases, finishedAt : 1 .. Horizon]
    /\ digests \subseteq [to : Recipients, createdAt : 1 .. Horizon,
                          counts : SUBSET done, left : SUBSET done]
    /\ restarts \in 0 .. MaxRestarts

SamePerson(d, e) == d # e /\ d.to = e.to

(* "reiniciar o worker não reenvia": nobody is told of a completion in     *)
(* two summaries, whenever the worker stops between its reads and inserts.  *)
ToldOnce == \A d, e \in digests : SamePerson(d, e) => d.counts \intersect e.counts = {}

(* Two summaries of one person are at least a day apart, however late the  *)
(* rows are inserted.                                                      *)
OnceADay ==
    \A d, e \in digests :
        SamePerson(d, e) => \/ d.createdAt >= e.createdAt + DigestInterval
                            \/ e.createdAt >= d.createdAt + DigestInterval

(* Nobody is told twice: of one completion, or on one day. *)
TellsOnce == ToldOnce /\ OnceADay

(* The comment on MAX_COMPLETIONS: "O que sobrar fica para a próxima: nada *)
(* se perde, só atrasa".  What a summary left out can still be told.       *)
LeftoverWaits ==
    \A d \in digests : \A x \in d.left :
        \/ \E e \in digests : e.to = d.to /\ x \in e.counts
        \/ Counts(x, LastEnqueued[d.to])
=============================================================================
