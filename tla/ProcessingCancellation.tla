----------------------- MODULE ProcessingCancellation -----------------------
(***************************************************************************)
(* ProcessingJobs with ProcessingRepository.cancel, the state path that    *)
(* has no public endpoint yet.  A cancellation reads the job without a     *)
(* lock, gives its reservation back to the locked case, and only then      *)
(* updates the job if it is still the row it read.  When it is not, the    *)
(* transaction returns false: it does not throw, so it commits.            *)
(***************************************************************************)
EXTENDS ProcessingJobs

VARIABLE cancelling     \* the row each cancellation in flight has read

cancellationVars == <<vars, cancelling>>

CancellationInit ==
    /\ Init
    /\ cancelling = [j \in Jobs |-> NoRow]

ReadForCancel(j) ==
    /\ cancelling[j] = NoRow
    /\ jobs[j].status \in Active
    /\ cancelling' = [cancelling EXCEPT ![j] = jobs[j]]
    /\ UNCHANGED vars

(* Mutant of Cancellable: the job is updated whatever became of it. *)
CancellableAnyway(j) == cancelling[j] # NoRow

Cancellable(j) ==
    /\ jobs[j].status = cancelling[j].status
    /\ jobs[j].version = cancelling[j].version

ReleaseFirst(j) ==
    LET c == CaseOf[j.doc]
        released == cancelling[j].reserved
    IN  IF released = 0
          THEN UNCHANGED cases
          ELSE /\ ~cases[c].deleted
               /\ released <= cases[c].reserved
               /\ cases' = [cases EXCEPT ![c].reserved = @ - released]

(* Mutant of CommitCancel: the amount of the job is not reset. *)
CommitCancelKeeping(j) ==
    /\ cancelling[j] # NoRow
    /\ ReleaseFirst(j)
    /\ jobs' = IF Cancellable(j) THEN [jobs EXCEPT ![j] = Moved(@, "CANCELLED")] ELSE jobs
    /\ cancelling' = [cancelling EXCEPT ![j] = NoRow]
    /\ UNCHANGED <<docs, executions, approved, raced>>

CommitCancel(j) ==
    /\ cancelling[j] # NoRow
    /\ ReleaseFirst(j)
    /\ jobs' = IF Cancellable(j)
                 THEN [jobs EXCEPT ![j] = [Moved(@, "CANCELLED") EXCEPT !.reserved = 0]]
                 ELSE jobs
    /\ cancelling' = [cancelling EXCEPT ![j] = NoRow]
    /\ UNCHANGED <<docs, executions, approved, raced>>

(* The case to give back to is gone or does not hold as much: it throws. *)
AbortCancel(j) ==
    /\ cancelling[j].reserved > 0
    /\ \/ cases[CaseOf[j.doc]].deleted
       \/ cancelling[j].reserved > cases[CaseOf[j.doc]].reserved
    /\ cancelling' = [cancelling EXCEPT ![j] = NoRow]
    /\ UNCHANGED vars

CancellationNext ==
    \/ Next /\ UNCHANGED cancelling
    \/ \E j \in Jobs : ReadForCancel(j) \/ CommitCancel(j) \/ AbortCancel(j)

-----------------------------------------------------------------------------
(* A cancelled job has given its reservation back, whichever execution it
   was taken from: what cancel commits agrees with the row it wrote. *)
CancelledReleases ==
    \A j \in Jobs : jobs[j].status = "CANCELLED" => jobs[j].reserved = 0
=============================================================================
