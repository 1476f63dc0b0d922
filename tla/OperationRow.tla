----------------------------- MODULE OperationRow -----------------------------
(***************************************************************************)
(* One row of table `operations`: its statuses, the transition table of    *)
(* the domain, the change each use case makes to its copy of the row, and  *)
(* the conditional UPDATE through which every copy goes back to MariaDB.   *)
(*                                                                         *)
(* A row keeps the columns that the use cases test or overwrite.  Stage is *)
(* left out: each writer sets it with the status.  A file is named by the  *)
(* upload that streamed it and a job by the request that created it.       *)
(***************************************************************************)
EXTENDS Naturals

CONSTANTS Requests,     \* HTTP requests and event deliveries; each is served once
          MaxAttempts,  \* max_attempts of the operations
          None          \* SQL NULL, or a nil pointer

ASSUME RequestsAssumption == None \notin Requests
ASSUME BudgetAssumption == MaxAttempts \in Nat

-------------------------------------------------------------------------------
Terminal == {"COMPLETED", "CANCELLED"}

Statuses == {"CREATED", "QUEUED", "DISPATCHED", "TRANSFERRING", "TRANSFERRED",
             "PROCESSING", "FAILED", "TIMEOUT"} \cup Terminal

\* The table of canTransition, and CanTransition for a change that is no retry.
Successors ==
  [CREATED      |-> {"QUEUED", "CANCELLED"},
   QUEUED       |-> {"DISPATCHED", "CANCELLED"},
   DISPATCHED   |-> {"TRANSFERRING", "TIMEOUT", "FAILED", "CANCELLED"},
   TRANSFERRING |-> {"TRANSFERRED", "TIMEOUT", "FAILED", "CANCELLED"},
   TRANSFERRED  |-> {"PROCESSING", "TIMEOUT", "CANCELLED"},
   PROCESSING   |-> {"COMPLETED", "FAILED", "TIMEOUT", "CANCELLED"},
   FAILED       |-> {"QUEUED", "FAILED", "TIMEOUT", "CANCELLED"},
   TIMEOUT      |-> {"QUEUED", "FAILED", "TIMEOUT", "CANCELLED"}]

CanTransition(from, to) ==
  \/ from = to
  \/ from \notin Terminal /\ to \in Successors[from]

-------------------------------------------------------------------------------
Row == [status : Statuses, version : Nat, file : Requests \cup {None},
        cancel : BOOLEAN, retry : Nat, job : Requests \cup {None}]

CreatedRow == [status |-> "CREATED", version |-> 1, file |-> None,
               cancel |-> FALSE, retry |-> 0, job |-> None]

Queued(row, f) ==
  [row EXCEPT !.status = "QUEUED", !.file = f, !.version = @ + 1]

CancelRequested(row) == [row EXCEPT !.cancel = TRUE, !.version = @ + 1]

\* Mutant of Dispatched: the version of the copy is not bumped.
DispatchedUnbumped(row, j) == [row EXCEPT !.status = "DISPATCHED", !.job = j]

Dispatched(row, j) ==
  [row EXCEPT !.status = "DISPATCHED", !.job = j, !.version = @ + 1]

Retried(row) ==
  [row EXCEPT !.status = "QUEUED", !.retry = @ + 1, !.job = None,
              !.cancel = FALSE, !.version = @ + 1]

Attached(row, j) == [row EXCEPT !.job = j, !.version = @ + 1]

\* Mutant of Reported: the handlers bump the version as the use cases do.
ReportedBumped(row, s) == [row EXCEPT !.status = s, !.version = @ + 1]

\* The event handlers set the status and leave the version of their copy alone.
Reported(row, s) == [row EXCEPT !.status = s]

\* Mutant of Retryable: the budget is not looked at.
RetryableForever(row) == row.status \in {"FAILED", "TIMEOUT"}

Retryable(row) == row.status \in {"FAILED", "TIMEOUT"} /\ row.retry < MaxAttempts

-------------------------------------------------------------------------------
\* Mutant of Stored: the WHERE clause names only the id.
StoredAlways(row, c) == c

\* UPDATE ... SET version = c.version WHERE version = c.version - 1.  Zero
\* affected rows is no error: the caller goes on as if the copy were stored.
Stored(row, c) == IF row.version = c.version - 1 THEN c ELSE row

\* UPDATE of repository method Transition.
Transitioned(row, from, to) ==
  IF row.status = from THEN [row EXCEPT !.status = to, !.version = @ + 1] ELSE row
===============================================================================
