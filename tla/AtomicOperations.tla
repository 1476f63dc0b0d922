--------------------------- MODULE AtomicOperations ---------------------------
(***************************************************************************)
(* What the concurrent use cases should add up to: each change of an       *)
(* operation's row happens at one instant, to the row as it then is.       *)
(* Nothing is overwritten from a stale copy, an upload finds the operation *)
(* CREATED, a dispatch finds it with its input file, a retry finds it      *)
(* failed and within its budget.  The one change that is not of the row as *)
(* its writer saw it is the second write of a retry, Attach.               *)
(***************************************************************************)
EXTENDS OperationRow

CONSTANTS Operations, PortTransitions

VARIABLE rows

Change(o, new) == rows' = [rows EXCEPT ![o] = new]

Init == rows = [o \in Operations |-> CreatedRow]

Upload(o) ==
  /\ rows[o].status = "CREATED"
  /\ \E f \in Requests : Change(o, Queued(rows[o], f))

Cancel(o) ==
  /\ rows[o].status \notin Terminal
  /\ Change(o, CancelRequested(rows[o]))

Dispatch(o) ==
  /\ rows[o].file # None
  /\ \E j \in Requests : Change(o, Dispatched(rows[o], j))

Retry(o) ==
  /\ Retryable(rows[o])
  /\ Change(o, Retried(rows[o]))

\* A retry has its job attached.  As a rule the row is the one that Retry left.  If
\* another write came in the place of Retry, Attach does what Retry would have done,
\* and takes away the status and the cancel request that the other write left.
Attach(o) ==
  /\ rows[o].file # None
  /\ \E n \in {rows[o].retry, rows[o].retry + 1} \ {0}, j \in Requests :
        /\ n <= MaxAttempts
        /\ Change(o, Attached([rows[o] EXCEPT !.status = "QUEUED", !.cancel = FALSE,
                                              !.retry = n], j))

Port(o) ==
  \E t \in PortTransitions :
    rows[o].status = t[1] /\ Change(o, Transitioned(rows[o], t[1], t[2]))

Next ==
  \E o \in Operations :
    Upload(o) \/ Cancel(o) \/ Dispatch(o) \/ Retry(o) \/ Attach(o) \/ Port(o)

Spec == Init /\ [][Next]_rows
===============================================================================
