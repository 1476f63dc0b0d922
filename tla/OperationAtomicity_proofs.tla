----------------------- MODULE OperationAtomicity_proofs -----------------------
(***************************************************************************)
(* The rows as atomic changes.  Every write that lands is a change that    *)
(* AtomicOperations allows: OperationLifecycle implements it, with any     *)
(* outside caller of repository method Transition.  Then the deployed      *)
(* wiring, where nobody calls that method (PortTransitions = {}): no row   *)
(* ever leaves CREATED, QUEUED and DISPATCHED, and no retry is accepted.   *)
(***************************************************************************)
EXTENDS OperationLifecycle_proofs

\* A write that does not land leaves the table as it was.
LEMMA LostWrite ==
  ASSUME TypeOK, NEW r \in Requests, NEW step, NEW next, NEW c,
         Update(r, step, c, next), RowOf(r).version # c.version - 1
  PROVE  rows' = rows
<1>1. req[r].op \in Operations
  BY DEF TypeOK, Request
<1>2. QED
  BY <1>1 DEF TypeOK, Update, Stored, RowOf

\* A write that lands replaces the row.
LEMMA LandedWrite ==
  ASSUME NEW r \in Requests, NEW step, NEW next, NEW c,
         Update(r, step, c, next), RowOf(r).version = c.version - 1
  PROVE  rows' = [rows EXCEPT ![req[r].op] = c]
BY DEF Update, Stored, RowOf

\* An upload's write is Upload of the abstract specification, or lost.
LEMMA UploadIsAtomic ==
  ASSUME IInv, NEW r \in Requests, UploadUpdate(r)
  PROVE  rows' = rows \/ Atomic!Upload(req[r].op)
<1> DEFINE c == Queued(copy[r], r)
<1>1. Update(r, "u_update", c, "u_append")
  BY DEF UploadUpdate
<1>2. copy[r] \in Row /\ RowOf(r) \in Row /\ req[r].op \in Operations /\ RequestInv(r)
  BY DEF IInv, TypeOK, Request, RowOf
<1>3. c.version = copy[r].version + 1
  BY <1>2, RowFields, "QUEUED" \in Statuses DEF Statuses
<1>4. Fresh(r) /\ copy[r].status = "CREATED"
  BY <1>1, <1>2 DEF Update, Call, RequestInv, Holding
<1>5. CASE RowOf(r).version = c.version - 1
  <2>1. copy[r] = RowOf(r)
    BY <1>2, <1>3, <1>4, <1>5 DEF Fresh, Row
  <2>2. rows' = [rows EXCEPT ![req[r].op] = c]
    BY <1>1, <1>5, LandedWrite
  <2>3. QED
    BY <1>4, <2>1, <2>2 DEF Atomic!Upload, Atomic!Change, Atomic!Queued, Queued, RowOf
<1>6. CASE RowOf(r).version # c.version - 1
  BY <1>1, <1>6, LostWrite DEF IInv
<1>7. QED
  BY <1>5, <1>6

\* A cancel's write is Cancel of the abstract specification, or lost.
LEMMA CancelIsAtomic ==
  ASSUME IInv, NEW r \in Requests, CancelUpdate(r)
  PROVE  rows' = rows \/ Atomic!Cancel(req[r].op)
<1> DEFINE c == CancelRequested(copy[r])
<1>1. Update(r, "c_update", c, "c_append")
  BY DEF CancelUpdate
<1>2. copy[r] \in Row /\ RowOf(r) \in Row /\ req[r].op \in Operations /\ RequestInv(r)
  BY DEF IInv, TypeOK, Request, RowOf
<1>3. c.version = copy[r].version + 1
  BY <1>2, RowFields, "QUEUED" \in Statuses DEF Statuses
<1>4. Fresh(r) /\ copy[r].status \notin Terminal
  BY <1>1, <1>2 DEF Update, Call, RequestInv, Holding
<1>5. CASE RowOf(r).version = c.version - 1
  <2>1. copy[r] = RowOf(r)
    BY <1>2, <1>3, <1>4, <1>5 DEF Fresh, Row
  <2>2. rows' = [rows EXCEPT ![req[r].op] = c]
    BY <1>1, <1>5, LandedWrite
  <2>3. QED
    BY <1>4, <2>1, <2>2 DEF Atomic!Cancel, Atomic!Change, Atomic!CancelRequested,
                           CancelRequested, RowOf, Terminal, Atomic!Terminal
<1>6. CASE RowOf(r).version # c.version - 1
  BY <1>1, <1>6, LostWrite DEF IInv
<1>7. QED
  BY <1>5, <1>6

\* A dispatch's write is Dispatch of the abstract specification, or lost.
LEMMA DispatchIsAtomic ==
  ASSUME IInv, NEW r \in Requests, DispatchUpdate(r)
  PROVE  rows' = rows \/ Atomic!Dispatch(req[r].op)
<1> DEFINE c == Dispatched(copy[r], r)
<1>1. Update(r, "d_update", c, "d_append")
  BY DEF DispatchUpdate
<1>2. copy[r] \in Row /\ RowOf(r) \in Row /\ req[r].op \in Operations /\ RequestInv(r)
  BY DEF IInv, TypeOK, Request, RowOf
<1>3. c.version = copy[r].version + 1
  BY <1>2, RowFields, "QUEUED" \in Statuses DEF Statuses
<1>4. Fresh(r) /\ copy[r].file # None
  BY <1>1, <1>2 DEF Update, Call, RequestInv, Holding, WithFile
<1>5. CASE RowOf(r).version = c.version - 1
  <2>1. copy[r] = RowOf(r)
    BY <1>2, <1>3, <1>4, <1>5 DEF Fresh, Row
  <2>2. rows' = [rows EXCEPT ![req[r].op] = c]
    BY <1>1, <1>5, LandedWrite
  <2>3. QED
    BY <1>4, <2>1, <2>2 DEF Atomic!Dispatch, Atomic!Change, Atomic!Dispatched, Dispatched, RowOf
<1>6. CASE RowOf(r).version # c.version - 1
  BY <1>1, <1>6, LostWrite DEF IInv
<1>7. QED
  BY <1>5, <1>6

\* The first write of a retry is Retry of the abstract specification, or lost.
LEMMA RetryIsAtomic ==
  ASSUME IInv, NEW r \in Requests, RetryUpdate(r)
  PROVE  rows' = rows \/ Atomic!Retry(req[r].op)
<1> DEFINE c == Retried(copy[r])
<1>1. Update(r, "r_update", c, "r_job")
  BY DEF RetryUpdate
<1>2. copy[r] \in Row /\ RowOf(r) \in Row /\ req[r].op \in Operations /\ RequestInv(r)
  BY DEF IInv, TypeOK, Request, RowOf
<1>3. c.version = copy[r].version + 1
  BY <1>2, RowFields, "QUEUED" \in Statuses DEF Statuses
<1>4. Fresh(r) /\ Retryable(copy[r])
  BY <1>1, <1>2 DEF Update, Call, RequestInv, Holding, BeforeRetry
<1>5. CASE RowOf(r).version = c.version - 1
  <2>1. copy[r] = RowOf(r)
    BY <1>2, <1>3, <1>4, <1>5 DEF Fresh, Row
  <2>2. rows' = [rows EXCEPT ![req[r].op] = c]
    BY <1>1, <1>5, LandedWrite
  <2>3. QED
    BY <1>4, <2>1, <2>2 DEF Atomic!Retry, Atomic!Change, Atomic!Retried, Retried, RowOf,
                           Retryable, Atomic!Retryable
<1>6. CASE RowOf(r).version # c.version - 1
  BY <1>1, <1>6, LostWrite DEF IInv
<1>7. QED
  BY <1>5, <1>6

\* The row that Attach of the abstract specification leaves when it counts to n.
Requeued(row, n, j) ==
  Attached([row EXCEPT !.status = "QUEUED", !.cancel = FALSE, !.retry = n], j)

\* Two rows that agree on what a retry keeps, and differ in nothing it does not set.
LEMMA RequeuedCopy ==
  ASSUME NEW row \in Row, NEW c \in Row, NEW j \in Requests,
         c.version = row.version, c.file = row.file, c.status = "QUEUED", ~c.cancel
  PROVE  Attached(c, j) = Requeued(row, c.retry, j)
<1> DEFINE d == [row EXCEPT !.status = "QUEUED", !.cancel = FALSE, !.retry = c.retry]
<1>1. c = [d EXCEPT !.job = c.job]
  BY DEF Row
<1>2. d \in Row /\ d.version = c.version
  <2>1. "QUEUED" \in Statuses /\ c.retry \in Nat
    BY DEF Statuses, Row
  <2>2. QED
    BY <2>1 DEF Row
<1>3. Attached(c, j) = Attached(d, j)
  BY <1>1, <1>2 DEF Attached, Row
<1>4. QED
  BY <1>3 DEF Requeued

\* The second write of a retry is Attach of the abstract specification, or lost.
LEMMA AttachIsAtomic ==
  ASSUME IInv, NEW r \in Requests, RetryAttach(r)
  PROVE  rows' = rows \/ Atomic!Attach(req[r].op)
<1> DEFINE c == Attached(copy[r], r)
<1>1. Update(r, "r_attach", c, "r_append")
  BY DEF RetryAttach
<1>2. copy[r] \in Row /\ RowOf(r) \in Row /\ req[r].op \in Operations /\ RequestInv(r)
  BY DEF IInv, TypeOK, Request, RowOf
<1>3. c.version = copy[r].version + 1
  BY <1>2, RowFields, "QUEUED" \in Statuses DEF Statuses
<1>4. AfterRetry(r) /\ copy[r].file # None /\ copy[r].file = RowOf(r).file
  BY <1>1, <1>2 DEF Update, Call, RequestInv, WithFile
<1>5. CASE RowOf(r).version = c.version - 1
  <2>1. copy[r].version = RowOf(r).version
    BY <1>2, <1>3, <1>5 DEF Row
  <2>2. c = Requeued(RowOf(r), copy[r].retry, r)
    BY <1>2, <1>4, <2>1, RequeuedCopy DEF AfterRetry
  <2>3. copy[r].retry \in {RowOf(r).retry, RowOf(r).retry + 1} \ {0} /\ copy[r].retry <= MaxAttempts
    BY <1>4, <2>1 DEF AfterRetry
  <2>4. rows' = [rows EXCEPT ![req[r].op] = c]
    BY <1>1, <1>5, LandedWrite
  <2>5. QED
    BY <1>4, <2>2, <2>3, <2>4 DEF Atomic!Attach, Atomic!Change, Atomic!Attached, Attached,
                                 Requeued, RowOf
<1>6. CASE RowOf(r).version # c.version - 1
  BY <1>1, <1>6, LostWrite DEF IInv
<1>7. QED
  BY <1>5, <1>6

\* A report's write is always lost.
LEMMA ReportIsLost ==
  ASSUME IInv, NEW r \in Requests, ReportUpdate(r)
  PROVE  rows' = rows
<1> DEFINE c == Reported(copy[r], ReportedStatus[req[r].kind])
<1>1. Update(r, "h_update", c, "h_append") /\ req[r].kind \in Reports
  BY DEF ReportUpdate
<1>2. copy[r] \in Row /\ RowOf(r) \in Row /\ RequestInv(r)
  BY DEF IInv, TypeOK, Request, RowOf
<1>3. c.version = copy[r].version
  <2>1. ReportedStatus[req[r].kind] \in Statuses
    BY <1>1 DEF Reports, ReportedStatus, Statuses, Terminal
  <2>2. QED
    BY <1>2, <2>1, RowFields
<1>4. Fresh(r)
  BY <1>1, <1>2 DEF Update, Call, RequestInv, Holding
<1>5. RowOf(r).version # c.version - 1
  BY <1>2, <1>3, <1>4 DEF Fresh, Row
<1>6. QED
  BY <1>1, <1>5, LostWrite DEF IInv

-------------------------------------------------------------------------------
\* A step of the specification is a step of the abstract one, or moves no row.
LEMMA StepIsAtomic ==
  ASSUME IInv, [Next]_vars
  PROVE  rows' = rows \/ Atomic!Next
<1>1. \A r \in Requests : req[r].op \in Operations
  BY DEF IInv, TypeOK, Request
<1>2. ASSUME NEW r \in Requests, Upload(r) PROVE rows' = rows \/ Atomic!Next
  BY <1>1, <1>2, UploadIsAtomic DEF Upload, UploadBegin, UploadStage, UploadRefuse,
     UploadAppend, Begin, AppendFact, Atomic!Next
<1>3. ASSUME NEW r \in Requests, Dispatch(r) PROVE rows' = rows \/ Atomic!Next
  BY <1>1, <1>3, DispatchIsAtomic DEF Dispatch, DispatchLoad, DispatchPanic, Stop,
     DispatchTransfer, DispatchStart, DispatchChunks, DispatchProcess, DispatchJob, CreateJob,
     DispatchAttempt, CreateAttempt, DispatchAppend, AppendFact, Atomic!Next
<1>4. ASSUME NEW r \in Requests, Cancel(r) PROVE rows' = rows \/ Atomic!Next
  BY <1>1, <1>4, CancelIsAtomic DEF Cancel, CancelBegin, Begin, CancelAppend, AppendFact,
     Atomic!Next
<1>5. ASSUME NEW r \in Requests, Retry(r) PROVE rows' = rows \/ Atomic!Next
  BY <1>1, <1>5, RetryIsAtomic, AttachIsAtomic DEF Retry, RetryBegin, Begin, RetryJob, CreateJob,
     RetryAttempt, CreateAttempt, RetryAppend, AppendFact, Atomic!Next
<1>6. ASSUME NEW r \in Requests, Report(r) PROVE rows' = rows
  BY <1>6, ReportIsLost DEF Report, ReportBegin, Begin, ReportAppend, AppendFact
<1>7. ASSUME NEW r \in Requests, CallFails(r) PROVE rows' = rows
  BY <1>7 DEF CallFails
<1>8. ASSUME NEW n \in Nodes, NodeCrash(n) PROVE rows' = rows
  BY <1>8 DEF NodeCrash, Stop
<1>9. ASSUME NEW o \in Operations, PortTransition(o) PROVE Atomic!Next
  BY <1>9 DEF PortTransition, Transitioned, Atomic!Next, Atomic!Port, Atomic!Change,
              Atomic!Transitioned
<1>10. CASE UNCHANGED vars
  BY <1>10 DEF vars
<1>11. QED
  BY <1>2, <1>3, <1>4, <1>5, <1>6, <1>7, <1>8, <1>9, <1>10 DEF Next, Serve

\* The uploads, cancels, dispatches and retries of all nodes, interleaved call by call
\* with failures, crashes and an outside caller, add up to the atomic changes of the
\* rows that AtomicOperations lists.
THEOREM Atomicity == Spec => AtomicSpec
<1>1. Init => Atomic!Init
  BY DEF Init, Atomic!Init, CreatedRow, Atomic!CreatedRow
<1>2. IInv /\ [Next]_vars => [Atomic!Next]_rows
  BY StepIsAtomic
<1>3. QED
  BY <1>1, <1>2, Invariance, PTL DEF Spec, AtomicSpec, Atomic!Spec

\* What the abstract changes do to the count of retries.
LEMMA AtomicCount ==
  ASSUME TypeOK, NEW o \in Operations,
         Atomic!Upload(o) \/ Atomic!Cancel(o) \/ Atomic!Dispatch(o) \/ Atomic!Retry(o)
           \/ Atomic!Attach(o) \/ Atomic!Port(o)
  PROVE  \A p \in Operations : rows'[p].retry >= rows[p].retry
<1>1. rows[o] \in Row /\ rows[o].retry \in Nat
  BY DEF TypeOK, Row
<1>2. /\ \A f : Atomic!Queued(rows[o], f).retry = rows[o].retry
      /\ \A j : Atomic!Dispatched(rows[o], j).retry = rows[o].retry
      /\ Atomic!CancelRequested(rows[o]).retry = rows[o].retry
      /\ Atomic!Retried(rows[o]).retry = rows[o].retry + 1
      /\ \A s, t : Atomic!Transitioned(rows[o], s, t).retry = rows[o].retry
      /\ \A n, j : Atomic!Attached([rows[o] EXCEPT !.status = "QUEUED", !.cancel = FALSE,
                                                   !.retry = n], j).retry = n
  BY <1>1 DEF Atomic!Queued, Atomic!Dispatched, Atomic!CancelRequested, Atomic!Retried,
              Atomic!Transitioned, Atomic!Attached, Row
<1>3. PICK new : rows' = [rows EXCEPT ![o] = new] /\ new.retry \in {rows[o].retry, rows[o].retry + 1}
  <2>1. CASE Atomic!Upload(o)
    BY <1>2, <2>1 DEF Atomic!Upload, Atomic!Change
  <2>2. CASE Atomic!Cancel(o)
    BY <1>2, <2>2 DEF Atomic!Cancel, Atomic!Change
  <2>3. CASE Atomic!Dispatch(o)
    BY <1>2, <2>3 DEF Atomic!Dispatch, Atomic!Change
  <2>4. CASE Atomic!Retry(o)
    BY <1>2, <2>4 DEF Atomic!Retry, Atomic!Change
  <2>5. CASE Atomic!Attach(o)
    <3> DEFINE Put(n, j) == Atomic!Attached([rows[o] EXCEPT !.status = "QUEUED",
                                                            !.cancel = FALSE, !.retry = n], j)
    <3>1. PICK n \in {rows[o].retry, rows[o].retry + 1}, j \in Requests :
            rows' = [rows EXCEPT ![o] = Put(n, j)]
      BY <2>5 DEF Atomic!Attach, Atomic!Change
    <3>2. Put(n, j).retry = n
      BY <1>2
    <3> HIDE DEF Put
    <3>3. QED
      BY <3>1, <3>2
  <2>6. CASE Atomic!Port(o)
    <3> DEFINE new(t) == Atomic!Transitioned(rows[o], t[1], t[2])
    <3>1. PICK t \in PortTransitions : rows' = [rows EXCEPT ![o] = new(t)]
      BY <2>6 DEF Atomic!Port, Atomic!Change
    <3>2. new(t).retry = rows[o].retry
      BY <1>2
    <3> HIDE DEF new
    <3>3. QED
      BY <3>1, <3>2
  <2>7. QED
    BY <2>1, <2>2, <2>3, <2>4, <2>5, <2>6
<1>4. \A p \in Operations : rows[p].retry \in Nat
  BY DEF TypeOK, Row
<1>5. QED
  BY <1>1, <1>3, <1>4 DEF TypeOK

\* No write brings an old retry count back: neither a lost race, nor the second write
\* of a retry whose first was lost.
THEOREM CountsNeverFall == Spec => RetryCountNeverFalls
<1>1. ASSUME TypeOK, Atomic!Next PROVE \A o \in Operations : rows'[o].retry >= rows[o].retry
  BY <1>1, AtomicCount DEF Atomic!Next
<1>2. IInv /\ [Next]_vars => [\A o \in Operations : rows'[o].retry >= rows[o].retry]_rows
  BY <1>1, StepIsAtomic DEF IInv
<1>3. QED
  BY <1>2, Invariance, PTL DEF Spec, RetryCountNeverFalls

-------------------------------------------------------------------------------
(* The deployed wiring *)

Live == {"CREATED", "QUEUED", "DISPATCHED"}

\* Without an outside caller no retry passes its first check.
Closed ==
  /\ ReportsNeverStored
  /\ \A r \in Requests : pc[r] \notin RetrySteps

AInv == IInv /\ Closed

\* The initial state satisfies both invariants.
LEMMA InitAInv == Init => AInv
BY InitInv DEF AInv, Init, Closed, ReportsNeverStored, CreatedRow, RetrySteps

\* Uploads, cancels and dispatches are all that moves a row.
DeployedMove(o) ==
  \/ Atomic!Upload(o)
  \/ Atomic!Cancel(o)
  \/ Atomic!Dispatch(o) /\ rows[o].status # "CREATED"

LEMMA DeployedStep ==
  ASSUME PortTransitions = {}, AInv, [Next]_vars
  PROVE  rows' = rows \/ \E o \in Operations : DeployedMove(o)
<1>1. \A r \in Requests : req[r].op \in Operations
  BY DEF AInv, IInv, TypeOK, Request
<1>2. IInv /\ \A o \in Operations : rows[o].file # None => rows[o].status # "CREATED"
  BY DEF AInv, IInv, RowInv
<1>3. ASSUME NEW r \in Requests, Serve(r)
      PROVE  rows' = rows \/ \E o \in Operations : DeployedMove(o)
  <2>1. CASE Upload(r)
    BY <1>1, <1>2, <2>1, UploadIsAtomic DEF Upload, UploadBegin, UploadStage, UploadRefuse,
       UploadAppend, Begin, AppendFact, DeployedMove
  <2>2. CASE Dispatch(r)
    <3>1. CASE DispatchUpdate(r)
      <4>1. CASE Atomic!Dispatch(req[r].op)
        <5>1. rows[req[r].op].file # None
          BY <4>1 DEF Atomic!Dispatch
        <5>2. QED
          BY <1>1, <1>2, <4>1, <5>1 DEF DeployedMove
      <4>2. QED
        BY <1>2, <3>1, <4>1, DispatchIsAtomic
    <3>2. CASE ~DispatchUpdate(r)
      BY <2>2, <3>2 DEF Dispatch, DispatchLoad, DispatchPanic, Stop, DispatchTransfer,
         DispatchStart, DispatchChunks, DispatchProcess, DispatchJob, CreateJob,
         DispatchAttempt, CreateAttempt, DispatchAppend, AppendFact
    <3>3. QED
      BY <3>1, <3>2
  <2>3. CASE Cancel(r)
    BY <1>1, <1>2, <2>3, CancelIsAtomic DEF Cancel, CancelBegin, Begin, CancelAppend,
       AppendFact, DeployedMove
  <2>4. CASE Retry(r)
    <3>1. RetryBegin(r)
      BY <2>4 DEF AInv, Closed, RetrySteps, Retry, RetryUpdate, RetryJob, RetryAttempt,
         RetryAttach, RetryAppend, Update, CreateJob, CreateAttempt, AppendFact, Call
    <3>2. QED
      BY <3>1 DEF RetryBegin, Begin
  <2>5. CASE Report(r)
    BY <1>2, <2>5, ReportIsLost DEF Report, ReportBegin, Begin, ReportAppend, AppendFact
  <2>6. QED
    BY <1>3, <2>1, <2>2, <2>3, <2>4, <2>5 DEF Serve
<1>4. ASSUME NEW r \in Requests, CallFails(r) PROVE rows' = rows
  BY <1>4 DEF CallFails
<1>5. ASSUME NEW n \in Nodes, NodeCrash(n) PROVE rows' = rows
  BY <1>5 DEF NodeCrash, Stop
<1>6. ASSUME NEW o \in Operations, PortTransition(o) PROVE FALSE
  BY <1>6 DEF PortTransition
<1>7. CASE UNCHANGED vars
  BY <1>7 DEF vars
<1>8. QED
  BY <1>3, <1>4, <1>5, <1>6, <1>7 DEF Next

\* Such a move takes the status of one row forward, if at all.
LEMMA AtomicMove ==
  ASSUME TypeOK, ReportsNeverStored, NEW o \in Operations, DeployedMove(o)
  PROVE  /\ \A p \in Operations : p # o => rows'[p] = rows[p]
         /\ \/ rows'[o].status = rows[o].status
            \/ rows[o].status = "CREATED" /\ rows'[o].status = "QUEUED"
            \/ rows[o].status = "QUEUED" /\ rows'[o].status = "DISPATCHED"
<1>1. rows[o] \in Row /\ rows[o].status \in Live
  BY DEF TypeOK, ReportsNeverStored, Live
<1>2. /\ \A f \in Requests : Atomic!Queued(rows[o], f).status = "QUEUED"
      /\ Atomic!CancelRequested(rows[o]).status = rows[o].status
      /\ \A j \in Requests : Atomic!Dispatched(rows[o], j).status = "DISPATCHED"
  BY <1>1 DEF Row, Atomic!Queued, Atomic!CancelRequested, Atomic!Dispatched
<1>3. PICK new : rows' = [rows EXCEPT ![o] = new] /\
        \/ rows[o].status = "CREATED" /\ new.status = "QUEUED"
        \/ new.status = rows[o].status
        \/ rows[o].status # "CREATED" /\ new.status = "DISPATCHED"
  <2>1. CASE Atomic!Upload(o)
    BY <1>2, <2>1 DEF Atomic!Upload, Atomic!Change
  <2>2. CASE Atomic!Cancel(o)
    BY <1>2, <2>2 DEF Atomic!Cancel, Atomic!Change
  <2>3. CASE DeployedMove(o) /\ ~Atomic!Upload(o) /\ ~Atomic!Cancel(o)
    BY <1>2, <2>3 DEF DeployedMove, Atomic!Upload, Atomic!Cancel, Atomic!Dispatch, Atomic!Change
  <2>4. QED
    BY <2>1, <2>2, <2>3 DEF DeployedMove
<1>4. QED
  BY <1>1, <1>3 DEF TypeOK, Live

\* No step lets a retry in.
LEMMA NoRetryBegins ==
  ASSUME PortTransitions = {}, AInv, [Next]_vars, NEW q \in Requests
  PROVE  pc'[q] \notin RetrySteps
<1>1. pc[q] \notin RetrySteps /\ pc \in [Requests -> Steps \cup {"idle", "done"}]
  BY DEF AInv, Closed, IInv, TypeOK
<1>2. ASSUME NEW r \in Requests, Serve(r) \/ CallFails(r), pc'[q] # pc[q]
      PROVE  pc'[q] \notin RetrySteps
  <2>1. CASE Retry(r)
    <3>1. RetryBegin(r)
      BY <2>1 DEF AInv, Closed, RetrySteps, Retry, RetryUpdate, RetryJob, RetryAttempt,
         RetryAttach, RetryAppend, Update, CreateJob, CreateAttempt, AppendFact, Call
    <3>2. req[r].op \in Operations
      BY DEF AInv, IInv, TypeOK, Request
    <3>3. ~Retryable(RowOf(r))
      BY <3>2 DEF AInv, Closed, ReportsNeverStored, Retryable, RowOf
    <3>4. QED
      BY <3>1, <3>3, <1>1, <1>2 DEF RetryBegin, Begin, Fail, Goto, RetrySteps
  <2>2. CASE DispatchPanic(r)
    BY <1>1, <2>2 DEF DispatchPanic, Stop, RetrySteps
  <2>3. CASE Upload(r)
    BY <1>1, <1>2, <2>3 DEF Upload, UploadBegin, UploadStage, UploadRefuse, UploadUpdate,
       UploadAppend, Begin, Update, AppendFact, Call, Goto, Fail, RetrySteps
  <2>4. CASE Dispatch(r) /\ ~DispatchPanic(r)
    BY <1>1, <1>2, <2>4 DEF Dispatch, DispatchLoad, DispatchTransfer, DispatchStart,
       DispatchChunks, DispatchProcess, DispatchJob, CreateJob, DispatchAttempt, CreateAttempt,
       DispatchUpdate, DispatchAppend, Update, AppendFact, Call, Goto, Fail, RetrySteps
  <2>5. CASE Cancel(r) \/ Report(r) \/ CallFails(r)
    BY <1>1, <1>2, <2>5 DEF Cancel, CancelBegin, CancelUpdate, CancelAppend, Report, ReportBegin,
       ReportUpdate, ReportAppend, CallFails, Begin, Update, AppendFact, Call, Goto, Fail,
       RetrySteps
  <2>6. QED
    BY <1>2, <2>1, <2>2, <2>3, <2>4, <2>5 DEF Serve
<1>3. ASSUME NEW n \in Nodes, NodeCrash(n) PROVE pc'[q] \notin RetrySteps
  BY <1>1, <1>3 DEF NodeCrash, Stop, RetrySteps
<1>4. ASSUME NEW o \in Operations, PortTransition(o) PROVE FALSE
  BY <1>4 DEF PortTransition
<1>5. CASE UNCHANGED vars
  BY <1>1, <1>5 DEF vars, request
<1>6. QED
  BY <1>1, <1>2, <1>3, <1>4, <1>5 DEF Next

\* Every step keeps both invariants.
LEMMA NextAInv ==
  ASSUME PortTransitions = {}, AInv, [Next]_vars
  PROVE  AInv'
<1>1. IInv'
  BY NextInv DEF AInv
<1>2. ReportsNeverStored'
  <2>1. CASE rows' = rows
    BY <2>1 DEF AInv, Closed, ReportsNeverStored
  <2>2. ASSUME NEW o \in Operations, DeployedMove(o) PROVE ReportsNeverStored'
    BY <2>2, AtomicMove DEF AInv, Closed, IInv, ReportsNeverStored
  <2>3. QED
    BY <2>1, <2>2, DeployedStep
<1>3. \A q \in Requests : pc'[q] \notin RetrySteps
  BY NoRetryBegins
<1>4. QED
  BY <1>1, <1>2, <1>3 DEF AInv, Closed

\* Both invariants hold in every state.
LEMMA AInvariance == ASSUME PortTransitions = {} PROVE Spec => []AInv
BY InitAInv, NextAInv, PTL DEF Spec

-------------------------------------------------------------------------------
\* No event of a worker ever moves a row: an operation stays CREATED, QUEUED or
\* DISPATCHED for ever, and with it every retry is refused.
THEOREM ReportsAreLost ==
  ASSUME PortTransitions = {} PROVE Spec => []ReportsNeverStored
<1>1. AInv => ReportsNeverStored
  BY DEF AInv, Closed
<1>2. QED
  BY <1>1, AInvariance, PTL

\* No row takes a status change that the transition table forbids.
THEOREM MovesAllowed ==
  ASSUME PortTransitions = {} PROVE Spec => StatusMovesAllowed
<1>1. ASSUME AInv, NEW o \in Operations, DeployedMove(o), NEW p \in Operations
      PROVE  CanTransition(rows[p].status, rows'[p].status)
  BY <1>1, AtomicMove DEF AInv, Closed, IInv, CanTransition, Successors, Terminal
<1>2. AInv /\ [Next]_vars =>
        [\A o \in Operations : CanTransition(rows[o].status, rows'[o].status)]_rows
  BY <1>1, DeployedStep
<1>3. QED
  BY <1>2, AInvariance, PTL DEF Spec, StatusMovesAllowed
===============================================================================
