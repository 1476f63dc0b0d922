----------------------- MODULE OperationLifecycle_proofs -----------------------
(***************************************************************************)
(* Proofs about OperationLifecycle, for any number of requests, nodes and  *)
(* operations, with or without faults.                                     *)
(*                                                                         *)
(* The argument turns on the copies.  While a request holds a copy that it *)
(* read with GetByID, the copy is as old as its version says: if the row   *)
(* still has that version, the row still is the copy (Fresh).  So a write  *)
(* that lands is a change of the current row, with one exception, the      *)
(* second Update of a retry, which may land although the first one did     *)
(* not.  It still leaves the row's file alone, names a stored job, and is  *)
(* one retry ahead of the row at most (BeforeRetry, AfterRetry).           *)
(***************************************************************************)
EXTENDS OperationLifecycle, TLAPS

Holding == {"u_stage", "u_update", "c_update", "r_update", "h_update",
            "d_transfer", "d_start", "d_chunks", "d_process", "d_job", "d_attempt",
            "d_update"}

\* The steps of a dispatch and of a retry that go on with an input file.
WithFile == {"d_transfer", "d_start", "d_chunks", "d_process", "d_job", "d_attempt",
             "d_update", "r_update", "r_job", "r_attempt", "r_attach"}

Fresh(r) ==
  /\ copy[r].version <= RowOf(r).version
  /\ copy[r].version = RowOf(r).version => copy[r] = RowOf(r)

\* A retry before its first Update: how far the row's count can be from the copy's.
BeforeRetry(r) ==
  /\ Retryable(copy[r])
  /\ copy[r].retry <= RowOf(r).retry
  /\ RowOf(r).version = copy[r].version + 1 => RowOf(r).retry <= copy[r].retry + 1

\* A retry after it, whether the Update landed or not.
AfterRetry(r) ==
  /\ copy[r].status = "QUEUED" /\ ~copy[r].cancel
  /\ copy[r].retry # 0 /\ copy[r].retry <= MaxAttempts
  /\ copy[r].version <= RowOf(r).version
  /\ copy[r].version = RowOf(r).version =>
        copy[r].retry \in {RowOf(r).retry, RowOf(r).retry + 1}

HasJob(r)     == \E j \in jobs : j.id = r
HasAttempt(r) == \E a \in attempts : a.job = r

RequestInv(r) ==
  /\ pc[r] \in Holding => Fresh(r)
  /\ pc[r] \in {"u_stage", "u_update"} => copy[r].status = "CREATED"
  /\ pc[r] \in WithFile => copy[r].file # None /\ copy[r].file = RowOf(r).file
  /\ pc[r] = "c_update" => copy[r].status \notin Terminal
  /\ pc[r] = "r_update" => BeforeRetry(r)
  /\ pc[r] \in {"r_job", "r_attempt", "r_attach"} => AfterRetry(r)
  /\ pc[r] \in {"d_attempt", "d_update", "r_attempt", "r_attach"} => HasJob(r)
  /\ pc[r] \in {"d_update", "r_attach"} => HasAttempt(r)

RowInv(o) ==
  /\ rows[o].status = "CREATED" <=> rows[o].file = None
  /\ rows[o].retry <= MaxAttempts
  /\ rows[o].job # None =>
        req[rows[o].job].op = o /\ HasJob(rows[o].job) /\ HasAttempt(rows[o].job)

IInv ==
  /\ TypeOK
  /\ TransferDescribesInput
  /\ WorkNeedsInput
  /\ \A r \in Requests : RequestInv(r)
  /\ \A o \in Operations : RowInv(o)

-------------------------------------------------------------------------------
\* A row changes by one version at a time, keeps its file once it has one, and counts
\* one retry at most.
RowStep(o) ==
  \/ rows'[o] = rows[o]
  \/ /\ rows'[o].version = rows[o].version + 1
     /\ rows[o].file # None => rows'[o].file = rows[o].file
     /\ rows'[o].retry \in {rows[o].retry, rows[o].retry + 1}

\* The tables of jobs and attempts only grow.
RecordsKept ==
  /\ \A r \in Requests : HasJob(r) => HasJob(r)'
  /\ \A r \in Requests : HasAttempt(r) => HasAttempt(r)'

\* The initial state satisfies the invariant.
LEMMA InitInv == Init => IInv
<1> SUFFICES ASSUME Init PROVE IInv
  OBVIOUS
<1>1. CreatedRow \in Row
  BY DEF CreatedRow, Row, Statuses, Terminal
<1>2. TypeOK
  BY <1>1 DEF Init, TypeOK, Steps
<1>3. TransferDescribesInput /\ WorkNeedsInput
  BY DEF Init, TransferDescribesInput, WorkNeedsInput
<1>4. ASSUME NEW r \in Requests PROVE RequestInv(r)
  BY DEF Init, RequestInv, Holding, WithFile
<1>5. ASSUME NEW o \in Operations PROVE RowInv(o)
  BY BudgetAssumption DEF Init, RowInv, CreatedRow
<1>6. QED
  BY <1>2, <1>3, <1>4, <1>5 DEF IInv

\* A request that does not move keeps its invariant while rows move by RowStep.
LEMMA OtherRequests ==
  ASSUME TypeOK, TypeOK', req' = req, RecordsKept,
         \A o \in Operations : RowStep(o),
         NEW r \in Requests, RequestInv(r), pc'[r] = pc[r], copy'[r] = copy[r]
  PROVE  RequestInv(r)'
<1>1. req[r].op \in Operations
  BY DEF TypeOK, Request
<1>2. copy[r] \in Row /\ RowOf(r) \in Row /\ RowOf(r)' \in Row
  BY <1>1 DEF TypeOK, RowOf
<1>3. RowOf(r)' = RowOf(r) \/ (/\ RowOf(r)'.version = RowOf(r).version + 1
                               /\ RowOf(r).file # None => RowOf(r)'.file = RowOf(r).file
                               /\ RowOf(r)'.retry \in {RowOf(r).retry, RowOf(r).retry + 1})
  BY <1>1 DEF RowStep, RowOf
<1>4. Fresh(r) => Fresh(r)'
  BY <1>2, <1>3 DEF Fresh, Row
<1>5. Fresh(r) /\ BeforeRetry(r) => BeforeRetry(r)'
  BY <1>2, <1>3 DEF Fresh, BeforeRetry, Retryable, Row
<1>6. AfterRetry(r) => AfterRetry(r)'
  BY <1>2, <1>3 DEF AfterRetry, Row
<1>7. "r_update" \in Holding
  BY DEF Holding
<1>8. QED
  BY <1>3, <1>4, <1>5, <1>6, <1>7 DEF RequestInv, RecordsKept

\* A request that is over has nothing to keep.
LEMMA IdleRequests ==
  ASSUME NEW r \in Requests, pc'[r] \in {"idle", "done", "u_append", "c_append",
                                         "r_append", "d_append", "h_append", "d_load"}
  PROVE  RequestInv(r)'
BY DEF RequestInv, Holding, WithFile

-------------------------------------------------------------------------------
\* The changes of the use cases keep a row a row.
LEMMA RowTypes ==
  ASSUME NEW row \in Row, NEW q \in Requests, NEW s \in Statuses
  PROVE  /\ Queued(row, q) \in Row /\ CancelRequested(row) \in Row
         /\ Dispatched(row, q) \in Row /\ Retried(row) \in Row
         /\ Attached(row, q) \in Row /\ Reported(row, s) \in Row
<1>1. /\ \A x \in Row, v \in Nat : [x EXCEPT !.version = v] \in Row
      /\ \A x \in Row, v \in Nat : [x EXCEPT !.retry = v] \in Row
      /\ \A x \in Row, v \in Statuses : [x EXCEPT !.status = v] \in Row
      /\ \A x \in Row, v \in Requests \cup {None} : [x EXCEPT !.file = v] \in Row
      /\ \A x \in Row, v \in Requests \cup {None} : [x EXCEPT !.job = v] \in Row
      /\ \A x \in Row, v \in BOOLEAN : [x EXCEPT !.cancel = v] \in Row
  BY DEF Row
<1>2. row.version + 1 \in Nat /\ row.retry + 1 \in Nat
  BY DEF Row
<1>3. "QUEUED" \in Statuses /\ "DISPATCHED" \in Statuses
  BY DEF Statuses
<1>4. [[[row EXCEPT !.status = "QUEUED"] EXCEPT !.file = q]
         EXCEPT !.version = row.version + 1] \in Row
  BY <1>1, <1>2, <1>3
<1>5. [[row EXCEPT !.cancel = TRUE] EXCEPT !.version = row.version + 1] \in Row
  BY <1>1, <1>2
<1>6. [[[row EXCEPT !.status = "DISPATCHED"] EXCEPT !.job = q]
         EXCEPT !.version = row.version + 1] \in Row
  BY <1>1, <1>2, <1>3
<1>7. [[[[[row EXCEPT !.status = "QUEUED"] EXCEPT !.retry = row.retry + 1]
           EXCEPT !.job = None] EXCEPT !.cancel = FALSE]
         EXCEPT !.version = row.version + 1] \in Row
  BY <1>1, <1>2, <1>3
<1>8. [[row EXCEPT !.job = q] EXCEPT !.version = row.version + 1] \in Row
  BY <1>1, <1>2
<1>9. Reported(row, s) \in Row
  BY <1>1 DEF Reported
<1>10. QED
  BY <1>4, <1>5, <1>6, <1>7, <1>8, <1>9
     DEF Queued, CancelRequested, Dispatched, Retried, Attached

\* What the changes do to the columns that the invariant speaks of.
LEMMA RowFields ==
  ASSUME NEW row \in Row, NEW q \in Requests, NEW s \in Statuses
  PROVE  /\ LET x == Queued(row, q) IN
              /\ x.status = "QUEUED" /\ x.version = row.version + 1 /\ x.file = q
              /\ x.retry = row.retry /\ x.job = row.job
         /\ LET x == CancelRequested(row) IN
              /\ x.status = row.status /\ x.version = row.version + 1
              /\ x.file = row.file /\ x.retry = row.retry /\ x.job = row.job
         /\ LET x == Dispatched(row, q) IN
              /\ x.status = "DISPATCHED" /\ x.version = row.version + 1
              /\ x.file = row.file /\ x.retry = row.retry /\ x.job = q
         /\ LET x == Retried(row) IN
              /\ x.status = "QUEUED" /\ x.version = row.version + 1
              /\ x.file = row.file /\ x.retry = row.retry + 1 /\ x.job = None
         /\ LET x == Attached(row, q) IN
              /\ x.status = row.status /\ x.version = row.version + 1
              /\ x.file = row.file /\ x.retry = row.retry /\ x.job = q
         /\ Reported(row, s).version = row.version
BY DEF Row, Queued, CancelRequested, Dispatched, Retried, Attached, Reported

\* Update: types, and what the row is afterwards.
LEMMA UpdateStep ==
  ASSUME TypeOK, NEW r \in Requests, NEW step, NEW next \in Steps, NEW c \in Row,
         Update(r, step, c, next)
  PROVE  /\ TypeOK'
         /\ RowOf(r) \in Row /\ RowOf(r)' = Stored(RowOf(r), c)
         /\ \A o \in Operations : o # req[r].op => rows'[o] = rows[o]
         /\ copy'[r] = c
         /\ pc[r] = step /\ pc'[r] \in {next, "done"}
<1>1. req[r].op \in Operations
  BY DEF TypeOK, Request
<1>2. RowOf(r) \in Row /\ Stored(RowOf(r), c) \in Row
  BY <1>1 DEF TypeOK, RowOf, Stored
<1>3. rows' = [rows EXCEPT ![req[r].op] = Stored(RowOf(r), c)] /\ req' = req
  BY DEF Update, RowOf
<1>4. rows' \in [Operations -> Row] /\ RowOf(r)' = Stored(RowOf(r), c)
  BY <1>1, <1>2, <1>3 DEF TypeOK, RowOf
<1>5. /\ pc' \in [Requests -> Steps \cup {"idle", "done"}]
      /\ reply' \in [Requests -> {"none", "ok", "error"}]
      /\ copy' \in [Requests -> Row]
      /\ copy'[r] = c /\ pc[r] = step /\ pc'[r] \in {next, "done"}
  BY DEF TypeOK, Update, Call, Goto, Fail, Answer
<1>6. TypeOK'
  BY <1>4, <1>5 DEF TypeOK, Update, entities
<1>7. QED
  BY <1>2, <1>3, <1>4, <1>5, <1>6, <1>1 DEF TypeOK

-------------------------------------------------------------------------------
\* Rows that move by RowStep keep the files that transfers and messages rely on.
LEMMA FilesKept ==
  ASSUME TypeOK, req' = req, \A o \in Operations : RowStep(o)
  PROVE  /\ TransferDescribesInput /\ transfers' = transfers => TransferDescribesInput'
         /\ WorkNeedsInput /\ published' = published => WorkNeedsInput'
<1>1. ASSUME NEW o \in Operations, rows[o].file # None
      PROVE  rows'[o].file = rows[o].file
  BY <1>1 DEF RowStep
<1>2. \A r \in Requests : req[r].op \in Operations
  BY DEF TypeOK, Request
<1>3. ASSUME TransferDescribesInput, transfers' = transfers, NEW t \in transfers
      PROVE  rows'[req'[t.id].op].file = t.file
  <2>1. t.id \in Requests /\ t.file \in Requests
    BY DEF TypeOK
  <2>2. rows[req[t.id].op].file = t.file
    BY <1>3 DEF TransferDescribesInput
  <2>3. QED
    BY <1>1, <1>2, <2>1, <2>2, RequestsAssumption
<1>4. ASSUME WorkNeedsInput, published' = published, NEW m \in published
      PROVE  rows'[req'[m.by].op].file # None
  <2>1. m.by \in Requests
    BY DEF TypeOK, Messages
  <2>2. rows[req[m.by].op].file # None
    BY <1>4 DEF WorkNeedsInput
  <2>3. QED
    BY <1>1, <1>2, <2>1, <2>2
<1>5. QED
  BY <1>3, <1>4 DEF TransferDescribesInput, WorkNeedsInput

\* A step of request r that leaves the rows alone.
LEMMA QuietStep ==
  ASSUME IInv, TypeOK', TransferDescribesInput', WorkNeedsInput',
         req' = req, rows' = rows, RecordsKept, NEW r \in Requests, RequestInv(r)',
         \A q \in Requests \ {r} : pc'[q] = pc[q] /\ copy'[q] = copy[q]
  PROVE  IInv'
<1>1. \A o \in Operations : RowStep(o)
  BY DEF RowStep
<1>2. ASSUME NEW q \in Requests PROVE RequestInv(q)'
  BY <1>1, OtherRequests DEF IInv
<1>3. ASSUME NEW o \in Operations PROVE RowInv(o)'
  BY DEF IInv, RowInv, TypeOK, Row, RecordsKept
<1>4. QED
  BY <1>2, <1>3 DEF IInv

\* An Update of request r, from what holds of the row if the write lands.
LEMMA WriteStep ==
  ASSUME IInv, NEW r \in Requests, NEW step, NEW next \in Steps, NEW c \in Row,
         Update(r, step, c, next),
         RowOf(r).version = c.version - 1 =>
           /\ RowOf(r).file = None \/ c.file = RowOf(r).file
           /\ c.status = "CREATED" <=> c.file = None
           /\ c.retry <= MaxAttempts /\ c.retry \in {RowOf(r).retry, RowOf(r).retry + 1}
           /\ c.job # None => /\ req[c.job].op = req[r].op
                              /\ HasJob(c.job) /\ HasAttempt(c.job),
         RecordsKept /\ (\A o \in Operations : RowStep(o)) => RequestInv(r)'
  PROVE  IInv'
<1>1. /\ TypeOK' /\ RowOf(r) \in Row /\ RowOf(r)' = Stored(RowOf(r), c)
      /\ \A o \in Operations : o # req[r].op => rows'[o] = rows[o]
  BY UpdateStep DEF IInv
<1>2. /\ req' = req /\ RecordsKept /\ transfers' = transfers /\ published' = published
      /\ jobs' = jobs /\ attempts' = attempts
      /\ \A q \in Requests \ {r} : pc'[q] = pc[q] /\ copy'[q] = copy[q]
  BY DEF IInv, TypeOK, Update, Call, Goto, Fail, Answer, RecordsKept, HasJob, HasAttempt,
         entities
<1>3. \A o \in Operations : RowStep(o)
  BY <1>1, <1>2 DEF RowStep, RowOf, Stored, Row
<1>4. ASSUME NEW q \in Requests PROVE RequestInv(q)'
  BY <1>1, <1>2, <1>3, OtherRequests DEF IInv
<1>5. ASSUME NEW o \in Operations PROVE RowInv(o)'
  <2>1. RowInv(o)
    BY DEF IInv
  <2>2. CASE rows'[o] = rows[o]
    BY <2>1, <2>2, <1>2 DEF RowInv, HasJob, HasAttempt
  <2>3. CASE o = req[r].op /\ RowOf(r).version = c.version - 1
    <3>1. rows'[o] = c
      BY <2>3, <1>1, <1>2 DEF Stored, RowOf
    <3>2. QED
      BY <3>1, <2>3, <1>2 DEF RowInv, HasJob, HasAttempt
  <2>4. CASE o = req[r].op /\ RowOf(r).version # c.version - 1
    BY <2>4, <2>2, <1>1, <1>2 DEF Stored, RowOf
  <2>5. QED
    BY <1>1, <2>2, <2>3, <2>4
<1>6. TransferDescribesInput' /\ WorkNeedsInput'
  BY <1>2, <1>3, FilesKept DEF IInv
<1>7. QED
  BY <1>1, <1>4, <1>5, <1>6 DEF IInv

-------------------------------------------------------------------------------
\* The first call of a request: a fresh copy, and what the use case asks of it.
LEMMA BeginStep ==
  ASSUME IInv, NEW r \in Requests,
         UploadBegin(r) \/ CancelBegin(r) \/ RetryBegin(r) \/ ReportBegin(r)
  PROVE  IInv'
<1>1. RowOf(r) \in Row /\ RowOf(r)' = RowOf(r) /\ req[r].op \in Operations
  BY DEF IInv, TypeOK, Request, RowOf, UploadBegin, CancelBegin, RetryBegin, ReportBegin, Begin
<1>2. /\ pc'[r] \in {"u_stage", "c_update", "r_update", "h_update", "done"}
      /\ copy'[r] = RowOf(r)
      /\ pc'[r] = "u_stage" => RowOf(r).status = "CREATED"
      /\ pc'[r] = "c_update" => RowOf(r).status \notin Terminal
      /\ pc'[r] = "r_update" => Retryable(RowOf(r))
  BY DEF IInv, TypeOK, UploadBegin, CancelBegin, RetryBegin, ReportBegin, Begin, Goto, Fail
<1>3. /\ req' = req /\ rows' = rows /\ RecordsKept
      /\ transfers' = transfers /\ published' = published
      /\ \A q \in Requests \ {r} : pc'[q] = pc[q] /\ copy'[q] = copy[q]
  BY DEF IInv, TypeOK, UploadBegin, CancelBegin, RetryBegin, ReportBegin, Begin, Goto, Fail,
         RecordsKept, HasJob, HasAttempt, entities
<1>4. TypeOK'
  <2>1. /\ pc' \in [Requests -> Steps \cup {"idle", "done"}]
        /\ reply' \in [Requests -> {"none", "ok", "error"}]
    BY DEF IInv, TypeOK, UploadBegin, CancelBegin, RetryBegin, ReportBegin, Begin, Goto, Fail,
           Answer, Steps, UploadSteps, CancelSteps, RetrySteps, ReportSteps
  <2>2. copy' \in [Requests -> Row]
    BY <1>1 DEF IInv, TypeOK, UploadBegin, CancelBegin, RetryBegin, ReportBegin, Begin
  <2>3. QED
    BY <2>1, <2>2 DEF IInv, TypeOK, UploadBegin, CancelBegin, RetryBegin, ReportBegin, Begin,
                      entities
<1>5. RequestInv(r)'
  <2>1. RowInv(req[r].op)
    BY <1>1 DEF IInv
  <2>2. Fresh(r)'
    BY <1>1, <1>2 DEF Fresh, Row
  <2>3. Retryable(RowOf(r)) => RowOf(r).file # None
    BY <2>1 DEF RowInv, RowOf, Retryable
  <2>4. Retryable(RowOf(r)) => BeforeRetry(r)'
    BY <1>1, <1>2 DEF BeforeRetry, Retryable, Row
  <2>5. QED
    BY <1>1, <1>2, <2>2, <2>3, <2>4 DEF RequestInv, WithFile
<1>6. TransferDescribesInput' /\ WorkNeedsInput'
  BY <1>3, FilesKept DEF IInv, RowStep
<1>7. QED
  BY <1>3, <1>4, <1>5, <1>6, QuietStep

\* An event appended to the audit log.
LEMMA AppendStep ==
  ASSUME IInv, NEW r \in Requests, NEW step, NEW type,
         NEW next \in {"d_load", "done"}, [by |-> r, type |-> type] \in Facts,
         AppendFact(r, step, type, next)
  PROVE  IInv'
<1>1. /\ req' = req /\ rows' = rows /\ RecordsKept
      /\ transfers' = transfers /\ published' = published
      /\ \A q \in Requests \ {r} : pc'[q] = pc[q] /\ copy'[q] = copy[q]
  BY DEF IInv, TypeOK, AppendFact, Goto, RecordsKept, HasJob, HasAttempt, entities
<1>2. TypeOK'
  BY DEF IInv, TypeOK, AppendFact, Goto, Answer, entities, Steps, DispatchSteps
<1>3. pc'[r] = next
  BY DEF IInv, TypeOK, AppendFact, Goto
<1>4. RequestInv(r)'
  BY <1>3, IdleRequests
<1>5. TransferDescribesInput' /\ WorkNeedsInput'
  BY <1>1, FilesKept DEF IInv, RowStep
<1>6. QED
  BY <1>1, <1>2, <1>4, <1>5, QuietStep

\* A call that fails without effect, or an upload that is refused.
LEMMA FailStep ==
  ASSUME IInv, NEW r \in Requests, CallFails(r) \/ UploadRefuse(r)
  PROVE  IInv'
<1>1. /\ req' = req /\ rows' = rows /\ RecordsKept
      /\ transfers' = transfers /\ published' = published
      /\ \A q \in Requests \ {r} : pc'[q] = pc[q] /\ copy'[q] = copy[q]
      /\ pc'[r] = "done"
  BY DEF IInv, TypeOK, CallFails, UploadRefuse, Fail, Goto, RecordsKept, HasJob, HasAttempt,
         entities
<1>2. TypeOK'
  BY DEF IInv, TypeOK, CallFails, UploadRefuse, Fail, Goto, Answer, entities
<1>3. RequestInv(r)'
  BY <1>1, IdleRequests
<1>4. TransferDescribesInput' /\ WorkNeedsInput'
  BY <1>1, FilesKept DEF IInv, RowStep
<1>5. QED
  BY <1>1, <1>2, <1>3, <1>4, QuietStep

\* The end of a node's process, by a crash or by the panic of a dispatch.
LEMMA StopStep ==
  ASSUME IInv, NEW n \in Nodes, Stop(n)
  PROVE  IInv'
<1>1. /\ req' = req /\ rows' = rows /\ RecordsKept /\ copy' = copy
      /\ transfers' = transfers /\ published' = published
      /\ \A q \in Requests : pc'[q] \in {pc[q], "done"}
  BY DEF IInv, TypeOK, Stop, RecordsKept, HasJob, HasAttempt, entities
<1>2. TypeOK'
  BY DEF IInv, TypeOK, Stop, entities
<1>3. \A o \in Operations : RowStep(o)
  BY <1>1 DEF RowStep
<1>4. ASSUME NEW q \in Requests PROVE RequestInv(q)'
  BY <1>1, <1>2, <1>3, OtherRequests, IdleRequests DEF IInv
<1>5. ASSUME NEW o \in Operations PROVE RowInv(o)'
  BY <1>1 DEF IInv, RowInv, TypeOK, Row, RecordsKept
<1>6. TransferDescribesInput' /\ WorkNeedsInput'
  BY <1>1, <1>3, FilesKept DEF IInv
<1>7. QED
  BY <1>2, <1>4, <1>5, <1>6 DEF IInv

-------------------------------------------------------------------------------
\* The writes.  All but the last come from a fresh copy: if they land, the copy
\* was the row.
LEMMA UploadWrites ==
  ASSUME IInv, NEW r \in Requests, UploadUpdate(r)
  PROVE  IInv'
<1> DEFINE c == Queued(copy[r], r)
<1>1. Update(r, "u_update", c, "u_append")
  BY DEF UploadUpdate
<1>2. copy[r] \in Row /\ RowOf(r) \in Row /\ req[r].op \in Operations
  BY DEF IInv, TypeOK, Request, RowOf
<1>3. c \in Row /\ c.status = "QUEUED" /\ c.version = copy[r].version + 1 /\ c.file = r
      /\ c.retry = copy[r].retry /\ c.job = copy[r].job
  BY <1>2, RowTypes, RowFields, "QUEUED" \in Statuses DEF Statuses
<1>4. pc[r] = "u_update" /\ RequestInv(r) /\ RowInv(req[r].op)
  BY <1>1, <1>2 DEF IInv, Update, Call
<1>5. Fresh(r) /\ copy[r].status = "CREATED"
  BY <1>4 DEF RequestInv, Holding
<1>6. ASSUME RowOf(r).version = c.version - 1
      PROVE  /\ RowOf(r).file = None \/ c.file = RowOf(r).file
             /\ c.status = "CREATED" <=> c.file = None
             /\ c.retry <= MaxAttempts /\ c.retry \in {RowOf(r).retry, RowOf(r).retry + 1}
             /\ c.job # None => /\ req[c.job].op = req[r].op
                                /\ HasJob(c.job) /\ HasAttempt(c.job)
  <2>1. copy[r] = RowOf(r)
    BY <1>2, <1>3, <1>5, <1>6 DEF Fresh, Row
  <2>2. QED
    BY <1>3, <1>4, <1>5, <2>1, RequestsAssumption DEF RowInv, RowOf
<1>7. RequestInv(r)'
  BY <1>1, <1>3, UpdateStep, IdleRequests DEF IInv, Steps, UploadSteps
<1>8. "u_append" \in Steps
  BY DEF Steps, UploadSteps
<1> HIDE DEF c
<1>9. QED
  BY <1>1, <1>3, <1>6, <1>7, <1>8, WriteStep

LEMMA CancelWrites ==
  ASSUME IInv, NEW r \in Requests, CancelUpdate(r)
  PROVE  IInv'
<1> DEFINE c == CancelRequested(copy[r])
<1>1. Update(r, "c_update", c, "c_append")
  BY DEF CancelUpdate
<1>2. copy[r] \in Row /\ RowOf(r) \in Row /\ req[r].op \in Operations
  BY DEF IInv, TypeOK, Request, RowOf
<1>3. c \in Row /\ c.status = copy[r].status /\ c.version = copy[r].version + 1
      /\ c.file = copy[r].file /\ c.retry = copy[r].retry /\ c.job = copy[r].job
  BY <1>2, RowTypes, RowFields, "QUEUED" \in Statuses DEF Statuses
<1>4. pc[r] = "c_update" /\ RequestInv(r) /\ RowInv(req[r].op)
  BY <1>1, <1>2 DEF IInv, Update, Call
<1>5. Fresh(r)
  BY <1>4 DEF RequestInv, Holding
<1>6. ASSUME RowOf(r).version = c.version - 1
      PROVE  /\ RowOf(r).file = None \/ c.file = RowOf(r).file
             /\ c.status = "CREATED" <=> c.file = None
             /\ c.retry <= MaxAttempts /\ c.retry \in {RowOf(r).retry, RowOf(r).retry + 1}
             /\ c.job # None => /\ req[c.job].op = req[r].op
                                /\ HasJob(c.job) /\ HasAttempt(c.job)
  <2>1. copy[r] = RowOf(r)
    BY <1>2, <1>3, <1>5, <1>6 DEF Fresh, Row
  <2>2. QED
    BY <1>3, <1>4, <2>1 DEF RowInv, RowOf
<1>7. "c_append" \in Steps
  BY DEF Steps, CancelSteps
<1>8. RequestInv(r)'
  BY <1>1, <1>3, <1>7, UpdateStep, IdleRequests DEF IInv
<1> HIDE DEF c
<1>9. QED
  BY <1>1, <1>3, <1>6, <1>7, <1>8, WriteStep

LEMMA DispatchWrites ==
  ASSUME IInv, NEW r \in Requests, DispatchUpdate(r)
  PROVE  IInv'
<1> DEFINE c == Dispatched(copy[r], r)
<1>1. Update(r, "d_update", c, "d_append")
  BY DEF DispatchUpdate
<1>2. copy[r] \in Row /\ RowOf(r) \in Row /\ req[r].op \in Operations
  BY DEF IInv, TypeOK, Request, RowOf
<1>3. c \in Row /\ c.status = "DISPATCHED" /\ c.version = copy[r].version + 1
      /\ c.file = copy[r].file /\ c.retry = copy[r].retry /\ c.job = r
  BY <1>2, RowTypes, RowFields, "QUEUED" \in Statuses DEF Statuses
<1>4. pc[r] = "d_update" /\ RequestInv(r) /\ RowInv(req[r].op)
  BY <1>1, <1>2 DEF IInv, Update, Call
<1>5. Fresh(r) /\ copy[r].file # None /\ HasJob(r) /\ HasAttempt(r)
  BY <1>4 DEF RequestInv, Holding, WithFile
<1>6. ASSUME RowOf(r).version = c.version - 1
      PROVE  /\ RowOf(r).file = None \/ c.file = RowOf(r).file
             /\ c.status = "CREATED" <=> c.file = None
             /\ c.retry <= MaxAttempts /\ c.retry \in {RowOf(r).retry, RowOf(r).retry + 1}
             /\ c.job # None => /\ req[c.job].op = req[r].op
                                /\ HasJob(c.job) /\ HasAttempt(c.job)
  <2>1. copy[r] = RowOf(r)
    BY <1>2, <1>3, <1>5, <1>6 DEF Fresh, Row
  <2>2. QED
    BY <1>3, <1>4, <1>5, <2>1 DEF RowInv, RowOf
<1>7. "d_append" \in Steps
  BY DEF Steps, DispatchSteps
<1>8. RequestInv(r)'
  BY <1>1, <1>3, <1>7, UpdateStep, IdleRequests DEF IInv
<1> HIDE DEF c
<1>9. QED
  BY <1>1, <1>3, <1>6, <1>7, <1>8, WriteStep

\* The handler of a worker event writes with the version it read: nothing lands.
LEMMA ReportWrites ==
  ASSUME IInv, NEW r \in Requests, ReportUpdate(r)
  PROVE  IInv'
<1> DEFINE c == Reported(copy[r], ReportedStatus[req[r].kind])
<1>1. Update(r, "h_update", c, "h_append") /\ req[r].kind \in Reports
  BY DEF ReportUpdate
<1>2. copy[r] \in Row /\ RowOf(r) \in Row /\ req[r].op \in Operations
  BY DEF IInv, TypeOK, Request, RowOf
<1>3. c \in Row /\ c.version = copy[r].version
  <2>1. ReportedStatus[req[r].kind] \in Statuses
    BY <1>1 DEF Reports, ReportedStatus, Statuses, Terminal
  <2>2. QED
    BY <1>2, <2>1, RowTypes, RowFields
<1>4. pc[r] = "h_update" /\ RequestInv(r)
  BY <1>1 DEF IInv, Update, Call
<1>5. RowOf(r).version # c.version - 1
  BY <1>2, <1>3, <1>4 DEF RequestInv, Holding, Fresh, Row
<1>6. "h_append" \in Steps
  BY DEF Steps, ReportSteps
<1>7. RequestInv(r)'
  BY <1>1, <1>3, <1>6, UpdateStep, IdleRequests DEF IInv
<1> HIDE DEF c
<1>8. QED
  BY <1>1, <1>3, <1>5, <1>6, <1>7, WriteStep

LEMMA RetryWrites ==
  ASSUME IInv, NEW r \in Requests, RetryUpdate(r)
  PROVE  IInv'
<1> DEFINE c == Retried(copy[r])
<1>1. Update(r, "r_update", c, "r_job")
  BY DEF RetryUpdate
<1>2. copy[r] \in Row /\ RowOf(r) \in Row /\ req[r].op \in Operations
  BY DEF IInv, TypeOK, Request, RowOf
<1>3. c \in Row /\ c.status = "QUEUED" /\ c.version = copy[r].version + 1
      /\ c.file = copy[r].file /\ c.retry = copy[r].retry + 1 /\ c.job = None
  BY <1>2, RowTypes, RowFields, "QUEUED" \in Statuses DEF Statuses
<1>4. pc[r] = "r_update" /\ RequestInv(r)
  BY <1>1 DEF IInv, Update, Call
<1>5. /\ Fresh(r) /\ BeforeRetry(r)
      /\ copy[r].file # None /\ copy[r].file = RowOf(r).file
  BY <1>4 DEF RequestInv, Holding, WithFile
<1>6. /\ c.retry <= MaxAttempts /\ c.retry # 0 /\ ~c.cancel
      /\ RowOf(r).version = c.version - 1 => copy[r] = RowOf(r)
  <2>1. ~c.cancel
    BY <1>2 DEF Retried, Row
  <2>2. QED
    BY <1>2, <1>3, <1>5, <2>1, BudgetAssumption DEF BeforeRetry, Retryable, Fresh, Row
<1>7. "r_job" \in Steps
  BY DEF Steps, RetrySteps
<1>8. ASSUME RecordsKept, \A o \in Operations : RowStep(o)
      PROVE  RequestInv(r)'
  <2> HIDE DEF c
  <2>1. pc'[r] \in {"r_job", "done"} /\ copy'[r] = c
    BY <1>1, <1>3, <1>7, UpdateStep DEF IInv
  <2>2. RowOf(r)'.file = RowOf(r).file
    BY <1>1, <1>2, <1>5, <1>8 DEF RowStep, RowOf, Update
  <2>3. RowOf(r)' = Stored(RowOf(r), c)
    BY <1>1, <1>3, <1>7, UpdateStep DEF IInv
  <2>4. AfterRetry(r)'
    <3>1. CASE RowOf(r).version = c.version - 1
      BY <1>2, <1>3, <1>6, <2>1, <2>3, <3>1 DEF Stored, AfterRetry, Row
    <3>2. CASE RowOf(r).version # c.version - 1
      BY <1>2, <1>3, <1>5, <1>6, <2>1, <2>3, <3>2
         DEF Stored, AfterRetry, BeforeRetry, Fresh, Row
    <3>3. QED
      BY <3>1, <3>2
  <2>5. QED
    BY <1>3, <1>5, <2>1, <2>2, <2>4 DEF RequestInv, Holding, WithFile
<1> HIDE DEF c
<1>9. QED
  BY <1>1, <1>3, <1>5, <1>6, <1>7, <1>8, WriteStep

\* The second Update of a retry may land although the first one did not: the
\* copy then is no row that ever was, but it names a stored job.
LEMMA AttachWrites ==
  ASSUME IInv, NEW r \in Requests, RetryAttach(r)
  PROVE  IInv'
<1> DEFINE c == Attached(copy[r], r)
<1>1. Update(r, "r_attach", c, "r_append")
  BY DEF RetryAttach
<1>2. copy[r] \in Row /\ RowOf(r) \in Row /\ req[r].op \in Operations
  BY DEF IInv, TypeOK, Request, RowOf
<1>3. c \in Row /\ c.status = copy[r].status /\ c.version = copy[r].version + 1
      /\ c.file = copy[r].file /\ c.retry = copy[r].retry /\ c.job = r
  BY <1>2, RowTypes, RowFields, "QUEUED" \in Statuses DEF Statuses
<1>4. pc[r] = "r_attach" /\ RequestInv(r)
  BY <1>1 DEF IInv, Update, Call
<1>5. /\ copy[r].file # None /\ copy[r].file = RowOf(r).file
      /\ AfterRetry(r) /\ HasJob(r) /\ HasAttempt(r)
  BY <1>4 DEF RequestInv, WithFile
<1>6. "r_append" \in Steps
  BY DEF Steps, RetrySteps
<1>7. RequestInv(r)'
  BY <1>1, <1>3, <1>6, UpdateStep, IdleRequests DEF IInv
<1>8. RowOf(r).version = c.version - 1 =>
        c.retry \in {RowOf(r).retry, RowOf(r).retry + 1}
  BY <1>2, <1>3, <1>5 DEF AfterRetry, Row
<1>9. c.status = "QUEUED" /\ c.retry <= MaxAttempts
  BY <1>3, <1>5 DEF AfterRetry
<1> HIDE DEF c
<1>10. QED
  BY <1>1, <1>3, <1>5, <1>6, <1>7, <1>8, <1>9, WriteStep

-------------------------------------------------------------------------------
\* The temporary file becomes the ingress file.
LEMMA StageStep ==
  ASSUME IInv, NEW r \in Requests, UploadStage(r)
  PROVE  IInv'
<1>1. /\ req' = req /\ rows' = rows /\ RecordsKept
      /\ transfers' = transfers /\ published' = published
      /\ \A q \in Requests \ {r} : pc'[q] = pc[q] /\ copy'[q] = copy[q]
      /\ pc[r] = "u_stage" /\ pc'[r] = "u_update" /\ copy'[r] = copy[r]
  BY DEF IInv, TypeOK, UploadStage, Goto, RecordsKept, HasJob, HasAttempt, entities
<1>2. TypeOK'
  BY DEF IInv, TypeOK, UploadStage, Goto, entities, Steps, UploadSteps, Request
<1>3. RequestInv(r)'
  BY <1>1 DEF IInv, RequestInv, Holding, WithFile, Fresh, RowOf
<1>4. TransferDescribesInput' /\ WorkNeedsInput'
  BY <1>1, FilesKept DEF IInv, RowStep
<1>5. QED
  BY <1>1, <1>2, <1>3, <1>4, QuietStep

\* The dispatch takes its copy.
LEMMA LoadStep ==
  ASSUME IInv, NEW r \in Requests, DispatchLoad(r)
  PROVE  IInv'
<1>1. /\ req' = req /\ rows' = rows /\ RecordsKept
      /\ transfers' = transfers /\ published' = published
      /\ \A q \in Requests \ {r} : pc'[q] = pc[q] /\ copy'[q] = copy[q]
      /\ pc'[r] = "d_transfer" /\ copy'[r] = RowOf(r) /\ RowOf(r).file # None
  BY DEF IInv, TypeOK, DispatchLoad, Goto, RecordsKept, HasJob, HasAttempt, entities
<1>2. RowOf(r) \in Row /\ RowOf(r)' = RowOf(r)
  BY <1>1 DEF IInv, TypeOK, Request, RowOf
<1>3. TypeOK'
  BY <1>2 DEF IInv, TypeOK, DispatchLoad, Goto, entities, Steps, DispatchSteps
<1>4. RequestInv(r)'
  BY <1>1, <1>2 DEF RequestInv, Fresh, Row
<1>5. TransferDescribesInput' /\ WorkNeedsInput'
  BY <1>1, FilesKept DEF IInv, RowStep
<1>6. QED
  BY <1>1, <1>3, <1>4, <1>5, QuietStep

\* The transfer is recorded with the file of the copy, which is that of the row.
LEMMA TransferStep ==
  ASSUME IInv, NEW r \in Requests, DispatchTransfer(r)
  PROVE  IInv'
<1>1. /\ req' = req /\ rows' = rows /\ RecordsKept /\ published' = published
      /\ \A q \in Requests \ {r} : pc'[q] = pc[q] /\ copy'[q] = copy[q]
      /\ pc[r] = "d_transfer" /\ pc'[r] \in {"d_start", "done"} /\ copy'[r] = copy[r]
      /\ transfers' = transfers \cup {[id |-> r, file |-> copy[r].file]}
  BY DEF IInv, TypeOK, DispatchTransfer, Call, Goto, Fail, RecordsKept, HasJob, HasAttempt
<1>2. copy[r].file \in Requests /\ copy[r].file = RowOf(r).file
  BY <1>1 DEF IInv, RequestInv, WithFile, TypeOK, Row
<1>3. TypeOK'
  BY <1>2 DEF IInv, TypeOK, DispatchTransfer, Call, Goto, Fail, Answer, Steps, DispatchSteps
<1>4. RequestInv(r)'
  BY <1>1 DEF IInv, RequestInv, Holding, WithFile, Fresh, RowOf
<1>5. TransferDescribesInput'
  BY <1>1, <1>2 DEF IInv, TransferDescribesInput, RowOf
<1>6. WorkNeedsInput'
  BY <1>1, FilesKept DEF IInv, RowStep
<1>7. QED
  BY <1>1, <1>3, <1>4, <1>5, <1>6, QuietStep

\* Whatever the dispatch publishes, the row has its file.
LEMMA PublishStep ==
  ASSUME IInv, NEW r \in Requests,
         DispatchStart(r) \/ DispatchChunks(r) \/ DispatchProcess(r)
  PROVE  IInv'
<1>1. /\ req' = req /\ rows' = rows /\ RecordsKept /\ transfers' = transfers
      /\ \A q \in Requests \ {r} : pc'[q] = pc[q] /\ copy'[q] = copy[q]
      /\ \/ pc[r] = "d_start" /\ pc'[r] \in {"d_chunks", "done"}
         \/ pc[r] = "d_chunks" /\ pc'[r] = "d_process"
         \/ pc[r] = "d_process" /\ pc'[r] \in {"d_job", "done"}
      /\ copy'[r] = copy[r]
  BY DEF IInv, TypeOK, DispatchStart, DispatchChunks, DispatchProcess, Call, Goto, Fail,
         RecordsKept, HasJob, HasAttempt, entities
<1>2. copy[r].file # None /\ copy[r].file = RowOf(r).file /\ copy[r].file \in Requests
  BY <1>1 DEF IInv, RequestInv, WithFile, TypeOK, Row
<1>3. PICK m \in Messages : m.by = r /\ published' \in {published, published \cup {m}}
  <2>1. req[r].node \in Nodes /\ req[r].op \in Operations
    BY DEF IInv, TypeOK, Request
  <2>2. staged[req[r].node][req[r].op] \in Requests \cup {None}
    BY <2>1 DEF IInv, TypeOK
  <2>3. CASE DispatchStart(r)
    <3>1. [by |-> r, type |-> "START_TRANSFER", file |-> copy[r].file] \in Messages
      BY <1>2 DEF Messages
    <3>2. QED
      BY <2>3, <3>1 DEF DispatchStart, Publish
  <2>4. CASE DispatchChunks(r)
    <3>1. [by |-> r, type |-> "CHUNKS", file |-> staged[req[r].node][req[r].op]] \in Messages
      BY <2>2 DEF Messages
    <3>2. QED
      BY <2>4, <3>1 DEF DispatchChunks, Publish
  <2>5. CASE DispatchProcess(r)
    <3>1. [by |-> r, type |-> "PROCESS_UPDATE", file |-> None] \in Messages
      BY DEF Messages
    <3>2. QED
      BY <2>5, <3>1 DEF DispatchProcess, Publish
  <2>6. QED
    BY <2>3, <2>4, <2>5
<1>4. TypeOK'
  <2>1. published' \subseteq Messages
    BY <1>3 DEF IInv, TypeOK
  <2>2. pc' \in [Requests -> Steps \cup {"idle", "done"}]
        /\ reply' \in [Requests -> {"none", "ok", "error"}]
    BY DEF IInv, TypeOK, DispatchStart, DispatchChunks, DispatchProcess, Call, Goto, Fail,
           Answer, Steps, DispatchSteps
  <2>3. QED
    BY <2>1, <2>2 DEF IInv, TypeOK, DispatchStart, DispatchChunks, DispatchProcess, entities
<1>5. RequestInv(r)'
  BY <1>1 DEF IInv, RequestInv, Holding, WithFile, Fresh, RowOf
<1>6. TransferDescribesInput'
  BY <1>1, FilesKept DEF IInv, RowStep
<1>7. WorkNeedsInput'
  BY <1>1, <1>2, <1>3 DEF IInv, WorkNeedsInput, RowOf
<1>8. QED
  BY <1>1, <1>4, <1>5, <1>6, <1>7, QuietStep

\* A job stored by a dispatch or a retry.
LEMMA JobStep ==
  ASSUME IInv, NEW r \in Requests, DispatchJob(r) \/ RetryJob(r)
  PROVE  IInv'
<1>1. /\ req' = req /\ rows' = rows
      /\ transfers' = transfers /\ published' = published /\ attempts' = attempts
      /\ jobs' = jobs \cup {[id |-> r, cycle |-> copy[r].retry]}
      /\ \A q \in Requests \ {r} : pc'[q] = pc[q] /\ copy'[q] = copy[q]
      /\ \/ pc[r] = "d_job" /\ pc'[r] \in {"d_attempt", "done"}
         \/ pc[r] = "r_job" /\ pc'[r] \in {"r_attempt", "done"}
      /\ copy'[r] = copy[r]
  BY DEF IInv, TypeOK, DispatchJob, RetryJob, CreateJob, Call, Goto, Fail
<1>2. RecordsKept /\ HasJob(r)'
  <2> DEFINE j == [id |-> r, cycle |-> copy[r].retry]
  <2>1. j \in jobs' /\ j.id = r /\ jobs \subseteq jobs' /\ attempts' = attempts
    BY <1>1
  <2>2. HasJob(r)'
    BY <2>1 DEF HasJob
  <2>3. RecordsKept
    BY <2>1 DEF RecordsKept, HasJob, HasAttempt
  <2>4. QED
    BY <2>2, <2>3
<1>3. TypeOK'
  <2>1. copy[r].retry \in Nat
    BY DEF IInv, TypeOK, Row
  <2>2. jobs' \subseteq [id : Requests, cycle : Nat]
    BY <1>1, <2>1 DEF IInv, TypeOK
  <2>3. /\ pc' \in [Requests -> Steps \cup {"idle", "done"}]
        /\ reply' \in [Requests -> {"none", "ok", "error"}]
    BY DEF IInv, TypeOK, DispatchJob, RetryJob, CreateJob, Call, Goto, Fail, Answer,
           Steps, DispatchSteps, RetrySteps
  <2>4. QED
    BY <2>2, <2>3 DEF IInv, TypeOK, DispatchJob, RetryJob, CreateJob
<1>4. RequestInv(r)'
  BY <1>1, <1>2 DEF IInv, RequestInv, Holding, WithFile, Fresh, AfterRetry, RowOf
<1>5. TransferDescribesInput' /\ WorkNeedsInput'
  BY <1>1, FilesKept DEF IInv, RowStep
<1>6. QED
  BY <1>1, <1>2, <1>3, <1>4, <1>5, QuietStep

\* The attempt of a job stored just before.
LEMMA AttemptStep ==
  ASSUME IInv, NEW r \in Requests, DispatchAttempt(r) \/ RetryAttempt(r)
  PROVE  IInv'
<1>1. PICK number \in Nat :
        attempts' = attempts \cup {[job |-> r, number |-> number]}
  <2>1. copy[r].retry \in Nat /\ copy[r].retry + 1 \in Nat
    BY DEF IInv, TypeOK, Row
  <2>2. QED
    BY <2>1 DEF DispatchAttempt, RetryAttempt, CreateAttempt
<1>2. /\ req' = req /\ rows' = rows
      /\ transfers' = transfers /\ published' = published /\ jobs' = jobs
      /\ \A q \in Requests \ {r} : pc'[q] = pc[q] /\ copy'[q] = copy[q]
      /\ \/ pc[r] = "d_attempt" /\ pc'[r] \in {"d_update", "done"}
         \/ pc[r] = "r_attempt" /\ pc'[r] \in {"r_attach", "done"}
      /\ copy'[r] = copy[r]
  BY DEF IInv, TypeOK, DispatchAttempt, RetryAttempt, CreateAttempt, Call, Goto, Fail
<1>3. RecordsKept /\ HasAttempt(r)'
  <2> DEFINE a == [job |-> r, number |-> number]
  <2>1. a \in attempts' /\ a.job = r /\ attempts \subseteq attempts' /\ jobs' = jobs
    BY <1>1, <1>2
  <2>2. HasAttempt(r)'
    BY <2>1 DEF HasAttempt
  <2>3. RecordsKept
    BY <2>1 DEF RecordsKept, HasJob, HasAttempt
  <2>4. QED
    BY <2>2, <2>3
<1>4. TypeOK'
  <2>1. attempts' \subseteq [job : Requests, number : Nat]
    BY <1>1 DEF IInv, TypeOK
  <2>2. /\ pc' \in [Requests -> Steps \cup {"idle", "done"}]
        /\ reply' \in [Requests -> {"none", "ok", "error"}]
    BY DEF IInv, TypeOK, DispatchAttempt, RetryAttempt, CreateAttempt, Call, Goto, Fail, Answer,
           Steps, DispatchSteps, RetrySteps
  <2>3. QED
    BY <2>1, <2>2 DEF IInv, TypeOK, DispatchAttempt, RetryAttempt, CreateAttempt
<1>5. RequestInv(r)'
  BY <1>2, <1>3 DEF IInv, RequestInv, Holding, WithFile, Fresh, AfterRetry, RowOf, RecordsKept
<1>6. TransferDescribesInput' /\ WorkNeedsInput'
  BY <1>2, FilesKept DEF IInv, RowStep
<1>7. QED
  BY <1>2, <1>3, <1>4, <1>5, <1>6, QuietStep

\* An outside caller changes a status along the table, and nothing else but the version.
LEMMA PortStep ==
  ASSUME IInv, NEW o \in Operations, PortTransition(o)
  PROVE  IInv'
<1>1. PICK t \in PortTransitions :
        /\ rows[o].status = t[1]
        /\ rows' = [rows EXCEPT ![o] = Transitioned(rows[o], t[1], t[2])]
  BY DEF PortTransition
<1>2. t[1] # "CREATED" /\ t[2] # "CREATED" /\ t[2] \in Statuses
  BY PortAssumption DEF CanTransition, Successors, Statuses, Terminal
<1>3. rows[o] \in Row
  BY DEF IInv, TypeOK
<1>4. /\ rows'[o] \in Row /\ rows'[o].status = t[2]
      /\ rows'[o].version = rows[o].version + 1 /\ rows'[o].file = rows[o].file
      /\ rows'[o].retry = rows[o].retry /\ rows'[o].job = rows[o].job
  <2> DEFINE x == [rows[o] EXCEPT !.status = t[2]]
  <2>1. x \in Row /\ x.version + 1 \in Nat
    BY <1>2, <1>3 DEF Row
  <2>2. rows'[o] = [x EXCEPT !.version = x.version + 1]
    BY <1>1, <1>3 DEF Transitioned, Row, IInv, TypeOK
  <2>3. [x EXCEPT !.version = x.version + 1] \in Row
    BY <2>1 DEF Row
  <2>4. QED
    BY <2>2, <2>3, <1>3 DEF Row
<1>5. /\ req' = req /\ pc' = pc /\ copy' = copy /\ RecordsKept
      /\ transfers' = transfers /\ published' = published
      /\ \A p \in Operations : p # o => rows'[p] = rows[p]
  BY <1>1 DEF IInv, TypeOK, PortTransition, request, entities, RecordsKept, HasJob, HasAttempt
<1>6. TypeOK'
  <2>1. rows' \in [Operations -> Row]
    BY <1>1, <1>4 DEF IInv, TypeOK
  <2>2. QED
    BY <2>1 DEF IInv, TypeOK, PortTransition, request, entities
<1>7. \A p \in Operations : RowStep(p)
  BY <1>4, <1>5 DEF RowStep
<1>8. ASSUME NEW q \in Requests PROVE RequestInv(q)'
  BY <1>5, <1>6, <1>7, OtherRequests DEF IInv
<1>9. ASSUME NEW p \in Operations PROVE RowInv(p)'
  <2>1. RowInv(p) /\ rows[p].job \in Requests \cup {None}
    BY DEF IInv, TypeOK, Row
  <2>2. CASE p = o
    BY <1>1, <1>2, <1>4, <1>5, <2>1, <2>2 DEF RowInv, RecordsKept
  <2>3. CASE p # o
    BY <1>5, <2>1, <2>3 DEF RowInv, RecordsKept
  <2>4. QED
    BY <2>2, <2>3
<1>10. TransferDescribesInput' /\ WorkNeedsInput'
  BY <1>5, <1>7, FilesKept DEF IInv
<1>11. QED
  BY <1>6, <1>8, <1>9, <1>10 DEF IInv

-------------------------------------------------------------------------------
\* Every step of the specification keeps the invariant.
LEMMA NextInv == IInv /\ [Next]_vars => IInv'
<1> SUFFICES ASSUME IInv, [Next]_vars PROVE IInv'
  OBVIOUS
<1>1. CASE UNCHANGED vars
  BY <1>1 DEF vars, request, entities, IInv, TypeOK, TransferDescribesInput, WorkNeedsInput,
              RequestInv, Fresh, BeforeRetry, AfterRetry, RowOf, HasJob, HasAttempt, RowInv
<1>2. ASSUME NEW r \in Requests, Upload(r) PROVE IInv'
  <2>1. CASE UploadAppend(r)
    <3>1. [by |-> r, type |-> "Queued"] \in Facts
      BY DEF Facts
    <3>2. QED
      BY <2>1, <3>1, AppendStep DEF UploadAppend
  <2>2. QED
    BY <1>2, <2>1, BeginStep, StageStep, FailStep, UploadWrites DEF Upload
<1>3. ASSUME NEW r \in Requests, Dispatch(r) PROVE IInv'
  <2>1. CASE DispatchAppend(r)
    <3>1. [by |-> r, type |-> "Dispatched"] \in Facts
      BY DEF Facts
    <3>2. QED
      BY <2>1, <3>1, AppendStep DEF DispatchAppend
  <2>2. CASE DispatchPanic(r)
    <3>1. req[r].node \in Nodes
      BY DEF IInv, TypeOK, Request
    <3>2. QED
      BY <2>2, <3>1, StopStep DEF DispatchPanic
  <2>3. QED
    BY <1>3, <2>1, <2>2, LoadStep, TransferStep, PublishStep, JobStep, AttemptStep,
       DispatchWrites DEF Dispatch
<1>4. ASSUME NEW r \in Requests, Cancel(r) PROVE IInv'
  <2>1. CASE CancelAppend(r)
    <3>1. [by |-> r, type |-> "CancelRequested"] \in Facts
      BY DEF Facts
    <3>2. QED
      BY <2>1, <3>1, AppendStep DEF CancelAppend
  <2>2. QED
    BY <1>4, <2>1, BeginStep, CancelWrites DEF Cancel
<1>5. ASSUME NEW r \in Requests, Retry(r) PROVE IInv'
  <2>1. CASE RetryAppend(r)
    <3>1. [by |-> r, type |-> "RetryScheduled"] \in Facts
      BY DEF Facts
    <3>2. QED
      BY <2>1, <3>1, AppendStep DEF RetryAppend
  <2>2. QED
    BY <1>5, <2>1, BeginStep, RetryWrites, JobStep, AttemptStep, AttachWrites DEF Retry
<1>6. ASSUME NEW r \in Requests, Report(r) PROVE IInv'
  <2>1. CASE ReportAppend(r)
    <3>1. [by |-> r, type |-> ReportedStatus[req[r].kind]] \in Facts
      BY <2>1 DEF ReportAppend, Reports, ReportedStatus, Facts, Statuses, Terminal
    <3>2. QED
      BY <2>1, <3>1, AppendStep DEF ReportAppend
  <2>2. QED
    BY <1>6, <2>1, BeginStep, ReportWrites DEF Report
<1>7. ASSUME NEW n \in Nodes, NodeCrash(n) PROVE IInv'
  BY <1>7, StopStep DEF NodeCrash
<1>8. QED
  BY <1>1, <1>2, <1>3, <1>4, <1>5, <1>6, <1>7, FailStep, PortStep DEF Next, Serve

\* The invariant holds in every state of every behaviour.
THEOREM Invariance == Spec => []IInv
BY InitInv, NextInv, PTL DEF Spec

\* Every variable keeps its type, with any number of requests, nodes and faults.
THEOREM TypeCorrect == Spec => []TypeOK
<1>1. IInv => TypeOK
  BY DEF IInv
<1>2. QED
  BY <1>1, Invariance, PTL

\* A stored transfer names the input file of the operation's row, although uploads
\* race for the row and a dispatch works for long from the copy it loaded.
THEOREM TransfersDescribeInput == Spec => []TransferDescribesInput
<1>1. IInv => TransferDescribesInput
  BY DEF IInv
<1>2. QED
  BY <1>1, Invariance, PTL

\* No command and no chunk goes out before the row has its input file, and the
\* row never loses it afterwards.
THEOREM WorkFollowsInput == Spec => []WorkNeedsInput
<1>1. IInv => WorkNeedsInput
  BY DEF IInv
<1>2. QED
  BY <1>1, Invariance, PTL

\* current_job_id of every row names a stored job of the operation, which has an
\* attempt, whatever call failed and whatever node stopped in between.
THEOREM CurrentJobsPersisted == Spec => []CurrentJobPersisted
<1>1. ASSUME IInv, NEW o \in Operations, rows[o].job # None
      PROVE  /\ req[rows[o].job].op = o
             /\ \E j \in jobs : j.id = rows[o].job
             /\ \E a \in attempts : a.job = rows[o].job
  BY <1>1 DEF IInv, RowInv, HasJob, HasAttempt
<1>2. IInv => CurrentJobPersisted
  BY <1>1 DEF CurrentJobPersisted
<1>3. QED
  BY <1>2, Invariance, PTL

\* However many retries race, no row counts more of them than MaxAttempts.
THEOREM RetriesWithinBudget == Spec => []RetryBudget
<1>1. IInv => RetryBudget
  BY DEF IInv, RowInv, RetryBudget
<1>2. QED
  BY <1>1, Invariance, PTL

-------------------------------------------------------------------------------
(* The audit log.  Its entries are the last step of their request, and what the      *)
(* steps before stored or published stays.                                           *)

HasTransfer(r)   == \E t \in transfers : t.id = r
HasSent(r, type) == \E m \in published : m.by = r /\ m.type = type

\* What a dispatch or a retry has achieved by the call it is at.
Achieved(r) ==
  /\ pc[r] \in {"d_start", "d_chunks", "d_process", "d_job", "d_attempt", "d_update",
               "d_append"} => HasTransfer(r)
  /\ pc[r] \in {"d_chunks", "d_process", "d_job", "d_attempt", "d_update", "d_append"} =>
        HasSent(r, "START_TRANSFER")
  /\ pc[r] \in {"d_job", "d_attempt", "d_update", "d_append"} =>
        HasSent(r, "PROCESS_UPDATE")
  /\ pc[r] \in {"d_attempt", "d_update", "d_append", "r_attempt", "r_attach", "r_append"} =>
        HasJob(r)
  /\ pc[r] \in {"d_update", "d_append", "r_attach", "r_append"} => HasAttempt(r)

\* What an entry of the log says has happened.
Happened(f) ==
  /\ f.type = "Dispatched" => /\ HasTransfer(f.by)
                              /\ HasSent(f.by, "START_TRANSFER")
                              /\ HasSent(f.by, "PROCESS_UPDATE")
  /\ f.type \in {"Dispatched", "RetryScheduled"} => HasJob(f.by) /\ HasAttempt(f.by)

LogInv ==
  /\ \A r \in Requests : Achieved(r)
  /\ \A f \in facts : Happened(f)

\* Nothing that was stored or published is taken back.
Grows ==
  /\ jobs \subseteq jobs' /\ attempts \subseteq attempts'
  /\ transfers \subseteq transfers' /\ published \subseteq published'

\* What was achieved stays achieved, and what was logged stays true.
LEMMA GrowthKeeps ==
  ASSUME Grows, NEW r
  PROVE  /\ HasTransfer(r) => HasTransfer(r)'
         /\ \A type : HasSent(r, type) => HasSent(r, type)'
         /\ HasJob(r) => HasJob(r)'
         /\ HasAttempt(r) => HasAttempt(r)'
BY DEF Grows, HasTransfer, HasSent, HasJob, HasAttempt

LEMMA AchievedStays ==
  ASSUME Grows, NEW q \in Requests, Achieved(q), pc'[q] \in {pc[q], "done"}
  PROVE  Achieved(q)'
BY GrowthKeeps DEF Achieved

LEMMA HappenedStays ==
  ASSUME Grows, NEW f, Happened(f)
  PROVE  Happened(f)'
BY GrowthKeeps DEF Happened

\* A step of request r that logs nothing.
LEMMA UnloggedStep ==
  ASSUME LogInv, Grows, facts' = facts, NEW r \in Requests, Achieved(r)',
         \A q \in Requests \ {r} : pc'[q] = pc[q]
  PROVE  LogInv'
<1>1. ASSUME NEW q \in Requests PROVE Achieved(q)'
  BY AchievedStays DEF LogInv
<1>2. ASSUME NEW f \in facts' PROVE Happened(f)'
  BY HappenedStays DEF LogInv
<1>3. QED
  BY <1>1, <1>2 DEF LogInv

\* An entry that is true when it is written.
LEMMA LoggedStep ==
  ASSUME TypeOK, LogInv, NEW r \in Requests, NEW step, NEW type,
         NEW next \in {"d_load", "done"}, AppendFact(r, step, type, next),
         type = "Dispatched" => step = "d_append",
         type = "RetryScheduled" => step = "r_append"
  PROVE  LogInv'
<1>1. /\ Grows /\ pc[r] = step /\ pc'[r] = next
      /\ \A q \in Requests \ {r} : pc'[q] = pc[q]
      /\ facts' \subseteq facts \cup {[by |-> r, type |-> type]}
  BY DEF TypeOK, AppendFact, Goto, Grows, entities
<1>2. ASSUME NEW q \in Requests PROVE Achieved(q)'
  <2>1. CASE q = r
    BY <1>1, <2>1 DEF Achieved
  <2>2. CASE q # r
    BY <1>1, <2>2, AchievedStays DEF LogInv
  <2>3. QED
    BY <2>1, <2>2
<1>3. Happened([by |-> r, type |-> type])
  BY <1>1 DEF LogInv, Achieved, Happened
<1>4. ASSUME NEW f \in facts' PROVE Happened(f)'
  BY <1>1, <1>3, HappenedStays DEF LogInv
<1>5. QED
  BY <1>2, <1>4 DEF LogInv

\* A job is stored by a dispatch or a retry.
LEMMA LogJob ==
  ASSUME TypeOK, LogInv, NEW r \in Requests, DispatchJob(r) \/ RetryJob(r)
  PROVE  LogInv'
<1>1. /\ Grows /\ facts' = facts
      /\ \/ pc[r] = "d_job" /\ pc'[r] \in {"d_attempt", "done"}
         \/ pc[r] = "r_job" /\ pc'[r] \in {"r_attempt", "done"}
      /\ \A q \in Requests \ {r} : pc'[q] = pc[q]
      /\ [id |-> r, cycle |-> copy[r].retry] \in jobs'
  BY DEF TypeOK, DispatchJob, RetryJob, CreateJob, Call, Goto, Fail, Grows
<1>2. HasJob(r)'
  BY <1>1 DEF HasJob
<1>3. Achieved(r)'
  BY <1>1, <1>2, GrowthKeeps DEF LogInv, Achieved
<1>4. QED
  BY <1>1, <1>3, UnloggedStep

\* And its attempt.
LEMMA LogAttempt ==
  ASSUME TypeOK, LogInv, NEW r \in Requests, DispatchAttempt(r) \/ RetryAttempt(r)
  PROVE  LogInv'
<1>1. /\ Grows /\ facts' = facts
      /\ \/ pc[r] = "d_attempt" /\ pc'[r] \in {"d_update", "done"}
         \/ pc[r] = "r_attempt" /\ pc'[r] \in {"r_attach", "done"}
      /\ \A q \in Requests \ {r} : pc'[q] = pc[q]
      /\ \E number : [job |-> r, number |-> number] \in attempts'
  BY DEF TypeOK, DispatchAttempt, RetryAttempt, CreateAttempt, Call, Goto, Fail, Grows
<1>2. HasAttempt(r)'
  BY <1>1 DEF HasAttempt
<1>3. Achieved(r)'
  BY <1>1, <1>2, GrowthKeeps DEF LogInv, Achieved
<1>4. QED
  BY <1>1, <1>3, UnloggedStep

\* The steps of a dispatch.
LEMMA LogDispatch ==
  ASSUME TypeOK, LogInv, NEW r \in Requests, Dispatch(r)
  PROVE  LogInv'
<1>1. CASE DispatchLoad(r)
  <2>1. /\ Grows /\ facts' = facts /\ pc'[r] = "d_transfer"
        /\ \A q \in Requests \ {r} : pc'[q] = pc[q]
    BY <1>1 DEF TypeOK, DispatchLoad, Goto, Grows, entities
  <2>2. QED
    BY <2>1, UnloggedStep DEF Achieved
<1>2. CASE DispatchPanic(r)
  <2>1. Grows /\ facts' = facts /\ \A q \in Requests : pc'[q] \in {pc[q], "done"}
    BY <1>2 DEF TypeOK, DispatchPanic, Stop, Grows, entities
  <2>2. QED
    BY <2>1, AchievedStays, HappenedStays DEF LogInv
<1>3. CASE DispatchTransfer(r)
  <2>1. /\ Grows /\ facts' = facts /\ pc'[r] \in {"d_start", "done"}
        /\ \A q \in Requests \ {r} : pc'[q] = pc[q]
        /\ [id |-> r, file |-> copy[r].file] \in transfers'
    BY <1>3 DEF TypeOK, DispatchTransfer, Call, Goto, Fail, Grows
  <2>2. HasTransfer(r)'
    BY <2>1 DEF HasTransfer
  <2>3. QED
    BY <2>1, <2>2, UnloggedStep DEF Achieved
<1>4. CASE DispatchStart(r)
  <2>1. /\ Grows /\ facts' = facts /\ pc[r] = "d_start" /\ pc'[r] \in {"d_chunks", "done"}
        /\ \A q \in Requests \ {r} : pc'[q] = pc[q]
        /\ [by |-> r, type |-> "START_TRANSFER", file |-> copy[r].file] \in published'
    BY <1>4 DEF TypeOK, DispatchStart, Publish, Call, Goto, Fail, Grows, entities
  <2>2. HasSent(r, "START_TRANSFER")'
    BY <2>1 DEF HasSent
  <2>3. Achieved(r)'
    BY <2>1, <2>2, GrowthKeeps DEF LogInv, Achieved
  <2>4. QED
    BY <2>1, <2>3, UnloggedStep
<1>5. CASE DispatchChunks(r)
  <2>1. /\ Grows /\ facts' = facts /\ pc[r] = "d_chunks" /\ pc'[r] = "d_process"
        /\ \A q \in Requests \ {r} : pc'[q] = pc[q]
    BY <1>5 DEF TypeOK, DispatchChunks, Publish, Goto, Grows, entities
  <2>2. Achieved(r)'
    BY <2>1, GrowthKeeps DEF LogInv, Achieved
  <2>3. QED
    BY <2>1, <2>2, UnloggedStep
<1>6. CASE DispatchProcess(r)
  <2>1. /\ Grows /\ facts' = facts /\ pc[r] = "d_process" /\ pc'[r] \in {"d_job", "done"}
        /\ \A q \in Requests \ {r} : pc'[q] = pc[q]
        /\ [by |-> r, type |-> "PROCESS_UPDATE", file |-> None] \in published'
    BY <1>6 DEF TypeOK, DispatchProcess, Publish, Call, Goto, Fail, Grows, entities
  <2>2. HasSent(r, "PROCESS_UPDATE")'
    BY <2>1 DEF HasSent
  <2>3. Achieved(r)'
    BY <2>1, <2>2, GrowthKeeps DEF LogInv, Achieved
  <2>4. QED
    BY <2>1, <2>3, UnloggedStep
<1>7. CASE DispatchUpdate(r)
  <2>1. /\ Grows /\ facts' = facts /\ pc[r] = "d_update" /\ pc'[r] \in {"d_append", "done"}
        /\ \A q \in Requests \ {r} : pc'[q] = pc[q]
    BY <1>7 DEF TypeOK, DispatchUpdate, Update, Call, Goto, Fail, Grows, entities
  <2>2. Achieved(r)'
    BY <2>1, GrowthKeeps DEF LogInv, Achieved
  <2>3. QED
    BY <2>1, <2>2, UnloggedStep
<1>8. CASE DispatchAppend(r)
  BY <1>8, LoggedStep DEF DispatchAppend
<1>9. QED
  BY <1>1, <1>2, <1>3, <1>4, <1>5, <1>6, <1>7, <1>8, LogJob, LogAttempt DEF Dispatch

\* The steps of a retry.
LEMMA LogRetry ==
  ASSUME TypeOK, LogInv, NEW r \in Requests, Retry(r)
  PROVE  LogInv'
<1>1. CASE RetryBegin(r) \/ RetryUpdate(r)
  <2>1. /\ Grows /\ facts' = facts /\ pc'[r] \in {"r_update", "r_job", "done"}
        /\ \A q \in Requests \ {r} : pc'[q] = pc[q]
    BY <1>1 DEF TypeOK, RetryBegin, Begin, RetryUpdate, Update, Call, Goto, Fail, Grows, entities
  <2>2. QED
    BY <2>1, UnloggedStep DEF Achieved
<1>2. CASE RetryAttach(r)
  <2>1. /\ Grows /\ facts' = facts /\ pc[r] = "r_attach" /\ pc'[r] \in {"r_append", "done"}
        /\ \A q \in Requests \ {r} : pc'[q] = pc[q]
    BY <1>2 DEF TypeOK, RetryAttach, Update, Call, Goto, Fail, Grows, entities
  <2>2. Achieved(r)'
    BY <2>1, GrowthKeeps DEF LogInv, Achieved
  <2>3. QED
    BY <2>1, <2>2, UnloggedStep
<1>3. CASE RetryAppend(r)
  BY <1>3, LoggedStep DEF RetryAppend
<1>4. QED
  BY <1>1, <1>2, <1>3, LogJob, LogAttempt DEF Retry

\* The steps of uploads, cancels and reports, which achieve nothing that the log names.
LEMMA LogOthers ==
  ASSUME TypeOK, LogInv, NEW r \in Requests, Upload(r) \/ Cancel(r) \/ Report(r)
  PROVE  LogInv'
<1>1. CASE UploadAppend(r) \/ CancelAppend(r)
  BY <1>1, LoggedStep DEF UploadAppend, CancelAppend
<1>2. CASE ReportAppend(r)
  <2>1. req[r].kind \in Reports /\ ReportedStatus[req[r].kind] \notin {"Dispatched", "RetryScheduled"}
    BY <1>2 DEF ReportAppend, Reports, ReportedStatus
  <2>2. QED
    BY <1>2, <2>1, LoggedStep DEF ReportAppend
<1>3. CASE ~UploadAppend(r) /\ ~CancelAppend(r) /\ ~ReportAppend(r)
  <2>1. /\ Grows /\ facts' = facts
        /\ pc'[r] \in {"u_stage", "u_update", "u_append", "c_update", "c_append", "h_update",
                       "h_append", "done"}
        /\ \A q \in Requests \ {r} : pc'[q] = pc[q]
    BY <1>3 DEF TypeOK, Upload, UploadBegin, UploadStage, UploadRefuse, UploadUpdate, Cancel,
       CancelBegin, CancelUpdate, Report, ReportBegin, ReportUpdate, Begin, Update, Call, Goto,
       Fail, Grows, entities
  <2>2. QED
    BY <2>1, UnloggedStep DEF Achieved
<1>4. QED
  BY <1>1, <1>2, <1>3

\* Every step keeps the log true.
LEMMA NextLogInv == TypeOK /\ LogInv /\ [Next]_vars => LogInv'
<1> SUFFICES ASSUME TypeOK, LogInv, [Next]_vars PROVE LogInv'
  OBVIOUS
<1>1. ASSUME NEW r \in Requests, CallFails(r) PROVE LogInv'
  <2>1. /\ Grows /\ facts' = facts /\ pc'[r] = "done"
        /\ \A q \in Requests \ {r} : pc'[q] = pc[q]
    BY <1>1 DEF TypeOK, CallFails, Fail, Goto, Grows, entities
  <2>2. QED
    BY <2>1, UnloggedStep DEF Achieved
<1>2. ASSUME \/ UNCHANGED vars
             \/ \E o \in Operations : PortTransition(o)
             \/ \E n \in Nodes : NodeCrash(n)
      PROVE  LogInv'
  <2>1. Grows /\ facts' = facts /\ \A q \in Requests : pc'[q] \in {pc[q], "done"}
    BY <1>2 DEF TypeOK, vars, request, entities, PortTransition, NodeCrash, Stop, Grows
  <2>2. QED
    BY <2>1, AchievedStays, HappenedStays DEF LogInv
<1>3. QED
  BY <1>1, <1>2, LogDispatch, LogRetry, LogOthers DEF Next, Serve

\* A request has achieved what the calls before its own stand for.
THEOREM LogInvariance == Spec => []LogInv
<1>1. Init => LogInv
  BY DEF Init, LogInv, Achieved
<1>2. QED
  BY <1>1, NextLogInv, TypeCorrect, PTL DEF Spec

\* An entry of the audit log that speaks of work is written only when the work's
\* records and messages exist, whatever failed and whoever stopped.
THEOREM LogIsTrue == Spec => []LoggedWorkHappened
<1>1. LogInv => LoggedWorkHappened
  BY DEF LogInv, Happened, LoggedWorkHappened, HasTransfer, HasSent, HasJob, HasAttempt
<1>2. QED
  BY <1>1, LogInvariance, PTL
===============================================================================
