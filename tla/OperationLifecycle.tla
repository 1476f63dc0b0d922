-------------------------- MODULE OperationLifecycle --------------------------
(***************************************************************************)
(* The entry nodes at work on the rows of table `operations`.              *)
(*                                                                         *)
(* HTTP handlers (upload, cancel, retry), the dispatch goroutine an upload *)
(* leaves behind and the handlers of worker events all follow one scheme:  *)
(* GetByID copies the row, the copy is changed, Update writes it back if   *)
(* the version still fits, an event is appended to the audit log.  Each    *)
(* call to MariaDB, NATS or the disk is one action, so that the requests   *)
(* of all nodes interleave between any two calls.                          *)
(*                                                                         *)
(* A request is served once, by one node, for one operation; the three are *)
(* chosen in the initial state and never change.  The job, the attempt and *)
(* the transfer that a request creates are named by the request.           *)
(***************************************************************************)
EXTENDS OperationRow

CONSTANTS Operations,
          Nodes,            \* entry and hybrid nodes
          Kinds,            \* the kinds of request that arrive
          PortTransitions,  \* <<from, to>> of outside callers of method Transition
          CallsFail,        \* MariaDB, NATS and the scheduler may return errors
          NodesCrash        \* entry nodes may stop and restart at any moment

\* The status that the handler of a worker event gives the operation.
ReportedStatus == [TransferVerified    |-> "TRANSFERRED",
                   ProcessingSucceeded |-> "COMPLETED",
                   ProcessingFailed    |-> "FAILED",
                   Cancelled           |-> "CANCELLED"]

Reports == DOMAIN ReportedStatus

ASSUME KindsAssumption == Kinds \subseteq {"upload", "cancel", "retry"} \cup Reports

\* An outside caller follows the transition table and never uploads for a client.
ASSUME PortAssumption ==
  /\ PortTransitions \subseteq Statuses \X Statuses
  /\ \A t \in PortTransitions :
        t[1] # "CREATED" /\ t[1] # t[2] /\ CanTransition(t[1], t[2])

ASSUME FaultAssumption == CallsFail \in BOOLEAN /\ NodesCrash \in BOOLEAN

VARIABLES
  req,        \* what each request asks, of which node, for which operation
  pc,         \* the next call of the request's goroutine
  copy,       \* its copy of the row
  reply,      \* what the client was told
  rows, jobs, attempts, transfers, facts,   \* the tables of MariaDB
  staged,     \* the ingress file of each node and operation
  published   \* what went out on NATS

request  == <<pc, copy, reply>>
entities == <<jobs, attempts, transfers>>
vars == <<req, request, rows, entities, facts, staged, published>>

-------------------------------------------------------------------------------
Request == [kind : Kinds, node : Nodes, op : Operations]

UploadSteps   == {"u_stage", "u_update", "u_append"}
DispatchSteps == {"d_load", "d_transfer", "d_start", "d_chunks", "d_process",
                  "d_job", "d_attempt", "d_update", "d_append"}
CancelSteps   == {"c_update", "c_append"}
RetrySteps    == {"r_update", "r_job", "r_attempt", "r_attach", "r_append"}
ReportSteps   == {"h_update", "h_append"}

Steps == UploadSteps \cup DispatchSteps \cup CancelSteps \cup RetrySteps \cup ReportSteps

\* "CancelRequested" and "CANCELLED" are both logged as OperationCancelled.
Facts == [by : Requests,
          type : {"Queued", "CancelRequested", "RetryScheduled", "Dispatched"} \cup Statuses]

Messages == [by : Requests, type : {"START_TRANSFER", "CHUNKS", "PROCESS_UPDATE"},
             file : Requests \cup {None}]

Init ==
  /\ req \in [Requests -> Request]
  /\ pc = [r \in Requests |-> "idle"]
  /\ copy = [r \in Requests |-> CreatedRow]
  /\ reply = [r \in Requests |-> "none"]
  /\ rows = [o \in Operations |-> CreatedRow]
  /\ jobs = {} /\ attempts = {} /\ transfers = {} /\ facts = {}
  /\ staged = [n \in Nodes |-> [o \in Operations |-> None]]
  /\ published = {}

-------------------------------------------------------------------------------
RowOf(r) == rows[req[r].op]

InFlight(r) == pc[r] \in Steps

Goto(r, next) == pc' = [pc EXCEPT ![r] = next]

Answer(r, a) == reply' = [reply EXCEPT ![r] = IF @ = "none" THEN a ELSE @]

\* The use case returns an error; a dispatch has no client left to tell.
Fail(r) == Goto(r, "done") /\ Answer(r, "error")

\* The call at `step` returns, and with an error it may still have had its effect.
Call(r, step, next) ==
  /\ pc[r] = step
  /\ \/ Goto(r, next) /\ UNCHANGED reply
     \/ CallsFail /\ Fail(r)

\* GetByID is the first call; the use case goes on at `next` if it accepts the row.
Begin(r, accepts, next) ==
  /\ pc[r] = "idle"
  /\ copy' = [copy EXCEPT ![r] = RowOf(r)]
  /\ \/ accepts  /\ Goto(r, next) /\ UNCHANGED reply
     \/ ~accepts /\ Fail(r)
  /\ UNCHANGED <<req, rows, entities, facts, staged, published>>

\* operations.Update(c); the goroutine keeps the copy it tried to store.
Update(r, step, c, next) ==
  /\ Call(r, step, next)
  /\ rows' = [rows EXCEPT ![req[r].op] = Stored(@, c)]
  /\ copy' = [copy EXCEPT ![r] = c]
  /\ UNCHANGED <<req, entities, facts, staged, published>>

\* events.Append, whose error nobody looks at, and then the answer or the goroutine's end.
AppendFact(r, step, type, next) ==
  /\ pc[r] = step
  /\ Goto(r, next)
  /\ Answer(r, "ok")
  /\ \/ facts' = facts \cup {[by |-> r, type |-> type]}
     \/ CallsFail /\ UNCHANGED facts
  /\ UNCHANGED <<req, copy, rows, entities, staged, published>>

\* A call returns an error and has had no effect.
CallFails(r) ==
  /\ CallsFail
  /\ pc[r] \in Steps \ {"u_append", "c_append", "r_append", "d_append", "h_append", "d_chunks"}
  /\ Fail(r)
  /\ UNCHANGED <<req, copy, rows, entities, facts, staged, published>>

-------------------------------------------------------------------------------
(* PUT /operations/{id}/file *)

\* Mutant of UploadBegin: a second upload is let in after the first.
UploadBeginAgain(r) ==
  /\ req[r].kind = "upload"
  /\ Begin(r, RowOf(r).status \notin Terminal, "u_stage")

UploadBegin(r) ==
  /\ req[r].kind = "upload"
  /\ Begin(r, RowOf(r).status = "CREATED", "u_stage")

\* The body is streamed, measured and hashed in a temporary file of this node,
\* which a rename makes the operation's ingress file.
UploadStage(r) ==
  /\ pc[r] = "u_stage"
  /\ staged' = [staged EXCEPT ![req[r].node][req[r].op] = r]
  /\ Goto(r, "u_update")
  /\ UNCHANGED <<req, copy, reply, rows, entities, facts, published>>

\* Broken body, file over the limit, digest mismatch, disk error.
UploadRefuse(r) ==
  /\ pc[r] = "u_stage"
  /\ Fail(r)
  /\ UNCHANGED <<req, copy, rows, entities, facts, staged, published>>

UploadUpdate(r) == Update(r, "u_update", Queued(copy[r], r), "u_append")

\* The goroutine of the dispatch starts, and the client gets its 202.
UploadAppend(r) == AppendFact(r, "u_append", "Queued", "d_load")

Upload(r) ==
  UploadBegin(r) \/ UploadStage(r) \/ UploadRefuse(r) \/ UploadUpdate(r) \/ UploadAppend(r)

-------------------------------------------------------------------------------
(* The background dispatch of an upload *)

\* The process of node n ends and is started again: its requests are gone, the
\* database, the bus and the disk are as they were.
Stop(n) ==
  /\ pc' = [r \in Requests |-> IF req[r].node = n /\ InFlight(r) THEN "done" ELSE pc[r]]
  /\ UNCHANGED <<req, copy, reply, rows, entities, facts, staged, published>>

\* Mutant of DispatchLoad: a missing input file is taken for an empty one.
DispatchLoadAnyway(r) ==
  /\ pc[r] = "d_load"
  /\ copy' = [copy EXCEPT ![r] = RowOf(r)]
  /\ Goto(r, "d_transfer")
  /\ UNCHANGED <<req, reply, rows, entities, facts, staged, published>>

\* Neither status nor cancel_requested_at is looked at.
DispatchLoad(r) ==
  /\ pc[r] = "d_load"
  /\ RowOf(r).file # None
  /\ copy' = [copy EXCEPT ![r] = RowOf(r)]
  /\ Goto(r, "d_transfer")
  /\ UNCHANGED <<req, reply, rows, entities, facts, staged, published>>

\* The log line after GetByID dereferences the nil InputFile, and no recover
\* guards the goroutine.
DispatchPanic(r) ==
  /\ pc[r] = "d_load"
  /\ RowOf(r).file = None
  /\ Stop(req[r].node)

DispatchTransfer(r) ==
  /\ Call(r, "d_transfer", "d_start")
  /\ transfers' = transfers \cup {[id |-> r, file |-> copy[r].file]}
  /\ UNCHANGED <<req, copy, rows, jobs, attempts, facts, staged, published>>

Publish(r, type, file) ==
  published' = published \cup {[by |-> r, type |-> type, file |-> file]}

DispatchStart(r) ==
  /\ Call(r, "d_start", "d_chunks")
  /\ Publish(r, "START_TRANSFER", copy[r].file)
  /\ UNCHANGED <<req, copy, rows, entities, facts, staged>>

\* What is streamed is the ingress file this node has by now; errors are logged.
DispatchChunks(r) ==
  /\ pc[r] = "d_chunks"
  /\ Goto(r, "d_process")
  /\ \/ Publish(r, "CHUNKS", staged[req[r].node][req[r].op])
     \/ CallsFail /\ UNCHANGED published
  /\ UNCHANGED <<req, copy, reply, rows, entities, facts, staged>>

\* Mutant of DispatchProcess: an error of the publication is ignored.
DispatchProcessUnchecked(r) ==
  /\ pc[r] = "d_process"
  /\ Goto(r, "d_job")
  /\ Publish(r, "PROCESS_UPDATE", None) \/ (CallsFail /\ UNCHANGED published)
  /\ UNCHANGED <<req, copy, reply, rows, entities, facts, staged>>

DispatchProcess(r) ==
  /\ Call(r, "d_process", "d_job")
  /\ Publish(r, "PROCESS_UPDATE", None)
  /\ UNCHANGED <<req, copy, rows, entities, facts, staged>>

\* Mutant of CreateJob: an error of the insert is ignored.
CreateJobUnchecked(r, step, next) ==
  /\ pc[r] = step
  /\ Goto(r, next)
  /\ \/ jobs' = jobs \cup {[id |-> r, cycle |-> copy[r].retry]}
     \/ CallsFail /\ UNCHANGED jobs
  /\ UNCHANGED <<req, copy, reply, rows, attempts, transfers, facts, staged, published>>

CreateJob(r, step, next) ==
  /\ Call(r, step, next)
  /\ jobs' = jobs \cup {[id |-> r, cycle |-> copy[r].retry]}
  /\ UNCHANGED <<req, copy, rows, attempts, transfers, facts, staged, published>>

CreateAttempt(r, step, number, next) ==
  /\ Call(r, step, next)
  /\ attempts' = attempts \cup {[job |-> r, number |-> number]}
  /\ UNCHANGED <<req, copy, rows, jobs, transfers, facts, staged, published>>

DispatchJob(r) == CreateJob(r, "d_job", "d_attempt")

DispatchAttempt(r) == CreateAttempt(r, "d_attempt", copy[r].retry + 1, "d_update")

DispatchUpdate(r) == Update(r, "d_update", Dispatched(copy[r], r), "d_append")

DispatchAppend(r) == AppendFact(r, "d_append", "Dispatched", "done")

Dispatch(r) ==
  \/ DispatchLoad(r) \/ DispatchPanic(r)
  \/ DispatchTransfer(r)
  \/ DispatchStart(r) \/ DispatchChunks(r) \/ DispatchProcess(r)
  \/ DispatchJob(r) \/ DispatchAttempt(r)
  \/ DispatchUpdate(r) \/ DispatchAppend(r)

-------------------------------------------------------------------------------
(* POST /operations/{id}/cancel *)

CancelBegin(r) ==
  /\ req[r].kind = "cancel"
  /\ Begin(r, RowOf(r).status \notin Terminal, "c_update")

CancelUpdate(r) == Update(r, "c_update", CancelRequested(copy[r]), "c_append")

CancelAppend(r) == AppendFact(r, "c_append", "CancelRequested", "done")

Cancel(r) == CancelBegin(r) \/ CancelUpdate(r) \/ CancelAppend(r)

-------------------------------------------------------------------------------
(* POST /operations/{id}/retry *)

\* Mutant of RetryBegin: only the budget is looked at.
RetryBeginAnyStatus(r) ==
  /\ req[r].kind = "retry"
  /\ Begin(r, RowOf(r).retry < MaxAttempts, "r_update")

RetryBegin(r) ==
  /\ req[r].kind = "retry"
  /\ Begin(r, Retryable(RowOf(r)), "r_update")

\* Mutant of RetryUpdate: the new job is attached before it is stored.
RetryUpdateFirst(r) == Update(r, "r_update", Retried(copy[r]), "r_attach")

RetryUpdate(r) == Update(r, "r_update", Retried(copy[r]), "r_job")

RetryJob(r) == CreateJob(r, "r_job", "r_attempt")

RetryAttempt(r) == CreateAttempt(r, "r_attempt", copy[r].retry, "r_attach")

RetryAttach(r) == Update(r, "r_attach", Attached(copy[r], r), "r_append")

RetryAppend(r) == AppendFact(r, "r_append", "RetryScheduled", "done")

Retry(r) ==
  \/ RetryBegin(r) \/ RetryUpdate(r) \/ RetryJob(r)
  \/ RetryAttempt(r) \/ RetryAttach(r) \/ RetryAppend(r)

-------------------------------------------------------------------------------
(* Events of workers, as the coordinator handles them once they are decoded *)

\* Workers report on operations they were sent a command for.
ReportBegin(r) ==
  /\ req[r].kind \in Reports
  /\ \E m \in published : req[m.by].op = req[r].op
  /\ Begin(r, TRUE, "h_update")

ReportUpdate(r) ==
  /\ req[r].kind \in Reports
  /\ Update(r, "h_update", Reported(copy[r], ReportedStatus[req[r].kind]), "h_append")

ReportAppend(r) ==
  /\ req[r].kind \in Reports
  /\ AppendFact(r, "h_append", ReportedStatus[req[r].kind], "done")

Report(r) == ReportBegin(r) \/ ReportUpdate(r) \/ ReportAppend(r)

-------------------------------------------------------------------------------
(* The environment *)

\* Another client of the repository commits a status change with method Transition.
PortTransition(o) ==
  /\ \E t \in PortTransitions :
        /\ rows[o].status = t[1]
        /\ rows' = [rows EXCEPT ![o] = Transitioned(@, t[1], t[2])]
  /\ UNCHANGED <<req, request, entities, facts, staged, published>>

NodeCrash(n) ==
  /\ NodesCrash
  /\ \E r \in Requests : req[r].node = n /\ InFlight(r)
  /\ Stop(n)

-------------------------------------------------------------------------------
Serve(r) == Upload(r) \/ Dispatch(r) \/ Cancel(r) \/ Retry(r) \/ Report(r)

Next ==
  \/ \E r \in Requests : Serve(r) \/ CallFails(r)
  \/ \E o \in Operations : PortTransition(o)
  \/ \E n \in Nodes : NodeCrash(n)

Spec == Init /\ [][Next]_vars

\* A goroutine that is not blocked runs on: once begun, a request is served.
FairSpec == Spec /\ \A r \in Requests : WF_vars(pc[r] # "idle" /\ Serve(r))

-------------------------------------------------------------------------------
(* Properties *)

\* Every variable has its type, whatever the requests did to each other.
TypeOK ==
  /\ req \in [Requests -> Request]
  /\ pc \in [Requests -> Steps \cup {"idle", "done"}]
  /\ copy \in [Requests -> Row]
  /\ reply \in [Requests -> {"none", "ok", "error"}]
  /\ rows \in [Operations -> Row]
  /\ jobs \subseteq [id : Requests, cycle : Nat]
  /\ attempts \subseteq [job : Requests, number : Nat]
  /\ transfers \subseteq [id : Requests, file : Requests]
  /\ facts \subseteq Facts
  /\ staged \in [Nodes -> [Operations -> Requests \cup {None}]]
  /\ published \subseteq Messages

\* A transfer moves the file that the operation's row records, whichever of two
\* racing uploads won the row: the row's file is never replaced or taken away.
TransferDescribesInput ==
  \A t \in transfers : rows[req[t.id].op].file = t.file

\* Nothing reaches a worker before the input file is recorded (handler.go:76,
\* "Does not schedule work before the input upload is complete").
WorkNeedsInput ==
  \A m \in published : rows[req[m.by].op].file # None

\* current_job_id never dangles: whatever failed or crashed on the way, the job
\* that a row names is stored, with an attempt, and belongs to that operation.
CurrentJobPersisted ==
  \A o \in Operations : rows[o].job # None =>
    /\ req[rows[o].job].op = o
    /\ \E j \in jobs : j.id = rows[o].job
    /\ \E a \in attempts : a.job = rows[o].job

\* No interleaving takes a row along a status change that the transition table
\* of the domain forbids, although no use case consults the table.
StatusMovesAllowed ==
  [][\A o \in Operations : CanTransition(rows[o].status, rows'[o].status)]_rows

\* The audit log tells the truth about work: although any step of a dispatch or of a
\* retry may fail on its own, and the entry is written last, an entry that work was
\* dispatched means that its transfer, commands, job and attempt exist, and one that
\* a retry was scheduled means its job and attempt.
LoggedWorkHappened ==
  \A f \in facts :
    /\ f.type = "Dispatched" =>
          /\ \E t \in transfers : t.id = f.by
          /\ \E m \in published : m.by = f.by /\ m.type = "START_TRANSFER"
          /\ \E m \in published : m.by = f.by /\ m.type = "PROCESS_UPDATE"
    /\ f.type \in {"Dispatched", "RetryScheduled"} =>
          /\ \E j \in jobs : j.id = f.by
          /\ \E a \in attempts : a.job = f.by

Atomic == INSTANCE AtomicOperations

\* The version check makes each use case atomic: every write that lands is the
\* use case's change of the row as it is at that moment, never of a stale copy.
\* The second write of a retry is the exception that AtomicOperations describes.
AtomicSpec == Atomic!Spec

\* No event of a worker ever moves a row: the handlers write their copy back with the
\* version they read, which the WHERE clause never matches.  This is not what role.go
\* means to do ("full operation status transition", line 371), nor what it says it did: the audit
\* log records the completion and the node's log has "marked COMPLETED" (line 430) and
\* "marked TRANSFERRED" (line 557) of a row that stays QUEUED or DISPATCHED.
ReportsNeverStored ==
  \A o \in Operations : rows[o].status \in {"CREATED", "QUEUED", "DISPATCHED"}

\* Racing retries spend no more than the budget of the operation.
RetryBudget == \A o \in Operations : rows[o].retry <= MaxAttempts

\* A retry that lost the race cannot write an old retry count back.
RetryCountNeverFalls ==
  [][\A o \in Operations : rows'[o].retry >= rows[o].retry]_rows

\* A queued operation is dispatched, if nothing fails and nobody cancels it.
QueuedIsDispatched ==
  \A o \in Operations : rows[o].status = "QUEUED" ~> rows[o].status = "DISPATCHED"

(* What the repository says and the code does not keep *)

\* A cancel that was answered 202 is recorded in the row (handler.go:398,
\* "Persists cancel_requested_at and emits an event").
AcceptedCancelPersists ==
  \A r \in Requests :
    req[r].kind = "cancel" /\ reply[r] = "ok" => RowOf(r).cancel
===============================================================================
