-------------------------- MODULE UpdateService_proofs --------------------------
(***************************************************************************)
(* Proofs about UpdateService, for any number of requests, nodes,          *)
(* operations and receivers, with or without faults.                       *)
(*                                                                         *)
(* A behaviour of the whole is one of each side, so that what is proved of *)
(* the sides holds here.  What neither side can say is which body the      *)
(* chunks are of: Link follows it from the call that opens the ingress     *)
(* file, where the row, the transfer and the file meet, to the staging     *)
(* file of the worker.                                                     *)
(***************************************************************************)
EXTENDS UpdateService, OperationLifecycle_proofs

PF == INSTANCE TransferPipeline_proofs WITH
  Transfers       <- Requests,
  FileSize        <- [r \in Requests |-> BodySize],
  IngressReplaced <- TRUE,
  NodesStop       <- TRUE

\* Chunks were streamed, of one body; if that is the announced one, it is the file of
\* the transfer.
FromFile(r) ==
  /\ Streamed(r) # {}
  /\ source[r] = "announced" => \E t \in transfers : t.id = r /\ Streamed(r) = {t.file}

Unopened == {"idle", "start", "open"}
Looping  == {"chunk", "publish"}

Link ==
  /\ \A r \in Requests : SameCall(r)
  /\ \A r \in Requests : dispatch[r] \in Looping => FromFile(r)
  /\ \A c \in bus : FromFile(c[1])
  /\ \A c \in Pipeline!Chunks : disk[c] # "blank" => FromFile(c[1])
  /\ \A m \in published : m.type = "CHUNKS" => dispatch[m.by] \notin Unopened

-------------------------------------------------------------------------------
\* The requests' side of a behaviour is a behaviour of OperationLifecycle.
THEOREM LifecycleKept == ServiceSpec => Spec
<1>1. ServiceInit => Init
  BY DEF ServiceInit
<1>2. ASSUME NEW r \in Requests, DispatchTogether(r) PROVE Next
  BY <1>2 DEF DispatchTogether, OpenIngress, OpenFails, Dispatch, Serve, Next
<1>3. ASSUME NEW r \in Requests, RequestAlone(r) PROVE Next
  BY <1>3 DEF RequestAlone, Dispatch, Serve, Next
<1>4. ASSUME NEW n \in Nodes, NodeStops(n) PROVE Next
  BY <1>4 DEF NodeStops, Dispatch, Serve, Next
<1>5. [ServiceNext]_serviceVars => [Next]_vars
  BY <1>2, <1>3, <1>4 DEF ServiceNext, LoopAlone, WorkerAlone, serviceVars, Next
<1>6. QED
  BY <1>1, <1>5, PTL DEF ServiceSpec, Spec

\* The transfers' side of it is a behaviour of TransferPipeline.
THEOREM PipelineKept == ServiceSpec => Pipeline!Spec
<1>1. ServiceInit => Pipeline!Init
  BY DEF ServiceInit
<1>2. ASSUME NEW r \in Requests, DispatchTogether(r) PROVE Pipeline!Next
  BY <1>2 DEF DispatchTogether, OpenIngress, OpenFails, Pipeline!Dispatch, Pipeline!Next
<1>3. ASSUME NEW r \in Requests, LoopAlone(r) PROVE Pipeline!Next
  BY <1>3 DEF LoopAlone, Pipeline!Dispatch, Pipeline!Next
<1>4. ASSUME NEW n \in Nodes, NodeStops(n) PROVE Pipeline!Next
  BY <1>4 DEF NodeStops, Pipeline!Next
<1>5. WorkerAlone => Pipeline!Next
  BY DEF WorkerAlone, Pipeline!Next
<1>6. UNCHANGED pipelineVars => UNCHANGED Pipeline!vars
  BY DEF pipelineVars, Pipeline!vars, Pipeline!entry, Pipeline!tables, Pipeline!stream,
     Pipeline!worker, Pipeline!staging, Pipeline!receiver
<1>7. [ServiceNext]_serviceVars => [Pipeline!Next]_(Pipeline!vars)
  BY <1>2, <1>3, <1>4, <1>5, <1>6 DEF ServiceNext, RequestAlone, serviceVars
<1>8. QED
  BY <1>1, <1>7, PTL DEF ServiceSpec, Pipeline!Spec

\* The instance that the lemmas about TransferPipeline are taken from has the same
\* substitution: unfolded, the two specifications are one formula.
LEMMA OnePipeline == Pipeline!Spec => PF!Spec
<1> USE DEF Pipeline!entry, PF!entry, Pipeline!tables, PF!tables,
            Pipeline!stream, PF!stream, Pipeline!worker, PF!worker,
            Pipeline!staging, PF!staging, Pipeline!receiver, PF!receiver
<1>1. Pipeline!Init <=> PF!Init
  BY DEF Pipeline!Init, PF!Init, Pipeline!Chunks, PF!Chunks,
     Pipeline!ChunksOf, PF!ChunksOf, Pipeline!TotalChunks, PF!TotalChunks
<1>2. ASSUME NEW t PROVE Pipeline!Dispatch(t) <=> PF!Dispatch(t)
  BY DEF Pipeline!Dispatch, PF!Dispatch, Pipeline!DispatchCreate, PF!DispatchCreate,
     Pipeline!DispatchGoto, PF!DispatchGoto, Pipeline!DispatchStart, PF!DispatchStart,
     Pipeline!DispatchCall, PF!DispatchCall, Pipeline!Start, PF!Start,
     Pipeline!DispatchOpen, PF!DispatchOpen, Pipeline!LoopAt, PF!LoopAt,
     Pipeline!TotalChunks, PF!TotalChunks, Pipeline!DispatchChunk, PF!DispatchChunk,
     Pipeline!DispatchPublish, PF!DispatchPublish,
     Pipeline!DispatchProcess, PF!DispatchProcess, Pipeline!Process, PF!Process
<1>3. Pipeline!Worker <=> PF!Worker
  BY DEF Pipeline!Worker, PF!Worker, Pipeline!TakeNext, PF!TakeNext,
     Pipeline!TakeCommand, PF!TakeCommand, Pipeline!AckCommand, PF!AckCommand,
     Pipeline!AcceptLoad, PF!AcceptLoad, Pipeline!AcceptUpdate, PF!AcceptUpdate,
     Pipeline!Stored, PF!Stored, Pipeline!Refuse, PF!Refuse,
     Pipeline!AcceptSubscribe, PF!AcceptSubscribe, Pipeline!TotalChunks, PF!TotalChunks,
     Pipeline!AcceptAdd, PF!AcceptAdd, Pipeline!ProcessCheck, PF!ProcessCheck,
     Pipeline!OperationIsActive, PF!OperationIsActive,
     Pipeline!ProcessAppend, PF!ProcessAppend,
     Pipeline!ProcessPublish, PF!ProcessPublish, Pipeline!Announced, PF!Announced
<1>4. ASSUME NEW a PROVE Pipeline!Receiver(a) <=> PF!Receiver(a)
  BY DEF Pipeline!Receiver, PF!Receiver, Pipeline!ReceiveChunk, PF!ReceiveChunk,
     Pipeline!ReceiverGoto, PF!ReceiverGoto, Pipeline!RecordChunk, PF!RecordChunk,
     Pipeline!TotalChunks, PF!TotalChunks, Pipeline!Finalize, PF!Finalize,
     Pipeline!AfterFinalize, PF!AfterFinalize, Pipeline!Whole, PF!Whole,
     Pipeline!BytesOf, PF!BytesOf, Pipeline!ChunksOf, PF!ChunksOf,
     Pipeline!Complete, PF!Complete, Pipeline!ContextLives, PF!ContextLives,
     Pipeline!Stored, PF!Stored, Pipeline!WriteManifest, PF!WriteManifest,
     Pipeline!AnnounceVerified, PF!AnnounceVerified, Pipeline!Announced, PF!Announced,
     Pipeline!AckChunk, PF!AckChunk, Pipeline!Chunks, PF!Chunks,
     Pipeline!Cardinality, PF!Cardinality
<1>5. ASSUME NEW x
      PROVE  /\ Pipeline!DispatchFails(x) <=> PF!DispatchFails(x)
             /\ Pipeline!DispatchStops(x) <=> PF!DispatchStops(x)
             /\ Pipeline!AcceptFails(x) <=> PF!AcceptFails(x)
             /\ Pipeline!TakeEvent <=> PF!TakeEvent
             /\ Pipeline!TakeAgain <=> PF!TakeAgain
             /\ Pipeline!AcceptLoadFails <=> PF!AcceptLoadFails
             /\ Pipeline!WorkerRestart <=> PF!WorkerRestart
  BY DEF Pipeline!DispatchFails, PF!DispatchFails,
     Pipeline!DispatchGoto, PF!DispatchGoto, Pipeline!DispatchStops, PF!DispatchStops,
     Pipeline!DispatchSteps, PF!DispatchSteps, Pipeline!TakeEvent, PF!TakeEvent,
     Pipeline!TakeAgain, PF!TakeAgain, Pipeline!TakeCommand, PF!TakeCommand,
     Pipeline!AcceptFails, PF!AcceptFails, Pipeline!AcceptLoadFails, PF!AcceptLoadFails,
     Pipeline!Refuse, PF!Refuse, Pipeline!WorkerRestart, PF!WorkerRestart
<1>6. [Pipeline!Next]_(Pipeline!vars) => [PF!Next]_(PF!vars)
  BY <1>2, <1>3, <1>4, <1>5 DEF Pipeline!Next, PF!Next, Pipeline!vars, PF!vars
<1>7. QED
  BY <1>1, <1>6, PTL DEF Pipeline!Spec, PF!Spec

\* The constants are as TransferPipeline assumes them.
LEMMA PipelineConstants ==
  /\ [r \in Requests |-> BodySize] \in [Requests -> Nat] /\ ChunkSize \in Nat \ {0}
  /\ None \notin Requests \cup Accepts
  /\ {TRUE, CallsFail, Redelivers, TRUE} \subseteq BOOLEAN
BY RequestsAssumption, FaultAssumption, BodyAssumption, WorkerAssumption

\* What was proved of the two sides holds of the whole.
LEMMA SidesInvariant == ServiceSpec => [](IInv /\ LogInv /\ PF!IInv)
<1>1. PF!Spec => []PF!IInv
  BY PF!Invariant, PipelineConstants
<1>2. QED
  BY <1>1, LifecycleKept, PipelineKept, OnePipeline, Invariance, LogInvariance, PTL

-------------------------------------------------------------------------------
\* The types of what Link speaks of.
LEMMA LinkTypes ==
  ASSUME TypeOK, PF!TypeOK
  PROVE  /\ dispatch \in [Requests -> Pipeline!DispatchSteps \cup {"idle", "done"}]
         /\ source \in [Requests -> {"announced", "other"}]
         /\ bus \subseteq Pipeline!Chunks
         /\ disk \in [Pipeline!Chunks -> {"blank", "announced", "other"}]
         /\ \A c \in Pipeline!Chunks : c[1] \in Requests
         /\ pc \in [Requests -> Steps \cup {"idle", "done"}]
         /\ \A m \in published : m.by \in Requests
<1>1. Pipeline!Chunks = PF!Chunks /\ Pipeline!DispatchSteps = PF!DispatchSteps
  BY DEF Pipeline!Chunks, PF!Chunks, Pipeline!ChunksOf, PF!ChunksOf,
     Pipeline!TotalChunks, PF!TotalChunks, Pipeline!DispatchSteps, PF!DispatchSteps
<1>2. \A c \in Pipeline!Chunks : c[1] \in Requests
  BY DEF Pipeline!Chunks, Pipeline!ChunksOf
<1>3. QED
  BY <1>1, <1>2 DEF TypeOK, PF!TypeOK, Messages

\* What becomes of the chunks of a request that does not open its file in this step.
LEMMA FromFileStays ==
  ASSUME NEW r, Streamed(r)' = Streamed(r), source'[r] = source[r],
         transfers \subseteq transfers', FromFile(r)
  PROVE  FromFile(r)'
BY DEF FromFile

\* A step that streams nothing and opens nothing, and what else Link needs of it.
LEMMA LinkKept ==
  ASSUME TypeOK, PF!TypeOK, Link,
         source' = source, transfers \subseteq transfers',
         published \subseteq published',
         \A m \in published' : m.type = "CHUNKS" => m \in published,
         \A r \in Requests : SameCall(r)',
         \A r \in Requests : dispatch'[r] \in Looping => dispatch[r] \in Looping,
         \A r \in Requests : dispatch'[r] \in Unopened => dispatch[r] \in Unopened,
         \A c \in bus' : c \in bus \/ (c[1] \in Requests /\ dispatch[c[1]] \in Looping),
         \A c \in Pipeline!Chunks : disk'[c] = disk[c] \/ c \in bus
  PROVE  Link'
<1>1. \A r : Streamed(r)' = Streamed(r)
  BY DEF Streamed
<1>2. \A r \in Requests : FromFile(r) => FromFile(r)'
  BY <1>1, FromFileStays
<1>3. \A r \in Requests : dispatch'[r] \in Looping => FromFile(r)'
  BY <1>2 DEF Link
<1>4. \A c \in bus' : FromFile(c[1])'
  BY <1>2, LinkTypes DEF Link
<1>5. \A c \in Pipeline!Chunks : disk'[c] # "blank" => FromFile(c[1])'
  BY <1>2, LinkTypes DEF Link
<1>6. \A m \in published' : m.type = "CHUNKS" => dispatch'[m.by] \notin Unopened
  BY LinkTypes DEF Link
<1>7. Pipeline!Chunks' = Pipeline!Chunks
  BY DEF Pipeline!Chunks, Pipeline!ChunksOf, Pipeline!TotalChunks
<1>8. QED
  BY <1>3, <1>4, <1>5, <1>6, <1>7 DEF Link
\* Where a dispatch works on its transfer.
Shared == {"d_start", "d_chunks", "d_process"}

\* What a request does alone streams nothing and does not touch a transfer.
LEMMA RequestMoves ==
  ASSUME TypeOK, NEW r \in Requests, RequestAlone(r)
  PROVE  /\ transfers' = transfers /\ published' = published
         /\ pc[r] \notin Shared /\ pc'[r] \notin Shared
         /\ \A q \in Requests \ {r} : pc'[q] = pc[q]
         /\ UNCHANGED pipelineVars
<1>1. ASSUME Upload(r) \/ Cancel(r)
      PROVE  /\ transfers' = transfers /\ published' = published
             /\ pc[r] \notin Shared /\ pc'[r] \notin Shared
             /\ \A q \in Requests \ {r} : pc'[q] = pc[q]
  BY <1>1 DEF TypeOK, Upload, UploadBegin, UploadStage, UploadRefuse, UploadUpdate,
     UploadAppend, Cancel, CancelBegin, CancelUpdate, CancelAppend, Begin, Update,
     AppendFact, Call, Fail, Goto, entities, Shared
<1>2. ASSUME Retry(r) \/ Report(r)
      PROVE  /\ transfers' = transfers /\ published' = published
             /\ pc[r] \notin Shared /\ pc'[r] \notin Shared
             /\ \A q \in Requests \ {r} : pc'[q] = pc[q]
  BY <1>2 DEF TypeOK, Retry, RetryBegin, RetryUpdate, RetryJob, RetryAttempt,
     RetryAttach, RetryAppend, Report, ReportBegin, ReportUpdate, ReportAppend, Begin,
     Update, AppendFact, CreateJob, CreateAttempt, Call, Fail, Goto, entities, Shared
<1>3. ASSUME \/ DispatchLoad(r) \/ DispatchJob(r) \/ DispatchAttempt(r)
             \/ DispatchUpdate(r) \/ DispatchAppend(r)
             \/ CallFails(r) /\ pc[r] \notin {"d_start", "d_process"}
      PROVE  /\ transfers' = transfers /\ published' = published
             /\ pc[r] \notin Shared /\ pc'[r] \notin Shared
             /\ \A q \in Requests \ {r} : pc'[q] = pc[q]
  BY <1>3 DEF TypeOK, DispatchLoad, DispatchJob, DispatchAttempt, DispatchUpdate,
     DispatchAppend, CallFails, Update, AppendFact, CreateJob, CreateAttempt, Call,
     Fail, Goto, entities, Shared
<1>4. QED
  BY <1>1, <1>2, <1>3 DEF RequestAlone

\* The five kinds of steps, and Link.
LEMMA RequestLinks ==
  ASSUME TypeOK, PF!TypeOK, Link, NEW r \in Requests, RequestAlone(r)
  PROVE  Link'
<1>1. /\ dispatch' = dispatch /\ source' = source /\ bus' = bus /\ disk' = disk
  BY RequestMoves DEF pipelineVars
<1>2. \A q \in Requests : SameCall(q)'
  BY <1>1, RequestMoves DEF Link, SameCall, Shared
<1>3. QED
  BY <1>1, <1>2, RequestMoves, LinkKept

LEMMA LoopLinks ==
  ASSUME TypeOK, PF!TypeOK, Link, NEW r \in Requests, LoopAlone(r)
  PROVE  Link'
<1>1. /\ source' = source /\ disk' = disk
      /\ dispatch[r] \in Looping /\ dispatch'[r] \in Looping \cup {"process"}
      /\ \A q \in Requests \ {r} : dispatch'[q] = dispatch[q]
      /\ bus' \in {bus, bus \cup {<<r, next[r]>>}}
  BY LinkTypes DEF LoopAlone, Pipeline!DispatchChunk, Pipeline!DispatchPublish,
     Pipeline!DispatchFails, Pipeline!DispatchCall, Pipeline!DispatchGoto,
     Pipeline!LoopAt, Looping, Pipeline!stream, Pipeline!tables, Pipeline!staging
<1>2. pc' = pc /\ transfers' = transfers /\ published' = published
  BY DEF LoopAlone, vars, request, entities
<1>3. \A q \in Requests : SameCall(q)'
  BY <1>1, <1>2 DEF Link, SameCall, Looping
<1>4. QED
  BY <1>1, <1>2, <1>3, LinkKept DEF Looping, Unopened

LEMMA WorkerLinks ==
  ASSUME TypeOK, PF!TypeOK, Link, WorkerAlone
  PROVE  Link'
<1>1. ASSUME \/ Pipeline!Worker \/ Pipeline!TakeEvent \/ Pipeline!TakeAgain
             \/ Pipeline!AcceptLoadFails
             \/ \E a \in Accepts : Pipeline!AcceptFails(a)
             \/ Pipeline!WorkerRestart
      PROVE  dispatch' = dispatch /\ source' = source /\ disk' = disk /\ bus' = bus
  BY <1>1 DEF Pipeline!Worker, Pipeline!TakeEvent, Pipeline!TakeAgain,
     Pipeline!AcceptLoadFails, Pipeline!AcceptFails, Pipeline!WorkerRestart,
     Pipeline!TakeNext, Pipeline!TakeCommand, Pipeline!AckCommand, Pipeline!AcceptLoad,
     Pipeline!AcceptUpdate, Pipeline!AcceptSubscribe, Pipeline!AcceptAdd,
     Pipeline!ProcessCheck, Pipeline!ProcessAppend, Pipeline!ProcessPublish,
     Pipeline!entry, Pipeline!staging, Pipeline!stream
<1>2. ASSUME NEW a \in Accepts, Pipeline!Receiver(a)
      PROVE  /\ dispatch' = dispatch /\ source' = source /\ bus' \subseteq bus
             /\ \A c \in Pipeline!Chunks : disk'[c] = disk[c] \/ c \in bus
  <2>1. dispatch' = dispatch /\ source' = source /\ bus' \subseteq bus
    BY <1>2 DEF Pipeline!Receiver, Pipeline!ReceiveChunk, Pipeline!RecordChunk,
       Pipeline!Finalize, Pipeline!Complete, Pipeline!WriteManifest,
       Pipeline!AnnounceVerified, Pipeline!AckChunk, Pipeline!entry, Pipeline!staging,
       Pipeline!stream
  <2>2. \A c \in Pipeline!Chunks : disk'[c] = disk[c] \/ c \in bus
    BY <1>2, LinkTypes DEF Pipeline!Receiver, Pipeline!ReceiveChunk,
       Pipeline!RecordChunk, Pipeline!Finalize, Pipeline!Complete,
       Pipeline!WriteManifest, Pipeline!AnnounceVerified, Pipeline!AckChunk,
       Pipeline!entry, Pipeline!staging, Pipeline!stream
  <2>3. QED
    BY <2>1, <2>2
<1>3. /\ dispatch' = dispatch /\ source' = source /\ bus' \subseteq bus
      /\ \A c \in Pipeline!Chunks : disk'[c] = disk[c] \/ c \in bus
  BY <1>1, <1>2 DEF WorkerAlone
<1>4. pc' = pc /\ transfers' = transfers /\ published' = published
  BY DEF WorkerAlone, vars, request, entities
<1>5. \A q \in Requests : SameCall(q)'
  BY <1>3, <1>4 DEF Link, SameCall
<1>6. QED
  BY <1>3, <1>4, <1>5, LinkKept

LEMMA StopLinks ==
  ASSUME TypeOK, PF!TypeOK, Link, NEW n \in Nodes, NodeStops(n)
  PROVE  Link'
<1>1. Stop(n)
  BY DEF NodeStops, NodeCrash, DispatchPanic
<1>2. /\ pc' = [r \in Requests |->
                  IF req[r].node = n /\ InFlight(r) THEN "done" ELSE pc[r]]
      /\ transfers' = transfers /\ published' = published
  BY <1>1 DEF Stop, entities
<1>3. /\ dispatch' = [r \in Requests |->
                        IF req[r].node = n /\ dispatch[r] \in Pipeline!DispatchSteps
                        THEN "done" ELSE dispatch[r]]
      /\ source' = source /\ disk' = disk /\ bus' = bus
  BY DEF NodeStops, Pipeline!DispatchStops, Pipeline!stream, Pipeline!staging
<1>4. \A r \in Requests : SameCall(r)'
  <2> SUFFICES ASSUME NEW r \in Requests PROVE SameCall(r)'
    OBVIOUS
  <2>1. SameCall(r)
    BY DEF Link
  <2>2. pc[r] \in Shared => InFlight(r)
    BY DEF Shared, InFlight, Steps, DispatchSteps
  <2>3. dispatch[r] \in Pipeline!DispatchSteps <=> pc[r] \in Shared
    BY <2>1 DEF SameCall, Shared, Pipeline!DispatchSteps
  <2>4. QED
    BY <1>2, <1>3, <2>1, <2>2, <2>3 DEF SameCall, Shared
<1>5. QED
  BY <1>2, <1>3, <1>4, LinkKept DEF Looping, Unopened

\* A call that both sides describe, other than the opening of the ingress file.
LEMMA TogetherLinks ==
  ASSUME TypeOK, PF!TypeOK, Link, NEW r \in Requests, DispatchTogether(r), ~OpenIngress(r)
  PROVE  Link'
<1>1. SameCall(r)'
  BY DEF DispatchTogether
<1>2. /\ \A q \in Requests \ {r} : pc'[q] = pc[q]
      /\ transfers \subseteq transfers' /\ published \subseteq published'
      /\ \A m \in published' : m.type = "CHUNKS" => m \in published
  BY DEF TypeOK, DispatchTogether, OpenFails, DispatchTransfer, DispatchStart,
     DispatchChunks, DispatchProcess, CallFails, Call, Fail, Goto, Publish, entities
<1>3. /\ \A q \in Requests \ {r} : dispatch'[q] = dispatch[q]
      /\ dispatch'[r] \in Looping => dispatch[r] \in Looping
      /\ dispatch'[r] \in Unopened => dispatch[r] \in Unopened
      /\ source' = source /\ bus' = bus /\ disk' = disk
  BY LinkTypes DEF DispatchTogether, OpenFails, Pipeline!DispatchCreate,
     Pipeline!DispatchStart, Pipeline!DispatchProcess, Pipeline!DispatchFails,
     Pipeline!DispatchCall, Pipeline!DispatchGoto, Pipeline!stream, Pipeline!staging,
     Looping, Unopened
<1>4. \A q \in Requests : SameCall(q)'
  BY <1>1, <1>2, <1>3 DEF Link, SameCall
<1>5. QED
  BY <1>2, <1>3, <1>4, LinkKept

\* Where the row, the transfer and the file meet: the copy has the file of the row,
\* which is the one that the transfer was created with.
LEMMA OpenLinks ==
  ASSUME IInv, LogInv, PF!TypeOK, Link,
         NEW r \in Requests, DispatchTogether(r), OpenIngress(r)
  PROVE  Link'
<1> USE DEF IInv
<1>1. /\ pc[r] = "d_chunks" /\ transfers' = transfers
      /\ published' = published \cup {[by |-> r, type |-> "CHUNKS", file |-> Ingress(r)]}
      /\ \A q \in Requests \ {r} : pc'[q] = pc[q]
  BY DEF TypeOK, OpenIngress, DispatchChunks, Publish, Goto, entities
<1>2. /\ dispatch[r] = "open" /\ dispatch'[r] \in Looping \cup {"process"}
      /\ \A q \in Requests \ {r} : dispatch'[q] = dispatch[q] /\ source'[q] = source[q]
      /\ bus' = bus /\ disk' = disk
      /\ source'[r] = "announced" => Ingress(r) = copy[r].file
  BY LinkTypes DEF OpenIngress, Pipeline!DispatchOpen, Pipeline!DispatchGoto,
     Pipeline!LoopAt, Pipeline!stream, Pipeline!staging, Looping
<1>3. \A q \in Requests : SameCall(q)'
  BY <1>1, <1>2 DEF Link, SameCall, DispatchTogether
<1>4. PICK t \in transfers : t.id = r /\ t.file = copy[r].file
  <2>1. copy[r].file = RowOf(r).file
    BY <1>1 DEF RequestInv, WithFile
  <2>2. PICK t \in transfers : t.id = r
    BY <1>1 DEF LogInv, Achieved, HasTransfer
  <2>3. QED
    BY <2>1, <2>2 DEF TransferDescribesInput, RowOf
<1>5. Streamed(r) = {}
  BY <1>2, LinkTypes DEF Link, Streamed, Unopened
<1>6. Streamed(r)' = {Ingress(r)}
  <2> DEFINE chunks == [by |-> r, type |-> "CHUNKS", file |-> Ingress(r)]
  <2>1. /\ chunks \in published' /\ chunks.by = r /\ chunks.type = "CHUNKS"
        /\ chunks.file = Ingress(r)
    BY <1>1
  <2>2. \A m \in published' : m.by = r /\ m.type = "CHUNKS" => m = chunks
    BY <1>1, <1>5 DEF Streamed
  <2> HIDE DEF chunks
  <2>3. {x \in published' : x.by = r /\ x.type = "CHUNKS"} = {chunks}
    BY <2>1, <2>2
  <2>4. QED
    BY <2>1, <2>3 DEF Streamed
<1>7. FromFile(r)'
  BY <1>1, <1>2, <1>4, <1>6 DEF FromFile
<1>8. ASSUME NEW q \in Requests, FromFile(q) PROVE FromFile(q)'
  <2>1. CASE q # r
    <3>1. Streamed(q)' = Streamed(q)
      BY <1>1, <2>1 DEF Streamed
    <3>2. QED
      BY <1>1, <1>2, <2>1, <3>1, <1>8, FromFileStays
  <2>2. QED
    BY <1>7, <2>1
<1>9. \A q \in Requests : dispatch'[q] \in Looping => FromFile(q)'
  BY <1>2, <1>7, <1>8 DEF Link
<1>10. \A c \in bus' : FromFile(c[1])'
  BY <1>2, <1>8, LinkTypes DEF Link
<1>11. \A c \in Pipeline!Chunks' : disk'[c] # "blank" => FromFile(c[1])'
  BY <1>2, <1>8, LinkTypes DEF Link, Pipeline!Chunks, Pipeline!ChunksOf,
     Pipeline!TotalChunks
<1>12. \A m \in published' : m.type = "CHUNKS" => dispatch'[m.by] \notin Unopened
  BY <1>1, <1>2, LinkTypes DEF Link, Unopened, Looping
<1>13. QED
  BY <1>3, <1>9, <1>10, <1>11, <1>12 DEF Link

\* Link is inductive, with the invariants of the two sides.
LEMMA LinkNext == IInv /\ LogInv /\ PF!IInv /\ Link /\ [ServiceNext]_serviceVars => Link'
<1> SUFFICES ASSUME IInv, LogInv, PF!IInv, Link, [ServiceNext]_serviceVars PROVE Link'
  OBVIOUS
<1>1. TypeOK /\ PF!TypeOK
  BY DEF IInv, PF!IInv
<1>2. ASSUME NEW r \in Requests, DispatchTogether(r) PROVE Link'
  BY <1>1, <1>2, TogetherLinks, OpenLinks
<1>3. CASE UNCHANGED serviceVars
  <2>1. /\ dispatch' = dispatch /\ source' = source /\ bus' = bus /\ disk' = disk
        /\ pc' = pc /\ transfers' = transfers /\ published' = published
    BY <1>3 DEF serviceVars, vars, pipelineVars, request, entities
  <2>2. QED
    BY <2>1, <1>1, LinkKept DEF Link, SameCall
<1>4. QED
  BY <1>1, <1>2, <1>3, RequestLinks, LoopLinks, StopLinks,
     WorkerLinks DEF ServiceNext

LEMMA LinkInit == ServiceInit => Link
BY DEF ServiceInit, Init, Pipeline!Init, Link, SameCall, Looping, Unopened

\* What a worker finalized has a byte, so that it has a chunk of the announced body.
LEMMA LinkSuffices == ASSUME IInv, PF!IInv, Link PROVE FinalizedIsRecorded
<1> SUFFICES ASSUME NEW a \in Accepts, file[a] = "finalized", BodySize # 0
             PROVE  Streamed(receiving[a]) = {RowOf(receiving[a]).file}
  BY DEF FinalizedIsRecorded
<1> DEFINE r == receiving[a]
<1>1. r \in Requests /\ PF!Whole(r)
  BY DEF PF!IInv, PF!FileInv, PF!RoleInv, PF!FinalizedFileIsWhole
<1>2. 0 \in 0..([q \in Requests |-> BodySize][r] - 1)
  BY <1>1, BodyAssumption
<1>3. PICK c \in PF!ChunksOf(r) : disk[c] = "announced"
  BY <1>1, <1>2 DEF PF!Whole
<1>4. c[1] = r /\ c \in PF!Chunks /\ c \in Pipeline!Chunks
  BY <1>1 DEF PF!Chunks, PF!ChunksOf, PF!TotalChunks, Pipeline!Chunks,
     Pipeline!ChunksOf, Pipeline!TotalChunks
<1>5. source[r] = "announced"
  BY <1>3, <1>4 DEF PF!IInv, PF!FileInv
<1>6. FromFile(r)
  BY <1>3, <1>4 DEF Link
<1>7. QED
  BY <1>5, <1>6 DEF FromFile, IInv, TransferDescribesInput, RowOf

\* However many dispatches an operation has, no job of it is worked on while the worker
\* waits for one of their transfers.
THEOREM JobsWait == ServiceSpec => []NoProcessingWhileActive
<1>1. PF!Spec => []PF!NoProcessingWhileActive
  BY PF!ProcessingWaits, PipelineConstants
<1>2. PF!NoProcessingWhileActive <=> NoProcessingWhileActive
  BY DEF NoProcessingWhileActive, Pipeline!NoProcessingWhileActive, PF!NoProcessingWhileActive,
     Pipeline!OperationIsActive, PF!OperationIsActive
<1>3. QED
  BY <1>1, <1>2, PipelineKept, OnePipeline, PTL

\* What a worker has finalized is the file that the operation's row records: however
\* uploads, cancels and their dispatches race for the row and for the ingress file,
\* and whatever messages are lost or repeated and nodes stop on the way to it.
THEOREM FinalizedRecorded == ServiceSpec => []FinalizedIsRecorded
<1>1. IInv /\ PF!IInv /\ Link => FinalizedIsRecorded
  BY LinkSuffices
<1>2. QED
  BY <1>1, LinkInit, LinkNext, SidesInvariant, PTL DEF ServiceSpec
===============================================================================
