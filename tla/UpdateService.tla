----------------------------- MODULE UpdateService -----------------------------
(***************************************************************************)
(* The entry nodes and the worker together.                                *)
(*                                                                         *)
(* OperationLifecycle follows a dispatch through its rows and takes the    *)
(* chunks for one message; TransferPipeline follows its messages and takes *)
(* the ingress file as it finds it.  Here they are the two sides of one    *)
(* goroutine: a call that both describe is one step of both, and the file  *)
(* that the dispatch opens is the one that uploads stage on its node.      *)
(*                                                                         *)
(* The transfer of a dispatch is named by its request.  All bodies are of  *)
(* one size, so that only the digest tells them apart.                     *)
(***************************************************************************)
EXTENDS OperationLifecycle

CONSTANTS Operation,   \* the operation that each request asks for
          BodySize,    \* the bytes of an uploaded file
          ChunkSize, Accepts, Redelivers

ASSUME OperationAssumption == Operation \in [Requests -> Operations]

ASSUME BodyAssumption == BodySize \in Nat /\ ChunkSize \in Nat \ {0}

ASSUME WorkerAssumption == None \notin Accepts /\ Redelivers \in BOOLEAN

VARIABLES
  dispatch, next, source,                                    \* entry
  row, chunkRow, processed,                                  \* tables
  commands, unacked, consumer, bus, events,                  \* stream
  step, command, accepted, active,                           \* worker
  disk, manifest,                                            \* staging
  at, receiving, version, received, file, inHand             \* receiver

Pipeline == INSTANCE TransferPipeline WITH
  Transfers       <- Requests,
  FileSize        <- [r \in Requests |-> BodySize],
  IngressReplaced <- TRUE,
  NodesStop       <- TRUE

pipelineVars == <<dispatch, next, source, row, chunkRow, processed,
                  commands, unacked, consumer, bus, events, step, command, accepted, active,
                  disk, manifest, at, receiving, version, received, file, inHand>>

serviceVars == <<vars, pipelineVars>>

ServiceInit ==
  /\ Init
  /\ Pipeline!Init
  /\ \A r \in Requests : req[r].op = Operation[r]

-------------------------------------------------------------------------------
(* The dispatch, where it works on the transfer *)

\* The two descriptions of the goroutine are at the same call; once it has opened the
\* file, OperationLifecycle waits at PROCESS_UPDATE for the chunk loop.
SameCall(r) ==
  \/ pc[r] = "d_start"   /\ dispatch[r] = "start"
  \/ pc[r] = "d_chunks"  /\ dispatch[r] = "open"
  \/ pc[r] = "d_process" /\ dispatch[r] \in {"chunk", "publish", "process"}
  \/ pc[r] \notin {"d_start", "d_chunks", "d_process"} /\ dispatch[r] \in {"idle", "done"}

Ingress(r) == staged[req[r].node][req[r].op]

\* Mutant of OpenIngress: what the transfer announces is the digest of the file that
\* is streamed, not the one in the row.
OpenIngressAsItIs(r) ==
  /\ DispatchChunks(r) /\ Publish(r, "CHUNKS", Ingress(r))
  /\ Pipeline!DispatchOpen(r)
  /\ source'[r] = "announced"

\* os.Open, of the file that is there by now.
OpenIngress(r) ==
  /\ DispatchChunks(r) /\ Publish(r, "CHUNKS", Ingress(r))
  /\ Pipeline!DispatchOpen(r)
  /\ source'[r] = IF Ingress(r) = copy[r].file THEN "announced" ELSE "other"

\* The error is logged, and the dispatch goes on without chunks.
OpenFails(r) ==
  /\ DispatchChunks(r) /\ UNCHANGED published
  /\ Pipeline!DispatchFails(r)

DispatchTogether(r) ==
  /\ \/ DispatchTransfer(r) /\ Pipeline!DispatchCreate(r)
     \/ DispatchStart(r)    /\ Pipeline!DispatchStart(r)
     \/ OpenIngress(r)
     \/ OpenFails(r)
     \/ DispatchProcess(r)  /\ Pipeline!DispatchProcess(r)
     \/ CallFails(r)        /\ Pipeline!DispatchFails(r)
  /\ SameCall(r)'

\* A panic or the end of the process stops all dispatches of the node.
NodeStops(n) ==
  /\ NodeCrash(n) \/ \E r \in Requests : req[r].node = n /\ DispatchPanic(r)
  /\ Pipeline!DispatchStops(
       {r \in Requests : req[r].node = n /\ dispatch[r] \in Pipeline!DispatchSteps})

-------------------------------------------------------------------------------
(* What one side does alone *)

RequestAlone(r) ==
  /\ \/ Upload(r) \/ Cancel(r) \/ Retry(r) \/ Report(r)
     \/ DispatchLoad(r)
     \/ DispatchJob(r) \/ DispatchAttempt(r) \/ DispatchUpdate(r) \/ DispatchAppend(r)
     \/ CallFails(r) /\ pc[r] \notin {"d_start", "d_process"}
  /\ UNCHANGED pipelineVars

LoopAlone(r) ==
  /\ \/ Pipeline!DispatchChunk(r) \/ Pipeline!DispatchPublish(r)
     \/ Pipeline!DispatchFails(r) /\ dispatch[r] = "chunk"
  /\ UNCHANGED vars

WorkerAlone ==
  /\ \/ Pipeline!Worker \/ Pipeline!TakeEvent \/ Pipeline!TakeAgain \/ Pipeline!AcceptLoadFails
     \/ \E a \in Accepts : Pipeline!Receiver(a) \/ Pipeline!AcceptFails(a)
     \/ Pipeline!WorkerRestart
  /\ UNCHANGED vars

\* Nobody calls the repository's Transition, so that PortTransition has no part in it.
ServiceNext ==
  \/ \E r \in Requests : DispatchTogether(r) \/ RequestAlone(r) \/ LoopAlone(r)
  \/ \E n \in Nodes : NodeStops(n)
  \/ WorkerAlone

ServiceSpec == ServiceInit /\ [][ServiceNext]_serviceVars

-------------------------------------------------------------------------------
(* Properties *)

\* The bodies of which the dispatch of request r has streamed chunks.
Streamed(r) == {m.file : m \in {x \in published : x.by = r /\ x.type = "CHUNKS"}}

\* What a worker has finalized is the file that the operation's row records, and no
\* other: whoever won the row, whoever renamed its body over the ingress file last and
\* whatever was streamed, dropped, repeated or lost on the way (file.go:124, receiver.go:326).
FinalizedIsRecorded ==
  \A a \in Accepts :
    file[a] = "finalized" /\ BodySize # 0 =>
      Streamed(receiving[a]) = {RowOf(receiving[a]).file}

\* From the moment a job is taken up until it is reported, the worker waits for no transfer
\* of its operation: two uploads of one operation are both dispatched, though the row took
\* one, and each PROCESS_UPDATE finds the transfers of both (role.go:264, 610).
NoProcessingWhileActive == Pipeline!NoProcessingWhileActive
===============================================================================
