--------------------------- MODULE TransferPipeline ---------------------------
(***************************************************************************)
(* One input file on its way to a worker and the job that waits for it.    *)
(*                                                                         *)
(* The dispatch of an entry node stores a transfer, publishes              *)
(* START_TRANSFER, the chunks and PROCESS_UPDATE.  The worker takes        *)
(* commands from its durable consumer one after another: START_TRANSFER    *)
(* makes a receiver, which subscribes to the transfer's chunks and         *)
(* finalizes the file, PROCESS_UPDATE waits for the operation's active     *)
(* transfers and reports success.  In between is JetStream: a message that *)
(* no consumer is interested in is dropped, one that is not acknowledged   *)
(* in time is delivered again.                                             *)
(*                                                                         *)
(* Every call to MariaDB, NATS and the staging file is one action.  One    *)
(* worker is modelled: two share no command, receiver, file or transfer.   *)
(***************************************************************************)
EXTENDS Integers, Sequences, FiniteSets

CONSTANTS Transfers,
          Operation,        \* the operation of each transfer
          FileSize,         \* the bytes of the file that each transfer announces
          ChunkSize,        \* the bytes of a chunk but the last
          Accepts,          \* the receivers that are ever made: a bound
          None,
          IngressReplaced,  \* another upload may have renamed its body over the file
          CallsFail,        \* MariaDB, NATS and the disk may return errors
          Redelivers,       \* acknowledgements may be lost, or too late
          NodesStop         \* entry nodes stop, the worker stops and restarts

ASSUME SizesAssumption == FileSize \in [Transfers -> Nat] /\ ChunkSize \in Nat \ {0}

ASSUME NoneAssumption == None \notin Transfers \cup Accepts

ASSUME FlagsAssumption == {IngressReplaced, CallsFail, Redelivers, NodesStop} \subseteq BOOLEAN

\* Mutant of TotalChunks: a last chunk that is short is not counted.
TotalChunksFull == [t \in Transfers |-> FileSize[t] \div ChunkSize]

TotalChunks == [t \in Transfers |-> (FileSize[t] + ChunkSize - 1) \div ChunkSize]

\* A chunk is named <<transfer, index>>.
ChunksOf(t) == {t} \X (0..(TotalChunks[t] - 1))

Chunks == UNION {ChunksOf(t) : t \in Transfers}

\* Where the bytes of a chunk are in the file: the read fills the buffer, or takes what
\* is left.
BytesOf(c) ==
  {b \in c[2] * ChunkSize .. (c[2] + 1) * ChunkSize - 1 : b < FileSize[c[1]]}

Command == [type : {"START_TRANSFER", "PROCESS_UPDATE"}, transfer : Transfers]

Start(t)   == [type |-> "START_TRANSFER", transfer |-> t]
Process(t) == [type |-> "PROCESS_UPDATE", transfer |-> t]

VARIABLES
  dispatch,   \* the next call of each transfer's dispatch
  next,       \* its chunkIdx
  source,     \* whose body the ingress file has that it opened
  row,        \* table file_transfers: status and version
  chunkRow,   \* table file_chunks
  processed,  \* transfers whose job the audit log calls succeeded
  commands,   \* the worker's commands that were never delivered
  unacked,    \* those delivered and not acknowledged
  consumer,   \* the transfers whose chunk consumer exists
  bus,        \* the chunks it has not acknowledged
  events,     \* those on control.events that the worker has not taken
  step,       \* the next call of the worker's command callback,
  command,    \* its command, and
  accepted,   \* the receiver it makes
  active,     \* activeTransfers
  disk,       \* the staging file `final` of each transfer, chunk by chunk
  manifest,   \* the transfers with a manifest.json
  at,         \* the next call of each receiver,
  receiving,  \* its transfer,
  version,    \* the version of the row it loaded,
  received,   \* its map of received chunks,
  file,       \* whether its file is open or was finalized, and
  inHand      \* the chunk message its callback has

entry    == <<dispatch, next, source>>
tables   == <<row, chunkRow, processed>>
stream   == <<commands, unacked, consumer, bus, events>>
worker   == <<step, command, accepted, active>>
staging  == <<disk, manifest>>
receiver == <<at, receiving, version, received, file, inHand>>
vars == <<entry, tables, stream, worker, staging, receiver>>

-------------------------------------------------------------------------------
DispatchSteps == {"create", "start", "open", "chunk", "publish", "process"}
AcceptSteps   == {"load", "update", "subscribe", "add"}
WorkerSteps   == AcceptSteps \cup {"check", "work", "report", "ack"}
ReceiverSteps == {"listening", "upsert", "finalize", "complete", "manifest", "announce", "ack"}

Init ==
  /\ dispatch = [t \in Transfers |-> "idle"]
  /\ next = [t \in Transfers |-> 0]
  /\ source = [t \in Transfers |-> "announced"]
  /\ row = [t \in Transfers |-> [status |-> "none", version |-> 0]]
  /\ chunkRow = [c \in Chunks |-> "none"]
  /\ processed = {} /\ events = {}
  /\ commands = <<>> /\ unacked = {} /\ consumer = {} /\ bus = {}
  /\ step = "idle" /\ command = None /\ accepted = None /\ active = {}
  /\ disk = [c \in Chunks |-> "blank"]
  /\ manifest = {}
  /\ at = [a \in Accepts |-> "unused"]
  /\ receiving = [a \in Accepts |-> None]
  /\ version = [a \in Accepts |-> 0]
  /\ received = [a \in Accepts |-> {}]
  /\ file = [a \in Accepts |-> "open"]
  /\ inHand = [a \in Accepts |-> None]

\* transfers.Update: the version of the copy decides, a lost write is no error.
Stored(old, status, v) ==
  IF old.version = v THEN [status |-> status, version |-> v + 1] ELSE old

\* The file has the announced size and hash: each byte came with a chunk of the
\* announced body.
Whole(t) ==
  \A b \in 0..(FileSize[t] - 1) :
    \E c \in ChunksOf(t) : b \in BytesOf(c) /\ disk[c] = "announced"

-------------------------------------------------------------------------------
(* The dispatch of an entry node *)

DispatchGoto(t, s) == dispatch' = [dispatch EXCEPT ![t] = s]

\* The call returns, and with an error it may still have had its effect.
DispatchCall(t, from, to, onError) ==
  /\ dispatch[t] = from
  /\ DispatchGoto(t, to) \/ (CallsFail /\ DispatchGoto(t, onError))

DispatchCreate(t) ==
  /\ dispatch[t] = "idle"
  /\ DispatchGoto(t, "start") \/ (CallsFail /\ DispatchGoto(t, "done"))
  /\ row' = [row EXCEPT ![t] = [status |-> "CREATED", version |-> 1]]
  /\ UNCHANGED <<next, source, chunkRow, processed, stream, worker, staging, receiver>>

DispatchStart(t) ==
  /\ DispatchCall(t, "start", "open", "done")
  /\ commands' = Append(commands, Start(t))
  /\ UNCHANGED <<next, source, tables, unacked, consumer, bus, events, worker, staging, receiver>>

\* Mutant of LoopAt: the loop runs once too often.
LoopAtOnceMore(t, k) == IF k <= TotalChunks[t] THEN "chunk" ELSE "process"

LoopAt(t, k) == IF k < TotalChunks[t] THEN "chunk" ELSE "process"

\* The file stays the one that was opened, whatever is renamed over it later.
DispatchOpen(t) ==
  /\ dispatch[t] = "open"
  /\ DispatchGoto(t, LoopAt(t, 0))
  /\ \E s \in {"announced"} \cup (IF IngressReplaced THEN {"other"} ELSE {}) :
        source' = [source EXCEPT ![t] = s]
  /\ UNCHANGED <<next, tables, stream, worker, staging, receiver>>

\* chunks.Upsert; an error ends the loop but not the dispatch.
DispatchChunk(t) ==
  /\ DispatchCall(t, "chunk", "publish", "process")
  /\ chunkRow' = [chunkRow EXCEPT ![<<t, next[t]>>] = "published"]
  /\ UNCHANGED <<next, source, row, processed, stream, worker, staging, receiver>>

\* Without a consumer of this subject the stream keeps nothing.  An error is
\* logged and the loop goes on.
DispatchPublish(t) ==
  /\ dispatch[t] = "publish"
  /\ DispatchGoto(t, LoopAt(t, next[t] + 1))
  /\ next' = [next EXCEPT ![t] = @ + 1]
  /\ \/ t \in consumer /\ bus' = bus \cup {<<t, next[t]>>}
     \/ (t \notin consumer \/ CallsFail) /\ UNCHANGED bus
  /\ UNCHANGED <<source, tables, commands, unacked, consumer, events, worker, staging, receiver>>

\* Job, attempt and the operation's row follow in OperationLifecycle.
DispatchProcess(t) ==
  /\ DispatchCall(t, "process", "done", "done")
  /\ commands' = Append(commands, Process(t))
  /\ UNCHANGED <<next, source, tables, unacked, consumer, bus, events, worker, staging, receiver>>

\* An error without effect.  The other body may also end before the last chunk.
DispatchFails(t) ==
  /\ \/ CallsFail /\ dispatch[t] \in {"start", "process"} /\ DispatchGoto(t, "done")
     \/ CallsFail /\ dispatch[t] \in {"open", "chunk"} /\ DispatchGoto(t, "process")
     \/ source[t] = "other" /\ dispatch[t] = "chunk" /\ DispatchGoto(t, "process")
  /\ UNCHANGED <<next, source, tables, stream, worker, staging, receiver>>

\* A node stops, and with it the dispatches it was running.
DispatchStops(ts) ==
  /\ NodesStop
  /\ \A t \in ts : dispatch[t] \in DispatchSteps
  /\ dispatch' = [t \in Transfers |-> IF t \in ts THEN "done" ELSE dispatch[t]]
  /\ UNCHANGED <<next, source, tables, stream, worker, staging, receiver>>

Dispatch(t) ==
  \/ DispatchCreate(t) \/ DispatchStart(t) \/ DispatchOpen(t) \/ DispatchChunk(t)
  \/ DispatchPublish(t) \/ DispatchProcess(t)

-------------------------------------------------------------------------------
(* The worker's command consumer *)

\* The callback gets the next command, or again one that it never acknowledged.
TakeCommand(m) ==
  /\ step = "idle"
  /\ command' = m
  /\ step' = IF m.type = "START_TRANSFER" THEN "load" ELSE "check"
  /\ unacked' = unacked \cup {m}
  /\ UNCHANGED <<entry, tables, consumer, bus, events, accepted, active, staging, receiver>>

TakeNext ==
  /\ commands # <<>>
  /\ TakeCommand(Head(commands))
  /\ commands' = Tail(commands)

TakeAgain ==
  /\ \E m \in unacked : TakeCommand(m)
  /\ UNCHANGED commands

AckCommand ==
  /\ step = "ack"
  /\ \/ unacked' = unacked \ {command}
     \/ Redelivers /\ UNCHANGED unacked
  /\ step' = "idle" /\ command' = None
  /\ UNCHANGED <<entry, tables, commands, consumer, bus, events, accepted, active, staging, receiver>>

\* Mutant of AcceptLoad: the staging file is opened with O_TRUNC.
AcceptLoadTruncating(a) ==
  /\ step = "load"
  /\ at[a] = "unused"
  /\ at' = [at EXCEPT ![a] = "accepting"]
  /\ receiving' = [receiving EXCEPT ![a] = command.transfer]
  /\ version' = [version EXCEPT ![a] = row[command.transfer].version]
  /\ disk' = [c \in Chunks |-> IF c \in ChunksOf(command.transfer) THEN "blank" ELSE disk[c]]
  /\ accepted' = a
  /\ step' = "update"
  /\ UNCHANGED <<entry, tables, stream, command, active, manifest, received, file, inHand>>

\* AcceptTransfer loads the row and opens the staging file, keeping what is in it.
AcceptLoad(a) ==
  /\ step = "load"
  /\ at[a] = "unused"
  /\ at' = [at EXCEPT ![a] = "accepting"]
  /\ receiving' = [receiving EXCEPT ![a] = command.transfer]
  /\ version' = [version EXCEPT ![a] = row[command.transfer].version]
  /\ accepted' = a
  /\ step' = "update"
  /\ UNCHANGED <<entry, tables, stream, command, active, staging, received, file, inHand>>

\* Mutant of Refuse: the error is logged and the command acknowledged.
RefuseAndAck(a) ==
  /\ at' = [at EXCEPT ![a] = "gone"]
  /\ step' = "ack" /\ accepted' = None
  /\ UNCHANGED command

\* An error is answered with Nak: the command is delivered again, behind whatever
\* the consumer has by then.
Refuse(a) ==
  /\ at' = [at EXCEPT ![a] = "gone"]
  /\ step' = "idle" /\ command' = None /\ accepted' = None

AcceptUpdate(a) ==
  /\ step = "update" /\ accepted = a
  /\ row' = [row EXCEPT ![receiving[a]] = Stored(@, "ACCEPTED", version[a])]
  /\ \/ step' = "subscribe" /\ UNCHANGED <<command, accepted, at>>
     \/ CallsFail /\ Refuse(a)
  /\ UNCHANGED <<entry, chunkRow, processed, stream, active, staging,
                 receiving, version, received, file, inHand>>

\* CreateOrUpdateConsumer, and Consume.  A file without chunks is finalized at once,
\* before AcceptTransfer returns.
AcceptSubscribe(a) ==
  /\ step = "subscribe" /\ accepted = a
  /\ consumer' = consumer \cup {receiving[a]}
  /\ \/ /\ step' = "add"
        /\ at' = [at EXCEPT ![a] = IF TotalChunks[receiving[a]] = 0 THEN "finalize" ELSE "listening"]
        /\ UNCHANGED <<command, accepted>>
     \/ CallsFail /\ Refuse(a)
  /\ UNCHANGED <<entry, tables, commands, unacked, bus, events, active, staging,
                 receiving, version, received, file, inHand>>

AcceptFails(a) ==
  /\ CallsFail
  /\ step \in {"update", "subscribe"} /\ accepted = a
  /\ Refuse(a)
  /\ UNCHANGED <<entry, tables, stream, active, staging, receiving, version, received, file, inHand>>

\* The row or the staging file cannot be opened: there is no receiver yet.
AcceptLoadFails ==
  /\ CallsFail
  /\ step = "load"
  /\ step' = "idle" /\ command' = None
  /\ UNCHANGED <<entry, tables, stream, accepted, active, staging, receiver>>

AcceptAdd ==
  /\ step = "add"
  /\ TotalChunks[command.transfer] = 0 => at[accepted] = "listening"
  /\ active' = active \cup {command.transfer}
  /\ step' = "ack" /\ accepted' = None
  /\ UNCHANGED <<entry, tables, stream, command, staging, receiver>>

-------------------------------------------------------------------------------
(* PROCESS_UPDATE *)

OperationIsActive(t) == \E u \in active : Operation[u] = Operation[t]

\* Mutant of ProcessCheck: only the command's own transfer is looked up.
ProcessCheckOwn ==
  /\ step = "check"
  /\ command.transfer \notin active
  /\ step' = "work"
  /\ UNCHANGED <<entry, tables, stream, command, accepted, active, staging, receiver>>

\* checkTransferAndProceed sleeps and looks again until no transfer is active.
ProcessCheck ==
  /\ step = "check"
  /\ ~OperationIsActive(command.transfer)
  /\ step' = "work"
  /\ UNCHANGED <<entry, tables, stream, command, accepted, active, staging, receiver>>

\* Two seconds of work, then events.Append; on an error the job is given up.
ProcessAppend ==
  /\ step = "work"
  /\ \/ step' = "report" /\ processed' = processed \cup {command.transfer}
     \/ CallsFail /\ step' = "ack" /\ processed' \in {processed, processed \cup {command.transfer}}
  /\ UNCHANGED <<entry, row, chunkRow, stream, command, accepted, active, staging, receiver>>

Announced(type, t) ==
  \/ events' = events \cup {[type |-> type, transfer |-> t]}
  \/ CallsFail /\ UNCHANGED events

ProcessPublish ==
  /\ step = "report"
  /\ Announced("ProcessingSucceeded", command.transfer)
  /\ step' = "ack"
  /\ UNCHANGED <<entry, tables, commands, unacked, consumer, bus, command, accepted, active,
                 staging, receiver>>

Worker ==
  \/ TakeNext \/ AckCommand
  \/ \E a \in Accepts : AcceptLoad(a) \/ AcceptUpdate(a) \/ AcceptSubscribe(a)
  \/ AcceptAdd
  \/ ProcessCheck \/ ProcessAppend \/ ProcessPublish

-------------------------------------------------------------------------------
(* The receiver of a transfer *)

ReceiverGoto(a, s) == at' = [at EXCEPT ![a] = s]

\* Mutant of ReceiveChunk: the database is told before the disk has the chunk.
ReceiveChunkRowFirst(a, c) ==
  /\ at[a] = "listening"
  /\ c \in bus /\ c[1] = receiving[a]
  /\ Redelivers \/ \A b \in Accepts : inHand[b] # c
  /\ inHand' = [inHand EXCEPT ![a] = c]
  /\ file[a] = "open"
  /\ chunkRow' = [chunkRow EXCEPT ![c] = "received"]
  /\ \/ /\ disk' = [disk EXCEPT ![c] = source[c[1]]]
        /\ received' = [received EXCEPT ![a] = @ \cup {c}]
        /\ ReceiverGoto(a, "upsert")
     \/ /\ CallsFail
        /\ ReceiverGoto(a, "ack")
        /\ UNCHANGED <<disk, received>>
  /\ UNCHANGED <<entry, row, processed, stream, worker, manifest, receiving, version, file>>

\* Mutant of ReceiveChunk: every chunk is written where the file begins.
ReceiveChunkAtStart(a, c) ==
  /\ at[a] = "listening"
  /\ c \in bus /\ c[1] = receiving[a]
  /\ inHand' = [inHand EXCEPT ![a] = c]
  /\ disk' = [disk EXCEPT ![<<c[1], 0>>] = source[c[1]]]
  /\ received' = [received EXCEPT ![a] = @ \cup {c}]
  /\ ReceiverGoto(a, "upsert")
  /\ UNCHANGED <<entry, tables, stream, worker, manifest, receiving, version, file>>

\* handleChunk up to the write: a chunk that is known, or late, is dropped.
ReceiveChunk(a, c) ==
  /\ at[a] = "listening"
  /\ c \in bus /\ c[1] = receiving[a]
  /\ Redelivers \/ \A b \in Accepts : inHand[b] # c
  /\ inHand' = [inHand EXCEPT ![a] = c]
  /\ \/ /\ file[a] = "open" /\ c \notin received[a]
        /\ disk' = [disk EXCEPT ![c] = source[c[1]]]
        /\ received' = [received EXCEPT ![a] = @ \cup {c}]
        /\ ReceiverGoto(a, "upsert")
     \/ /\ file[a] # "open" \/ c \in received[a] \/ CallsFail
        /\ ReceiverGoto(a, "ack")
        /\ UNCHANGED <<disk, received>>
  /\ UNCHANGED <<entry, tables, stream, worker, manifest, receiving, version, file>>

\* Mutant of RecordChunk: the chunk just written is counted twice.
RecordChunkTwice(a) ==
  /\ at[a] = "upsert"
  /\ \/ chunkRow' = [chunkRow EXCEPT ![inHand[a]] = "received"]
     \/ CallsFail /\ UNCHANGED chunkRow
  /\ ReceiverGoto(a, IF Cardinality(received[a]) + 1 = TotalChunks[receiving[a]]
                     THEN "finalize" ELSE "ack")
  /\ UNCHANGED <<entry, row, processed, stream, worker, staging,
                 receiving, version, received, file, inHand>>

\* chunks.Upsert, whose error nobody looks at; the last chunk finalizes the file.
RecordChunk(a) ==
  /\ at[a] = "upsert"
  /\ \/ chunkRow' = [chunkRow EXCEPT ![inHand[a]] = "received"]
     \/ CallsFail /\ UNCHANGED chunkRow
  /\ ReceiverGoto(a, IF Cardinality(received[a]) = TotalChunks[receiving[a]]
                     THEN "finalize" ELSE "ack")
  /\ UNCHANGED <<entry, row, processed, stream, worker, staging,
                 receiving, version, received, file, inHand>>

\* Mutant of AfterFinalize: the callback returns before the acknowledgement.
AfterFinalizeNoAck(a) == "listening"

\* The callback acknowledges its chunk, AcceptTransfer goes on with an empty file.
AfterFinalize(a) == IF TotalChunks[receiving[a]] = 0 THEN "listening" ELSE "ack"

\* FinalizeTransfer closes the file, if its checksum fits, and cancels the receiver.
Finalize(a) ==
  /\ at[a] = "finalize"
  /\ \/ /\ Whole(receiving[a])
        /\ file' = [file EXCEPT ![a] = "finalized"]
        /\ ReceiverGoto(a, "complete")
     \/ /\ ~Whole(receiving[a]) \/ CallsFail
        /\ ReceiverGoto(a, AfterFinalize(a))
        /\ UNCHANGED file
  /\ UNCHANGED <<entry, tables, stream, worker, staging, receiving, version, received, inHand>>

\* handleChunk passed the context that was just cancelled, AcceptTransfer its own.
ContextLives(a) == TotalChunks[receiving[a]] = 0

\* Mutant of Complete: the row is loaded again and the context is the caller's own.
CompleteReloaded(a) ==
  /\ at[a] = "complete"
  /\ row' = [row EXCEPT ![receiving[a]] = Stored(@, "COMPLETED", @.version)]
  /\ ReceiverGoto(a, "manifest")
  /\ UNCHANGED <<entry, chunkRow, processed, stream, worker, staging,
                 receiving, version, received, file, inHand>>

\* transfers.Update with the version loaded by AcceptTransfer, which its own Update
\* has consumed.
Complete(a) ==
  /\ at[a] = "complete"
  /\ \/ /\ ContextLives(a)
        /\ row' = [row EXCEPT ![receiving[a]] = Stored(@, "COMPLETED", version[a])]
        /\ ReceiverGoto(a, "manifest") \/ (CallsFail /\ ReceiverGoto(a, AfterFinalize(a)))
     \/ /\ ~ContextLives(a) \/ CallsFail
        /\ ReceiverGoto(a, AfterFinalize(a))
        /\ UNCHANGED row
  /\ UNCHANGED <<entry, chunkRow, processed, stream, worker, staging,
                 receiving, version, received, file, inHand>>

\* The manifest is written; the event's id, made from the transfer's, is too long for
\* its column, so that Append fails and is logged.
WriteManifest(a) ==
  /\ at[a] = "manifest"
  /\ manifest' = manifest \cup {receiving[a]}
  /\ ReceiverGoto(a, "announce")
  /\ UNCHANGED <<entry, tables, stream, worker, disk, receiving, version, received, file, inHand>>

AnnounceVerified(a) ==
  /\ at[a] = "announce"
  /\ Announced("TransferVerified", receiving[a])
  /\ ReceiverGoto(a, AfterFinalize(a))
  /\ UNCHANGED <<entry, tables, commands, unacked, consumer, bus, worker, staging,
                 receiving, version, received, file, inHand>>

AckChunk(a) ==
  /\ at[a] = "ack"
  /\ \/ bus' = bus \ {inHand[a]}
     \/ Redelivers /\ UNCHANGED bus
  /\ inHand' = [inHand EXCEPT ![a] = None]
  /\ ReceiverGoto(a, "listening")
  /\ UNCHANGED <<entry, tables, commands, unacked, consumer, events, worker, staging,
                 receiving, version, received, file>>

Receiver(a) ==
  \/ \E c \in Chunks : ReceiveChunk(a, c)
  \/ RecordChunk(a) \/ Finalize(a) \/ Complete(a)
  \/ WriteManifest(a) \/ AnnounceVerified(a) \/ AckChunk(a)

-------------------------------------------------------------------------------
(* The worker's event consumer *)

\* Events are marshalled under their Go field names, which the tags of the consumer do
\* not match: the type it reads is empty, no handler runs, the event is acknowledged.
TakeEvent ==
  /\ \E e \in events : events' = events \ {e}
  /\ UNCHANGED <<entry, tables, commands, unacked, consumer, bus, worker, staging, receiver>>

-------------------------------------------------------------------------------
(* The environment *)

\* The worker's memory is lost, its consumers stay; the commands that its client had
\* fetched come again in any order.
WorkerRestart ==
  /\ NodesStop
  /\ \E n \in 0..Len(commands) :
        /\ unacked' = unacked \cup {commands[i] : i \in 1..n}
        /\ commands' = SubSeq(commands, n + 1, Len(commands))
  /\ step' = "idle" /\ command' = None /\ accepted' = None /\ active' = {}
  /\ at' = [a \in Accepts |-> IF at[a] = "unused" THEN "unused" ELSE "gone"]
  /\ inHand' = [a \in Accepts |-> None]
  /\ UNCHANGED <<entry, tables, consumer, bus, events, staging, receiving, version, received, file>>

Next ==
  \/ \E t \in Transfers : Dispatch(t) \/ DispatchFails(t)
  \/ \E ts \in SUBSET Transfers : DispatchStops(ts)
  \/ Worker \/ TakeEvent \/ TakeAgain \/ AcceptLoadFails
  \/ \E a \in Accepts : Receiver(a) \/ AcceptFails(a)
  \/ WorkerRestart

Spec == Init /\ [][Next]_vars

\* Goroutines that are not blocked run on, and the bus delivers what it has.
FairSpec ==
  /\ Spec
  /\ \A t \in Transfers : WF_vars(dispatch[t] # "idle" /\ Dispatch(t))
  /\ WF_vars(Worker) /\ WF_vars(TakeEvent)
  /\ \A a \in Accepts : WF_vars(Receiver(a))
-------------------------------------------------------------------------------
(* Properties *)

\* Every variable has its type, whatever messages come again or calls fail.
TypeOK ==
  /\ dispatch \in [Transfers -> DispatchSteps \cup {"idle", "done"}]
  /\ next \in [Transfers -> Nat]
  /\ source \in [Transfers -> {"announced", "other"}]
  /\ row \in [Transfers -> [status : {"none", "CREATED", "ACCEPTED", "COMPLETED"}, version : Nat]]
  /\ chunkRow \in [Chunks -> {"none", "published", "received"}]
  /\ processed \subseteq Transfers
  /\ commands \in Seq(Command)
  /\ unacked \subseteq Command
  /\ consumer \subseteq Transfers
  /\ bus \subseteq Chunks
  /\ events \subseteq [type : {"TransferVerified", "ProcessingSucceeded"}, transfer : Transfers]
  /\ step \in WorkerSteps \cup {"idle"}
  /\ command \in Command \cup {None}
  /\ accepted \in Accepts \cup {None}
  /\ active \subseteq Transfers
  /\ disk \in [Chunks -> {"blank", "announced", "other"}]
  /\ manifest \subseteq Transfers
  /\ at \in [Accepts -> ReceiverSteps \cup {"unused", "accepting", "gone"}]
  /\ receiving \in [Accepts -> Transfers \cup {None}]
  /\ version \in [Accepts -> Nat]
  /\ received \in [Accepts -> SUBSET Chunks]
  /\ file \in [Accepts -> {"open", "finalized"}]
  /\ inHand \in [Accepts -> Chunks \cup {None}]

\* A chunk that the database calls received is in the staging file, through crashes,
\* repeated commands and second receivers: rows follow the disk (receiver.go:224, 256).
ReceivedChunkOnDisk ==
  \A c \in Chunks : chunkRow[c] = "received" => disk[c] = source[c[1]]

\* A file that was finalized stays whole, although the same START_TRANSFER may open it
\* again and another receiver may write into it (receiver.go:96, 326).
FinalizedFileIsWhole ==
  \A a \in Accepts : file[a] = "finalized" => Whole(receiving[a])

\* Counting is enough: a receiver that begins to finalize has had every chunk itself, and
\* the file has them, although chunks come again, from a former life and to a second
\* receiver, and only their number is compared (receiver.go:245).
FinalizeHasEveryChunk ==
  \A a \in Accepts : at[a] = "finalize" =>
    \A c \in ChunksOf(receiving[a]) : c \in received[a] /\ disk[c] = source[c[1]]

\* A START_TRANSFER leaves the bus only when the transfer is accepted, its consumer
\* exists and the worker waits for it: no error or crash loses it (role.go:197-219).
StartLeavesBusAccepted ==
  [][\A t \in Transfers : Start(t) \in unacked \ unacked' =>
        row[t].status = "ACCEPTED" /\ t \in consumer /\ t \in active]_unacked

Delivery == INSTANCE FileDelivery WITH
  content  <- disk,
  recorded <- {c \in Chunks : chunkRow[c] = "received"},
  sealed   <- {receiving[a] : a \in {b \in Accepts : file[b] = "finalized"}}

\* The receivers of a transfer, however many there are, together fill one file with
\* one body, record what it has, and seal it when it is the announced one; the
\* dispatch, which writes chunk rows as well, takes no received chunk back.
DeliverySpec == Delivery!Spec

\* No transfer is ever COMPLETED: the Update of FinalizeTransfer comes with a cancelled
\* context or, for an empty file, with a version that is gone (receiver.go:340, 346).
TransfersNeverComplete == \A t \in Transfers : row[t].status # "COMPLETED"

\* From the moment a job is taken up until it is reported, the worker waits for no
\* transfer of its operation, be it the transfer of another job (role.go:264, 610).
NoProcessingWhileActive ==
  step \in {"work", "report"} => ~OperationIsActive(command.transfer)

\* No chunk stays on the bus: each is handled and acknowledged, if no call fails.
ChunksAreTaken == \A c \in Chunks : c \in bus ~> c \notin bus

\* The receiver that has all chunks of the announced file finalizes it.
CompleteIsFinalized ==
  \A a \in Accepts :
    (/\ receiving[a] # None
     /\ received[a] = ChunksOf(receiving[a])
     /\ source[receiving[a]] = "announced"
     /\ at[a] # "accepting")
    ~> file[a] = "finalized"

(* What the repository says and the code does not keep *)

\* The worker stops waiting for a transfer whose file it has verified (role.go:370,
\* "For workers: mark transfer as complete in activeTransfers").
VerifiedEndsWaiting ==
  \A t \in Transfers :
    (t \in active /\ \E a \in Accepts : receiving[a] = t /\ file[a] = "finalized")
    ~> t \notin active
===============================================================================
