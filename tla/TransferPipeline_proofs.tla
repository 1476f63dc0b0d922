------------------------ MODULE TransferPipeline_proofs ------------------------
(***************************************************************************)
(* Proofs about TransferPipeline, for any number of transfers, chunks and  *)
(* receivers, with or without faults.                                      *)
(*                                                                         *)
(* The argument has four parts.  A chunk is published after its source is *)
(* fixed, so that what is on disk is the source's, whichever receiver      *)
(* wrote it (FileInv).  A receiver's version is that of the row only       *)
(* between its load and its own Update (VersionInv).  The worker's command *)
(* callback goes through its steps alone, so that each step can rely on    *)
(* what the one before left (RoleInv, CommandInv).  The chunks tile the    *)
(* file, so that a receiver may count them (ChunksTile, CountInv).         *)
(***************************************************************************)
EXTENDS TransferPipeline, TLAPS, SequenceTheorems, FiniteSetTheorems

\* Commands of transfers whose dispatch has begun.
Begun == {m \in Command : dispatch[m.transfer] # "idle"}

LoopInv ==
  \A t \in Transfers :
    /\ dispatch[t] \in {"idle", "start", "open"} => next[t] = 0
    /\ dispatch[t] \in {"chunk", "publish"} => next[t] < TotalChunks[t]

RoleInv ==
  /\ commands \in Seq(Begun) /\ unacked \subseteq Begun
  /\ step # "idle" => command \in unacked
  /\ step \in AcceptSteps => command.type = "START_TRANSFER"
  /\ step \in {"check", "work", "report"} => command.type = "PROCESS_UPDATE"
  /\ step \in {"update", "subscribe", "add"} =>
        /\ accepted \in Accepts
        /\ receiving[accepted] = command.transfer
        /\ at[accepted] # "unused"
  /\ step \in {"update", "subscribe"} => at[accepted] = "accepting"
  /\ \A a \in Accepts : at[a] # "unused" =>
        receiving[a] \in Transfers /\ dispatch[receiving[a]] # "idle"
  /\ \A a \in Accepts : at[a] = "upsert" => inHand[a] \in Chunks

\* The dispatch has published the chunk, and its source is fixed since.
Sent(c) == c[2] < next[c[1]]

FileInv ==
  /\ \A c \in bus : Sent(c)
  /\ \A c \in Chunks : disk[c] # "blank" => Sent(c) /\ disk[c] = source[c[1]]
  /\ \A c \in Chunks : chunkRow[c] = "received" => disk[c] # "blank"
  /\ \A a \in Accepts : at[a] = "upsert" => disk[inHand[a]] # "blank"
  /\ \A a \in Accepts : file[a] = "finalized" => at[a] # "unused"
  /\ FinalizedFileIsWhole

VersionInv ==
  /\ TransfersNeverComplete
  /\ \A a \in Accepts : at[a] # "unused" => version[a] <= row[receiving[a]].version
  /\ \A a \in Accepts : at[a] \in ReceiverSteps => version[a] < row[receiving[a]].version
  /\ step = "update" => version[accepted] = row[command.transfer].version
  /\ step = "subscribe" => version[accepted] < row[command.transfer].version

\* What the command callback has achieved when it comes to a step.
CommandInv ==
  /\ step \in {"subscribe", "add"} => row[command.transfer].status = "ACCEPTED"
  /\ step = "add" => command.transfer \in consumer
  /\ step = "ack" /\ command.type = "START_TRANSFER" =>
        /\ row[command.transfer].status = "ACCEPTED"
        /\ command.transfer \in consumer
        /\ command.transfer \in active
  /\ NoProcessingWhileActive

IInv == TypeOK /\ LoopInv /\ RoleInv /\ FileInv /\ VersionInv /\ CommandInv

-------------------------------------------------------------------------------
\* There is a chunk for each multiple of the chunk size within the file, and no other.
LEMMA ChunkCount ==
  /\ TotalChunks \in [Transfers -> Nat]
  /\ \A t \in Transfers : \A k \in Nat : k < TotalChunks[t] <=> k * ChunkSize < FileSize[t]
<1>1. ASSUME NEW n \in Nat, NEW s \in Nat \ {0}
      PROVE  (n + s - 1) \div s \in Nat
  OBVIOUS
<1>2. ASSUME NEW n \in Nat, NEW s \in Nat \ {0}, NEW k \in Nat
      PROVE  k < (n + s - 1) \div s <=> k * s < n
  OBVIOUS
<1>3. ChunkSize \in Nat \ {0} /\ \A t \in Transfers : FileSize[t] \in Nat
  BY SizesAssumption
<1>4. QED
  BY <1>1, <1>2, <1>3 DEF TotalChunks

\* A chunk belongs to exactly one transfer.
LEMMA ChunkFacts ==
  /\ \A t \in Transfers : ChunksOf(t) \subseteq Chunks
  /\ \A t \in Transfers : \A c \in ChunksOf(t) : c[1] = t
  /\ \A c \in Chunks : c[1] \in Transfers /\ c \in ChunksOf(c[1])
  /\ \A c \in Chunks : c[2] \in Nat /\ c = <<c[1], c[2]>>
  /\ \A t \in Transfers : \A k \in Nat : k < TotalChunks[t] => <<t, k>> \in ChunksOf(t)
BY ChunkCount DEF ChunksOf, Chunks

\* The chunks tile the file: none is empty, so that no read ends the loop early, each
\* byte is in one chunk and in one only (dispatch.go:146, 317-334).
THEOREM ChunksTile ==
  ASSUME NEW t \in Transfers
  PROVE  /\ \A c \in ChunksOf(t) : BytesOf(c) # {} /\ BytesOf(c) \subseteq 0..(FileSize[t] - 1)
         /\ \A b \in 0..(FileSize[t] - 1) : \E c \in ChunksOf(t) : b \in BytesOf(c)
         /\ \A c, d \in ChunksOf(t) : c # d => BytesOf(c) \cap BytesOf(d) = {}
<1>1. ChunkSize \in Nat \ {0} /\ FileSize[t] \in Nat
  BY SizesAssumption
<1>2. \A c \in ChunksOf(t) : /\ c[1] = t /\ c[2] \in Nat /\ c = <<t, c[2]>>
                            /\ c[2] < TotalChunks[t]
  BY ChunkCount DEF ChunksOf
<1>3. ASSUME NEW c \in ChunksOf(t)
      PROVE  BytesOf(c) # {} /\ BytesOf(c) \subseteq 0..(FileSize[t] - 1)
  <2>1. c[1] = t /\ c[2] \in Nat /\ c[2] * ChunkSize < FileSize[t]
    BY <1>2, ChunkCount
  <2>2. c[2] * ChunkSize \in Nat /\ (c[2] + 1) * ChunkSize = c[2] * ChunkSize + ChunkSize
    BY <1>1, <2>1
  <2>3. c[2] * ChunkSize \in BytesOf(c)
    BY <1>1, <2>1, <2>2 DEF BytesOf
  <2>4. \A b \in BytesOf(c) : b \in 0..(FileSize[t] - 1)
    BY <1>1, <2>1, <2>2 DEF BytesOf
  <2>5. QED
    BY <2>3, <2>4
<1>4. ASSUME NEW b \in 0..(FileSize[t] - 1)
      PROVE  \E c \in ChunksOf(t) : b \in BytesOf(c)
  <2> DEFINE k == b \div ChunkSize
  <2>1. ASSUME NEW x \in Nat, NEW s \in Nat \ {0}
        PROVE  /\ x \div s \in Nat /\ (x \div s) * s <= x
               /\ x < ((x \div s) + 1) * s
    OBVIOUS
  <2>2. b \in Nat /\ b < FileSize[t]
    BY <1>1
  <2>3. k \in Nat /\ k * ChunkSize <= b /\ b < (k + 1) * ChunkSize
    BY <1>1, <2>1, <2>2
  <2> HIDE DEF k
  <2>4. k * ChunkSize \in Nat /\ (k + 1) * ChunkSize \in Nat
    BY <1>1, <2>3
  <2>5. <<t, k>> \in ChunksOf(t)
    BY <1>1, <2>2, <2>3, <2>4, ChunkCount, ChunkFacts
  <2>6. b \in BytesOf(<<t, k>>)
    BY <2>2, <2>3, <2>4 DEF BytesOf
  <2>7. QED
    BY <2>5, <2>6
<1>5. ASSUME NEW c \in ChunksOf(t), NEW d \in ChunksOf(t), c[2] < d[2]
      PROVE  BytesOf(c) \cap BytesOf(d) = {}
  <2>1. ASSUME NEW i \in Nat, NEW j \in Nat, NEW s \in Nat, i < j
        PROVE  (i + 1) * s <= j * s /\ (i + 1) * s \in Nat /\ j * s \in Nat
    <3>1. j - (i + 1) \in Nat /\ (j - (i + 1)) * s \in Nat
      BY <2>1
    <3>2. j * s = (i + 1) * s + (j - (i + 1)) * s
      OBVIOUS
    <3>3. (i + 1) * s \in Nat /\ j * s \in Nat
      OBVIOUS
    <3>4. QED
      BY <3>1, <3>2, <3>3
  <2>2. /\ (c[2] + 1) * ChunkSize <= d[2] * ChunkSize
        /\ (c[2] + 1) * ChunkSize \in Nat /\ d[2] * ChunkSize \in Nat
    BY <1>1, <1>2, <1>5, <2>1
  <2>3. \A b \in BytesOf(c) : b \in Int /\ b < (c[2] + 1) * ChunkSize
    BY <1>1, <1>2, <2>2 DEF BytesOf
  <2>4. \A b \in BytesOf(d) : b \in Int /\ d[2] * ChunkSize <= b
    BY <1>1, <1>2, <2>2 DEF BytesOf
  <2>5. QED
    BY <2>2, <2>3, <2>4
<1>6. ASSUME NEW c \in ChunksOf(t), NEW d \in ChunksOf(t), c # d
      PROVE  c[2] < d[2] \/ d[2] < c[2]
  BY <1>2, <1>6
<1>7. QED
  BY <1>3, <1>4, <1>5, <1>6

\* A file is whole when all its chunks are there.
LEMMA WholeInChunks ==
  ASSUME NEW t \in Transfers
  PROVE  Whole(t) <=> \A c \in ChunksOf(t) : disk[c] = "announced"
<1>1. ASSUME Whole(t), NEW c \in ChunksOf(t)
      PROVE  disk[c] = "announced"
  <2>1. PICK b \in 0..(FileSize[t] - 1) : b \in BytesOf(c)
    BY ChunksTile
  <2>2. PICK d \in ChunksOf(t) : b \in BytesOf(d) /\ disk[d] = "announced"
    BY <1>1 DEF Whole
  <2>3. QED
    BY <2>1, <2>2, ChunksTile
<1>2. ASSUME \A c \in ChunksOf(t) : disk[c] = "announced"
      PROVE  Whole(t)
  BY <1>2, ChunksTile DEF Whole
<1>3. QED
  BY <1>1, <1>2

\* Commands are records of a type and a transfer.
LEMMA CommandFacts ==
  /\ \A t \in Transfers : Start(t) \in Command /\ Process(t) \in Command
  /\ \A m \in Command : m.transfer \in Transfers
  /\ Begun \subseteq Command
BY DEF Start, Process, Command, Begun

TransferRow == [status : {"none", "CREATED", "ACCEPTED", "COMPLETED"}, version : Nat]

\* A version that is behind stores nothing; the current one is used up.
LEMMA StoredFacts ==
  ASSUME NEW old \in TransferRow, NEW status \in {"ACCEPTED", "COMPLETED"}, NEW v \in Nat
  PROVE  /\ Stored(old, status, v) \in TransferRow
         /\ Stored(old, status, v).version >= old.version
         /\ v < old.version => Stored(old, status, v) = old
         /\ v = old.version => /\ Stored(old, status, v).status = status
                               /\ Stored(old, status, v).version = v + 1
BY DEF Stored, TransferRow

\* A sequence over a set is one over a larger set.
LEMMA SeqGrows ==
  ASSUME NEW S, NEW T, S \subseteq T, NEW s \in Seq(S)
  PROVE  s \in Seq(T)
OBVIOUS

\* The dispatch keeps the types.
LEMMA DispatchTypes ==
  ASSUME TypeOK, LoopInv, NEW t \in Transfers,
         Dispatch(t) \/ DispatchFails(t)
  PROVE  TypeOK'
<1> USE DEF TypeOK, DispatchGoto, DispatchCall, entry, tables, stream, worker, staging, receiver,
            DispatchSteps
<1>1. CASE DispatchCreate(t)
  BY <1>1 DEF DispatchCreate
<1>2. CASE DispatchStart(t)
  <2>1. commands' = Append(commands, Start(t))
    BY <1>2 DEF DispatchStart
  <2>2. commands' \in Seq(Command)
    BY <2>1, CommandFacts
  <2> QED
    BY <1>2, <2>2 DEF DispatchStart
<1>3. CASE DispatchOpen(t)
  BY <1>3 DEF DispatchOpen, LoopAt
<1>4. CASE DispatchChunk(t)
  BY <1>4, ChunkFacts, ZenonT(60) DEF DispatchChunk, LoopInv
<1>5. CASE DispatchPublish(t)
  BY <1>5, ChunkFacts DEF DispatchPublish, LoopInv, LoopAt
<1>6. CASE DispatchProcess(t)
  <2>1. commands' = Append(commands, Process(t))
    BY <1>6 DEF DispatchProcess
  <2>2. commands' \in Seq(Command)
    BY <2>1, CommandFacts
  <2> QED
    BY <1>6, <2>2 DEF DispatchProcess
<1>7. CASE DispatchFails(t)
  BY <1>7 DEF DispatchFails
<1> QED
  BY <1>1, <1>2, <1>3, <1>4, <1>5, <1>6, <1>7 DEF Dispatch

\* The command callback keeps the types.
LEMMA WorkerTypes ==
  ASSUME TypeOK, RoleInv,
         Worker \/ TakeEvent \/ TakeAgain \/ AcceptLoadFails \/ \E a \in Accepts : AcceptFails(a)
  PROVE  TypeOK'
<1> USE DEF TypeOK, entry, tables, stream, worker, staging, receiver,
            AcceptSteps, WorkerSteps, ReceiverSteps
<1>1. CASE TakeNext
  BY <1>1, HeadTailProperties DEF TakeNext, TakeCommand
<1>2. CASE TakeAgain
  BY <1>2 DEF TakeAgain, TakeEvent, TakeCommand
<1>3. CASE AckCommand \/ TakeEvent
  BY <1>3 DEF AckCommand, TakeEvent
<1>4. ASSUME NEW a \in Accepts, AcceptLoad(a) PROVE TypeOK'
  <2>1. command.transfer \in Transfers
    BY <1>4, CommandFacts DEF AcceptLoad, RoleInv
  <2> QED
    BY <1>4, <2>1 DEF AcceptLoad
<1>5. ASSUME NEW a \in Accepts, AcceptUpdate(a) PROVE TypeOK'
  <2>1. receiving[a] \in Transfers
    BY <1>5 DEF AcceptUpdate, RoleInv
  <2>2. Stored(row[receiving[a]], "ACCEPTED", version[a]) \in TransferRow
    BY <2>1, StoredFacts DEF TransferRow
  <2> QED
    BY <1>5, <2>1, <2>2 DEF AcceptUpdate, Refuse, TransferRow
<1>6. ASSUME NEW a \in Accepts, AcceptSubscribe(a) PROVE TypeOK'
  <2>1. receiving[a] \in Transfers
    BY <1>6 DEF AcceptSubscribe, RoleInv
  <2> QED
    BY <1>6, <2>1, ZenonT(60) DEF AcceptSubscribe, Refuse
<1>7. ASSUME NEW a \in Accepts, AcceptFails(a) PROVE TypeOK'
  BY <1>7 DEF AcceptFails, Refuse
<1>8. CASE AcceptLoadFails
  BY <1>8 DEF AcceptLoadFails
<1>9. CASE AcceptAdd
  BY <1>9, CommandFacts DEF AcceptAdd, RoleInv
<1>10. CASE ProcessCheck
  BY <1>10 DEF ProcessCheck
<1>11. CASE ProcessAppend
  BY <1>11, CommandFacts, ZenonT(60) DEF ProcessAppend, RoleInv
<1>12. CASE ProcessPublish
  <2>1. command.transfer \in Transfers
    BY <1>12, CommandFacts DEF ProcessPublish, RoleInv
  <2>2. events' \subseteq [type : {"TransferVerified", "ProcessingSucceeded"}, transfer : Transfers]
    BY <1>12, <2>1 DEF ProcessPublish, Announced
  <2> QED
    BY <1>12, <2>2 DEF ProcessPublish
<1> QED
  BY <1>1, <1>2, <1>3, <1>4, <1>5, <1>6, <1>7, <1>8, <1>9, <1>10, <1>11, <1>12 DEF Worker

\* The receivers keep the types, and a restart does.
LEMMA ReceiverTypes ==
  ASSUME TypeOK, RoleInv, (\E a \in Accepts : Receiver(a)) \/ WorkerRestart
  PROVE  TypeOK'
<1> USE DEF TypeOK, entry, tables, stream, worker, staging, receiver,
            ReceiverGoto, ReceiverSteps
<1>1. ASSUME NEW a \in Accepts, NEW c \in Chunks, ReceiveChunk(a, c) PROVE TypeOK'
  <2>1. source[c[1]] \in {"announced", "other"}
    BY ChunkFacts
  <2>2. disk' \in [Chunks -> {"blank", "announced", "other"}]
    BY <1>1, <2>1 DEF ReceiveChunk
  <2>3. received' \in [Accepts -> SUBSET Chunks]
    <3>1. received[a] \cup {c} \in SUBSET Chunks
      OBVIOUS
    <3>2. received' = received \/ received' = [received EXCEPT ![a] = received[a] \cup {c}]
      BY <1>1 DEF ReceiveChunk
    <3>3. received \in [Accepts -> SUBSET Chunks]
      OBVIOUS
    <3> HIDE DEF TypeOK
    <3> QED
      BY <3>1, <3>2, <3>3
  <2> QED
    BY <1>1, <2>2, <2>3, ZenonT(60) DEF ReceiveChunk
<1>2. ASSUME NEW a \in Accepts, RecordChunk(a) PROVE TypeOK'
  BY <1>2 DEF RecordChunk, RoleInv
<1>3. ASSUME NEW a \in Accepts, Finalize(a) PROVE TypeOK'
  BY <1>3, ZenonT(60) DEF Finalize, AfterFinalize
<1>4. ASSUME NEW a \in Accepts, Complete(a) PROVE TypeOK'
  <2>1. receiving[a] \in Transfers
    BY <1>4 DEF Complete, RoleInv
  <2>2. Stored(row[receiving[a]], "COMPLETED", version[a]) \in TransferRow
    BY <2>1, StoredFacts DEF TransferRow
  <2>3. row' \in [Transfers -> TransferRow]
    BY <1>4, <2>1, <2>2, ZenonT(60) DEF Complete, TransferRow
  <2> QED
    BY <1>4, <2>3, ZenonT(60) DEF Complete, AfterFinalize, TransferRow
<1>5. ASSUME NEW a \in Accepts, WriteManifest(a) PROVE TypeOK'
  BY <1>5 DEF WriteManifest, RoleInv
<1>6. ASSUME NEW a \in Accepts, AnnounceVerified(a) PROVE TypeOK'
  BY <1>6 DEF AnnounceVerified, Announced, AfterFinalize, RoleInv
<1>7. ASSUME NEW a \in Accepts, AckChunk(a) PROVE TypeOK'
  BY <1>7 DEF AckChunk
<1>8. CASE WorkerRestart
  <2> PICK n \in 0..Len(commands) :
        /\ unacked' = unacked \cup {commands[i] : i \in 1..n}
        /\ commands' = SubSeq(commands, n + 1, Len(commands))
    BY <1>8 DEF WorkerRestart
  <2>1. \A i \in 1..Len(commands) : commands[i] \in Command
    OBVIOUS
  <2>2. commands' \in Seq(Command)
    BY <2>1, SubSeqProperties
  <2>3. unacked' \subseteq Command
    BY <2>1
  <2> QED
    BY <1>8, <2>2, <2>3 DEF WorkerRestart, WorkerSteps
<1> QED
  BY <1>1, <1>2, <1>3, <1>4, <1>5, <1>6, <1>7, <1>8 DEF Receiver

-------------------------------------------------------------------------------
EntryStep(t) == Dispatch(t) \/ DispatchFails(t)

NodeStep == \E ts \in SUBSET Transfers : DispatchStops(ts)

CallbackStep == Worker \/ TakeEvent \/ TakeAgain \/ AcceptLoadFails \/ \E a \in Accepts : AcceptFails(a)

\* What goes on while no entry node stops.
Move ==
  (\E t \in Transfers : EntryStep(t)) \/ CallbackStep \/ (\E a \in Accepts : Receiver(a)) \/ WorkerRestart

\* The steps of the system by its parts.
LEMMA NextCases == Next => Move \/ NodeStep
BY DEF Next, Move, EntryStep, NodeStep, CallbackStep

\* A node that stops only ends dispatches that run.
LEMMA NodeFrame ==
  NodeStep => /\ UNCHANGED <<next, source, tables, stream, worker, staging, receiver>>
              /\ \A t \in Transfers :
                    dispatch'[t] = dispatch[t] \/ (dispatch[t] # "idle" /\ dispatch'[t] = "done")
              /\ dispatch' \in [Transfers -> {dispatch[t] : t \in Transfers} \cup {"done"}]
BY DEF NodeStep, DispatchStops, DispatchSteps

\* What the steps of each part leave alone.
LEMMA EntryFrame ==
  ASSUME NEW t \in Transfers, EntryStep(t)
  PROVE  /\ UNCHANGED <<processed, unacked, consumer, events, worker, staging, receiver>>
         /\ dispatch \in [Transfers -> DispatchSteps \cup {"idle", "done"}] => Begun \subseteq Begun'
<1>1. UNCHANGED <<processed, unacked, consumer, events, worker, staging, receiver>>
  BY DEF EntryStep, Dispatch, DispatchCreate, DispatchStart, DispatchOpen, DispatchChunk,
         DispatchPublish, DispatchProcess, DispatchFails, tables, stream
<1>2. \E s \in DispatchSteps \cup {"done"} : DispatchGoto(t, s)
  BY DEF EntryStep, Dispatch, DispatchCreate, DispatchStart, DispatchOpen, DispatchChunk,
         DispatchPublish, DispatchProcess, DispatchFails, DispatchCall, LoopAt,
         DispatchSteps
<1> QED
  BY <1>1, <1>2, CommandFacts DEF DispatchGoto, Begun, DispatchSteps

\* The command callback neither writes chunks nor takes them from the bus.
LEMMA CallbackFrame ==
  CallbackStep => UNCHANGED <<entry, chunkRow, bus, staging, received, file, inHand>>
BY DEF CallbackStep, Worker, TakeNext, TakeAgain, TakeEvent, TakeCommand, AckCommand, AcceptLoad,
       AcceptUpdate, AcceptSubscribe, AcceptAdd, AcceptFails, AcceptLoadFails, ProcessCheck,
       ProcessAppend, ProcessPublish, tables, stream, receiver

\* A receiver changes no other receiver, and nothing of the callback.
LEMMA ReceiverFrame ==
  \A a \in Accepts : Receiver(a) =>
    /\ UNCHANGED <<entry, processed, commands, unacked, consumer, worker, receiving, version>>
    /\ at[a] \in ReceiverSteps
    /\ \E s \in ReceiverSteps : ReceiverGoto(a, s)
BY DEF Receiver, ReceiveChunk, RecordChunk, Finalize, Complete, WriteManifest,
       AnnounceVerified, AckChunk, AfterFinalize, tables, stream, ReceiverSteps

\* A receiver moves itself only, from one of its steps to another.
LEMMA ReceiverMoves ==
  ASSUME TypeOK, NEW a \in Accepts, Receiver(a)
  PROVE  /\ at[a] \in ReceiverSteps /\ at'[a] \in ReceiverSteps
         /\ \A b \in Accepts : b # a => at'[b] = at[b]
<1>1. at \in [Accepts -> ReceiverSteps \cup {"unused", "accepting", "gone"}]
  BY DEF TypeOK
<1>2. PICK s \in ReceiverSteps : ReceiverGoto(a, s)
  BY ReceiverFrame
<1>3. at' = [at EXCEPT ![a] = s]
  BY <1>2 DEF ReceiverGoto
<1>4. at[a] \in ReceiverSteps
  BY ReceiverFrame
<1> QED
  BY <1>1, <1>3, <1>4

\* The chunk loop stays within the announced number of chunks.
LEMMA LoopStep ==
  ASSUME TypeOK, LoopInv, Move
  PROVE  LoopInv'
<1>1. ASSUME NEW t \in Transfers, EntryStep(t) PROVE LoopInv'
  BY <1>1, ChunkCount
  DEF TypeOK, LoopInv, EntryStep, Dispatch, DispatchCreate, DispatchStart, DispatchOpen,
      DispatchChunk, DispatchPublish, DispatchProcess, DispatchFails,
      DispatchCall, DispatchGoto, LoopAt, DispatchSteps
<1>2. ASSUME UNCHANGED entry PROVE LoopInv'
  BY <1>2 DEF LoopInv, entry
<1>3. (\E t \in Transfers : EntryStep(t)) \/ UNCHANGED entry
  BY CallbackFrame, ReceiverFrame DEF Move, WorkerRestart
<1> QED
  BY <1>1, <1>2, <1>3

\* The command callback has the command and the receiver that its step needs.
LEMMA RoleEntry ==
  ASSUME TypeOK, RoleInv, NEW t \in Transfers, EntryStep(t)
  PROVE  RoleInv'
<1>1. Begun \subseteq Begun'
  BY EntryFrame DEF TypeOK
<1>2. commands' \in Seq(Begun')
  <2>1. commands \in Seq(Begun')
    BY <1>1, SeqGrows DEF RoleInv
  <2>2. \/ commands' = commands
        \/ commands' = Append(commands, Start(t)) /\ dispatch'[t] # "idle"
        \/ commands' = Append(commands, Process(t)) /\ dispatch'[t] # "idle"
    BY DEF EntryStep, Dispatch, DispatchCreate, DispatchStart, DispatchOpen, DispatchChunk,
           DispatchPublish, DispatchProcess, DispatchFails, DispatchCall,
           DispatchGoto, stream, TypeOK
  <2>3. dispatch'[t] # "idle" => Start(t) \in Begun' /\ Process(t) \in Begun'
    BY CommandFacts DEF Begun, Start, Process
  <2> QED
    BY <2>1, <2>2, <2>3
<1>3. \A u \in Transfers : dispatch[u] # "idle" => dispatch'[u] # "idle"
  <2>1. \A u \in Transfers : dispatch[u] # "idle" => Start(u) \in Begun
    BY CommandFacts DEF Begun, Start
  <2> QED
    BY <2>1, <1>1 DEF Begun, Start
<1> QED
  BY <1>1, <1>2, <1>3, EntryFrame DEF RoleInv, worker, receiver

\* A receiver leaves the callback what it needs.
LEMMA RoleReceiver ==
  ASSUME TypeOK, RoleInv, NEW a \in Accepts, Receiver(a)
  PROVE  RoleInv'
<1>1. \A b \in Accepts : at'[b] = "upsert" => inHand'[b] \in Chunks
  BY DEF TypeOK, RoleInv, Receiver, ReceiveChunk, RecordChunk, Finalize, Complete, WriteManifest,
         AnnounceVerified, AckChunk, AfterFinalize, ReceiverGoto
<1>2. at[a] # "accepting" /\ at[a] # "unused"
  BY ReceiverFrame DEF ReceiverSteps
<1>3. /\ \A b \in Accepts : at'[b] # "unused" <=> at[b] # "unused"
      /\ \A b \in Accepts : at[b] = "accepting" => at'[b] = "accepting"
  BY <1>2, ReceiverMoves DEF ReceiverSteps
<1>4. Begun' = Begun
  BY ReceiverFrame DEF Begun, entry
<1>5. UNCHANGED <<dispatch, commands, unacked, step, command, accepted, receiving>>
  BY ReceiverFrame DEF entry, worker
<1> QED
  BY <1>1, <1>3, <1>4, <1>5 DEF RoleInv, AcceptSteps

\* Each step of the callback prepares the next.
LEMMA RoleCallback ==
  ASSUME TypeOK, RoleInv, CallbackStep
  PROVE  RoleInv'
<1>1. UNCHANGED <<dispatch, inHand>> /\ Begun' = Begun
  BY CallbackFrame DEF entry, Begun
<1> USE <1>1 DEF RoleInv, AcceptSteps, TypeOK
<1>2. CASE TakeNext
  <2>1. Head(commands) \in Begun /\ Tail(commands) \in Seq(Begun)
    BY <1>2, HeadTailProperties DEF TakeNext
  <2>2. Head(commands).type \in {"START_TRANSFER", "PROCESS_UPDATE"}
    BY <2>1 DEF Begun, Command
  <2> QED
    BY <1>2, <2>1, <2>2 DEF TakeNext, TakeCommand, receiver
<1>3. CASE TakeAgain
  <2> PICK m \in unacked : TakeCommand(m)
    BY <1>3 DEF TakeAgain
  <2>1. m.type \in {"START_TRANSFER", "PROCESS_UPDATE"}
    BY DEF Begun, Command
  <2> QED
    BY <1>3, <2>1 DEF TakeAgain, TakeEvent, TakeCommand, receiver
<1>4. CASE AckCommand \/ TakeEvent
  BY <1>4 DEF AckCommand, TakeEvent, worker, receiver
<1>5. ASSUME NEW a \in Accepts, AcceptLoad(a) PROVE RoleInv'
  <2>1. command.transfer \in Transfers /\ dispatch[command.transfer] # "idle"
    BY <1>5, CommandFacts DEF AcceptLoad, Begun
  <2> QED
    BY <1>5, <2>1 DEF AcceptLoad, stream
<1>6. ASSUME NEW a \in Accepts, AcceptUpdate(a) PROVE RoleInv'
  BY <1>6 DEF AcceptUpdate, Refuse, stream
<1>7. ASSUME NEW a \in Accepts, AcceptSubscribe(a) PROVE RoleInv'
  BY <1>7 DEF AcceptSubscribe, Refuse
<1>8. ASSUME NEW a \in Accepts, AcceptFails(a) PROVE RoleInv'
  BY <1>8 DEF AcceptFails, Refuse, stream
<1>9. CASE AcceptLoadFails
  BY <1>9 DEF AcceptLoadFails, stream, receiver
<1>10. CASE AcceptAdd
  BY <1>10 DEF AcceptAdd, stream, receiver
<1>11. CASE ProcessCheck
  BY <1>11 DEF ProcessCheck, stream, receiver
<1>12. CASE ProcessAppend
  BY <1>12 DEF ProcessAppend, stream, receiver
<1>13. CASE ProcessPublish
  BY <1>13 DEF ProcessPublish, receiver
<1> HIDE DEF RoleInv
<1> QED
  BY <1>2, <1>3, <1>4, <1>5, <1>6, <1>7, <1>8, <1>9, <1>10, <1>11, <1>12, <1>13
  DEF CallbackStep, Worker

\* After a restart nothing is needed.
LEMMA RoleRestart ==
  ASSUME TypeOK, RoleInv, WorkerRestart
  PROVE  RoleInv'
<1>1. dispatch' = dispatch /\ Begun' = Begun
  BY DEF WorkerRestart, entry, Begun
<1>2. PICK n \in 0..Len(commands) :
        /\ unacked' = unacked \cup {commands[i] : i \in 1..n}
        /\ commands' = SubSeq(commands, n + 1, Len(commands))
  BY DEF WorkerRestart
<1>3. commands \in Seq(Begun) /\ \A i \in 1..Len(commands) : commands[i] \in Begun
  BY DEF RoleInv
<1>4. commands' \in Seq(Begun)
  BY <1>2, <1>3, SubSeqProperties
<1>5. unacked' \subseteq Begun
  BY <1>2, <1>3 DEF RoleInv
<1>6. \A a \in Accepts : /\ at'[a] # "upsert"
                         /\ at'[a] # "unused" => at[a] # "unused"
  BY DEF WorkerRestart, TypeOK
<1> QED
  BY <1>1, <1>4, <1>5, <1>6 DEF RoleInv, WorkerRestart, AcceptSteps

\* Every step keeps RoleInv.
LEMMA RoleStep ==
  ASSUME TypeOK, RoleInv, Move
  PROVE  RoleInv'
BY RoleEntry, RoleReceiver, RoleCallback, RoleRestart DEF Move

-------------------------------------------------------------------------------
\* What is on disk is what the dispatch sent, and a finalized file stays whole.
LEMMA FileEntry ==
  ASSUME TypeOK, LoopInv, FileInv, RoleInv, NEW t \in Transfers, EntryStep(t)
  PROVE  FileInv'
<1>1. UNCHANGED <<disk, at, file, inHand, receiving>>
  BY EntryFrame DEF staging, receiver
<1>2. \A u \in Transfers : next[u] \in Nat /\ next'[u] >= next[u]
  <2>1. next' = next \/ next' = [next EXCEPT ![t] = @ + 1]
    BY DEF EntryStep, Dispatch, DispatchCreate, DispatchStart, DispatchOpen, DispatchChunk,
           DispatchPublish, DispatchProcess, DispatchFails
  <2>2. next \in [Transfers -> Nat]
    BY DEF TypeOK
  <2> QED
    BY <2>1, <2>2
<1>3. \A c \in Chunks : Sent(c) => Sent(c)'
  <2> TAKE c \in Chunks
  <2>1. next'[c[1]] >= next[c[1]] /\ next[c[1]] \in Nat /\ next'[c[1]] \in Int /\ c[2] \in Nat
    BY <1>2, ChunkFacts, DispatchTypes DEF TypeOK, EntryStep
  <2> QED
    BY <2>1 DEF Sent
<1>4. \A c \in bus' : Sent(c)'
  <2>1. CASE bus' = bus
    BY <2>1, <1>3 DEF FileInv, TypeOK
  <2>2. CASE DispatchPublish(t)
    <3>1. next \in [Transfers -> Nat] /\ next' = [next EXCEPT ![t] = @ + 1]
      BY <2>2 DEF DispatchPublish, TypeOK
    <3>2. next'[t] = next[t] + 1 /\ next[t] \in Nat
      BY <3>1
    <3>3. \A c \in Chunks : c = <<t, next[t]>> => Sent(c)'
      BY <3>2 DEF Sent
    <3>4. next[t] < TotalChunks[t]
      BY <2>2 DEF DispatchPublish, LoopInv
    <3>5. <<t, next[t]>> \in Chunks
      BY <3>2, <3>4, ChunkFacts
    <3>6. \A c \in bus : c \in Chunks /\ Sent(c)
      BY DEF FileInv, TypeOK
    <3>7. bus' \subseteq bus \cup {<<t, next[t]>>}
      BY <2>2 DEF DispatchPublish
    <3> QED
      BY <3>3, <3>5, <3>6, <3>7, <1>3
  <2> QED
    BY <2>1, <2>2 DEF EntryStep, Dispatch, DispatchCreate, DispatchStart, DispatchOpen,
      DispatchChunk, DispatchProcess, DispatchFails, stream
<1>5. \A c \in Chunks : disk[c] # "blank" => source'[c[1]] = source[c[1]]
  <2>1. CASE source' = source
    BY <2>1
  <2>2. CASE DispatchOpen(t)
    <3>1. next[t] = 0
      BY <2>2 DEF DispatchOpen, LoopInv
    <3>2. \A c \in Chunks : disk[c] # "blank" => c[1] # t
      BY <3>1, ChunkFacts DEF FileInv, Sent
    <3> QED
      BY <2>2, <3>2, ChunkFacts DEF DispatchOpen, TypeOK
  <2> QED
    BY <2>1, <2>2 DEF EntryStep, Dispatch, DispatchCreate, DispatchStart, DispatchPublish,
      DispatchChunk, DispatchProcess, DispatchFails
<1>6. \A c \in Chunks : chunkRow'[c] = "received" => chunkRow[c] = "received"
  BY DEF TypeOK, EntryStep, Dispatch, DispatchCreate, DispatchStart, DispatchOpen, DispatchChunk,
         DispatchPublish, DispatchProcess, DispatchFails, tables
<1> QED
  BY <1>1, <1>3, <1>4, <1>5, <1>6 DEF FileInv, FinalizedFileIsWhole, Whole

\* A receiver writes what is on the bus, and finalizes what is whole.
LEMMA FileReceiver ==
  ASSUME TypeOK, FileInv, RoleInv, NEW a \in Accepts, Receiver(a)
  PROVE  FileInv'
<1>1. UNCHANGED <<next, source, receiving>> /\ at[a] # "unused"
  BY ReceiverFrame DEF entry, ReceiverSteps
<1>2. receiving[a] \in Transfers
  BY <1>1 DEF RoleInv
<1>3. ASSUME NEW c \in Chunks, ReceiveChunk(a, c) PROVE FileInv'
  <2>1. c \in bus /\ UNCHANGED <<bus, chunkRow, file>>
    BY <1>3 DEF ReceiveChunk, stream, tables
  <2>2. source[c[1]] # "blank"
    <3>1. c[1] \in Transfers /\ source \in [Transfers -> {"announced", "other"}]
      BY ChunkFacts DEF TypeOK
    <3>2. source[c[1]] \in {"announced", "other"}
      BY <3>1
    <3> QED
      BY <3>2
  <2>3. \A d \in Chunks : \/ disk'[d] = disk[d]
                          \/ d = c /\ disk'[d] = source[d[1]]
    <3>1. disk' = disk \/ disk' = [disk EXCEPT ![c] = source[c[1]]]
      BY <1>3, Zenon DEF ReceiveChunk
    <3>2. disk \in [Chunks -> {"blank", "announced", "other"}]
      BY DEF TypeOK
    <3> QED
      BY <3>1, <3>2
  <2>4. \A d \in Chunks : disk[d] # "blank" => disk'[d] = disk[d]
    BY <2>3 DEF FileInv
  <2>5. \A b \in Accepts : at'[b] = "upsert" => disk'[inHand'[b]] # "blank"
    <3> TAKE b \in Accepts
    <3>1. CASE b = a
      <4>1. at'[a] = "upsert" => inHand'[a] = c /\ disk'[c] = source[c[1]]
        BY <1>3 DEF ReceiveChunk, ReceiverGoto, TypeOK
      <4> QED
        BY <3>1, <4>1, <2>2
    <3>2. CASE b # a
      BY <3>2, <1>3, <2>4 DEF ReceiveChunk, ReceiverGoto, TypeOK, FileInv, RoleInv
    <3> QED
      BY <3>1, <3>2
  <2>6. \A b \in Accepts : at[b] # "unused" => at'[b] # "unused"
    BY <1>3 DEF ReceiveChunk, ReceiverGoto, TypeOK
  <2>7. FinalizedFileIsWhole'
    <3>1. \A b \in Accepts : file[b] = "finalized" => receiving[b] \in Transfers
      BY DEF FileInv, RoleInv
    <3> QED
      BY <3>1, <2>1, <2>4, <1>1, ChunkFacts DEF FinalizedFileIsWhole, FileInv, Whole
  <2>8. \A d \in Chunks : Sent(d)' <=> Sent(d)
    BY <1>1 DEF Sent
  <2>9. \A d \in Chunks : disk'[d] # "blank" => Sent(d)' /\ disk'[d] = source[d[1]]
    BY <2>1, <2>3, <2>8 DEF FileInv
  <2> QED
    BY <1>1, <2>1, <2>4, <2>5, <2>6, <2>7, <2>8, <2>9 DEF FileInv, TypeOK
<1> DEFINE Rest == \/ RecordChunk(a) \/ Finalize(a) \/ Complete(a) \/ WriteManifest(a)
                   \/ AnnounceVerified(a) \/ AckChunk(a)
<1>4. ASSUME Rest PROVE FileInv'
  <2>1. disk' = disk /\ bus' \subseteq bus
    BY <1>4 DEF RecordChunk, Finalize, Complete, WriteManifest, AnnounceVerified, AckChunk,
              staging, stream
  <2>2. \A c \in Chunks : chunkRow'[c] = "received" => disk[c] # "blank"
    BY <1>4 DEF RecordChunk, Finalize, Complete, WriteManifest, AnnounceVerified, AckChunk,
              tables, FileInv, TypeOK
  <2>3. \A b \in Accepts : /\ at'[b] = "upsert" => at[b] = "upsert" /\ inHand'[b] = inHand[b]
                           /\ at[b] # "unused" => at'[b] # "unused"
    BY <1>4 DEF RecordChunk, Finalize, Complete, WriteManifest, AnnounceVerified, AckChunk,
              ReceiverGoto, AfterFinalize, TypeOK
  <2>4. \A b \in Accepts : file'[b] = "finalized" =>
           at'[b] # "unused" /\ Whole(receiving[b])
    BY <1>4, <1>1, <2>3 DEF RecordChunk, Finalize, Complete, WriteManifest, AnnounceVerified,
              AckChunk, TypeOK, FileInv, FinalizedFileIsWhole
  <2> HIDE DEF Rest
  <2>5. FinalizedFileIsWhole'
    BY <1>1, <2>1, <2>4 DEF FinalizedFileIsWhole, Whole
  <2>6. \A c \in Chunks : Sent(c)' <=> Sent(c)
    BY <1>1 DEF Sent
  <2>7. \A b \in Accepts : at'[b] = "upsert" => disk'[inHand'[b]] # "blank"
    <3> TAKE b \in Accepts
    <3>1. at[b] = "upsert" => disk[inHand[b]] # "blank"
      BY DEF FileInv
    <3> QED
      BY <2>1, <2>3, <3>1
  <2>8. \A c \in bus' : Sent(c)'
    BY <2>1, <2>6 DEF FileInv, TypeOK
  <2> QED
    BY <1>1, <2>1, <2>2, <2>4, <2>5, <2>6, <2>7, <2>8 DEF FileInv
<1> QED
  BY <1>3, <1>4 DEF Receiver

\* The callback and a restart leave the files alone.
LEMMA FileOthers ==
  ASSUME TypeOK, FileInv, RoleInv, CallbackStep \/ WorkerRestart
  PROVE  FileInv'
<1>1. UNCHANGED <<next, source, disk, bus, chunkRow, file>>
  BY CallbackFrame DEF entry, staging, WorkerRestart, tables
<1>2. \A a \in Accepts : /\ at'[a] = "upsert" => at[a] = "upsert" /\ inHand'[a] = inHand[a]
                         /\ at[a] # "unused" => at'[a] # "unused" /\ receiving'[a] = receiving[a]
  BY DEF CallbackStep, Worker, TakeNext, TakeAgain, TakeEvent, TakeCommand, AckCommand, AcceptLoad,
         AcceptUpdate, AcceptSubscribe, AcceptAdd, AcceptFails, AcceptLoadFails, Refuse,
         ProcessCheck, ProcessAppend, ProcessPublish, WorkerRestart, receiver, TypeOK, RoleInv
<1> QED
  BY <1>1, <1>2 DEF FileInv, Sent, FinalizedFileIsWhole, Whole

\* Every step keeps FileInv.
LEMMA FileStep ==
  ASSUME TypeOK, LoopInv, RoleInv, FileInv, Move
  PROVE  FileInv'
BY FileEntry, FileReceiver, FileOthers DEF Move

-------------------------------------------------------------------------------
\* A transfer's row is created before anything works on it, and only the worker's
\* own Update changes it afterwards.
LEMMA EntryRow ==
  ASSUME TypeOK, TransfersNeverComplete, NEW t \in Transfers, EntryStep(t)
  PROVE  /\ \A u \in Transfers : dispatch[u] # "idle" => row'[u] = row[u]
         /\ TransfersNeverComplete'
<1>1. CASE DispatchCreate(t)
  BY <1>1 DEF DispatchCreate, TransfersNeverComplete, TypeOK
<1>2. CASE row' = row
  BY <1>2 DEF TransfersNeverComplete
<1> QED
  BY <1>1, <1>2 DEF EntryStep, Dispatch, DispatchStart, DispatchOpen, DispatchChunk, DispatchPublish,
     DispatchProcess, DispatchFails, tables

\* The Update of FinalizeTransfer never has a version that counts.
LEMMA ReceiverRow ==
  ASSUME TypeOK, RoleInv, VersionInv, NEW a \in Accepts, Receiver(a)
  PROVE  row' = row
<1>1. CASE Complete(a)
  <2>1. row' = row \/ row' = [row EXCEPT ![receiving[a]] = Stored(row[receiving[a]], "COMPLETED", version[a])]
    BY <1>1 DEF Complete
  <2>2. receiving[a] \in Transfers /\ version[a] \in Nat /\ row[receiving[a]] \in TransferRow
    BY <1>1 DEF Complete, RoleInv, TypeOK, TransferRow
  <2>3. version[a] < row[receiving[a]].version
    BY <1>1 DEF Complete, VersionInv, ReceiverSteps
  <2>4. Stored(row[receiving[a]], "COMPLETED", version[a]) = row[receiving[a]]
    BY <2>2, <2>3, StoredFacts
  <2>5. row \in [Transfers -> TransferRow]
    BY DEF TypeOK, TransferRow
  <2> QED
    BY <2>1, <2>4, <2>5
<1> QED
  BY <1>1 DEF Receiver, ReceiveChunk, RecordChunk, Finalize, WriteManifest, AnnounceVerified,
     AckChunk, tables

\* While the callback has a command, the command's transfer has its row.
LEMMA CommandHasRow ==
  ASSUME RoleInv, step # "idle"
  PROVE  command \in Command /\ command.transfer \in Transfers /\ dispatch[command.transfer] # "idle"
BY CommandFacts DEF RoleInv, Begun

\* The dispatch keeps VersionInv and CommandInv: it creates only rows nobody uses.
LEMMA ReportEntry ==
  ASSUME TypeOK, RoleInv, VersionInv, CommandInv, NEW t \in Transfers, EntryStep(t)
  PROVE  VersionInv' /\ CommandInv'
<1>1. /\ \A u \in Transfers : dispatch[u] # "idle" => row'[u] = row[u]
      /\ TransfersNeverComplete'
  BY EntryRow DEF VersionInv
<1>2. UNCHANGED <<consumer, step, command, accepted, active, at, receiving, version>>
  BY EntryFrame DEF worker, receiver
<1>3. \A a \in Accepts : at[a] # "unused" => row'[receiving[a]] = row[receiving[a]]
  BY <1>1 DEF RoleInv
<1>4. step # "idle" => row'[command.transfer] = row[command.transfer]
  BY <1>1, CommandHasRow
<1>5. VersionInv'
  BY <1>1, <1>2, <1>3, <1>4 DEF VersionInv, ReceiverSteps
<1>6. CommandInv'
  BY <1>2, <1>4 DEF CommandInv, NoProcessingWhileActive, OperationIsActive
<1> QED
  BY <1>5, <1>6

\* A receiver keeps them: it changes no row.
LEMMA ReportReceiver ==
  ASSUME TypeOK, RoleInv, VersionInv, CommandInv, NEW a \in Accepts, Receiver(a)
  PROVE  VersionInv' /\ CommandInv'
<1>1. row' = row
  BY ReceiverRow
<1>2. UNCHANGED <<consumer, step, command, accepted, active, receiving, version>>
  BY ReceiverFrame DEF worker
<1>3. \A b \in Accepts : /\ at'[b] # "unused" => at[b] # "unused"
                         /\ at'[b] \in ReceiverSteps => at[b] \in ReceiverSteps
  BY ReceiverMoves DEF ReceiverSteps
<1>4. VersionInv'
  BY <1>1, <1>2, <1>3 DEF VersionInv, TransfersNeverComplete
<1>5. CommandInv'
  BY <1>1, <1>2 DEF CommandInv, NoProcessingWhileActive, OperationIsActive
<1> QED
  BY <1>4, <1>5

\* A restart keeps them: it forgets every version.
LEMMA ReportRestart ==
  ASSUME TypeOK, RoleInv, VersionInv, WorkerRestart
  PROVE  VersionInv' /\ CommandInv'
<1>1. step' = "idle" /\ UNCHANGED <<row, receiving, version>>
  BY DEF WorkerRestart, tables
<1>2. \A a \in Accepts : /\ at'[a] # "unused" => at[a] # "unused"
                         /\ at'[a] \notin ReceiverSteps
  BY DEF WorkerRestart, ReceiverSteps
<1> QED
  BY <1>1, <1>2 DEF VersionInv, CommandInv, TransfersNeverComplete, NoProcessingWhileActive

\* The callback loads a version, uses it once and never comes back to it.
LEMMA ReportCallback ==
  ASSUME TypeOK, RoleInv, VersionInv, CommandInv, CallbackStep
  PROVE  VersionInv' /\ CommandInv'
<1> USE DEF VersionInv, CommandInv, TransfersNeverComplete, NoProcessingWhileActive,
            OperationIsActive, tables, stream, worker, receiver
<1>1. CASE TakeNext
  BY <1>1 DEF TakeNext, TakeCommand
<1>2. CASE TakeAgain
  BY <1>2 DEF TakeAgain, TakeEvent, TakeCommand
<1>3. CASE AckCommand \/ TakeEvent
  BY <1>3 DEF AckCommand, TakeEvent
<1>4. ASSUME NEW a \in Accepts, AcceptLoad(a) PROVE VersionInv' /\ CommandInv'
  <2>1. command.transfer \in Transfers
    BY <1>4, CommandHasRow DEF AcceptLoad
  <2>2. /\ row' = row /\ step' = "update" /\ accepted' = a /\ command' = command
        /\ at[a] = "unused" /\ at' = [at EXCEPT ![a] = "accepting"]
        /\ receiving' = [receiving EXCEPT ![a] = command.transfer]
        /\ version' = [version EXCEPT ![a] = row[command.transfer].version]
    BY <1>4 DEF AcceptLoad
  <2>3. at'[a] = "accepting" /\ receiving'[a] = command.transfer
        /\ version'[a] = row[command.transfer].version
    BY <2>2 DEF TypeOK
  <2>4. \A b \in Accepts : b # a => at'[b] = at[b] /\ receiving'[b] = receiving[b] /\ version'[b] = version[b]
    BY <2>2 DEF TypeOK
  <2>5. row[command.transfer].version \in Nat
    BY <2>1 DEF TypeOK
  <2>6. \A b \in Accepts : at'[b] # "unused" => version'[b] <= row'[receiving'[b]].version
    BY <2>2, <2>3, <2>4, <2>5
  <2>7. \A b \in Accepts : at'[b] \in ReceiverSteps => version'[b] < row'[receiving'[b]].version
    BY <2>2, <2>3, <2>4 DEF ReceiverSteps
  <2> QED
    BY <2>2, <2>3, <2>6, <2>7
<1>5. ASSUME NEW a \in Accepts, AcceptUpdate(a) PROVE VersionInv' /\ CommandInv'
  <2> DEFINE u == receiving[a]
  <2>1. u \in Transfers /\ u = command.transfer /\ accepted = a /\ step = "update" /\ at[a] = "accepting"
    BY <1>5 DEF AcceptUpdate, RoleInv
  <2>2. row[u] \in TransferRow /\ version[a] = row[u].version /\ version[a] \in Nat
    BY <2>1 DEF TypeOK, TransferRow
  <2>3. /\ row' = [row EXCEPT ![u] = Stored(row[u], "ACCEPTED", version[a])]
        /\ UNCHANGED <<consumer, active, receiving, version>>
        /\ \/ step' = "subscribe" /\ UNCHANGED <<command, accepted, at>>
           \/ Refuse(a)
    BY <1>5 DEF AcceptUpdate
  <2>4. Stored(row[u], "ACCEPTED", version[a]).status = "ACCEPTED"
        /\ Stored(row[u], "ACCEPTED", version[a]).version = version[a] + 1
    BY <2>2, StoredFacts
  <2>5. row'[u].status = "ACCEPTED" /\ row'[u].version = row[u].version + 1
    BY <2>1, <2>2, <2>3, <2>4 DEF TypeOK
  <2>6. \A t \in Transfers : t # u => row'[t] = row[t]
    BY <2>3 DEF TypeOK
  <2>7. \A t \in Transfers : row[t].version \in Nat
    BY DEF TypeOK
  <2> HIDE DEF u
  <2>8. \A b \in Accepts : /\ at'[b] # "unused" => at[b] # "unused"
                           /\ at'[b] \in ReceiverSteps => at[b] \in ReceiverSteps
    BY <2>1, <2>3 DEF Refuse, TypeOK, ReceiverSteps
  <2>9. \A b \in Accepts : at[b] # "unused" => receiving[b] \in Transfers /\ version[b] \in Nat
    BY DEF RoleInv, TypeOK
  <2>10. \A b \in Accepts : at'[b] # "unused" => version'[b] <= row'[receiving'[b]].version
    BY <2>3, <2>5, <2>6, <2>7, <2>8, <2>9
  <2>11. \A b \in Accepts : at[b] \in ReceiverSteps => at[b] # "unused"
    BY DEF ReceiverSteps
  <2>12. \A b \in Accepts : at'[b] \in ReceiverSteps => version'[b] < row'[receiving'[b]].version
    BY <2>3, <2>5, <2>6, <2>7, <2>8, <2>9, <2>11
  <2>13. TransfersNeverComplete'
    BY <2>5, <2>6
  <2>14. step' \in {"subscribe", "idle"}
    BY <2>3 DEF Refuse
  <2>15. step' = "subscribe" => command' = command /\ accepted' = accepted
    BY <2>3 DEF Refuse
  <2>16. VersionInv'
    BY <2>1, <2>2, <2>3, <2>5, <2>7, <2>10, <2>12, <2>13, <2>14, <2>15
  <2>17. CommandInv'
    BY <2>1, <2>5, <2>14, <2>15
  <2> QED
    BY <2>16, <2>17
<1>6. ASSUME NEW a \in Accepts, AcceptSubscribe(a) PROVE VersionInv' /\ CommandInv'
  <2>1. /\ step = "subscribe" /\ accepted = a /\ receiving[a] = command.transfer
        /\ UNCHANGED <<row, receiving, version, active>>
        /\ step' \in {"add", "idle"}
        /\ step' = "add" => command' = command /\ command.transfer \in consumer'
    BY <1>6 DEF AcceptSubscribe, Refuse, RoleInv
  <2>2. \A b \in Accepts : b # a => at'[b] = at[b]
    BY <1>6 DEF AcceptSubscribe, Refuse, TypeOK
  <2>3. at[a] = "accepting" /\ version[a] < row[receiving[a]].version
    BY <2>1 DEF RoleInv
  <2>4. \A b \in Accepts : /\ at'[b] # "unused" => at[b] # "unused"
                           /\ at'[b] \in ReceiverSteps => at[b] \in ReceiverSteps \/ b = a
    BY <2>2, <2>3
  <2> QED
    BY <2>1, <2>3, <2>4
<1>7. ASSUME NEW a \in Accepts, AcceptFails(a) PROVE VersionInv' /\ CommandInv'
  <2>1. step' = "idle" /\ UNCHANGED <<row, receiving, version>> /\ at' = [at EXCEPT ![a] = "gone"]
        /\ at[a] = "accepting"
    BY <1>7 DEF AcceptFails, Refuse, RoleInv
  <2>2. \A b \in Accepts : /\ at'[b] # "unused" => at[b] # "unused"
                           /\ at'[b] \in ReceiverSteps => at[b] \in ReceiverSteps
    BY <2>1 DEF TypeOK, ReceiverSteps
  <2> QED
    BY <2>1, <2>2
<1>8. CASE AcceptLoadFails
  BY <1>8 DEF AcceptLoadFails
<1>9. CASE AcceptAdd
  BY <1>9 DEF AcceptAdd
<1>10. CASE ProcessCheck
  BY <1>10 DEF ProcessCheck
<1>11. CASE ProcessAppend
  BY <1>11 DEF ProcessAppend, RoleInv
<1>12. CASE ProcessPublish
  BY <1>12 DEF ProcessPublish, RoleInv
<1> QED
  BY <1>1, <1>2, <1>3, <1>4, <1>5, <1>6, <1>7, <1>8, <1>9, <1>10, <1>11, <1>12
  DEF CallbackStep, Worker

-------------------------------------------------------------------------------
\* The initial states satisfy the invariant.
LEMMA InvInit == Init => IInv
<1> SUFFICES ASSUME Init PROVE IInv
  OBVIOUS
<1>1. TypeOK
  BY DEF Init, TypeOK, WorkerSteps, AcceptSteps, ReceiverSteps, DispatchSteps
<1>2. LoopInv
  BY DEF Init, LoopInv
<1>3. RoleInv
  BY DEF Init, RoleInv, AcceptSteps
<1>4. FileInv
  BY DEF Init, FileInv, FinalizedFileIsWhole
<1>5. VersionInv
  BY DEF Init, VersionInv, TransfersNeverComplete, ReceiverSteps
<1>6. CommandInv
  BY DEF Init, CommandInv, NoProcessingWhileActive
<1> QED
  BY <1>1, <1>2, <1>3, <1>4, <1>5, <1>6 DEF IInv

\* A node that stops keeps it: nothing asks how far a dispatch has come, only that it began.
LEMMA NodeKeeps ==
  ASSUME IInv, NodeStep
  PROVE  IInv'
<1> USE DEF IInv
<1>1. /\ UNCHANGED <<next, source, tables, stream, worker, staging, receiver>>
      /\ \A t \in Transfers :
            dispatch'[t] = dispatch[t] \/ (dispatch[t] # "idle" /\ dispatch'[t] = "done")
      /\ dispatch' \in [Transfers -> {dispatch[t] : t \in Transfers} \cup {"done"}]
  BY NodeFrame
<1>2. TypeOK'
  BY <1>1 DEF TypeOK, tables, stream, worker, staging, receiver
<1>3. LoopInv'
  BY <1>1 DEF LoopInv
<1>4. Begun' = Begun
  BY <1>1, CommandFacts DEF Begun
<1>5. RoleInv'
  BY <1>1, <1>4 DEF RoleInv, stream, worker, receiver
<1>6. FileInv' /\ VersionInv' /\ CommandInv'
  BY <1>1 DEF tables, stream, worker, staging, receiver, FileInv, Sent, FinalizedFileIsWhole, Whole,
     VersionInv, TransfersNeverComplete, CommandInv, NoProcessingWhileActive, OperationIsActive
<1> QED
  BY <1>2, <1>3, <1>5, <1>6

\* Every step keeps it.
LEMMA InvNext == IInv /\ [Next]_vars => IInv'
<1> SUFFICES ASSUME IInv, [Next]_vars PROVE IInv'
  OBVIOUS
<1>1. CASE Move
  <2>1. TypeOK'
    BY <1>1, DispatchTypes, WorkerTypes, ReceiverTypes DEF IInv, Move, EntryStep, CallbackStep
  <2>2. LoopInv'
    BY <1>1, LoopStep DEF IInv
  <2>3. RoleInv'
    BY <1>1, RoleStep DEF IInv
  <2>4. FileInv'
    BY <1>1, FileStep DEF IInv
  <2>5. VersionInv' /\ CommandInv'
    BY <1>1, ReportEntry, ReportReceiver, ReportCallback, ReportRestart
    DEF IInv, Move
  <2> QED
    BY <2>1, <2>2, <2>3, <2>4, <2>5 DEF IInv
<1>2. CASE UNCHANGED vars
  BY <1>2 DEF IInv, vars, entry, tables, stream, worker, staging, receiver, TypeOK, LoopInv, RoleInv,
     Begun, FileInv, Sent, FinalizedFileIsWhole, Whole, VersionInv, TransfersNeverComplete,
     CommandInv, NoProcessingWhileActive, OperationIsActive
<1> QED
  BY <1>1, <1>2, NextCases, NodeKeeps

\* The invariant behind the theorems of this module.
THEOREM Invariant == Spec => []IInv
<1>1. Init => IInv
  BY InvInit
<1>2. IInv /\ [Next]_vars => IInv'
  BY InvNext
<1> QED
  BY <1>1, <1>2, PTL DEF Spec

\* Every variable has its type.
THEOREM TypeCorrect == Spec => []TypeOK
<1>1. IInv => TypeOK
  BY DEF IInv
<1> QED
  BY <1>1, Invariant, PTL

\* What the database calls received is on the worker's disk: the Upsert in handleChunk
\* follows the write, and no later receiver of the transfer undoes it.
THEOREM ReceivedIsOnDisk == Spec => []ReceivedChunkOnDisk
<1>1. IInv => ReceivedChunkOnDisk
  BY DEF IInv, FileInv, ReceivedChunkOnDisk
<1> QED
  BY <1>1, Invariant, PTL

\* What FinalizeTransfer verified stays verified.
THEOREM FinalizedIsWhole == Spec => []FinalizedFileIsWhole
<1>1. IInv => FinalizedFileIsWhole
  BY DEF IInv, FileInv
<1> QED
  BY <1>1, Invariant, PTL

\* The Update at the end of FinalizeTransfer never takes effect.
THEOREM NeverComplete == Spec => []TransfersNeverComplete
<1>1. IInv => TransfersNeverComplete
  BY DEF IInv, VersionInv
<1> QED
  BY <1>1, Invariant, PTL

-------------------------------------------------------------------------------
(* The count of a receiver *)

\* What a receiver has counted are chunks of its own transfer, and on disk.
CountInv ==
  /\ \A a \in Accepts : \A c \in received[a] :
        at[a] # "unused" /\ c[1] = receiving[a] /\ disk[c] # "blank"
  /\ \A a \in Accepts : at[a] = "finalize" =>
        \A c \in ChunksOf(receiving[a]) : c \in received[a]

\* As many chunks of a transfer as it has are all of them.
LEMMA Counting ==
  ASSUME NEW t \in Transfers, NEW S \in SUBSET ChunksOf(t)
  PROVE  Cardinality(S) = TotalChunks[t] => S = ChunksOf(t)
<1> DEFINE I == 0..(TotalChunks[t] - 1)
<1>1. TotalChunks[t] \in Nat
  BY ChunkCount
<1>2. IsFiniteSet(I) /\ Cardinality(I) = TotalChunks[t]
  <2>1. 0 \in Int /\ TotalChunks[t] - 1 \in Int
    BY <1>1
  <2>2. /\ IsFiniteSet(I)
        /\ Cardinality(I) = IF 0 > TotalChunks[t] - 1 THEN 0 ELSE TotalChunks[t] - 1 - 0 + 1
    BY <2>1, FS_Interval, Zenon
  <2> HIDE DEF I
  <2>3. QED
    BY <1>1, <2>2
<1>3. IsFiniteSet({t}) /\ Cardinality({t}) = 1
  BY FS_Singleton
<1>4. ChunksOf(t) = {t} \X I
  BY DEF ChunksOf
<1> HIDE DEF I
<1>5. /\ IsFiniteSet({t} \X I)
      /\ Cardinality({t} \X I) = Cardinality({t}) * Cardinality(I)
  BY <1>2, <1>3, FS_Product
<1>6. IsFiniteSet(ChunksOf(t)) /\ Cardinality(ChunksOf(t)) = TotalChunks[t]
  BY <1>1, <1>2, <1>3, <1>4, <1>5
<1>7. QED
  BY <1>6, FS_Subset

\* A step that takes nothing from the disk and counts what is on it keeps CountInv.
LEMMA CountFrame ==
  ASSUME CountInv,
         \A a \in Accepts : at[a] # "unused" => at'[a] # "unused" /\ receiving'[a] = receiving[a],
         \A a \in Accepts : received[a] \subseteq received'[a],
         \A a \in Accepts : \A c \in received[a] : disk'[c] # "blank",
         \A a \in Accepts : \A c \in received'[a] :
            \/ c \in received[a]
            \/ at[a] # "unused" /\ c[1] = receiving[a] /\ disk'[c] # "blank",
         \A a \in Accepts : at'[a] = "finalize" =>
            \/ at[a] = "finalize"
            \/ at[a] # "unused" /\ \A c \in ChunksOf(receiving[a]) : c \in received[a]
  PROVE  CountInv'
<1>1. ASSUME NEW a \in Accepts, NEW c \in received'[a]
      PROVE  at'[a] # "unused" /\ c[1] = receiving'[a] /\ disk'[c] # "blank"
  <2>1. at[a] # "unused" /\ c[1] = receiving[a] /\ disk'[c] # "blank"
    BY <1>1 DEF CountInv
  <2>2. QED
    BY <2>1
<1>2. ASSUME NEW a \in Accepts, at'[a] = "finalize"
      PROVE  \A c \in ChunksOf(receiving'[a]) : c \in received'[a]
  <2>1. at[a] # "unused" /\ \A c \in ChunksOf(receiving[a]) : c \in received[a]
    BY <1>2 DEF CountInv
  <2>2. QED
    BY <2>1
<1>3. QED
  BY <1>1, <1>2 DEF CountInv, ChunksOf

\* What a step of a receiver leaves of the others, and of its own place.
LEMMA CountPlaces ==
  ASSUME TypeOK, RoleInv, NEW a \in Accepts, Receiver(a)
  PROVE  /\ UNCHANGED receiving /\ at[a] # "unused" /\ receiving[a] \in Transfers
         /\ \A b \in Accepts : at[b] # "unused" => at'[b] # "unused"
         /\ \A b \in Accepts : b # a => at'[b] = at[b]
<1>1. UNCHANGED receiving /\ at[a] # "unused"
  BY ReceiverFrame DEF ReceiverSteps
<1>2. receiving[a] \in Transfers
  BY <1>1 DEF RoleInv
<1>3. at \in [Accepts -> ReceiverSteps \cup {"unused", "accepting", "gone"}]
  BY DEF TypeOK
<1>4. PICK s \in ReceiverSteps : at' = [at EXCEPT ![a] = s]
  BY ReceiverFrame DEF ReceiverGoto
<1>5. s # "unused"
  BY DEF ReceiverSteps
<1>6. QED
  BY <1>1, <1>2, <1>3, <1>4, <1>5

\* A receiver counts what it has just written.
LEMMA CountChunk ==
  ASSUME IInv, CountInv, NEW a \in Accepts, NEW c \in Chunks, ReceiveChunk(a, c)
  PROVE  CountInv'
<1>1. /\ received \in [Accepts -> SUBSET Chunks]
      /\ disk \in [Chunks -> {"blank", "announced", "other"}]
      /\ source \in [Transfers -> {"announced", "other"}]
      /\ at \in [Accepts -> ReceiverSteps \cup {"unused", "accepting", "gone"}]
  BY DEF IInv, TypeOK
<1>2. /\ UNCHANGED receiving /\ at[a] # "unused"
      /\ \A b \in Accepts : at[b] # "unused" => at'[b] # "unused"
  BY CountPlaces DEF IInv, Receiver
<1>3. /\ c[1] = receiving[a]
      /\ at' = [at EXCEPT ![a] = "upsert"] \/ at' = [at EXCEPT ![a] = "ack"]
  BY DEF ReceiveChunk, ReceiverGoto
<1>4. \A b \in Accepts : at'[b] = "finalize" => at[b] = "finalize"
  BY <1>1, <1>3
<1>5. source[c[1]] \in {"announced", "other"}
  BY <1>1, ChunkFacts
<1>6. CASE disk' = disk /\ received' = received
  BY <1>2, <1>4, <1>6, CountFrame DEF CountInv
<1>7. CASE /\ disk' = [disk EXCEPT ![c] = source[c[1]]]
           /\ received' = [received EXCEPT ![a] = received[a] \cup {c}]
  <2>1. \A b \in Accepts : received[b] \subseteq received'[b]
    BY <1>1, <1>7
  <2>2. \A b \in Accepts : \A d \in received'[b] : d \in received[b] \/ (b = a /\ d = c)
    BY <1>1, <1>7
  <2>3. disk'[c] # "blank" /\ \A d \in Chunks : d # c => disk'[d] = disk[d]
    BY <1>1, <1>5, <1>7
  <2>4. \A b \in Accepts : \A d \in received[b] : d \in Chunks /\ disk[d] # "blank"
    BY <1>1 DEF CountInv
  <2>5. \A b \in Accepts : \A d \in received[b] : disk'[d] # "blank"
    BY <2>3, <2>4
  <2>6. QED
    BY <1>2, <1>3, <1>4, <2>1, <2>2, <2>3, <2>5, CountFrame
<1>8. QED
  BY <1>6, <1>7, Zenon DEF ReceiveChunk

\* A receiver that finalizes at the full count has every chunk.
LEMMA CountRecord ==
  ASSUME IInv, CountInv, NEW a \in Accepts, RecordChunk(a)
  PROVE  CountInv'
<1>1. /\ received \in [Accepts -> SUBSET Chunks]
      /\ at \in [Accepts -> ReceiverSteps \cup {"unused", "accepting", "gone"}]
  BY DEF IInv, TypeOK
<1>2. /\ UNCHANGED receiving /\ at[a] # "unused" /\ receiving[a] \in Transfers
      /\ \A b \in Accepts : at[b] # "unused" => at'[b] # "unused"
  BY CountPlaces DEF IInv, Receiver
<1>3. UNCHANGED <<received, disk>>
  BY DEF RecordChunk, staging
<1>4. at' = [at EXCEPT ![a] = IF Cardinality(received[a]) = TotalChunks[receiving[a]]
                              THEN "finalize" ELSE "ack"]
  BY DEF RecordChunk, ReceiverGoto
<1>5. \A b \in Accepts : at'[b] = "finalize" =>
         \/ at[b] = "finalize"
         \/ b = a /\ Cardinality(received[a]) = TotalChunks[receiving[a]]
  BY <1>1, <1>4
<1>6. received[a] \in SUBSET ChunksOf(receiving[a])
  <2>1. \A c \in received[a] : c \in Chunks /\ c[1] = receiving[a]
    BY <1>1 DEF CountInv
  <2>2. QED
    BY <2>1, ChunkFacts
<1>7. Cardinality(received[a]) = TotalChunks[receiving[a]]
        => \A c \in ChunksOf(receiving[a]) : c \in received[a]
  BY <1>2, <1>6, Counting
<1>8. \A b \in Accepts : \A c \in received[b] : disk'[c] # "blank"
  BY <1>3 DEF CountInv
<1>9. QED
  BY <1>2, <1>3, <1>5, <1>7, <1>8, CountFrame

\* Every other step of a receiver counts nothing and finalizes nothing.
LEMMA CountReceiver ==
  ASSUME IInv, CountInv, NEW a \in Accepts, Receiver(a)
  PROVE  CountInv'
<1>1. CASE \/ Finalize(a) \/ Complete(a) \/ WriteManifest(a)
           \/ AnnounceVerified(a) \/ AckChunk(a)
  <2>1. UNCHANGED <<received, disk>>
    BY <1>1 DEF Finalize, Complete, WriteManifest, AnnounceVerified, AckChunk, staging
  <2>2. \E s \in {"listening", "complete", "manifest", "announce", "ack"} : ReceiverGoto(a, s)
    BY <1>1 DEF Finalize, Complete, WriteManifest, AnnounceVerified, AckChunk, AfterFinalize
  <2>3. at \in [Accepts -> ReceiverSteps \cup {"unused", "accepting", "gone"}]
    BY DEF IInv, TypeOK
  <2>4. \A b \in Accepts : at'[b] = "finalize" => at[b] = "finalize"
    BY <2>2, <2>3 DEF ReceiverGoto
  <2>5. /\ UNCHANGED receiving
        /\ \A b \in Accepts : at[b] # "unused" => at'[b] # "unused"
    BY CountPlaces DEF IInv
  <2>6. \A b \in Accepts : \A c \in received[b] : disk'[c] # "blank"
    BY <2>1 DEF CountInv
  <2>7. QED
    BY <2>1, <2>4, <2>5, <2>6, CountFrame
<1>2. QED
  BY <1>1, CountChunk, CountRecord DEF Receiver

\* A new receiver has counted nothing; one whose file has no chunks has all of them.
LEMMA CountCallback ==
  ASSUME IInv, CountInv, CallbackStep \/ WorkerRestart
  PROVE  CountInv'
<1>1. UNCHANGED <<received, disk>>
  BY CallbackFrame DEF staging, WorkerRestart
<1>2. /\ at \in [Accepts -> ReceiverSteps \cup {"unused", "accepting", "gone"}]
      /\ receiving \in [Accepts -> Transfers \cup {None}]
      /\ RoleInv
  BY DEF IInv, TypeOK
<1>3. \A a \in Accepts : at[a] # "unused" => at'[a] # "unused" /\ receiving'[a] = receiving[a]
  BY <1>2 DEF CallbackStep, Worker, TakeNext, TakeAgain, TakeEvent, TakeCommand, AckCommand,
         AcceptLoad, AcceptUpdate, AcceptSubscribe, AcceptAdd, AcceptFails, AcceptLoadFails,
         Refuse, ProcessCheck, ProcessAppend, ProcessPublish, WorkerRestart, receiver, RoleInv
<1>4. \A a \in Accepts : at'[a] = "finalize" =>
         at[a] = "finalize" \/ (at[a] # "unused" /\ TotalChunks[receiving[a]] = 0)
  BY <1>2 DEF CallbackStep, Worker, TakeNext, TakeAgain, TakeEvent, TakeCommand, AckCommand,
         AcceptLoad, AcceptUpdate, AcceptSubscribe, AcceptAdd, AcceptFails, AcceptLoadFails,
         Refuse, ProcessCheck, ProcessAppend, ProcessPublish, WorkerRestart, receiver, RoleInv
<1>5. \A t : TotalChunks[t] = 0 => ChunksOf(t) = {}
  BY DEF ChunksOf
<1>6. \A b \in Accepts : \A c \in received[b] : disk'[c] # "blank"
  BY <1>1 DEF CountInv
<1>7. QED
  BY <1>1, <1>3, <1>4, <1>5, <1>6, CountFrame

\* For any number of chunks and receivers: the one that begins to finalize has had all
\* chunks, and the file has what the ingress file had.
THEOREM FinalizeHasAll == Spec => []FinalizeHasEveryChunk
<1>1. Init => CountInv
  BY DEF Init, CountInv
<1>2. IInv /\ CountInv /\ [Next]_vars => CountInv'
  <2> SUFFICES ASSUME IInv, CountInv, [Next]_vars PROVE CountInv'
    OBVIOUS
  <2>1. CASE \E t \in Transfers : EntryStep(t)
    BY <2>1, EntryFrame DEF CountInv, staging, receiver
  <2>2. CASE CallbackStep \/ WorkerRestart
    BY <2>2, CountCallback
  <2>3. CASE \E a \in Accepts : Receiver(a)
    BY <2>3, CountReceiver
  <2>4. CASE UNCHANGED vars
    BY <2>4 DEF CountInv, vars, staging, receiver
  <2>5. CASE NodeStep
    BY <2>5, NodeFrame DEF CountInv, staging, receiver
  <2>6. QED
    BY <2>1, <2>2, <2>3, <2>4, <2>5, NextCases DEF Move
<1>3. IInv /\ CountInv => FinalizeHasEveryChunk
  <2> SUFFICES ASSUME IInv, CountInv, NEW a \in Accepts, at[a] = "finalize",
                      NEW c \in ChunksOf(receiving[a])
               PROVE  c \in received[a] /\ disk[c] = source[c[1]]
    BY DEF FinalizeHasEveryChunk
  <2>1. c \in received[a] /\ disk[c] # "blank"
    BY DEF CountInv
  <2>2. c \in Chunks
    BY <2>1 DEF IInv, TypeOK
  <2>3. QED
    BY <2>1, <2>2 DEF IInv, FileInv
<1>4. QED
  BY <1>1, <1>2, <1>3, Invariant, PTL DEF Spec

-------------------------------------------------------------------------------
\* START_TRANSFER is acknowledged by the callback that came through AcceptTransfer.
THEOREM StartStays == Spec => StartLeavesBusAccepted
<1>1. ASSUME IInv, [Next]_vars, NEW t \in Transfers, Start(t) \in unacked \ unacked'
      PROVE  row[t].status = "ACCEPTED" /\ t \in consumer /\ t \in active
  <2>1. CASE AckCommand
    <3>1. step = "ack" /\ command = Start(t)
      BY <1>1, <2>1 DEF AckCommand
    <3>2. command.type = "START_TRANSFER" /\ command.transfer = t
      BY <3>1 DEF Start
    <3> QED
      BY <1>1, <3>1, <3>2 DEF IInv, CommandInv
  <2>2. CASE unacked \subseteq unacked'
    BY <1>1, <2>2
  <2>3. AckCommand \/ unacked \subseteq unacked'
    <3>1. (\E u \in Transfers : EntryStep(u)) => unacked' = unacked
      BY EntryFrame
    <3>2. (\E a \in Accepts : Receiver(a)) => unacked' = unacked
      BY ReceiverFrame
    <3>3. WorkerRestart => unacked \subseteq unacked'
      BY DEF WorkerRestart
    <3>4. CallbackStep => AckCommand \/ unacked \subseteq unacked'
      BY DEF CallbackStep, Worker, TakeNext, TakeAgain, TakeEvent, TakeCommand, AcceptLoad, AcceptUpdate,
             AcceptSubscribe, AcceptAdd, AcceptFails, AcceptLoadFails, ProcessCheck, ProcessAppend,
             ProcessPublish, stream
    <3>5. UNCHANGED vars => unacked' = unacked
      BY DEF vars, stream
    <3>6. NodeStep => unacked' = unacked
      BY NodeFrame DEF stream
    <3> QED
      BY <1>1, <3>1, <3>2, <3>3, <3>4, <3>5, <3>6, NextCases DEF Move
  <2> QED
    BY <2>1, <2>2, <2>3
<1>2. IInv /\ [Next]_vars => [\A t \in Transfers : Start(t) \in unacked \ unacked' =>
                                 row[t].status = "ACCEPTED" /\ t \in consumer /\ t \in active]_unacked
  BY <1>1
<1> QED
  BY <1>2, Invariant, PTL DEF Spec, StartLeavesBusAccepted

\* checkTransferAndProceed found nothing active, and the callback, which alone adds to
\* activeTransfers, is busy with the job until it has reported it.
THEOREM ProcessingWaits == Spec => []NoProcessingWhileActive
<1>1. IInv => NoProcessingWhileActive
  BY DEF IInv, CommandInv
<1>2. QED
  BY <1>1, Invariant, PTL

-------------------------------------------------------------------------------
Recorded == {c \in Chunks : chunkRow[c] = "received"}

Sealed == {receiving[a] : a \in {b \in Accepts : file[b] = "finalized"}}

\* The dispatch takes no received chunk back.
LEMMA DeliveryEntry ==
  ASSUME IInv, NEW t \in Transfers, EntryStep(t)
  PROVE  disk' = disk /\ Recorded' = Recorded /\ Sealed' = Sealed
<1>1. UNCHANGED <<disk, file, receiving>>
  BY EntryFrame DEF staging, receiver
<1>2. Recorded' = Recorded
  <2>1. CASE DispatchChunk(t)
    <3>1. chunkRow' = [chunkRow EXCEPT ![<<t, next[t]>>] = "published"]
      BY <2>1 DEF DispatchChunk
    <3>2. \A c \in Chunks : chunkRow[c] = "received" => c # <<t, next[t]>>
      BY DEF IInv, FileInv, Sent, TypeOK
    <3>3. \A c \in Chunks : chunkRow'[c] = "received" <=> chunkRow[c] = "received"
      BY <3>1, <3>2 DEF IInv, TypeOK
    <3> QED
      BY <3>3 DEF Recorded
  <2>2. CASE chunkRow' = chunkRow
    BY <2>2 DEF Recorded
  <2> QED
    BY <2>1, <2>2 DEF EntryStep, Dispatch, DispatchCreate, DispatchStart, DispatchOpen,
       DispatchPublish, DispatchProcess, DispatchFails, tables
<1> QED
  BY <1>1, <1>2 DEF Sealed

\* The callback and a restart are stuttering steps of FileDelivery.
LEMMA DeliveryOthers ==
  ASSUME IInv, CallbackStep \/ WorkerRestart
  PROVE  disk' = disk /\ Recorded' = Recorded /\ Sealed' = Sealed
<1>1. UNCHANGED <<disk, chunkRow, file>>
  BY CallbackFrame DEF staging, WorkerRestart, tables
<1>2. \A a \in Accepts : at[a] # "unused" => receiving'[a] = receiving[a]
  BY DEF CallbackStep, Worker, TakeNext, TakeAgain, TakeEvent, TakeCommand, AckCommand, AcceptLoad,
         AcceptUpdate, AcceptSubscribe, AcceptAdd, AcceptFails, AcceptLoadFails, Refuse,
         ProcessCheck, ProcessAppend, ProcessPublish, WorkerRestart, receiver, TypeOK, IInv
<1>3. \A a \in Accepts : file[a] = "finalized" => receiving'[a] = receiving[a]
  BY <1>2 DEF IInv, FileInv
<1> QED
  BY <1>1, <1>3 DEF Recorded, Sealed

\* A chunk is written once; written again, it stays as it is.
LEMMA DeliveryReceive ==
  ASSUME IInv, NEW a \in Accepts, NEW c \in Chunks, ReceiveChunk(a, c)
  PROVE  /\ Recorded' = Recorded /\ Sealed' = Sealed
         /\ \/ disk' = disk
            \/ /\ disk[c] = "blank"
               /\ \A d \in ChunksOf(c[1]) : disk[d] \in {"blank", source[c[1]]}
               /\ disk' = [disk EXCEPT ![c] = source[c[1]]]
<1>1. UNCHANGED <<chunkRow, file, receiving>>
  BY DEF ReceiveChunk, tables
<1>2. disk' = disk \/ disk' = [disk EXCEPT ![c] = source[c[1]]]
  BY DEF ReceiveChunk
<1>3. \A d \in Chunks : disk[d] \in {"blank", source[d[1]]}
  BY DEF IInv, FileInv
<1>4. \A d \in ChunksOf(c[1]) : disk[d] \in {"blank", source[c[1]]}
  BY <1>3, ChunkFacts
<1>5. disk[c] # "blank" => [disk EXCEPT ![c] = source[c[1]]] = disk
  BY <1>3 DEF IInv, TypeOK
<1> QED
  BY <1>1, <1>2, <1>4, <1>5 DEF Recorded, Sealed

\* A chunk is recorded that is on disk.
LEMMA DeliveryRecord ==
  ASSUME IInv, NEW a \in Accepts, RecordChunk(a)
  PROVE  /\ disk' = disk /\ Sealed' = Sealed
         /\ Recorded' \in {Recorded, Recorded \cup {inHand[a]}}
         /\ inHand[a] \in Chunks /\ disk[inHand[a]] # "blank"
<1>1. UNCHANGED <<disk, file, receiving>>
  BY DEF RecordChunk, staging
<1>2. inHand[a] \in Chunks /\ disk[inHand[a]] # "blank"
  BY DEF RecordChunk, IInv, RoleInv, FileInv
<1>3. chunkRow' = chunkRow \/ chunkRow' = [chunkRow EXCEPT ![inHand[a]] = "received"]
  BY DEF RecordChunk
<1>4. chunkRow \in [Chunks -> {"none", "published", "received"}]
  BY DEF IInv, TypeOK
<1>5. chunkRow' = [chunkRow EXCEPT ![inHand[a]] = "received"] => Recorded' = Recorded \cup {inHand[a]}
  BY <1>2, <1>4 DEF Recorded
<1> QED
  BY <1>1, <1>2, <1>3, <1>5 DEF Recorded, Sealed

\* A file is sealed when it is whole.
LEMMA DeliverySeal ==
  ASSUME IInv, NEW a \in Accepts, Finalize(a)
  PROVE  /\ disk' = disk /\ Recorded' = Recorded
         /\ \/ Sealed' = Sealed
            \/ Whole(receiving[a]) /\ Sealed' = Sealed \cup {receiving[a]}
         /\ receiving[a] \in Transfers
<1>1. UNCHANGED <<disk, chunkRow, receiving>>
  BY DEF Finalize, staging, tables
<1>2. receiving[a] \in Transfers
  BY DEF Finalize, IInv, RoleInv
<1>3. file' = file \/ (Whole(receiving[a]) /\ file' = [file EXCEPT ![a] = "finalized"])
  BY DEF Finalize
<1>4. file \in [Accepts -> {"open", "finalized"}]
  BY DEF IInv, TypeOK
<1>5. file' = [file EXCEPT ![a] = "finalized"] =>
        {b \in Accepts : file'[b] = "finalized"} = {b \in Accepts : file[b] = "finalized"} \cup {a}
  BY <1>4
<1>6. file' = [file EXCEPT ![a] = "finalized"] => Sealed' = Sealed \cup {receiving[a]}
  BY <1>1, <1>5 DEF Sealed
<1> QED
  BY <1>1, <1>2, <1>3, <1>6 DEF Recorded, Sealed

\* What follows the finalization is a stuttering step.
LEMMA DeliveryFinish ==
  ASSUME NEW a \in Accepts,
         Complete(a) \/ WriteManifest(a) \/ AnnounceVerified(a) \/ AckChunk(a)
  PROVE  disk' = disk /\ Recorded' = Recorded /\ Sealed' = Sealed
<1>1. UNCHANGED <<disk, chunkRow, file, receiving>>
  BY DEF Complete, WriteManifest, AnnounceVerified, AckChunk, tables, staging
<1> QED
  BY <1>1 DEF Recorded, Sealed

\* However many receivers a transfer has, and whatever is delivered again, their steps
\* fill, record and seal one file as FileDelivery says.
THEOREM DeliveryImplemented == Spec => DeliverySpec
<1> USE DEF Recorded, Sealed
<1>1. Init => Delivery!Init
  BY DEF Init, Delivery!Init, Delivery!Chunks, Chunks
<1>2. ASSUME IInv, [Next]_vars
      PROVE  [Delivery!Next]_<<disk, Recorded, Sealed>>
  <2> HIDE DEF Recorded, Sealed
  <2>1. CASE \E t \in Transfers : EntryStep(t)
    BY <1>2, <2>1, DeliveryEntry
  <2>2. CASE CallbackStep \/ WorkerRestart
    BY <1>2, <2>2, DeliveryOthers
  <2>3. ASSUME NEW a \in Accepts, NEW c \in Chunks, ReceiveChunk(a, c)
        PROVE  [Delivery!Next]_<<disk, Recorded, Sealed>>
    <3>1. c[1] \in Transfers /\ c \in ChunksOf(c[1]) /\ source[c[1]] \in Delivery!Bodies
      BY <1>2, ChunkFacts DEF IInv, TypeOK, Delivery!Bodies
    <3>2. disk' = disk \/ Delivery!Fill(c[1], c, source[c[1]])
      BY <1>2, <2>3, <3>1, DeliveryReceive DEF Delivery!Fill, Recorded, Sealed
    <3> QED
      BY <1>2, <2>3, <3>1, <3>2, DeliveryReceive DEF Delivery!Next
  <2>4. ASSUME NEW a \in Accepts, RecordChunk(a)
        PROVE  [Delivery!Next]_<<disk, Recorded, Sealed>>
    <3>1. PICK c \in Chunks : c = inHand[a]
      BY <1>2, <2>4, DeliveryRecord
    <3>2. c[1] \in Transfers /\ c \in ChunksOf(c[1])
      BY ChunkFacts
    <3>3. /\ disk' = disk /\ Sealed' = Sealed /\ disk[c] # "blank"
          /\ Recorded' = Recorded \/ Recorded' = Recorded \cup {c}
      BY <1>2, <2>4, <3>1, DeliveryRecord
    <3>4. Recorded' = Recorded \cup {c} => Delivery!Record(c)
      BY <3>3, Zenon DEF Delivery!Record, Recorded, Sealed
    <3>5. Delivery!Record(c) => Delivery!Next
      BY <3>2, Zenon DEF Delivery!Next
    <3> QED
      BY <3>3, <3>4, <3>5
  <2>5. ASSUME NEW a \in Accepts, Finalize(a)
        PROVE  [Delivery!Next]_<<disk, Recorded, Sealed>>
    <3>1. PICK t \in Transfers : t = receiving[a]
      BY <1>2, <2>5, DeliverySeal
    <3>2. /\ disk' = disk /\ Recorded' = Recorded
          /\ Sealed' = Sealed \/ (Whole(t) /\ Sealed' = Sealed \cup {t})
      BY <1>2, <2>5, <3>1, DeliverySeal
    <3>3. Whole(t) /\ Sealed' = Sealed \cup {t} => Delivery!Seal(t)
      BY <3>2, WholeInChunks, Zenon DEF Delivery!Seal, Recorded, Sealed
    <3>4. Delivery!Seal(t) => Delivery!Next
      BY Zenon DEF Delivery!Next
    <3> QED
      BY <3>2, <3>3, <3>4
  <2>6. ASSUME NEW a \in Accepts,
               Complete(a) \/ WriteManifest(a) \/ AnnounceVerified(a) \/ AckChunk(a)
        PROVE  [Delivery!Next]_<<disk, Recorded, Sealed>>
    BY <2>6, DeliveryFinish
  <2>7. CASE UNCHANGED vars
    BY <2>7 DEF vars, tables, staging, receiver, Recorded, Sealed
  <2>8. CASE NodeStep
    BY <2>8, NodeFrame DEF tables, staging, receiver, Recorded, Sealed
  <2> QED
    BY <1>2, <2>1, <2>2, <2>3, <2>4, <2>5, <2>6, <2>7, <2>8, NextCases DEF Move, Receiver
<1>3. IInv /\ [Next]_vars => [Delivery!Next]_Delivery!vars
  BY <1>2 DEF Delivery!vars
<1> QED
  BY <1>1, <1>3, Invariant, PTL DEF Spec, DeliverySpec, Delivery!Spec

===============================================================================
