-------------------------- MODULE NodeRegistry_proofs --------------------------
(***************************************************************************)
(* For any number of nodes, lives and dispatches, with nodes that two      *)
(* processes claim or without, and with any number of errors: what the row *)
(* of a node says of its heartbeats is true of the life that registered    *)
(* it, and a command is lost only to a heartbeat that came too early.      *)
(*                                                                         *)
(* The argument: the lives of a node that is not shared follow each other, *)
(* so that the row is always that of the one life which has a heartbeat    *)
(* loop; the loop writes to the row only after it inserted a sample; and   *)
(* of a worker whose sample was ready the consumer exists.                 *)
(***************************************************************************)
EXTENDS NodeRegistry, TLAPS

LivesInv ==
  /\ \A p, q \in Processes :
        NodeOf[p] = NodeOf[q] /\ NodeOf[p] \notin Shared /\ Running(p) /\ Running(q) => p = q
  /\ \A p \in Processes : beat[p] # "idle" => Registered(p)
  /\ \A p \in Processes :
        life[p] \in {"events", "up"} /\ IsWorker(RoleOf[p]) => NodeOf[p] \in consumers

\* The life whose row it is: with a shared node it is one that registered it.
RowInv ==
  /\ \A p \in Processes :
        Registered(p) => /\ nodes[NodeOf[p]].started # None
                         /\ NodeOf[p] \notin Shared => nodes[NodeOf[p]].started = p
  /\ \A n \in NodeIds : nodes[n].started = None => nodes[n].roles = {}
  /\ \A n \in NodeIds :
        nodes[n].started # None => /\ nodes[n].roles = RolesOf(RoleOf[nodes[n].started])
                                   /\ nodes[n].incarnation = Incarnation(nodes[n].started)

\* The sample of the tick that p's loop is at.
IsSample(b, p, k) ==
  b.by = p /\ b.node = NodeOf[p] /\ b.incarnation = Incarnation(p) /\ b.sequence = k

SampleInv ==
  /\ \A p \in Processes :
        beat[p] \in {"row", "status"} => \E b \in beats : IsSample(b, p, seq[p])
  /\ \A b \in beats : b.ready /\ IsWorker(RoleOf[b.by]) => b.node \in consumers

Early(n) == \E b \in beats : b.node = n /\ ~b.ready

DispatchInv ==
  /\ \A d \in Dispatches :
        outcome[d] = "selected" => \/ chosen[d] \in Shared \cup consumers
                                   \/ Early(chosen[d])
  /\ CommandsReachConsumer

IInv == /\ TypeOK /\ LivesInv /\ RowInv /\ SampleInv
        /\ HealthyIsEarned /\ LastHeartbeatIsSampled /\ DispatchInv

-------------------------------------------------------------------------------
\* The initial state satisfies the invariant.
LEMMA InitInv == Init => IInv
<1> SUFFICES ASSUME Init
             PROVE  IInv
  OBVIOUS
<1> USE DEF Init
<1>1. TypeOK
  BY FailuresAssumption DEF TypeOK, NodeRow, Absent, Lives
<1>2. LivesInv
  BY DEF LivesInv, Running, Registered
<1>3. RowInv
  BY DEF RowInv, Registered, Absent
<1>4. SampleInv /\ DispatchInv
  BY DEF SampleInv, DispatchInv, CommandsReachConsumer
<1>5. HealthyIsEarned /\ LastHeartbeatIsSampled
  BY DEF HealthyIsEarned, LastHeartbeatIsSampled, Absent
<1>6. QED
  BY <1>1, <1>2, <1>3, <1>4, <1>5 DEF IInv

\* A call that works or fails leaves the count of errors within its bound.
LEMMA Counted ==
  ASSUME failures \in 0..MaxFailures, Works \/ Fails
  PROVE  failures' \in 0..MaxFailures
BY FailuresAssumption DEF Works, Fails

-------------------------------------------------------------------------------
(* What each step changes *)

\* A registration writes a row of the right type.
LEMMA RegistrationIsRow ==
  ASSUME NEW p \in Processes, NEW old
  PROVE  /\ Registration(p, old) \in NodeRow
         /\ Registration(p, old).started = p /\ p # None
         /\ Registration(p, old).status = "STARTING"
         /\ Registration(p, old).sequence = 0
         /\ Registration(p, old).roles = RolesOf(RoleOf[p])
         /\ Registration(p, old).incarnation = Incarnation(p)
<1>1. NodeOf[p] \in NodeIds /\ RoleOf[p] \in {"entry", "worker", "hybrid"} /\ p # None
  BY ProcessAssumption, NoneAssumption
<1>2. RolesOf(RoleOf[p]) \in SUBSET {"entry", "worker", "hybrid"}
  BY <1>1 DEF RolesOf
<1>3. Incarnation(p) \in NodeIds \cup Processes \cup {None}
  BY <1>1 DEF Incarnation
<1>4. QED
  BY <1>1, <1>2, <1>3 DEF Registration, NodeRow

\* A sample is a row of node_heartbeats.
LEMMA SampleIsRow ==
  ASSUME TypeOK, NEW p \in Processes
  PROVE  /\ Sample(p) \in BeatRow
         /\ IsSample(Sample(p), p, seq[p])
         /\ Sample(p).ready = (life[p] # "commands")
<1>1. NodeOf[p] \in NodeIds /\ seq[p] \in Nat
  BY ProcessAssumption DEF TypeOK
<1>2. QED
  BY <1>1 DEF Sample, BeatRow, Incarnation, IsSample

\* Every step keeps the type of every variable.
LEMMA TypeKeeps ==
  ASSUME TypeOK, Next
  PROVE  TypeOK'
<1> USE DEF TypeOK
<1>1. ASSUME NEW p \in Processes, Start(p)
      PROVE  TypeOK'
  BY <1>1 DEF Start, Lives, dispatch
<1>2. ASSUME NEW p \in Processes, Register(p)
      PROVE  TypeOK'
  <2>1. failures' \in 0..MaxFailures
    BY <1>2, Counted DEF Register
  <2>2. life' \in [Processes -> Lives]
    BY <1>2 DEF Register, Lives
  <2>3. nodes' \in [NodeIds -> NodeRow]
    BY <1>2, RegistrationIsRow DEF Register
  <2>4. QED
    BY <1>2, <2>1, <2>2, <2>3 DEF Register, dispatch
<1>3. ASSUME NEW p \in Processes, SubscribeCommands(p) \/ SubscribeEvents(p)
      PROVE  TypeOK'
  <2>1. failures' \in 0..MaxFailures
    BY <1>3, Counted DEF SubscribeCommands, SubscribeEvents, Exit
  <2>2. /\ life' \in [Processes -> Lives]
        /\ beat' \in [Processes -> {"idle", "insert", "row", "status"}]
    BY <1>3 DEF SubscribeCommands, SubscribeEvents, Exit, Lives
  <2>3. consumers' \subseteq NodeIds
    BY <1>3, ProcessAssumption DEF SubscribeCommands, SubscribeEvents
  <2>4. QED
    BY <1>3, <2>1, <2>2, <2>3 DEF SubscribeCommands, SubscribeEvents, dispatch
<1>4. ASSUME NEW p \in Processes, Stop(p) \/ Tick(p)
      PROVE  TypeOK'
  BY <1>4 DEF Stop, Tick, Lives, dispatch
<1>5. ASSUME NEW p \in Processes, InsertBeat(p)
      PROVE  TypeOK'
  <2>1. failures' \in 0..MaxFailures
    BY <1>5, Counted DEF InsertBeat
  <2>2. beats' \subseteq BeatRow
    BY <1>5, SampleIsRow DEF InsertBeat
  <2>3. /\ beat' \in [Processes -> {"idle", "insert", "row", "status"}]
        /\ UNCHANGED seq
    BY <1>5 DEF InsertBeat, AfterInsertError
  <2>4. QED
    BY <1>5, <2>1, <2>2, <2>3 DEF InsertBeat, dispatch
<1>6. ASSUME NEW p \in Processes, UpdateHeartbeat(p) \/ UpdateStatus(p)
      PROVE  TypeOK'
  <2>1. failures' \in 0..MaxFailures
    BY <1>6, Counted DEF UpdateHeartbeat, UpdateStatus
  <2>2. beat' \in [Processes -> {"idle", "insert", "row", "status"}]
    BY <1>6 DEF UpdateHeartbeat, UpdateStatus
  <2>3. nodes' \in [NodeIds -> NodeRow]
    BY <1>6 DEF UpdateHeartbeat, UpdateStatus, NodeRow
  <2>4. QED
    BY <1>6, <2>1, <2>2, <2>3 DEF UpdateHeartbeat, UpdateStatus, dispatch
<1>7. ASSUME NEW d \in Dispatches, Select(d) \/ NoWorker(d) \/ Publish(d) \/ PublishFails(d)
      PROVE  TypeOK'
  <2>1. failures' \in 0..MaxFailures
    BY <1>7, Counted DEF Select, NoWorker, Publish, PublishFails
  <2>2. /\ outcome' \in [Dispatches -> {"idle", "selected", "delivered", "dropped", "failed"}]
        /\ chosen' \in [Dispatches -> NodeIds \cup {None}]
    BY <1>7 DEF Select, NoWorker, Publish, PublishFails, Ends
  <2>3. QED
    BY <1>7, <2>1, <2>2 DEF Select, NoWorker, Publish, PublishFails, lives
<1>8. QED
  BY <1>1, <1>2, <1>3, <1>4, <1>5, <1>6, <1>7 DEF Next, StartUp, Heartbeat

\* A step of another action than those of p leaves the lives alone; a heartbeat step
\* leaves the life and the row's registration.
LEMMA HeartbeatMoves ==
  ASSUME IInv, NEW p \in Processes, Heartbeat(p)
  PROVE  /\ UNCHANGED <<life, consumers, dispatch>>
         /\ Registered(p)
         /\ \A q \in Processes : q # p => beat'[q] = beat[q] /\ seq'[q] = seq[q]
         /\ \A n \in NodeIds : /\ nodes'[n].started = nodes[n].started
                               /\ nodes'[n].roles = nodes[n].roles
                               /\ nodes'[n].incarnation = nodes[n].incarnation
<1> USE DEF IInv, TypeOK, LivesInv
<1>1. /\ UNCHANGED <<life, consumers, dispatch>>
      /\ Registered(p)
  BY DEF Heartbeat, Tick, InsertBeat, UpdateHeartbeat, UpdateStatus
<1>2. \A q \in Processes : q # p => beat'[q] = beat[q] /\ seq'[q] = seq[q]
  BY DEF Heartbeat, Tick, InsertBeat, AfterInsertError, UpdateHeartbeat, UpdateStatus
<1>3. \A n \in NodeIds : /\ nodes'[n].started = nodes[n].started
                         /\ nodes'[n].roles = nodes[n].roles
                         /\ nodes'[n].incarnation = nodes[n].incarnation
  BY DEF Heartbeat, Tick, InsertBeat, UpdateHeartbeat, UpdateStatus, NodeRow
<1>4. QED
  BY <1>1, <1>2, <1>3

-------------------------------------------------------------------------------
(* The lives *)

\* Every step keeps it that of a node that is not shared one process runs, that only a
\* registered process sends heartbeats, and that a worker is up behind its consumer.
LEMMA LivesKeep ==
  ASSUME IInv, Next
  PROVE  LivesInv'
<1> USE DEF IInv, TypeOK
<1>1. ASSUME NEW p \in Processes, Start(p)
      PROVE  LivesInv'
  <2>1. /\ life' = [life EXCEPT ![p] = "register"] /\ life[p] = "off"
        /\ UNCHANGED <<beat, consumers>>
        /\ NodeOf[p] \notin Shared =>
             \A q \in Processes : NodeOf[q] = NodeOf[p] => ~Running(q)
    BY <1>1 DEF Start
  <2>2. QED
    BY <2>1 DEF LivesInv, Running, Registered
<1>2. ASSUME NEW p \in Processes, Register(p)
      PROVE  LivesInv'
  <2>1. /\ life[p] = "register" /\ UNCHANGED <<beat, consumers>>
        /\ \/ IsWorker(RoleOf[p]) /\ life' = [life EXCEPT ![p] = "commands"]
           \/ ~IsWorker(RoleOf[p]) /\ life' = [life EXCEPT ![p] = "events"]
           \/ life' = [life EXCEPT ![p] = "stopped"]
    BY <1>2 DEF Register
  <2>2. QED
    BY <2>1 DEF LivesInv, Running, Registered
<1>3. ASSUME NEW p \in Processes, SubscribeCommands(p)
      PROVE  LivesInv'
  <2>1. CASE Works
    <3>1. /\ life' = [life EXCEPT ![p] = "events"] /\ life[p] = "commands"
          /\ UNCHANGED beat /\ consumers' = consumers \cup {NodeOf[p]}
      BY <1>3, <2>1, FailuresAssumption DEF SubscribeCommands, Works, Exit, Fails
    <3>2. QED
      BY <3>1 DEF LivesInv, Running, Registered
  <2>2. CASE Exit(p)
    <3>1. /\ life' = [life EXCEPT ![p] = "stopped"] /\ life[p] = "commands"
          /\ beat' = [beat EXCEPT ![p] = "idle"] /\ consumers \subseteq consumers'
      BY <1>3, <2>2 DEF SubscribeCommands, Exit
    <3>2. QED
      BY <3>1 DEF LivesInv, Running, Registered
  <2>3. QED
    BY <1>3, <2>1, <2>2 DEF SubscribeCommands
<1>4. ASSUME NEW p \in Processes, SubscribeEvents(p)
      PROVE  LivesInv'
  <2>1. /\ life[p] = "events" /\ UNCHANGED consumers
        /\ \/ life' = [life EXCEPT ![p] = "up"] /\ UNCHANGED beat
           \/ life' = [life EXCEPT ![p] = "stopped"] /\ beat' = [beat EXCEPT ![p] = "idle"]
    BY <1>4 DEF SubscribeEvents, Exit
  <2>2. QED
    BY <2>1 DEF LivesInv, Running, Registered
<1>5. ASSUME NEW p \in Processes, Stop(p)
      PROVE  LivesInv'
  <2>1. /\ life' = [life EXCEPT ![p] = "stopped"] /\ beat' = [beat EXCEPT ![p] = "idle"]
        /\ UNCHANGED consumers
    BY <1>5 DEF Stop
  <2>2. QED
    BY <2>1 DEF LivesInv, Running, Registered
<1>6. ASSUME NEW p \in Processes, Heartbeat(p)
      PROVE  LivesInv'
  <2>1. /\ UNCHANGED <<life, consumers>> /\ Registered(p)
        /\ \A q \in Processes : q # p => beat'[q] = beat[q]
    BY <1>6, HeartbeatMoves
  <2>2. QED
    BY <2>1 DEF LivesInv, Running, Registered
<1>7. ASSUME NEW d \in Dispatches, Select(d) \/ NoWorker(d) \/ Publish(d) \/ PublishFails(d)
      PROVE  LivesInv'
  <2>1. UNCHANGED <<life, beat, consumers>>
    BY <1>7 DEF Select, NoWorker, Publish, PublishFails, lives
  <2>2. QED
    BY <2>1 DEF LivesInv, Running, Registered
<1>8. QED
  BY <1>1, <1>2, <1>3, <1>4, <1>5, <1>6, <1>7 DEF Next, StartUp

-------------------------------------------------------------------------------
(* The row *)

\* A step that leaves every row's registration and makes nobody registered keeps RowInv.
LEMMA RowFrame ==
  ASSUME RowInv,
         \A p \in Processes : Registered(p)' => Registered(p),
         \A n \in NodeIds : /\ nodes'[n].started = nodes[n].started
                            /\ nodes'[n].roles = nodes[n].roles
                            /\ nodes'[n].incarnation = nodes[n].incarnation
  PROVE  RowInv'
BY ProcessAssumption DEF RowInv

\* A registration that reaches the table makes the row that of p.
LEMMA RegisteredRow ==
  ASSUME IInv, NEW p \in Processes, Register(p),
         nodes' = [nodes EXCEPT ![NodeOf[p]] = Registration(p, @)]
  PROVE  RowInv'
<1> USE DEF IInv, TypeOK
<1> DEFINE n == NodeOf[p]
<1>1. n \in NodeIds /\ NodeOf \in [Processes -> NodeIds]
  BY ProcessAssumption
<1>2. /\ nodes'[n].started = p /\ p # None
      /\ nodes'[n].roles = RolesOf(RoleOf[p])
      /\ nodes'[n].incarnation = Incarnation(p)
      /\ \A m \in NodeIds : m # n => nodes'[m] = nodes[m]
  BY <1>1, RegistrationIsRow
<1>3. /\ Running(p)
      /\ \A q \in Processes : q # p => life'[q] = life[q]
  BY DEF Register, Running
<1>4. ASSUME NEW q \in Processes, Registered(q)'
      PROVE  /\ nodes'[NodeOf[q]].started # None
             /\ NodeOf[q] \notin Shared => nodes'[NodeOf[q]].started = q
  <2>1. CASE q = p
    BY <2>1, <1>2
  <2>2. CASE q # p
    <3>1. Registered(q)
      BY <1>3, <1>4, <2>2 DEF Registered
    <3>2. NodeOf[q] = n => n \in Shared
      BY <1>3, <2>2, <3>1 DEF LivesInv, Running
    <3>3. QED
      BY <1>1, <1>2, <3>1, <3>2 DEF RowInv
  <2>3. QED
    BY <2>1, <2>2
<1>5. ASSUME NEW m \in NodeIds
      PROVE  /\ nodes'[m].started = None => nodes'[m].roles = {}
             /\ nodes'[m].started # None =>
                   /\ nodes'[m].roles = RolesOf(RoleOf[nodes'[m].started])
                   /\ nodes'[m].incarnation = Incarnation(nodes'[m].started)
  <2>1. CASE m = n
    BY <2>1, <1>2
  <2>2. CASE m # n
    BY <2>2, <1>2 DEF RowInv
  <2>3. QED
    BY <2>1, <2>2
<1>6. QED
  BY <1>4, <1>5 DEF RowInv

\* Every step keeps it that the row of a node is that of the life which registered it.
LEMMA RowKeeps ==
  ASSUME IInv, Next
  PROVE  RowInv'
<1> USE DEF IInv, TypeOK
<1>1. ASSUME NEW p \in Processes, Register(p)
      PROVE  RowInv'
  <2>1. CASE nodes' = [nodes EXCEPT ![NodeOf[p]] = Registration(p, @)]
    BY <1>1, <2>1, RegisteredRow
  <2>2. CASE failures' # failures /\ UNCHANGED nodes
    <3>1. life' = [life EXCEPT ![p] = "stopped"]
      BY <1>1, <2>2 DEF Register, Works
    <3>2. QED
      BY <2>2, <3>1, RowFrame DEF Registered
  <2>3. QED
    BY <1>1, <2>1, <2>2 DEF Register
<1>2. ASSUME NEW p \in Processes, Start(p) \/ SubscribeCommands(p) \/ SubscribeEvents(p) \/ Stop(p)
      PROVE  RowInv'
  <2>1. UNCHANGED nodes /\ \A q \in Processes : life'[q] \in {"commands", "events", "up"}
                                                 => life[q] \in {"commands", "events", "up"}
    BY <1>2 DEF Start, SubscribeCommands, SubscribeEvents, Stop, Exit
  <2>2. QED
    BY <2>1, RowFrame DEF Registered
<1>3. ASSUME NEW p \in Processes, Heartbeat(p)
      PROVE  RowInv'
  BY <1>3, HeartbeatMoves, RowFrame DEF Registered
<1>4. ASSUME NEW d \in Dispatches, Select(d) \/ NoWorker(d) \/ Publish(d) \/ PublishFails(d)
      PROVE  RowInv'
  <2>1. UNCHANGED <<nodes, life>>
    BY <1>4 DEF Select, NoWorker, Publish, PublishFails, lives
  <2>2. QED
    BY <2>1, RowFrame DEF Registered
<1>5. QED
  BY <1>1, <1>2, <1>3, <1>4 DEF Next, StartUp

-------------------------------------------------------------------------------
(* The samples *)

\* Samples and consumers stay.
LEMMA BeatsStay ==
  ASSUME IInv, Next
  PROVE  beats \subseteq beats' /\ consumers \subseteq consumers'
<1>1. ASSUME NEW p \in Processes,
             Start(p) \/ Register(p) \/ SubscribeCommands(p) \/ SubscribeEvents(p) \/ Stop(p)
      PROVE  beats \subseteq beats' /\ consumers \subseteq consumers'
  BY <1>1 DEF Start, Register, SubscribeCommands, SubscribeEvents, Stop
<1>2. ASSUME NEW p \in Processes, Heartbeat(p)
      PROVE  beats \subseteq beats' /\ consumers \subseteq consumers'
  BY <1>2 DEF Heartbeat, Tick, InsertBeat, UpdateHeartbeat, UpdateStatus
<1>3. ASSUME NEW d \in Dispatches, Select(d) \/ NoWorker(d) \/ Publish(d) \/ PublishFails(d)
      PROVE  beats \subseteq beats' /\ consumers \subseteq consumers'
  BY <1>3 DEF Select, NoWorker, Publish, PublishFails
<1>4. QED
  BY <1>1, <1>2, <1>3 DEF Next, StartUp

\* A step that inserts no sample and takes no loop to another place keeps SampleInv.
LEMMA SampleFrame ==
  ASSUME SampleInv, UNCHANGED <<beats, seq>>, consumers \subseteq consumers',
         \A p \in Processes : beat'[p] \in {"row", "status"} => beat[p] \in {"row", "status"}
  PROVE  SampleInv'
BY DEF SampleInv

\* The insert keeps SampleInv: the loop goes on to the row only with its sample in the
\* table, and a sample that is ready is of a process behind its subscription.
LEMMA InsertKeeps ==
  ASSUME IInv, NEW p \in Processes, InsertBeat(p)
  PROVE  SampleInv'
<1> USE DEF IInv, TypeOK
<1>1. /\ Sample(p) \in BeatRow /\ IsSample(Sample(p), p, seq[p])
      /\ Sample(p).ready = (life[p] # "commands")
  BY SampleIsRow
<1>2. /\ beats' = beats \/ beats' = beats \cup {Sample(p)}
      /\ UNCHANGED <<seq, consumers>>
      /\ \A q \in Processes : q # p => beat'[q] = beat[q]
      /\ beat'[p] = "idle" \/ beats' = beats \cup {Sample(p)}
  BY DEF InsertBeat, AfterInsertError
<1>3. \A q \in Processes :
        beat'[q] \in {"row", "status"} => \E b \in beats' : IsSample(b, q, seq'[q])
  BY <1>1, <1>2 DEF SampleInv
<1>4. Sample(p).ready /\ IsWorker(RoleOf[p]) => NodeOf[p] \in consumers
  BY <1>1 DEF InsertBeat, LivesInv, Registered
<1>5. \A b \in beats' : b.ready /\ IsWorker(RoleOf[b.by]) => b.node \in consumers'
  BY <1>1, <1>2, <1>4 DEF SampleInv, IsSample
<1>6. QED
  BY <1>3, <1>5 DEF SampleInv

\* Every step keeps it that the loop is behind its sample.
LEMMA SampleKeeps ==
  ASSUME IInv, Next
  PROVE  SampleInv'
<1> USE DEF IInv, TypeOK
<1>1. consumers \subseteq consumers'
  BY BeatsStay
<1>2. ASSUME NEW p \in Processes,
             Start(p) \/ Register(p) \/ SubscribeCommands(p) \/ SubscribeEvents(p) \/ Stop(p)
      PROVE  SampleInv'
  <2>1. UNCHANGED <<beats, seq>> /\ (UNCHANGED beat \/ beat' = [beat EXCEPT ![p] = "idle"])
    BY <1>2 DEF Start, Register, SubscribeCommands, SubscribeEvents, Stop, Exit
  <2>2. QED
    BY <1>1, <2>1, SampleFrame
<1>3. ASSUME NEW p \in Processes, Tick(p)
      PROVE  SampleInv'
  <2>1. /\ UNCHANGED <<beats, consumers>>
        /\ seq' = [seq EXCEPT ![p] = @ + 1] /\ beat' = [beat EXCEPT ![p] = "insert"]
    BY <1>3 DEF Tick
  <2>2. QED
    BY <2>1 DEF SampleInv
<1>4. ASSUME NEW p \in Processes, InsertBeat(p)
      PROVE  SampleInv'
  BY <1>4, InsertKeeps
<1>5. ASSUME NEW p \in Processes, UpdateHeartbeat(p) \/ UpdateStatus(p)
      PROVE  SampleInv'
  <2>1. /\ UNCHANGED <<beats, seq>>
        /\ \A q \in Processes :
              beat'[q] \in {"row", "status"} => beat[q] \in {"row", "status"}
    BY <1>5 DEF UpdateHeartbeat, UpdateStatus
  <2>2. QED
    BY <1>1, <2>1, SampleFrame
<1>6. ASSUME NEW d \in Dispatches, Select(d) \/ NoWorker(d) \/ Publish(d) \/ PublishFails(d)
      PROVE  SampleInv'
  <2>1. UNCHANGED <<beats, seq, beat>>
    BY <1>6 DEF Select, NoWorker, Publish, PublishFails, lives
  <2>2. QED
    BY <1>1, <2>1, SampleFrame
<1>7. QED
  BY <1>2, <1>3, <1>4, <1>5, <1>6 DEF Next, StartUp, Heartbeat

\* At its row or status update the loop of p has a sample of p in the table.
LEMMA HasSample ==
  ASSUME IInv, NEW p \in Processes, beat[p] \in {"row", "status"}
  PROVE  \E b \in beats : /\ b.by = p /\ b.node = NodeOf[p] /\ b.sequence = seq[p]
                          /\ b.incarnation = Incarnation(p)
BY DEF IInv, SampleInv, IsSample

\* A step that does not write status, sequence or registration keeps both properties
\* of the rows.
LEMMA HealthFrame ==
  ASSUME HealthyIsEarned, LastHeartbeatIsSampled, UNCHANGED nodes, beats \subseteq beats'
  PROVE  HealthyIsEarned' /\ LastHeartbeatIsSampled'
BY DEF HealthyIsEarned, LastHeartbeatIsSampled

\* Every step keeps both: a registration takes back what the former life wrote, and the
\* two updates come behind a sample of the life whose row it is.
LEMMA HealthKeeps ==
  ASSUME IInv, Next
  PROVE  HealthyIsEarned' /\ LastHeartbeatIsSampled'
<1> USE DEF IInv, TypeOK
<1>1. beats \subseteq beats'
  BY BeatsStay
<1>2. ASSUME NEW p \in Processes, Register(p)
      PROVE  HealthyIsEarned' /\ LastHeartbeatIsSampled'
  <2>1. CASE nodes' = [nodes EXCEPT ![NodeOf[p]] = Registration(p, @)]
    <3>1. \A n \in NodeIds :
             \/ nodes'[n] = nodes[n]
             \/ nodes'[n].status = "STARTING" /\ nodes'[n].sequence = 0
      BY <2>1, RegistrationIsRow
    <3>2. QED
      BY <1>1, <3>1 DEF HealthyIsEarned, LastHeartbeatIsSampled
  <2>2. CASE UNCHANGED nodes
    BY <1>1, <2>2, HealthFrame
  <2>3. QED
    BY <1>2, <2>1, <2>2 DEF Register
<1>3. ASSUME NEW p \in Processes, UpdateHeartbeat(p) \/ UpdateStatus(p)
      PROVE  HealthyIsEarned' /\ LastHeartbeatIsSampled'
  <2> DEFINE n == NodeOf[p]
  <2>1. n \in NodeIds
    BY ProcessAssumption
  <2>2. PICK b \in beats : /\ b.by = p /\ b.node = n /\ b.sequence = seq[p]
                           /\ b.incarnation = Incarnation(p)
    BY <1>3, HasSample DEF UpdateHeartbeat, UpdateStatus
  <2>3. n \notin Shared => nodes[n].started = p /\ nodes[n].incarnation = Incarnation(p)
    <3>1. Registered(p)
      BY <1>3 DEF LivesInv, UpdateHeartbeat, UpdateStatus
    <3>2. nodes[n].started # None /\ (n \notin Shared => nodes[n].started = p)
      BY <3>1 DEF RowInv
    <3>3. QED
      BY <2>1, <3>2 DEF RowInv
  <2>4. CASE UNCHANGED nodes
    BY <1>1, <2>4, HealthFrame
  <2>5. CASE nodes' = [nodes EXCEPT ![n].sequence = seq[p]]
    <3>1. /\ \A m \in NodeIds : m # n => nodes'[m] = nodes[m]
          /\ nodes'[n].sequence = seq[p] /\ nodes'[n].status = nodes[n].status
          /\ nodes'[n].started = nodes[n].started
          /\ nodes'[n].incarnation = nodes[n].incarnation
      BY <2>1, <2>5 DEF NodeRow
    <3>2. HealthyIsEarned'
      BY <1>1, <3>1 DEF HealthyIsEarned
    <3>3. LastHeartbeatIsSampled'
      BY <1>1, <2>2, <2>3, <3>1 DEF LastHeartbeatIsSampled
    <3>4. QED
      BY <3>2, <3>3
  <2>6. CASE nodes' = [nodes EXCEPT ![n].status = "HEALTHY"]
    <3>1. /\ \A m \in NodeIds : m # n => nodes'[m] = nodes[m]
          /\ nodes'[n].sequence = nodes[n].sequence
          /\ nodes'[n].started = nodes[n].started
          /\ nodes'[n].incarnation = nodes[n].incarnation
      BY <2>1, <2>6 DEF NodeRow
    <3>2. HealthyIsEarned'
      BY <1>1, <2>2, <2>3, <3>1 DEF HealthyIsEarned
    <3>3. LastHeartbeatIsSampled'
      BY <1>1, <3>1 DEF LastHeartbeatIsSampled
    <3>4. QED
      BY <3>2, <3>3
  <2>7. QED
    BY <1>3, <2>4, <2>5, <2>6 DEF UpdateHeartbeat, UpdateStatus
<1>4. ASSUME NEW p \in Processes,
             Start(p) \/ SubscribeCommands(p) \/ SubscribeEvents(p) \/ Stop(p)
               \/ Tick(p) \/ InsertBeat(p)
      PROVE  HealthyIsEarned' /\ LastHeartbeatIsSampled'
  <2>1. UNCHANGED nodes
    BY <1>4 DEF Start, SubscribeCommands, SubscribeEvents, Stop, Tick, InsertBeat
  <2>2. QED
    BY <1>1, <2>1, HealthFrame
<1>5. ASSUME NEW d \in Dispatches, Select(d) \/ NoWorker(d) \/ Publish(d) \/ PublishFails(d)
      PROVE  HealthyIsEarned' /\ LastHeartbeatIsSampled'
  <2>1. UNCHANGED nodes
    BY <1>5 DEF Select, NoWorker, Publish, PublishFails
  <2>2. QED
    BY <1>1, <2>1, HealthFrame
<1>6. QED
  BY <1>2, <1>3, <1>4, <1>5 DEF Next, StartUp, Heartbeat

-------------------------------------------------------------------------------
(* The dispatch *)

\* A node that ListHealthy returns and whose roles fit has its consumer, or a heartbeat
\* came before it.
LEMMA EligibleReaches ==
  ASSUME IInv, NEW n \in NodeIds, Eligible(n)
  PROVE  n \in Shared \cup consumers \/ Early(n)
<1> USE DEF IInv, TypeOK
<1>1. CASE n \notin Shared
  <2>1. PICK b \in beats : b.node = n /\ b.by = nodes[n].started
    BY <1>1 DEF Eligible, HealthyIsEarned
  <2>2. nodes[n].started # None /\ nodes[n].roles = RolesOf(RoleOf[nodes[n].started])
    BY DEF Eligible, RowInv
  <2>3. IsWorker(RoleOf[b.by])
    BY <2>1, <2>2 DEF Eligible, RolesOf, IsWorker, IsEntry
  <2>4. b.ready \in BOOLEAN
    BY DEF BeatRow
  <2>5. QED
    BY <2>1, <2>3, <2>4 DEF SampleInv, Early
<1>2. QED
  BY <1>1

\* Every step keeps it that a selected node is reached, but for an early heartbeat.
LEMMA DispatchKeeps ==
  ASSUME IInv, Next
  PROVE  DispatchInv'
<1> USE DEF IInv, TypeOK
<1>1. beats \subseteq beats' /\ consumers \subseteq consumers'
  BY BeatsStay
<1>2. CASE UNCHANGED dispatch
  BY <1>1, <1>2 DEF DispatchInv, CommandsReachConsumer, Early, dispatch
<1>3. ASSUME NEW d \in Dispatches, Select(d)
      PROVE  DispatchInv'
  <2>1. PICK n \in NodeIds : Eligible(n) /\ chosen' = [chosen EXCEPT ![d] = n]
    BY <1>3 DEF Select
  <2>2. outcome' = [outcome EXCEPT ![d] = "selected"] /\ UNCHANGED <<beats, consumers>>
        /\ outcome[d] = "idle"
    BY <1>3 DEF Select, Ends
  <2>3. n \in Shared \cup consumers \/ Early(n)
    BY <2>1, EligibleReaches
  <2>4. QED
    BY <2>1, <2>2, <2>3 DEF DispatchInv, CommandsReachConsumer, Early
<1>4. ASSUME NEW d \in Dispatches, Publish(d)
      PROVE  DispatchInv'
  <2>1. /\ UNCHANGED <<beats, consumers, chosen>> /\ outcome[d] = "selected"
        /\ \/ outcome' = [outcome EXCEPT ![d] = "delivered"]
           \/ outcome' = [outcome EXCEPT ![d] = "dropped"] /\ chosen[d] \notin consumers
    BY <1>4 DEF Publish, Ends
  <2>2. QED
    BY <2>1 DEF DispatchInv, CommandsReachConsumer, Early
<1>5. ASSUME NEW d \in Dispatches, NoWorker(d) \/ PublishFails(d)
      PROVE  DispatchInv'
  <2>1. UNCHANGED <<beats, consumers, chosen>> /\ outcome' = [outcome EXCEPT ![d] = "failed"]
    BY <1>5 DEF NoWorker, PublishFails, Ends
  <2>2. QED
    BY <2>1 DEF DispatchInv, CommandsReachConsumer, Early
<1>6. ASSUME NEW p \in Processes,
             Start(p) \/ Register(p) \/ SubscribeCommands(p) \/ SubscribeEvents(p) \/ Stop(p)
      PROVE  UNCHANGED dispatch
  BY <1>6 DEF Start, Register, SubscribeCommands, SubscribeEvents, Stop
<1>7. ASSUME NEW p \in Processes, Heartbeat(p)
      PROVE  UNCHANGED dispatch
  BY <1>7, HeartbeatMoves
<1>8. QED
  BY <1>2, <1>3, <1>4, <1>5, <1>6, <1>7 DEF Next, StartUp

-------------------------------------------------------------------------------
\* Every step keeps the invariant.
LEMMA NextKeeps == IInv /\ [Next]_vars => IInv'
<1> SUFFICES ASSUME IInv, [Next]_vars
             PROVE  IInv'
  OBVIOUS
<1>1. CASE Next
  <2>1. TypeOK'
    BY <1>1, TypeKeeps DEF IInv
  <2>2. QED
    BY <1>1, <2>1, LivesKeep, RowKeeps, SampleKeeps, HealthKeeps, DispatchKeeps DEF IInv
<1>2. CASE UNCHANGED vars
  <2>1. UNCHANGED <<nodes, beats, life, beat, seq, consumers, outcome, chosen, failures>>
    BY <1>2 DEF vars, lives, dispatch
  <2>2. TypeOK' /\ LivesInv' /\ RowInv' /\ SampleInv'
    BY <2>1 DEF IInv, TypeOK, LivesInv, RowInv, SampleInv, Running, Registered
  <2>3. HealthyIsEarned' /\ LastHeartbeatIsSampled' /\ DispatchInv'
    BY <2>1 DEF IInv, HealthyIsEarned, LastHeartbeatIsSampled, DispatchInv,
                CommandsReachConsumer, Early
  <2>4. QED
    BY <2>2, <2>3 DEF IInv
<1>3. QED
  BY <1>1, <1>2

\* The invariant holds in every reachable state.
THEOREM Invariance == Spec => []IInv
<1>1. QED
  BY InitInv, NextKeeps, PTL DEF Spec

\* Every variable keeps to its type, whatever fails and whoever shares a node id.
THEOREM TypeCorrect == Spec => []TypeOK
<1>1. IInv => TypeOK
  BY DEF IInv
<1>2. QED
  BY <1>1, Invariance, PTL

\* A command for a node of one process at a time is dropped only if a heartbeat of that
\* node came before its command consumer.
THEOREM CommandsAreReceived == Spec => []CommandsReachConsumer
<1>1. IInv => CommandsReachConsumer
  BY DEF IInv, DispatchInv
<1>2. QED
  BY <1>1, Invariance, PTL

\* A row says HEALTHY only after a sample of the life that registered it.
THEOREM HealthEarned == Spec => []HealthyIsEarned
<1>1. IInv => HealthyIsEarned
  BY DEF IInv
<1>2. QED
  BY <1>1, Invariance, PTL

\* The heartbeat that a row names was inserted, under the row's own incarnation.
THEOREM HeartbeatSampled == Spec => []LastHeartbeatIsSampled
<1>1. IInv => LastHeartbeatIsSampled
  BY DEF IInv
<1>2. QED
  BY <1>1, Invariance, PTL
-------------------------------------------------------------------------------
(* The row over time *)

\* The number in the row of a node that is not shared is one that the running life has
\* counted to, and no row is of a process that did not register yet.
ForwardInv ==
  /\ \A p \in Processes :
        Registered(p) /\ NodeOf[p] \notin Shared => nodes[NodeOf[p]].sequence <= seq[p]
  /\ \A p \in Processes :
        life[p] \in {"off", "register"} => \A n \in NodeIds : nodes[n].started # p

Forward ==
  \A n \in NodeIds \ Shared :
    nodes'[n].started = nodes[n].started =>
      /\ nodes'[n].sequence >= nodes[n].sequence
      /\ nodes[n].status = "HEALTHY" => nodes'[n].status = "HEALTHY"

\* A step that leaves the rows alone, lets no number fall and no process register
\* keeps ForwardInv.
LEMMA ForwardFrame ==
  ASSUME IInv, ForwardInv, UNCHANGED nodes,
         \A p \in Processes : /\ Registered(p)' => Registered(p)
                              /\ seq'[p] = seq[p] \/ seq'[p] = seq[p] + 1
                              /\ life'[p] \in {"off", "register"} => life[p] \in {"off", "register"}
  PROVE  ForwardInv' /\ Forward
<1>1. \A n \in NodeIds : nodes[n].sequence \in Nat
  BY DEF IInv, TypeOK, NodeRow
<1>2. \A p \in Processes : seq[p] \in Nat /\ NodeOf[p] \in NodeIds
  BY ProcessAssumption DEF IInv, TypeOK
<1>3. ForwardInv'
  BY <1>1, <1>2 DEF ForwardInv
<1>4. Forward
  BY <1>1 DEF Forward
<1>5. QED
  BY <1>3, <1>4

\* A registration begins a row of its own.
LEMMA RegisterForward ==
  ASSUME IInv, ForwardInv, NEW p \in Processes, Register(p)
  PROVE  ForwardInv' /\ Forward
<1> USE DEF IInv, TypeOK
<1> DEFINE n == NodeOf[p]
<1>1. /\ n \in NodeIds /\ life[p] = "register" /\ UNCHANGED seq
      /\ \A q \in Processes : seq[q] \in Nat /\ NodeOf[q] \in NodeIds
  BY ProcessAssumption DEF Register
<1>2. life'[p] \in {"commands", "events", "stopped"}
      /\ \A q \in Processes : q # p => life'[q] = life[q]
  BY DEF Register
<1>3. CASE nodes' = [nodes EXCEPT ![n] = Registration(p, @)]
  <2>1. /\ nodes'[n].started = p /\ nodes'[n].sequence = 0
        /\ \A m \in NodeIds : m # n => nodes'[m] = nodes[m]
    BY <1>1, <1>3, RegistrationIsRow
  <2>2. ASSUME NEW q \in Processes, Registered(q)', NodeOf[q] \notin Shared
        PROVE  nodes'[NodeOf[q]].sequence <= seq'[q]
    <3>1. CASE NodeOf[q] = n
      BY <1>1, <2>1, <3>1
    <3>2. CASE NodeOf[q] # n
      BY <1>1, <1>2, <2>1, <2>2, <3>2 DEF ForwardInv, Registered
    <3>3. QED
      BY <3>1, <3>2
  <2>3. ASSUME NEW q \in Processes, life'[q] \in {"off", "register"}, NEW m \in NodeIds
        PROVE  nodes'[m].started # q
    BY <1>2, <2>1, <2>3 DEF ForwardInv
  <2>4. nodes[n].started # p
    BY <1>1 DEF ForwardInv
  <2>5. \A m \in NodeIds : nodes[m].sequence \in Nat
    BY DEF NodeRow
  <2>6. Forward
    BY <2>1, <2>4, <2>5 DEF Forward
  <2>7. QED
    BY <2>2, <2>3, <2>6 DEF ForwardInv
<1>4. CASE failures' # failures /\ UNCHANGED nodes
  <2>1. life'[p] = "stopped"
    BY <1>4 DEF Register, Works
  <2>2. QED
    BY <1>1, <1>2, <1>4, <2>1, ForwardFrame DEF Registered
<1>5. QED
  BY <1>3, <1>4 DEF Register

\* A heartbeat stores the last number of its life, which is the newest.
LEMMA BeatForward ==
  ASSUME IInv, ForwardInv, NEW p \in Processes, UpdateHeartbeat(p) \/ UpdateStatus(p)
  PROVE  ForwardInv' /\ Forward
<1> USE DEF IInv, TypeOK
<1> DEFINE n == NodeOf[p]
<1>1. /\ n \in NodeIds /\ UNCHANGED <<life, seq>> /\ Registered(p)
      /\ \A q \in Processes : seq[q] \in Nat /\ NodeOf[q] \in NodeIds
      /\ \A m \in NodeIds : nodes[m].sequence \in Nat
  BY ProcessAssumption DEF UpdateHeartbeat, UpdateStatus, LivesInv, NodeRow
<1>2. CASE UNCHANGED nodes
  BY <1>1, <1>2, ForwardFrame DEF Registered
<1>3. CASE nodes' = [nodes EXCEPT ![n].sequence = seq[p]]
  <2>1. /\ \A m \in NodeIds : m # n => nodes'[m] = nodes[m]
        /\ nodes'[n].sequence = seq[p] /\ nodes'[n].status = nodes[n].status
        /\ nodes'[n].started = nodes[n].started
    BY <1>1, <1>3 DEF NodeRow
  <2>2. n \notin Shared => nodes[n].sequence <= seq[p]
    BY <1>1 DEF ForwardInv
  <2>3. \A q \in Processes : Registered(q) /\ NodeOf[q] = n /\ n \notin Shared => q = p
    BY <1>1 DEF LivesInv, Running
  <2>4. ForwardInv'
    BY <1>1, <2>1, <2>3 DEF ForwardInv, Registered
  <2>5. Forward
    BY <1>1, <2>1, <2>2 DEF Forward
  <2>6. QED
    BY <2>4, <2>5
<1>4. CASE nodes' = [nodes EXCEPT ![n].status = "HEALTHY"]
  <2>1. /\ \A m \in NodeIds : m # n => nodes'[m] = nodes[m]
        /\ nodes'[n].sequence = nodes[n].sequence /\ nodes'[n].status = "HEALTHY"
        /\ nodes'[n].started = nodes[n].started
    BY <1>1, <1>4 DEF NodeRow
  <2>2. ForwardInv'
    BY <1>1, <2>1 DEF ForwardInv, Registered
  <2>3. Forward
    BY <1>1, <2>1 DEF Forward
  <2>4. QED
    BY <2>2, <2>3
<1>5. QED
  BY <1>2, <1>3, <1>4 DEF UpdateHeartbeat, UpdateStatus

\* Every step keeps ForwardInv, and takes no row back.
LEMMA ForwardKeeps == IInv /\ ForwardInv /\ [Next]_vars => ForwardInv' /\ [Forward]_nodes
<1> SUFFICES ASSUME IInv, ForwardInv, [Next]_vars
             PROVE  ForwardInv' /\ Forward
  OBVIOUS
<1> USE DEF IInv, TypeOK
<1>1. ASSUME NEW p \in Processes, Start(p)
      PROVE  ForwardInv' /\ Forward
  <2>1. UNCHANGED <<nodes, seq>> /\ life[p] = "off" /\ life' = [life EXCEPT ![p] = "register"]
    BY <1>1 DEF Start
  <2>2. QED
    BY <2>1, ForwardFrame DEF Registered
<1>2. ASSUME NEW p \in Processes, SubscribeCommands(p) \/ SubscribeEvents(p) \/ Stop(p)
      PROVE  ForwardInv' /\ Forward
  <2>1. /\ UNCHANGED <<nodes, seq>>
        /\ \A q \in Processes : life'[q] = life[q] \/ life'[q] = "stopped"
             \/ (q = p /\ life[p] \in {"commands", "events"} /\ life'[p] \in {"events", "up"})
    BY <1>2 DEF SubscribeCommands, SubscribeEvents, Stop, Exit
  <2>2. QED
    BY <2>1, ForwardFrame DEF Registered
<1>3. ASSUME NEW p \in Processes, Tick(p) \/ InsertBeat(p)
      PROVE  ForwardInv' /\ Forward
  <2>1. /\ UNCHANGED <<nodes, life>>
        /\ \A q \in Processes : seq'[q] = seq[q] \/ seq'[q] = seq[q] + 1
    BY <1>3 DEF Tick, InsertBeat, AfterInsertError
  <2>2. QED
    BY <2>1, ForwardFrame DEF Registered
<1>4. ASSUME NEW d \in Dispatches, Select(d) \/ NoWorker(d) \/ Publish(d) \/ PublishFails(d)
      PROVE  ForwardInv' /\ Forward
  <2>1. UNCHANGED <<nodes, life, seq>>
    BY <1>4 DEF Select, NoWorker, Publish, PublishFails, lives
  <2>2. QED
    BY <2>1, ForwardFrame DEF Registered
<1>5. CASE UNCHANGED vars
  <2>1. UNCHANGED <<nodes, life, seq>>
    BY <1>5 DEF vars, lives
  <2>2. QED
    BY <2>1, ForwardFrame DEF Registered
<1>6. QED
  BY <1>1, <1>2, <1>3, <1>4, <1>5, RegisterForward, BeatForward DEF Next, StartUp, Heartbeat

\* Within a life the row of a node that is not shared goes forward: its heartbeat number
\* does not fall and its health stays, for any number of restarts, ticks and errors.
THEOREM RowsGoForward == Spec => HeartbeatsGoForward
<1>1. Init => ForwardInv
  BY NoneAssumption DEF Init, ForwardInv, Registered, Absent
<1>2. QED
  BY <1>1, ForwardKeeps, Invariance, PTL DEF Spec, HeartbeatsGoForward, Forward
===============================================================================
