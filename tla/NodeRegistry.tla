----------------------------- MODULE NodeRegistry -----------------------------
(***************************************************************************)
(* Which worker gets the commands: the lives of the nodes, what they write *)
(* into tables `nodes` and `node_heartbeats`, and the scheduler that reads *)
(* the one row per node which all lives of that node write.                *)
(*                                                                         *)
(* A process registers its node, starts the heartbeat loop and only then   *)
(* makes its consumers.  It may end at any time, by a signal, a crash or   *)
(* an error of its own start, and leaves its row as it is.  A dispatch     *)
(* selects a worker, does other things, and publishes.                     *)
(*                                                                         *)
(* Every call to MariaDB and NATS is one action.  The ticker may fire      *)
(* whenever the loop waits.  heartbeat_deadline_at is left out: every      *)
(* heartbeat stores it and no statement reads it, so that a worker which   *)
(* ended stays in the scheduler's list.                                    *)
(***************************************************************************)
EXTENDS Naturals, FiniteSets

CONSTANTS NodeIds,
          Processes,    \* the processes that are ever started
          NodeOf,       \* NODE_ID of each process
          RoleOf,       \* NODE_ROLE of each process, as ParseRole reads it
          Configured,   \* nodes whose NODE_INCARNATION_ID is set
          Shared,       \* nodes that two processes may claim at one time
          Dispatches,
          MaxBeats,     \* how often the ticker of each process fires: a bound
          MaxFailures,  \* how many calls return an error: a bound
          None

ASSUME ProcessAssumption ==
  /\ NodeOf \in [Processes -> NodeIds]
  /\ RoleOf \in [Processes -> {"entry", "worker", "hybrid"}]
  /\ MaxBeats \in [Processes -> Nat]

ASSUME NodesAssumption == Configured \subseteq NodeIds /\ Shared \subseteq NodeIds

ASSUME NoneAssumption == None \notin NodeIds \cup Processes

ASSUME FailuresAssumption == MaxFailures \in Nat

VARIABLES
  nodes,     \* table nodes
  beats,     \* table node_heartbeats
  life,      \* what each process does: see Lives
  beat,      \* the next call of its heartbeat loop
  seq,       \* the loop's sequence
  consumers, \* the nodes whose durable command consumer exists
  outcome,   \* how far each dispatch is, and
  chosen,    \* the node it selected
  failures   \* errors so far

lives    == <<life, beat, seq>>
dispatch == <<outcome, chosen>>
vars == <<nodes, beats, lives, consumers, dispatch, failures>>

-------------------------------------------------------------------------------
IsEntry(role)  == role \in {"entry", "hybrid"}
IsWorker(role) == role \in {"worker", "hybrid"}

RolesOf(role) == {role} \cup (IF IsEntry(role) THEN {"entry"} ELSE {})
                        \cup (IF IsWorker(role) THEN {"worker"} ELSE {})

\* Mutant of Incarnation: no id is generated.
IncarnationUnset(p) == IF NodeOf[p] \in Configured THEN NodeOf[p] ELSE None

\* A set id outlives the process, a generated one is of this process alone.
Incarnation(p) == IF NodeOf[p] \in Configured THEN NodeOf[p] ELSE p

Lives == {"off", "register", "commands", "events", "up", "stopped"}

\* Lives whose node is registered: the heartbeat loop runs.
Registered(p) == life[p] \in {"commands", "events", "up"}

Running(p) == Registered(p) \/ life[p] = "register"

BeatRow == [node : NodeIds, incarnation : NodeIds \cup Processes, sequence : Nat,
            by : Processes,     \* which process inserted it, and
            ready : BOOLEAN]    \* whether it had its command consumer: history

\* `started` is incarnation_started_at, named by the process that started.
NodeRow == [status : {"absent", "STARTING", "HEALTHY"},
            roles : SUBSET {"entry", "worker", "hybrid"},
            incarnation : NodeIds \cup Processes \cup {None},
            started : Processes \cup {None}, sequence : Nat]

Absent == [status |-> "absent", roles |-> {}, incarnation |-> None, started |-> None,
           sequence |-> 0]

Init ==
  /\ nodes = [n \in NodeIds |-> Absent]
  /\ beats = {}
  /\ life = [p \in Processes |-> "off"]
  /\ beat = [p \in Processes |-> "idle"]
  /\ seq = [p \in Processes |-> 0]
  /\ consumers = {}
  /\ outcome = [d \in Dispatches |-> "idle"]
  /\ chosen = [d \in Dispatches |-> None]
  /\ failures = 0

\* A call returns an error: it counts, and its effect may be there or not.
Fails == failures < MaxFailures /\ failures' = failures + 1

Works == UNCHANGED failures

-------------------------------------------------------------------------------
(* The start of a node *)

Start(p) ==
  /\ life[p] = "off"
  /\ NodeOf[p] \notin Shared =>
        \A q \in Processes : NodeOf[q] = NodeOf[p] => ~Running(q)
  /\ life' = [life EXCEPT ![p] = "register"]
  /\ UNCHANGED <<nodes, beats, beat, seq, consumers, dispatch, failures>>

\* Mutant of Registration: the upsert leaves the status of a row that exists.
RegistrationKeepsStatus(p, old) ==
  [status |-> IF old.status = "absent" THEN "STARTING" ELSE old.status,
   roles |-> RolesOf(RoleOf[p]), incarnation |-> Incarnation(p), started |-> p,
   sequence |-> 0]

\* Mutant of Registration: the upsert leaves incarnation_started_at of a row that exists.
RegistrationKeepsStarted(p, old) ==
  [status |-> "STARTING", roles |-> RolesOf(RoleOf[p]), incarnation |-> Incarnation(p),
   started |-> IF old.started = None THEN p ELSE old.started, sequence |-> 0]

\* The row that the upsert leaves, whatever row `old` was there.
Registration(p, old) ==
  [status |-> "STARTING", roles |-> RolesOf(RoleOf[p]), incarnation |-> Incarnation(p),
   started |-> p, sequence |-> 0]

Register(p) ==
  /\ life[p] = "register"
  /\ \/ /\ Works
        /\ life' = [life EXCEPT ![p] = IF IsWorker(RoleOf[p]) THEN "commands" ELSE "events"]
     \/ Fails /\ life' = [life EXCEPT ![p] = "stopped"]
  /\ \/ nodes' = [nodes EXCEPT ![NodeOf[p]] = Registration(p, @)]
     \/ failures' # failures /\ UNCHANGED nodes
  /\ UNCHANGED <<beats, beat, seq, consumers, dispatch>>

\* An error of Start ends the process, and the heartbeat loop with it.
Exit(p) ==
  /\ Fails
  /\ life' = [life EXCEPT ![p] = "stopped"]
  /\ beat' = [beat EXCEPT ![p] = "idle"]

SubscribeCommands(p) ==
  /\ life[p] = "commands"
  /\ \/ Works /\ life' = [life EXCEPT ![p] = "events"] /\ UNCHANGED beat
     \/ Exit(p)
  /\ \/ consumers' = consumers \cup {NodeOf[p]}
     \/ failures' # failures /\ UNCHANGED consumers
  /\ UNCHANGED <<nodes, beats, seq, dispatch>>

\* A hybrid's second call, for the same durable consumer, is one with the first.
SubscribeEvents(p) ==
  /\ life[p] = "events"
  /\ \/ Works /\ life' = [life EXCEPT ![p] = "up"] /\ UNCHANGED beat
     \/ Exit(p)
  /\ UNCHANGED <<nodes, beats, seq, consumers, dispatch>>

\* A signal, a crash: the durable consumer and the rows stay.
Stop(p) ==
  /\ Running(p)
  /\ life' = [life EXCEPT ![p] = "stopped"]
  /\ beat' = [beat EXCEPT ![p] = "idle"]
  /\ UNCHANGED <<nodes, beats, seq, consumers, dispatch, failures>>

-------------------------------------------------------------------------------
(* The heartbeat loop *)

Tick(p) ==
  /\ Registered(p) /\ beat[p] = "idle" /\ seq[p] < MaxBeats[p]
  /\ seq' = [seq EXCEPT ![p] = @ + 1]
  /\ beat' = [beat EXCEPT ![p] = "insert"]
  /\ UNCHANGED <<nodes, beats, life, consumers, dispatch, failures>>

Sample(p) == [node |-> NodeOf[p], incarnation |-> Incarnation(p), sequence |-> seq[p],
              by |-> p, ready |-> life[p] # "commands"]

\* The primary key of node_heartbeats.
SameKey(b, c) ==
  b.node = c.node /\ b.incarnation = c.incarnation /\ b.sequence = c.sequence

Clash(p) == \E b \in beats : SameKey(b, Sample(p))

\* Mutants of AfterInsertError: the loop goes on to the nodes row; or it takes the
\* number back, to use it again.
AfterErrorGoesOn(p) == beat' = [beat EXCEPT ![p] = "row"] /\ UNCHANGED seq
AfterErrorSameNumber(p) ==
  beat' = [beat EXCEPT ![p] = "idle"] /\ seq' = [seq EXCEPT ![p] = @ - 1]

\* `continue`: the nodes row is left alone until a later tick.
AfterInsertError(p) == beat' = [beat EXCEPT ![p] = "idle"] /\ UNCHANGED seq

InsertBeat(p) ==
  /\ beat[p] = "insert"
  /\ \/ /\ ~Clash(p) /\ Works
        /\ beats' = beats \cup {Sample(p)}
        /\ beat' = [beat EXCEPT ![p] = "row"] /\ UNCHANGED seq
     \/ Clash(p) /\ Works /\ AfterInsertError(p) /\ UNCHANGED beats
     \/ /\ Fails /\ AfterInsertError(p)
        /\ UNCHANGED beats \/ (~Clash(p) /\ beats' = beats \cup {Sample(p)})
  /\ UNCHANGED <<nodes, life, consumers, dispatch>>

UpdateHeartbeat(p) ==
  /\ beat[p] = "row"
  /\ Works \/ Fails
  /\ \/ nodes' = [nodes EXCEPT ![NodeOf[p]].sequence = seq[p]]
     \/ failures' # failures /\ UNCHANGED nodes
  /\ beat' = [beat EXCEPT ![p] = "status"]
  /\ UNCHANGED <<beats, life, seq, consumers, dispatch>>

UpdateStatus(p) ==
  /\ beat[p] = "status"
  /\ Works \/ Fails
  /\ \/ nodes' = [nodes EXCEPT ![NodeOf[p]].status = "HEALTHY"]
     \/ failures' # failures /\ UNCHANGED nodes
  /\ beat' = [beat EXCEPT ![p] = "idle"]
  /\ UNCHANGED <<beats, life, seq, consumers, dispatch>>

-------------------------------------------------------------------------------
(* The scheduler and the dispatch *)

\* Mutant of Eligible: the roles are not looked at.
EligibleAnyRole(n) == nodes[n].status = "HEALTHY"

\* ListHealthy and the loop over its rows.  No code stores DEGRADED.
Eligible(n) == nodes[n].status = "HEALTHY" /\ nodes[n].roles \cap {"worker", "hybrid"} # {}

Ends(d, how) == outcome' = [outcome EXCEPT ![d] = how]

\* The rows come by updated_at, which each node's own clock writes: any may be first.
Select(d) ==
  /\ outcome[d] = "idle" /\ Works
  /\ \E n \in NodeIds : Eligible(n) /\ chosen' = [chosen EXCEPT ![d] = n]
  /\ Ends(d, "selected")
  /\ UNCHANGED <<nodes, beats, lives, consumers>>

NoWorker(d) ==
  /\ outcome[d] = "idle"
  /\ (Works /\ \A n \in NodeIds : ~Eligible(n)) \/ Fails
  /\ Ends(d, "failed")
  /\ UNCHANGED <<nodes, beats, lives, consumers, chosen>>

\* Interest retention: without the consumer the command is dropped, and no error.
Publish(d) ==
  /\ outcome[d] = "selected" /\ Works
  /\ Ends(d, IF chosen[d] \in consumers THEN "delivered" ELSE "dropped")
  /\ UNCHANGED <<nodes, beats, lives, consumers, chosen>>

PublishFails(d) ==
  /\ outcome[d] = "selected" /\ Fails
  /\ Ends(d, "failed")
  /\ UNCHANGED <<nodes, beats, lives, consumers, chosen>>

-------------------------------------------------------------------------------
StartUp(p)   == Register(p) \/ SubscribeCommands(p) \/ SubscribeEvents(p)
Heartbeat(p) == Tick(p) \/ InsertBeat(p) \/ UpdateHeartbeat(p) \/ UpdateStatus(p)

Next ==
  \/ \E p \in Processes : Start(p) \/ StartUp(p) \/ Stop(p) \/ Heartbeat(p)
  \/ \E d \in Dispatches : Select(d) \/ NoWorker(d) \/ Publish(d) \/ PublishFails(d)

Spec == Init /\ [][Next]_vars

\* A process that runs goes on with its start, and its ticker fires.
FairSpec ==
  /\ Spec
  /\ \A p \in Processes : WF_vars(StartUp(p)) /\ WF_vars(Heartbeat(p))

-------------------------------------------------------------------------------
(* Properties *)

\* Every variable keeps to its type.
TypeOK ==
  /\ nodes \in [NodeIds -> NodeRow]
  /\ beats \subseteq BeatRow
  /\ life \in [Processes -> Lives]
  /\ beat \in [Processes -> {"idle", "insert", "row", "status"}]
  /\ seq \in [Processes -> Nat]
  /\ consumers \subseteq NodeIds
  /\ outcome \in [Dispatches -> {"idle", "selected", "delivered", "dropped", "failed"}]
  /\ chosen \in [Dispatches -> NodeIds \cup {None}]
  /\ failures \in 0..MaxFailures

\* A command is dropped only when the chosen node had reported health before it
\* had its consumer, as the loop that starts before the subscription allows.
CommandsReachConsumer ==
  \A d \in Dispatches :
    outcome[d] = "dropped" =>
      \/ chosen[d] \in Shared
      \/ \E b \in beats : b.node = chosen[d] /\ ~b.ready

\* A worker that is restarted is not scheduled on the health of its former life:
\* while its row says HEALTHY, a sample of the life that registered it exists.  Of a
\* node that two processes claim, each vouches for the other.
HealthyIsEarned ==
  \A n \in NodeIds :
    nodes[n].status = "HEALTHY" =>
      \E b \in beats : b.node = n /\ (n \notin Shared => b.by = nodes[n].started)

\* The row's heartbeat is one of the samples: its node, incarnation and sequence
\* are the key of one, or no heartbeat came since the registration.  With two
\* processes the incarnation may be the other's: UpdateHeartbeat does not write it.
LastHeartbeatIsSampled ==
  \A n \in NodeIds :
    nodes[n].sequence # 0 =>
      \E b \in beats : /\ b.node = n /\ b.sequence = nodes[n].sequence
                       /\ n \notin Shared => b.incarnation = nodes[n].incarnation

\* Within a life the row of a node goes forward: a heartbeat never brings an older
\* number back, and HEALTHY is taken back only by the registration of the next life,
\* although that one counts from 1 again, maybe under the same incarnation.
HeartbeatsGoForward ==
  [][\A n \in NodeIds \ Shared :
       nodes'[n].started = nodes[n].started =>
         /\ nodes'[n].sequence >= nodes[n].sequence
         /\ nodes[n].status = "HEALTHY" => nodes'[n].status = "HEALTHY"]_nodes

\* The bound on p's ticks leaves one that succeeds: beyond every error and every
\* number that another life of the node may have used.
TicksSuffice(p) ==
  \A q \in Processes \ {p} :
    MaxBeats[p] > MaxFailures + (IF NodeOf[q] = NodeOf[p] THEN MaxBeats[q] ELSE 0)

\* A node that runs becomes schedulable, also after a restart under an incarnation
\* id whose first sequence numbers are taken, unless it ends first.
StartedBecomesHealthy ==
  \A p \in Processes :
    NodeOf[p] \notin Shared /\ TicksSuffice(p) =>
      (life[p] = "up" ~> (life[p] = "stopped" \/ nodes[NodeOf[p]].status = "HEALTHY"))
===============================================================================
