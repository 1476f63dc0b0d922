-------------------------------- MODULE Outbox --------------------------------
(***************************************************************************)
(* What an indexer promises of the documents it is called with, without    *)
(* channel, workers and goroutines: a document is answered for at once,    *)
(* or, with Cap others waiting, only when it was written off; it is gone   *)
(* when it was sent or written off; Stop returns when all that waited at   *)
(* its call is gone.  A name serves again when its document is gone.       *)
(***************************************************************************)
EXTENDS Naturals

CONSTANTS Docs, Cap

VARIABLES
  phase,    \* of the process
  spilling, \* the documents whose Index is to write them off,
  answered, \* and those whose Index returned
  gone,     \* the documents that were sent or written off
  due       \* what waited when Stop was called

vars == <<phase, spilling, answered, gone, due>>

Alive == phase # "down"

Init ==
  /\ phase = "starting"
  /\ spilling = {} /\ answered = {} /\ gone = {} /\ due = {}

Waiting == answered \ gone

New(d) == d \in Docs \ (spilling \cup Waiting \cup due)

Accept(d) ==
  /\ Alive /\ New(d)
  /\ answered' = answered \cup {d}
  /\ gone' = gone \ {d}
  /\ UNCHANGED <<phase, spilling, due>>

\* Only for want of room: each of the Cap places is taken by another document.
Spill(d) ==
  /\ Alive /\ New(d)
  /\ \E place \in [1..Cap -> Waiting] : \A i, j \in 1..Cap : place[i] = place[j] => i = j
  /\ spilling' = spilling \cup {d}
  /\ answered' = answered \ {d}
  /\ gone' = gone \ {d}
  /\ UNCHANGED <<phase, due>>

WriteOff(d) ==
  /\ Alive /\ d \in spilling
  /\ spilling' = spilling \ {d}
  /\ answered' = answered \cup {d}
  /\ gone' = gone \cup {d}
  /\ UNCHANGED <<phase, due>>

Settle(d) ==
  /\ Alive /\ phase # "starting" /\ d \in Waiting
  /\ gone' = gone \cup {d}
  /\ UNCHANGED <<phase, spilling, answered, due>>

Open ==
  /\ phase = "starting" /\ phase' = "running"
  /\ UNCHANGED <<spilling, answered, gone, due>>

Close ==
  /\ phase = "running" /\ phase' = "stopping"
  /\ due' \in {S \in SUBSET answered : Waiting \subseteq S}
  /\ UNCHANGED <<spilling, answered, gone>>

Return ==
  /\ phase = "stopping" /\ phase' = "stopped"
  /\ due \subseteq gone
  /\ UNCHANGED <<spilling, answered, gone, due>>

End ==
  /\ Alive /\ phase' = "down"
  /\ UNCHANGED <<spilling, answered, gone, due>>

Next ==
  \/ \E d \in Docs : Accept(d) \/ Spill(d) \/ WriteOff(d) \/ Settle(d)
  \/ Open \/ Close \/ Return \/ End

Spec == Init /\ [][Next]_vars
===============================================================================
