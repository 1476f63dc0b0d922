-------------------------------- MODULE Indexer --------------------------------
(***************************************************************************)
(* The Elasticsearch indexer of a node: the bounded channel into which the *)
(* report handlers put documents without waiting, the workers that send    *)
(* them, the dead-letter file for what cannot be sent, and Stop, which     *)
(* closes `closed` and waits for the workers to drain the channel.         *)
(*                                                                         *)
(* Index is open to the handlers from the moment the node consumes events, *)
(* before the workers start, and until the process ends, after they ended. *)
(* There is no last document: reports come as long as the process lives.   *)
(* The flusher is left out: nothing is ever put into its buffer.           *)
(***************************************************************************)
EXTENDS Naturals, Sequences

CONSTANTS Docs,          \* names for the documents, one for each report that is stored;
                         \* a name serves again when its document has gone
          Workers,       \* worker goroutines; defaultWorkers
          Cap,           \* defaultChannelCap
          None,
          ElasticFails,  \* a request may return an error
          DeadLetterFails \* the dead-letter file may not be writable

ASSUME CapAssumption == Cap \in Nat

ASSUME WorkersAssumption == Workers # {}

ASSUME NoneAssumption == None \notin Docs

ASSUME FlagsAssumption == {ElasticFails, DeadLetterFails} \subseteq BOOLEAN

VARIABLES
  main,    \* app.Run: before Start, after it, in Stop, after it; or the process is gone
  ch,      \* the channel
  at,      \* what each worker does,
  drains,  \* the workers that are in drain,
  hand,    \* and the document each has
  caller,  \* whether Index was called with each document, or is at its dead letter
  fate,    \* where each document went
  early    \* history: the documents that the channel held when Stop closed `closed`

vars == <<main, ch, at, drains, hand, caller, fate, early>>

Phases == {"starting", "running", "stopping", "stopped", "down"}

\* "select" is the loop of worker, "drain" and "take" the one of drain.
Steps == {"off", "select", "drain", "take", "send", "letter", "done"}

Init ==
  /\ main = "starting"
  /\ ch = <<>>
  /\ at = [w \in Workers |-> "off"]
  /\ drains = {}
  /\ hand = [w \in Workers |-> None]
  /\ caller = [d \in Docs |-> "none"]
  /\ fate = [d \in Docs |-> {}]
  /\ early = {}

\* The goroutines live as long as the process.
Alive == main # "down"

closed == main \in {"stopping", "stopped"}

Goto(w, s) == at' = [at EXCEPT ![w] = s]

Goes(d, where) == fate' = [fate EXCEPT ![d] = @ \cup where]

-------------------------------------------------------------------------------
(* The handlers *)

\* Mutant of OnFull: what does not fit is dropped.
OnFullDropped(d) == caller' = [caller EXCEPT ![d] = "over"]

OnFull(d) == caller' = [caller EXCEPT ![d] = "letter"]

\* Mutants of Full: the capacity is off by one.
FullOneLater == Len(ch) > Cap
FullOneSooner == Len(ch) + 1 >= Cap

Full == Len(ch) >= Cap

InHand(d) == \E w \in Workers : hand[w] = d

\* The name d stands for no document: none yet, or one that has gone and that nobody
\* asks about any more.
Free(d) ==
  \/ caller[d] = "none"
  \/ caller[d] = "over" /\ fate[d] # {} /\ ~InHand(d) /\ d \notin early

\* The select of Index, for a new document: it never waits.
Index(d) ==
  /\ Alive /\ Free(d)
  /\ \/ /\ ~Full
        /\ ch' = Append(ch, d)
        /\ caller' = [caller EXCEPT ![d] = "over"]
     \/ Full /\ OnFull(d) /\ UNCHANGED ch
  /\ fate' = [fate EXCEPT ![d] = {}]
  /\ UNCHANGED <<main, at, drains, hand, early>>

\* dlqFromDoc: an error is logged and the document is lost.
DeadLetter(d) == Goes(d, {"dead"}) \/ (DeadLetterFails /\ Goes(d, {"lost"}))

IndexDeadLetter(d) ==
  /\ Alive /\ caller[d] = "letter"
  /\ DeadLetter(d)
  /\ caller' = [caller EXCEPT ![d] = "over"]
  /\ UNCHANGED <<main, ch, at, drains, hand, early>>

-------------------------------------------------------------------------------
(* The workers *)

Take(w) ==
  /\ ch # <<>>
  /\ hand' = [hand EXCEPT ![w] = Head(ch)]
  /\ ch' = Tail(ch)
  /\ Goto(w, "send")

\* The loop that worker w is in.
Loop(w) == IF w \in drains THEN "drain" ELSE "select"

\* Either branch of the select when both are ready.
WorkerTakes(w) ==
  /\ Alive /\ at[w] = "select"
  /\ Take(w)
  /\ UNCHANGED <<main, drains, caller, fate, early>>

\* Mutant of OnClosed: the worker returns at once.
OnClosedReturns(w) == Goto(w, "done") /\ UNCHANGED drains

OnClosed(w) == Goto(w, "drain") /\ drains' = drains \cup {w}

WorkerCloses(w) ==
  /\ Alive /\ at[w] = "select" /\ closed
  /\ OnClosed(w)
  /\ UNCHANGED <<main, ch, hand, caller, fate, early>>

\* len(i.ch) > 0: another worker may empty the channel before this one takes.
DrainLooks(w) ==
  /\ Alive /\ at[w] = "drain"
  /\ Goto(w, IF ch = <<>> THEN "done" ELSE "take")
  /\ UNCHANGED <<main, ch, drains, hand, caller, fate, early>>

DrainTakes(w) ==
  /\ Alive /\ at[w] = "take"
  /\ Take(w) \/ (ch = <<>> /\ Goto(w, "done") /\ UNCHANGED <<ch, hand>>)
  /\ UNCHANGED <<main, drains, caller, fate, early>>

LetsGo(w) == Goto(w, Loop(w)) /\ hand' = [hand EXCEPT ![w] = None]

\* Mutant of OnError: the document goes back into the channel, to be sent again.
OnErrorRequeues(w) == Len(ch) < Cap /\ ch' = Append(ch, hand[w]) /\ LetsGo(w)

OnError(w) == Goto(w, "letter") /\ UNCHANGED <<ch, hand>>

\* client.Index: with an error the document may be in the index all the same.
Send(w) ==
  /\ Alive /\ at[w] = "send"
  /\ \/ /\ Goes(hand[w], {"indexed"}) /\ LetsGo(w)
        /\ UNCHANGED ch
     \/ /\ ElasticFails /\ OnError(w)
        /\ UNCHANGED fate \/ Goes(hand[w], {"indexed"})
  /\ UNCHANGED <<main, drains, caller, early>>

WorkerDeadLetter(w) ==
  /\ Alive /\ at[w] = "letter"
  /\ DeadLetter(hand[w])
  /\ LetsGo(w)
  /\ UNCHANGED <<main, ch, drains, caller, early>>

-------------------------------------------------------------------------------
(* app.Run *)

Start ==
  /\ main = "starting"
  /\ main' = "running"
  /\ at' = [w \in Workers |-> "select"]
  /\ UNCHANGED <<ch, drains, hand, caller, fate, early>>

\* A signal came: Stop closes `closed`.
Close ==
  /\ main = "running"
  /\ main' = "stopping"
  /\ early' = {ch[i] : i \in DOMAIN ch} \cup ({hand[w] : w \in Workers} \ {None})
  /\ UNCHANGED <<ch, at, drains, hand, caller, fate>>

\* Mutant of WaitOver: Stop waits for one worker.
WaitOverForOne == \E w \in Workers : at[w] = "done"

WaitOver == \A w \in Workers : at[w] = "done"

\* wg.Wait has no time limit; Stop does not look at its context.
StopReturns ==
  /\ main = "stopping" /\ WaitOver
  /\ main' = "stopped"
  /\ UNCHANGED <<ch, at, drains, hand, caller, fate, early>>

\* The process ends, at the end of Run or by a crash or an error of the start.
End ==
  /\ Alive
  /\ main' = "down"
  /\ UNCHANGED <<ch, at, drains, hand, caller, fate, early>>

-------------------------------------------------------------------------------
Worker(w) == WorkerTakes(w) \/ WorkerCloses(w) \/ DrainLooks(w) \/ DrainTakes(w)
               \/ Send(w) \/ WorkerDeadLetter(w)

Next ==
  \/ \E d \in Docs : Index(d) \/ IndexDeadLetter(d)
  \/ \E w \in Workers : Worker(w)
  \/ Start \/ Close \/ StopReturns \/ End

Spec == Init /\ [][Next]_vars

\* Workers, handlers and Run go on, Elasticsearch and the disk answer; nothing makes
\* a handler call Index, or the process stop.
FairSpec ==
  /\ Spec
  /\ \A w \in Workers : WF_vars(Worker(w))
  /\ \A d \in Docs : WF_vars(IndexDeadLetter(d))
  /\ WF_vars(Start) /\ WF_vars(StopReturns)

-------------------------------------------------------------------------------
(* Properties *)

\* Every variable keeps to its type.
TypeOK ==
  /\ main \in Phases
  /\ ch \in Seq(Docs) /\ Len(ch) <= Cap
  /\ at \in [Workers -> Steps]
  /\ drains \subseteq Workers
  /\ hand \in [Workers -> Docs \cup {None}]
  /\ caller \in [Docs -> {"none", "letter", "over"}]
  /\ fate \in [Docs -> SUBSET {"indexed", "dead", "lost"}]
  /\ early \subseteq Docs

Has(s, d) == \E i \in DOMAIN s : s[i] = d

NoRepeat(s) == \A i, j \in DOMAIN s : s[i] = s[j] => i = j

\* A document for which Index returned is not forgotten: it is in the channel or in a
\* worker's hand, or it went somewhere; and no document is held twice.
DocumentIsSomewhere ==
  /\ NoRepeat(ch)
  /\ \A v, w \in Workers : hand[v] = hand[w] /\ hand[w] # None => v = w
  /\ \A d \in Docs :
        /\ ~(Has(ch, d) /\ InHand(d))
        /\ caller[d] = "over" => Has(ch, d) \/ InHand(d) \/ fate[d] # {}

\* After Stop nothing that was accepted before it is left in memory: it was indexed,
\* or is in the dead-letter file, or could not be written there.
StopDrains == main = "stopped" => \A d \in early : fate[d] # {}

Promise == INSTANCE Outbox WITH
  phase    <- main,
  spilling <- {d \in Docs : caller[d] = "letter"},
  answered <- {d \in Docs : caller[d] = "over"},
  gone     <- {d \in Docs : fate[d] # {}},
  due      <- early

\* Channel, workers, drain and dead letters add up to one box: a document is answered
\* for, bypasses the index only while Cap others wait for it, is gone for good when it
\* was sent or written off, and Stop returns when all that it found waiting is gone.
OutboxSpec == Promise!Spec

\* A document that Index took is sent, or written off, while the process lives and
\* the workers run, and also when Stop begins before its turn.
DocumentsSettle ==
  \A d \in Docs :
    (main = "running" /\ caller[d] # "none") ~> (fate[d] # {} \/ ~Alive)

\* Once the handlers fall silent Stop returns, unless the process dies: neither dead
\* letters nor two workers that race for the last document keep it.  Before that it need
\* not return: a worker drains while there is something in the channel, and nothing keeps
\* the handlers from calling Index until Run closes NATS, which it does after Stop.
StopEnds ==
  <>[][\A d \in Docs : ~Index(d)]_vars
    => (main = "stopping" ~> main \in {"stopped", "down"})
===============================================================================
