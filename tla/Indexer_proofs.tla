---------------------------- MODULE Indexer_proofs ----------------------------
(***************************************************************************)
(* For any number of documents and workers and any capacity: no document   *)
(* is forgotten or there twice, and Stop drains the channel.               *)
(*                                                                         *)
(* That Stop drains rests on one fact (DrainInv): a worker only ends when  *)
(* it has seen the channel empty after `closed`, and what is put into the  *)
(* channel later is not among the documents that Stop found there.  That   *)
(* the indexer is the box of Outbox, and that a name serves again only     *)
(* when its document is nowhere, rests on what the channel holds being     *)
(* different documents, none of them gone (UnsentInv).                     *)
(***************************************************************************)
EXTENDS Indexer, TLAPS

\* A worker has a document exactly between taking it and being done with it.
HandInv == \A w \in Workers : hand[w] # None <=> at[w] \in {"send", "letter"}

\* Index has returned for what is in the channel, in a hand, or was when Stop began.
CallInv == \A d \in Docs : Has(ch, d) \/ InHand(d) \/ d \in early => caller[d] = "over"

DrainInv ==
  /\ main = "starting" => \A w \in Workers : at[w] = "off"
  /\ main = "stopped" => \A w \in Workers : at[w] = "done"
  /\ \A w \in Workers :
        /\ at[w] \in {"drain", "take", "done"} \/ w \in drains =>
              main \notin {"starting", "running"}
        /\ at[w] = "done" => \A d \in early : ~Has(ch, d)

\* What is in the channel was never sent, and nothing went anywhere before its Index
\* returned.
UnsentInv == \A d \in Docs : Has(ch, d) \/ caller[d] # "over" => fate[d] = {}

IInv == TypeOK /\ HandInv /\ CallInv /\ DrainInv /\ DocumentIsSomewhere /\ UnsentInv

-------------------------------------------------------------------------------
(* The channel *)

\* Sending to the channel adds the document at its end and nothing else.
LEMMA Sent ==
  ASSUME NEW S, NEW s \in Seq(S), NEW x \in S
  PROVE  /\ Append(s, x) \in Seq(S) /\ Len(Append(s, x)) = Len(s) + 1
         /\ \A d : Has(Append(s, x), d) <=> Has(s, d) \/ d = x
         /\ NoRepeat(s) /\ ~Has(s, x) => NoRepeat(Append(s, x))
<1> DEFINE t == Append(s, x)
<1>1. /\ t \in Seq(S) /\ Len(t) = Len(s) + 1 /\ Len(s) \in Nat
      /\ DOMAIN s = 1..Len(s) /\ DOMAIN t = 1..(Len(s) + 1)
      /\ \A i \in 1..Len(s) : t[i] = s[i]
      /\ t[Len(s) + 1] = x
  OBVIOUS
<1>2. /\ \A i \in DOMAIN t : i \in DOMAIN s \/ i = Len(s) + 1
      /\ \A i \in DOMAIN s : i \in DOMAIN t /\ t[i] = s[i]
      /\ Len(s) + 1 \in DOMAIN t
  BY <1>1
<1> HIDE DEF t
<1>3. \A d : Has(t, d) <=> Has(s, d) \/ d = x
  BY <1>1, <1>2 DEF Has
<1>4. NoRepeat(s) /\ ~Has(s, x) => NoRepeat(t)
  BY <1>1, <1>2 DEF Has, NoRepeat
<1>5. QED
  BY <1>1, <1>3, <1>4 DEF t

\* Receiving takes the first document and leaves the others.
LEMMA Received ==
  ASSUME NEW S, NEW s \in Seq(S), s # <<>>
  PROVE  /\ Tail(s) \in Seq(S) /\ Len(Tail(s)) = Len(s) - 1 /\ Head(s) \in S
         /\ Has(s, Head(s))
         /\ \A d : Has(Tail(s), d) => Has(s, d)
         /\ \A d : Has(s, d) => Has(Tail(s), d) \/ d = Head(s)
         /\ NoRepeat(s) => NoRepeat(Tail(s)) /\ ~Has(Tail(s), Head(s))
<1> DEFINE t == Tail(s)
           h == Head(s)
<1>1. /\ t \in Seq(S) /\ Len(t) = Len(s) - 1 /\ Len(s) \in Nat /\ Len(s) >= 1
      /\ DOMAIN s = 1..Len(s) /\ DOMAIN t = 1..(Len(s) - 1)
      /\ \A i \in 1..(Len(s) - 1) : t[i] = s[i + 1]
      /\ h = s[1] /\ h \in S
  OBVIOUS
<1> HIDE DEF t, h
<1>2. /\ 1 \in DOMAIN s
      /\ \A i \in DOMAIN t : i \in Nat /\ i + 1 \in DOMAIN s /\ i + 1 # 1 /\ t[i] = s[i + 1]
  BY <1>1
<1>3. \A i \in DOMAIN s : i # 1 => i - 1 \in DOMAIN t /\ t[i - 1] = s[i]
  <2>1. \A i \in 1..Len(s) : i # 1 => i - 1 \in 1..(Len(s) - 1) /\ (i - 1) + 1 = i
    BY <1>1
  <2>2. QED
    BY <1>1, <2>1
<1>4. Has(s, h) /\ \A d : Has(t, d) => Has(s, d)
  BY <1>1, <1>2 DEF Has
<1>5. \A d : Has(s, d) => Has(t, d) \/ d = h
  BY <1>1, <1>3 DEF Has
<1>6. ASSUME NoRepeat(s)
      PROVE  NoRepeat(t) /\ ~Has(t, h)
  <2>1. \A i, j \in DOMAIN t : t[i] = t[j] => i + 1 = j + 1
    BY <1>2, <1>6 DEF NoRepeat
  <2>2. \A i, j \in DOMAIN t : i + 1 = j + 1 => i = j
    BY <1>2
  <2>3. ~Has(t, h)
    BY <1>1, <1>2, <1>6 DEF NoRepeat, Has
  <2>4. QED
    BY <2>1, <2>2, <2>3 DEF NoRepeat
<1>7. QED
  BY <1>1, <1>4, <1>5, <1>6 DEF t, h

-------------------------------------------------------------------------------
(* The invariant *)

\* The initial state satisfies the invariant.
LEMMA InitInv == Init => IInv
<1> SUFFICES ASSUME Init
             PROVE  IInv
  OBVIOUS
<1> USE DEF Init
<1>1. ch \in Seq(Docs) /\ Len(ch) <= Cap /\ DOMAIN ch = {}
  BY CapAssumption
<1>2. TypeOK
  BY <1>1 DEF TypeOK, Phases, Steps
<1>3. NoRepeat(ch) /\ \A d : ~Has(ch, d)
  BY <1>1 DEF NoRepeat, Has
<1>4. \A d \in Docs : ~InHand(d)
  BY NoneAssumption DEF InHand
<1>5. HandInv /\ CallInv /\ DrainInv /\ DocumentIsSomewhere /\ UnsentInv
  BY <1>3, <1>4 DEF HandInv, CallInv, DrainInv, DocumentIsSomewhere, UnsentInv
<1>6. QED
  BY <1>2, <1>5 DEF IInv

\* A free name is nowhere in memory.
LEMMA FreeIsNowhere ==
  ASSUME IInv, NEW d \in Docs, Free(d)
  PROVE  ~Has(ch, d) /\ ~InHand(d) /\ d \notin early /\ caller[d] # "letter"
BY DEF IInv, Free, CallInv, UnsentInv

\* A handler's call of Index keeps the invariant: the document is new to everyone.
LEMMA IndexKeeps ==
  ASSUME IInv, NEW d \in Docs, Index(d)
  PROVE  IInv'
<1> USE DEF IInv
<1>1. ~Has(ch, d) /\ ~InHand(d) /\ d \notin early
  BY FreeIsNowhere DEF Index
<1>2. UNCHANGED <<main, at, drains, hand, early>> /\ \A e \in Docs : InHand(e)' <=> InHand(e)
  BY DEF Index, InHand
<1>3. /\ fate' \in [Docs -> SUBSET {"indexed", "dead", "lost"}]
      /\ fate'[d] = {} /\ \A e \in Docs : e # d => fate'[e] = fate[e]
  BY DEF Index, TypeOK
<1>4. CASE ~Full /\ ch' = Append(ch, d) /\ caller' = [caller EXCEPT ![d] = "over"]
  <2>1. /\ ch' \in Seq(Docs) /\ Len(ch') = Len(ch) + 1
        /\ \A e : Has(ch', e) <=> Has(ch, e) \/ e = d
        /\ NoRepeat(ch')
    BY <1>1, <1>4, Sent DEF TypeOK, DocumentIsSomewhere
  <2>2. Len(ch') <= Cap
    BY <1>4, <2>1, CapAssumption DEF TypeOK, Full
  <2>3. TypeOK'
    BY <1>2, <1>3, <1>4, <2>1, <2>2 DEF TypeOK
  <2>4. HandInv' /\ CallInv' /\ DrainInv'
    BY <1>1, <1>2, <1>4, <2>1 DEF HandInv, CallInv, DrainInv, TypeOK
  <2>5. DocumentIsSomewhere' /\ UnsentInv'
    BY <1>1, <1>2, <1>3, <1>4, <2>1 DEF DocumentIsSomewhere, UnsentInv, TypeOK
  <2>6. QED
    BY <2>3, <2>4, <2>5
<1>5. CASE OnFull(d) /\ UNCHANGED ch
  <2>1. caller' = [caller EXCEPT ![d] = "letter"]
    BY <1>5 DEF OnFull
  <2>2. TypeOK' /\ HandInv' /\ DrainInv'
    BY <1>2, <1>3, <1>5, <2>1 DEF TypeOK, HandInv, DrainInv
  <2>3. CallInv' /\ DocumentIsSomewhere' /\ UnsentInv'
    BY <1>1, <1>2, <1>3, <1>5, <2>1 DEF CallInv, DocumentIsSomewhere, UnsentInv, TypeOK
  <2>4. QED
    BY <2>2, <2>3
<1>6. QED
  BY <1>4, <1>5 DEF Index

\* What a dead letter does to a document: it has gone somewhere.
LEMMA LetterGoes ==
  ASSUME TypeOK, NEW d \in Docs, DeadLetter(d)
  PROVE  /\ fate' \in [Docs -> SUBSET {"indexed", "dead", "lost"}]
         /\ fate'[d] # {}
         /\ \A e \in Docs : fate[e] # {} => fate'[e] # {}
         /\ \A e \in Docs : e # d => fate'[e] = fate[e]
<1>1. PICK where \in SUBSET {"dead", "lost"} :
        where # {} /\ fate' = [fate EXCEPT ![d] = @ \cup where]
  <2>1. {"dead"} \in SUBSET {"dead", "lost"} /\ {"lost"} \in SUBSET {"dead", "lost"}
    OBVIOUS
  <2>2. Goes(d, {"dead"}) \/ Goes(d, {"lost"})
    BY DEF DeadLetter
  <2>3. QED
    BY <2>1, <2>2 DEF Goes
<1>2. fate \in [Docs -> SUBSET {"indexed", "dead", "lost"}]
  BY DEF TypeOK
<1>3. fate[d] \cup where \in SUBSET {"indexed", "dead", "lost"} /\ fate[d] \cup where # {}
  BY <1>1, <1>2
<1>4. QED
  BY <1>1, <1>2, <1>3

\* The handler's own dead letter keeps the invariant.
LEMMA HandlerLetterKeeps ==
  ASSUME IInv, NEW d \in Docs, IndexDeadLetter(d)
  PROVE  IInv'
<1> USE DEF IInv
<1>1. UNCHANGED <<main, ch, at, drains, hand, early>> /\ \A e \in Docs : InHand(e)' <=> InHand(e)
  BY DEF IndexDeadLetter, InHand
<1>2. caller' = [caller EXCEPT ![d] = "over"]
  BY DEF IndexDeadLetter
<1>3. /\ fate' \in [Docs -> SUBSET {"indexed", "dead", "lost"}]
      /\ fate'[d] # {}
      /\ \A e \in Docs : fate[e] # {} => fate'[e] # {}
      /\ \A e \in Docs : e # d => fate'[e] = fate[e]
  BY LetterGoes DEF IndexDeadLetter
<1>4. TypeOK'
  BY <1>1, <1>2, <1>3 DEF TypeOK
<1>5. HandInv' /\ CallInv' /\ DrainInv' /\ DocumentIsSomewhere'
  BY <1>1, <1>2, <1>3 DEF HandInv, CallInv, DrainInv, DocumentIsSomewhere, TypeOK
<1>6. UnsentInv'
  <2>1. ~Has(ch, d)
    BY DEF IndexDeadLetter, CallInv
  <2>2. QED
    BY <1>1, <1>2, <1>3, <2>1 DEF UnsentInv, TypeOK
<1>7. QED
  BY <1>4, <1>5, <1>6

\* A worker that takes the next document keeps the invariant: it passes from the
\* channel into the one hand.
LEMMA TakeKeeps ==
  ASSUME IInv, NEW w \in Workers, at[w] \in {"select", "take"}, Take(w),
         UNCHANGED <<main, drains, caller, fate, early>>
  PROVE  IInv'
<1> USE DEF IInv
<1> DEFINE h == Head(ch)
<1>1. ch # <<>> /\ ch' = Tail(ch) /\ hand' = [hand EXCEPT ![w] = h]
      /\ at' = [at EXCEPT ![w] = "send"]
  BY DEF Take, Goto
<1>2. /\ ch' \in Seq(Docs) /\ Len(ch') = Len(ch) - 1 /\ h \in Docs /\ Has(ch, h)
      /\ \A d : Has(ch', d) => Has(ch, d)
      /\ \A d : Has(ch, d) => Has(ch', d) \/ d = h
      /\ NoRepeat(ch') /\ ~Has(ch', h)
  BY <1>1, Received DEF TypeOK, DocumentIsSomewhere
<1> HIDE DEF h
<1>3. hand[w] = None /\ ~InHand(h) /\ h # None
  BY <1>2, NoneAssumption DEF HandInv, DocumentIsSomewhere
<1>4. \A d \in Docs : InHand(d)' <=> InHand(d) \/ d = h
  BY <1>1, <1>3, NoneAssumption DEF InHand, TypeOK
<1>5. Len(ch) \in Nat /\ Len(ch) <= Cap /\ Cap \in Nat
  BY CapAssumption DEF TypeOK
<1>6. Len(ch') <= Cap
  BY <1>2, <1>5
<1>7. TypeOK'
  BY <1>1, <1>2, <1>6 DEF TypeOK, Steps
<1>8. HandInv' /\ CallInv' /\ DrainInv' /\ UnsentInv'
  BY <1>1, <1>2, <1>3, <1>4 DEF HandInv, CallInv, DrainInv, UnsentInv, TypeOK
<1>9. DocumentIsSomewhere'
  <2>1. \A u, v \in Workers : hand'[u] = hand'[v] /\ hand'[v] # None => u = v
    BY <1>1, <1>2, <1>3 DEF DocumentIsSomewhere, InHand, TypeOK
  <2>2. QED
    BY <1>1, <1>2, <1>3, <1>4, <2>1 DEF DocumentIsSomewhere
<1>10. QED
  BY <1>7, <1>8, <1>9

\* A worker that goes from one step to another without its document, its channel or
\* anything else changing keeps the invariant, if it ends only on an empty channel.
LEMMA MoveKeeps ==
  ASSUME IInv, NEW w \in Workers, NEW s \in {"drain", "take", "letter", "done"},
         at[w] # "off", at[w] # "done",
         hand[w] # None <=> s = "letter",
         s # "letter" => main \notin {"starting", "running"},
         s = "done" => ch = <<>>,
         at' = [at EXCEPT ![w] = s],
         drains' = drains \/ (s # "letter" /\ drains' = drains \cup {w}),
         UNCHANGED <<main, ch, hand, caller, early>>,
         fate' = fate \/ (hand[w] # None /\ Goes(hand[w], {"indexed"}))
  PROVE  IInv'
<1> USE DEF IInv
<1>1. \A d \in Docs : InHand(d)' <=> InHand(d)
  BY DEF InHand
<1>2. /\ fate' \in [Docs -> SUBSET {"indexed", "dead", "lost"}]
      /\ \A d \in Docs : fate[d] # {} => fate'[d] # {}
      /\ \A d \in Docs : ~InHand(d) => fate'[d] = fate[d]
  BY DEF TypeOK, Goes, InHand
<1>3. ch = <<>> => \A d : ~Has(ch, d)
  BY DEF Has
<1>4. TypeOK'
  BY <1>2 DEF TypeOK, Steps
<1>5. HandInv'
  BY DEF HandInv, TypeOK
<1>6. CallInv' /\ DocumentIsSomewhere' /\ UnsentInv'
  BY <1>1, <1>2 DEF CallInv, DocumentIsSomewhere, UnsentInv
<1>7. DrainInv'
  BY <1>3 DEF DrainInv, TypeOK, closed
<1>8. QED
  BY <1>4, <1>5, <1>6, <1>7

\* A worker that is done with its document, because it went somewhere, keeps the
\* invariant.
LEMMA LetsGoKeeps ==
  ASSUME IInv, NEW w \in Workers, at[w] \in {"send", "letter"}, LetsGo(w),
         UNCHANGED <<main, ch, drains, caller, early>>,
         fate' \in [Docs -> SUBSET {"indexed", "dead", "lost"}],
         fate'[hand[w]] # {}, \A e \in Docs : fate[e] # {} => fate'[e] # {},
         \A e \in Docs : e # hand[w] => fate'[e] = fate[e]
  PROVE  IInv'
<1> USE DEF IInv
<1>1. hand[w] # None /\ hand[w] \in Docs
  BY DEF HandInv, TypeOK
<1>2. hand' = [hand EXCEPT ![w] = None]
      /\ at' = [at EXCEPT ![w] = Loop(w)] /\ Loop(w) \in {"drain", "select"}
  BY DEF LetsGo, Goto, Loop
<1>3. \A d \in Docs : InHand(d)' => InHand(d)
  BY <1>2, NoneAssumption DEF InHand, TypeOK
<1>4. \A d \in Docs : InHand(d) => InHand(d)' \/ d = hand[w]
  BY <1>2 DEF InHand, TypeOK
<1>5. TypeOK'
  BY <1>2 DEF TypeOK, Steps
<1>6. HandInv' /\ CallInv' /\ DrainInv'
  <2>1. HandInv'
    BY <1>2 DEF HandInv, TypeOK
  <2>2. CallInv'
    BY <1>3 DEF CallInv
  <2>3. Loop(w) = "drain" => w \in drains
    BY DEF Loop
  <2>4. at[w] # "off" /\ at[w] # "done"
    OBVIOUS
  <2>5. DrainInv'
    BY <1>2, <2>3, <2>4 DEF DrainInv, TypeOK
  <2>6. QED
    BY <2>1, <2>2, <2>5
<1>7. DocumentIsSomewhere'
  <2>1. \A u, v \in Workers : hand'[u] = hand'[v] /\ hand'[v] # None => u = v
    BY <1>2 DEF DocumentIsSomewhere, TypeOK
  <2>2. QED
    BY <1>3, <1>4, <2>1 DEF DocumentIsSomewhere
<1>8. UnsentInv'
  <2>1. ~Has(ch, hand[w]) /\ caller[hand[w]] = "over"
    BY <1>1 DEF DocumentIsSomewhere, CallInv, InHand
  <2>2. QED
    BY <2>1 DEF UnsentInv
<1>9. QED
  BY <1>5, <1>6, <1>7, <1>8

\* A worker's step keeps the invariant.
LEMMA WorkerKeeps ==
  ASSUME IInv, NEW w \in Workers, Worker(w)
  PROVE  IInv'
<1> USE DEF IInv
<1>1. CASE WorkerTakes(w)
  BY <1>1, TakeKeeps DEF WorkerTakes
<1>2. CASE WorkerCloses(w)
  <2>1. hand[w] = None
    BY <1>2 DEF WorkerCloses, HandInv
  <2>2. /\ at' = [at EXCEPT ![w] = "drain"] /\ drains' = drains \cup {w}
        /\ main \notin {"starting", "running"}
    BY <1>2 DEF WorkerCloses, OnClosed, Goto, closed
  <2>3. QED
    BY <1>2, <2>1, <2>2, MoveKeeps DEF WorkerCloses
<1>3. CASE DrainLooks(w)
  <2>1. hand[w] = None /\ main \notin {"starting", "running"}
    BY <1>3 DEF DrainLooks, HandInv, DrainInv
  <2>2. CASE ch = <<>>
    BY <1>3, <2>1, <2>2, MoveKeeps DEF DrainLooks, Goto
  <2>3. CASE ch # <<>>
    BY <1>3, <2>1, <2>3, MoveKeeps DEF DrainLooks, Goto
  <2>4. QED
    BY <2>2, <2>3
<1>4. CASE DrainTakes(w)
  <2>1. CASE Take(w)
    BY <1>4, <2>1, TakeKeeps DEF DrainTakes
  <2>2. CASE ch = <<>> /\ Goto(w, "done") /\ UNCHANGED <<ch, hand>>
    <3>1. hand[w] = None /\ main \notin {"starting", "running"}
      BY <1>4 DEF DrainTakes, HandInv, DrainInv
    <3>2. QED
      BY <1>4, <2>2, <3>1, MoveKeeps DEF DrainTakes, Goto
  <2>3. QED
    BY <1>4, <2>1, <2>2 DEF DrainTakes
<1>5. CASE Send(w)
  <2>1. hand[w] # None /\ hand[w] \in Docs
    BY <1>5 DEF Send, HandInv, TypeOK
  <2>2. CASE Goes(hand[w], {"indexed"}) /\ LetsGo(w) /\ UNCHANGED ch
    <3>1. /\ fate' \in [Docs -> SUBSET {"indexed", "dead", "lost"}]
          /\ fate'[hand[w]] # {}
          /\ \A e \in Docs : fate[e] # {} => fate'[e] # {}
          /\ \A e \in Docs : e # hand[w] => fate'[e] = fate[e]
      BY <2>1, <2>2 DEF Goes, TypeOK
    <3>2. QED
      BY <1>5, <2>2, <3>1, LetsGoKeeps DEF Send
  <2>3. CASE OnError(w) /\ (UNCHANGED fate \/ Goes(hand[w], {"indexed"}))
    BY <1>5, <2>1, <2>3, MoveKeeps DEF Send, OnError, Goto
  <2>4. QED
    BY <1>5, <2>2, <2>3 DEF Send
<1>6. CASE WorkerDeadLetter(w)
  <2>1. hand[w] \in Docs
    BY <1>6 DEF WorkerDeadLetter, HandInv, TypeOK
  <2>2. QED
    BY <1>6, <2>1, LetterGoes, LetsGoKeeps DEF WorkerDeadLetter
<1>7. QED
  BY <1>1, <1>2, <1>3, <1>4, <1>5, <1>6 DEF Worker

\* The steps of Run keep the invariant: Stop finds in memory only what Index accepted.
LEMMA RunKeeps ==
  ASSUME IInv, Start \/ Close \/ StopReturns \/ End
  PROVE  IInv'
<1> USE DEF IInv
<1>1. /\ UNCHANGED <<ch, drains, hand, caller, fate>>
      /\ main' \in {"running", "stopping", "stopped", "down"}
  BY DEF Start, Close, StopReturns, End
<1>2. \A d \in Docs : InHand(d)' <=> InHand(d)
  BY <1>1 DEF InHand
<1>3. CASE Start
  <2>1. main = "starting" /\ main' = "running" /\ at' = [w \in Workers |-> "select"]
        /\ UNCHANGED early /\ \A w \in Workers : at[w] = "off" /\ w \notin drains
    BY <1>3 DEF Start, DrainInv
  <2>2. TypeOK' /\ HandInv' /\ DrainInv'
    BY <1>1, <2>1 DEF TypeOK, Phases, Steps, HandInv, DrainInv
  <2>3. CallInv' /\ DocumentIsSomewhere' /\ UnsentInv'
    BY <1>1, <1>2, <2>1 DEF CallInv, DocumentIsSomewhere, UnsentInv
  <2>4. QED
    BY <2>2, <2>3
<1>4. CASE Close
  <2>1. /\ main = "running" /\ main' = "stopping" /\ UNCHANGED at
        /\ early' = {ch[i] : i \in DOMAIN ch} \cup ({hand[w] : w \in Workers} \ {None})
        /\ \A w \in Workers : at[w] # "done"
    BY <1>4 DEF Close, DrainInv
  <2>2. \A i \in DOMAIN ch : ch[i] \in Docs
    BY DEF TypeOK
  <2>3. early' \subseteq Docs /\ \A d \in early' : Has(ch, d) \/ InHand(d)
    BY <2>1, <2>2 DEF TypeOK, Has, InHand
  <2>4. TypeOK' /\ HandInv' /\ DrainInv'
    BY <1>1, <2>1, <2>3 DEF TypeOK, Phases, HandInv, DrainInv
  <2>5. CallInv' /\ DocumentIsSomewhere' /\ UnsentInv'
    BY <1>1, <1>2, <2>1, <2>3 DEF CallInv, DocumentIsSomewhere, UnsentInv
  <2>6. QED
    BY <2>4, <2>5
<1>5. CASE StopReturns \/ End
  <2>1. /\ UNCHANGED <<at, early>>
        /\ main' \in {"stopped", "down"}
        /\ main' = "stopped" => main = "stopping" /\ \A w \in Workers : at[w] = "done"
    BY <1>5 DEF StopReturns, End, WaitOver
  <2>2. TypeOK' /\ HandInv' /\ DrainInv'
    BY <1>1, <2>1 DEF TypeOK, Phases, HandInv, DrainInv
  <2>3. CallInv' /\ DocumentIsSomewhere' /\ UnsentInv'
    BY <1>1, <1>2, <2>1 DEF CallInv, DocumentIsSomewhere, UnsentInv
  <2>4. QED
    BY <2>2, <2>3
<1>6. QED
  BY <1>3, <1>4, <1>5

\* Every step keeps the invariant.
LEMMA NextKeeps == IInv /\ [Next]_vars => IInv'
<1> SUFFICES ASSUME IInv, [Next]_vars
             PROVE  IInv'
  OBVIOUS
<1>1. CASE Next
  BY <1>1, IndexKeeps, HandlerLetterKeeps, WorkerKeeps, RunKeeps DEF Next
<1>2. CASE UNCHANGED vars
  <2>1. UNCHANGED <<main, ch, at, drains, hand, caller, fate, early>>
        /\ \A d \in Docs : InHand(d)' <=> InHand(d)
    BY <1>2 DEF vars, InHand
  <2>2. QED
    BY <2>1 DEF IInv, TypeOK, HandInv, CallInv, DrainInv, DocumentIsSomewhere, UnsentInv
<1>3. QED
  BY <1>1, <1>2

\* The invariant holds in every reachable state.
THEOREM Invariance == Spec => []IInv
<1>1. QED
  BY InitInv, NextKeeps, PTL DEF Spec

-------------------------------------------------------------------------------
(* What it says *)

\* The channel never holds more than its capacity, and every variable keeps to its type.
THEOREM TypeCorrect == Spec => []TypeOK
<1>1. IInv => TypeOK
  BY DEF IInv
<1>2. QED
  BY <1>1, Invariance, PTL

\* A document for which Index returned is in the channel, in one worker's hand, or went
\* somewhere, however handlers, workers and Stop interleave.
THEOREM NothingForgotten == Spec => []DocumentIsSomewhere
<1>1. IInv => DocumentIsSomewhere
  BY DEF IInv
<1>2. QED
  BY <1>1, Invariance, PTL

\* When Stop has returned, whatever it found in memory was indexed or written off.
THEOREM StopDrainsAll == Spec => []StopDrains
<1>1. IInv => StopDrains
  <2> SUFFICES ASSUME IInv, main = "stopped", NEW d \in early
               PROVE  fate[d] # {}
    BY DEF StopDrains
  <2>1. \A w \in Workers : at[w] = "done" /\ hand[w] = None
    BY DEF IInv, DrainInv, HandInv
  <2>2. d \in Docs /\ d # None
    BY NoneAssumption DEF IInv, TypeOK
  <2>3. ~InHand(d)
    BY <2>1, <2>2 DEF InHand
  <2>4. ~Has(ch, d)
    BY <2>1, WorkersAssumption DEF IInv, DrainInv
  <2>5. QED
    BY <2>2, <2>3, <2>4 DEF IInv, CallInv, DocumentIsSomewhere
<1>2. QED
  BY <1>1, Invariance, PTL
-------------------------------------------------------------------------------
(* The indexer implements Outbox *)

spilling == {d \in Docs : caller[d] = "letter"}
answered == {d \in Docs : caller[d] = "over"}
gone     == {d \in Docs : fate[d] # {}}

\* The abstract state depends on `main`, `caller`, `fate` and `early` alone.
LEMMA SameBox ==
  ASSUME UNCHANGED <<main, caller, early>>, \A d \in Docs : fate'[d] # {} <=> fate[d] # {}
  PROVE  UNCHANGED Promise!vars
<1>1. gone' = gone
  BY DEF gone
<1>2. QED
  BY <1>1 DEF Promise!vars, gone

\* A call of Index accepts the document, or spills it while the channel is full of
\* others that wait.
LEMMA IndexPromised ==
  ASSUME IInv, NEW d \in Docs, Index(d)
  PROVE  Promise!Next
<1> USE DEF IInv, TypeOK
<1>1. /\ UNCHANGED <<main, early>> /\ main # "down"
      /\ fate' = [fate EXCEPT ![d] = {}]
  BY DEF Index, Alive
<1>2. gone' = gone \ {d}
  BY <1>1 DEF gone
<1>3. d \in Docs \ (spilling \cup (answered \ gone) \cup early)
  <2>1. Free(d)
    BY DEF Index
  <2>2. d \notin early /\ caller[d] # "letter"
    BY <2>1, FreeIsNowhere
  <2>3. caller[d] = "over" => fate[d] # {}
    BY <2>1 DEF Free
  <2>4. QED
    BY <2>2, <2>3 DEF spilling, answered, gone
<1>4. CASE ~Full /\ ch' = Append(ch, d) /\ caller' = [caller EXCEPT ![d] = "over"]
  <2>1. answered' = answered \cup {d} /\ UNCHANGED spilling
    BY <1>3, <1>4 DEF answered, spilling
  <2>2. Promise!Accept(d)
    BY <1>1, <1>2, <1>3, <2>1 DEF Promise!Accept, Promise!Alive, Promise!New,
                                  Promise!Waiting, spilling, answered, gone
  <2>3. QED
    BY <2>2 DEF Promise!Next
<1>5. CASE Full /\ OnFull(d) /\ UNCHANGED ch
  <2>1. caller' = [caller EXCEPT ![d] = "letter"]
    BY <1>5 DEF OnFull
  <2>2. spilling' = spilling \cup {d} /\ answered' = answered \ {d}
    BY <2>1 DEF answered, spilling
  <2>3. Len(ch) = Cap /\ DOMAIN ch = 1..Cap
    BY <1>5, CapAssumption DEF Full
  <2>4. ch \in [1..Cap -> answered \ gone]
    <3>1. \A i \in 1..Cap : ch[i] \in Docs /\ Has(ch, ch[i])
      BY <2>3 DEF Has
    <3>2. \A i \in 1..Cap : ch[i] \in answered \ gone
      BY <3>1 DEF UnsentInv, CallInv, answered, gone
    <3>3. QED
      BY <2>3, <3>2
  <2>5. \A i, j \in 1..Cap : ch[i] = ch[j] => i = j
    BY <2>3 DEF DocumentIsSomewhere, NoRepeat
  <2>6. Promise!Spill(d)
    BY <1>1, <1>2, <1>3, <2>2, <2>4, <2>5 DEF Promise!Spill, Promise!Alive, Promise!New,
                                              Promise!Waiting, spilling, answered, gone
  <2>7. QED
    BY <2>6 DEF Promise!Next
<1>6. QED
  BY <1>4, <1>5 DEF Index

\* A handler's dead letter writes the document off.
LEMMA LetterPromised ==
  ASSUME IInv, NEW d \in Docs, IndexDeadLetter(d)
  PROVE  Promise!Next
<1> USE DEF IInv, TypeOK
<1>1. /\ UNCHANGED <<main, early>> /\ main # "down" /\ caller[d] = "letter"
      /\ caller' = [caller EXCEPT ![d] = "over"]
  BY DEF IndexDeadLetter, Alive
<1>2. fate'[d] # {} /\ \A e \in Docs : e # d => fate'[e] = fate[e]
  BY LetterGoes DEF IndexDeadLetter
<1>3. /\ spilling' = spilling \ {d} /\ answered' = answered \cup {d} /\ gone' = gone \cup {d}
      /\ d \in spilling
  BY <1>1, <1>2 DEF spilling, answered, gone
<1>4. Promise!WriteOff(d)
  BY <1>1, <1>3 DEF Promise!WriteOff, Promise!Alive, spilling, answered, gone
<1>5. QED
  BY <1>4 DEF Promise!Next

\* Whatever a worker does to the document in its hand settles it, or leaves it as it is.
LEMMA HandPromised ==
  ASSUME IInv, NEW d \in Docs, InHand(d), Alive, main # "starting",
         UNCHANGED <<main, caller, early>>,
         \A e \in Docs : e # d => fate'[e] = fate[e],
         fate[d] # {} => fate'[d] # {}
  PROVE  [Promise!Next]_Promise!vars
<1> USE DEF IInv, TypeOK
<1>1. CASE fate[d] = {} /\ fate'[d] # {}
  <2>1. caller[d] = "over"
    BY DEF CallInv
  <2>2. /\ gone' = gone \cup {d} /\ d \in answered \ gone /\ UNCHANGED <<spilling, answered>>
    BY <1>1, <2>1 DEF gone, answered, spilling
  <2>3. Promise!Settle(d)
    BY <2>2 DEF Promise!Settle, Promise!Alive, Promise!Waiting, Alive, spilling, answered, gone
  <2>4. QED
    BY <2>3 DEF Promise!Next
<1>2. CASE fate'[d] # {} <=> fate[d] # {}
  BY <1>2, SameBox
<1>3. QED
  BY <1>1, <1>2

\* A worker's step settles its document, or is none of the box.
LEMMA WorkerPromised ==
  ASSUME IInv, NEW w \in Workers, Worker(w)
  PROVE  [Promise!Next]_Promise!vars
<1> USE DEF IInv, TypeOK
<1>1. /\ UNCHANGED <<main, caller, early>> /\ main # "starting" /\ Alive
  BY DEF Worker, WorkerTakes, WorkerCloses, DrainLooks, DrainTakes, Send, WorkerDeadLetter,
         DrainInv
<1>2. CASE WorkerTakes(w) \/ WorkerCloses(w) \/ DrainLooks(w) \/ DrainTakes(w)
  <2>1. UNCHANGED fate
    BY <1>2 DEF WorkerTakes, WorkerCloses, DrainLooks, DrainTakes
  <2>2. QED
    BY <1>1, <2>1, SameBox
<1>3. CASE Send(w) \/ WorkerDeadLetter(w)
  <2> DEFINE d == hand[w]
  <2>1. d \in Docs /\ InHand(d)
    BY <1>3 DEF Send, WorkerDeadLetter, HandInv, InHand
  <2>2. /\ \A e \in Docs : e # d => fate'[e] = fate[e]
        /\ fate[d] # {} => fate'[d] # {}
    <3>1. UNCHANGED fate \/ \E where : fate' = [fate EXCEPT ![d] = @ \cup where]
      BY <1>3 DEF Send, WorkerDeadLetter, DeadLetter, Goes
    <3>2. QED
      BY <2>1, <3>1
  <2> HIDE DEF d
  <2>3. QED
    BY <1>1, <2>1, <2>2, HandPromised
<1>4. QED
  BY <1>2, <1>3 DEF Worker

\* The steps of Run are those of the box: what Stop finds in memory is all that waits,
\* and when it returns that is gone.
LEMMA RunPromised ==
  ASSUME IInv, Start \/ Close \/ StopReturns \/ End
  PROVE  Promise!Next
<1> USE DEF IInv, TypeOK
<1>1. UNCHANGED <<caller, fate>> /\ UNCHANGED <<spilling, answered, gone>>
  BY DEF Start, Close, StopReturns, End, spilling, answered, gone
<1>2. CASE Start
  <2>1. Promise!Open
    BY <1>1, <1>2 DEF Start, Promise!Open, spilling, answered, gone
  <2>2. QED
    BY <2>1 DEF Promise!Next
<1>3. CASE Close
  <2>1. early' = {ch[i] : i \in DOMAIN ch} \cup ({hand[w] : w \in Workers} \ {None})
    BY <1>3 DEF Close
  <2>2. \A d \in Docs : d \in early' <=> Has(ch, d) \/ InHand(d)
    BY <2>1, NoneAssumption DEF Has, InHand
  <2>3. early' \subseteq Docs
    BY <2>1
  <2>4. early' \in {S \in SUBSET answered : answered \ gone \subseteq S}
    BY <2>2, <2>3 DEF CallInv, DocumentIsSomewhere, answered, gone
  <2>5. Promise!Close
    BY <1>1, <1>3, <2>4 DEF Close, Promise!Close, Promise!Waiting, spilling, answered, gone
  <2>6. QED
    BY <2>5 DEF Promise!Next
<1>4. CASE StopReturns
  <2>1. \A w \in Workers : at[w] = "done" /\ hand[w] = None
    BY <1>4 DEF StopReturns, WaitOver, HandInv
  <2>2. \A d \in early : ~Has(ch, d) /\ ~InHand(d)
    BY <2>1, WorkersAssumption, NoneAssumption DEF DrainInv, InHand
  <2>3. early \subseteq gone
    BY <2>2 DEF CallInv, DocumentIsSomewhere, gone
  <2>4. Promise!Return
    BY <1>1, <1>4, <2>3 DEF StopReturns, Promise!Return, spilling, answered, gone
  <2>5. QED
    BY <2>4 DEF Promise!Next
<1>5. CASE End
  BY <1>1, <1>5 DEF End, Alive, Promise!Next, Promise!End, Promise!Alive,
                          spilling, answered, gone
<1>6. QED
  BY <1>2, <1>3, <1>4, <1>5

\* Every step of the indexer is a step of the box, or none that it shows.
LEMMA StepPromised == IInv /\ [Next]_vars => [Promise!Next]_Promise!vars
<1> SUFFICES ASSUME IInv, [Next]_vars
             PROVE  [Promise!Next]_Promise!vars
  OBVIOUS
<1>1. CASE Next
  BY <1>1, IndexPromised, LetterPromised, WorkerPromised, RunPromised DEF Next
<1>2. CASE UNCHANGED vars
  BY <1>2, SameBox DEF vars
<1>3. QED
  BY <1>1, <1>2

\* For any capacity, workers and documents: the channel, the workers that race for it,
\* their drain and the dead letters add up to the box of Outbox.
THEOREM OutboxImplemented == Spec => OutboxSpec
<1>1. Init => Promise!Init
  BY DEF Init, Promise!Init
<1>2. QED
  BY <1>1, StepPromised, Invariance, PTL DEF Spec, OutboxSpec, Promise!Spec
===============================================================================
