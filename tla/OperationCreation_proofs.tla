----------------------- MODULE OperationCreation_proofs -----------------------
(***************************************************************************)
(* For any number of requests and keys, with failing calls and stops: an   *)
(* accepted request names an operation of its own key, a refused one left  *)
(* nothing behind, and neither log nor keys speak of a missing operation.  *)
(*                                                                         *)
(* The three follow from how far each request may be (CourseInv): only a   *)
(* request without a defect gets past the handler, and only with its row   *)
(* inserted past the insert, since that error alone is looked at.  That no *)
(* request is ever answered with the operation of another follows from the *)
(* way the entries are encoded (ReplayInv).                                *)
(***************************************************************************)
EXTENDS OperationCreation, TLAPS

CourseInv ==
  \A r \in Requests :
    /\ pc[r] # "over" => reply[r] = 0
    /\ pc[r] \in {"lookup", "create", "append", "store"} => ask[r].defects = {}
    /\ pc[r] \in {"append", "store"} => rows[r] # None
    /\ rows[r] # None => ask[r].defects = {}
    /\ reply[r] \in {400, 415, 422} => ask[r].defects # {}

IInv == TypeOK /\ CourseInv /\ TraceNamesRow /\ AcceptedNamesRow

-------------------------------------------------------------------------------
\* The initial state satisfies the invariant.
LEMMA InitInv == Init => IInv
<1> SUFFICES ASSUME Init
             PROVE  IInv
  OBVIOUS
<1> USE DEF Init
<1>1. TypeOK
  BY FlagsAssumption DEF TypeOK
<1>2. CourseInv /\ TraceNamesRow /\ AcceptedNamesRow
  BY DEF CourseInv, TraceNamesRow, AcceptedNamesRow
<1>3. QED
  BY <1>1, <1>2 DEF IInv

\* A budget is positive, whatever the policy says.
LEMMA BudgetPositive ==
  ASSUME NEW policy \in Policies \cup {None}
  PROVE  Budget(policy) \in Nat \ {0}
BY PoliciesAssumption DEF Budget

\* The row and the entries that the program writes are not NULL.
LEMMA Written ==
  /\ CreatedRow # None
  /\ \A e \in Entry : e # None
  /\ \A r \in Requests : r # None
BY NoneAssumption, RequestsAssumption

\* A first answer is the one that is given.
LEMMA Answers ==
  ASSUME TypeOK, NEW r \in Requests, reply[r] = 0, NEW status, NEW op, Respond(r, status, op)
  PROVE  /\ reply' = [reply EXCEPT ![r] = status]
         /\ answer' = [answer EXCEPT ![r] = op]
BY DEF Respond, TypeOK

-------------------------------------------------------------------------------
(* The steps *)

\* A request is refused for a defect, or goes on without one.
LEMMA ReceiveKeeps ==
  ASSUME IInv, NEW r \in Requests, Receive(r)
  PROVE  IInv'
<1> USE DEF IInv
<1>1. reply[r] = 0 /\ pc[r] = "receive" /\ UNCHANGED <<ask, fits, rows, budget, facts, keys>>
  BY DEF Receive, CourseInv, tables
<1>2. CASE ask[r].defects # {} /\ Refuse(r)
  <2> DEFINE status == Refusal(ask[r].defects)
  <2>1. status \in {400, 415, 422}
    BY DEF Refusal
  <2> HIDE DEF status
  <2>2. /\ reply' = [reply EXCEPT ![r] = status] /\ answer' = [answer EXCEPT ![r] = None]
        /\ pc' = [pc EXCEPT ![r] = "over"]
    BY <1>1, <1>2, Answers DEF Refuse, Goto, status
  <2>3. TypeOK'
    BY <1>1, <2>1, <2>2 DEF TypeOK
  <2>4. CourseInv'
    BY <1>1, <1>2, <2>1, <2>2 DEF CourseInv, TypeOK
  <2>5. TraceNamesRow' /\ AcceptedNamesRow'
    BY <1>1, <2>1, <2>2 DEF TraceNamesRow, AcceptedNamesRow, TypeOK
  <2>6. QED
    BY <2>3, <2>4, <2>5
<1>3. CASE ask[r].defects = {} /\ Silent /\ Goto(r, "lookup")
  <2>1. UNCHANGED <<reply, answer>> /\ pc' = [pc EXCEPT ![r] = "lookup"]
    BY <1>3 DEF Silent, Goto
  <2>2. TypeOK' /\ CourseInv'
    BY <1>1, <1>3, <2>1 DEF TypeOK, CourseInv
  <2>3. TraceNamesRow' /\ AcceptedNamesRow'
    BY <1>1, <2>1 DEF TraceNamesRow, AcceptedNamesRow
  <2>4. QED
    BY <2>2, <2>3
<1>4. QED
  BY <1>2, <1>3 DEF Receive

\* A replay answers with the operation that the key's entry names.
LEMMA LookupKeeps ==
  ASSUME IInv, NEW r \in Requests, Lookup(r)
  PROVE  IInv'
<1> USE DEF IInv
<1>1. /\ reply[r] = 0 /\ pc[r] = "lookup" /\ ask[r].defects = {}
      /\ UNCHANGED <<ask, fits, rows, budget, facts, keys>>
  BY DEF Lookup, CourseInv, tables
<1>2. CASE Replayable(ask[r].key) /\ Respond(r, 202, keys[ask[r].key].op) /\ Goto(r, "over")
  <2> DEFINE k == ask[r].key
             op == keys[k].op
  <2>1. k \in Keys /\ keys[k] # None
    BY <1>2 DEF TypeOK, Ask, Replayable
  <2>2. op \in Requests /\ rows[op] # None /\ ask[op].key = k
    BY <2>1 DEF TypeOK, Entry, TraceNamesRow
  <2>3. /\ reply' = [reply EXCEPT ![r] = 202] /\ answer' = [answer EXCEPT ![r] = op]
        /\ pc' = [pc EXCEPT ![r] = "over"]
    BY <1>1, <1>2, Answers DEF Goto
  <2>4. TypeOK' /\ CourseInv' /\ TraceNamesRow'
    BY <1>1, <2>2, <2>3 DEF TypeOK, CourseInv, TraceNamesRow
  <2>5. AcceptedNamesRow'
    BY <1>1, <2>2, <2>3, Written DEF AcceptedNamesRow, TypeOK
  <2>6. QED
    BY <2>4, <2>5
<1>3. CASE Silent /\ Goto(r, "create")
  <2>1. UNCHANGED <<reply, answer>> /\ pc' = [pc EXCEPT ![r] = "create"]
    BY <1>3 DEF Silent, Goto
  <2>2. TypeOK' /\ CourseInv'
    BY <1>1, <2>1 DEF TypeOK, CourseInv
  <2>3. TraceNamesRow' /\ AcceptedNamesRow'
    BY <1>1, <2>1 DEF TraceNamesRow, AcceptedNamesRow
  <2>4. QED
    BY <2>2, <2>3
<1>4. QED
  BY <1>2, <1>3 DEF Lookup

\* The insert makes a row of a request without a defect, or the request is over.
LEMMA CreateKeeps ==
  ASSUME IInv, NEW r \in Requests, Create(r)
  PROVE  IInv'
<1> USE DEF IInv
<1>1. /\ reply[r] = 0 /\ pc[r] = "create" /\ ask[r].defects = {}
      /\ UNCHANGED <<ask, fits, facts, keys>>
  BY DEF Create, CourseInv
<1>2. ask[r].policy \in Policies \cup {None}
  BY DEF TypeOK, Ask
<1>3. /\ rows' = [rows EXCEPT ![r] = CreatedRow] \/ UNCHANGED rows
      /\ UNCHANGED budget \/ budget' = [budget EXCEPT ![r] = Budget(ask[r].policy)]
  BY DEF Create, Insert
<1>4. \A q \in Requests : rows[q] # None => rows'[q] # None
  BY <1>3, Written DEF TypeOK
<1>5. \/ /\ pc' = [pc EXCEPT ![r] = "append"] /\ UNCHANGED <<reply, answer>>
         /\ rows' = [rows EXCEPT ![r] = CreatedRow]
      \/ /\ pc' = [pc EXCEPT ![r] = "over"]
         /\ reply' = [reply EXCEPT ![r] = 500] /\ answer' = [answer EXCEPT ![r] = None]
  BY <1>1, Answers DEF Create, OnCreateError, Silent, Goto, Insert
<1>6. TypeOK'
  BY <1>1, <1>2, <1>3, <1>5, BudgetPositive DEF TypeOK
<1>7. CourseInv'
  BY <1>1, <1>3, <1>5, Written DEF CourseInv, TypeOK
<1>8. TraceNamesRow'
  BY <1>1, <1>4 DEF TraceNamesRow, TypeOK, Entry
<1>9. AcceptedNamesRow'
  BY <1>1, <1>4, <1>5 DEF AcceptedNamesRow, TypeOK
<1>10. QED
  BY <1>6, <1>7, <1>8, <1>9

\* Audit entry and key come behind the row.
LEMMA TraceKeeps ==
  ASSUME IInv, NEW r \in Requests, AppendEvent(r) \/ Store(r)
  PROVE  IInv'
<1> USE DEF IInv
<1>1. /\ reply[r] = 0 /\ ask[r].defects = {} /\ rows[r] # None
      /\ UNCHANGED <<ask, fits, rows, budget>>
  BY DEF AppendEvent, Store, CourseInv
<1>2. ask[r].key \in Keys
  BY DEF TypeOK, Ask
<1>3. CASE AppendEvent(r)
  <2>1. /\ pc[r] = "append" /\ pc' = [pc EXCEPT ![r] = "store"]
        /\ UNCHANGED <<reply, answer, keys>>
        /\ facts' = facts \cup {r} \/ facts' = facts
    BY <1>3 DEF AppendEvent, Silent, Goto
  <2>2. TypeOK' /\ CourseInv'
    BY <1>1, <2>1 DEF TypeOK, CourseInv
  <2>3. TraceNamesRow' /\ AcceptedNamesRow'
    BY <1>1, <2>1 DEF TraceNamesRow, AcceptedNamesRow
  <2>4. QED
    BY <2>2, <2>3
<1>4. CASE Store(r)
  <2> DEFINE e == [op |-> r, coats |-> Coats, expired |-> FALSE]
  <2>1. e \in Entry /\ e.op = r
    BY DEF Entry, Coats
  <2>2. /\ pc' = [pc EXCEPT ![r] = "over"] /\ UNCHANGED facts
        /\ reply' = [reply EXCEPT ![r] = 202] /\ answer' = [answer EXCEPT ![r] = r]
        /\ keys' = [keys EXCEPT ![ask[r].key] = e] \/ keys' = keys
    BY <1>1, <1>4, Answers DEF Store, StoreKey, Goto
  <2> HIDE DEF e
  <2>3. TypeOK'
    BY <1>1, <2>1, <2>2 DEF TypeOK
  <2>4. CourseInv'
    BY <1>1, <2>2 DEF CourseInv, TypeOK
  <2>5. TraceNamesRow'
    BY <1>1, <1>2, <2>1, <2>2 DEF TraceNamesRow, TypeOK
  <2>6. AcceptedNamesRow'
    BY <1>1, <2>2, Written DEF AcceptedNamesRow, TypeOK
  <2>7. QED
    BY <2>3, <2>4, <2>5, <2>6
<1>5. QED
  BY <1>3, <1>4

\* An entry that expires names what it named; a request that ends leaves what there is.
LEMMA OtherKeeps ==
  ASSUME IInv
  PROVE  /\ \A k \in Keys : Expire(k) => IInv'
         /\ \A r \in Requests : Abandon(r) => IInv'
<1> USE DEF IInv
<1>1. ASSUME NEW k \in Keys, Expire(k)
      PROVE  IInv'
  <2>1. /\ UNCHANGED <<ask, fits, pc, reply, answer, rows, budget, facts>>
        /\ keys' = [keys EXCEPT ![k].expired = TRUE]
        /\ keys[k] \in Entry /\ keys[k] # None
    BY <1>1 DEF Expire, request, TypeOK
  <2>2. /\ keys' \in [Keys -> Entry \cup {None}]
        /\ \A l \in Keys : keys'[l] # None => keys[l] # None /\ keys'[l].op = keys[l].op
    <3> DEFINE e == [keys[k] EXCEPT !.expired = TRUE]
    <3>1. e \in Entry /\ e.op = keys[k].op
      BY <2>1 DEF Entry
    <3>2. keys' = [keys EXCEPT ![k] = e]
      BY <2>1
    <3> HIDE DEF e
    <3>3. keys'[k] = e /\ \A l \in Keys : l # k => keys'[l] = keys[l]
      BY <3>2 DEF TypeOK
    <3>4. keys' \in [Keys -> Entry \cup {None}]
      BY <3>1, <3>2 DEF TypeOK
    <3>5. QED
      BY <2>1, <3>1, <3>3, <3>4
  <2>3. TypeOK' /\ CourseInv'
    BY <2>1, <2>2 DEF TypeOK, CourseInv
  <2>4. TraceNamesRow' /\ AcceptedNamesRow'
    BY <2>1, <2>2 DEF TraceNamesRow, AcceptedNamesRow
  <2>5. QED
    BY <2>3, <2>4
<1>2. ASSUME NEW r \in Requests, Abandon(r)
      PROVE  IInv'
  <2>1. /\ UNCHANGED <<ask, fits, reply, answer, rows, budget, facts, keys>>
        /\ pc' = [pc EXCEPT ![r] = "over"]
    BY <1>2 DEF Abandon, Silent, Goto, tables
  <2>2. TypeOK' /\ CourseInv'
    BY <2>1 DEF TypeOK, CourseInv
  <2>3. TraceNamesRow' /\ AcceptedNamesRow'
    BY <2>1 DEF TraceNamesRow, AcceptedNamesRow
  <2>4. QED
    BY <2>2, <2>3
<1>3. QED
  BY <1>1, <1>2

\* Every step keeps the invariant.
LEMMA NextKeeps == IInv /\ [Next]_vars => IInv'
<1> SUFFICES ASSUME IInv, [Next]_vars
             PROVE  IInv'
  OBVIOUS
<1>1. CASE Next
  BY <1>1, ReceiveKeeps, LookupKeeps, CreateKeeps, TraceKeeps, OtherKeeps DEF Next
<1>2. CASE UNCHANGED vars
  <2>1. UNCHANGED <<ask, fits, pc, reply, answer, rows, budget, facts, keys>>
    BY <1>2 DEF vars, request, tables
  <2>2. QED
    BY <2>1 DEF IInv, TypeOK, CourseInv, TraceNamesRow, AcceptedNamesRow
<1>3. QED
  BY <1>1, <1>2

\* The invariant holds in every reachable state.
THEOREM Invariance == Spec => []IInv
<1>1. QED
  BY InitInv, NextKeeps, PTL DEF Spec

-------------------------------------------------------------------------------
(* What it says *)

\* Every variable keeps to its type, and every budget is positive.
THEOREM TypeCorrect == Spec => []TypeOK
<1>1. IInv => TypeOK
  BY DEF IInv
<1>2. QED
  BY <1>1, Invariance, PTL

\* An accepted request names an operation that exists and was created under its key.
THEOREM AcceptedNames == Spec => []AcceptedNamesRow
<1>1. IInv => AcceptedNamesRow
  BY DEF IInv
<1>2. QED
  BY <1>1, Invariance, PTL

\* Log and keys name operations that exist, although no transaction joins the tables.
THEOREM TraceNames == Spec => []TraceNamesRow
<1>1. IInv => TraceNamesRow
  BY DEF IInv
<1>2. QED
  BY <1>1, Invariance, PTL

\* No entry has the one coat that a replay takes off, so that the only answer with an
\* operation is that of Store, with the request's own.
ReplayInv ==
  /\ \A k \in Keys : keys[k] # None => keys[k].coats = 2
  /\ EveryAcceptanceCreates

\* A lookup finds nothing it could answer with.
LEMMA LookupMisses ==
  ASSUME IInv, ReplayInv, NEW r \in Requests, Lookup(r)
  PROVE  UNCHANGED <<reply, answer, keys>>
<1>1. ask[r].key \in Keys
  BY DEF IInv, TypeOK, Ask
<1>2. ~Replayable(ask[r].key)
  BY <1>1 DEF ReplayInv, Replayable
<1>3. QED
  BY <1>2 DEF Lookup, Silent, tables

\* Every step keeps ReplayInv.
LEMMA ReplayKeeps == IInv /\ ReplayInv /\ [Next]_vars => ReplayInv'
<1> SUFFICES ASSUME IInv, ReplayInv, [Next]_vars
             PROVE  ReplayInv'
  OBVIOUS
<1> USE DEF IInv
<1>1. ASSUME UNCHANGED <<reply, answer, keys>>
      PROVE  ReplayInv'
  BY <1>1 DEF ReplayInv, EveryAcceptanceCreates
<1>2. ASSUME NEW r \in Requests, NEW status \in {400, 415, 422, 500}, reply[r] = 0,
             Respond(r, status, None), UNCHANGED keys
      PROVE  ReplayInv'
  <2>1. reply' = [reply EXCEPT ![r] = status] /\ answer' = [answer EXCEPT ![r] = None]
    BY <1>2, Answers
  <2>2. QED
    BY <1>2, <2>1 DEF ReplayInv, EveryAcceptanceCreates, TypeOK
<1>3. ASSUME NEW r \in Requests, Receive(r)
      PROVE  ReplayInv'
  <2>1. reply[r] = 0 /\ UNCHANGED keys
    BY <1>3 DEF Receive, CourseInv, tables
  <2>2. Refusal(ask[r].defects) \in {400, 415, 422, 500}
    BY DEF Refusal
  <2>3. QED
    BY <1>1, <1>2, <1>3, <2>1, <2>2 DEF Receive, Refuse, Silent
<1>4. ASSUME NEW r \in Requests, Lookup(r)
      PROVE  ReplayInv'
  BY <1>1, <1>4, LookupMisses
<1>5. ASSUME NEW r \in Requests, Create(r)
      PROVE  ReplayInv'
  <2>1. reply[r] = 0 /\ UNCHANGED keys
    BY <1>5 DEF Create, CourseInv
  <2>2. QED
    BY <1>1, <1>2, <1>5, <2>1 DEF Create, OnCreateError, Silent
<1>6. ASSUME NEW r \in Requests, AppendEvent(r) \/ Abandon(r)
      PROVE  ReplayInv'
  BY <1>1, <1>6 DEF AppendEvent, Abandon, Silent, tables
<1>7. ASSUME NEW r \in Requests, Store(r)
      PROVE  ReplayInv'
  <2> DEFINE e == [op |-> r, coats |-> 2, expired |-> FALSE]
  <2>1. /\ reply' = [reply EXCEPT ![r] = 202] /\ answer' = [answer EXCEPT ![r] = r]
        /\ keys' = [keys EXCEPT ![ask[r].key] = e] \/ keys' = keys
    BY <1>7, Answers DEF Store, StoreKey, Coats, CourseInv
  <2>2. e.coats = 2
    OBVIOUS
  <2> HIDE DEF e
  <2>3. EveryAcceptanceCreates'
    BY <2>1 DEF ReplayInv, EveryAcceptanceCreates, TypeOK
  <2>4. \A k \in Keys : keys'[k] # None => keys'[k].coats = 2
    BY <2>1, <2>2 DEF ReplayInv, TypeOK
  <2>5. QED
    BY <2>3, <2>4 DEF ReplayInv
<1>8. ASSUME NEW k \in Keys, Expire(k)
      PROVE  ReplayInv'
  <2> DEFINE e == [keys[k] EXCEPT !.expired = TRUE]
  <2>1. /\ UNCHANGED <<reply, answer>> /\ keys' = [keys EXCEPT ![k] = e]
        /\ keys[k] \in Entry /\ keys[k].coats = 2
    BY <1>8 DEF Expire, request, TypeOK, ReplayInv
  <2>2. e.coats = 2
    BY <2>1 DEF Entry
  <2> HIDE DEF e
  <2>3. QED
    BY <2>1, <2>2 DEF ReplayInv, EveryAcceptanceCreates, TypeOK
<1>9. CASE UNCHANGED vars
  BY <1>1, <1>9 DEF vars, request, tables
<1>10. QED
  BY <1>3, <1>4, <1>5, <1>6, <1>7, <1>8, <1>9 DEF Next

\* Every accepted request got an operation of its own, whatever the schema, the faults
\* and the order of the calls: the table of keys never stops a repetition.
THEOREM NothingIsReplayed == Spec => []EveryAcceptanceCreates
<1>1. Init => ReplayInv
  BY DEF Init, ReplayInv, EveryAcceptanceCreates
<1>2. ReplayInv => EveryAcceptanceCreates
  BY DEF ReplayInv
<1>3. QED
  BY <1>1, <1>2, ReplayKeeps, Invariance, PTL DEF Spec

\* A refused request left neither row nor audit entry nor key.
THEOREM RefusalLeavesNothing == Spec => []RefusedLeavesNothing
<1>1. IInv => RefusedLeavesNothing
  <2> SUFFICES ASSUME IInv, NEW r \in Requests, reply[r] \in {400, 415, 422}
               PROVE  /\ rows[r] = None /\ r \notin facts
                      /\ \A k \in Keys : keys[k] # None => keys[k].op # r
    BY DEF RefusedLeavesNothing
  <2>1. rows[r] = None
    BY DEF IInv, CourseInv
  <2>2. QED
    BY <2>1 DEF IInv, TraceNamesRow
<1>2. QED
  BY <1>1, Invariance, PTL
===============================================================================
