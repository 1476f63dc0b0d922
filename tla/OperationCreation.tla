--------------------------- MODULE OperationCreation ---------------------------
(***************************************************************************)
(* POST /operations: how the rows that OperationLifecycle works on come to *)
(* be, and the table of idempotency keys next to them.                     *)
(*                                                                         *)
(* Lookup, insert, audit entry and key are four calls with no transaction  *)
(* around them; of their errors only that of the insert is looked at.  The *)
(* operation that a request creates is named by the request.               *)
(***************************************************************************)
EXTENDS OperationRow, Integers

CONSTANTS Keys,      \* Idempotency-Key headers
          Policies,  \* retry_policy.max_attempts of the bodies
          Schemas,   \* which values of `fits` there are
          CallsFail, \* MariaDB may return errors
          NodesStop  \* entry nodes may stop

ASSUME PoliciesAssumption == Policies \subseteq Int

ASSUME FlagsAssumption == {CallsFail, NodesStop} \cup Schemas \subseteq BOOLEAN

VARIABLES
  ask,     \* the key, the defects and the policy of each request
  fits,    \* whether MariaDB takes the statements on idempotency_keys: see Init
  pc,      \* the next call of each request
  reply,   \* the status of its response,
  answer,  \* and the operation in it
  rows,    \* table operations
  budget,  \* its column max_attempts
  facts,   \* the operations with an OperationCreated entry in the audit log
  keys     \* table idempotency_keys

request == <<pc, reply, answer>>
tables  == <<rows, budget, facts, keys>>
vars == <<ask, fits, request, tables>>

-------------------------------------------------------------------------------
Defects == {"type", "key", "json", "fields"}

Ask == [key : Keys, defects : SUBSET Defects, policy : Policies \cup {None}]

\* `coats` counts how often the response was encoded.
Entry == [op : Requests, coats : Nat, expired : BOOLEAN]

ASSUME NoneAssumption == None \notin Policies /\ None # CreatedRow /\ None \notin Entry

\* The statements name a column `key`, a reserved word and not the schema's name of
\* it: ~fits is the program as deployed, fits the same use case on a table that it
\* fits.
Init ==
  /\ ask \in [Requests -> Ask]
  /\ fits \in Schemas
  /\ pc = [r \in Requests |-> "receive"]
  /\ reply = [r \in Requests |-> 0]
  /\ answer = [r \in Requests |-> None]
  /\ rows = [r \in Requests |-> None]
  /\ budget = [r \in Requests |-> 3]
  /\ facts = {}
  /\ keys = [k \in Keys |-> None]

Goto(r, s) == pc' = [pc EXCEPT ![r] = s]

Respond(r, status, op) ==
  /\ reply' = [reply EXCEPT ![r] = IF @ = 0 THEN status ELSE @]
  /\ answer' = [answer EXCEPT ![r] = IF reply[r] = 0 THEN op ELSE @]

Silent == UNCHANGED <<reply, answer>>

\* The middleware, then the checks of the handler in their order.
Refusal(d) ==
  IF "type" \in d THEN 415 ELSE IF d \cap {"key", "json"} # {} THEN 400 ELSE 422

\* Mutant of Refuse: a `return` is missing.
RefuseGoesOn(r) == Respond(r, Refusal(ask[r].defects), None) /\ Goto(r, "lookup")

Refuse(r) == Respond(r, Refusal(ask[r].defects), None) /\ Goto(r, "over")

Receive(r) ==
  /\ pc[r] = "receive"
  /\ IF ask[r].defects # {} THEN Refuse(r) ELSE Silent /\ Goto(r, "lookup")
  /\ UNCHANGED <<ask, fits, tables>>

\* Get's WHERE clause, and Unmarshal into the output: one coat is taken off.
Replayable(k) == keys[k] # None /\ ~keys[k].expired /\ keys[k].coats = 1

\* An error, a miss and an undecodable entry all lead to a new operation.
Lookup(r) ==
  /\ pc[r] = "lookup"
  /\ \E works \in {fits, fits /\ ~CallsFail} :
       IF works /\ Replayable(ask[r].key)
       THEN Respond(r, 202, keys[ask[r].key].op) /\ Goto(r, "over")
       ELSE Silent /\ Goto(r, "create")
  /\ UNCHANGED <<ask, fits, tables>>

\* Mutant of Budget: the policy is taken as it comes.
BudgetAsAsked(policy) == IF policy = None THEN 3 ELSE policy

Budget(policy) == IF policy # None /\ policy > 0 THEN policy ELSE 3

\* Mutant of OnCreateError: the error is dropped like the others.
OnCreateErrorGoesOn(r) == Silent /\ Goto(r, "append")

OnCreateError(r) == Respond(r, 500, None) /\ Goto(r, "over")

Insert(r) ==
  /\ rows' = [rows EXCEPT ![r] = CreatedRow]
  /\ budget' = [budget EXCEPT ![r] = Budget(ask[r].policy)]

Create(r) ==
  /\ pc[r] = "create"
  /\ \/ Insert(r) /\ Silent /\ Goto(r, "append")
     \/ CallsFail /\ OnCreateError(r) /\ (Insert(r) \/ UNCHANGED <<rows, budget>>)
  /\ UNCHANGED <<ask, fits, facts, keys>>

AppendEvent(r) ==
  /\ pc[r] = "append"
  /\ facts' = facts \cup {r} \/ (CallsFail /\ UNCHANGED facts)
  /\ Goto(r, "store") /\ Silent
  /\ UNCHANGED <<ask, fits, rows, budget, keys>>

\* Mutant of Coats: Store takes the bytes as they are.
CoatsOne == 1

\* Execute encodes the output, and Store encodes the string it is given.
Coats == 2

StoreKey(r) ==
  keys' = [keys EXCEPT ![ask[r].key] = [op |-> r, coats |-> Coats, expired |-> FALSE]]

Store(r) ==
  /\ pc[r] = "store"
  /\ (fits /\ StoreKey(r)) \/ ((CallsFail \/ ~fits) /\ UNCHANGED keys)
  /\ Respond(r, 202, r) /\ Goto(r, "over")
  /\ UNCHANGED <<ask, fits, rows, budget, facts>>

\* expires_at passes; the entry stays and no longer matches.
Expire(k) ==
  /\ keys[k] # None /\ ~keys[k].expired
  /\ keys' = [keys EXCEPT ![k].expired = TRUE]
  /\ UNCHANGED <<ask, fits, request, rows, budget, facts>>

\* The entry node stops, or the client is gone: nobody hears the reply.
Abandon(r) ==
  /\ NodesStop /\ pc[r] \notin {"receive", "over"}
  /\ Goto(r, "over") /\ Silent
  /\ UNCHANGED <<ask, fits, tables>>

Next ==
  \/ \E r \in Requests : Receive(r) \/ Lookup(r) \/ Create(r) \/ AppendEvent(r)
                           \/ Store(r) \/ Abandon(r)
  \/ \E k \in Keys : Expire(k)

Spec == Init /\ [][Next]_vars

-------------------------------------------------------------------------------
(* Properties *)

\* Every variable keeps to its type, and every budget is positive.
TypeOK ==
  /\ ask \in [Requests -> Ask] /\ fits \in BOOLEAN
  /\ pc \in [Requests -> {"receive", "lookup", "create", "append", "store", "over"}]
  /\ reply \in [Requests -> {0, 202, 400, 415, 422, 500}]
  /\ answer \in [Requests -> Requests \cup {None}]
  /\ rows \in [Requests -> {CreatedRow, None}]
  /\ budget \in [Requests -> Nat \ {0}]
  /\ facts \subseteq Requests
  /\ keys \in [Keys -> Entry \cup {None}]

\* A request that was accepted names an operation that exists, and one that was
\* created under the key it carries.
AcceptedNamesRow ==
  \A r \in Requests :
    reply[r] = 202 =>
      answer[r] # None /\ rows[answer[r]] # None /\ ask[answer[r]].key = ask[r].key

\* A request that the middleware or the handler refused left no trace.
RefusedLeavesNothing ==
  \A r \in Requests :
    reply[r] \in {400, 415, 422} =>
      rows[r] = None /\ r \notin facts /\ \A k \in Keys : keys[k] # None => keys[k].op # r

\* The audit log and the keys speak of operations that exist, although no transaction
\* joins the three tables and the calls may fail one by one.
TraceNamesRow ==
  /\ \A r \in facts : rows[r] # None
  /\ \A k \in Keys : keys[k] # None => rows[keys[k].op] # None /\ ask[keys[k].op].key = k

\* Every accepted request is answered with an operation of its own, and never with that
\* of an earlier request under its key: no stored response is ever decoded again, not
\* even by a lookup that works on a table that fits.
EveryAcceptanceCreates == \A r \in Requests : reply[r] = 202 => answer[r] = r

\* "request fingerprint replay guard": until its entry has expired, a key stands for
\* one operation.
OneOperationPerKey ==
  \A r, q \in Requests :
    LET k == ask[r].key IN
      reply[r] = 202 /\ reply[q] = 202 /\ k = ask[q].key /\ (keys[k] = None \/ ~keys[k].expired)
        => answer[r] = answer[q]
===============================================================================
