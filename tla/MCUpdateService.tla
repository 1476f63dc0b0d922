---------------------------- MODULE MCUpdateService ----------------------------
(***************************************************************************)
(* An instance of UpdateService for TLC: requests for one operation.       *)
(***************************************************************************)
EXTENDS UpdateService, TLC

CONSTANT o1

OneOperation == [r \in Requests |-> o1]

UploadAndCancel == {"upload", "cancel"}

NoTransitions == {}

Names == Permutations(Requests) \cup Permutations(Accepts)

\* The state without the columns that are written and never read, neither by an action
\* nor by a property: two states with one view have the same future.
Observed == <<req, pc, copy, rows, staged, published,
              dispatch, next, source, commands, unacked, consumer, bus,
              step, command, accepted, active, disk, at, receiving, received, file, inHand>>
===============================================================================
