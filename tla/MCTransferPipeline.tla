-------------------------- MODULE MCTransferPipeline --------------------------
(***************************************************************************)
(* Instances of TransferPipeline for TLC: how long the file of each        *)
(* transfer is, in chunks of two bytes, and whether two transfers are of   *)
(* one operation.                                                          *)
(***************************************************************************)
EXTENDS TransferPipeline, TLC

CONSTANTS t1, t2

OneOperation == [t \in Transfers |-> "o1"]

\* A file with a short last chunk and an empty one.
ThreeAndNone == [t \in Transfers |-> IF t = t1 THEN 3 ELSE 0]

Receivers == Permutations(Accepts)
===============================================================================
