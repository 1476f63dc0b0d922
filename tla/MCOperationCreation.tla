-------------------------- MODULE MCOperationCreation --------------------------
(***************************************************************************)
(* An instance of OperationCreation for TLC.                               *)
(***************************************************************************)
EXTENDS OperationCreation, TLC

\* Below, at and above the boundary of the budget.
ThePolicies == {-1, 0, 5}

Interchangeable == Permutations(Requests) \cup Permutations(Keys)
===============================================================================
