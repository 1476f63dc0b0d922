---------------------------- MODULE MCNodeRegistry ----------------------------
(***************************************************************************)
(* An instance of NodeRegistry for TLC: a worker w that is restarted, and  *)
(* an entry node x.                                                        *)
(***************************************************************************)
EXTENDS NodeRegistry

CONSTANTS w, x, w1, w2, x1

TheNodes == [p \in Processes |-> IF p = x1 THEN x ELSE w]

TheRoles == [p \in Processes |-> IF p = x1 THEN "entry" ELSE "worker"]

\* The second life of w outlasts the samples of the first and one error.
TheBeats == [p \in Processes |-> IF p = w2 THEN 3 ELSE 1]
===============================================================================
