------------------------- MODULE MCOperationLifecycle -------------------------
(***************************************************************************)
(* Instances of OperationLifecycle for TLC: sets of request kinds and of   *)
(* status changes by outside callers, and the symmetry of names that no    *)
(* guard tells apart.                                                      *)
(***************************************************************************)
EXTENDS OperationLifecycle, FiniteSets, TLC

\* The requests that the deployed system can serve to the end.
UploadAndCancel == {"upload", "cancel"}

\* Uploads, and worker events in the spelling that the coordinator decodes.
UploadAndReports == {"upload"} \cup Reports

\* A dispatched operation fails by another client's hand, and may be retried.
WithRetries == {"upload", "cancel", "retry"}
DispatchedFails == {<<"DISPATCHED", "FAILED">>}

NoTransitions == {}

\* Two uploads race, so that there is a dispatch before and after a retry; the
\* other requests retry or cancel.
RetryInit == Init /\ Cardinality({r \in Requests : req[r].kind = "upload"}) = 2
RetrySpec == RetryInit /\ [][Next]_vars

Names == Permutations(Requests) \cup Permutations(Nodes)
===============================================================================
