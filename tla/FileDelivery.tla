----------------------------- MODULE FileDelivery -----------------------------
(***************************************************************************)
(* What the worker promises of a staging file: it only fills up, with the  *)
(* chunks of a single body; a chunk is recorded when the file has it; a    *)
(* sealed file is the announced one, and stays as it is.                   *)
(***************************************************************************)
CONSTANTS Transfers,
          ChunksOf(_)   \* the chunks of a transfer

Chunks == UNION {ChunksOf(t) : t \in Transfers}

Bodies == {"announced", "other"}

VARIABLES content, recorded, sealed

vars == <<content, recorded, sealed>>

Init ==
  /\ content = [c \in Chunks |-> "blank"]
  /\ recorded = {}
  /\ sealed = {}

Fill(t, c, body) ==
  /\ c \in ChunksOf(t)
  /\ content[c] = "blank"
  /\ \A d \in ChunksOf(t) : content[d] \in {"blank", body}
  /\ content' = [content EXCEPT ![c] = body]
  /\ UNCHANGED <<recorded, sealed>>

Record(c) ==
  /\ content[c] # "blank"
  /\ recorded' = recorded \cup {c}
  /\ UNCHANGED <<content, sealed>>

Seal(t) ==
  /\ \A c \in ChunksOf(t) : content[c] = "announced"
  /\ sealed' = sealed \cup {t}
  /\ UNCHANGED <<content, recorded>>

Next ==
  \E t \in Transfers :
    \/ \E c \in ChunksOf(t) : Record(c) \/ \E body \in Bodies : Fill(t, c, body)
    \/ Seal(t)

Spec == Init /\ [][Next]_vars
===============================================================================
