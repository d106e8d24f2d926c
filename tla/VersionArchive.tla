--------------------------- MODULE VersionArchive --------------------------
(***************************************************************************)
(* What document uploads promise: a document is a growing sequence of      *)
(* uploads, each appended once and in one step, and an upload is           *)
(* acknowledged only after it was appended.                                *)
(***************************************************************************)
EXTENDS Sequences, Naturals

CONSTANTS
  Uploads,    \* upload requests
  Documents   \* identities a document can have

VARIABLES
  history,      \* history[d]: the uploads stored as document d, oldest first
  acknowledged  \* uploads answered with success

vars == <<history, acknowledged>>

Stored == UNION {{history[d][n] : n \in 1..Len(history[d])} : d \in Documents}

Init ==
  /\ history = [d \in Documents |-> << >>]
  /\ acknowledged = {}

Store(u, d) ==
  /\ u \notin Stored
  /\ history' = [history EXCEPT ![d] = Append(@, u)]
  /\ UNCHANGED acknowledged

Acknowledge(u) ==
  /\ u \in Stored \ acknowledged
  /\ acknowledged' = acknowledged \cup {u}
  /\ UNCHANGED history

Next ==
  \/ \E u \in Uploads, d \in Documents : Store(u, d)
  \/ \E u \in Uploads : Acknowledge(u)

Spec == Init /\ [][Next]_vars

=============================================================================
