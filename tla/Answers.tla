------------------------------ MODULE Answers ------------------------------
(* The three sources of answers that are cut to a size: the documentation     *)
(* search, the Kubernetes queries and what the voice agent shows on the       *)
(* dashboard. They run in processes of their own and share nothing, so that a *)
(* behaviour in which one of them works and the others have not begun shows   *)
(* all that each can do.                                                      *)
EXTENDS RagSearch, KubernetesQueries, ArgusContent

Init == RagInit /\ KubeInit /\ ContentInit

RagMoves ==
  /\ query = NoQuery /\ payload = NoPayload
  /\ RagNext
  /\ UNCHANGED <<query, payload>>

Others == RagInit /\ stored = <<>> /\ UNCHANGED ragVars

KubeMoves ==
  /\ Others /\ payload = NoPayload
  /\ KubeNext
  /\ UNCHANGED payload

ContentMoves ==
  /\ Others /\ query = NoQuery
  /\ ContentNext
  /\ UNCHANGED query

Next == RagMoves \/ KubeMoves \/ ContentMoves

vars == <<ragVars, query, payload>>

Spec == Init /\ [][Next]_vars
=============================================================================
