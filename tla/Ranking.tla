------------------------------ MODULE Ranking ------------------------------
(* What a stable sort followed by a slice keeps, as a set of positions: how   *)
(* the servers under src/files/ai-platform cut an answer to its limit. The    *)
(* order is given as the set of pairs <<i, j>> with row i before row j.       *)
EXTENDS Integers, FiniteSets

(* A stable sort: what is above comes first, and equals stay as they were.    *)
Sorted(rows, Above(_, _)) ==
  {ij \in rows \X rows :
     Above(ij[1], ij[2]) \/ (~Above(ij[2], ij[1]) /\ ij[1] < ij[2])}

(* Without a sort.                                                            *)
InOrder(rows) == Sorted(rows, LAMBDA i, j : FALSE)

(* sort(key=score, reverse=True)                                              *)
ByScore(rows, score) == Sorted(rows, LAMBDA i, j : score[i] > score[j])

Place(rows, before, i) == Cardinality({j \in rows : <<j, i>> \in before})

(* How many of n rows Python's rows[:k] has; a negative k counts from the     *)
(* end.                                                                       *)
SliceLength(n, k) ==
  IF k >= 0 THEN IF k < n THEN k ELSE n
  ELSE IF n + k > 0 THEN n + k ELSE 0

Kept(rows, before, k) ==
  {i \in rows : Place(rows, before, i) < SliceLength(Cardinality(rows), k)}
=============================================================================
