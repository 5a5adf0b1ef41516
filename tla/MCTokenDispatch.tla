-------------------------- MODULE MCTokenDispatch --------------------------
(* TLC instance of TokenDispatch: requests, replicas and models are           *)
(* interchangeable.                                                           *)
EXTENDS TokenDispatch, TLC

Symmetry == Permutations(Requests) \cup Permutations(Replicas) \cup Permutations(Models)
=============================================================================
