------------------------------- MODULE MCLabels -------------------------------
(* Labels on small instances; rooms and sessions are interchangeable. *)
EXTENDS Labels, TLC

Symmetry == Permutations(RoomNames) \union Permutations(Sessions)
===============================================================================
