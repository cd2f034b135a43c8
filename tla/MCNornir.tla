------------------------------- MODULE MCNornir -------------------------------
(* Nornir on small instances. *)
EXTENDS Nornir, TLC

\* Daemons are interchangeable.  For instances with more rows and faults, where
\* no liveness is checked.
Symmetry == Permutations(Daemons)
===============================================================================
