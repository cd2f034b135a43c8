---------------------------- MODULE MCModelRegistry ----------------------------
(* Three models, activated by concurrent sessions. *)
EXTENDS ModelRegistry, TLC

\* Models and sessions are interchangeable: nothing orders or names them.  For
\* instances with more sessions, where no liveness is checked.
Interchangeable == Permutations(Models) \union Permutations(Sessions)
===============================================================================
