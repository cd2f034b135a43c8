---------------------------- MODULE MCTrainingJobs ----------------------------
(* TrainingJobs on a small instance; daemons and replicas are interchangeable. *)
EXTENDS TrainingJobs, TLC

Symmetry == Permutations(Daemons) \union Permutations(Replicas)
===============================================================================
