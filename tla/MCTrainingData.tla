---------------------------- MODULE MCTrainingData ----------------------------
(* An export on a small instance. *)
EXTENDS TrainingData
===============================================================================
