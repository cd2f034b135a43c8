------------------------------- MODULE MCMuninn -------------------------------
(* A receiver on a small instance. *)
EXTENDS Muninn
===============================================================================
