-------------------------------- MODULE MCVolva --------------------------------
(* Volva on a small instance; liveness is checked, so nothing is symmetric. *)
EXTENDS Volva
================================================================================
