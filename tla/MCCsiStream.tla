----------------------------- MODULE MCCsiStream -----------------------------
(* Two Geri processes and one consumer on a small instance. *)
EXTENDS CsiStream
===============================================================================
