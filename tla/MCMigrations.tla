----------------------------- MODULE MCMigrations -----------------------------
(* Geri of one release, a Freki of the release before, and one built with a   *)
(* migration that was edited after its release.                               *)
EXTENDS Migrations

CONSTANTS geri, older, edited, a, b, b2

MCBundle ==
  [s \in Services |->
     IF s = older THEN <<a>> ELSE IF s = edited THEN <<a, b2>> ELSE <<a, b>>]
===============================================================================
