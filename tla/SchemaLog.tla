------------------------------- MODULE SchemaLog -------------------------------
(***************************************************************************)
(* What the migrations promise: the schema is built by the migrations in   *)
(* the order of their versions, each of them once, and a service works     *)
(* only on a schema that holds every migration it was built with.          *)
(***************************************************************************)
EXTENDS Naturals, Sequences

CONSTANTS
  Services,
  Contents,         \* what the text of a migration can be
  Bundle            \* per service: the texts of its migrations, by version

VARIABLES
  log,              \* the migrations in effect: pairs of a version and a text
  serving           \* services at work

Init == log = <<>> /\ serving = {}

Extend ==
  /\ \E text \in Contents : log' = Append(log, <<Len(log) + 1, text>>)
  /\ UNCHANGED serving

Serve(s) ==
  /\ \A v \in DOMAIN Bundle[s] : v \in DOMAIN log /\ log[v] = <<v, Bundle[s][v]>>
  /\ serving' = serving \union {s}
  /\ UNCHANGED log

Leave(s) == serving' = serving \ {s} /\ UNCHANGED log

Next == Extend \/ \E s \in Services : Serve(s) \/ Leave(s)

Spec == Init /\ [][Next]_<<log, serving>>
===============================================================================
