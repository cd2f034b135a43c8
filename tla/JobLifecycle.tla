----------------------------- MODULE JobLifecycle -----------------------------
(***************************************************************************)
(* What the training queue promises the operator who submits work: every   *)
(* submission is in one phase, is worked on by at most one claim at a      *)
(* time, may be handed out again when its worker disappears, and is        *)
(* settled at most once and for ever.                                      *)
(***************************************************************************)

CONSTANT Submissions

VARIABLE phase            \* the phase of each submission

Settled == {"complete", "failed", "cancelled"}
Phases == {"none", "queued", "running"} \union Settled

Init == phase = [s \in Submissions |-> "none"]

Submit(s) ==
  /\ phase[s] = "none"
  /\ phase' = [phase EXCEPT ![s] = "queued"]

HandOut(s) ==
  /\ phase[s] = "queued"
  /\ phase' = [phase EXCEPT ![s] = "running"]

Settle(s) ==
  /\ \/ /\ phase[s] = "running"
        /\ \E outcome \in Settled : phase' = [phase EXCEPT ![s] = outcome]
     \/ /\ phase[s] = "queued"
        /\ phase' = [phase EXCEPT ![s] = "cancelled"]

\* Work whose workers disappeared returns to the queue, several at a time.
TakeBack(lost) ==
  /\ \A s \in lost : phase[s] = "running"
  /\ phase' = [s \in Submissions |-> IF s \in lost THEN "queued" ELSE phase[s]]

Next ==
  \/ \E s \in Submissions : Submit(s) \/ HandOut(s) \/ Settle(s)
  \/ \E lost \in SUBSET Submissions : TakeBack(lost)

Spec == Init /\ [][Next]_phase
===============================================================================
