---------------------------- MODULE ModelRegistry ----------------------------
(***************************************************************************)
(* The trained_models table of Freki (routers/models.py): uploads and the  *)
(* activation of a model, by concurrent requests.                          *)
(*                                                                         *)
(* activate_model is one statement over one snapshot.  Its main query      *)
(* locks the target FOR UPDATE and switches it on; "cleared" switches the  *)
(* other active row off.  PostgreSQL leaves open after which step of the   *)
(* main query "cleared" runs, so it may come at any point.  A row another  *)
(* transaction holds is waited for, with the rows locked so far still      *)
(* held, and then re-checked; the unique index trained_models_one_active   *)
(* is checked by the UPDATE that switches a row on, at once and not at the *)
(* end of the statement, and waits for transactions that may yet take the  *)
(* conflicting row away.  PostgreSQL breaks up a cycle of such waits by    *)
(* failing one of its statements.                                          *)
(***************************************************************************)
EXTENDS Naturals, FiniteSets

CONSTANTS
  Models,           \* ids a trained_models row may have
  Sessions          \* concurrent activation requests

VARIABLES
  uploaded,         \* rows of the table
  active,           \* committed rows with is_active
  txn,              \* the statement each session is executing
  result            \* how its last activation was answered

registryVars == <<uploaded, active, txn, result>>

Steps == {"lock", "set", "clear"}

\* The steps of the main query that may come before "cleared".
MainSteps == {{}, {"lock"}, {"lock", "set"}}

Idle == [running |-> FALSE]

\* A statement that begins: for an id without a row the main query is already
\* through, and only "cleared" has rows to look for.
Statement(m, before) ==
  [running |-> TRUE, target |-> m, snapshot |-> active, before |-> before,
   done |-> IF m \in uploaded THEN {} ELSE {"lock", "set"},
   held |-> {}, cleared |-> {}]

RegistryInit ==
  /\ uploaded = {}
  /\ active = {}
  /\ txn = [s \in Sessions |-> Idle]
  /\ result = [s \in Sessions |-> "none"]

\* The step a session is at, or waiting to take.
At(s, step) ==
  /\ txn[s].running
  /\ LET done == txn[s].done
         mainNext == done # txn[s].before
     IN  \/ step = "clear" /\ ~mainNext
         \/ step = "lock" /\ mainNext /\ "lock" \notin done
         \/ step = "set" /\ mainNext /\ "lock" \in done /\ "set" \notin done
         \/ step = "end" /\ done = Steps

\* The rows "cleared" looks for, in the statement's snapshot.
Others(s) == txn[s].snapshot \ {txn[s].target}

\* Rows a session has locked or written, and holds until its transaction ends.
Held(s) == IF txn[s].running THEN txn[s].held ELSE {}

\* Rows whose entry in the unique index a session has taken away or made.
InDoubt(s) ==
  IF txn[s].running
  THEN txn[s].cleared \union {m \in txn[s].held : m = txn[s].target /\ "set" \in txn[s].done}
  ELSE {}

\* Those a session is waiting for.
Blockers(s) ==
  {o \in Sessions \ {s} :
     \/ At(s, "lock") /\ txn[s].target \in Held(o)
     \/ At(s, "clear") /\ Others(s) \intersect Held(o) # {}
     \/ At(s, "set") /\ InDoubt(o) # {}}

\* A session that waits for itself, by way of others.
Deadlocked(s) ==
  \A R \in SUBSET Sessions :
    Blockers(s) \subseteq R /\ (\A o \in R : Blockers(o) \subseteq R) => s \in R

End(s, answer) ==
  /\ txn' = [txn EXCEPT ![s] = Idle]
  /\ result' = [result EXCEPT ![s] = answer]

UploadModel(m) ==
  /\ m \notin uploaded
  /\ uploaded' = uploaded \union {m}
  /\ UNCHANGED <<active, txn, result>>

Activate(s, m) ==
  /\ ~txn[s].running
  /\ \E before \in MainSteps :
       /\ Statement(m, before).done \subseteq before
       /\ txn' = [txn EXCEPT ![s] = Statement(m, before)]
  /\ result' = [result EXCEPT ![s] = "none"]
  /\ UNCHANGED <<uploaded, active>>

\* SELECT ... WHERE id = target FOR UPDATE.
LockTarget(s) ==
  /\ At(s, "lock") /\ Blockers(s) = {}
  /\ txn' = [txn EXCEPT ![s].done = @ \union {"lock"},
                        ![s].held = @ \union {txn[s].target}]
  /\ UNCHANGED <<uploaded, active, result>>

\* Mutant: "cleared" without is_active = TRUE writes every other row.
ClearEveryOther(s) ==
  /\ At(s, "clear")
  /\ LET rows == uploaded \ {txn[s].target}
     IN  /\ \A o \in Sessions \ {s} : rows \intersect Held(o) = {}
         /\ txn' = [txn EXCEPT ![s].done = @ \union {"clear"},
                               ![s].held = @ \union rows,
                               ![s].cleared = rows \intersect active]
  /\ UNCHANGED <<uploaded, active, result>>

\* UPDATE ... SET is_active = FALSE WHERE is_active AND id <> target: a row that
\* was switched off meanwhile stays locked and is left alone.
ClearOthers(s) ==
  /\ At(s, "clear") /\ Blockers(s) = {}
  /\ txn' = [txn EXCEPT ![s].done = @ \union {"clear"},
                        ![s].held = @ \union Others(s),
                        ![s].cleared = Others(s) \intersect active]
  /\ UNCHANGED <<uploaded, active, result>>

\* Mutant: a table without the unique index.
SetWithoutIndex(s) ==
  /\ At(s, "set")
  /\ txn' = [txn EXCEPT ![s].done = @ \union {"set"}]
  /\ UNCHANGED <<uploaded, active, result>>

\* UPDATE ... SET is_active = TRUE WHERE id = target, and its index check.
SetTarget(s) ==
  /\ At(s, "set") /\ Blockers(s) = {}
  /\ IF active \ txn[s].cleared \subseteq {txn[s].target}
     THEN txn' = [txn EXCEPT ![s].done = @ \union {"set"}] /\ UNCHANGED result
     ELSE End(s, "unique violation")
  /\ UNCHANGED <<uploaded, active>>

\* Mutant: the other rows are not switched off.
CommitKeepsOthers(s) ==
  /\ At(s, "end") /\ txn[s].target \in txn[s].held
  /\ active' = active \union {txn[s].target}
  /\ End(s, "activated")
  /\ UNCHANGED uploaded

\* The UPDATE returned the target: COMMIT.
Commit(s) ==
  /\ At(s, "end") /\ txn[s].target \in txn[s].held
  /\ active' = (active \ txn[s].cleared) \union {txn[s].target}
  /\ End(s, "activated")
  /\ UNCHANGED uploaded

\* Mutant: COMMIT before the look at what was returned.
NotFoundCommits(s) ==
  /\ At(s, "end") /\ txn[s].target \notin txn[s].held
  /\ active' = active \ txn[s].cleared
  /\ End(s, "404")
  /\ UNCHANGED uploaded

\* Mutant: 404 with the transaction left open.
NotFoundStaysOpen(s) ==
  /\ At(s, "end") /\ txn[s].target \notin txn[s].held
  /\ result' = [result EXCEPT ![s] = "404"]
  /\ UNCHANGED <<uploaded, active, txn>>

\* It returned nothing: ROLLBACK, which undoes "cleared", and 404.
NotFound(s) ==
  /\ At(s, "end") /\ txn[s].target \notin txn[s].held
  /\ End(s, "404")
  /\ UNCHANGED <<uploaded, active>>

\* A lost connection or a killed process rolls the transaction back.
Rollback(s) ==
  /\ txn[s].running
  /\ End(s, "rolled back")
  /\ UNCHANGED <<uploaded, active>>

\* PostgreSQL fails a statement that waits for itself.
DeadlockDetected(s) ==
  /\ Deadlocked(s)
  /\ End(s, "deadlock")
  /\ UNCHANGED <<uploaded, active>>

RegistryNext ==
  \/ \E m \in Models : UploadModel(m)
  \/ \E s \in Sessions, m \in Models : Activate(s, m)
  \/ \E s \in Sessions : LockTarget(s)
  \/ \E s \in Sessions : ClearOthers(s)
  \/ \E s \in Sessions : SetTarget(s)
  \/ \E s \in Sessions : Commit(s)
  \/ \E s \in Sessions : NotFound(s)
  \/ \E s \in Sessions : Rollback(s)
  \/ \E s \in Sessions : DeadlockDetected(s)

RegistrySpec == RegistryInit /\ [][RegistryNext]_registryVars

\* PostgreSQL goes on with the statements it has begun, serves those that wait
\* for a row or for the index in the order they came, and looks for deadlocks.
FairRegistry ==
  /\ RegistrySpec
  /\ \A s \in Sessions : /\ SF_registryVars(LockTarget(s))
                         /\ SF_registryVars(ClearOthers(s))
                         /\ SF_registryVars(SetTarget(s))
                         /\ WF_registryVars(Commit(s))
                         /\ WF_registryVars(NotFound(s))
                         /\ WF_registryVars(DeadlockDetected(s))

-------------------------------------------------------------------------------
(* Properties.                                                             *)

\* Type invariant.
RegistryTypeOK ==
  /\ uploaded \subseteq Models
  /\ active \subseteq uploaded
  /\ \A s \in Sessions : txn[s].running =>
       /\ txn[s].target \in Models
       /\ "lock" \notin txn[s].done => txn[s].target \in uploaded
       /\ txn[s].snapshot \union txn[s].held \subseteq uploaded
       /\ txn[s].cleared \subseteq txn[s].held
       /\ "set" \in txn[s].done => "lock" \in txn[s].done
  /\ result \in [Sessions -> {"none", "404", "unique violation", "deadlock", "activated",
                             "rolled back"}]

\* However activations interleave, readers find at most one active model
\* (active_model takes the first row it finds).
AtMostOneActive == Cardinality(active) <= 1

\* Once a model has been activated there is always an active one: no failed,
\* racing or aborted activation leaves Volva without a model.
NeverWithoutModel == [][active # {} => active' # {}]_registryVars

\* An activation that is answered with success has made its target the active
\* model, although it decided what to clear from an older snapshot.
SuccessMeansActive ==
  [][\A s \in Sessions :
       txn[s].running /\ ~txn'[s].running /\ result'[s] = "activated"
         => active' = {txn[s].target}]_registryVars

\* Activations that run the statement in the same order never wait for each other
\* in a circle while the active model is the one they saw, though each holds rows
\* while it waits: a deadlock takes one that another activation has overtaken.
DeadlockNeedsOvertaking ==
  \A s \in Sessions : Deadlocked(s) =>
    \E o \in Sessions : /\ txn[o].running
                       /\ \/ txn[o].snapshot # active
                          \/ txn[o].before # txn[s].before

\* Every activation that began is answered and its transaction ended, also one
\* that waited with rows of its own held, for an id without a model, or in a
\* circle.
EveryActivationAnswered == \A s \in Sessions : txn[s].running ~> ~txn[s].running

\* "single statement swaps the active model atomically so the partial unique
\* index on is_active = TRUE never sees two active rows" (models.py:182-183).
IndexNeverViolated == \A s \in Sessions : result[s] # "unique violation"
===============================================================================
