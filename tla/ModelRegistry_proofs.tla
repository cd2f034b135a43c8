------------------------ MODULE ModelRegistry_proofs ------------------------
(***************************************************************************)
(* Proofs, for any number of models and of concurrent activations: at most *)
(* one model is active, there never is none again, and an activation that  *)
(* is answered with success has made its target the active model.          *)
(***************************************************************************)
EXTENDS ModelRegistry, FiniteSetTheorems, TLAPS

Statements ==
  [running : {TRUE}, target : Models, snapshot : SUBSET Models, before : MainSteps,
   done : SUBSET Steps, held : SUBSET Models, cleared : SUBSET Models]

\* What a session is executing is a statement, or nothing.
StatementsOK == txn \in [Sessions -> Statements \union {Idle}]

\* A session has switched its target on, and holds it since it locked it.
Sets(s) == txn[s].running /\ "set" \in txn[s].done /\ txn[s].target \in txn[s].held

\* At most one session has switched its target on.
OneSets == \A s, o \in Sessions : Sets(s) /\ Sets(o) => s = o

\* A session that has switched its target on has switched the rest off: the
\* index let it, and nobody else has switched a row on since.
SetCoversActive ==
  \A s \in Sessions : Sets(s) => active \subseteq txn[s].cleared \union {txn[s].target}

\* Before the UPDATE that clears, nothing is cleared.
NothingClearedBefore ==
  \A s \in Sessions : txn[s].running /\ "clear" \notin txn[s].done => txn[s].cleared = {}

NoTwoActive == \A m, n \in active : m = n

\* The inductive invariant.
IInv ==
  /\ RegistryTypeOK
  /\ StatementsOK
  /\ OneSets
  /\ SetCoversActive
  /\ NothingClearedBefore
  /\ NoTwoActive

LEMMA InitIInv == RegistryInit => IInv
BY DEF RegistryInit, IInv, RegistryTypeOK, StatementsOK, OneSets, SetCoversActive,
   NothingClearedBefore, NoTwoActive, Sets, Idle

\* Who switches a row on blocks the others.
LEMMA WritersBlock ==
  ASSUME NEW s \in Sessions, NEW o \in Sessions, s # o, Sets(o), At(s, "set"), Blockers(s) = {}
  PROVE  FALSE
<1>1. txn[o].target \in InDoubt(o)
  BY DEF Sets, InDoubt
<1> QED BY <1>1 DEF Blockers

\* What each step requires of those that came before it.
LEMMA StepsInOrder ==
  ASSUME NEW s \in Sessions
  PROVE  /\ At(s, "lock") => txn[s].running /\ "lock" \notin txn[s].done
         /\ At(s, "clear") => txn[s].running /\ txn[s].done = txn[s].before
         /\ At(s, "set") => txn[s].running /\ "lock" \in txn[s].done
         /\ At(s, "end") => txn[s].running /\ "set" \in txn[s].done
BY DEF At, Steps

LEMMA RunningStatement ==
  ASSUME StatementsOK, NEW s \in Sessions, txn[s].running
  PROVE  txn[s] \in Statements
<1>1. Idle.running = FALSE
  BY DEF Idle
<1> QED BY <1>1 DEF StatementsOK

LEMMA UploadIInv ==
  ASSUME NEW m \in Models
  PROVE  IInv /\ UploadModel(m) => IInv'
BY DEF UploadModel, IInv, RegistryTypeOK, StatementsOK, OneSets, SetCoversActive,
   NothingClearedBefore, NoTwoActive, Sets

\* A statement that ends without effect.
LEMMA EndIInv ==
  ASSUME NEW s \in Sessions, NEW answer \in {"404", "unique violation", "deadlock", "rolled back"}
  PROVE  IInv /\ End(s, answer) /\ UNCHANGED <<uploaded, active>> => IInv'
<1> SUFFICES ASSUME IInv, End(s, answer), UNCHANGED <<uploaded, active>> PROVE IInv'
  OBVIOUS
<1>1. /\ txn \in [Sessions -> Statements \union {Idle}]
      /\ \A o \in Sessions : txn'[o] = IF o = s THEN Idle ELSE txn[o]
      /\ ~Idle.running
  BY DEF End, IInv, StatementsOK, Idle
<1>2. RegistryTypeOK'
  BY <1>1 DEF End, IInv, RegistryTypeOK
<1>3. StatementsOK'
  BY DEF End, IInv, StatementsOK
<1>4. OneSets' /\ SetCoversActive' /\ NothingClearedBefore'
  BY <1>1 DEF IInv, OneSets, SetCoversActive, NothingClearedBefore, Sets
<1>5. NoTwoActive'
  BY DEF IInv, NoTwoActive
<1> QED BY <1>2, <1>3, <1>4, <1>5 DEF IInv

LEMMA BeginIInv ==
  ASSUME NEW s \in Sessions, NEW m \in Models
  PROVE  IInv /\ Activate(s, m) => IInv'
<1> SUFFICES ASSUME IInv, Activate(s, m) PROVE IInv'
  OBVIOUS
<1>1. PICK before \in MainSteps : txn' = [txn EXCEPT ![s] = Statement(m, before)]
  BY DEF Activate
<1>2. /\ \A o \in Sessions : txn'[o] = IF o = s THEN Statement(m, before) ELSE txn[o]
      /\ Statement(m, before) \in Statements
      /\ txn' \in [Sessions -> Statements \union {Idle}]
  <2>1. Statement(m, before) \in Statements
    BY DEF Statement, Statements, IInv, RegistryTypeOK, MainSteps, Steps
  <2> QED BY <1>1, <2>1 DEF IInv, StatementsOK
<1>3. /\ txn'[s].target = m /\ txn'[s].snapshot = active
      /\ txn'[s].held = {} /\ txn'[s].cleared = {}
      /\ "lock" \notin txn'[s].done => m \in uploaded
      /\ "set" \in txn'[s].done => "lock" \in txn'[s].done
  BY <1>2 DEF Statement
<1>4. UNCHANGED <<uploaded, active>> /\ result' = [result EXCEPT ![s] = "none"]
  BY DEF Activate
<1>5. RegistryTypeOK'
  <2>1. ASSUME NEW o \in Sessions, txn'[o].running
        PROVE  /\ txn'[o].target \in Models
               /\ "lock" \notin txn'[o].done => txn'[o].target \in uploaded'
               /\ txn'[o].snapshot \union txn'[o].held \subseteq uploaded'
               /\ txn'[o].cleared \subseteq txn'[o].held
               /\ "set" \in txn'[o].done => "lock" \in txn'[o].done
    <3>1. CASE o = s
      BY <1>3, <1>4, <3>1 DEF IInv, RegistryTypeOK
    <3>2. CASE o # s
      BY <1>2, <1>4, <2>1, <3>2 DEF IInv, RegistryTypeOK
    <3> QED BY <3>1, <3>2
  <2> QED BY <1>4, <2>1 DEF IInv, RegistryTypeOK
<1>6. OneSets' /\ SetCoversActive' /\ NothingClearedBefore' /\ NoTwoActive'
  BY <1>2, <1>3, <1>4
     DEF IInv, OneSets, SetCoversActive, NothingClearedBefore, NoTwoActive, Sets
<1> QED BY <1>2, <1>5, <1>6 DEF IInv, StatementsOK

LEMMA LockIInv ==
  ASSUME NEW s \in Sessions
  PROVE  IInv /\ LockTarget(s) => IInv'
<1> SUFFICES ASSUME IInv, LockTarget(s) PROVE IInv'
  OBVIOUS
<1>1. /\ txn[s] \in Statements /\ txn[s].running /\ "lock" \notin txn[s].done
      /\ "set" \notin txn[s].done
      /\ txn[s].target \in uploaded
      /\ UNCHANGED <<uploaded, active, result>>
  BY StepsInOrder, RunningStatement DEF LockTarget, IInv, RegistryTypeOK
<1>2. /\ \A o \in Sessions \ {s} : txn'[o] = txn[o]
      /\ txn'[s].running /\ txn'[s].target = txn[s].target
      /\ txn'[s].snapshot = txn[s].snapshot
      /\ txn'[s].done = txn[s].done \union {"lock"}
      /\ txn'[s].held = txn[s].held \union {txn[s].target}
      /\ txn'[s].cleared = txn[s].cleared
      /\ StatementsOK'
  <2>1. txn' = [txn EXCEPT ![s].done = @ \union {"lock"},
                           ![s].held = @ \union {txn[s].target}]
    BY DEF LockTarget
  <2> QED BY <1>1, <2>1 DEF IInv, StatementsOK, Statements, Steps
<1>3. RegistryTypeOK'
  <2>1. ASSUME NEW o \in Sessions, txn'[o].running
        PROVE  /\ txn'[o].target \in Models
               /\ "lock" \notin txn'[o].done => txn'[o].target \in uploaded'
               /\ txn'[o].snapshot \union txn'[o].held \subseteq uploaded'
               /\ txn'[o].cleared \subseteq txn'[o].held
               /\ "set" \in txn'[o].done => "lock" \in txn'[o].done
    <3>1. CASE o = s
      BY <1>1, <1>2, <3>1 DEF IInv, RegistryTypeOK
    <3>2. CASE o # s
      BY <1>1, <1>2, <2>1, <3>2 DEF IInv, RegistryTypeOK
    <3> QED BY <3>1, <3>2
  <2> QED BY <1>1, <2>1 DEF IInv, RegistryTypeOK
<1>4. OneSets' /\ SetCoversActive' /\ NothingClearedBefore' /\ NoTwoActive'
  BY <1>1, <1>2 DEF IInv, OneSets, SetCoversActive, NothingClearedBefore, NoTwoActive, Sets
<1> QED BY <1>2, <1>3, <1>4 DEF IInv

LEMMA ClearIInv ==
  ASSUME NEW s \in Sessions
  PROVE  IInv /\ ClearOthers(s) => IInv'
<1> SUFFICES ASSUME IInv, ClearOthers(s) PROVE IInv'
  OBVIOUS
<1>1. /\ txn[s] \in Statements /\ txn[s].running
      /\ Others(s) \subseteq uploaded /\ txn[s].target \notin Others(s)
      /\ uploaded \subseteq Models
      /\ UNCHANGED <<uploaded, active, result>>
  BY StepsInOrder, RunningStatement DEF ClearOthers, IInv, RegistryTypeOK, Others
<1>2. /\ \A o \in Sessions \ {s} : txn'[o] = txn[o]
      /\ txn'[s].running /\ txn'[s].target = txn[s].target
      /\ txn'[s].snapshot = txn[s].snapshot
      /\ txn'[s].done = txn[s].done \union {"clear"}
      /\ txn'[s].held = txn[s].held \union Others(s)
      /\ txn'[s].cleared = Others(s) \intersect active
      /\ StatementsOK'
  <2>1. txn' = [txn EXCEPT ![s].done = @ \union {"clear"},
                           ![s].held = @ \union Others(s),
                           ![s].cleared = Others(s) \intersect active]
    BY DEF ClearOthers
  <2> QED BY <1>1, <2>1 DEF IInv, StatementsOK, Statements, Steps
<1>3. txn[s].cleared = {}
  <2>1. "clear" \notin txn[s].done
    BY <1>1, StepsInOrder DEF ClearOthers, Statements, MainSteps
  <2> QED BY <1>1, <2>1 DEF IInv, NothingClearedBefore
<1>4. RegistryTypeOK'
  <2>1. ASSUME NEW o \in Sessions, txn'[o].running
        PROVE  /\ txn'[o].target \in Models
               /\ "lock" \notin txn'[o].done => txn'[o].target \in uploaded'
               /\ txn'[o].snapshot \union txn'[o].held \subseteq uploaded'
               /\ txn'[o].cleared \subseteq txn'[o].held
               /\ "set" \in txn'[o].done => "lock" \in txn'[o].done
    <3>1. CASE o = s
      BY <1>1, <1>2, <3>1 DEF IInv, RegistryTypeOK
    <3>2. CASE o # s
      BY <1>1, <1>2, <2>1, <3>2 DEF IInv, RegistryTypeOK
    <3> QED BY <3>1, <3>2
  <2> QED BY <1>1, <2>1 DEF IInv, RegistryTypeOK
<1>5. OneSets' /\ NothingClearedBefore'
  BY <1>1, <1>2 DEF IInv, OneSets, NothingClearedBefore, Sets
<1>6. SetCoversActive'
  BY <1>1, <1>2, <1>3 DEF IInv, SetCoversActive, Sets
<1> QED BY <1>1, <1>2, <1>4, <1>5, <1>6 DEF IInv, NoTwoActive

LEMMA SetIInv ==
  ASSUME NEW s \in Sessions
  PROVE  IInv /\ SetTarget(s) => IInv'
<1> SUFFICES ASSUME IInv, SetTarget(s) PROVE IInv'
  OBVIOUS
<1>1. CASE ~(active \ txn[s].cleared \subseteq {txn[s].target})
  BY <1>1, EndIInv DEF SetTarget
<1>2. CASE active \ txn[s].cleared \subseteq {txn[s].target}
  <2>1. /\ txn[s] \in Statements /\ txn[s].running /\ "lock" \in txn[s].done
        /\ active \subseteq txn[s].cleared \union {txn[s].target}
        /\ UNCHANGED <<uploaded, active, result>>
        /\ \A o \in Sessions : o # s => ~Sets(o)
    <3>1. /\ At(s, "set") /\ Blockers(s) = {} /\ UNCHANGED <<uploaded, active, result>>
      BY <1>2 DEF SetTarget
    <3>2. txn[s].running /\ "lock" \in txn[s].done /\ txn[s] \in Statements
      BY <3>1, StepsInOrder, RunningStatement DEF IInv
    <3>3. active \subseteq txn[s].cleared \union {txn[s].target}
      BY <1>2
    <3>4. \A o \in Sessions : o # s => ~Sets(o)
      BY <3>1, WritersBlock
    <3> QED BY <3>1, <3>2, <3>3, <3>4
  <2>2. /\ \A o \in Sessions \ {s} : txn'[o] = txn[o]
        /\ txn'[s].running /\ txn'[s].target = txn[s].target
        /\ txn'[s].snapshot = txn[s].snapshot
        /\ txn'[s].done = txn[s].done \union {"set"}
        /\ txn'[s].held = txn[s].held /\ txn'[s].cleared = txn[s].cleared
        /\ StatementsOK'
    <3>1. txn' = [txn EXCEPT ![s].done = @ \union {"set"}]
      BY <1>2 DEF SetTarget
    <3> QED BY <2>1, <3>1 DEF IInv, StatementsOK, Statements, Steps
  <2>3. RegistryTypeOK'
    BY <2>1, <2>2 DEF IInv, RegistryTypeOK
  <2>4. OneSets' /\ NothingClearedBefore' /\ SetCoversActive'
    BY <2>1, <2>2 DEF IInv, OneSets, NothingClearedBefore, SetCoversActive, Sets
  <2> QED BY <2>1, <2>2, <2>3, <2>4 DEF IInv, NoTwoActive
<1> QED BY <1>1, <1>2 DEF SetTarget

\* What a commit makes of the table.
LEMMA CommitActivates ==
  ASSUME IInv, NEW s \in Sessions, Commit(s)
  PROVE  active' = {txn[s].target} /\ txn[s].target \in uploaded
<1>1. Sets(s) /\ active' = (active \ txn[s].cleared) \union {txn[s].target}
  BY StepsInOrder DEF Commit, Sets
<1>2. txn[s].target \in uploaded
  BY <1>1 DEF IInv, RegistryTypeOK, Sets
<1> QED BY <1>1, <1>2 DEF IInv, SetCoversActive

LEMMA CommitIInv ==
  ASSUME NEW s \in Sessions
  PROVE  IInv /\ Commit(s) => IInv'
<1> SUFFICES ASSUME IInv, Commit(s) PROVE IInv'
  OBVIOUS
<1>1. active' = {txn[s].target} /\ txn[s].target \in uploaded
  BY CommitActivates
<1>2. /\ \A o \in Sessions : txn'[o] = IF o = s THEN Idle ELSE txn[o]
      /\ ~Idle.running /\ Sets(s)
      /\ uploaded' = uploaded
  BY StepsInOrder DEF Commit, End, IInv, StatementsOK, Idle, Sets
<1>3. RegistryTypeOK'
  BY <1>1, <1>2 DEF Commit, End, IInv, RegistryTypeOK
<1>4. StatementsOK'
  BY DEF Commit, End, IInv, StatementsOK
<1>5. OneSets' /\ SetCoversActive' /\ NothingClearedBefore'
  BY <1>2 DEF IInv, OneSets, SetCoversActive, NothingClearedBefore, Sets
<1> QED BY <1>1, <1>3, <1>4, <1>5 DEF IInv, NoTwoActive

LEMMA StepIInv == IInv /\ [RegistryNext]_registryVars => IInv'
<1> SUFFICES ASSUME IInv, [RegistryNext]_registryVars PROVE IInv'
  OBVIOUS
<1>1. ASSUME NEW s \in Sessions, NotFound(s) PROVE IInv'
  BY <1>1, EndIInv DEF NotFound
<1>2. ASSUME NEW s \in Sessions, Rollback(s) PROVE IInv'
  BY <1>2, EndIInv DEF Rollback
<1>4. ASSUME NEW s \in Sessions, DeadlockDetected(s) PROVE IInv'
  BY <1>4, EndIInv DEF DeadlockDetected
<1>3. CASE UNCHANGED registryVars
  BY <1>3 DEF registryVars, IInv, RegistryTypeOK, StatementsOK, OneSets, SetCoversActive,
     NothingClearedBefore, NoTwoActive, Sets
<1> QED BY <1>1, <1>2, <1>3, <1>4, UploadIInv, BeginIInv, LockIInv, ClearIInv, SetIInv, CommitIInv
    DEF RegistryNext

\* The invariant holds for any number of models and sessions.
THEOREM RegistryInvariant == RegistrySpec => []IInv
BY InitIInv, StepIInv, PTL DEF RegistrySpec

\* Type correctness of the registry.
THEOREM RegistryTypes == RegistrySpec => []RegistryTypeOK
<1>1. IInv => RegistryTypeOK
  BY DEF IInv
<1> QED BY <1>1, RegistryInvariant, PTL

\* However activations interleave, at most one model is active
\* (models.py:188-197): readers of the active model have no choice to make.
THEOREM RegistryOneActive == RegistrySpec => []AtMostOneActive
<1>1. ASSUME IInv PROVE AtMostOneActive
  <2>1. CASE active = {}
    BY <2>1, FS_EmptySet DEF AtMostOneActive
  <2>2. CASE active # {}
    <3>1. PICK m \in active : active = {m}
      BY <2>2, <1>1 DEF IInv, NoTwoActive
    <3>2. Cardinality(active) = 1
      BY <3>1, FS_Singleton
    <3> QED BY <3>2 DEF AtMostOneActive
  <2> QED BY <2>1, <2>2
<1> QED BY <1>1, RegistryInvariant, PTL

\* No activation, completed, failed or broken off, takes the last active model
\* away (models.py:188-203).
THEOREM RegistryNeverWithout == RegistrySpec => NeverWithoutModel
<1>1. IInv /\ [RegistryNext]_registryVars => [active # {} => active' # {}]_registryVars
  <2> SUFFICES ASSUME IInv, [RegistryNext]_registryVars, active # {} PROVE active' # {}
    BY DEF registryVars
  <2>1. ASSUME NEW s \in Sessions, Commit(s) PROVE active' # {}
    BY <2>1, CommitActivates
  <2> QED BY <2>1 DEF RegistryNext, registryVars, UploadModel, Activate, LockTarget,
     ClearOthers, SetTarget, NotFound, Rollback, DeadlockDetected, End
<1> QED BY <1>1, RegistryInvariant, PTL DEF RegistrySpec, NeverWithoutModel

\* An activation answered with success has made its target the one active model,
\* although it chose what to clear from an older snapshot (models.py:188-207).
THEOREM RegistrySuccess == RegistrySpec => SuccessMeansActive
<1> DEFINE A == \A s \in Sessions :
                  txn[s].running /\ ~txn'[s].running /\ result'[s] = "activated"
                    => active' = {txn[s].target}
<1>1. IInv /\ [RegistryNext]_registryVars => [A]_registryVars
  <2> SUFFICES ASSUME IInv, RegistryNext, NEW s \in Sessions,
                      txn[s].running, ~txn'[s].running, result'[s] = "activated"
               PROVE  active' = {txn[s].target}
    OBVIOUS
  <2>0. txn \in [Sessions -> Statements \union {Idle}] /\ DOMAIN result = Sessions
    BY DEF IInv, StatementsOK, RegistryTypeOK
  <2>1. ASSUME NEW m \in Models, UploadModel(m) PROVE FALSE
    BY <2>1 DEF UploadModel
  <2>2. ASSUME NEW o \in Sessions, NEW m \in Models, Activate(o, m) PROVE FALSE
    <3>1. PICK before \in MainSteps : txn' = [txn EXCEPT ![o] = Statement(m, before)]
      BY <2>2 DEF Activate
    <3> QED BY <2>0, <3>1 DEF Statement
  <2>3. ASSUME NEW o \in Sessions, ClearOthers(o) \/ LockTarget(o) PROVE FALSE
    <3>1. txn[s] \in Statements
      BY RunningStatement DEF IInv
    <3> QED BY <2>0, <2>3, <3>1 DEF ClearOthers, LockTarget, Statements
  <2>4. ASSUME NEW o \in Sessions, SetTarget(o) PROVE FALSE
    <3>1. CASE active \ txn[o].cleared \subseteq {txn[o].target}
      <4>1. txn' = [txn EXCEPT ![o].done = @ \union {"set"}]
        BY <2>4, <3>1 DEF SetTarget
      <4>2. txn[s] \in Statements
        BY RunningStatement DEF IInv
      <4> QED BY <2>0, <4>1, <4>2 DEF Statements
    <3>2. CASE ~(active \ txn[o].cleared \subseteq {txn[o].target})
      BY <2>0, <2>4, <3>2 DEF SetTarget, End
    <3> QED BY <3>1, <3>2
  <2>5. ASSUME NEW o \in Sessions, Rollback(o) \/ NotFound(o) \/ DeadlockDetected(o) PROVE FALSE
    BY <2>0, <2>5 DEF Rollback, NotFound, DeadlockDetected, End
  <2>6. ASSUME NEW o \in Sessions, Commit(o) PROVE active' = {txn[s].target}
    <3>1. o = s
      BY <2>0, <2>6 DEF Commit, End
    <3> QED BY <3>1, <2>6, CommitActivates
  <2> QED BY <2>1, <2>2, <2>3, <2>4, <2>5, <2>6 DEF RegistryNext
<1> QED BY <1>1, RegistryInvariant, PTL DEF RegistrySpec, SuccessMeansActive

=============================================================================
