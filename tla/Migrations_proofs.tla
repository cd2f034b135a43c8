-------------------------- MODULE Migrations_proofs --------------------------
(***************************************************************************)
(* Proofs, for any number of services and releases and any number of       *)
(* faults: at most one session migrates, what it decides by is current,    *)
(* schema_migrations is a true record of the schema, and the migrations    *)
(* implement SchemaLog.                                                    *)
(***************************************************************************)
EXTENDS Migrations, SequenceTheorems, TLAPS

\* A service has brought the schema, in its order, to what it was built with,
\* as far as it has come.
Reached(s) ==
  /\ next[s] - 1 <= Len(Bundle[s])
  /\ \A v \in 1..next[s] - 1 : v <= Len(schema) /\ record[v] = Bundle[s][v]

\* Where every service is: one that migrates has come to the version after
\* those in effect, one that serves has all of its own.
ServicesReach ==
  \A s \in Services :
    /\ pc[s] \in {"apply", "commit"} => Reached(s)
    /\ pc[s] = "commit" => next[s] \in DOMAIN Bundle[s] /\ applied[s][next[s]] = None
    /\ pc[s] = "serving" =>
         \A v \in DOMAIN Bundle[s] : v <= Len(schema) /\ record[v] = Bundle[s][v]

\* A COMMIT in doubt is that of the version after those in effect.
DoubtIsNext == \A tx \in inDoubt : tx[1] = Len(schema) + 1

\* The inductive invariant.
IInv ==
  /\ MigrationsTypeOK
  /\ OneMigrator
  /\ PictureIsCurrent
  /\ RecordIsTrue
  /\ ServicesReach
  /\ DoubtIsNext

\* Versions count from 1 in every release, and no release leaves one out.
LEMMA Bundles ==
  /\ Versions \subseteq Nat \ {0}
  /\ \A s \in Services :
       /\ Len(Bundle[s]) \in Nat
       /\ DOMAIN Bundle[s] = 1..Len(Bundle[s])
       /\ DOMAIN Bundle[s] \subseteq Versions
       /\ \A v \in DOMAIN Bundle[s] : Bundle[s][v] \in Contents
BY MigrationsAssumption DEF Versions

LEMMA InitIInv == MigrationsInit => IInv
<1> SUFFICES ASSUME MigrationsInit PROVE IInv
  OBVIOUS
<1> USE Bundles, MigrationsAssumption DEF MigrationsInit
<1>1. MigrationsTypeOK
  BY DEF MigrationsTypeOK, Nothing
<1>2. OneMigrator
  BY DEF OneMigrator, Holding
<1>3. PictureIsCurrent /\ ServicesReach /\ DoubtIsNext
  BY DEF PictureIsCurrent, ServicesReach, DoubtIsNext
<1>4. RecordIsTrue
  BY DEF RecordIsTrue, Nothing
<1> QED BY <1>1, <1>2, <1>3, <1>4 DEF IInv

\* Steps before the lock is asked for.
LEMMA ConnectIInv ==
  ASSUME NEW s \in Services
  PROVE  IInv /\ (Start(s) \/ Ensure(s) \/ EndCreate(s)) => IInv'
<1> SUFFICES ASSUME IInv, Start(s) \/ Ensure(s) \/ EndCreate(s) PROVE IInv'
  OBVIOUS
<1>a. PICK where \in {"down", "connect", "create", "creating", "lock"} :
        pc' = [pc EXCEPT ![s] = where]
  BY DEF Start, Ensure, EndCreate, Goto
<1>b. /\ pc[s] \in {"down", "connect", "create", "creating", "lock"}
      /\ UNCHANGED <<lock, record, schema, inDoubt, applied, next, faults>>
      /\ database' \in {database, TRUE}
  BY DEF Start, Ensure, EndCreate, stored, picture
<1>c. /\ pc \in [Services -> {"down", "connect", "create", "creating", "lock", "serving"}
                            \union Holding]
      /\ pc'[s] \notin Holding \union {"serving"} /\ pc[s] \notin Holding
      /\ \A o \in Services \ {s} : pc'[o] = pc[o]
  BY <1>a, <1>b DEF IInv, MigrationsTypeOK, Holding
<1>1. MigrationsTypeOK'
  BY <1>a, <1>b DEF IInv, MigrationsTypeOK, Holding
<1>2. OneMigrator'
  BY <1>b, <1>c DEF IInv, OneMigrator
<1>3. PictureIsCurrent'
  BY <1>b, <1>c DEF IInv, PictureIsCurrent, Holding
<1>4. RecordIsTrue'
  BY <1>b DEF IInv, RecordIsTrue
<1>5. ServicesReach'
  BY <1>b, <1>c DEF IInv, ServicesReach, Reached, Holding
<1>6. DoubtIsNext'
  BY <1>b DEF IInv, DoubtIsNext
<1> QED BY <1>1, <1>2, <1>3, <1>4, <1>5, <1>6 DEF IInv

LEMMA LockIInv ==
  ASSUME NEW s \in Services
  PROVE  IInv /\ Lock(s) => IInv'
<1> SUFFICES ASSUME IInv, Lock(s) PROVE IInv'
  OBVIOUS
<1> USE Bundles, MigrationsAssumption DEF Lock, Granted, Goto, IInv, stored, picture, Holding
<1>1. MigrationsTypeOK'
  BY DEF MigrationsTypeOK
<1>2. OneMigrator'
  BY DEF MigrationsTypeOK, OneMigrator
<1>3. PictureIsCurrent'
  BY DEF MigrationsTypeOK, PictureIsCurrent
<1>4. RecordIsTrue'
  BY DEF RecordIsTrue
<1>5. ServicesReach'
  BY DEF MigrationsTypeOK, ServicesReach, Reached
<1>6. DoubtIsNext'
  BY DEF DoubtIsNext
<1> QED BY <1>1, <1>2, <1>3, <1>4, <1>5, <1>6

LEMMA ReadIInv ==
  ASSUME NEW s \in Services
  PROVE  IInv /\ ReadApplied(s) => IInv'
<1> SUFFICES ASSUME IInv, ReadApplied(s) PROVE IInv'
  OBVIOUS
<1> USE Bundles, MigrationsAssumption DEF ReadApplied, Goto, IInv, stored, picture, Holding
<1>1. MigrationsTypeOK'
  <2>1. applied' \in [Services -> [Versions -> Contents \union {None}]]
    BY DEF MigrationsTypeOK
  <2>2. pc' \in [Services -> {"down", "connect", "create", "creating", "lock",
                          "serving"} \union Holding]
    BY DEF MigrationsTypeOK
  <2>3. next' \in [Services -> Nat \ {0}]
    BY DEF MigrationsTypeOK
  <2> QED BY <2>1, <2>2, <2>3 DEF MigrationsTypeOK
<1>2. OneMigrator'
  BY DEF MigrationsTypeOK, OneMigrator
<1>3. PictureIsCurrent'
  <2> SUFFICES ASSUME NEW o \in Services, pc'[o] \in {"apply", "commit"}, NEW v \in Versions,
                      v >= next'[o]
               PROVE  applied'[o][v] = record'[v]
    BY DEF PictureIsCurrent
  <2>1. CASE o = s
    BY <2>1 DEF MigrationsTypeOK
  <2>2. CASE o # s
    BY <2>2 DEF MigrationsTypeOK, PictureIsCurrent
  <2> QED BY <2>1, <2>2
<1>4. RecordIsTrue'
  BY DEF RecordIsTrue
<1>5. ServicesReach'
  BY DEF MigrationsTypeOK, ServicesReach, Reached
<1>6. DoubtIsNext'
  BY DEF DoubtIsNext
<1> QED BY <1>1, <1>2, <1>3, <1>4, <1>5, <1>6

\* The transaction under way is that of the version after those in effect.
LEMMA NextIsNew ==
  ASSUME IInv, NEW s \in Services, pc[s] = "commit"
  PROVE  next[s] = Len(schema) + 1
<1> USE Bundles DEF IInv, MigrationsTypeOK
<1>1. next[s] \in Versions /\ record[next[s]] = None
  BY DEF ServicesReach, PictureIsCurrent
<1>2. next[s] \notin 1..Len(schema)
  BY <1>1 DEF RecordIsTrue
<1>3. next[s] - 1 <= Len(schema)
  BY DEF ServicesReach, Reached
<1> QED BY <1>1, <1>2, <1>3

\* What a transaction that commits does to the record and to the schema.
LEMMA CommitsAppends ==
  ASSUME MigrationsTypeOK, RecordIsTrue, NEW v \in Versions, NEW text \in Contents,
         v = Len(schema) + 1, Commits(v, text)
  PROVE  /\ RecordIsTrue'
         /\ schema' \in Seq(Versions \X Contents) /\ Len(schema') = v
         /\ record' \in [Versions -> Contents \union {None}]
         /\ record'[v] = text
         /\ \A u \in Versions : u # v => record'[u] = record[u]
<1>1. /\ record' \in [Versions -> Contents \union {None}]
      /\ record'[v] = text
      /\ \A u \in Versions : u # v => record'[u] = record[u]
  BY DEF Commits, MigrationsTypeOK
<1>2. /\ schema' \in Seq(Versions \X Contents) /\ Len(schema') = v
      /\ DOMAIN schema = 1..Len(schema) /\ DOMAIN schema' = 1..v
      /\ \A i \in 1..Len(schema) : schema'[i] = schema[i]
      /\ schema'[v] = <<v, text>>
  <2> DEFINE S == Versions \X Contents
  <2>1. schema \in Seq(S) /\ <<v, text>> \in S /\ schema' = Append(schema, <<v, text>>)
    BY DEF MigrationsTypeOK, Commits
  <2> HIDE DEF S
  <2> QED BY <2>1, AppendProperties, LenProperties DEF S
<1>3. RecordIsTrue'
  <2>1. ASSUME NEW i \in 1..v PROVE schema'[i] = <<i, record'[i]>>
    <3>1. CASE i = v
      BY <1>1, <1>2, <3>1
    <3>2. CASE i # v
      <4>1. i \in 1..Len(schema) /\ i \in Versions
        <5>1. i \in 1..Len(schema)
          BY <3>2, Bundles
        <5>2. schema[i] \in Versions \X Contents /\ schema[i] = <<i, record[i]>>
          BY <5>1, <1>2, ElementOfSeq DEF MigrationsTypeOK, RecordIsTrue
        <5> QED BY <5>1, <5>2
      <4> QED BY <4>1, <3>2, <1>1, <1>2 DEF RecordIsTrue
    <3> QED BY <3>1, <3>2
  <2>2. ASSUME NEW u \in Versions PROVE record'[u] # None <=> u \in 1..v
    <3>1. record[u] # None <=> u \in 1..Len(schema)
      BY <1>2 DEF RecordIsTrue
    <3>2. CASE u = v
      BY <3>2, <1>1, Bundles, MigrationsAssumption
    <3>3. CASE u # v
      <4>1. Len(schema) \in Nat /\ u \in Nat
        BY Bundles DEF MigrationsTypeOK
      <4>2. u \in 1..v <=> u \in 1..Len(schema)
        BY <3>3, <4>1
      <4> QED BY <3>1, <3>3, <4>2, <1>1
    <3> QED BY <3>2, <3>3
  <2> QED BY <1>2, <2>1, <2>2 DEF RecordIsTrue
<1> QED BY <1>1, <1>2, <1>3

LEMMA SkipIInv ==
  ASSUME NEW s \in Services
  PROVE  IInv /\ Skip(s) => IInv'
<1> SUFFICES ASSUME IInv, Skip(s) PROVE IInv'
  OBVIOUS
<1> USE Bundles, MigrationsAssumption DEF Skip, Pending, SameText, IInv, stored, picture, Holding
<1>1. MigrationsTypeOK'
  BY DEF MigrationsTypeOK
<1>2. OneMigrator'
  BY DEF MigrationsTypeOK, OneMigrator
<1>3. PictureIsCurrent'
  BY DEF MigrationsTypeOK, PictureIsCurrent
<1>4. RecordIsTrue'
  BY DEF RecordIsTrue
<1>5. ServicesReach'
  <2>1. record[next[s]] = Bundle[s][next[s]] /\ next[s] \in Versions
    BY DEF MigrationsTypeOK, PictureIsCurrent
  <2>2. next[s] \in 1..Len(schema)
    BY <2>1 DEF MigrationsTypeOK, RecordIsTrue
  <2>3. Reached(s)'
    BY <2>1, <2>2 DEF MigrationsTypeOK, ServicesReach, Reached
  <2> QED BY <2>3 DEF MigrationsTypeOK, ServicesReach, Reached
<1>6. DoubtIsNext'
  BY DEF DoubtIsNext
<1> QED BY <1>1, <1>2, <1>3, <1>4, <1>5, <1>6

LEMMA RefuseIInv ==
  ASSUME NEW s \in Services
  PROVE  IInv /\ Refuse(s) => IInv'
<1> SUFFICES ASSUME IInv, Refuse(s) PROVE IInv'
  OBVIOUS
<1> USE Bundles, MigrationsAssumption DEF Refuse, Mismatch, Pending, Goto, IInv, stored, picture, Holding
<1>1. MigrationsTypeOK'
  BY DEF MigrationsTypeOK
<1>2. OneMigrator'
  BY DEF MigrationsTypeOK, OneMigrator
<1>3. PictureIsCurrent'
  BY DEF MigrationsTypeOK, PictureIsCurrent
<1>4. RecordIsTrue'
  BY DEF RecordIsTrue
<1>5. ServicesReach'
  BY DEF MigrationsTypeOK, ServicesReach, Reached
<1>6. DoubtIsNext'
  BY DEF DoubtIsNext
<1> QED BY <1>1, <1>2, <1>3, <1>4, <1>5, <1>6

LEMMA ExecuteIInv ==
  ASSUME NEW s \in Services
  PROVE  IInv /\ Execute(s) => IInv'
<1> SUFFICES ASSUME IInv, Execute(s) PROVE IInv'
  OBVIOUS
<1> USE Bundles, MigrationsAssumption DEF Execute, Pending, Goto, IInv, stored, picture, Holding
<1>1. MigrationsTypeOK'
  BY DEF MigrationsTypeOK
<1>2. OneMigrator'
  BY DEF MigrationsTypeOK, OneMigrator
<1>3. PictureIsCurrent'
  BY DEF MigrationsTypeOK, PictureIsCurrent
<1>4. RecordIsTrue'
  BY DEF RecordIsTrue
<1>5. ServicesReach'
  BY DEF MigrationsTypeOK, ServicesReach, Reached
<1>6. DoubtIsNext'
  BY DEF DoubtIsNext
<1> QED BY <1>1, <1>2, <1>3, <1>4, <1>5, <1>6

LEMMA FinishIInv ==
  ASSUME NEW s \in Services
  PROVE  IInv /\ Finish(s) => IInv'
<1> SUFFICES ASSUME IInv, Finish(s) PROVE IInv'
  OBVIOUS
<1> USE Bundles, MigrationsAssumption DEF Finish, Goto, IInv, stored, picture, Holding
<1>1. MigrationsTypeOK'
  BY DEF MigrationsTypeOK
<1>2. OneMigrator'
  BY DEF MigrationsTypeOK, OneMigrator
<1>3. PictureIsCurrent'
  BY DEF MigrationsTypeOK, PictureIsCurrent
<1>4. RecordIsTrue'
  BY DEF RecordIsTrue
<1>5. ServicesReach'
  BY DEF MigrationsTypeOK, ServicesReach, Reached
<1>6. DoubtIsNext'
  BY DEF DoubtIsNext
<1> QED BY <1>1, <1>2, <1>3, <1>4, <1>5, <1>6

LEMMA FailIInv ==
  ASSUME NEW s \in Services
  PROVE  IInv /\ Fail(s) => IInv'
<1> SUFFICES ASSUME IInv, Fail(s) PROVE IInv'
  OBVIOUS
<1> USE Bundles, MigrationsAssumption DEF Fail, Undone, Goto, IInv, stored, picture, Holding
<1>1. MigrationsTypeOK'
  BY DEF MigrationsTypeOK
<1>2. OneMigrator'
  BY DEF MigrationsTypeOK, OneMigrator
<1>3. PictureIsCurrent'
  BY DEF MigrationsTypeOK, PictureIsCurrent
<1>4. RecordIsTrue'
  BY DEF RecordIsTrue
<1>5. ServicesReach'
  BY DEF MigrationsTypeOK, ServicesReach, Reached
<1>6. DoubtIsNext'
  BY DEF DoubtIsNext
<1> QED BY <1>1, <1>2, <1>3, <1>4, <1>5, <1>6

LEMMA CrashIInv ==
  ASSUME NEW s \in Services
  PROVE  IInv /\ Crash(s) => IInv'
<1> SUFFICES ASSUME IInv, Crash(s) PROVE IInv'
  OBVIOUS
<1> USE Bundles, MigrationsAssumption DEF Crash, Goto, IInv, stored, picture, Holding
<1>0. pc[s] = "commit" => next[s] \in Versions /\ Bundle[s][next[s]] \in Contents
  BY DEF ServicesReach
<1>1. MigrationsTypeOK'
  <2>1. database' \in BOOLEAN
    BY ZenonT(20) DEF MigrationsTypeOK
  <2>2. inDoubt' \subseteq Versions \X Contents
    BY <1>0 DEF MigrationsTypeOK
  <2>3. pc' \in [Services -> {"down", "connect", "create", "creating", "lock",
                             "serving"} \union Holding]
    BY DEF MigrationsTypeOK
  <2> QED BY <2>1, <2>2, <2>3 DEF MigrationsTypeOK
<1>2. OneMigrator'
  BY DEF MigrationsTypeOK, OneMigrator
<1>3. PictureIsCurrent'
  BY DEF MigrationsTypeOK, PictureIsCurrent
<1>4. RecordIsTrue'
  BY DEF RecordIsTrue
<1>5. ServicesReach'
  BY DEF MigrationsTypeOK, ServicesReach, Reached
<1>6. DoubtIsNext'
  BY NextIsNew DEF DoubtIsNext
<1> QED BY <1>1, <1>2, <1>3, <1>4, <1>5, <1>6

LEMMA CommitIInv ==
  ASSUME NEW s \in Services
  PROVE  IInv /\ Commit(s) => IInv'
<1> SUFFICES ASSUME IInv, Commit(s) PROVE IInv'
  OBVIOUS
<1> DEFINE v == next[s]
           text == Bundle[s][v]
<1>0. /\ v \in Versions /\ text \in Contents /\ v = Len(schema) + 1
      /\ v \in DOMAIN Bundle[s] /\ lock = s /\ inDoubt = {}
      /\ MigrationsTypeOK /\ RecordIsTrue /\ Commits(v, text)
  BY Bundles, NextIsNew, MigrationsAssumption
     DEF IInv, Commit, ServicesReach, MigrationsTypeOK, OneMigrator, Holding
<1>a. /\ RecordIsTrue'
      /\ schema' \in Seq(Versions \X Contents) /\ Len(schema') = v
      /\ record' \in [Versions -> Contents \union {None}]
      /\ record'[v] = text
      /\ \A u \in Versions : u # v => record'[u] = record[u]
  BY <1>0, CommitsAppends
<1>b. /\ pc' = [pc EXCEPT ![s] = "apply"] /\ next' = [next EXCEPT ![s] = v + 1]
      /\ UNCHANGED <<lock, database, inDoubt, applied, faults>>
  BY DEF Commit, Goto, LockStays
<1> HIDE DEF v, text
<1>c. \A o \in Services \ {s} : pc[o] \notin Holding
  BY <1>0 DEF IInv, OneMigrator
<1>d. v \in Nat \ {0} /\ Versions \subseteq Nat \ {0}
  BY <1>0, Bundles
<1>1. MigrationsTypeOK'
  BY <1>0, <1>a, <1>b, <1>d DEF MigrationsTypeOK, Holding
<1>2. OneMigrator'
  BY <1>0, <1>b DEF IInv, MigrationsTypeOK, OneMigrator, Holding
<1>3. PictureIsCurrent'
  <2>1. \A u \in Versions : u >= next'[s] => u # v /\ u >= v
    BY <1>b, <1>d DEF MigrationsTypeOK, IInv
  <2>2. \A u \in Versions : u >= v => applied[s][u] = record[u]
    BY <1>0 DEF IInv, PictureIsCurrent, Commit, v
  <2> QED BY <1>a, <1>b, <1>c, <2>1, <2>2 DEF IInv, MigrationsTypeOK, PictureIsCurrent, Holding
<1>5. ServicesReach'
  <2>1. Reached(s)'
    <3>1. next'[s] = v + 1 /\ v <= Len(Bundle[s])
      BY <1>0, <1>b, Bundles DEF IInv, MigrationsTypeOK
    <3>2. \A u \in 1..(v - 1) : u <= Len(schema) /\ record[u] = Bundle[s][u] /\ u # v /\ u \in Versions
      <4>1. Reached(s)
        BY DEF IInv, ServicesReach, Commit
      <4>2. 1..(v - 1) \subseteq Versions
        BY <1>0, <1>d, Bundles
      <4> QED BY <4>1, <4>2, <1>d DEF Reached, v
    <3> QED BY <3>1, <3>2, <1>0, <1>a, <1>d DEF Reached, text
  <2>2. ASSUME NEW o \in Services, pc[o] = "serving", NEW u \in DOMAIN Bundle[o]
        PROVE  u <= Len(schema') /\ record'[u] = Bundle[o][u]
    <3>1. u \in Versions /\ u <= Len(schema) /\ record[u] = Bundle[o][u]
      BY <2>2, Bundles DEF IInv, ServicesReach
    <3> QED BY <3>1, <1>0, <1>a, <1>d
  <2> QED BY <1>b, <1>c, <2>1, <2>2 DEF IInv, MigrationsTypeOK, ServicesReach, Holding
<1>6. DoubtIsNext'
  BY <1>0, <1>b DEF DoubtIsNext
<1> QED BY <1>1, <1>2, <1>3, <1>a, <1>5, <1>6 DEF IInv

LEMMA CommitLandsIInv == IInv /\ CommitLands => IInv'
<1> SUFFICES ASSUME IInv, CommitLands PROVE IInv'
  OBVIOUS
<1>0. PICK tx \in inDoubt : Commits(tx[1], tx[2])
  BY DEF CommitLands
<1> DEFINE v == tx[1]
           text == tx[2]
<1>1. /\ v \in Versions /\ text \in Contents /\ v = Len(schema) + 1 /\ lock = Ghost
      /\ MigrationsTypeOK /\ RecordIsTrue /\ Commits(v, text)
  BY <1>0 DEF IInv, MigrationsTypeOK, DoubtIsNext, OneMigrator
<1>a. /\ RecordIsTrue'
      /\ schema' \in Seq(Versions \X Contents) /\ Len(schema') = v
      /\ record' \in [Versions -> Contents \union {None}]
      /\ record'[v] = text
      /\ \A u \in Versions : u # v => record'[u] = record[u]
  BY <1>1, CommitsAppends
<1>b. inDoubt' = {} /\ UNCHANGED <<pc, database, lock, picture, faults>>
  BY DEF CommitLands
<1> HIDE DEF v, text
<1>c. \A o \in Services : pc[o] \notin Holding
  BY <1>1, MigrationsAssumption DEF IInv, OneMigrator
<1>2. MigrationsTypeOK'
  BY <1>1, <1>a, <1>b DEF MigrationsTypeOK, picture
<1>3. OneMigrator'
  BY <1>b DEF IInv, OneMigrator
<1>4. PictureIsCurrent'
  BY <1>b, <1>c DEF PictureIsCurrent, Holding
<1>5. ServicesReach'
  <2>1. ASSUME NEW o \in Services, pc[o] = "serving", NEW u \in DOMAIN Bundle[o]
        PROVE  u <= Len(schema') /\ record'[u] = Bundle[o][u]
    <3>1. u \in Versions /\ u <= Len(schema) /\ record[u] = Bundle[o][u]
      BY <2>1, Bundles DEF IInv, ServicesReach
    <3> QED BY <3>1, <1>1, <1>a, Bundles DEF MigrationsTypeOK
  <2> QED BY <1>b, <1>c, <2>1 DEF ServicesReach, Holding
<1>6. DoubtIsNext'
  BY <1>b DEF DoubtIsNext
<1> QED BY <1>2, <1>3, <1>4, <1>a, <1>5, <1>6 DEF IInv

LEMMA SessionEndsIInv ==
  IInv /\ SessionEnds => IInv'
<1> SUFFICES ASSUME IInv, SessionEnds PROVE IInv'
  OBVIOUS
<1> USE Bundles, MigrationsAssumption DEF SessionEnds, Commits, IInv, stored, picture, Holding
<1>1. MigrationsTypeOK'
  BY DEF MigrationsTypeOK
<1>2. OneMigrator'
  BY DEF MigrationsTypeOK, OneMigrator
<1>3. PictureIsCurrent'
  BY DEF MigrationsTypeOK, PictureIsCurrent
<1>4. RecordIsTrue'
  BY DEF RecordIsTrue
<1>5. ServicesReach'
  BY DEF MigrationsTypeOK, ServicesReach, Reached
<1>6. DoubtIsNext'
  BY DEF DoubtIsNext
<1> QED BY <1>1, <1>2, <1>3, <1>4, <1>5, <1>6

LEMMA StepIInv == IInv /\ [MigrationsNext]_migrationVars => IInv'
<1> SUFFICES ASSUME IInv, [MigrationsNext]_migrationVars PROVE IInv'
  OBVIOUS
<1>1. ASSUME NEW s \in Services, Start(s) \/ Lock(s) \/ Migrate(s) \/ Fail(s) \/ Crash(s)
      PROVE  IInv'
  BY <1>1, ConnectIInv, LockIInv, ReadIInv, SkipIInv, RefuseIInv, ExecuteIInv, CommitIInv,
     FinishIInv, FailIInv, CrashIInv DEF Migrate
<1>2. CASE CommitLands
  BY <1>2, CommitLandsIInv
<1>3. CASE SessionEnds
  BY <1>3, SessionEndsIInv
<1>4. CASE UNCHANGED migrationVars
  BY <1>4 DEF migrationVars, stored, picture, IInv, MigrationsTypeOK, OneMigrator,
     PictureIsCurrent, RecordIsTrue, ServicesReach, Reached, DoubtIsNext
<1> QED BY <1>1, <1>2, <1>3, <1>4 DEF MigrationsNext

\* The invariant holds for every number of services, releases and faults.
THEOREM MigrationsInvariant == MigrationsSpec => []IInv
BY InitIInv, StepIInv, PTL DEF MigrationsSpec

\* At most one session migrates: only the owner of the advisory lock is between
\* taking and leaving it, and a COMMIT is in doubt only while it is taken
\* (migrate.py:36-67).
THEOREM MigrationsOneMigrator == MigrationsSpec => []OneMigrator
<1>1. IInv => OneMigrator
  BY DEF IInv
<1> QED BY <1>1, MigrationsInvariant, PTL

\* What a service read of schema_migrations is current when it decides by it
\* (migrate.py:41-61), although the lock belongs to a session and not to the
\* transactions, and sessions of dead processes linger.
THEOREM MigrationsPicture == MigrationsSpec => []PictureIsCurrent
<1>1. IInv => PictureIsCurrent
  BY DEF IInv
<1> QED BY <1>1, MigrationsInvariant, PTL

\* schema_migrations is a true record of what was done to the schema, whatever
\* fails or dies between the statements and the record (migrate.py:53-64).
THEOREM MigrationsRecord == MigrationsSpec => []RecordIsTrue
<1>1. IInv => RecordIsTrue
  BY DEF IInv
<1> QED BY <1>1, MigrationsInvariant, PTL

-------------------------------------------------------------------------------
(* The refinement.                                                         *)

LEMMA InitMaps == MigrationsInit => SL!Init
BY DEF MigrationsInit, SL!Init, Serving

\* A transaction that commits extends the log, by the version after its last.
LEMMA CommitsExtend ==
  ASSUME IInv, NEW v \in Versions, NEW text \in Contents,
         v = Len(schema) + 1, Commits(v, text), Serving' = Serving
  PROVE  SL!Extend
BY DEF Commits, SL!Extend

\* A service that has nothing left to do works on a schema that holds all of its
\* migrations.
LEMMA FinishServes ==
  ASSUME IInv, NEW s \in Services, Finish(s)
  PROVE  SL!Serve(s)
<1>1. Reached(s) /\ next[s] \in Nat \ {0} /\ next[s] \notin 1..Len(Bundle[s])
  BY Bundles DEF Finish, IInv, ServicesReach, MigrationsTypeOK
<1>2. next[s] - 1 = Len(Bundle[s])
  BY <1>1, Bundles DEF Reached
<1>3. ASSUME NEW v \in DOMAIN Bundle[s]
      PROVE  v \in DOMAIN schema /\ schema[v] = <<v, Bundle[s][v]>>
  <2>1. v \in 1..Len(Bundle[s]) /\ v <= Len(schema) /\ record[v] = Bundle[s][v]
    BY <1>1, <1>2, Bundles DEF Reached
  <2>2. v \in DOMAIN schema
    BY <2>1, Bundles DEF IInv, MigrationsTypeOK
  <2> QED BY <2>1, <2>2 DEF IInv, RecordIsTrue
<1>4. Serving' = Serving \union {s} /\ schema' = schema
  BY DEF Finish, Goto, Serving, stored, IInv, MigrationsTypeOK
<1> QED BY <1>3, <1>4 DEF SL!Serve

\* Every step of the migrations is a step of the log or none.
LEMMA StepMaps ==
  IInv /\ [MigrationsNext]_migrationVars => [SL!Next]_<<schema, Serving>>
<1> SUFFICES ASSUME IInv, [MigrationsNext]_migrationVars
             PROVE  SL!Next \/ (Serving' = Serving /\ schema' = schema)
  OBVIOUS
<1>1. ASSUME NEW s \in Services,
             Start(s) \/ Ensure(s) \/ EndCreate(s) \/ Lock(s) \/ ReadApplied(s) \/ Skip(s)
               \/ Refuse(s) \/ Execute(s) \/ Fail(s)
      PROVE  Serving' = Serving /\ schema' = schema
  <2>1. schema' = schema
    BY <1>1 DEF Start, Ensure, EndCreate, Lock, ReadApplied, Skip, Refuse, Execute, Fail,
       Undone, stored
  <2>2. /\ pc[s] # "serving" /\ pc'[s] # "serving"
        /\ \A o \in Services \ {s} : pc'[o] = pc[o]
    BY <1>1 DEF Start, Ensure, EndCreate, Lock, ReadApplied, Skip, Refuse, Mismatch, Execute,
       Fail, Pending, Goto, Holding, IInv, MigrationsTypeOK
  <2> QED BY <2>1, <2>2 DEF Serving
<1>2. ASSUME NEW s \in Services, Commit(s) PROVE SL!Next
  <2>1. Serving' = Serving
    BY <1>2 DEF Commit, Goto, Serving, IInv, MigrationsTypeOK
  <2>2. /\ next[s] \in Versions /\ Bundle[s][next[s]] \in Contents
        /\ next[s] = Len(schema) + 1 /\ Commits(next[s], Bundle[s][next[s]])
    BY <1>2, NextIsNew, Bundles DEF Commit, IInv, ServicesReach
  <2> QED BY <2>1, <2>2, CommitsExtend DEF SL!Next
<1>3. ASSUME NEW s \in Services, Finish(s) PROVE SL!Next
  BY <1>3, FinishServes DEF SL!Next
<1>4. ASSUME NEW s \in Services, Crash(s)
      PROVE  SL!Leave(s)
  BY <1>4 DEF Crash, Goto, Serving, SL!Leave, IInv, MigrationsTypeOK
<1>5. ASSUME CommitLands PROVE SL!Next
  <2>1. Serving' = Serving
    BY <1>5 DEF CommitLands, Serving
  <2>2. PICK tx \in inDoubt : Commits(tx[1], tx[2])
    BY <1>5 DEF CommitLands
  <2>3. tx[1] \in Versions /\ tx[2] \in Contents /\ tx[1] = Len(schema) + 1
    BY DEF IInv, MigrationsTypeOK, DoubtIsNext
  <2> QED BY <2>1, <2>2, <2>3, CommitsExtend DEF SL!Next
<1>6. ASSUME SessionEnds \/ UNCHANGED migrationVars
      PROVE  Serving' = Serving /\ schema' = schema
  BY <1>6 DEF SessionEnds, migrationVars, stored, picture, Serving
<1> QED BY <1>1, <1>2, <1>3, <1>4, <1>5, <1>6 DEF MigrationsNext, Migrate, SL!Next

\* The migrations implement SchemaLog: each migration once and in order, and no
\* service at work on a schema that lacks one of its own or holds another text
\* of it (migrate.py:26-71).
THEOREM MigrationsImplementSchemaLog == MigrationsSpec => ImplementsSchemaLog
BY InitMaps, StepMaps, MigrationsInvariant, PTL
   DEF MigrationsSpec, ImplementsSchemaLog, SL!Spec

=============================================================================
