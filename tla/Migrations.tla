------------------------------ MODULE Migrations ------------------------------
(***************************************************************************)
(* The services that start by migrating the schema (mimir, migrate.py;     *)
(* called by Freki and by Geri).  Each creates the database if there is    *)
(* none, takes a session-level advisory lock, reads which migrations are   *)
(* recorded, and executes and records the others, one transaction each.    *)
(* A service that fails ends its process and is started again.  Services   *)
(* may be of different releases; a release adds migrations at the end.     *)
(*                                                                         *)
(* When a process dies, PostgreSQL ends its session when it notices: until *)
(* then the lock stays taken, and a COMMIT it was sent may still succeed.  *)
(***************************************************************************)
EXTENDS Naturals, Sequences

CONSTANTS
  Services,
  Contents,         \* checksums
  Bundle,           \* per service: the checksums of its migrations, by version
  None,             \* no row in schema_migrations
  Free, Ghost,      \* owners of the lock: nobody, the session of a dead process
  MaxFaults         \* bound on failed statements and dead processes

Versions == UNION {DOMAIN Bundle[s] : s \in Services}

ASSUME MigrationsAssumption ==
  /\ Bundle \in [Services -> Seq(Contents)]
  /\ None \notin Contents
  /\ Free # Ghost /\ Free \notin Services /\ Ghost \notin Services
  /\ MaxFaults \in Nat

VARIABLES
  pc,               \* per service: where run_migrations is
  database,         \* the database exists
  lock,             \* owner of the advisory lock
  record,           \* schema_migrations: the checksum of each version, or None
  schema,           \* migrations whose statements took effect, in that order
  applied,          \* per service: what it read of schema_migrations
  next,             \* per service: the version it has come to
  inDoubt,          \* what the session of the dead process may yet commit
  faults

stored == <<database, record, schema, inDoubt>>
picture == <<applied, next>>
migrationVars == <<pc, lock, stored, picture, faults>>

Nothing == [v \in Versions |-> None]

MigrationsInit ==
  /\ pc = [s \in Services |-> "down"]
  /\ database \in BOOLEAN
  /\ lock = Free
  /\ record = Nothing
  /\ schema = <<>>
  /\ applied = [s \in Services |-> Nothing]
  /\ next = [s \in Services |-> 1]
  /\ inDoubt = {}
  /\ faults = 0

Goto(s, where) == pc' = [pc EXCEPT ![s] = where]

\* The supervisor starts the service.
Start(s) ==
  /\ pc[s] = "down"
  /\ Goto(s, "connect")
  /\ UNCHANGED <<lock, stored, picture, faults>>

\* _ensure_database_exists: connects, and if that fails creates the database.
\* That it exists is known at once, and tolerated, ...
Ensure(s) ==
  /\ \/ pc[s] = "connect" /\ Goto(s, IF database THEN "lock" ELSE "create")
     \/ pc[s] = "create" /\ Goto(s, IF database THEN "lock" ELSE "creating")
  /\ UNCHANGED <<lock, stored, picture, faults>>

\* ... or when another one has created it: an IntegrityError, which is not.
EndCreate(s) ==
  /\ pc[s] = "creating"
  /\ database' = TRUE
  /\ Goto(s, IF database THEN "down" ELSE "lock")
  /\ UNCHANGED <<lock, record, schema, inDoubt, picture, faults>>

Granted == lock = Free

Lock(s) ==
  /\ pc[s] = "lock" /\ Granted
  /\ lock' = s
  /\ Goto(s, "read")
  /\ UNCHANGED <<stored, picture, faults>>

ReadApplied(s) ==
  /\ pc[s] = "read"
  /\ applied' = [applied EXCEPT ![s] = record]
  /\ next' = [next EXCEPT ![s] = 1]
  /\ Goto(s, "apply")
  /\ UNCHANGED <<lock, stored, faults>>

\* The migration a service has come to.
Pending(s) == pc[s] = "apply" /\ next[s] \in DOMAIN Bundle[s]

\* Mutant: a version that is recorded is taken for applied, whatever its text.
VersionKnown(s) == applied[s][next[s]] # None

SameText(s) == applied[s][next[s]] = Bundle[s][next[s]]

Skip(s) ==
  /\ Pending(s) /\ SameText(s)
  /\ next' = [next EXCEPT ![s] = @ + 1]
  /\ UNCHANGED <<pc, lock, stored, applied, faults>>

\* Mutant: a schema with migrations the release does not know is refused too.
MismatchOrNewer(s) ==
  \/ Pending(s) /\ applied[s][next[s]] \notin {None, Bundle[s][next[s]]}
  \/ pc[s] = "apply" /\ \E v \in Versions \ DOMAIN Bundle[s] : applied[s][v] # None

Mismatch(s) == Pending(s) /\ applied[s][next[s]] \notin {None, Bundle[s][next[s]]}

\* "manual intervention required"
Refuse(s) ==
  /\ Mismatch(s)
  /\ Goto(s, "down") /\ lock' = Free
  /\ UNCHANGED <<stored, picture, faults>>

\* The statements of the migration and the INSERT of its row, not committed.
Execute(s) ==
  /\ Pending(s) /\ applied[s][next[s]] = None
  /\ Goto(s, "commit")
  /\ UNCHANGED <<lock, stored, picture, faults>>

\* The transaction that migrates to version v, the primary key, ends.
Commits(v, text) ==
  /\ record[v] = None
  /\ record' = [record EXCEPT ![v] = text]
  /\ schema' = Append(schema, <<v, text>>)

\* Mutant: the lock is one of the transaction (pg_advisory_xact_lock).
LockEnds == lock' = Free

LockStays == UNCHANGED lock

Commit(s) ==
  /\ pc[s] = "commit"
  /\ Commits(next[s], Bundle[s][next[s]])
  /\ next' = [next EXCEPT ![s] = @ + 1]
  /\ Goto(s, "apply")
  /\ LockStays
  /\ UNCHANGED <<database, inDoubt, applied, faults>>

\* Nothing is left to do: unlock, and the service is at work.
Finish(s) ==
  /\ pc[s] = "apply" /\ next[s] \notin DOMAIN Bundle[s]
  /\ Goto(s, "serving") /\ lock' = Free
  /\ UNCHANGED <<stored, picture, faults>>

Holding == {"read", "apply", "commit"}

\* Mutant: statements that were not part of the transaction stay in effect.
PartlyUndone(s) ==
  schema' = IF pc[s] = "commit" THEN Append(schema, <<next[s], Bundle[s][next[s]]>>)
            ELSE schema

Undone(s) == UNCHANGED schema

\* A statement fails: rolled back, unlocked, and the process ends.
Fail(s) ==
  /\ faults < MaxFaults /\ faults' = faults + 1
  /\ pc[s] \in {"connect", "create", "lock"} \union Holding
  /\ Goto(s, "down") /\ lock' = IF lock = s THEN Free ELSE lock
  /\ Undone(s)
  /\ UNCHANGED <<database, record, inDoubt, picture>>

\* The process dies, or loses its connection.
Crash(s) ==
  /\ faults < MaxFaults /\ faults' = faults + 1
  /\ pc[s] # "down"
  /\ Goto(s, "down") /\ lock' = IF lock = s THEN Ghost ELSE lock
  /\ \/ UNCHANGED inDoubt
     \/ pc[s] = "commit" /\ inDoubt' = {<<next[s], Bundle[s][next[s]]>>}
  /\ database' \in {database, database \/ pc[s] = "creating"}
  /\ UNCHANGED <<record, schema, picture>>

\* The COMMIT that was on its way is executed.
CommitLands ==
  /\ \E tx \in inDoubt : Commits(tx[1], tx[2])
  /\ inDoubt' = {}
  /\ UNCHANGED <<pc, database, lock, picture, faults>>

\* PostgreSQL ends the session, rolls back what is open and frees the lock.
SessionEnds ==
  /\ lock = Ghost
  /\ lock' = Free /\ inDoubt' = {}
  /\ UNCHANGED <<pc, database, record, schema, picture, faults>>

Migrate(s) ==
  \/ Ensure(s) \/ EndCreate(s) \/ ReadApplied(s)
  \/ Skip(s) \/ Refuse(s) \/ Execute(s) \/ Commit(s) \/ Finish(s)

MigrationsNext ==
  \/ \E s \in Services : Start(s) \/ Lock(s) \/ Migrate(s) \/ Fail(s) \/ Crash(s)
  \/ CommitLands \/ SessionEnds

MigrationsSpec == MigrationsInit /\ [][MigrationsNext]_migrationVars

\* Services are supervised and run on, PostgreSQL notices that a client is
\* gone, and serves those who wait for the lock in turn.
FairMigrations ==
  /\ MigrationsSpec
  /\ \A s \in Services :
       /\ WF_migrationVars(Start(s)) /\ WF_migrationVars(Migrate(s))
       /\ SF_migrationVars(Lock(s))
  /\ WF_migrationVars(SessionEnds)

-------------------------------------------------------------------------------
(* Properties.                                                             *)

Serving == {s \in Services : pc[s] = "serving"}

\* Type invariant.
MigrationsTypeOK ==
  /\ pc \in [Services -> {"down", "connect", "create", "creating", "lock",
                          "serving"} \union Holding]
  /\ database \in BOOLEAN
  /\ lock \in Services \union {Free, Ghost}
  /\ record \in [Versions -> Contents \union {None}]
  /\ schema \in Seq(Versions \X Contents)
  /\ applied \in [Services -> [Versions -> Contents \union {None}]]
  /\ next \in [Services -> Nat \ {0}]
  /\ inDoubt \subseteq Versions \X Contents
  /\ faults \in 0..MaxFaults

\* At most one session migrates, that of a dead process included, whoever dies
\* or fails while it holds the lock (migrate.py:38-64).
OneMigrator ==
  /\ \A s \in Services : pc[s] \in Holding <=> lock = s
  /\ inDoubt # {} => lock = Ghost

\* What a service read of schema_migrations is still true of the versions it
\* has not come to, when it decides about them: nobody migrated meanwhile.
PictureIsCurrent ==
  \A s \in Services : pc[s] \in {"apply", "commit"} =>
    \A v \in Versions : v >= next[s] => applied[s][v] = record[v]

\* schema_migrations tells what was done to the schema: the statements in
\* effect are those of the recorded versions, each once, in their order.
RecordIsTrue ==
  /\ \A i \in DOMAIN schema : schema[i] = <<i, record[i]>>
  /\ \A v \in Versions : record[v] # None <=> v \in DOMAIN schema

\* The migrations implement SchemaLog.
SL == INSTANCE SchemaLog WITH log <- schema, serving <- Serving
ImplementsSchemaLog == SL!Spec

\* The schema was migrated with another text of a version of the service.
Conflicts(s) ==
  \E v \in DOMAIN Bundle[s] : record[v] \notin {None, Bundle[s][v]}

\* Whatever dies, fails or starts at the same time, every service comes to
\* serve in the end, unless its release conflicts with the schema.
EveryServiceStarts == \A s \in Services : <>[](pc[s] = "serving" \/ Conflicts(s))
===============================================================================
