# Grimnir in TLA+

A verification development for Grimnir, a system that senses which rooms of a
home are occupied from Wi-Fi channel state information (CSI). It holds TLA+
modules translated from the code, TLC configurations that check them on small
instances, and TLAPS proofs that the safety properties the runs check hold for every
value of the constants (section 6 names the one exception). `PROJECT.json` ties each
definition to the lines it stands for, each property to the run that checks it and to a
mutation of the code model that breaks it, and each hazard to the properties that guard against it.

Paths below are relative to `src/`.

- [1 The system](#1-the-system)
- [2 Modules and their code](#2-modules-and-their-code)
- [3 Properties and runs](#3-properties-and-runs)
- [4 Bounds](#4-bounds)
- [5 Fairness](#5-fairness)
- [6 What is proved](#6-what-is-proved)
- [7 Where code and words disagree](#7-where-code-and-words-disagree)
- [8 What is not modelled](#8-what-is-not-modelled)
- [9 Plan](#9-plan)
- [10 Running it](#10-running-it)

## 1 The system

```
 Huginn --Wi-Fi frames--> Muninn --UDP/ACK--> Geri --INSERT--> PostgreSQL (Mimir's schema)
                                                                    ^
                     dashboard (Hlidskjalf) --HTTP-->  Freki  ------+
                                                      ^     ^
                     Nornir (training daemons) --HTTP-+     +--HTTP/SSE-- Volva (inference)
```

Freki is the only service that talks to both people and daemons. It keeps no
state of its own: every request is one or more transactions, and several replicas
of it may run. What makes the system hard is therefore what happens *between*
statements, requests and processes: most of the hazards are interleavings in the
database, lost answers, and work that is taken back from a process that is not
dead.

### Components

| component | state | operations | hard behaviours | what makes it correct | module |
|---|---|---|---|---|---|
| **Freki: job queue** (`freki/.../routers/training_jobs.py`, `training_daemons.py`) | `training_jobs`: status, daemon, claim token, error, heartbeat; `training_daemons` | create, claim, heartbeat, complete, fail, cancel, register | calls of several daemons for one row; calls of a daemon that has been reaped or cancelled | a token opens one running job; a verdict is final | `TrainingJobs` |
| **Freki: orphan reaper** (`freki/.../orphan_reaper.py`) | the same table | fail what is stale, queue a copy | one reaper per replica; a heartbeat between its read and its write | a submission has exactly one row not given up; only stale rows are reaped | `TrainingJobs` |
| **Nornir** (`nornir/.../main.py`, `freki_client.py`, `train.py`) | position in the claim loop, job and token held, heartbeat task | register, list, claim, train, upload, complete or fail, heartbeat | calls without an answer or served late; two tasks; crash and restart | nobody works on another's row; a completed job has a model; every submission settles | `Nornir` |
| **Freki: model registry** (`freki/.../routers/models.py`) | `trained_models` with one active row | upload, activate | a lock and two UPDATEs in one statement in open order, rows held while others are waited for, a unique index checked at once | at most one active model, never none again, every activation answered | `ModelRegistry` |
| **Volva** (`volva/.../model_loader.py`, `predict.py`) | model in use, windows, votes, last publication | refresh the model, buffer a row, vote, publish | two tasks that interleave at awaits; a model switched mid-poll, mid-window or mid-PUT; stream outages | votes of one model; windows of one connection; the active model ends up predicting | `Volva` |
| **Freki: rooms and labels** (`freki/.../routers/labels.py`, `rooms.py`) | `rooms`, `labels`, and two tables that carry label names without a foreign key | create and delete labels and rooms, rename a room, backfill, mirror into `training_samples` | requests of several transactions, best-effort follow-ups, overlapping labels, retention | deleting one label does not erase another; the three tables agree | `Labels` |
| **Geri** (`geri/.../main.py`, `db.py`, `parser.py`) | bounded queue, partial batch, receiver cache | receive, look up, heartbeat, flush, shut down | queue at its limit; inserts that fail or whose COMMIT is in doubt; cancellation in any await | stored at most once, lost only for a named reason, in order, never stuck | `Geri` |
| **Freki: CSI stream** (`freki/.../routers/csi_stream.py`) | a cursor per consumer | find the tail, poll | rows committed behind the cursor; an empty table; a backlog | in order, none twice, only late rows missed | `CsiStream` |
| **Muninn** (`firmware/muninn/main/main.c`) | buffer pool, socket, ACK clock, Wi-Fi retries | capture, send, wait for ACKs, watch, reset the transport | a driver callback and three tasks share variables without a lock; two tasks reset at once; the network goes away | no buffer leaks, the socket in use is open, the board comes back to the network, silence is noticed | `Muninn` |
| **Mimir: migrations** (`mimir/.../migrate.py`) | the schema, `schema_migrations`, an advisory lock | create the database, read what is applied, migrate | services of different releases start at once; a process dies with a COMMIT under way | each migration once and in order; the record is true; every service starts | `Migrations` |
| **Freki: training data export** (`routers/training_data.py`, with Nornir's client and windowing) | a cursor, a buffer per receiver | page, cut windows | labels change between two pages; a page ends between receivers | in order and once, no steady row lost, windows of one label, an end | `TrainingData` |
| Freki: history, summary and prediction streams; app, auth, db | none | read | | | no |
| Mimir models and features, Huginn, syslog client, Hlidskjalf, Bifrost | none that matters | | | | no |

### How they interact

- **Nornir and Freki** share `training_jobs` through HTTP. A claim hands out a
  token; heartbeat, complete and fail are conditional on it. The reaper takes a
  row back when its heartbeat is older than `ORPHAN_TIMEOUT_S`.
- **Nornir, Freki and Volva** share `trained_models`: Nornir uploads, the operator
  activates, Volva polls for the active model in two requests.
- **Geri and Freki's stream** share `csi_samples`: Geri commits batches stamped
  with the time of arrival, the stream polls by that time, and Volva consumes it.
- **Freki's label requests** write `csi_samples.label` and mirror it into
  `training_samples`; Nornir pages through that table while requests change it.
- **Muninn and Geri** exchange datagrams and ACKs; ACKs that stay out make Muninn
  replace its socket.
- **Freki and Geri** migrate the one schema when they start.

## 2 Modules and their code

```
JobLifecycle  <-refines-  TrainingJobs  <-EXTENDS-  Nornir     <- TrainingJobs_proofs
SchemaLog     <-refines-  Migrations                           <- Migrations_proofs
                          Geri          <-EXTENDS-  CsiStream  <- CsiStream_proofs
                          ModelRegistry                        <- ModelRegistry_proofs
                          Volva                                <- Volva_proofs
                          Labels                               <- Labels_proofs
                          TrainingData                         <- TrainingData_proofs
                          Muninn                               <- Muninn_proofs
```

Every module has an `MC...` module (symmetry sets) and one cfg per run. Operators
marked "Mutant" in the modules are deliberately wrong variants of the definition
that follows them; no specification uses them. They show that a property would
notice the bug. Each component has a type invariant (`...TypeOK`), which its proof
module proves for every instance.
A `..._proofs` module extends the component's and holds the inductive invariant,
the lemmas and the theorems; section 6 goes through them.

**`JobLifecycle`** is what the operator is promised: a submission is queued, handed
out, perhaps taken back, and settled once.

**`TrainingJobs`** has one function per column of the table. An endpoint is one
conditional `UPDATE`, so its `WHERE` clause is the guard of its action and its 404
and 409 answers are the states where the guard is false. The reaper is a single
statement too, but it reads a snapshot (`ReapScan`), waits for row locks, re-checks
each row as READ COMMITTED demands (`StillStale`) and then writes (`ReapCommit`);
everyone else commits in between, and each replica has its own reaper. `origin` is
history: the submission a row was copied from. `JobLifecycle` is implemented with
`phase` mapped to the status of the one row of a submission that was not given up.
An age is counted up to `OrphanTimeout + 1`, because the code compares no other.

**`Nornir`** extends the table with daemons. `pc` is the line of the claim loop a
daemon is at, `hb` the state of its heartbeat task. `Call` is the HTTP client: a
call is answered with success, answered with another status (`FrekiError`), or not
answered (an httpx exception, which neither `except FrekiError` nor `except OSError`
catches). An unanswered request may have been served, may be served later
(`LateCall`), or never. An uncaught exception ends the process (`Exit`), and the
supervisor starts another (`Start`); `Crash` kills one anywhere. Feature extraction
and fit are one step, `Train`, that succeeds or fails.

**`ModelRegistry`** splits the one statement of `activate_model` into what it does to
rows: its main query locks the target (`LockTarget`, the `FOR UPDATE`) and switches it
on (`SetTarget`), the CTE `cleared` switches off the other row that was active in the
statement's snapshot (`ClearOthers`). PostgreSQL leaves open where in the main query a
data-modifying CTE is executed, so `before`, the steps of the main query that come
first, is any of `MainSteps`. A session keeps the rows it has locked or written
(`held`) until its transaction ends, also while it waits for a row of another or,
in `SetTarget`, for transactions that have the unique index in doubt (`Blockers`).
After the wait a row is looked at again: one that was switched off meanwhile is left
alone, but stays locked. The index is checked when the target is switched on; a
statement that violates it fails (`End`). An id without a model locks nothing and sets
nothing, yet runs `cleared`, which `NotFound` rolls back. Sessions that wait for each
other in a circle (`Deadlocked`) lose one of their statements (`DeadlockDetected`).

**`Volva`** interleaves `refresh_loop` (`FetchMetadata`, then `LoadModel`) and
`stream_loop` (`BufferRow`, `DiscardWindow`, `Vote`, then `PutSucceeds` or
`PutFails`) at their awaits. Rows carry the connection and votes the model they
came from, as history. What a window predicts is any room: the classifier is not
modelled. `SwapModel` is the `active_model_id` test of `predict.py:195` that
throws old votes away. `Crash` is the end of the process in any await: model,
windows, votes and what was last published go, a PUT under way may still be stored.

**`Labels`** goes through each request statement by statement. What a transaction
has not committed is in `req`, rows it wrote are locked, and reads use the snapshot
of the statement. `Backfill` and `TrainingRead`/`TrainingWrite` are the best-effort
transactions that follow a commit, `Abort` is their statement timeout or failure,
`Expire` is the retention of `csi_samples`. A label that a second request deletes
at once matches no row, which the ORM only warns of, so that request goes on as in
the code. Times in `skipped` had best-effort work given up; times in `contended`
were touched by two requests at once.

**`Geri`** has the protocol (`Arrive`), the writer (`Take`, `LookedUp`,
`HeartbeatDone`, `Insert`, `IdleFlush`) and the end of the process in every await
(`StopWaiting` with its `FinalInsert`, `Killed`, `Restart`). An insert commits,
rolls back, or fails with its COMMIT in doubt, in which case the rows may `Land`
later. `excused` is history: packets that a full queue, the database or the end of
the process may have cost.

**`CsiStream`** composes the stream with the Geri processes over one table.
`Connect`, `FindTail`, `Poll` and `Disconnect` are `_event_generator`. Its cursor is
the pair (time, receiver_id); no two rows of the model share a time, which so stands
for the pair. One run checks the properties of both modules.

**`Migrations`** has the line of `run_migrations` each service is at (`pc`), what it
read of `schema_migrations` (`applied`) and the version it has come to. Statements
and record of a migration take effect in `Commit`, because they are one transaction;
an SQL file is its checksum. A process that dies leaves a session behind: the lock
then belongs to `Ghost`, and a COMMIT it had sent is in `inDoubt` until it lands or
PostgreSQL ends the session. Connecting to a database that is not there, and
creating it, are steps of their own, since two services may both try; the one that
comes second fails with an error the code does not tolerate, and is started again.
`SchemaLog` is what it implements: a log of migrations extended in order, and
services at work only on a schema that holds all of theirs.

**`TrainingData`** has one action per page (`Page`), one per row the windowing takes
(`Consume`) and, between any two of them, the commits of label requests, which here
are whole transactions: `Relabel` (backfill or clear), `Mirror` (insert or resync of
training rows), `Rename`. Their order and their failures are the subject of `Labels`.
Without permission on `training_samples` Freki pages through `csi_samples`
(`Source`), and the permission may come in the middle (`Grant`). `Fit` ends the job: it
fails without windows, and may fail with them (features of different widths, or the
fit itself). `emitted` and
`steady` are history.

**`Muninn`** steps from one access of a shared variable to the next: that is where
the tasks, which run on two cores without a lock, can interleave. `Frame` is the
callback (taking, filling and queueing an entry is one step, for nobody else sees
the entry meanwhile). `CheckFlag`, `TakeSocket`, `DropSocket`, `CloseSocket`,
`OpenSocket` and `Lookup` are `reset_udp_transport`, which the send task and the
watchdog may run at the same time; when they do, one may close the socket of the
other, or leave one open that nobody uses. `Watch` is one round of the watchdog up to
its first look at the stamp it goes by, `JudgeStamp` its second look, which finds what
the ACK task or a reset has written meanwhile and so may reset the transport without
need. The armed flag and the first look are one step. The ACK clock is kept as ages. An ACK may
answer any datagram a socket ever sent, and never has to come. A failed `bind` and a
failed lookup restart the board (`Lookup`); a lookup succeeds with the network or,
for as long as the resolver's cache holds (`Forget`), without.

## 3 Properties and runs

Twelve runs, nine that pass and three that show a disagreement (section 7).
Distinct states are TLC's, under symmetry where stated.

### `job_table` — `MCTrainingJobs.cfg`
The table alone, with *any* legal order of calls: `JobNext` does not assume that
daemons behave, so what it shows holds for daemons that are late, wrong or
restarted. Two daemons, two replicas, three rows.
`OneCurrentRow` (two reapers never double a submission, and nothing
settled is queued again); `NoSubmissionLost` (nothing is reaped without its copy);
`TokensOpenOneJob`; `VerdictIsFinal`; `ReapsOnlyStale` (a heartbeat that lands while
the reaper works saves the job); `ImplementsLifecycle` (the refinement).

### `nornir` — `MCNornir.cfg` (79,480 states)
Two daemons on the table, with failed, lost and late calls and a killed daemon.
`CompleteHasModel` (a job is complete only if a model of it was
stored, late and repeated requests included); `OneModelPerRow` (repeated work is
stored under a new row, never the old one); `OneHolder` (two daemons never work on one
row, and a row that runs while a daemon works on it is still that daemon's, under the
token it was given: no late claim and no reaper has handed it on);
`EverySubmissionSettles` (whatever fails finitely often, each queued submission ends
complete, failed or cancelled).

### `model_registry` — `MCModelRegistry.cfg` (48,771 states)
Three models, two concurrent activations. `AtMostOneActive`; `NeverWithoutModel`;
`SuccessMeansActive` (although a session chose what to clear from an older snapshot, a
200 answer means its target is the active model); `DeadlockNeedsOvertaking`
(activations hold rows while they wait, and a deadlock can arise; but it takes a
session whose snapshot another activation has made stale, or one whose plan takes the
rows in another order); `EveryActivationAnswered` (each activation is answered and its
transaction ended, through waits with rows held, for ids without a model, and in
deadlocks, which PostgreSQL breaks up).

### `volva` — `MCVolva.cfg` (80,260 states)
`VotesOfOneModel` (no vote is aggregated with, or credited to, another model);
`WindowsAreUnbroken` (no window that voted spans an outage); `SkipIsHarmless` (as
long as no request failed, skipping a publication as unchanged leaves Freki with
the right rooms); `ActiveModelPredicts` (once the operator leaves a model active and
the stream stays up, Freki's prediction comes from that model for good, a restart
of Volva included).

### `labels` — `MCLabels.cfg` (1,110,363 states)
`SurvivorsStayLabelled`
and `SurvivorsStayTrained` (deleting one of several overlapping labels never leaves
a sample of the others without a label or a training row, whatever else runs);
`SequentialIsExact` (requests that did not meet leave the three tables in
agreement). Samples whose best-effort work was given up are excluded: the code logs
and forgets them.

### `csi_stream` — `MCCsiStream.cfg` (25,524 states)
Two Geri processes and a consumer of the stream. `StoredOnce` (`csi_samples` has no
key, so only the code's refusal to retry an insert prevents doubles);
`NothingVanishes` (a packet is stored, on its way, or lost for one of three
reasons); `EveryPacketSettles` (no packet is stuck in a partial batch when traffic
stops); `StreamInOrder`; `MissesOnlyLate` (the only rows left out are those
committed behind the cursor, however long the backlog is); `StreamCatchesUp`.

### `migrations` — `MCMigrations.cfg` (30,839 states)
Three services: Geri with two migrations, a Freki of the release before with the
first only, and a build in which the second was edited after its release. Two
faults. `PictureIsCurrent` (what a service read before it migrates is still true of
every version it has not come to: nobody else migrates meanwhile, not even the
session of a process that died); `RecordIsTrue` (the statements in effect are those
recorded, each once and in order); `ImplementsSchemaLog` (the refinement; with it, no
service works on a schema that lacks one of its migrations or holds another text of
it); `EveryServiceStarts` (whoever dies, fails or starts at the same time, a service
comes to serve unless its release conflicts with the schema).

### `training_data` — `MCTrainingData.cfg` (126,879 states)
A job over six rows, three to a page, while two commits of label requests fall
between any of its steps. `ExportInOrder`; `SteadyRowsExported` (a row nobody
relabels is exported with its label, however the rows around it and around the page
boundary come and go); `WindowsAreRuns` (a window is consecutive rows of one
receiver under one label, and no row is in two); `ExportEnds`.

### `muninn` — `MCMuninn.cfg` (327,824 states)
One receiver with all its tasks. `BuffersConserved`; `SocketIsOpen` (however two
resets meet, the socket the board then sends with is open and the flag is down);
`HeardReceiverReconnects` (nothing in the code connects again once the retries are
used up, yet a board that hears Huginn comes back: sending fails, the transport is
reset, the lookup fails, the board restarts); `SilenceIsNoticed` (while Huginn is
heard and the network is there, ACKs that stay out lead to a reset, however the
ACK task's stamping and arming meets the other tasks' clearing).

### `nornir_heartbeat`, `model_registry_index`, `csi_backlog`
One property each, which says what a comment or docstring of the code says and is violated:
section 7.

## 4 Bounds

Every bound is a constant, and a guard or an assumption of the module names it.

| run | instance | why the interesting cases happen |
|---|---|---|
| `job_table` | `MaxJobs` 3, 2 daemons, 2 replicas, `OrphanTimeout` 0 | both replicas scan the same stale row; a copy is itself reaped and copied. The theorems of section 6 need none of these bounds |
| `nornir` | `MaxJobs` 3, `MaxSubmissions` 1, `MaxFaults` 1, `MaxCrashes` 1, `OrphanTimeout` 2, `HbInterval` 1 | each fault or crash costs at most one row, so `MaxSubmissions + MaxFaults + MaxCrashes <= MaxJobs` (an assumption of the module) means that the reaper never runs out of rows; a submission may be reaped twice and still settles; two heartbeats fit into the timeout, as in the code, where several do. With 4 rows and 2 faults the safety properties pass too (943,323 states, daemons symmetric), and their theorems need no bound |
| `model_registry` | 3 models, 2 sessions | activations of different targets while a third row is active; each holds a row and waits for the other's, with stale snapshots and in either order. With 3 sessions the safety properties pass too (125,827 states, models and sessions symmetric) |
| `volva` | `Window` 2, `VoteHistory` 2, 2 rooms, 2 receivers, 2 models, 2 connections, 2 switches, 1 fault (a failed request or a crash) | a partial window meets a switch or an outage; votes tie and are forgotten; a model is switched back |
| `labels` | 2 rooms, `LastTime` 2, `MaxLabels` 2, 2 sessions | two labels that overlap, touch or nest, deleted or renamed while the other is backfilled |
| `csi_stream` | 2 processes, `QueueSize` 2, `BatchSize` 2, `MaxPackets` 3, `MaxBatch` 1, 1 receiver | the queue overflows while a batch waits; a partial batch remains; a row is committed behind the cursor; a backlog takes several polls. With 4 packets (272,980 states) the run passes too, in about five minutes |
| `migrations` | 3 services, 2 versions, 2 faults | a service dies with a COMMIT in doubt while another waits for the lock; a third finds a schema newer than itself, or in conflict with it |
| `training_data` | 3 times, 2 receivers, pages of 3, windows of 2, 2 rooms, 2 commits | a page ends between two receivers of one moment and, with two full pages, exactly at the end; a label changes inside a window |
| `muninn` | `Pool` 1, 2 sockets, `MaxRetry` 1, `AckTimeout` 0, `CsiGrace` 1 | the pool is empty while the entry is in hand; both tasks reset at once and the sockets run out; with a grace of 0 any unit of time would end what `SilenceIsNoticed` is about |

`ListLimit` is 50 as in the code, so no instance reaches the case in which more
jobs are queued than a page holds; the hazard list says so.

Model values are symmetric where neither a property nor the code tells them apart
(daemons and replicas in `job_table`, rooms and sessions in `labels`).
Symmetry is not used where liveness is checked.

## 5 Fairness

Fairness is stated only for what the code or the database keeps doing.

| specification | fairness | justification |
|---|---|---|
| `FairSpec` of `Nornir` | weak for `Start`, `DaemonStep`, `JobHeartbeat`, `Reap`, `Tick` | the daemon is supervised (`restart: unless-stopped`, Kubernetes), its loops never return, `reaper_loop` catches every exception and goes on. Steps that use up a fault are not fair: failing is nobody's duty. Nothing is owed by the operator or by late calls |
| `FairRegistry` | strong for `LockTarget` and the two `UPDATE`s, weak for `Commit`, `NotFound` and `DeadlockDetected` | a statement that waits for a row lock is served in turn; the lock may be free and taken again infinitely often, hence strong. PostgreSQL looks for a deadlock when a wait has lasted `deadlock_timeout` |
| `FairSpec` of `Volva` | weak for `FetchMetadata` and `Connect`, strong for `LoadModel`, `PutSucceeds` and the rows of each receiver | both loops run for ever and catch what fails; `LoadModel` is disabled again and again by switches, rows by reconnections and PUTs. That rows keep coming is an assumption on the receivers |
| `FairIngest` | weak for `WriterStep`, and for `FindTail \/ Poll` | the writer loop and the generator run as long as their process or consumer does. No restart is owed |
| `FairMigrations` | weak for `Start`, `Migrate` and `SessionEnds`, strong for `Lock` | services are supervised; PostgreSQL notices that a client is gone, and wakes those who wait for an advisory lock in turn. Failing, and a COMMIT that lands, are nobody's duty |
| `FairData` | weak for `Page \/ Consume \/ Fit` | Nornir asks for the next page until there is none. `PageFails` is not fair |
| `FairMuninn` | weak for the tasks, `Tick`, `Forget` and `Frame`; strong for `GotIp` and for a send that fails without a network | the scheduler runs every task, time passes, cache entries expire. That Huginn is heard and that an access point which is tried again and again lets the board in are assumptions on the surroundings. No ACK is owed, and no lookup has to fail while the network is there |

`ActiveModelPredicts` assumes besides that the connection finally stays, and
`StreamCatchesUp` that the consumer does. `HeardReceiverReconnects` assumes that the
aggregator is configured by its host name: an IP address is looked up without a
network, and then nothing restarts the board.

## 6 What is proved

Eight proof modules, one per component (the daemons with the table they work on, the
stream with the Geri processes it reads from), prove every safety property the
passing runs check but `DeadlockNeedsOvertaking`, and both refinements, for **every** value of the constants. Each
rests on the named assumptions of its component only, which say of what kind the
constants are (natural numbers, positive sizes, null values outside the sets they
stand beside). Two of them say more. `NornirAssumption` has the bounds of the model
fit each other; the theorems about the table alone do not use it. And
`TrainingDataAssumption` has the rows of the export be finite in number, as rows in
a database are, because `InOrder` counts them.

All follow one pattern. The property is seldom inductive; `IInv` (or `NInv`, `GInv`,
`SInv`, `DInv`) adds what it needs, was checked by TLC on the instance of the
component's run first, and is shown to hold initially and to be kept by every
action, one lemma per action or per group of actions that disturb the same
conjuncts. Below, for each module: what is proved, and what the added clauses are for.

### `TrainingJobs_proofs` (1,625 obligations): the job table, and Nornir on it

| theorem | property |
|---|---|
| `JobsInvariant`, `JobsTypeOK`, `JobTokens`, `JobOneCurrentRow`, `JobNoSubmissionLost` | `IInv`, `TypeOK`, `TokensOpenOneJob`, `OneCurrentRow`, `NoSubmissionLost` |
| `JobVerdictIsFinal`, `JobReapsOnlyStale` | the action properties |
| `JobsImplementLifecycle` | `ImplementsLifecycle` |
| `JobsTokensFit` | no more tokens are drawn than there are rows |
| `NornirInvariant`, `NornirTypes`, `NornirOneHolder`, `NornirOneModelPerRow`, `NornirCompleteHasModel` | `NInv`, `NornirTypeOK`, `OneHolder`, `OneModelPerRow`, `CompleteHasModel` |
| `NornirIsJobs`, `NornirImplementsLifecycle` | `Spec => JobSpec`, hence the refinement |

**The table.** `IInv == TypeOK /\ RowsAreNumbered /\ TokensOpenOneJob /\
OneCurrentRow /\ NoSubmissionLost`. `OneCurrentRow` is about rows that stand for the
same submission, and a step that inserts row `lastId + 1` keeps it only if no older
row has that number as its `origin` (a copy comes after what it copies), which is a
clause of `RowsAreNumbered`. `TokensOpenOneJob` survives a claim because tokens in
use do not exceed `lastToken`, another clause; and closing a row keeps
`NoSubmissionLost` because only failed rows are ever reaped, a third. `ReapIInv` is
the hard step: the statement fails a set of rows and inserts a bijective copy of it,
and each new row is followed back along that bijection. The re-check under the lock
matters there: a row in the snapshot that is no longer stale is neither failed nor
copied.

**The refinement.** `PhaseIsStatus` turns the `CHOOSE` in the mapping into a table
(by `OneCurrentRow` and `NoSubmissionLost` the chosen row exists and is unique).
Then each endpoint is a `JobLifecycle` step or a stutter, and a reaper's commit is
one abstract step that takes back a set of submissions.

**Nornir.** `NInv` has `IInv` and `TokensFit` of the table, and of the daemons:
`WorkIsTaken` (what a daemon holds, or a late upload is for, was claimed once and so
is never queued again, by which nobody is handed it a second time); `ModelsAreOwed`
(a model is owed by one daemon or one unserved call at most, and until it is served
is not there), from which `OneModelPerRow` follows; `CompleteIsBacked` (who reports
a row complete, even in a call that arrives late, has uploaded its model before),
from which `CompleteHasModel` follows. `OneHolder` is kept by a claim because what it
hands out was never taken before, and by every other step because a row once taken keeps
its daemon and its token for as long as it runs (`ClaimStays`).
`StepIsJobStep` shows that every step of the
composition is a step of the table or leaves it alone, so the theorems about the
table, where any daemon may send any token at any time, are theorems about Nornir.

### `ModelRegistry_proofs` (300)

`RegistryInvariant`, `RegistryTypes`, `RegistryOneActive` (`AtMostOneActive`),
`RegistryNeverWithout` (`NeverWithoutModel`), `RegistrySuccess`
(`SuccessMeansActive`). Activations hold different rows while they wait, and what they
clear was chosen from snapshots of different ages. `OneSets` says that one of them at
most has switched its target on: the index has the others wait for what it wrote.
`SetCoversActive` says that by then it has switched off all the rest, its stale
snapshot notwithstanding: the index let it pass, and nobody has switched a row on
since. `NothingClearedBefore` is for the orders in which the target is set before
`cleared` runs. `StatementsOK` says what kind of record a statement is.

### `Volva_proofs` (465)

`VolvaInvariant`, `VolvaTypes`, `VolvaOneModel` (`VotesOfOneModel`), `VolvaUnbroken`
(`WindowsAreUnbroken`), `VolvaSkip` (`SkipIsHarmless`). `BuffersOfConnection` (rows
buffered came over the connection that is up) carries `WindowsAreUnbroken` over a
reconnection. `SkipIsHarmless` compares what was last published with what the votes
say now, and needs the way between them: `PublishesTheVotes` (an awaited PUT carries
what the votes say; none is cast meanwhile), `PublishedTheVotes` (until a request
fails, so does the last one), `StoredIsPublished` (and Freki has it). Lemmas about
`Count` and `Winner` show that a vote wins, by well-foundedness of the naturals.

### `Labels_proofs` (1,652)

`LabelsInvariant`, `LabelsTypes`, `LabelsSurvive` (`SurvivorsStayLabelled`),
`LabelsSurviveTrained` (`SurvivorsStayTrained`), `LabelsSequential`
(`SequentialIsExact`). The statements of two requests interleave, so the clauses say
what a request still owes:

- `ReappliesSurvivors`: a delete that has cleared its window knows every label it
  must apply again, unless the label has come since and its backfill waits, or was
  given up. Without it clearing loses `SurvivorsStayLabelled` at once.
- `TrainingIsOwed`: a labelled sample has a training row that nobody is about to
  remove, or a request will still give it one. It holds *during* follow-ups, where
  `SurvivorsStayTrained` speaks only of their end.
- `AloneUnlessContended` and `AloneIsInTune`: a request that is alone on a sample has
  read what the tables still say of it (its snapshot, the labels to apply again, the
  rows it selected). `SequentialIsExact` is what they leave when it is done.

`SetsReq` and the lemmas after it say once what a statement of one request leaves of
these clauses; the actions cite them.

### `CsiStream_proofs` (1,662): Geri, and the stream over its table

`GeriInvariant`, `GeriStoresOnce` (`StoredOnce`) and `GeriLosesNothing`
(`NothingVanishes`) are about `GeriSpec`; `IngestIsGeri` shows that the stream
restricts none of it; `IngestInvariant`, `IngestTypes`, `StreamOrder`
(`StreamInOrder`) and `StreamMisses` (`MissesOnlyLate`) are about the composition.

- `OnePlace`: a packet is in one place, once (in a queue, a batch, a hand, an insert
  in doubt, or the table). `StoredOnce` is the part of it about the table; an insert
  keeps it only because its rows were nowhere else. `AllArrived` makes the next
  arrival new, by its time.
- `CursorKeepsUp`: what was emitted ends at or before the cursor, and the cursor is
  the time of a row the table has. `InOrder` counts the rows before each row, so a
  poll emits in order by `RankTaken`: every rank is taken by a row, which is shown
  by the absence of a first rank that is not.

### `Migrations_proofs` (511)

`MigrationsInvariant`, `MigrationsOneMigrator`, `MigrationsPicture`
(`PictureIsCurrent`), `MigrationsRecord` (`RecordIsTrue`) and
`MigrationsImplementSchemaLog` (`ImplementsSchemaLog`). `OneMigrator` ties every
session that may write, that of a dead process included, to the one advisory lock,
and makes `PictureIsCurrent` survive the steps of others. `ServicesReach` says that
a service has its release's migrations as far as it has come, which is what
`SchemaLog` asks of a service at work; `DoubtIsNext` says that a COMMIT in doubt, when it
lands, is the next entry of the log. In the refinement a `Commit`, or a COMMIT that
lands, is the abstract extension of the log, a last step of a service is that it
comes to work, and all else stutters.

### `Muninn_proofs` (382)

`MuninnInvariant`, `MuninnTypes`, `MuninnBuffers` (`BuffersConserved`) and
`MuninnSocket` (`SocketIsOpen`). Two tasks may be in `reset_udp_transport` at once,
and one may close the socket of the other. `OpenOrOwed` says that then somebody is
between its `close` and its `socket()`, and so will open one; `FlagHasOwner`, that the flag is up
only while somebody resets; `BootIsQuiet`, that the tasks are at rest before
`app_main` starts them.

### `TrainingData_proofs` (1,232)

`TrainingDataInvariant`, `TrainingDataTypes`, `RowsArriveInOrder` (`ExportInOrder`),
`NoSteadyRowLost` (`SteadyRowsExported`), `WindowsCutRuns` (`WindowsAreRuns`).

- `CursorIsLast`: the cursor is the last row received, which puts every page behind
  all pages before it. `SteadyAgree`: a steady row has the same label in both
  tables, so a permission that comes between two pages loses none.
- `InOrderIsSorted`: the rows of a page precede all that match and were not taken
  (again by ranks). With it a steady row up to the cursor has been received.
- `PageIsRest`, `BuffersAreRuns`, `WindowsAreTaken`: the windowing has taken a
  prefix of what was received; a partial window ends with the last row of its receiver in
  that prefix, so the next one is adjacent to it; rows of windows are in that prefix
  and in no partial window, so no row is cut twice.

### What is only model-checked

Liveness under fairness and `ENABLED` are beyond the prover, so
`EverySubmissionSettles`, `EveryActivationAnswered`, `ActiveModelPredicts`,
`EveryPacketSettles`, `StreamCatchesUp`, `EveryServiceStarts`, `ExportEnds`,
`HeardReceiverReconnects` and `SilenceIsNoticed` stay with TLC, and so do the three
disagreements of section 7, each of which needs its counterexample.
`DeadlockNeedsOvertaking` is an invariant, but about the transitive closure of waiting;
it too is checked by TLC only. Induction over
data is beyond it too; where a fact about sequences or ranks calls for one, the
proofs look at the least counterexample instead (`NatLessThanWellFounded`), and no
module declares a `RECURSIVE` operator.

## 7 Where code and words disagree

Shown by a run:

- **`nornir_heartbeat`.** `_periodic_job_heartbeat` catches `FrekiError` only. A
  heartbeat without an answer raises an httpx exception, ends the task, and the job
  trains on without heartbeats, against its docstring (`nornir/.../main.py:113`). It
  is then reaped and trained again. `EverySubmissionSettles` shows that the system
  recovers.
- **`model_registry_index`.** If the main `UPDATE` runs before the CTE that clears,
  the unique index is violated and the activation is answered with 500, against the
  comment at `freki/.../routers/models.py:182-183`. `AtMostOneActive` and
  `NeverWithoutModel` show that the data stay sound.
- **`csi_backlog`.** A consumer that has fallen behind by more than `MAX_BATCH` rows is
  sent the oldest of them and the rest poll by poll (`ORDER BY ... LIMIT`,
  `csi_stream.py:86-93`), while the docstring says that rows older than the batch tail
  are dropped (`csi_stream.py:13-15`) and the reference that older backlog is skipped
  (`docs/api-reference.md:154`). `MissesOnlyLate` and `StreamCatchesUp` show what holds
  instead: nothing is dropped, so a consumer that was slow infers on old rows until it
  has caught up.

Noticed while modelling, and kept as notes of the hazards without a run:

- a label deleted between its commit and its background backfill is backfilled
  afterwards, against `labels.py:240-241`;
- Muninn's documents say that the board reboots when ACKs stop
  (`firmware/config.h:64-66`, `docs/udp-wire-protocol.md:21-22`,
  `docs/firmware-build-and-flash.md:40`); the watchdog replaces the socket, and only a
  failed lookup or socket reboots;
- once its retries of the Wi-Fi are used up, a board that hears no Huginn, or whose
  aggregator is given as an IP address, stays off the network until it is switched
  off;
- two services that create the database at the same moment: the second fails with an
  IntegrityError, while `migrate.py:112` tolerates a ProgrammingError only; the
  supervisor starts it again;
- a migration merged under a lower number than one already applied is executed out
  of order; `Migrations` assumes that releases add at the end;
- a room renamed in the middle of an export loses the rest of its rows to it, and
  room names with a comma match nothing, because the client joins the names with
  commas (`training_data.py:138` splits them) although `create_job` accepts them;
- a PUT of Volva that Freki serves late would overwrite a newer one;
- votes of a receiver that went silent count for ever (`predict.py:213-222`, #87);
  label follow-ups that time out are never repeated (#64); a job that kills every
  daemon is queued again for ever (there is no limit on retries);
- registration is announced to be retried (`nornir/.../main.py:272`), but an httpx
  exception ends the process; the supervisor does the retry;
- the page of queued jobs holds the 50 newest, so old submissions can starve;
- when the answer to a PUT is lost, a return to the previous rooms is skipped as
  unchanged while Freki shows the others;
- overlapping label requests can leave `training_samples` different from
  `csi_samples`, and a rename misses a backfill that commits meanwhile;
- rebuilding training rows from samples drops those past the 14 days of retention;
- Geri's batch timeout starts again with every packet, and the queue is dropped at
  shutdown, only the batch is flushed;
- two activations may deadlock; PostgreSQL fails one, which is answered with 500 and
  not tried again;
- a stream that connects to an empty table starts at the first row it finds there,
  so it leaves that row out;
- `bifrost/helm/grimnir/values.yaml:67` calls Geri safe to scale; with two processes
  rows are committed behind the cursor of a stream, which leaves them out.

## 8 What is not modelled

- **Data.** The layout of datagrams, features, the fit, and predictions: a
  prediction is any room, training succeeds or fails.
- **Geri:** how often it sends ACKs (their effect is in `Muninn`), the rows of
  `receiver_heartbeats`, and how long a timeout takes.
- **Labels:** samples that arrive after their label was backfilled; the floor of a
  room. The trigger of migration 002 is dropped by migration 005, so the mirror is
  the application's alone.
- **Volva:** a PUT that is served after it was given up and followed by another; its
  health endpoint, and Freki's stream of predictions to browsers.
- **Muninn:** the filter of frames by address, metrics, and the syslog client.
- **Migrations:** what the SQL does, migrations inserted between released ones, and a
  schema made by hand with `psql` before the first service starts.
- **Training data:** a window size of 0, which the API accepts; `WindowSize` is at
  least 1.
- **Read-only parts and wiring:** history and summary endpoints, authentication,
  configuration, the dashboard, deployment files. They keep no state, or, as
  deployment does, decide the actors and faults of the models.
- **Huginn:** no state beyond the driver's.
- **PostgreSQL** is modelled by what the code relies on: READ COMMITTED snapshots,
  row locks with re-check, immediate unique indexes, rollback. These definitions
  are marked external in `PROJECT.json`, as are the supervisor, the operator and
  the clock.

## 9 Plan

Proofs that remain:

1. What the components owe each other: a claim's token, a model's row and its
   activation are proved about module by module; stated end to end (a prediction
   comes from a model that was trained for a submission and activated) they need the
   composition below.
2. `IngestIsGeri` and `NornirIsJobs` show that a composition restricts no component;
   the same for a registry under Nornir's uploads and Volva's polls.
3. Abstract specifications for the registry (one register that activations write)
   and for the export (a snapshot of the steady rows), and the detailed modules as
   their implementations.

Modelling that remains: samples that Geri inserts after the backfill of their window
(`Labels` with `Geri`), Geri's rate of ACKs against the receiver's timeout, and a
submission followed from the queue to a prediction (`Nornir` with `ModelRegistry` and
`Volva`).

## 10 Running it

```
tlc -workers 2 -config MCTrainingJobs.cfg MCTrainingJobs
tlapm TrainingJobs_proofs.tla
```

`tlapm` checks each `..._proofs` module alike; from nothing, the largest takes a few
minutes.

Each cfg names its module in `PROJECT.json` under `runs`. The longest run takes
about three minutes on two workers. No cfg replaces a definition, and deadlock is
checked in every run.
