----------------------------- MODULE TrainingJobs -----------------------------
(***************************************************************************)
(* The training_jobs table as Freki serves it: the job endpoints of        *)
(* routers/training_jobs.py, the registration endpoint of                  *)
(* routers/training_daemons.py and the orphan reaper of orphan_reaper.py.  *)
(* One function per column, indexed by row id.  An endpoint is one         *)
(* conditional UPDATE; its 404, 409 and 422 answers change nothing and     *)
(* are the states where its guard is false.                                *)
(*                                                                         *)
(* The reaper is one statement too, but a long one: it reads its snapshot, *)
(* then locks and re-checks each row (READ COMMITTED), and other           *)
(* transactions commit in between.  It is modelled in two steps, and every *)
(* Freki replica runs its own.                                             *)
(*                                                                         *)
(* Time is the age of heartbeat_at, counted up to OrphanTimeout + 1, the   *)
(* first age at which the row is stale: the code compares no other age.    *)
(***************************************************************************)
EXTENDS Naturals, Functions

CONSTANTS
  MaxJobs,          \* bound on the rows of training_jobs
  Daemons,          \* ids a training_daemons row may have
  Replicas,         \* Freki processes, each with a reaper task
  OrphanTimeout,    \* ORPHAN_TIMEOUT_S, in ticks
  NoDaemon          \* daemon_id IS NULL

ASSUME JobsAssumption ==
  /\ MaxJobs \in Nat
  /\ OrphanTimeout \in Nat
  /\ NoDaemon \notin Daemons

VARIABLES
  status,           \* column status; "absent" until the row is inserted
  daemonId,         \* column daemon_id
  claimToken,       \* column claim_token, 0 for NULL
  error,            \* column error
  age,              \* NOW() - heartbeat_at, kept for running rows
  origin,           \* history: the submitted row this one is a copy of
  lastId,           \* the SERIAL sequence of the table
  lastToken,        \* claim tokens drawn so far
  registered,       \* rows of training_daemons
  scan              \* rows a replica's reaper statement has read as stale

jobVars == <<status, daemonId, claimToken, error, age, origin, lastId,
             lastToken, registered, scan>>

JobIds == 1..MaxJobs
Tokens == 1..MaxJobs
NoToken == 0
NoError == "none"
HeartbeatTimeout == "daemon heartbeat timeout"

Stale == OrphanTimeout + 1
Live == {"queued", "running"}
Statuses == {"absent", "complete", "failed", "cancelled"} \union Live

\* Mutant: rows are left alone however long they have been silent.
NeverStale(j) == status[j] = "running" /\ age[j] > Stale

IsStale(j) == status[j] = "running" /\ age[j] = Stale
Reaped(j) == error[j] = HeartbeatTimeout
Rows == {j \in JobIds : status[j] # "absent"}

\* The WHERE clause of heartbeat, complete and fail.
Owns(j, d, t) ==
  /\ status[j] = "running"
  /\ daemonId[j] = d
  /\ claimToken[j] = t

\* Mutant: the claim does not look at the status of the row ...
ClaimableWhileLive(j, d) == d \in registered /\ status[j] \in Live

\* Mutant: ... or takes failed work up again.
ClaimableWhenFailed(j, d) == d \in registered /\ status[j] \in {"queued", "failed"}

\* The WHERE clause of claim, which also wants a registered daemon.
Claimable(j, d) == d \in registered /\ status[j] = "queued"

JobInit ==
  /\ status = [j \in JobIds |-> "absent"]
  /\ daemonId = [j \in JobIds |-> NoDaemon]
  /\ claimToken = [j \in JobIds |-> NoToken]
  /\ error = [j \in JobIds |-> NoError]
  /\ age = [j \in JobIds |-> 0]
  /\ origin = [j \in JobIds |-> j]
  /\ lastId = 0
  /\ lastToken = 0
  /\ registered = {}
  /\ scan = [r \in Replicas |-> {}]

-------------------------------------------------------------------------------
(* Endpoints.                                                              *)

RegisterDaemon(d) ==
  /\ registered' = registered \union {d}
  /\ UNCHANGED <<status, daemonId, claimToken, error, age, origin, lastId,
                 lastToken, scan>>

\* A valid specification inserts a queued row.
CreateJob ==
  /\ lastId < MaxJobs
  /\ lastId' = lastId + 1
  /\ status' = [status EXCEPT ![lastId + 1] = "queued"]
  /\ UNCHANGED <<daemonId, claimToken, error, age, origin, lastToken,
                 registered, scan>>

ClaimJob(j, d) ==
  /\ Claimable(j, d)
  /\ lastToken' = lastToken + 1
  /\ status' = [status EXCEPT ![j] = "running"]
  /\ daemonId' = [daemonId EXCEPT ![j] = d]
  /\ claimToken' = [claimToken EXCEPT ![j] = lastToken + 1]
  /\ age' = [age EXCEPT ![j] = 0]
  /\ UNCHANGED <<error, origin, lastId, registered, scan>>

HeartbeatJob(j, d, t) ==
  /\ Owns(j, d, t)
  /\ age' = [age EXCEPT ![j] = 0]
  /\ UNCHANGED <<status, daemonId, claimToken, error, origin, lastId,
                 lastToken, registered, scan>>

\* Mutant: the token of a closed job stays in the row.
CloseKeepsToken(j, outcome, err) ==
  /\ status' = [status EXCEPT ![j] = outcome]
  /\ error' = [error EXCEPT ![j] = err]
  /\ age' = [age EXCEPT ![j] = 0]
  /\ UNCHANGED <<daemonId, claimToken, origin, lastId, lastToken, registered, scan>>

\* The row leaves the running state and forgets its token.
Close(j, outcome, err) ==
  /\ status' = [status EXCEPT ![j] = outcome]
  /\ claimToken' = [claimToken EXCEPT ![j] = NoToken]
  /\ error' = [error EXCEPT ![j] = err]
  /\ age' = [age EXCEPT ![j] = 0]
  /\ UNCHANGED <<daemonId, origin, lastId, lastToken, registered, scan>>

CompleteJob(j, d, t) == Owns(j, d, t) /\ Close(j, "complete", error[j])

FailJob(j, d, t) == Owns(j, d, t) /\ Close(j, "failed", "reported")

\* Mutant: cancel takes rows of any status.
CancelAny(j) == j \in Rows /\ Close(j, "cancelled", error[j])

CancelJob(j) == status[j] \in Live /\ Close(j, "cancelled", error[j])

-------------------------------------------------------------------------------
(* The reaper.                                                             *)

\* The statement reads its snapshot and finds stale rows.
ReapScan(r) ==
  /\ scan[r] = {}
  /\ \E j \in JobIds : IsStale(j)
  /\ scan' = [scan EXCEPT ![r] = {j \in JobIds : IsStale(j)}]
  /\ UNCHANGED <<status, daemonId, claimToken, error, age, origin, lastId,
                 lastToken, registered>>

\* Mutant: what the snapshot says is acted on without a second look ...
ReapsSnapshot(r) == scan[r]

\* Mutant: ... or with one at the status only.
ReapsAnyRunning(r) == {j \in scan[r] : status[j] = "running"}

\* Having waited for each row's lock the statement evaluates its WHERE clause
\* again on the row as it now is.
StillStale(r) == {j \in scan[r] : IsStale(j)}

\* The stale rows fail and a queued copy of each is inserted, in any order.
ReapCommit(r) ==
  /\ scan[r] # {}
  /\ \E newLast \in lastId..MaxJobs :
       \E copyOf \in Bijection((lastId + 1)..newLast, StillStale(r)) :
         /\ lastId' = newLast
         /\ status' = [j \in JobIds |->
                         IF j \in StillStale(r) THEN "failed"
                         ELSE IF j \in (lastId + 1)..newLast THEN "queued"
                         ELSE status[j]]
         /\ origin' = [j \in JobIds |->
                         IF j \in (lastId + 1)..newLast THEN origin[copyOf[j]]
                         ELSE origin[j]]
  /\ error' = [j \in JobIds |->
                 IF j \in StillStale(r) THEN HeartbeatTimeout ELSE error[j]]
  /\ claimToken' = [j \in JobIds |->
                      IF j \in StillStale(r) THEN NoToken ELSE claimToken[j]]
  /\ age' = [j \in JobIds |-> IF j \in StillStale(r) THEN 0 ELSE age[j]]
  /\ scan' = [scan EXCEPT ![r] = {}]
  /\ UNCHANGED <<daemonId, lastToken, registered>>

\* Mutant: rows are failed and copied in two transactions and the second aborts.
ReapFailsHalfway(r) ==
  /\ scan[r] # {}
  /\ scan' = [scan EXCEPT ![r] = {}]
  /\ status' = [j \in JobIds |-> IF j \in StillStale(r) THEN "failed" ELSE status[j]]
  /\ error' = [j \in JobIds |->
                 IF j \in StillStale(r) THEN HeartbeatTimeout ELSE error[j]]
  /\ claimToken' = [j \in JobIds |->
                      IF j \in StillStale(r) THEN NoToken ELSE claimToken[j]]
  /\ UNCHANGED <<daemonId, age, origin, lastId, lastToken, registered>>

\* A database error or the end of the process rolls the statement back;
\* reaper_loop logs it and scans again on its next turn.
ReapAbort(r) ==
  /\ scan[r] # {}
  /\ scan' = [scan EXCEPT ![r] = {}]
  /\ UNCHANGED <<status, daemonId, claimToken, error, age, origin, lastId,
                 lastToken, registered>>

\* The clock of the database moves on.
AgeHeartbeats ==
  /\ age' = [j \in JobIds |->
               IF status[j] = "running" /\ age[j] < Stale
               THEN age[j] + 1 ELSE age[j]]
  /\ UNCHANGED <<status, daemonId, claimToken, error, origin, lastId,
                 lastToken, registered, scan>>

JobNext ==
  \/ \E d \in Daemons : RegisterDaemon(d)
  \/ CreateJob
  \/ \E j \in JobIds, d \in Daemons : ClaimJob(j, d)
  \/ \E j \in JobIds, d \in Daemons, t \in Tokens : HeartbeatJob(j, d, t)
  \/ \E j \in JobIds, d \in Daemons, t \in Tokens : CompleteJob(j, d, t)
  \/ \E j \in JobIds, d \in Daemons, t \in Tokens : FailJob(j, d, t)
  \/ \E j \in JobIds : CancelJob(j)
  \/ \E r \in Replicas : ReapScan(r)
  \/ \E r \in Replicas : ReapCommit(r)
  \/ \E r \in Replicas : ReapAbort(r)
  \/ AgeHeartbeats

JobSpec == JobInit /\ [][JobNext]_jobVars

-------------------------------------------------------------------------------
(* Properties.                                                             *)

\* Type invariant.
TypeOK ==
  /\ status \in [JobIds -> Statuses]
  /\ daemonId \in [JobIds -> Daemons \union {NoDaemon}]
  /\ claimToken \in [JobIds -> Nat]
  /\ error \in [JobIds -> {NoError, "reported", HeartbeatTimeout}]
  /\ age \in [JobIds -> 0..Stale]
  /\ origin \in [JobIds -> JobIds]
  /\ lastId \in 0..MaxJobs
  /\ lastToken \in Nat
  /\ registered \subseteq Daemons
  /\ scan \in [Replicas -> SUBSET JobIds]

\* Of all the rows that stand for one submission, only one has not been given
\* up by the reaper: however many replicas reap at once, a submission is never
\* queued twice, and a cancelled, failed or completed one is never queued again.
OneCurrentRow ==
  \A i, j \in Rows : i # j /\ origin[i] = origin[j] => Reaped(i) \/ Reaped(j)

\* No submission is lost: whatever the reaper gives up it queues again in the
\* same statement, so every submission has a row that was not given up.
NoSubmissionLost ==
  \A i \in Rows : \E j \in Rows : origin[j] = origin[i] /\ ~Reaped(j)

\* Exactly the running rows carry a claim token, and no two carry the same: the
\* token a daemon was given opens one job, and nothing after that job is closed.
TokensOpenOneJob ==
  /\ \A j \in JobIds : (status[j] = "running") <=> (claimToken[j] # NoToken)
  /\ \A i, j \in JobIds :
       claimToken[i] # NoToken /\ claimToken[i] = claimToken[j] => i = j

\* How the rows are laid out: the table fills from 1 to lastId, a copy comes
\* after what it copies, tokens come from the ones drawn, and only failed rows
\* were reaped.
RowsAreNumbered ==
  /\ \A j \in JobIds : (status[j] # "absent") <=> (j <= lastId)
  /\ \A j \in JobIds : origin[j] <= j
  /\ \A j \in JobIds : j > lastId => origin[j] = j
  /\ \A j \in JobIds : claimToken[j] <= lastToken
  /\ \A j \in JobIds : Reaped(j) => status[j] = "failed"

\* A settled row keeps its verdict for ever: nothing reopens a complete,
\* failed or cancelled job, and nothing replaces one verdict by another.
VerdictIsFinal ==
  [][\A j \in Rows : status[j] \notin Live
       => status'[j] = status[j] /\ error'[j] = error[j]]_jobVars

\* A heartbeat that lands while a reaper is at work saves its job: only a row
\* that is stale at the moment it is written to is given up.
ReapsOnlyStale ==
  [][\A j \in JobIds : Reaped(j)' /\ ~Reaped(j) => IsStale(j)]_jobVars

-------------------------------------------------------------------------------
(* The table implements the operator's view of the queue: the phase of a   *)
(* submission is the status of its one row the reaper has not given up.    *)

CurrentRow(s) == CHOOSE j \in Rows : origin[j] = s /\ ~Reaped(j)

PhaseOf(s) ==
  IF \E j \in Rows : origin[j] = s THEN status[CurrentRow(s)] ELSE "none"

phases == [s \in JobIds |-> PhaseOf(s)]

Lifecycle == INSTANCE JobLifecycle WITH Submissions <- JobIds, phase <- phases

\* Each endpoint and each reaper statement is a step of the operator's view or
\* changes nothing in it: work is lost, doubled or reopened by none of them.
ImplementsLifecycle == Lifecycle!Spec
===============================================================================
