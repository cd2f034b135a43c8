-------------------------------- MODULE Nornir --------------------------------
(***************************************************************************)
(* Nornir training daemons (nornir/main.py, freki_client.py) at work on    *)
(* Freki's job table.  A daemon is one asyncio process with two tasks that *)
(* matter here: the claim loop and, while it executes a job, the task that *)
(* refreshes the job's heartbeat.                                          *)
(*                                                                         *)
(* An HTTP call ends in one of three ways for the caller: it is answered   *)
(* with success, with another status (FrekiError), or not at all (an httpx *)
(* exception, which is no FrekiError and no OSError).  In the last case    *)
(* the request may still be on its way and be served later.                *)
(***************************************************************************)
EXTENDS TrainingJobs, FiniteSets

CONSTANTS
  ListLimit,        \* limit of list_queued_jobs
  HbInterval,       \* JOB_HEARTBEAT_S, in ticks
  MaxSubmissions,   \* bound on the jobs the operator creates
  MaxFaults,        \* bound on failed calls and failed reaper statements
  MaxCrashes        \* bound on killed daemon processes

ASSUME NornirAssumption ==
  /\ ListLimit \in Nat \ {0}
  /\ HbInterval \in 1..OrphanTimeout
  /\ MaxSubmissions + MaxFaults + MaxCrashes <= MaxJobs

VARIABLES
  pc,               \* where the claim loop of each daemon is
  todo,             \* ids it has listed and not yet tried to claim, oldest first
  held,             \* row and token of the job it executes
  hb,               \* its job heartbeat task: "off", "on" or "dead"
  hbClock,          \* ticks since that task last fired
  calls,            \* requests whose caller has given up
  models,           \* trained_models rows per training_job_id
  faults,
  crashes

daemonVars == <<pc, todo, held, hb, hbClock>>
nornirVars == <<jobVars, daemonVars, calls, models, faults, crashes>>

NoJob == [job |-> 0, token |-> NoToken]
Working == {"training", "uploading", "completing", "failing", "finishing"}
Request == [op : {"register", "claim", "heartbeat", "upload", "complete", "fail"},
            daemon : Daemons, job : 0..MaxJobs, token : 0..MaxJobs]

Req(o, d, h) == [op |-> o, daemon |-> d, job |-> h.job, token |-> h.token]

Init ==
  /\ JobInit
  /\ pc = [d \in Daemons |-> "down"]
  /\ todo = [d \in Daemons |-> {}]
  /\ held = [d \in Daemons |-> NoJob]
  /\ hb = [d \in Daemons |-> "off"]
  /\ hbClock = [d \in Daemons |-> 0]
  /\ calls = {}
  /\ models = [j \in JobIds |-> 0]
  /\ faults = 0
  /\ crashes = 0

-------------------------------------------------------------------------------
(* Calls.                                                                  *)

\* The conditions under which Freki answers a request with success.
Accepts(c) ==
  CASE c.op \in {"register", "upload"} -> TRUE
    [] c.op = "claim" -> Claimable(c.job, c.daemon)
    [] OTHER -> Owns(c.job, c.daemon, c.token)

\* upload_model looks neither at the claim nor at the status of the job.
UploadModel(j) ==
  /\ models' = [models EXCEPT ![j] = @ + 1]
  /\ UNCHANGED jobVars

Serve(c) ==
  \/ c.op = "register" /\ RegisterDaemon(c.daemon) /\ UNCHANGED models
  \/ c.op = "claim" /\ ClaimJob(c.job, c.daemon) /\ UNCHANGED models
  \/ c.op = "heartbeat" /\ HeartbeatJob(c.job, c.daemon, c.token) /\ UNCHANGED models
  \/ c.op = "complete" /\ CompleteJob(c.job, c.daemon, c.token) /\ UNCHANGED models
  \/ c.op = "fail" /\ FailJob(c.job, c.daemon, c.token) /\ UNCHANGED models
  \/ c.op = "upload" /\ UploadModel(c.job)

Fault == faults < MaxFaults /\ faults' = faults + 1

Unserved == UNCHANGED <<jobVars, models>>

\* One call and what its caller goes on to do in each case.
Call(c, success, frekiError, noAnswer) ==
  /\ UNCHANGED crashes
  /\ \/ Accepts(c) /\ Serve(c) /\ success /\ UNCHANGED <<calls, faults>>
     \/ ~Accepts(c) /\ Unserved /\ frekiError /\ UNCHANGED <<calls, faults>>
     \/ Fault /\ Unserved /\ frekiError /\ UNCHANGED calls
     \/ Fault /\ Unserved /\ noAnswer /\ calls' \in {calls, calls \union {c}}

\* A request whose caller has given up is served after all, or is lost.
LateCall ==
  \E c \in calls :
    /\ calls' = calls \ {c}
    /\ (Accepts(c) /\ Serve(c)) \/ Unserved
    /\ UNCHANGED <<daemonVars, faults, crashes>>

-------------------------------------------------------------------------------
(* A daemon.                                                               *)

Goto(d, l) == pc' = [pc EXCEPT ![d] = l] /\ UNCHANGED <<todo, held, hb, hbClock>>

\* An exception nobody catches ends the process and its tasks.
Exit(d) ==
  /\ pc' = [pc EXCEPT ![d] = "down"]
  /\ todo' = [todo EXCEPT ![d] = {}]
  /\ held' = [held EXCEPT ![d] = NoJob]
  /\ hb' = [hb EXCEPT ![d] = "off"]
  /\ hbClock' = [hbClock EXCEPT ![d] = 0]

\* The supervisor starts the process again.
Start(d) ==
  /\ pc[d] = "down"
  /\ Goto(d, "registering")
  /\ UNCHANGED <<jobVars, calls, models, faults, crashes>>

Crash(d) ==
  /\ pc[d] # "down"
  /\ crashes < MaxCrashes
  /\ crashes' = crashes + 1
  /\ Exit(d)
  /\ UNCHANGED <<jobVars, calls, models, faults>>

\* The retry loop of main catches FrekiError and OSError only.
Register(d) ==
  /\ pc[d] = "registering"
  /\ Call(Req("register", d, NoJob), Goto(d, "polling"), UNCHANGED daemonVars, Exit(d))

\* The queued rows, newest first, as far as the limit goes.
Listing ==
  LET queued == {j \in JobIds : status[j] = "queued"}
  IN  {j \in queued : Cardinality({i \in queued : i > j}) < ListLimit}

ListJobs(d) ==
  /\ pc[d] = "polling"
  /\ UNCHANGED <<jobVars, calls, models, crashes>>
  /\ \/ /\ Listing # {}
        /\ todo' = [todo EXCEPT ![d] = Listing]
        /\ pc' = [pc EXCEPT ![d] = "claiming"]
        /\ UNCHANGED <<held, hb, hbClock, faults>>
     \/ Fault /\ UNCHANGED daemonVars
     \/ Fault /\ Exit(d)

\* The next row of the list is skipped; after the last one the daemon sleeps.
Skip(d, j) ==
  /\ todo' = [todo EXCEPT ![d] = @ \ {j}]
  /\ pc' = [pc EXCEPT ![d] = IF todo[d] = {j} THEN "polling" ELSE "claiming"]
  /\ UNCHANGED <<held, hb, hbClock>>

\* A successful claim starts the job and its heartbeat task.
Begin(d, j) ==
  /\ held' = [held EXCEPT ![d] = [job |-> j, token |-> claimToken'[j]]]
  /\ hb' = [hb EXCEPT ![d] = "on"]
  /\ hbClock' = [hbClock EXCEPT ![d] = 0]
  /\ todo' = [todo EXCEPT ![d] = {}]
  /\ pc' = [pc EXCEPT ![d] = "training"]

\* The list is gone through in reverse.
Claim(d) ==
  /\ pc[d] = "claiming"
  /\ \E j \in todo[d] :
       /\ \A i \in todo[d] : j <= i
       /\ Call(Req("claim", d, [job |-> j, token |-> NoToken]),
               Begin(d, j), Skip(d, j), Exit(d))

\* Any exception in run_job, transport errors of the data download included,
\* is reported as a failure.
Train(d) ==
  /\ pc[d] = "training"
  /\ Goto(d, "uploading") \/ Goto(d, "failing")
  /\ UNCHANGED <<jobVars, calls, models, faults, crashes>>

\* Mutant: a rejected upload is only logged ...
UploadErrorIgnored(d) ==
  /\ pc[d] = "uploading"
  /\ Call(Req("upload", d, held[d]), Goto(d, "completing"), Goto(d, "completing"), Exit(d))

\* Mutant: ... or an unanswered one is tried again.
UploadRetried(d) ==
  /\ pc[d] = "uploading"
  /\ Call(Req("upload", d, held[d]), Goto(d, "completing"), Goto(d, "failing"),
          UNCHANGED daemonVars)

Upload(d) ==
  /\ pc[d] = "uploading"
  /\ Call(Req("upload", d, held[d]), Goto(d, "completing"), Goto(d, "failing"), Exit(d))

Complete(d) ==
  /\ pc[d] = "completing"
  /\ Call(Req("complete", d, held[d]), Goto(d, "finishing"), Goto(d, "finishing"), Exit(d))

Fail(d) ==
  /\ pc[d] = "failing"
  /\ Call(Req("fail", d, held[d]), Goto(d, "finishing"), Goto(d, "finishing"), Exit(d))

\* The finally clause stops the heartbeat task and awaits it, which raises what
\* the task died of.
Finish(d) ==
  /\ pc[d] = "finishing"
  /\ \/ /\ hb[d] = "on"
        /\ pc' = [pc EXCEPT ![d] = "polling"]
        /\ held' = [held EXCEPT ![d] = NoJob]
        /\ hb' = [hb EXCEPT ![d] = "off"]
        /\ hbClock' = [hbClock EXCEPT ![d] = 0]
        /\ UNCHANGED todo
     \/ hb[d] = "dead" /\ Exit(d)
  /\ UNCHANGED <<jobVars, calls, models, faults, crashes>>

\* The heartbeat task fires; FrekiError is logged, anything else ends the task.
JobHeartbeat(d) ==
  /\ hb[d] = "on"
  /\ hbClock[d] = HbInterval
  /\ LET again == hbClock' = [hbClock EXCEPT ![d] = 0] /\ UNCHANGED <<pc, todo, held, hb>>
         die == hb' = [hb EXCEPT ![d] = "dead"] /\ UNCHANGED <<pc, todo, held, hbClock>>
     IN  Call(Req("heartbeat", d, held[d]), again, again, die)

DaemonStep(d) ==
  \/ Register(d) \/ ListJobs(d) \/ Claim(d) \/ Train(d) \/ Upload(d)
  \/ Complete(d) \/ Fail(d) \/ Finish(d)

-------------------------------------------------------------------------------
(* Freki's operator, its reapers, and time.                                *)

Operator ==
  /\ \/ Cardinality({j \in Rows : origin[j] = j}) < MaxSubmissions /\ CreateJob
     \/ \E j \in JobIds : CancelJob(j)
  /\ UNCHANGED <<daemonVars, calls, models, faults, crashes>>

Reap(r) ==
  /\ ReapScan(r) \/ ReapCommit(r)
  /\ UNCHANGED <<daemonVars, calls, models, faults, crashes>>

ReapFails(r) ==
  /\ ReapAbort(r)
  /\ Fault
  /\ UNCHANGED <<daemonVars, calls, models, crashes>>

\* Time does not run past the firing of a heartbeat timer.
Tick ==
  /\ \A d \in Daemons : hb[d] = "on" => hbClock[d] < HbInterval
  /\ AgeHeartbeats
  /\ hbClock' = [d \in Daemons |-> IF hb[d] = "on" THEN hbClock[d] + 1 ELSE hbClock[d]]
  /\ UNCHANGED <<pc, todo, held, hb, calls, models, faults, crashes>>

Next ==
  \/ \E d \in Daemons : Start(d)
  \/ \E d \in Daemons : Crash(d)
  \/ \E d \in Daemons : DaemonStep(d)
  \/ \E d \in Daemons : JobHeartbeat(d)
  \/ \E r \in Replicas : Reap(r)
  \/ \E r \in Replicas : ReapFails(r)
  \/ Operator
  \/ LateCall
  \/ Tick

Spec == Init /\ [][Next]_nornirVars

\* A supervised daemon is started again and goes on, its timer fires, each
\* replica's reaper loop runs for ever, and time passes.  The operator and the
\* network are under no obligation.
Fairness ==
  /\ \A d \in Daemons : /\ WF_nornirVars(Start(d))
                        /\ WF_nornirVars(DaemonStep(d) /\ UNCHANGED faults)
                        /\ WF_nornirVars(JobHeartbeat(d) /\ UNCHANGED faults)
  /\ \A r \in Replicas : WF_nornirVars(Reap(r))
  /\ WF_nornirVars(Tick)

FairSpec == Spec /\ Fairness

-------------------------------------------------------------------------------
(* Properties.                                                             *)

\* Type invariant; a daemon holds a job exactly while it works on one.
NornirTypeOK ==
  /\ TypeOK
  /\ pc \in [Daemons -> Working \union {"down", "registering", "polling", "claiming"}]
  /\ todo \in [Daemons -> SUBSET JobIds]
  /\ held \in [Daemons -> [job : 0..MaxJobs, token : 0..MaxJobs]]
  /\ hb \in [Daemons -> {"off", "on", "dead"}]
  /\ hbClock \in [Daemons -> 0..HbInterval]
  /\ calls \subseteq Request
  /\ models \in [JobIds -> Nat]
  /\ \A d \in Daemons : pc[d] \in Working <=> held[d] # NoJob
  /\ \A d \in Daemons : pc[d] = "claiming" <=> todo[d] # {}

\* A job is marked complete only once a model of it is in the registry, late
\* and repeated requests included.
CompleteHasModel == \A j \in JobIds : status[j] = "complete" => models[j] > 0

\* A job row never yields two models, however its daemons crash and whatever
\* requests arrive late: work is repeated under a new row and never under the
\* old one.
OneModelPerRow == \A j \in JobIds : models[j] <= 1

\* Two daemons never work on the same row; and a row that runs while a daemon
\* works on it is that daemon's, under the token it was given: no late claim and
\* no reaper has handed it on.
OneHolder ==
  /\ \A c, d \in Daemons :
       pc[c] \in Working /\ pc[d] \in Working /\ c # d => held[c].job # held[d].job
  /\ \A d \in Daemons : pc[d] \in Working =>
       LET j == held[d].job
       IN  status[j] = "running" => daemonId[j] = d /\ claimToken[j] = held[d].token

\* Every submission is settled in the end: crashes, lost calls and dead
\* heartbeat tasks delay it and the reaper gives it to someone else.
EverySubmissionSettles ==
  \A j \in JobIds : status[j] = "queued" ~> PhaseOf(origin[j]) \in Lifecycle!Settled

\* "Ping Freki every JOB_HEARTBEAT_S while a job is training" (main.py:113).
HeartbeatWhileTraining == \A d \in Daemons : pc[d] = "training" => hb[d] = "on"
===============================================================================
