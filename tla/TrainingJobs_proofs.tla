-------------------------- MODULE TrainingJobs_proofs --------------------------
(***************************************************************************)
(* Proofs, for any number of rows, daemons and Freki replicas and any      *)
(* timeout, in two parts.                                                  *)
(*                                                                         *)
(* The job table alone: it keeps its types, gives a submission one current *)
(* row, ties tokens to running rows, never changes a verdict and reaps     *)
(* only what is stale.                                                     *)
(*                                                                         *)
(* Nornir at work on it, whatever crashes and whichever calls fail, arrive *)
(* late or never: daemons and late calls do to the table only what the     *)
(* endpoints allow, no row is worked on twice or yields two models, and    *)
(* none is complete without its model.                                     *)
(***************************************************************************)
EXTENDS Nornir, FiniteSetTheorems, TLAPS

\* The inductive invariant.
IInv ==
  /\ TypeOK
  /\ RowsAreNumbered
  /\ TokensOpenOneJob
  /\ OneCurrentRow
  /\ NoSubmissionLost

LEMMA Ids == JobIds \subseteq Nat /\ Stale \in Nat /\ \A j \in JobIds : 1 <= j /\ j <= MaxJobs
BY JobsAssumption DEF JobIds, Stale

LEMMA InitIInv == JobInit => IInv
<1> SUFFICES ASSUME JobInit PROVE IInv
  OBVIOUS
<1> USE Ids, JobsAssumption DEF JobInit, NoToken, NoError, HeartbeatTimeout
<1>1. TypeOK
  BY DEF TypeOK, Statuses, Live, JobIds
<1>2. RowsAreNumbered
  BY DEF RowsAreNumbered, Reaped
<1>3. TokensOpenOneJob
  BY DEF TokensOpenOneJob
<1>4. OneCurrentRow
  BY DEF OneCurrentRow, Rows
<1>5. NoSubmissionLost
  BY DEF NoSubmissionLost, Rows
<1> QED BY <1>1, <1>2, <1>3, <1>4, <1>5 DEF IInv

LEMMA CreateIInv == IInv /\ CreateJob => IInv'
<1> SUFFICES ASSUME IInv, CreateJob PROVE IInv'
  OBVIOUS
<1> DEFINE new == lastId + 1
<1>0. /\ lastId \in Nat /\ new \in JobIds
      /\ status[new] = "absent" /\ origin[new] = new
      /\ claimToken[new] = NoToken /\ ~Reaped(new)
  BY JobsAssumption DEF IInv, TypeOK, RowsAreNumbered, TokensOpenOneJob, CreateJob, JobIds,
     NoToken
<1> HIDE DEF new
<1>a. /\ lastId' = new /\ status' = [status EXCEPT ![new] = "queued"]
      /\ UNCHANGED <<daemonId, claimToken, error, age, origin, lastToken, registered, scan>>
  BY DEF CreateJob, new
<1>1. TypeOK'
  BY <1>0, <1>a, Ids DEF IInv, TypeOK, Statuses, Live, JobIds
<1>2. RowsAreNumbered'
  BY <1>0, <1>a, Ids DEF IInv, TypeOK, RowsAreNumbered, Reaped, new
<1>3. TokensOpenOneJob'
  BY <1>0, <1>a DEF IInv, TypeOK, TokensOpenOneJob
<1>4. OneCurrentRow'
  <2>1. \A j \in Rows : origin[j] # new
    BY <1>0, Ids DEF IInv, TypeOK, RowsAreNumbered, Rows, new
  <2>2. Rows' \subseteq Rows \union {new}
    BY <1>a DEF IInv, TypeOK, Rows
  <2> QED BY <1>0, <1>a, <2>1, <2>2 DEF IInv, OneCurrentRow, Reaped
<1>5. NoSubmissionLost'
  <2>0. \A j \in JobIds : status'[j] = IF j = new THEN "queued" ELSE status[j]
    BY <1>a DEF IInv, TypeOK
  <2>1. Rows' = Rows \union {new}
    BY <1>0, <2>0 DEF Rows
  <2>2. /\ origin' = origin /\ error'[new] # HeartbeatTimeout
        /\ \A j : Reaped(j)' <=> Reaped(j)
    BY <1>0, <1>a DEF Reaped
  <2> SUFFICES ASSUME NEW i \in Rows'
               PROVE  \E j \in Rows' : origin'[j] = origin'[i] /\ ~Reaped(j)'
    BY DEF NoSubmissionLost
  <2>3. CASE i = new
    BY <2>2, <2>3 DEF Reaped
  <2>4. CASE i \in Rows
    <3>1. PICK j \in Rows : origin[j] = origin[i] /\ ~Reaped(j)
      BY <2>4 DEF IInv, NoSubmissionLost
    <3> QED BY <3>1, <2>1, <2>2 DEF Rows
  <2> QED BY <2>1, <2>3, <2>4
<1> QED BY <1>1, <1>2, <1>3, <1>4, <1>5 DEF IInv

LEMMA ClaimIInv ==
  ASSUME NEW j \in JobIds, NEW d \in Daemons
  PROVE  IInv /\ ClaimJob(j, d) => IInv'
<1> SUFFICES ASSUME IInv, ClaimJob(j, d) PROVE IInv'
  OBVIOUS
<1> USE Ids DEF ClaimJob, Claimable, IInv, TypeOK
<1>1. TypeOK'
  BY DEF Statuses, Live
<1>2. RowsAreNumbered'
  BY DEF RowsAreNumbered, Reaped
<1>3. TokensOpenOneJob'
  BY DEF RowsAreNumbered, TokensOpenOneJob, NoToken
<1>4. OneCurrentRow'
  BY DEF OneCurrentRow, Rows, Reaped
<1>5. NoSubmissionLost'
  BY DEF NoSubmissionLost, Rows, Reaped
<1> QED BY <1>1, <1>2, <1>3, <1>4, <1>5

\* Closing a live row with any verdict but the reaper's keeps the invariant.
LEMMA CloseIInv ==
  ASSUME NEW j \in JobIds, status[j] \in Live,
         NEW outcome \in {"complete", "failed", "cancelled"},
         NEW err \in {NoError, "reported", HeartbeatTimeout},
         err = HeartbeatTimeout => error[j] = HeartbeatTimeout
  PROVE  IInv /\ Close(j, outcome, err) => IInv'
<1> SUFFICES ASSUME IInv, Close(j, outcome, err) PROVE IInv'
  OBVIOUS
<1> USE Ids DEF Close, IInv, TypeOK, Live
<1>0. ~Reaped(j) /\ err # HeartbeatTimeout /\ NoToken \in Nat
  BY DEF RowsAreNumbered, Reaped, NoToken
<1>1. TypeOK'
  BY <1>0 DEF Statuses
<1>2. RowsAreNumbered'
  BY <1>0 DEF RowsAreNumbered, Reaped, NoToken
<1>3. TokensOpenOneJob'
  BY DEF TokensOpenOneJob
<1>4. OneCurrentRow'
  BY <1>0 DEF OneCurrentRow, Rows, Reaped
<1>5. NoSubmissionLost'
  BY <1>0 DEF NoSubmissionLost, Rows, Reaped
<1> QED BY <1>1, <1>2, <1>3, <1>4, <1>5

LEMMA ReapIInv ==
  ASSUME NEW r \in Replicas
  PROVE  IInv /\ ReapCommit(r) => IInv'
<1> SUFFICES ASSUME IInv, ReapCommit(r) PROVE IInv'
  OBVIOUS
<1> DEFINE gone == StillStale(r)
<1>a. PICK newLast \in lastId..MaxJobs :
        \E copyOf \in Bijection((lastId + 1)..newLast, gone) :
          /\ lastId' = newLast
          /\ status' = [j \in JobIds |->
                          IF j \in gone THEN "failed"
                          ELSE IF j \in (lastId + 1)..newLast THEN "queued"
                          ELSE status[j]]
          /\ origin' = [j \in JobIds |->
                          IF j \in (lastId + 1)..newLast THEN origin[copyOf[j]]
                          ELSE origin[j]]
  BY DEF ReapCommit
<1> DEFINE new == (lastId + 1)..newLast
<1>b. PICK copyOf \in Bijection(new, gone) :
        /\ lastId' = newLast
        /\ status' = [j \in JobIds |->
                        IF j \in gone THEN "failed"
                        ELSE IF j \in new THEN "queued" ELSE status[j]]
        /\ origin' = [j \in JobIds |->
                        IF j \in new THEN origin[copyOf[j]] ELSE origin[j]]
  BY <1>a
<1>c. /\ error' = [j \in JobIds |-> IF j \in gone THEN HeartbeatTimeout ELSE error[j]]
      /\ claimToken' = [j \in JobIds |-> IF j \in gone THEN NoToken ELSE claimToken[j]]
      /\ age' = [j \in JobIds |-> IF j \in gone THEN 0 ELSE age[j]]
      /\ scan' = [scan EXCEPT ![r] = {}]
      /\ UNCHANGED <<daemonId, lastToken, registered>>
  BY DEF ReapCommit
<1>d. /\ copyOf \in [new -> gone]
      /\ \A i, j \in new : copyOf[i] = copyOf[j] => i = j
      /\ \A j \in gone : \E i \in new : copyOf[i] = j
  BY <1>b DEF Bijection, Injection, Surjection, IsInjective
<1>e. /\ gone \subseteq JobIds
      /\ \A j \in gone : status[j] = "running" /\ j <= lastId /\ ~Reaped(j)
  BY DEF StillStale, IsStale, IInv, TypeOK, RowsAreNumbered
<1>f. /\ lastId \in Nat /\ newLast \in Nat /\ lastId <= newLast /\ newLast <= MaxJobs
      /\ new \subseteq JobIds /\ \A j \in new : lastId < j /\ j <= newLast
      /\ \A j \in JobIds : j \in new <=> lastId < j /\ j <= newLast
  <2>1. lastId \in Nat /\ lastId \in Int /\ MaxJobs \in Int
    BY JobsAssumption DEF IInv, TypeOK
  <2>2. newLast \in Int /\ lastId <= newLast /\ newLast <= MaxJobs
    BY <2>1
  <2> QED BY <2>1, <2>2 DEF JobIds
<1>g. \A j \in new : j \notin gone /\ status[j] = "absent" /\ ~Reaped(j)
  BY <1>e, <1>f, Ids DEF IInv, TypeOK, RowsAreNumbered
<1> HIDE DEF gone, new
<1>1. TypeOK'
  <2>1. status' \in [JobIds -> Statuses]
    BY <1>b DEF IInv, TypeOK, Statuses, Live
  <2>2. origin' \in [JobIds -> JobIds]
    BY <1>b, <1>d, <1>e DEF IInv, TypeOK
  <2>3. /\ claimToken' \in [JobIds -> Nat] /\ age' \in [JobIds -> 0..Stale]
        /\ error' \in [JobIds -> {NoError, "reported", HeartbeatTimeout}]
    BY <1>c, Ids DEF IInv, TypeOK, NoToken
  <2>4. lastId' \in 0..MaxJobs
    BY <1>b, <1>f
  <2>5. /\ daemonId' \in [JobIds -> Daemons \union {NoDaemon}]
        /\ lastToken' \in Nat /\ registered' \subseteq Daemons
        /\ scan' \in [Replicas -> SUBSET JobIds]
    BY <1>c DEF IInv, TypeOK
  <2> QED BY <2>1, <2>2, <2>3, <2>4, <2>5 DEF TypeOK
<1>2. RowsAreNumbered'
  <2>1. \A j \in JobIds : (status'[j] # "absent") <=> (j <= lastId')
    BY <1>b, <1>e, <1>f, Ids DEF IInv, TypeOK, RowsAreNumbered
  <2>2. \A j \in JobIds : origin'[j] <= j
    <3> SUFFICES ASSUME NEW j \in JobIds PROVE origin'[j] <= j
      OBVIOUS
    <3>1. CASE j \notin new
      BY <3>1, <1>b DEF IInv, RowsAreNumbered
    <3>2. CASE j \in new
      <4> DEFINE i == copyOf[j]
      <4>1. i \in gone /\ i \in JobIds /\ i <= lastId /\ lastId < j /\ origin'[j] = origin[i]
        BY <3>2, <1>b, <1>d, <1>e, <1>f
      <4>2. origin[i] \in JobIds /\ origin[i] <= i
        BY <4>1 DEF IInv, TypeOK, RowsAreNumbered
      <4>3. \A a, b, c, e \in Nat : a <= b /\ b <= c /\ c < e => a <= e
        OBVIOUS
      <4> HIDE DEF i
      <4> QED BY <4>1, <4>2, <4>3, <1>f, Ids
    <3> QED BY <3>1, <3>2
  <2>3. \A j \in JobIds : j > lastId' => origin'[j] = j
    BY <1>b, <1>f, Ids DEF IInv, TypeOK, RowsAreNumbered
  <2>4. \A j \in JobIds : claimToken'[j] <= lastToken'
    BY <1>c DEF IInv, TypeOK, RowsAreNumbered, NoToken
  <2>5. \A j \in JobIds : Reaped(j)' => status'[j] = "failed"
    BY <1>b, <1>c, <1>g DEF IInv, RowsAreNumbered, Reaped
  <2> QED BY <2>1, <2>2, <2>3, <2>4, <2>5 DEF RowsAreNumbered
<1>3. TokensOpenOneJob'
  <2>1. \A j \in JobIds : (status'[j] = "running") <=> (claimToken'[j] # NoToken)
    BY <1>b, <1>c, <1>g DEF IInv, TokensOpenOneJob
  <2>2. \A i, j \in JobIds :
          claimToken'[i] # NoToken /\ claimToken'[i] = claimToken'[j] => i = j
    BY <1>c DEF IInv, TokensOpenOneJob
  <2> QED BY <2>1, <2>2 DEF TokensOpenOneJob
<1>4. OneCurrentRow'
  <2> SUFFICES ASSUME NEW i \in Rows', NEW j \in Rows', i # j,
                      origin'[i] = origin'[j], i <= j
               PROVE  Reaped(i)' \/ Reaped(j)'
    <3>1. \A i, j \in Rows' : i <= j \/ j <= i
      BY Ids DEF Rows
    <3> QED BY <3>1 DEF OneCurrentRow
  <2>0. i \in JobIds /\ j \in JobIds /\ i <= newLast /\ j <= newLast
    BY <1>2, <1>b DEF Rows, RowsAreNumbered
  <2>1. CASE i \notin new /\ j \notin new
    <3>1. i \in Rows /\ j \in Rows /\ origin[i] = origin[j]
      BY <2>0, <2>1, <1>b, <1>f, <1>e, Ids DEF Rows, IInv, TypeOK, RowsAreNumbered
    <3>2. Reaped(i) \/ Reaped(j)
      BY <3>1 DEF IInv, OneCurrentRow
    <3> QED BY <3>2, <2>0, <1>c DEF Reaped
  <2>2. CASE i \notin new /\ j \in new
    <3>1. i \in Rows /\ copyOf[j] \in gone /\ origin[i] = origin[copyOf[j]]
      BY <2>0, <2>2, <1>b, <1>d, <1>f, <1>e, Ids DEF Rows, IInv, TypeOK, RowsAreNumbered
    <3>2. copyOf[j] \in Rows /\ ~Reaped(copyOf[j])
      BY <3>1, <1>e DEF Rows
    <3>3. i = copyOf[j] \/ Reaped(i)
      BY <3>1, <3>2 DEF IInv, OneCurrentRow
    <3> QED BY <3>1, <3>3, <2>0, <1>c DEF Reaped
  <2>3. CASE i \in new /\ j \in new
    <3>1. /\ copyOf[i] \in gone /\ copyOf[j] \in gone /\ copyOf[i] # copyOf[j]
          /\ origin[copyOf[i]] = origin[copyOf[j]]
      BY <2>0, <2>3, <1>b, <1>d
    <3>2. /\ copyOf[i] \in Rows /\ ~Reaped(copyOf[i])
          /\ copyOf[j] \in Rows /\ ~Reaped(copyOf[j])
      BY <3>1, <1>e DEF Rows
    <3> QED BY <3>1, <3>2 DEF IInv, OneCurrentRow
  <2>4. CASE i \in new /\ j \notin new
    BY <2>4, <2>0, <1>f, Ids
  <2> QED BY <2>1, <2>2, <2>3, <2>4
<1>5. NoSubmissionLost'
  <2>1. Rows' = Rows \union new
    BY <1>b, <1>e, <1>f DEF Rows, IInv, TypeOK
  <2>2. \A j \in new : ~Reaped(j)'
    BY <1>c, <1>f, <1>g DEF Reaped
  <2>3. \A j \in Rows : j \in JobIds /\ origin'[j] = origin[j]
    BY <1>b, <1>g DEF Rows
  <2> SUFFICES ASSUME NEW i \in Rows
               PROVE  \E j \in Rows' : origin'[j] = origin'[i] /\ ~Reaped(j)'
    BY <2>1, <2>2 DEF NoSubmissionLost
  <2>4. PICK j \in Rows : origin[j] = origin[i] /\ ~Reaped(j)
    BY DEF IInv, NoSubmissionLost
  <2>5. CASE j \notin gone
    BY <2>1, <2>3, <2>4, <2>5, <1>c DEF Reaped
  <2>6. CASE j \in gone
    <3>1. PICK k \in new : copyOf[k] = j
      BY <2>6, <1>d
    <3>2. origin'[k] = origin[j] /\ k \in Rows' /\ ~Reaped(k)'
      BY <3>1, <2>1, <2>2, <1>b, <1>f
    <3> QED BY <3>2, <2>3, <2>4
  <2> QED BY <2>5, <2>6
<1> QED BY <1>1, <1>2, <1>3, <1>4, <1>5 DEF IInv

LEMMA QuietIInv ==
  IInv /\ ( \/ \E r \in Replicas : ReapScan(r) \/ ReapAbort(r)
            \/ \E d \in Daemons : RegisterDaemon(d)
            \/ \E j \in JobIds, d \in Daemons, t \in Tokens : HeartbeatJob(j, d, t)
            \/ AgeHeartbeats
            \/ UNCHANGED jobVars )
  => IInv'
<1> SUFFICES ASSUME IInv,
                    \/ \E r \in Replicas : ReapScan(r) \/ ReapAbort(r)
                    \/ \E d \in Daemons : RegisterDaemon(d)
                    \/ \E j \in JobIds, d \in Daemons, t \in Tokens : HeartbeatJob(j, d, t)
                    \/ AgeHeartbeats
                    \/ UNCHANGED jobVars
             PROVE  IInv'
  OBVIOUS
<1>1. UNCHANGED <<status, daemonId, claimToken, error, origin, lastId, lastToken>>
  BY DEF ReapScan, ReapAbort, RegisterDaemon, HeartbeatJob, AgeHeartbeats, jobVars
<1>2. RowsAreNumbered' /\ TokensOpenOneJob' /\ OneCurrentRow' /\ NoSubmissionLost'
  BY <1>1 DEF IInv, RowsAreNumbered, TokensOpenOneJob, OneCurrentRow, NoSubmissionLost,
     Rows, Reaped
<1>3. age' \in [JobIds -> 0..Stale]
  BY Ids DEF IInv, TypeOK, ReapScan, ReapAbort, RegisterDaemon, HeartbeatJob,
     AgeHeartbeats, jobVars
<1>4. registered' \subseteq Daemons /\ scan' \in [Replicas -> SUBSET JobIds]
  BY DEF IInv, TypeOK, ReapScan, ReapAbort, RegisterDaemon, HeartbeatJob,
     AgeHeartbeats, jobVars
<1> QED BY <1>1, <1>2, <1>3, <1>4 DEF IInv, TypeOK

LEMMA NextIInv == IInv /\ [JobNext]_jobVars => IInv'
<1> SUFFICES ASSUME IInv, [JobNext]_jobVars PROVE IInv'
  OBVIOUS
<1>1. CASE CreateJob
  BY <1>1, CreateIInv
<1>2. CASE \E j \in JobIds, d \in Daemons : ClaimJob(j, d)
  BY <1>2, ClaimIInv
<1>3. CASE \E j \in JobIds, d \in Daemons, t \in Tokens : CompleteJob(j, d, t)
  <2>1. PICK j \in JobIds, d \in Daemons, t \in Tokens : CompleteJob(j, d, t)
    BY <1>3
  <2>2. status[j] \in Live /\ Close(j, "complete", error[j])
    BY <2>1 DEF CompleteJob, Owns, Live
  <2>3. error[j] \in {NoError, "reported", HeartbeatTimeout}
    BY DEF IInv, TypeOK
  <2> QED BY <2>2, <2>3, CloseIInv
<1>4. CASE \E j \in JobIds, d \in Daemons, t \in Tokens : FailJob(j, d, t)
  <2>1. PICK j \in JobIds, d \in Daemons, t \in Tokens : FailJob(j, d, t)
    BY <1>4
  <2>2. status[j] \in Live /\ Close(j, "failed", "reported")
    BY <2>1 DEF FailJob, Owns, Live
  <2> QED BY <2>2, CloseIInv DEF HeartbeatTimeout
<1>5. CASE \E j \in JobIds : CancelJob(j)
  <2>1. PICK j \in JobIds : CancelJob(j)
    BY <1>5
  <2>2. error[j] \in {NoError, "reported", HeartbeatTimeout}
    BY DEF IInv, TypeOK
  <2> QED BY <2>1, <2>2, CloseIInv DEF CancelJob
<1>6. CASE \E r \in Replicas : ReapCommit(r)
  BY <1>6, ReapIInv
<1>7. CASE \/ \E r \in Replicas : ReapScan(r) \/ ReapAbort(r)
           \/ \E d \in Daemons : RegisterDaemon(d)
           \/ \E j \in JobIds, d \in Daemons, t \in Tokens : HeartbeatJob(j, d, t)
           \/ AgeHeartbeats
           \/ UNCHANGED jobVars
  BY <1>7, QuietIInv
<1> QED BY <1>1, <1>2, <1>3, <1>4, <1>5, <1>6, <1>7 DEF JobNext

-------------------------------------------------------------------------------

\* Every column keeps its type, and the inductive invariant holds throughout.
THEOREM JobsInvariant == JobSpec => []IInv
BY InitIInv, NextIInv, PTL DEF JobSpec

\* Type correctness of the whole table.
THEOREM JobsTypeOK == JobSpec => []TypeOK
BY JobsInvariant, PTL DEF IInv

\* A token opens one running job and dies with it (claim_job, complete_job,
\* fail_job, cancel_job and the reaper).
THEOREM JobTokens == JobSpec => []TokensOpenOneJob
BY JobsInvariant, PTL DEF IInv

\* However many replicas reap, and whatever daemons answer late, a submission
\* has one row that has not been given up.
THEOREM JobOneCurrentRow == JobSpec => []OneCurrentRow
BY JobsInvariant, PTL DEF IInv

\* Whatever is reaped is queued again.
THEOREM JobNoSubmissionLost == JobSpec => []NoSubmissionLost
BY JobsInvariant, PTL DEF IInv

-------------------------------------------------------------------------------
(* The table implements the operator's view of the queue.                  *)

PhaseTable ==
  /\ \A j \in Rows : ~Reaped(j) => PhaseOf(origin[j]) = status[j]
  /\ \A s \in JobIds : (\A j \in Rows : origin[j] # s) => PhaseOf(s) = "none"

\* The phase of a submission is the status of its current row.
LEMMA PhaseIsStatus == IInv => PhaseTable
<1> SUFFICES ASSUME IInv PROVE PhaseTable
  OBVIOUS
<1>1. ASSUME NEW j \in Rows, ~Reaped(j)
      PROVE  PhaseOf(origin[j]) = status[j]
  <2>1. \A i \in Rows : origin[i] = origin[j] /\ ~Reaped(i) => i = j
    BY <1>1 DEF IInv, OneCurrentRow
  <2>2. CurrentRow(origin[j]) = j
    BY <1>1, <2>1 DEF CurrentRow
  <2> QED BY <2>2 DEF PhaseOf
<1>2. ASSUME NEW s \in JobIds, \A j \in Rows : origin[j] # s
      PROVE  PhaseOf(s) = "none"
  BY <1>2 DEF PhaseOf
<1> QED BY <1>1, <1>2 DEF PhaseTable

LEMMA PhaseIsStatusNext == IInv' => PhaseTable'
BY PhaseIsStatus, PTL

\* A step that writes one current row writes the phase of one submission.
LEMMA OneRowStep ==
  ASSUME IInv, IInv', NEW j \in Rows, NEW v, v # "absent",
         ~Reaped(j), ~Reaped(j)', origin' = origin,
         \A i \in JobIds : i # j => (Reaped(i)' = Reaped(i)),
         status' = [status EXCEPT ![j] = v]
  PROVE  phases' = [phases EXCEPT ![origin[j]] = v]
<1>1. Rows' = Rows /\ j \in JobIds
  BY DEF Rows, IInv, TypeOK
<1>2. \A s \in JobIds : PhaseOf(s)' = IF s = origin[j] THEN v ELSE PhaseOf(s)
  <2> SUFFICES ASSUME NEW s \in JobIds
               PROVE  PhaseOf(s)' = IF s = origin[j] THEN v ELSE PhaseOf(s)
    OBVIOUS
  <2>1. CASE s = origin[j]
    BY <2>1, <1>1, PhaseIsStatusNext DEF IInv, TypeOK, PhaseTable
  <2>2. CASE s # origin[j] /\ \A i \in Rows : origin[i] # s
    BY <2>2, <1>1, PhaseIsStatus, PhaseIsStatusNext DEF PhaseTable
  <2>3. CASE s # origin[j] /\ \E i \in Rows : origin[i] = s
    <3>1. PICK i \in Rows : origin[i] = s /\ ~Reaped(i)
      BY <2>3 DEF IInv, NoSubmissionLost
    <3>2. i # j /\ i \in JobIds /\ status'[i] = status[i] /\ ~Reaped(i)'
      BY <2>3, <3>1 DEF Rows, IInv, TypeOK
    <3> QED BY <2>3, <3>1, <3>2, <1>1, PhaseIsStatus, PhaseIsStatusNext DEF PhaseTable
  <2> QED BY <2>1, <2>2, <2>3
<1>3. origin[j] \in JobIds
  BY <1>1 DEF IInv, TypeOK
<1> QED BY <1>2, <1>3 DEF phases

LEMMA CreateSubmits == IInv /\ IInv' /\ CreateJob => Lifecycle!Next
<1> SUFFICES ASSUME IInv, IInv', CreateJob PROVE Lifecycle!Next
  OBVIOUS
<1>1. PICK new \in JobIds : new = lastId + 1
  BY JobsAssumption DEF IInv, TypeOK, CreateJob, JobIds
<1>2. /\ status' = [status EXCEPT ![new] = "queued"] /\ lastId' = new
      /\ origin' = origin /\ \A j : Reaped(j)' <=> Reaped(j)
  BY <1>1 DEF CreateJob, Reaped
<1>3. /\ new \notin Rows /\ origin[new] = new /\ ~Reaped(new)
      /\ \A j \in Rows : origin[j] # new
  BY <1>1, Ids DEF IInv, TypeOK, RowsAreNumbered, Rows
<1>4. Rows' = Rows \union {new}
  BY <1>2, <1>3 DEF Rows, IInv, TypeOK
<1>5. PhaseOf(new) = "none"
  BY <1>3, PhaseIsStatus DEF PhaseTable
<1>6. PhaseOf(new)' = "queued"
  <2>1. new \in Rows' /\ ~Reaped(new)' /\ origin'[new] = new /\ status'[new] = "queued"
    BY <1>2, <1>3, <1>4 DEF IInv, TypeOK
  <2> QED BY <2>1, PhaseIsStatusNext DEF PhaseTable
<1>7. ASSUME NEW s \in JobIds, s # new PROVE PhaseOf(s)' = PhaseOf(s)
  <2>1. CASE \A i \in Rows : origin[i] # s
    BY <2>1, <1>2, <1>3, <1>4, <1>7, PhaseIsStatus, PhaseIsStatusNext DEF PhaseTable
  <2>2. CASE \E i \in Rows : origin[i] = s
    <3>1. PICK i \in Rows : origin[i] = s /\ ~Reaped(i)
      BY <2>2 DEF IInv, NoSubmissionLost
    <3>2. i # new /\ i \in Rows' /\ status'[i] = status[i] /\ ~Reaped(i)'
      BY <3>1, <1>2, <1>3, <1>4 DEF Rows, IInv, TypeOK
    <3> QED BY <3>1, <3>2, <1>2, PhaseIsStatus, PhaseIsStatusNext DEF PhaseTable
  <2> QED BY <2>1, <2>2
<1>8. phases[new] = "none" /\ phases' = [phases EXCEPT ![new] = "queued"]
  BY <1>5, <1>6, <1>7 DEF phases
<1> QED BY <1>8 DEF Lifecycle!Next, Lifecycle!Submit

LEMMA ClaimHandsOut ==
  ASSUME IInv, IInv', NEW j \in JobIds, NEW d \in Daemons, ClaimJob(j, d)
  PROVE  Lifecycle!Next
<1>1. j \in Rows /\ ~Reaped(j)
  BY DEF ClaimJob, Claimable, Rows, IInv, RowsAreNumbered
<1>2. /\ ~Reaped(j)' /\ \A i \in JobIds : i # j => (Reaped(i)' = Reaped(i))
      /\ origin' = origin /\ status' = [status EXCEPT ![j] = "running"]
  BY <1>1 DEF ClaimJob, Claimable, Reaped
<1>3. phases' = [phases EXCEPT ![origin[j]] = "running"]
  BY <1>1, <1>2, OneRowStep
<1>4. origin[j] \in JobIds /\ phases[origin[j]] = "queued"
  BY <1>1, PhaseIsStatus DEF PhaseTable, phases, ClaimJob, Claimable, IInv, TypeOK
<1> QED BY <1>3, <1>4 DEF Lifecycle!Next, Lifecycle!HandOut

LEMMA CloseSettles ==
  ASSUME IInv, IInv', NEW j \in JobIds,
         NEW outcome \in {"complete", "failed", "cancelled"}, NEW err,
         status[j] = "running" \/ (status[j] = "queued" /\ outcome = "cancelled"),
         err = HeartbeatTimeout => error[j] = HeartbeatTimeout,
         Close(j, outcome, err)
  PROVE  Lifecycle!Next
<1>1. j \in Rows /\ ~Reaped(j)
  BY DEF Rows, IInv, RowsAreNumbered
<1>2. /\ ~Reaped(j)' /\ \A i \in JobIds : i # j => (Reaped(i)' = Reaped(i))
      /\ origin' = origin /\ status' = [status EXCEPT ![j] = outcome]
  BY <1>1 DEF Close, Reaped, IInv, TypeOK
<1>3. phases' = [phases EXCEPT ![origin[j]] = outcome]
  BY <1>1, <1>2, OneRowStep
<1>4. origin[j] \in JobIds /\ phases[origin[j]] = status[j]
  BY <1>1, PhaseIsStatus DEF PhaseTable, phases, IInv, TypeOK
<1>5. Lifecycle!Settle(origin[j])
  BY <1>3, <1>4 DEF Lifecycle!Settle, Lifecycle!Settled
<1> QED BY <1>4, <1>5 DEF Lifecycle!Next

LEMMA ReapTakesBack ==
  ASSUME IInv, IInv', NEW r \in Replicas, ReapCommit(r)
  PROVE  Lifecycle!Next
<1> DEFINE gone == StillStale(r)
<1>1. PICK newLast \in lastId..MaxJobs :
        \E copyOf \in Bijection((lastId + 1)..newLast, gone) :
          /\ lastId' = newLast
          /\ status' = [j \in JobIds |->
                          IF j \in gone THEN "failed"
                          ELSE IF j \in (lastId + 1)..newLast THEN "queued"
                          ELSE status[j]]
          /\ origin' = [j \in JobIds |->
                          IF j \in (lastId + 1)..newLast THEN origin[copyOf[j]]
                          ELSE origin[j]]
  BY DEF ReapCommit
<1> DEFINE new == (lastId + 1)..newLast
<1>2. PICK copyOf \in Bijection(new, gone) :
        /\ status' = [j \in JobIds |->
                        IF j \in gone THEN "failed"
                        ELSE IF j \in new THEN "queued" ELSE status[j]]
        /\ origin' = [j \in JobIds |->
                        IF j \in new THEN origin[copyOf[j]] ELSE origin[j]]
  BY <1>1
<1>3. \A j \in JobIds : Reaped(j)' <=> Reaped(j) \/ j \in gone
  BY DEF ReapCommit, Reaped
<1>4. /\ copyOf \in [new -> gone]
      /\ \A j \in gone : \E i \in new : copyOf[i] = j
  BY <1>2 DEF Bijection, Injection, Surjection
<1>5. /\ gone \subseteq Rows
      /\ \A j \in gone : status[j] = "running" /\ ~Reaped(j)
  BY DEF StillStale, IsStale, IInv, TypeOK, RowsAreNumbered, Rows
<1>6. new \subseteq JobIds /\ \A j \in new : j \notin Rows /\ ~Reaped(j)
  <2>1. lastId \in Nat /\ newLast \in Nat /\ newLast <= MaxJobs
    <3>1. lastId \in Int /\ MaxJobs \in Int /\ 0 <= lastId
      BY JobsAssumption DEF IInv, TypeOK
    <3> QED BY <3>1
  <2> QED BY <2>1, JobsAssumption DEF JobIds, Rows, IInv, RowsAreNumbered
<1> HIDE DEF gone, new
<1>7. Rows' = Rows \union new
  BY <1>2, <1>5, <1>6 DEF Rows, IInv, TypeOK
<1> DEFINE lost == {s \in JobIds : \E j \in gone : origin[j] = s}
<1>8. ASSUME NEW s \in lost PROVE PhaseOf(s) = "running" /\ PhaseOf(s)' = "queued"
  <2>1. PICK j \in gone : origin[j] = s
    OBVIOUS
  <2>2. PICK i \in new : copyOf[i] = j
    BY <1>4
  <2>3. i \in Rows' /\ ~Reaped(i)' /\ origin'[i] = s /\ status'[i] = "queued"
    BY <2>1, <2>2, <1>2, <1>3, <1>5, <1>6, <1>7
  <2> QED BY <2>1, <2>3, <1>5, PhaseIsStatus, PhaseIsStatusNext DEF PhaseTable
<1>9. ASSUME NEW s \in JobIds, s \notin lost PROVE PhaseOf(s)' = PhaseOf(s)
  <2>1. CASE \A i \in Rows : origin[i] # s
    <3>1. \A i \in new : origin'[i] # s
      BY <2>1, <1>2, <1>4, <1>5, <1>6
    <3>2. \A i \in Rows : origin'[i] = origin[i]
      BY <1>2, <1>6 DEF Rows
    <3> QED BY <2>1, <3>1, <3>2, <1>7, PhaseIsStatus, PhaseIsStatusNext DEF PhaseTable
  <2>2. CASE \E i \in Rows : origin[i] = s
    <3>1. PICK i \in Rows : origin[i] = s /\ ~Reaped(i)
      BY <2>2 DEF IInv, NoSubmissionLost
    <3>2. i \in JobIds /\ i \notin gone /\ i \notin new
      BY <1>9, <3>1, <1>6 DEF Rows, IInv, TypeOK
    <3>3. i \in Rows' /\ ~Reaped(i)' /\ origin'[i] = s /\ status'[i] = status[i]
      BY <3>1, <3>2, <1>2, <1>3, <1>7
    <3> QED BY <3>1, <3>3, PhaseIsStatus, PhaseIsStatusNext DEF PhaseTable
  <2> QED BY <2>1, <2>2
<1>10. /\ lost \subseteq JobIds
       /\ \A s \in lost : phases[s] = "running"
       /\ phases' = [s \in JobIds |-> IF s \in lost THEN "queued" ELSE phases[s]]
  BY <1>8, <1>9 DEF phases
<1> HIDE DEF lost
<1>11. lost \in SUBSET JobIds /\ Lifecycle!TakeBack(lost)
  BY <1>10 DEF Lifecycle!TakeBack
<1> QED BY <1>11 DEF Lifecycle!Next

\* Every step of the table is a step of the operator's view or leaves it alone.
LEMMA NextImplements == IInv /\ IInv' /\ [JobNext]_jobVars => [Lifecycle!Next]_phases
<1> SUFFICES ASSUME IInv, IInv', [JobNext]_jobVars
             PROVE  Lifecycle!Next \/ phases' = phases
  OBVIOUS
<1>1. CASE CreateJob
  BY <1>1, CreateSubmits
<1>2. CASE \E j \in JobIds, d \in Daemons : ClaimJob(j, d)
  BY <1>2, ClaimHandsOut
<1>3. CASE \E j \in JobIds, d \in Daemons, t \in Tokens : CompleteJob(j, d, t)
  <2>1. PICK j \in JobIds, d \in Daemons, t \in Tokens : CompleteJob(j, d, t)
    BY <1>3
  <2> QED BY <2>1, CloseSettles DEF CompleteJob, Owns
<1>4. CASE \E j \in JobIds, d \in Daemons, t \in Tokens : FailJob(j, d, t)
  <2>1. PICK j \in JobIds, d \in Daemons, t \in Tokens : FailJob(j, d, t)
    BY <1>4
  <2> QED BY <2>1, CloseSettles DEF FailJob, Owns, HeartbeatTimeout
<1>5. CASE \E j \in JobIds : CancelJob(j)
  BY <1>5, CloseSettles DEF CancelJob, Live
<1>6. CASE \E r \in Replicas : ReapCommit(r)
  BY <1>6, ReapTakesBack
<1>7. CASE \/ \E r \in Replicas : ReapScan(r) \/ ReapAbort(r)
           \/ \E d \in Daemons : RegisterDaemon(d)
           \/ \E j \in JobIds, d \in Daemons, t \in Tokens : HeartbeatJob(j, d, t)
           \/ AgeHeartbeats
           \/ UNCHANGED jobVars
  <2>1. UNCHANGED <<status, origin, error>>
    BY <1>7 DEF ReapScan, ReapAbort, RegisterDaemon, HeartbeatJob, AgeHeartbeats, jobVars
  <2> QED BY <2>1 DEF phases, PhaseOf, CurrentRow, Rows, Reaped
<1> QED BY <1>1, <1>2, <1>3, <1>4, <1>5, <1>6, <1>7 DEF JobNext

\* The table implements the queue the operator is promised: a submission is
\* handed out only while queued, settled at most once, and taken back only from
\* a worker, whatever the daemons, the replicas and the operator interleave.
THEOREM JobsImplementLifecycle == JobSpec => ImplementsLifecycle
<1>1. JobInit => Lifecycle!Init
  <2> SUFFICES ASSUME JobInit PROVE phases = [s \in JobIds |-> "none"]
    BY DEF Lifecycle!Init
  <2>1. Rows = {}
    BY DEF JobInit, Rows
  <2> QED BY <2>1 DEF phases, PhaseOf
<1> QED BY <1>1, NextImplements, JobsInvariant, PTL
        DEF JobSpec, ImplementsLifecycle, Lifecycle!Spec

\* No step of anyone changes the verdict on a settled row: not a late complete,
\* fail or cancel, and not the reaper.
THEOREM JobVerdictIsFinal == JobSpec => VerdictIsFinal
<1>1. IInv /\ [JobNext]_jobVars
        => [\A j \in Rows : status[j] \notin Live
              => status'[j] = status[j] /\ error'[j] = error[j]]_jobVars
  <2> SUFFICES ASSUME IInv, JobNext, NEW j \in Rows, status[j] \notin Live
               PROVE  status'[j] = status[j] /\ error'[j] = error[j]
    OBVIOUS
  <2> USE DEF Live
  <2>0. j \in JobIds /\ j <= lastId /\ lastId \in Nat /\ status[j] \notin {"absent", "queued", "running"}
    BY DEF Rows, IInv, TypeOK, RowsAreNumbered
  <2>1. CASE CreateJob
    BY <2>0, <2>1, Ids DEF CreateJob, IInv, TypeOK
  <2>2. CASE \E i \in JobIds, d \in Daemons : ClaimJob(i, d)
    BY <2>0, <2>2 DEF ClaimJob, Claimable, IInv, TypeOK
  <2>3. CASE \/ \E i \in JobIds, d \in Daemons, t \in Tokens :
                  CompleteJob(i, d, t) \/ FailJob(i, d, t)
             \/ \E i \in JobIds : CancelJob(i)
    <3>1. PICK i \in JobIds : status[i] \in Live /\ \E o, e : Close(i, o, e)
      BY <2>3 DEF CompleteJob, FailJob, CancelJob, Owns
    <3> QED BY <2>0, <3>1 DEF Close, IInv, TypeOK
  <2>4. CASE \E r \in Replicas : ReapCommit(r)
    <3>1. PICK r \in Replicas : ReapCommit(r)
      BY <2>4
    <3>2. PICK newLast : /\ status' = [i \in JobIds |->
                                         IF i \in StillStale(r) THEN "failed"
                                         ELSE IF i \in (lastId + 1)..newLast THEN "queued"
                                         ELSE status[i]]
                         /\ newLast \in lastId..MaxJobs
      BY <3>1 DEF ReapCommit
    <3>3. j \notin StillStale(r)
      BY <2>0 DEF StillStale, IsStale
    <3>4. j \notin (lastId + 1)..newLast
      BY <2>0, <3>2, Ids
    <3> QED BY <2>0, <3>1, <3>2, <3>3, <3>4 DEF ReapCommit
  <2>5. CASE \/ \E r \in Replicas : ReapScan(r) \/ ReapAbort(r)
             \/ \E d \in Daemons : RegisterDaemon(d)
             \/ \E i \in JobIds, d \in Daemons, t \in Tokens : HeartbeatJob(i, d, t)
             \/ AgeHeartbeats
    BY <2>5 DEF ReapScan, ReapAbort, RegisterDaemon, HeartbeatJob, AgeHeartbeats
  <2> QED BY <2>1, <2>2, <2>3, <2>4, <2>5 DEF JobNext
<1> QED BY <1>1, JobsInvariant, PTL DEF JobSpec, VerdictIsFinal

\* The reaper gives up only rows that are stale when it writes them.
THEOREM JobReapsOnlyStale == JobSpec => ReapsOnlyStale
<1>1. IInv /\ [JobNext]_jobVars
        => [\A j \in JobIds : Reaped(j)' /\ ~Reaped(j) => IsStale(j)]_jobVars
  <2> SUFFICES ASSUME IInv, JobNext, NEW j \in JobIds, Reaped(j)', ~Reaped(j)
               PROVE  IsStale(j)
    OBVIOUS
  <2>1. CASE \E r \in Replicas : ReapCommit(r)
    BY <2>1 DEF ReapCommit, StillStale, Reaped
  <2>2. CASE \/ \E i \in JobIds, d \in Daemons, t \in Tokens :
                  CompleteJob(i, d, t) \/ FailJob(i, d, t)
             \/ \E i \in JobIds : CancelJob(i)
    <3>1. PICK i \in JobIds : Close(i, status'[i], "reported") \/ Close(i, status'[i], error[i])
      BY <2>2 DEF CompleteJob, FailJob, CancelJob, Close, IInv, TypeOK
    <3> QED BY <3>1 DEF Close, Reaped, HeartbeatTimeout, IInv, TypeOK
  <2>3. CASE \/ CreateJob
             \/ \E i \in JobIds, d \in Daemons : ClaimJob(i, d)
             \/ \E r \in Replicas : ReapScan(r) \/ ReapAbort(r)
             \/ \E d \in Daemons : RegisterDaemon(d)
             \/ \E i \in JobIds, d \in Daemons, t \in Tokens : HeartbeatJob(i, d, t)
             \/ AgeHeartbeats
    BY <2>3 DEF CreateJob, ClaimJob, Claimable, ReapScan, ReapAbort, RegisterDaemon,
       HeartbeatJob, AgeHeartbeats, Reaped
  <2> QED BY <2>1, <2>2, <2>3 DEF JobNext
<1> QED BY <1>1, JobsInvariant, PTL DEF JobSpec, ReapsOnlyStale

-------------------------------------------------------------------------------
(* A row is claimed once, so the tokens drawn never outnumber the rows.    *)

Queued == {j \in JobIds : status[j] = "queued"}

\* Each row that is there has drawn a token, may yet draw one, or never will.
TokensFit == lastToken + Cardinality(Queued) <= lastId

LEMMA QueuedFinite == IsFiniteSet(Queued) /\ Cardinality(Queued) \in Nat
<1>1. IsFiniteSet(JobIds)
  BY JobsAssumption, FS_Interval DEF JobIds
<1>2. Queued \in SUBSET JobIds
  BY DEF Queued
<1> QED BY <1>1, <1>2, FS_Subset, FS_CardinalityType

LEMMA ReapFits ==
  ASSUME IInv, TokensFit, NEW r \in Replicas, ReapCommit(r)
  PROVE  TokensFit'
<1>1. PICK newLast \in lastId..MaxJobs :
        /\ lastId' = newLast
        /\ status' = [j \in JobIds |->
                        IF j \in StillStale(r) THEN "failed"
                        ELSE IF j \in (lastId + 1)..newLast THEN "queued"
                        ELSE status[j]]
  BY DEF ReapCommit
<1> DEFINE new == (lastId + 1)..newLast
<1>2. lastId \in Nat /\ newLast \in Nat /\ lastId <= newLast /\ newLast <= MaxJobs
  <2>1. lastId \in Int /\ MaxJobs \in Int /\ 0 <= lastId
    BY JobsAssumption DEF IInv, TypeOK
  <2> QED BY <2>1
<1>3. IsFiniteSet(new) /\ Cardinality(new) = newLast - lastId
  <2>1. lastId + 1 \in Int /\ newLast \in Int
    BY <1>2
  <2>2. IsFiniteSet(new) /\ Cardinality(new) = IF lastId + 1 > newLast THEN 0
                                                ELSE newLast - (lastId + 1) + 1
    BY <2>1, FS_Interval
  <2> QED BY <1>2, <2>2
<1>4. Queued \intersect new = {} /\ new \subseteq JobIds /\ StillStale(r) \intersect new = {}
  BY <1>2, JobsAssumption DEF Queued, StillStale, IsStale, JobIds, IInv, RowsAreNumbered, TypeOK
<1>5. StillStale(r) \intersect Queued = {}
  BY DEF StillStale, IsStale, Queued
<1> HIDE DEF new
<1>6. Queued' = Queued \union new
  BY <1>1, <1>4, <1>5 DEF Queued, new
<1>7. Cardinality(Queued') = Cardinality(Queued) + Cardinality(new)
  <2>1. IsFiniteSet(Queued) /\ Cardinality(Queued) \in Nat
    BY QueuedFinite
  <2>2. Cardinality(Queued \union new)
          = Cardinality(Queued) + Cardinality(new) - Cardinality(Queued \intersect new)
    BY <1>3, <2>1, FS_Union
  <2>3. Cardinality(Queued \intersect new) = 0
    BY <1>4, FS_EmptySet
  <2>4. Cardinality(new) \in Nat
    BY <1>3, FS_CardinalityType
  <2> QED BY <1>6, <2>1, <2>2, <2>3, <2>4
<1> QED BY <1>1, <1>2, <1>3, <1>7, QueuedFinite DEF TokensFit, ReapCommit, IInv, TypeOK

LEMMA NextFits == IInv /\ TokensFit /\ [JobNext]_jobVars => TokensFit'
<1> SUFFICES ASSUME IInv, TokensFit, [JobNext]_jobVars PROVE TokensFit'
  OBVIOUS
<1>1. lastToken \in Nat /\ lastId \in Nat /\ DOMAIN status = JobIds
  BY JobsAssumption DEF IInv, TypeOK
<1>2. CASE CreateJob
  <2>1. lastId + 1 \in JobIds /\ lastId + 1 \notin Queued
    BY <1>1, <1>2, JobsAssumption DEF CreateJob, Queued, JobIds, IInv, RowsAreNumbered
  <2>2. Queued' = Queued \union {lastId + 1}
    BY <1>1, <1>2, <2>1 DEF CreateJob, Queued
  <2>3. Cardinality(Queued') = Cardinality(Queued) + 1
    BY <2>1, <2>2, QueuedFinite, FS_AddElement
  <2> QED BY <1>1, <1>2, <2>3, QueuedFinite DEF CreateJob, TokensFit
<1>3. ASSUME NEW j \in JobIds, NEW d \in Daemons, ClaimJob(j, d) PROVE TokensFit'
  <2>1. j \in Queued /\ Queued' = Queued \ {j}
    BY <1>1, <1>3 DEF ClaimJob, Claimable, Queued
  <2>2. Cardinality(Queued') = Cardinality(Queued) - 1
    BY <2>1, QueuedFinite, FS_RemoveElement
  <2> QED BY <1>1, <1>3, <2>2, QueuedFinite DEF ClaimJob, TokensFit
<1>4. ASSUME NEW j \in JobIds, NEW outcome \in {"complete", "failed", "cancelled"}, NEW err,
             Close(j, outcome, err)
      PROVE  TokensFit'
  <2>1. Queued' = Queued \ {j}
    BY <1>1, <1>4 DEF Close, Queued
  <2>2. Cardinality(Queued') <= Cardinality(Queued) /\ Cardinality(Queued') \in Nat
    BY <2>1, QueuedFinite, FS_Subset, FS_CardinalityType
  <2> QED BY <1>1, <1>4, <2>2, QueuedFinite DEF Close, TokensFit
<1>5. CASE UNCHANGED <<status, lastId, lastToken>>
  BY <1>5 DEF TokensFit, Queued
<1>6. ASSUME NEW j \in JobIds, NEW d \in Daemons, NEW t \in Tokens,
             CompleteJob(j, d, t) \/ FailJob(j, d, t)
      PROVE  TokensFit'
  BY <1>4, <1>6 DEF CompleteJob, FailJob
<1>7. ASSUME NEW j \in JobIds, CancelJob(j) PROVE TokensFit'
  BY <1>4, <1>7 DEF CancelJob
<1>8. CASE \/ \E r \in Replicas : ReapScan(r) \/ ReapAbort(r)
           \/ \E d \in Daemons : RegisterDaemon(d)
           \/ \E j \in JobIds, d \in Daemons, t \in Tokens : HeartbeatJob(j, d, t)
           \/ AgeHeartbeats
           \/ UNCHANGED jobVars
  <2>1. UNCHANGED <<status, lastId, lastToken>>
    BY <1>8 DEF ReapScan, ReapAbort, RegisterDaemon, HeartbeatJob, AgeHeartbeats, jobVars
  <2> QED BY <2>1, <1>5
<1> QED BY <1>2, <1>3, <1>6, <1>7, <1>8, ReapFits DEF JobNext

LEMMA InitFits == JobInit => TokensFit
<1> SUFFICES ASSUME JobInit PROVE TokensFit
  OBVIOUS
<1>1. Queued = {}
  BY DEF JobInit, Queued
<1> QED BY <1>1, FS_EmptySet DEF JobInit, TokensFit

\* However often rows are copied, claimed and cancelled, no more tokens are drawn
\* than there are rows: the bound on rows is one on tokens (training_jobs.py:126-162).
THEOREM JobsTokensFit == JobSpec => []TokensFit
BY InitFits, NextFits, JobsInvariant, PTL DEF JobSpec

-------------------------------------------------------------------------------
(* Nornir at work on the table.                                            *)

\* A row that was claimed or settled once: it is never queued again.
Taken(j) == status[j] \notin {"absent", "queued"}

\* A daemon that has yet to upload the model of the job it works on.
OwesModel(d) == pc[d] \in {"training", "uploading"}

\* Types of what a daemon keeps.  It holds a row exactly while it works on one,
\* and its heartbeat task lives no longer than that.
DaemonsOK ==
  /\ pc \in [Daemons -> Working \union {"down", "registering", "polling", "claiming"}]
  /\ todo \in [Daemons -> SUBSET JobIds]
  /\ held \in [Daemons -> [job : 0..MaxJobs, token : 0..MaxJobs]]
  /\ hb \in [Daemons -> {"off", "on", "dead"}]
  /\ hbClock \in [Daemons -> 0..HbInterval]
  /\ \A d \in Daemons : pc[d] \in Working => held[d].job \in JobIds
  /\ \A d \in Daemons : pc[d] \notin Working => held[d] = NoJob /\ hb[d] = "off"
  /\ \A d \in Daemons : pc[d] = "claiming" <=> todo[d] # {}

\* A call that names a row names one of the table.
WellFormed(c) == c \in Request /\ (c.op # "register" => c.job \in JobIds)

CallsOK == \A c \in calls : WellFormed(c)

\* What somebody worked on, or tried to upload a model for, was taken.
WorkIsTaken ==
  /\ \A d \in Daemons : pc[d] \in Working => Taken(held[d].job)
  /\ \A c \in calls : c.op = "upload" => Taken(c.job)

\* A model is still owed by one daemon or one call at most, and then it is not
\* there; nor is that of a row nobody has taken.
ModelsAreOwed ==
  /\ \A d \in Daemons : OwesModel(d) =>
       /\ models[held[d].job] = 0
       /\ \A c \in calls : c.op = "upload" => c.job # held[d].job
  /\ \A c \in calls : c.op = "upload" =>
       /\ models[c.job] = 0
       /\ \A b \in calls : b.op = "upload" /\ b.job = c.job => b = c
  /\ \A j \in JobIds : ~Taken(j) => models[j] = 0

\* Who reports a job complete has uploaded its model before.
CompleteIsBacked ==
  /\ \A d \in Daemons : pc[d] = "completing" => models[held[d].job] > 0
  /\ \A c \in calls : c.op = "complete" => models[c.job] > 0

\* The inductive invariant, on top of that of the job table.
NInv ==
  /\ IInv /\ TokensFit
  /\ DaemonsOK /\ CallsOK /\ models \in [JobIds -> Nat]
  /\ WorkIsTaken /\ ModelsAreOwed /\ CompleteIsBacked
  /\ OneHolder /\ OneModelPerRow /\ CompleteHasModel

-------------------------------------------------------------------------------
(* The job table under Nornir.                                             *)

LEMMA Bounds ==
  /\ 0 \in 0..MaxJobs /\ MaxJobs \in Nat /\ JobIds \subseteq 0..MaxJobs
  /\ HbInterval \in Nat /\ 0 \in 0..HbInterval
BY JobsAssumption, NornirAssumption DEF JobIds

\* A token that opens a row is one of the tokens, and not that of no claim.
LEMMA OwnsToken ==
  ASSUME IInv, TokensFit, NEW j \in JobIds, NEW d, NEW t, Owns(j, d, t)
  PROVE  t \in Tokens
<1>1. /\ claimToken[j] \in Nat /\ claimToken[j] # NoToken /\ claimToken[j] <= lastToken
      /\ lastToken \in Nat
  BY DEF Owns, IInv, TypeOK, TokensOpenOneJob, RowsAreNumbered
<1>2. lastToken <= MaxJobs
  <2>1. lastId \in Nat /\ lastId <= MaxJobs
    BY JobsAssumption DEF IInv, TypeOK
  <2> QED BY <1>1, <2>1, QueuedFinite, JobsAssumption DEF TokensFit
<1> QED BY <1>1, <1>2, JobsAssumption DEF Owns, Tokens, NoToken

\* Taken rows stay taken.
LEMMA TakenStays ==
  ASSUME IInv, [JobNext]_jobVars, NEW j \in JobIds, Taken(j)
  PROVE  Taken(j)'
<1>1. j <= lastId /\ lastId \in Nat /\ j \in Nat
  BY Ids DEF IInv, TypeOK, RowsAreNumbered, Taken
<1>2. CASE CreateJob
  BY <1>1, <1>2 DEF CreateJob, Taken, IInv, TypeOK
<1>3. CASE \E i \in JobIds, d \in Daemons : ClaimJob(i, d)
  BY <1>3 DEF ClaimJob, Taken, IInv, TypeOK
<1>4. CASE \/ \E i \in JobIds, d \in Daemons, t \in Tokens :
                CompleteJob(i, d, t) \/ FailJob(i, d, t)
           \/ \E i \in JobIds : CancelJob(i)
  <2>1. PICK i \in JobIds, o \in {"complete", "failed", "cancelled"} : \E e : Close(i, o, e)
    BY <1>4 DEF CompleteJob, FailJob, CancelJob
  <2> QED BY <2>1 DEF Close, Taken, IInv, TypeOK
<1>5. CASE \E r \in Replicas : ReapCommit(r)
  <2>1. PICK r \in Replicas : ReapCommit(r)
    BY <1>5
  <2>2. PICK newLast \in lastId..MaxJobs :
          status' = [i \in JobIds |->
                       IF i \in StillStale(r) THEN "failed"
                       ELSE IF i \in (lastId + 1)..newLast THEN "queued"
                       ELSE status[i]]
    BY <2>1 DEF ReapCommit
  <2>3. j \notin (lastId + 1)..newLast
    BY <1>1
  <2> QED BY <2>2, <2>3 DEF Taken
<1>6. CASE \/ \E r \in Replicas : ReapScan(r) \/ ReapAbort(r)
           \/ \E d \in Daemons : RegisterDaemon(d)
           \/ \E i \in JobIds, d \in Daemons, t \in Tokens : HeartbeatJob(i, d, t)
           \/ AgeHeartbeats
           \/ UNCHANGED jobVars
  BY <1>6 DEF ReapScan, ReapAbort, RegisterDaemon, HeartbeatJob, AgeHeartbeats, jobVars, Taken
<1> QED BY <1>2, <1>3, <1>4, <1>5, <1>6 DEF JobNext

\* A taken row that still runs is still with the daemon it was claimed by.
LEMMA ClaimStays ==
  ASSUME IInv, [JobNext]_jobVars, NEW j \in JobIds, Taken(j), status'[j] = "running"
  PROVE  status[j] = "running" /\ daemonId'[j] = daemonId[j] /\ claimToken'[j] = claimToken[j]
<1>1. j <= lastId /\ lastId \in Nat /\ j \in Nat
  BY Ids DEF IInv, TypeOK, RowsAreNumbered, Taken
<1>2. CASE CreateJob
  BY <1>1, <1>2 DEF CreateJob, IInv, TypeOK
<1>3. CASE \E i \in JobIds, d \in Daemons : ClaimJob(i, d)
  BY <1>3 DEF ClaimJob, Claimable, Taken, IInv, TypeOK
<1>4. CASE \/ \E i \in JobIds, d \in Daemons, t \in Tokens :
                CompleteJob(i, d, t) \/ FailJob(i, d, t)
           \/ \E i \in JobIds : CancelJob(i)
  <2>1. PICK i \in JobIds, o \in {"complete", "failed", "cancelled"} : \E e : Close(i, o, e)
    BY <1>4 DEF CompleteJob, FailJob, CancelJob
  <2> QED BY <2>1 DEF Close, IInv, TypeOK
<1>5. CASE \E r \in Replicas : ReapCommit(r)
  <2>1. PICK r \in Replicas : ReapCommit(r)
    BY <1>5
  <2>2. PICK newLast \in lastId..MaxJobs :
          /\ status' = [i \in JobIds |->
                          IF i \in StillStale(r) THEN "failed"
                          ELSE IF i \in (lastId + 1)..newLast THEN "queued"
                          ELSE status[i]]
          /\ claimToken' = [i \in JobIds |->
                              IF i \in StillStale(r) THEN NoToken ELSE claimToken[i]]
          /\ daemonId' = daemonId
    BY <2>1 DEF ReapCommit
  <2> QED BY <1>1, <2>2
<1>6. CASE \/ \E r \in Replicas : ReapScan(r) \/ ReapAbort(r)
           \/ \E d \in Daemons : RegisterDaemon(d)
           \/ \E i \in JobIds, d \in Daemons, t \in Tokens : HeartbeatJob(i, d, t)
           \/ AgeHeartbeats
           \/ UNCHANGED jobVars
  BY <1>6 DEF ReapScan, ReapAbort, RegisterDaemon, HeartbeatJob, AgeHeartbeats, jobVars
<1> QED BY <1>2, <1>3, <1>4, <1>5, <1>6 DEF JobNext

\* A step completes no row but those in S.
CompletesOnly(S) ==
  \A j \in JobIds : status'[j] = "complete" => status[j] = "complete" \/ j \in S

\* What serving a call does to the table is a step of the table.
LEMMA ServeIsJobStep ==
  ASSUME IInv, TokensFit, NEW c, WellFormed(c), Serve(c)
  PROVE  /\ [JobNext]_jobVars
         /\ CompletesOnly({j \in JobIds : c.op = "complete" /\ j = c.job})
         /\ c.op # "upload" => models' = models
<1>1. c.daemon \in Daemons
  BY DEF WellFormed, Request
<1>2. CASE c.op = "register" /\ RegisterDaemon(c.daemon) /\ UNCHANGED models
  BY <1>1, <1>2 DEF RegisterDaemon, JobNext, CompletesOnly
<1>3. CASE c.op = "claim" /\ ClaimJob(c.job, c.daemon) /\ UNCHANGED models
  <2>1. CompletesOnly({})
    BY <1>3 DEF ClaimJob, CompletesOnly, IInv, TypeOK
  <2> QED BY <1>1, <1>3, <2>1 DEF WellFormed, JobNext, CompletesOnly
<1>4. CASE c.op = "heartbeat" /\ HeartbeatJob(c.job, c.daemon, c.token) /\ UNCHANGED models
  <2>1. c.job \in JobIds /\ c.token \in Tokens
    BY <1>4, OwnsToken DEF WellFormed, HeartbeatJob
  <2> QED BY <1>1, <1>4, <2>1 DEF HeartbeatJob, JobNext, CompletesOnly
<1>5. CASE c.op = "complete" /\ CompleteJob(c.job, c.daemon, c.token) /\ UNCHANGED models
  <2>1. c.job \in JobIds /\ c.token \in Tokens
    BY <1>5, OwnsToken DEF WellFormed, CompleteJob
  <2>2. CompletesOnly({c.job})
    BY <1>5, <2>1 DEF CompleteJob, Close, CompletesOnly, IInv, TypeOK
  <2> QED BY <1>1, <1>5, <2>1, <2>2 DEF JobNext, CompletesOnly
<1>6. CASE c.op = "fail" /\ FailJob(c.job, c.daemon, c.token) /\ UNCHANGED models
  <2>1. c.job \in JobIds /\ c.token \in Tokens
    BY <1>6, OwnsToken DEF WellFormed, FailJob
  <2>2. CompletesOnly({})
    BY <1>6 DEF FailJob, Close, CompletesOnly, IInv, TypeOK
  <2> QED BY <1>1, <1>6, <2>1, <2>2 DEF JobNext, CompletesOnly
<1>7. CASE c.op = "upload" /\ UploadModel(c.job)
  BY <1>7 DEF UploadModel, jobVars, CompletesOnly
<1> QED BY <1>2, <1>3, <1>4, <1>5, <1>6, <1>7 DEF Serve

\* The table takes a step of its own, and its invariant stays.
LEMMA TableKeepsItsInvariant ==
  ASSUME IInv, TokensFit, [JobNext]_jobVars
  PROVE  IInv' /\ TokensFit'
BY NextIInv, NextFits

LEMMA UnservedIsStutter == Unserved => [JobNext]_jobVars /\ CompletesOnly({}) /\ models' = models
BY DEF Unserved, jobVars, CompletesOnly

-------------------------------------------------------------------------------
(* Steps that make no new claim and no new model.                          *)

\* A daemon goes on with its row, or lets go of it.
GoesOn(d) ==
  \/ pc'[d] \notin Working
  \/ /\ held'[d] = held[d] /\ pc[d] \in Working
     /\ \/ pc'[d] = pc[d]
        \/ pc[d] = "training" /\ pc'[d] = "uploading"
        \/ pc'[d] \in {"failing", "finishing"}

\* A call that was there, or one that brings no model and, if it completes a row,
\* the row of a model that is there.
AddsNoUpload(c) ==
  \/ c \in calls
  \/ WellFormed(c) /\ c.op # "upload" /\ (c.op = "complete" => models[c.job] > 0)

LEMMA GoOnNInv ==
  ASSUME NInv, [JobNext]_jobVars, DaemonsOK', models' = models,
         \A d \in Daemons : GoesOn(d), \A c \in calls' : AddsNoUpload(c),
         CompletesOnly({j \in JobIds : models[j] > 0})
  PROVE  NInv'
<1>1. IInv' /\ TokensFit'
  BY TableKeepsItsInvariant DEF NInv
<1>2. CallsOK' /\ models' \in [JobIds -> Nat]
  BY DEF NInv, CallsOK, AddsNoUpload, WellFormed
<1>3. \A d \in Daemons : pc'[d] \in Working =>
        pc[d] \in Working /\ held'[d] = held[d] /\ held[d].job \in JobIds
  BY DEF GoesOn, NInv, DaemonsOK
<1>4. \A c \in calls' : c.op = "upload" => c \in calls /\ c.job \in JobIds
  BY DEF AddsNoUpload, NInv, CallsOK, WellFormed
<1>5. \A j \in JobIds : Taken(j) => Taken(j)'
  BY TakenStays DEF NInv
<1>6. WorkIsTaken'
  BY <1>3, <1>4, <1>5 DEF NInv, WorkIsTaken
<1>7. ModelsAreOwed'
  <2>1. \A d \in Daemons : OwesModel(d)' => OwesModel(d) /\ held'[d] = held[d]
    BY <1>3 DEF OwesModel, GoesOn, Working
  <2> QED BY <2>1, <1>4, <1>5 DEF NInv, ModelsAreOwed
<1>8. CompleteIsBacked'
  <2>1. \A d \in Daemons : pc'[d] = "completing" => pc[d] = "completing" /\ held'[d] = held[d]
    BY DEF GoesOn, Working
  <2> QED BY <2>1 DEF NInv, CompleteIsBacked, AddsNoUpload
<1>9. OneHolder'
  <2>1. \A d \in Daemons : pc'[d] \in Working => Taken(held[d].job)
    BY <1>3 DEF NInv, WorkIsTaken
  <2> QED BY <1>3, <2>1, ClaimStays DEF NInv, OneHolder
<1>10. OneModelPerRow' /\ CompleteHasModel'
  BY DEF NInv, OneModelPerRow, CompleteHasModel, CompletesOnly
<1> QED BY <1>1, <1>2, <1>6, <1>7, <1>8, <1>9, <1>10 DEF NInv

\* Daemon d moves from one place to another and keeps the rest.
LEMMA GotoDaemons ==
  ASSUME DaemonsOK, NEW d \in Daemons, NEW l, Goto(d, l),
         l \in Working \union {"down", "registering", "polling", "claiming"},
         pc[d] \in Working <=> l \in Working, pc[d] # "claiming", l # "claiming"
  PROVE  DaemonsOK' /\ \A o \in Daemons : pc'[o] = IF o = d THEN l ELSE pc[o]
BY DEF Goto, DaemonsOK

LEMMA ExitDaemons ==
  ASSUME DaemonsOK, NEW d \in Daemons, Exit(d)
  PROVE  /\ DaemonsOK'
         /\ \A o \in Daemons : /\ pc'[o] = IF o = d THEN "down" ELSE pc[o]
                               /\ o # d => held'[o] = held[o]
<1>1. NoJob \in [job : 0..MaxJobs, token : 0..MaxJobs] /\ 0 \in 0..HbInterval
  BY Bounds DEF NoJob, NoToken
<1>2. "down" \notin Working
  BY DEF Working
<1> QED BY <1>1, <1>2 DEF Exit, DaemonsOK

\* What goes on while the daemons stand still.
LEMMA AsideNInv ==
  ASSUME NInv, [JobNext]_jobVars, CompletesOnly({j \in JobIds : models[j] > 0}),
         UNCHANGED <<pc, todo, held, hb, models>>,
         hbClock' \in [Daemons -> 0..HbInterval],
         \A c \in calls' : AddsNoUpload(c)
  PROVE  NInv'
<1>1. DaemonsOK'
  BY DEF NInv, DaemonsOK
<1>2. \A d \in Daemons : GoesOn(d)
  BY DEF GoesOn
<1> QED BY <1>1, <1>2, GoOnNInv

\* A daemon that leaves its place with nothing in hand, or gives up, or exits.
LEMMA MoveNInv ==
  ASSUME NInv, NEW d \in Daemons, NEW l, [JobNext]_jobVars, models' = models,
         CompletesOnly({j \in JobIds : models[j] > 0}),
         \A c \in calls' : AddsNoUpload(c),
         \/ Exit(d)
         \/ /\ Goto(d, l) /\ pc[d] # "claiming"
            /\ \/ l \in {"registering", "polling"} /\ pc[d] \notin Working
               \/ l \in {"failing", "finishing"} /\ pc[d] \in Working
               \/ l = "uploading" /\ pc[d] = "training"
         \/ UNCHANGED daemonVars
  PROVE  NInv'
<1>1. CASE Exit(d)
  <2>1. DaemonsOK' /\ \A o \in Daemons : GoesOn(o)
    BY <1>1, ExitDaemons DEF NInv, GoesOn, Working
  <2> QED BY <2>1, GoOnNInv
<1>2. CASE /\ Goto(d, l) /\ pc[d] # "claiming"
           /\ \/ l \in {"registering", "polling"} /\ pc[d] \notin Working
              \/ l \in {"failing", "finishing"} /\ pc[d] \in Working
              \/ l = "uploading" /\ pc[d] = "training"
  <2>1. DaemonsOK' /\ \A o \in Daemons : pc'[o] = IF o = d THEN l ELSE pc[o]
    BY <1>2, GotoDaemons DEF NInv, Working
  <2>2. \A o \in Daemons : GoesOn(o)
    BY <1>2, <2>1 DEF GoesOn, Goto, Working
  <2> QED BY <2>1, <2>2, GoOnNInv
<1>3. CASE UNCHANGED daemonVars
  BY <1>3, AsideNInv DEF daemonVars, NInv, DaemonsOK
<1> QED BY <1>1, <1>2, <1>3

-------------------------------------------------------------------------------
(* Calls.                                                                  *)

\* Freki's part in a call, and what is left of the call afterwards.
CallHappens(c) ==
  \/ Serve(c) /\ calls' = calls
  \/ Unserved /\ calls' \in {calls, calls \union {c}}

\* A call that brings no model, and is not a report without one, is harmless.
LEMMA HarmlessCall ==
  ASSUME NInv, NEW c, WellFormed(c), c.op # "upload",
         c.op = "complete" => models[c.job] > 0, CallHappens(c)
  PROVE  /\ [JobNext]_jobVars /\ models' = models
         /\ CompletesOnly({j \in JobIds : models[j] > 0})
         /\ \A b \in calls' : AddsNoUpload(b)
<1>1. CASE Serve(c) /\ calls' = calls
  <2>1. /\ [JobNext]_jobVars /\ models' = models
        /\ CompletesOnly({j \in JobIds : c.op = "complete" /\ j = c.job})
    BY <1>1, ServeIsJobStep DEF NInv
  <2> QED BY <1>1, <2>1 DEF CompletesOnly, AddsNoUpload
<1>2. CASE Unserved /\ calls' \in {calls, calls \union {c}}
  <2>1. [JobNext]_jobVars /\ CompletesOnly({}) /\ models' = models
    BY <1>2, UnservedIsStutter
  <2> QED BY <1>2, <2>1 DEF CompletesOnly, AddsNoUpload
<1> QED BY <1>1, <1>2 DEF CallHappens

\* Requests a daemon makes about the row it holds.
LEMMA HeldRequest ==
  ASSUME NInv, NEW d \in Daemons, pc[d] \in Working,
         NEW o \in {"heartbeat", "upload", "complete", "fail"}
  PROVE  LET c == Req(o, d, held[d])
         IN  /\ WellFormed(c) /\ c.op = o /\ c.job = held[d].job /\ c.daemon = d
             /\ c.token = held[d].token
BY DEF NInv, DaemonsOK, Req, WellFormed, Request

LEMMA RegisterNInv ==
  ASSUME NInv, NEW d \in Daemons, Register(d)
  PROVE  NInv'
<1> DEFINE c == Req("register", d, NoJob)
<1>1. WellFormed(c) /\ c.op = "register"
  BY Bounds DEF Req, WellFormed, Request, NoJob, NoToken
<1>2. CallHappens(c)
  BY DEF Register, Call, CallHappens
<1>3. Goto(d, "polling") \/ UNCHANGED daemonVars \/ Exit(d)
  BY DEF Register, Call
<1>4. pc[d] = "registering"
  BY DEF Register
<1> HIDE DEF c
<1> QED BY <1>1, <1>2, <1>3, <1>4, HarmlessCall, MoveNInv DEF Working

LEMMA CompleteNInv ==
  ASSUME NInv, NEW d \in Daemons, Complete(d)
  PROVE  NInv'
<1> DEFINE c == Req("complete", d, held[d])
<1>1. pc[d] = "completing" /\ pc[d] \in Working
  BY DEF Complete, Working
<1>2. WellFormed(c) /\ c.op = "complete" /\ models[c.job] > 0
  BY <1>1, HeldRequest DEF NInv, CompleteIsBacked
<1>3. CallHappens(c)
  BY DEF Complete, Call, CallHappens
<1>4. Goto(d, "finishing") \/ Exit(d)
  BY DEF Complete, Call
<1> HIDE DEF c
<1> QED BY <1>1, <1>2, <1>3, <1>4, HarmlessCall, MoveNInv

LEMMA FailNInv ==
  ASSUME NInv, NEW d \in Daemons, Fail(d)
  PROVE  NInv'
<1> DEFINE c == Req("fail", d, held[d])
<1>1. pc[d] = "failing" /\ pc[d] \in Working
  BY DEF Fail, Working
<1>2. WellFormed(c) /\ c.op = "fail"
  BY <1>1, HeldRequest
<1>3. CallHappens(c)
  BY DEF Fail, Call, CallHappens
<1>4. Goto(d, "finishing") \/ Exit(d)
  BY DEF Fail, Call
<1> HIDE DEF c
<1> QED BY <1>1, <1>2, <1>3, <1>4, HarmlessCall, MoveNInv

\* The heartbeat task outlives a rejected call and dies of an unanswered one.
LEMMA HeartbeatNInv ==
  ASSUME NInv, NEW d \in Daemons, JobHeartbeat(d)
  PROVE  NInv'
<1> DEFINE c == Req("heartbeat", d, held[d])
<1>1. pc[d] \in Working
  BY DEF JobHeartbeat, NInv, DaemonsOK
<1>2. WellFormed(c) /\ c.op = "heartbeat"
  BY <1>1, HeldRequest
<1>3. CallHappens(c)
  BY DEF JobHeartbeat, Call, CallHappens
<1>4. /\ UNCHANGED <<pc, todo, held>>
      /\ \/ hb' = hb /\ hbClock' = [hbClock EXCEPT ![d] = 0]
         \/ hb' = [hb EXCEPT ![d] = "dead"] /\ hbClock' = hbClock
  BY DEF JobHeartbeat, Call
<1> HIDE DEF c
<1>5. DaemonsOK'
  BY <1>1, <1>4, Bounds DEF NInv, DaemonsOK
<1>6. \A o \in Daemons : GoesOn(o)
  BY <1>4 DEF GoesOn
<1> QED BY <1>2, <1>3, <1>5, <1>6, HarmlessCall, GoOnNInv

\* A list is fetched, or the fetch fails.
LEMMA ListNInv ==
  ASSUME NInv, NEW d \in Daemons, ListJobs(d)
  PROVE  NInv'
<1>1. /\ [JobNext]_jobVars /\ models' = models
      /\ CompletesOnly({j \in JobIds : models[j] > 0})
      /\ \A b \in calls' : AddsNoUpload(b)
  BY DEF ListJobs, jobVars, CompletesOnly, AddsNoUpload
<1>2. CASE /\ Listing # {}
           /\ todo' = [todo EXCEPT ![d] = Listing]
           /\ pc' = [pc EXCEPT ![d] = "claiming"]
           /\ UNCHANGED <<held, hb, hbClock>>
  <2>1. Listing \subseteq JobIds
    BY DEF Listing
  <2>2. DaemonsOK'
    BY <1>2, <2>1 DEF ListJobs, NInv, DaemonsOK, Working
  <2>3. \A o \in Daemons : GoesOn(o)
    BY <1>2 DEF GoesOn, NInv, DaemonsOK, Working
  <2> QED BY <1>1, <2>2, <2>3, GoOnNInv
<1>3. CASE UNCHANGED daemonVars \/ Exit(d)
  BY <1>1, <1>3, MoveNInv
<1> QED BY <1>2, <1>3 DEF ListJobs

LEMMA FinishNInv ==
  ASSUME NInv, NEW d \in Daemons, Finish(d)
  PROVE  NInv'
<1>1. /\ [JobNext]_jobVars /\ models' = models
      /\ CompletesOnly({j \in JobIds : models[j] > 0})
      /\ \A b \in calls' : AddsNoUpload(b)
  BY DEF Finish, jobVars, CompletesOnly, AddsNoUpload
<1>2. CASE Exit(d)
  BY <1>1, <1>2, MoveNInv
<1>3. CASE /\ pc' = [pc EXCEPT ![d] = "polling"]
           /\ held' = [held EXCEPT ![d] = NoJob]
           /\ hb' = [hb EXCEPT ![d] = "off"]
           /\ hbClock' = [hbClock EXCEPT ![d] = 0]
           /\ UNCHANGED todo
  <2>1. NoJob \in [job : 0..MaxJobs, token : 0..MaxJobs] /\ "polling" \notin Working
    BY Bounds DEF NoJob, NoToken, Working
  <2>2. DaemonsOK'
    BY <1>3, <2>1, Bounds DEF Finish, NInv, DaemonsOK
  <2>3. \A o \in Daemons : GoesOn(o)
    BY <1>3, <2>1 DEF GoesOn, NInv, DaemonsOK
  <2> QED BY <1>1, <2>2, <2>3, GoOnNInv
<1> QED BY <1>2, <1>3 DEF Finish

\* A daemon that starts, crashes or trains.
LEMMA LocalNInv ==
  ASSUME NInv, NEW d \in Daemons, Start(d) \/ Crash(d) \/ Train(d)
  PROVE  NInv'
<1>1. /\ [JobNext]_jobVars /\ models' = models
      /\ CompletesOnly({j \in JobIds : models[j] > 0})
      /\ \A b \in calls' : AddsNoUpload(b)
  BY DEF Start, Crash, Train, jobVars, CompletesOnly, AddsNoUpload
<1>2. CASE Start(d)
  BY <1>1, <1>2, MoveNInv DEF Start, Working
<1>3. CASE Crash(d)
  BY <1>1, <1>3, MoveNInv DEF Crash
<1>4. CASE Train(d)
  BY <1>1, <1>4, MoveNInv DEF Train, Working
<1> QED BY <1>2, <1>3, <1>4

-------------------------------------------------------------------------------
(* A claim, and the way of a model into the registry.                      *)

\* The row was queued: nobody worked on it, and it has no model.
LEMMA BeginNInv ==
  ASSUME NInv, NEW d \in Daemons, NEW j \in JobIds, pc[d] = "claiming",
         ClaimJob(j, d), Begin(d, j), UNCHANGED <<calls, models>>
  PROVE  NInv'
<1>1. [JobNext]_jobVars
  BY DEF JobNext
<1>2. IInv' /\ TokensFit'
  BY <1>1, TableKeepsItsInvariant DEF NInv
<1>3. /\ ~Taken(j) /\ Taken(j)' /\ CompletesOnly({})
      /\ \A i \in JobIds : Taken(i) => Taken(i)'
  BY DEF ClaimJob, Claimable, Taken, NInv, IInv, TypeOK, CompletesOnly
<1>4. claimToken'[j] \in 0..MaxJobs
  <2>1. claimToken'[j] = lastToken' /\ lastToken' \in Nat /\ lastId' \in Nat /\ lastId' <= MaxJobs
    BY <1>2, JobsAssumption DEF ClaimJob, NInv, IInv, TypeOK
  <2>2. Cardinality(Queued)' \in Nat
    <3>1. IsFiniteSet(JobIds) /\ Queued' \in SUBSET JobIds
      BY JobsAssumption, FS_Interval DEF JobIds, Queued
    <3> QED BY <3>1, FS_Subset, FS_CardinalityType
  <2>3. lastToken' + Cardinality(Queued)' <= lastId'
    BY <1>2 DEF TokensFit
  <2> QED BY <2>1, <2>2, <2>3, JobsAssumption
<1>5. /\ pc' = [pc EXCEPT ![d] = "training"] /\ todo' = [todo EXCEPT ![d] = {}]
      /\ held' = [held EXCEPT ![d] = [job |-> j, token |-> claimToken'[j]]]
      /\ hb' = [hb EXCEPT ![d] = "on"] /\ hbClock' = [hbClock EXCEPT ![d] = 0]
      /\ UNCHANGED <<calls, models>>
  BY DEF Begin
<1>6. DaemonsOK'
  <2>1. [job |-> j, token |-> claimToken'[j]] \in [job : 0..MaxJobs, token : 0..MaxJobs]
    BY <1>4, Bounds
  <2>2. held' \in [Daemons -> [job : 0..MaxJobs, token : 0..MaxJobs]] /\ held'[d].job = j
    BY <1>5, <2>1 DEF NInv, DaemonsOK
  <2> QED BY <1>5, <2>2, Bounds DEF NInv, DaemonsOK, Working
<1>7. \A o \in Daemons : /\ pc'[o] = IF o = d THEN "training" ELSE pc[o]
                         /\ held'[o].job = IF o = d THEN j ELSE held[o].job
  BY <1>5 DEF NInv, DaemonsOK
<1>8. /\ \A o \in Daemons : pc[o] \in Working => held[o].job # j
      /\ \A c \in calls : c.op = "upload" => c.job # j
      /\ models[j] = 0
  BY <1>3 DEF NInv, WorkIsTaken, ModelsAreOwed
<1>9. WorkIsTaken'
  <2>1. \A o \in Daemons : pc[o] \in Working => held[o].job \in JobIds
    BY DEF NInv, DaemonsOK
  <2>2. \A c \in calls : c.op = "upload" => c.job \in JobIds
    BY DEF NInv, CallsOK, WellFormed
  <2> QED BY <1>3, <1>5, <1>7, <2>1, <2>2 DEF NInv, WorkIsTaken
<1>10. ModelsAreOwed'
  BY <1>3, <1>5, <1>7, <1>8 DEF NInv, ModelsAreOwed, OwesModel
<1>11. CompleteIsBacked'
  BY <1>5, <1>7, <1>8 DEF NInv, CompleteIsBacked
<1>13. OneHolder'
  <2>1. ASSUME NEW o \in Daemons, pc'[o] \in Working, status'[held'[o].job] = "running"
        PROVE  daemonId'[held'[o].job] = o /\ claimToken'[held'[o].job] = held'[o].token
    <3>1. CASE o = d
      <4>1. held'[d].job = j /\ held'[d].token = claimToken'[j]
        BY <1>5 DEF NInv, DaemonsOK
      <4>2. daemonId'[j] = d
        BY DEF ClaimJob, NInv, IInv, TypeOK
      <4> QED BY <3>1, <4>1, <4>2
    <3>2. CASE o # d
      <4>1. pc[o] \in Working /\ held'[o] = held[o]
        BY <1>5, <2>1, <3>2 DEF NInv, DaemonsOK
      <4>2. held[o].job \in JobIds /\ Taken(held[o].job)
        BY <4>1 DEF NInv, DaemonsOK, WorkIsTaken
      <4>3. /\ status[held[o].job] = "running"
            /\ daemonId'[held[o].job] = daemonId[held[o].job]
            /\ claimToken'[held[o].job] = claimToken[held[o].job]
        BY <1>1, <2>1, <4>1, <4>2, ClaimStays DEF NInv
      <4> QED BY <4>1, <4>3 DEF NInv, OneHolder
    <3> QED BY <3>1, <3>2
  <2>2. \A c, e \in Daemons : pc'[c] \in Working /\ pc'[e] \in Working /\ c # e
                              => held'[c].job # held'[e].job
    BY <1>5, <1>7, <1>8 DEF NInv, OneHolder
  <2> QED BY <2>1, <2>2 DEF OneHolder
<1>12. CallsOK' /\ models' \in [JobIds -> Nat] /\ OneModelPerRow' /\ CompleteHasModel'
  BY <1>3, <1>5 DEF NInv, CallsOK, OneModelPerRow, CompleteHasModel, CompletesOnly
<1> QED BY <1>2, <1>6, <1>9, <1>10, <1>11, <1>12, <1>13 DEF NInv

LEMMA ClaimNInv ==
  ASSUME NInv, NEW d \in Daemons, Claim(d)
  PROVE  NInv'
<1> PICK j \in todo[d] : Call(Req("claim", d, [job |-> j, token |-> NoToken]),
                              Begin(d, j), Skip(d, j), Exit(d))
  BY DEF Claim
<1> DEFINE c == Req("claim", d, [job |-> j, token |-> NoToken])
<1>1. pc[d] = "claiming" /\ j \in JobIds
  BY DEF Claim, NInv, DaemonsOK
<1>2. WellFormed(c) /\ c.op = "claim" /\ c.job = j /\ c.daemon = d
  BY <1>1, Bounds DEF Req, WellFormed, Request, NoToken
<1>3. \/ Serve(c) /\ Begin(d, j) /\ UNCHANGED calls
      \/ CallHappens(c) /\ (Skip(d, j) \/ Exit(d))
  BY DEF Call, CallHappens
<1> HIDE DEF c
<1>4. CASE Serve(c) /\ Begin(d, j) /\ UNCHANGED calls
  BY <1>1, <1>2, <1>4, BeginNInv DEF Serve
<1>5. CASE CallHappens(c) /\ Skip(d, j)
  <2>1. DaemonsOK'
    BY <1>1, <1>5 DEF Skip, NInv, DaemonsOK, Working
  <2>2. \A o \in Daemons : GoesOn(o)
    BY <1>1, <1>5 DEF Skip, GoesOn, NInv, DaemonsOK, Working
  <2> QED BY <1>2, <1>5, <2>1, <2>2, HarmlessCall, GoOnNInv
<1>6. CASE CallHappens(c) /\ Exit(d)
  BY <1>2, <1>6, HarmlessCall, MoveNInv
<1> QED BY <1>3, <1>4, <1>5, <1>6

\* The one model of a row arrives, by the daemon's call or by its late one.
LEMMA ArrivalNInv ==
  ASSUME NInv, NEW j \in JobIds, UploadModel(j), DaemonsOK', calls' \subseteq calls,
         \A c \in calls' : c.op = "upload" => c.job # j,
         Taken(j), models[j] = 0,
         \A d \in Daemons : GoesOn(d) \/ (pc'[d] = "completing" /\ pc[d] = "uploading"
                                            /\ held'[d] = held[d] /\ held[d].job = j),
         \A d \in Daemons : OwesModel(d)' => held'[d].job # j
  PROVE  NInv'
<1>1. models' = [models EXCEPT ![j] = 1] /\ UNCHANGED jobVars
  BY DEF UploadModel
<1>2. \A i \in JobIds : models'[i] = IF i = j THEN 1 ELSE models[i]
  BY <1>1 DEF NInv
<1>3. /\ IInv' /\ TokensFit' /\ UNCHANGED status /\ \A i : Taken(i)' <=> Taken(i)
  BY <1>1, TableKeepsItsInvariant DEF jobVars, NInv, Taken
<1>4. \A d \in Daemons : pc'[d] \in Working =>
        pc[d] \in Working /\ held'[d] = held[d] /\ held[d].job \in JobIds
  BY DEF GoesOn, NInv, DaemonsOK, Working
<1>5. \A c \in calls' : c \in calls /\ WellFormed(c) /\ (c.op # "register" => c.job \in JobIds)
  BY DEF NInv, CallsOK, WellFormed
<1>6. CallsOK' /\ models' \in [JobIds -> Nat]
  BY <1>1, <1>5 DEF CallsOK, NInv
<1>7. WorkIsTaken'
  BY <1>3, <1>4, <1>5 DEF NInv, WorkIsTaken
<1>8. ModelsAreOwed'
  <2>1. ASSUME NEW d \in Daemons, OwesModel(d)'
        PROVE  /\ OwesModel(d) /\ held'[d] = held[d] /\ held[d].job # j
               /\ held[d].job \in JobIds
    BY <2>1, <1>4 DEF OwesModel, GoesOn, Working
  <2> QED BY <1>2, <1>3, <1>5, <2>1 DEF NInv, ModelsAreOwed
<1>9. CompleteIsBacked'
  <2>1. ASSUME NEW d \in Daemons, pc'[d] = "completing"
        PROVE  models'[held'[d].job] > 0
    <3>1. held'[d] = held[d] /\ held[d].job \in JobIds /\ models[held[d].job] \in Nat
      BY <1>4, <2>1 DEF Working, NInv
    <3>2. pc[d] = "completing" \/ held[d].job = j
      BY <2>1 DEF GoesOn, Working
    <3> QED BY <1>2, <3>1, <3>2 DEF NInv, CompleteIsBacked
  <2>2. \A c \in calls' : c.op = "complete" => models'[c.job] > 0
    BY <1>2, <1>5 DEF NInv, CompleteIsBacked
  <2> QED BY <2>1, <2>2 DEF CompleteIsBacked
<1>10. OneModelPerRow' /\ CompleteHasModel'
  BY <1>2, <1>3, <1>4 DEF NInv, OneModelPerRow, CompleteHasModel
<1>11. OneHolder'
  BY <1>1, <1>4 DEF NInv, OneHolder, jobVars
<1> QED BY <1>3, <1>6, <1>7, <1>8, <1>9, <1>10, <1>11 DEF NInv

LEMMA UploadNInv ==
  ASSUME NInv, NEW d \in Daemons, Upload(d)
  PROVE  NInv'
<1> DEFINE c == Req("upload", d, held[d])
           j == held[d].job
<1>1. pc[d] = "uploading" /\ pc[d] \in Working /\ OwesModel(d)
  BY DEF Upload, Working, OwesModel
<1>2. WellFormed(c) /\ c.op = "upload" /\ c.job = j
  BY <1>1, HeldRequest
<1>3. /\ j \in JobIds /\ Taken(j) /\ models[j] = 0
      /\ \A b \in calls : b.op = "upload" => b.job # j
      /\ \A o \in Daemons : o # d /\ pc[o] \in Working => held[o].job # j
  BY <1>1, <1>2 DEF NInv, DaemonsOK, WorkIsTaken, ModelsAreOwed, OneHolder
<1>4. \/ Serve(c) /\ Goto(d, "completing") /\ UNCHANGED calls
      \/ Unserved /\ UNCHANGED calls /\ (Goto(d, "failing") \/ Exit(d))
      \/ Unserved /\ calls' = calls \union {c} /\ Exit(d)
  BY DEF Upload, Call
<1> HIDE DEF c, j
<1>5. CASE Serve(c) /\ Goto(d, "completing") /\ UNCHANGED calls
  <2>1. DaemonsOK' /\ \A o \in Daemons : pc'[o] = IF o = d THEN "completing" ELSE pc[o]
    BY <1>1, <1>5, GotoDaemons DEF NInv, Working
  <2>2. UploadModel(j) /\ held' = held
    BY <1>2, <1>5 DEF Serve, Goto
  <2>3. \A o \in Daemons : o # d => GoesOn(o)
    BY <2>1, <2>2 DEF GoesOn
  <2>4. \A o \in Daemons : OwesModel(o)' => held'[o].job # j
    BY <1>3, <2>1, <2>2 DEF OwesModel, Working
  <2> QED BY <1>1, <1>3, <1>5, <2>1, <2>2, <2>3, <2>4, ArrivalNInv DEF j
<1>6. CASE Unserved /\ UNCHANGED calls /\ (Goto(d, "failing") \/ Exit(d))
  <2>1. [JobNext]_jobVars /\ CompletesOnly({}) /\ models' = models
    BY <1>6, UnservedIsStutter
  <2> QED BY <1>1, <1>6, <2>1, MoveNInv DEF CompletesOnly, AddsNoUpload
<1>7. CASE Unserved /\ calls' = calls \union {c} /\ Exit(d)
  <2>1. DaemonsOK' /\ \A o \in Daemons : /\ pc'[o] = IF o = d THEN "down" ELSE pc[o]
                                         /\ o # d => held'[o] = held[o]
    BY <1>7, ExitDaemons DEF NInv
  <2>2. /\ UNCHANGED <<jobVars, models, status>> /\ IInv' /\ TokensFit'
        /\ \A i : Taken(i)' <=> Taken(i)
    BY <1>7, TableKeepsItsInvariant DEF Unserved, jobVars, NInv, Taken
  <2>3. \A o \in Daemons : pc'[o] \in Working =>
          o # d /\ pc[o] = pc'[o] /\ pc[o] \in Working /\ held'[o] = held[o]
    <3>1. "down" \notin Working
      BY DEF Working
    <3> QED BY <2>1, <3>1
  <2>4. CallsOK'
    BY <1>2, <1>7 DEF NInv, CallsOK
  <2>5. WorkIsTaken'
    BY <1>2, <1>3, <1>7, <2>2, <2>3 DEF NInv, WorkIsTaken
  <2>6. ModelsAreOwed'
    <3>1. \A o \in Daemons : OwesModel(o)' =>
            OwesModel(o) /\ held'[o] = held[o] /\ held[o].job # j
      BY <1>3, <2>3 DEF OwesModel, Working
    <3> QED BY <1>2, <1>3, <1>7, <2>2, <3>1 DEF NInv, ModelsAreOwed
  <2>7. CompleteIsBacked'
    BY <1>2, <1>7, <2>2, <2>3 DEF NInv, CompleteIsBacked, Working
  <2>8. OneModelPerRow' /\ CompleteHasModel' /\ models' \in [JobIds -> Nat]
    BY <2>2, <2>3 DEF NInv, OneModelPerRow, CompleteHasModel
  <2>9. OneHolder'
    BY <2>2, <2>3 DEF NInv, OneHolder, jobVars
  <2> QED BY <2>1, <2>2, <2>4, <2>5, <2>6, <2>7, <2>8, <2>9 DEF NInv
<1> QED BY <1>4, <1>5, <1>6, <1>7

\* A late call.  That of a model is served once; that of a report has its model.
LEMMA LateNInv == NInv /\ LateCall => NInv'
<1> SUFFICES ASSUME NInv, LateCall PROVE NInv'
  OBVIOUS
<1>1. PICK c \in calls : calls' = calls \ {c} /\ (Serve(c) \/ Unserved)
  BY DEF LateCall
<1>2. WellFormed(c) /\ UNCHANGED daemonVars
  BY DEF NInv, CallsOK, LateCall
<1>3. CASE Unserved
  <2>1. [JobNext]_jobVars /\ CompletesOnly({}) /\ models' = models
    BY <1>3, UnservedIsStutter
  <2> QED BY <1>1, <1>2, <2>1, AsideNInv DEF daemonVars, CompletesOnly, AddsNoUpload, NInv, DaemonsOK
<1>4. CASE Serve(c) /\ c.op # "upload"
  <2>1. /\ [JobNext]_jobVars /\ models' = models
        /\ CompletesOnly({j \in JobIds : c.op = "complete" /\ j = c.job})
    BY <1>2, <1>4, ServeIsJobStep DEF NInv
  <2>2. CompletesOnly({j \in JobIds : models[j] > 0})
    BY <2>1 DEF CompletesOnly, NInv, CompleteIsBacked
  <2> QED BY <1>1, <1>2, <2>1, <2>2, AsideNInv DEF daemonVars, AddsNoUpload, NInv, DaemonsOK
<1>5. CASE Serve(c) /\ c.op = "upload"
  <2>1. UploadModel(c.job) /\ c.job \in JobIds
    BY <1>2, <1>5 DEF Serve, WellFormed
  <2>2. /\ Taken(c.job) /\ models[c.job] = 0
        /\ \A b \in calls \ {c} : b.op = "upload" => b.job # c.job
        /\ \A d \in Daemons : OwesModel(d) => held[d].job # c.job
    BY <1>5 DEF NInv, WorkIsTaken, ModelsAreOwed
  <2>3. DaemonsOK' /\ (\A d \in Daemons : GoesOn(d))
        /\ \A d \in Daemons : OwesModel(d)' => held'[d].job # c.job
    BY <1>2, <2>2 DEF daemonVars, NInv, DaemonsOK, GoesOn, OwesModel
  <2> QED BY <1>1, <2>1, <2>2, <2>3, ArrivalNInv
<1> QED BY <1>1, <1>3, <1>4, <1>5

-------------------------------------------------------------------------------
\* The operator, the reapers and time.
LEMMA TableNInv ==
  ASSUME NInv, Operator \/ Tick \/ \E r \in Replicas : Reap(r) \/ ReapFails(r)
  PROVE  NInv'
<1>1. CASE Operator
  <2>1. [JobNext]_jobVars /\ UNCHANGED <<pc, todo, held, hb, hbClock, models, calls>>
    BY <1>1 DEF Operator, JobNext, daemonVars
  <2>2. CompletesOnly({})
    <3>1. CASE CreateJob
      BY <3>1 DEF CreateJob, CompletesOnly, NInv, IInv, TypeOK
    <3>2. ASSUME NEW j \in JobIds, CancelJob(j) PROVE CompletesOnly({})
      BY <3>2 DEF CancelJob, Close, CompletesOnly, NInv, IInv, TypeOK
    <3> QED BY <1>1, <3>1, <3>2 DEF Operator
  <2> QED BY <2>1, <2>2, AsideNInv DEF CompletesOnly, AddsNoUpload, NInv, DaemonsOK
<1>2. CASE Tick
  <2>1. [JobNext]_jobVars /\ UNCHANGED <<pc, todo, held, hb, models, calls, status>>
    BY <1>2 DEF Tick, AgeHeartbeats, JobNext
  <2>2. hbClock' \in [Daemons -> 0..HbInterval]
    BY <1>2, Bounds DEF Tick, NInv, DaemonsOK
  <2> QED BY <2>1, <2>2, AsideNInv DEF CompletesOnly, AddsNoUpload
<1>3. ASSUME NEW r \in Replicas, Reap(r) \/ ReapFails(r) PROVE NInv'
  <2>1. [JobNext]_jobVars /\ UNCHANGED <<pc, todo, held, hb, hbClock, models, calls>>
    BY <1>3 DEF Reap, ReapFails, JobNext, daemonVars
  <2>2. CompletesOnly({})
    <3>1. CASE ReapCommit(r)
      BY <3>1 DEF ReapCommit, CompletesOnly
    <3>2. CASE ReapScan(r) \/ ReapAbort(r)
      BY <3>2 DEF ReapScan, ReapAbort, CompletesOnly
    <3> QED BY <1>3, <3>1, <3>2 DEF Reap, ReapFails
  <2> QED BY <2>1, <2>2, AsideNInv DEF CompletesOnly, AddsNoUpload, NInv, DaemonsOK
<1> QED BY <1>1, <1>2, <1>3

LEMMA InitNInv == Init => NInv
<1> SUFFICES ASSUME Init PROVE NInv
  OBVIOUS
<1>1. IInv /\ TokensFit
  BY InitIInv, InitFits DEF Init
<1>2. NoJob \in [job : 0..MaxJobs, token : 0..MaxJobs]
  BY Bounds DEF NoJob, NoToken
<1>3. DaemonsOK /\ CallsOK /\ models \in [JobIds -> Nat]
  BY <1>2, Bounds DEF Init, DaemonsOK, CallsOK, Working
<1>4. WorkIsTaken /\ ModelsAreOwed /\ CompleteIsBacked
  BY DEF Init, WorkIsTaken, ModelsAreOwed, OwesModel, CompleteIsBacked, Working
<1>5. OneHolder /\ OneModelPerRow /\ CompleteHasModel
  BY DEF Init, JobInit, OneHolder, OneModelPerRow, CompleteHasModel, Working
<1> QED BY <1>1, <1>3, <1>4, <1>5 DEF NInv

LEMMA StepNInv == NInv /\ [Next]_nornirVars => NInv'
<1> SUFFICES ASSUME NInv, [Next]_nornirVars PROVE NInv'
  OBVIOUS
<1>1. CASE UNCHANGED nornirVars
  <2>1. [JobNext]_jobVars /\ UNCHANGED <<pc, todo, held, hb, hbClock, models, calls, status>>
    BY <1>1 DEF nornirVars, daemonVars, jobVars
  <2> QED BY <2>1, AsideNInv DEF CompletesOnly, AddsNoUpload, NInv, DaemonsOK
<1>2. ASSUME NEW d \in Daemons, DaemonStep(d) \/ Start(d) \/ Crash(d) \/ JobHeartbeat(d)
      PROVE  NInv'
  BY <1>2, RegisterNInv, ListNInv, ClaimNInv, LocalNInv, UploadNInv, CompleteNInv, FailNInv,
     FinishNInv, HeartbeatNInv DEF DaemonStep
<1> QED BY <1>1, <1>2, LateNInv, TableNInv DEF Next

-------------------------------------------------------------------------------
\* The invariant holds however many daemons crash and calls go astray.
THEOREM NornirInvariant == Spec => []NInv
BY InitNInv, StepNInv, PTL DEF Spec

\* Type correctness of the daemons, and of the table below them.
THEOREM NornirTypes == Spec => []NornirTypeOK
<1>1. NInv => NornirTypeOK
  <2> SUFFICES ASSUME NInv PROVE NornirTypeOK
    OBVIOUS
  <2>1. \A d \in Daemons : pc[d] \in Working <=> held[d] # NoJob
    BY Ids DEF NInv, DaemonsOK, NoJob
  <2> QED BY <2>1 DEF NInv, IInv, DaemonsOK, CallsOK, WellFormed, NornirTypeOK
<1> QED BY <1>1, NornirInvariant, PTL

\* Two daemons never work on one row, and a row that runs while a daemon works on
\* it is that daemon's under its token (main.py:203-229, training_jobs.py:126-162).
THEOREM NornirOneHolder == Spec => []OneHolder
<1>1. NInv => OneHolder
  BY DEF NInv
<1> QED BY <1>1, NornirInvariant, PTL

\* A row never yields two models: an upload that got no answer ends the daemon,
\* and no one else ever takes the row (main.py:158-168, models.py:127-177).
THEOREM NornirOneModelPerRow == Spec => []OneModelPerRow
<1>1. NInv => OneModelPerRow
  BY DEF NInv
<1> QED BY <1>1, NornirInvariant, PTL

\* A row is complete only if its model is in the registry, although upload and
\* report are two calls, and the report may arrive when the daemon has gone
\* (main.py:158-197).
THEOREM NornirCompleteHasModel == Spec => []CompleteHasModel
<1>1. NInv => CompleteHasModel
  BY DEF NInv
<1> QED BY <1>1, NornirInvariant, PTL

-------------------------------------------------------------------------------
(* What is proved of the table alone holds of the table under Nornir.      *)

LEMMA CallIsJobStep ==
  ASSUME NInv, NEW c, WellFormed(c), CallHappens(c)
  PROVE  [JobNext]_jobVars
BY ServeIsJobStep, UnservedIsStutter DEF NInv, CallHappens

LEMMA StepIsJobStep == NInv /\ [Next]_nornirVars => [JobNext]_jobVars
<1> SUFFICES ASSUME NInv, [Next]_nornirVars PROVE [JobNext]_jobVars
  OBVIOUS
<1>1. CASE UNCHANGED nornirVars
  BY <1>1 DEF nornirVars
<1>2. ASSUME NEW d \in Daemons,
             \/ ListJobs(d) \/ Train(d) \/ Finish(d) \/ Start(d) \/ Crash(d)
      PROVE  [JobNext]_jobVars
  BY <1>2 DEF ListJobs, Train, Finish, Start, Crash
<1>3. ASSUME NEW d \in Daemons, Register(d) PROVE [JobNext]_jobVars
  <2>1. WellFormed(Req("register", d, NoJob))
    BY Bounds DEF Req, WellFormed, Request, NoJob, NoToken
  <2>2. CallHappens(Req("register", d, NoJob))
    BY <1>3 DEF Register, Call, CallHappens
  <2> QED BY <2>1, <2>2, CallIsJobStep
<1>4. ASSUME NEW d \in Daemons, Claim(d) PROVE [JobNext]_jobVars
  <2>1. PICK j \in todo[d] : CallHappens(Req("claim", d, [job |-> j, token |-> NoToken]))
    BY <1>4 DEF Claim, Call, CallHappens
  <2>2. WellFormed(Req("claim", d, [job |-> j, token |-> NoToken]))
    BY Bounds DEF NInv, DaemonsOK, Req, WellFormed, Request, NoToken
  <2> QED BY <2>1, <2>2, CallIsJobStep
<1>5. ASSUME NEW d \in Daemons, NEW o \in {"heartbeat", "upload", "complete", "fail"},
             pc[d] \in Working, CallHappens(Req(o, d, held[d]))
      PROVE  [JobNext]_jobVars
  BY <1>5, HeldRequest, CallIsJobStep
<1>6. ASSUME NEW d \in Daemons, JobHeartbeat(d) PROVE [JobNext]_jobVars
  <2>1. pc[d] \in Working
    BY <1>6 DEF JobHeartbeat, NInv, DaemonsOK
  <2>2. CallHappens(Req("heartbeat", d, held[d]))
    BY <1>6 DEF JobHeartbeat, Call, CallHappens
  <2> QED BY <1>5, <2>1, <2>2
<1>7. ASSUME NEW d \in Daemons, Upload(d) \/ Complete(d) \/ Fail(d) PROVE [JobNext]_jobVars
  <2>1. pc[d] \in Working
    BY <1>7 DEF Upload, Complete, Fail, Working
  <2>2. \E o \in {"upload", "complete", "fail"} : CallHappens(Req(o, d, held[d]))
    BY <1>7 DEF Upload, Complete, Fail, Call, CallHappens
  <2> QED BY <1>5, <2>1, <2>2
<1>8. CASE LateCall
  <2>1. PICK c \in calls : Serve(c) \/ Unserved
    BY <1>8 DEF LateCall
  <2>2. WellFormed(c)
    BY DEF NInv, CallsOK
  <2> QED BY <2>1, <2>2, ServeIsJobStep, UnservedIsStutter DEF NInv
<1>9. CASE Operator \/ Tick \/ \E r \in Replicas : Reap(r) \/ ReapFails(r)
  BY <1>9 DEF Operator, Tick, Reap, ReapFails, JobNext
<1> QED BY <1>1, <1>2, <1>3, <1>4, <1>6, <1>7, <1>8, <1>9 DEF Next, DaemonStep

\* Daemons, and calls that come late or twice, do nothing to the table that its
\* endpoints do not allow anyway: the model of the table alone, where any daemon
\* may send any token at any time, leaves no behaviour of Nornir out.
THEOREM NornirIsJobs == Spec => JobSpec
<1>1. Init => JobInit
  BY DEF Init
<1> QED BY <1>1, StepIsJobStep, NornirInvariant, PTL DEF Spec, JobSpec

\* So the queue the operator is promised (JobLifecycle) is what Nornir implements.
THEOREM NornirImplementsLifecycle == Spec => ImplementsLifecycle
BY NornirIsJobs, JobsImplementLifecycle, PTL
===============================================================================
