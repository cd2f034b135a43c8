--------------------------------- MODULE Geri ---------------------------------
(***************************************************************************)
(* Geri's way from a datagram to a row of csi_samples (geri/main.py,       *)
(* geri/db.py): the UDP protocol puts packets on a bounded queue, one      *)
(* writer task takes them off, looks up the receiver, records that it was  *)
(* heard, and inserts batches.  The writer is suspended in every await of  *)
(* the database; packets arrive and the process is stopped meanwhile.      *)
(*                                                                         *)
(* Replicas of the process share the table; after a rollout the datagrams  *)
(* of a receiver may come to another one.  A packet is stamped with its    *)
(* time of arrival; no two packets arrive at the same time.                *)
(* Datagrams that do not parse change nothing; ACKs are not in this module.*)
(***************************************************************************)
EXTENDS Naturals, Sequences, SequencesExt

CONSTANTS
  Replicas,
  Receivers,
  QueueSize,        \* maxsize of the queue
  BatchSize,        \* BATCH_SIZE
  MaxPackets        \* bound on the packets that arrive

ASSUME GeriAssumption ==
  /\ QueueSize \in Nat \ {0} /\ BatchSize \in Nat \ {0}
  /\ MaxPackets \in Nat

VARIABLES
  arrived,          \* time of the last arrival
  queue,            \* per replica: the asyncio.Queue
  batch,            \* per replica: rows collected by the writer
  cache,            \* per replica: receivers whose id is known
  writer,           \* per replica: where the writer is, and the packet in its hand
  table,            \* csi_samples in the order of commits
  inDoubt,          \* failed inserts that the database may yet commit
  excused           \* history: packets a full queue, the database or the end
                    \* of the process may have cost

geriVars == <<arrived, queue, batch, cache, writer, table, inDoubt, excused>>

Packets == [time : 1..MaxPackets, receiver : Receivers]

AtGet == [at |-> "get", hand |-> {}]

GeriInit ==
  /\ arrived = 0
  /\ queue = [g \in Replicas |-> <<>>]
  /\ batch = [g \in Replicas |-> <<>>]
  /\ cache = [g \in Replicas |-> {}]
  /\ writer = [g \in Replicas |-> AtGet]
  /\ table = <<>>
  /\ inDoubt = {}
  /\ excused = {}

Running(g) == writer[g].at \in {"get", "lookup", "heartbeat", "insert"}

Goto(g, where, hand) ==
  writer' = [writer EXCEPT ![g] = [at |-> where, hand |-> hand]]

\* Packets the process has in memory.
Held(g) == ToSet(queue[g]) \union ToSet(batch[g]) \union writer[g].hand

-------------------------------------------------------------------------------

\* datagram_received: a packet that finds the queue full is dropped.
Arrive(g, r) ==
  /\ Running(g)
  /\ arrived < MaxPackets
  /\ arrived' = arrived + 1
  /\ LET p == [time |-> arrived + 1, receiver |-> r]
     IN  \/ /\ Len(queue[g]) < QueueSize
            /\ queue' = [queue EXCEPT ![g] = Append(@, p)]
            /\ UNCHANGED excused
         \/ /\ Len(queue[g]) >= QueueSize
            /\ excused' = excused \union {p}
            /\ UNCHANGED queue
  /\ UNCHANGED <<batch, cache, writer, table, inDoubt>>

\* The row joins the batch; a full batch is inserted.
Collect(g, p) ==
  /\ batch' = [batch EXCEPT ![g] = Append(@, p)]
  /\ Goto(g, IF Len(batch[g]) + 1 >= BatchSize THEN "insert" ELSE "get", {})

\* Whether the heartbeat of the receiver is due depends on the clock.
Known(g, p) ==
  \/ Collect(g, p)
  \/ Goto(g, "heartbeat", {p}) /\ UNCHANGED batch

Take(g) ==
  /\ writer[g].at = "get"
  /\ queue[g] # <<>>
  /\ queue' = [queue EXCEPT ![g] = Tail(@)]
  /\ LET p == Head(queue[g])
     IN  \/ p.receiver \in cache[g] /\ Known(g, p)
         \/ /\ p.receiver \notin cache[g]
            /\ Goto(g, "lookup", {p})
            /\ UNCHANGED batch
  /\ UNCHANGED <<arrived, cache, table, inDoubt, excused>>

\* get_or_create_receiver_id returns, or raises and the packet is given up.
LookedUp(g) ==
  /\ writer[g].at = "lookup"
  /\ \E p \in writer[g].hand :
       \/ /\ cache' = [cache EXCEPT ![g] = @ \union {p.receiver}]
          /\ Known(g, p)
          /\ UNCHANGED excused
       \/ /\ excused' = excused \union {p}
          /\ Goto(g, "get", {})
          /\ UNCHANGED <<batch, cache>>
  /\ UNCHANGED <<arrived, queue, table, inDoubt>>

\* upsert_heartbeat returns or raises; the packet is collected in either case.
HeartbeatDone(g) ==
  /\ writer[g].at = "heartbeat"
  /\ \E p \in writer[g].hand : Collect(g, p)
  /\ UNCHANGED <<arrived, queue, cache, table, inDoubt, excused>>

\* Mutant: an idle writer waits on with what it has.
IdleKeepsWaiting(g) ==
  /\ writer[g].at = "get" /\ queue[g] = <<>>
  /\ UNCHANGED <<arrived, queue, batch, cache, writer, table, inDoubt, excused>>

\* wait_for(queue.get()) times out.
IdleFlush(g) ==
  /\ writer[g].at = "get" /\ queue[g] = <<>>
  /\ Goto(g, IF batch[g] = <<>> THEN "get" ELSE "insert", {})
  /\ UNCHANGED <<arrived, queue, batch, cache, table, inDoubt, excused>>

\* How one transaction that inserts rows ends: committed (whether or not the
\* answer arrives), rolled back, or broken off with the commit under way.
InsertEnds(rows) ==
  \/ table' = table \o rows /\ UNCHANGED <<inDoubt, excused>>
  \/ /\ excused' = excused \union ToSet(rows)
     /\ UNCHANGED table
     /\ inDoubt' \in {inDoubt, inDoubt \union {rows}}

\* Mutant: a batch whose insert failed is kept and inserted again.
InsertRetried(g) ==
  /\ writer[g].at = "insert"
  /\ InsertEnds(batch[g])
  /\ batch' = [batch EXCEPT ![g] = IF table' = table THEN @ ELSE <<>>]
  /\ Goto(g, "get", {})
  /\ UNCHANGED <<arrived, queue, cache>>

\* insert_batch; the batch is dropped however it ends.
Insert(g) ==
  /\ writer[g].at = "insert"
  /\ InsertEnds(batch[g])
  /\ batch' = [batch EXCEPT ![g] = <<>>]
  /\ Goto(g, "get", {})
  /\ UNCHANGED <<arrived, queue, cache>>

Land(rows) ==
  /\ inDoubt' = inDoubt \ {rows}
  /\ table' \in {table, table \o rows}
  /\ UNCHANGED <<arrived, queue, batch, cache, writer, excused>>

-------------------------------------------------------------------------------

\* Mutant: a cancelled writer returns without the last insert.
StopWithoutFlush(g) ==
  /\ writer[g].at = "get"
  /\ queue' = [queue EXCEPT ![g] = <<>>]
  /\ excused' = excused \union ToSet(queue[g])
  /\ batch' = [batch EXCEPT ![g] = <<>>]
  /\ Goto(g, "stopped", {})
  /\ UNCHANGED <<arrived, cache, table, inDoubt>>

\* SIGTERM while the writer waits for a packet: the socket is closed, the
\* writer is cancelled and inserts what it has collected.
StopWaiting(g) ==
  /\ writer[g].at = "get"
  /\ queue' = [queue EXCEPT ![g] = <<>>]
  /\ excused' = excused \union ToSet(queue[g])
  /\ Goto(g, IF batch[g] = <<>> THEN "stopped" ELSE "final", {})
  /\ UNCHANGED <<arrived, batch, cache, table, inDoubt>>

\* SIGTERM or SIGKILL while it waits for the database, SIGKILL at any time:
\* the writer ends with nothing flushed; what it was inserting may be stored.
Killed(g) ==
  /\ Running(g) \/ writer[g].at = "final"
  /\ queue' = [queue EXCEPT ![g] = <<>>]
  /\ batch' = [batch EXCEPT ![g] = <<>>]
  /\ Goto(g, "stopped", {})
  /\ excused' = excused \union Held(g)
  /\ \/ UNCHANGED inDoubt
     \/ writer[g].at \in {"insert", "final"} /\ inDoubt' = inDoubt \union {batch[g]}
  /\ UNCHANGED <<arrived, cache, table>>

FinalInsert(g) ==
  /\ writer[g].at = "final"
  /\ InsertEnds(batch[g])
  /\ batch' = [batch EXCEPT ![g] = <<>>]
  /\ Goto(g, "stopped", {})
  /\ UNCHANGED <<arrived, queue, cache>>

Restart(g) ==
  /\ writer[g].at = "stopped"
  /\ cache' = [cache EXCEPT ![g] = {}]
  /\ Goto(g, "get", {})
  /\ UNCHANGED <<arrived, queue, batch, table, inDoubt, excused>>

WriterStep(g) ==
  \/ Take(g) \/ LookedUp(g) \/ HeartbeatDone(g) \/ IdleFlush(g)
  \/ Insert(g) \/ FinalInsert(g)

GeriNext ==
  \/ \E g \in Replicas, r \in Receivers : Arrive(g, r)
  \/ \E g \in Replicas : WriterStep(g)
  \/ \E rows \in inDoubt : Land(rows)
  \/ \E g \in Replicas : StopWaiting(g) \/ Killed(g) \/ Restart(g)

GeriSpec == GeriInit /\ [][GeriNext]_geriVars

\* The event loop runs the writer, the database answers, and time passes.
GeriFairness == \A g \in Replicas : WF_geriVars(WriterStep(g))

FairGeri == GeriSpec /\ GeriFairness

-------------------------------------------------------------------------------
(* Properties.                                                             *)

Stored == {table[i].time : i \in DOMAIN table}

\* Type invariant; a writer holds a packet only while it waits for the
\* database about it, and never inserts an empty batch or more than BATCH_SIZE.
GeriTypeOK ==
  /\ arrived \in 0..MaxPackets
  /\ ToSet(table) \union excused \subseteq Packets
  /\ \A g \in Replicas :
       /\ Len(queue[g]) <= QueueSize
       /\ Held(g) \subseteq Packets
       /\ cache[g] \subseteq Receivers
       /\ writer[g].hand # {} <=> writer[g].at \in {"lookup", "heartbeat"}
       /\ writer[g].at \in {"insert", "final"} => Len(batch[g]) \in 1..BatchSize

\* csi_samples has no key, so only the code keeps a sample from being stored
\* twice: no packet has two rows, whatever became of the answers to inserts.
StoredOnce == \A i, j \in DOMAIN table : i # j => table[i] # table[j]

\* A packet that arrived is stored or on its way unless the queue was full,
\* the database failed, or the process ended.
NothingVanishes ==
  \A t \in 1..arrived :
    \/ t \in Stored
    \/ \E p \in excused \union UNION {Held(g) : g \in Replicas} : p.time = t

\* Every packet that arrived is stored in the end, or was excused: none is
\* stuck in a partial batch when no packet follows it.
EveryPacketSettles ==
  \A t \in 1..MaxPackets :
    (t <= arrived) ~> (t \in Stored \/ \E p \in excused : p.time = t)
===============================================================================
