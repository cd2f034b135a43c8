------------------------------ MODULE CsiStream ------------------------------
(***************************************************************************)
(* The tail of csi_samples that Freki streams to Volva                     *)
(* (routers/csi_stream.py), composed with the Geri processes that write    *)
(* the table.  The stream keeps a cursor, the time of the last row it      *)
(* emitted, and polls for rows of later times, oldest first, MaxBatch at   *)
(* most; a row committed with an earlier time is behind the cursor.        *)
(* One poll is one step: the rows it selects are emitted from its snapshot.*)
(***************************************************************************)
EXTENDS Geri, FiniteSets

CONSTANTS
  MaxBatch,         \* CSI_STREAM_MAX_BATCH
  NoCursor          \* the table was empty so far

ASSUME StreamAssumption == MaxBatch \in Nat \ {0} /\ NoCursor \notin Nat

VARIABLES
  connected,        \* a consumer is connected
  cursor,           \* time of the last row emitted, or of the tail found
  emitted,          \* times of the rows emitted to this consumer
  start             \* history: the first cursor of this connection

streamVars == <<connected, cursor, emitted, start>>
ingestVars == <<geriVars, streamVars>>

IngestInit ==
  /\ GeriInit
  /\ connected = FALSE
  /\ cursor = NoCursor
  /\ emitted = <<>>
  /\ start = NoCursor

\* _latest_cursor
LatestCursor ==
  IF Stored = {} THEN NoCursor ELSE CHOOSE t \in Stored : \A u \in Stored : u <= t

Connect ==
  /\ ~connected
  /\ connected' = TRUE
  /\ cursor' = LatestCursor
  /\ start' = LatestCursor
  /\ emitted' = <<>>
  /\ UNCHANGED geriVars

\* Mutant: the tail is looked up when the consumer connects and not again.
NeverFindsTail ==
  /\ connected /\ cursor = NoCursor
  /\ UNCHANGED <<geriVars, streamVars>>

\* The table was empty when the consumer connected: look for the tail again.
FindTail ==
  /\ connected /\ cursor = NoCursor
  /\ cursor' = LatestCursor
  /\ start' = LatestCursor
  /\ UNCHANGED <<geriVars, connected, emitted>>

\* ORDER BY time
InOrder(times) ==
  [i \in 1..Cardinality(times) |->
     CHOOSE t \in times : Cardinality({u \in times : u < t}) = i - 1]

\* Mutant: the row at the cursor is selected again.
FromCursor ==
  LET rows == InOrder({t \in Stored : t >= cursor})
  IN  IF Len(rows) <= MaxBatch THEN rows ELSE SubSeq(rows, 1, MaxBatch)

\* Rows above the cursor, oldest first, up to the limit; `time` is the whole key
\* (time, receiver_id), which the cursor compares as a pair.
NextRows ==
  LET rows == InOrder({t \in Stored : t > cursor})
  IN  IF Len(rows) <= MaxBatch THEN rows ELSE SubSeq(rows, 1, MaxBatch)

\* Mutant: the cursor goes to the last row found, the limit cuts off afterwards.
CursorBeforeLimit ==
  LET rows == InOrder({t \in Stored : t > cursor})
  IN  /\ connected /\ cursor # NoCursor
      /\ rows # <<>>
      /\ emitted' = emitted \o NextRows
      /\ cursor' = rows[Len(rows)]
      /\ UNCHANGED <<geriVars, connected, start>>

Poll ==
  /\ connected /\ cursor # NoCursor
  /\ NextRows # <<>>
  /\ emitted' = emitted \o NextRows
  /\ cursor' = NextRows[Len(NextRows)]
  /\ UNCHANGED <<geriVars, connected, start>>

\* The generator is cancelled; a consumer that returns starts at the tail.
Disconnect ==
  /\ connected
  /\ connected' = FALSE
  /\ cursor' = NoCursor
  /\ start' = NoCursor
  /\ emitted' = <<>>
  /\ UNCHANGED geriVars

IngestNext ==
  \/ GeriNext /\ UNCHANGED streamVars
  \/ Connect \/ FindTail \/ Poll \/ Disconnect

IngestSpec == IngestInit /\ [][IngestNext]_ingestVars

\* Freki polls as long as the consumer is connected.
FairIngest == IngestSpec /\ GeriFairness /\ WF_ingestVars(FindTail \/ Poll)

-------------------------------------------------------------------------------
(* Properties.                                                             *)

\* The row was committed after a row of a later time.
Late(i) == \E j \in 1..(i - 1) : table[j].time > table[i].time

\* Type invariant.
StreamTypeOK ==
  /\ GeriTypeOK
  /\ connected \in BOOLEAN
  /\ cursor \in 1..MaxPackets \union {NoCursor}
  /\ ToSet(emitted) \subseteq Stored
  /\ start \in 1..MaxPackets \union {NoCursor}
  /\ start = NoCursor <=> cursor = NoCursor

\* A consumer sees rows in the order of their times and none twice, in
\* whatever order they are committed; Volva's windows rely on it.
StreamInOrder ==
  \A i, j \in DOMAIN emitted : i < j => emitted[i] < emitted[j]

\* The only rows the cursor passes without emitting them are rows committed
\* after it had passed: a backlog of more than MaxBatch rows is worked off, and
\* not skipped as the module's docstring says (csi_stream.py:13-15).
MissesOnlyLate ==
  cursor # NoCursor =>
    \A i \in DOMAIN table :
      table[i].time > start /\ table[i].time <= cursor =>
        table[i].time \in ToSet(emitted) \/ Late(i)

\* "When a consumer falls too far behind (i.e. the query would return more than
\* MAX_BATCH rows), rows older than the batch tail are dropped"
\* (csi_stream.py:13-15): a poll leaves nothing of the backlog behind.
BacklogIsDropped ==
  [][connected' /\ cursor # NoCursor /\ cursor' # cursor
       => \A t \in Stored : t <= cursor']_ingestVars

\* A stream that stays connected comes to every row that is stored.
StreamCatchesUp ==
  \A t \in 1..MaxPackets :
    (connected /\ t \in Stored) ~>
      (~connected \/ (cursor # NoCursor /\ cursor >= t))
===============================================================================
