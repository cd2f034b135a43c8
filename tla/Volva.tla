--------------------------------- MODULE Volva ---------------------------------
(***************************************************************************)
(* Volva, the inference service (volva/model_loader.py, predict.py), and   *)
(* the prediction row it keeps in Freki (routers/predictions.py).          *)
(*                                                                         *)
(* Two tasks share the ModelHolder.  refresh_loop polls the active model   *)
(* in two requests, metadata then data, and swaps the holder.  stream_loop *)
(* consumes CSI rows: a full window of a receiver's rows is one vote, and  *)
(* the rooms voted for are PUT to Freki when they change.  Both tasks give *)
(* way at every await, so either may run between two requests of the       *)
(* other.  As history, a row carries its connection, and a vote the model  *)
(* it came from and how many connections its window spans.                 *)
(***************************************************************************)
EXTENDS Naturals, Sequences, FiniteSets, SequencesExt

CONSTANTS
  Models,           \* model ids
  Rooms,            \* classes of every model, and what it can predict
  Receivers,
  Window,           \* rows of one receiver that make a window
  VoteHistory,      \* VOTE_HISTORY
  MaxConnections,   \* bound on stream connections (epochs)
  MaxSwitches,      \* bound on changes of the active model
  MaxFaults,        \* bound on failed requests
  NoModel,
  NoPrediction

ASSUME VolvaAssumption ==
  /\ Window \in Nat \ {0}
  /\ VoteHistory \in Nat \ {0}
  /\ MaxConnections \in Nat
  /\ MaxFaults \in Nat
  /\ NoModel \notin Models
  /\ NoPrediction \notin [model : Models, rooms : SUBSET Rooms]

VARIABLES
  active,           \* the active model in Freki's registry, or NoModel
  switches,
  fetching,         \* model whose metadata refresh_loop has read, or NoModel
  holder,           \* holder.current
  buf,              \* rows buffered per receiver
  votes,            \* votes per receiver, oldest first
  activeModelId,    \* active_model_id of stream_loop
  lastPublished,    \* last_published of stream_loop
  publishing,       \* payload of the PUT stream_loop awaits
  connected,
  connection,       \* number of the current connection
  stored,           \* current_predictions row
  faults

volvaVars == <<active, switches, fetching, holder, buf, votes, activeModelId,
               lastPublished, publishing, connected, connection, stored, faults>>

streamVars == <<buf, votes, activeModelId, lastPublished, publishing>>

Init ==
  /\ active = NoModel
  /\ switches = 0
  /\ fetching = NoModel
  /\ holder = NoModel
  /\ buf = [r \in Receivers |-> <<>>]
  /\ votes = [r \in Receivers |-> <<>>]
  /\ activeModelId = NoModel
  /\ lastPublished = NoPrediction
  /\ publishing = NoPrediction
  /\ connected = FALSE
  /\ connection = 0
  /\ stored = NoPrediction
  /\ faults = 0

Fault == faults < MaxFaults /\ faults' = faults + 1

-------------------------------------------------------------------------------
(* Freki's registry, seen from here: the operator activates models.        *)

ActivateModel ==
  /\ switches < MaxSwitches
  /\ switches' = switches + 1
  /\ \E m \in Models \ {active} : active' = m
  /\ UNCHANGED <<fetching, holder, streamVars, connected, connection, stored, faults>>

-------------------------------------------------------------------------------
(* refresh_loop.                                                           *)

\* GET /api/models/active; a 404 unloads the model.
FetchMetadata ==
  /\ fetching = NoModel
  /\ IF active = NoModel
     THEN holder' = NoModel /\ UNCHANGED fetching
     ELSE fetching' = active /\ UNCHANGED holder
  /\ UNCHANGED <<active, switches, streamVars, connected, connection, stored, faults>>

\* Mutant: the model is swapped between connections only.
LoadBetweenStreams ==
  /\ fetching # NoModel
  /\ holder' = IF connected THEN holder ELSE fetching
  /\ fetching' = NoModel
  /\ UNCHANGED <<active, switches, streamVars, connected, connection, stored, faults>>

\* GET /api/models/{id}/data, load, and swap the holder.
LoadModel ==
  /\ fetching # NoModel
  /\ holder' = fetching
  /\ fetching' = NoModel
  /\ UNCHANGED <<active, switches, streamVars, connected, connection, stored, faults>>

\* Any failure of the poll is logged and the holder left as it is.
RefreshFails ==
  /\ fetching # NoModel
  /\ Fault
  /\ fetching' = NoModel
  /\ UNCHANGED <<active, switches, holder, streamVars, connected, connection, stored>>

-------------------------------------------------------------------------------
(* stream_loop.                                                            *)

Connect ==
  /\ ~connected
  /\ connection < MaxConnections
  /\ connected' = TRUE
  /\ connection' = connection + 1
  /\ UNCHANGED <<active, switches, fetching, holder, streamVars, stored, faults>>

\* Mutant: the buffers outlive the connection.
DisconnectKeepsBuffers ==
  /\ connected
  /\ publishing = NoPrediction
  /\ connected' = FALSE
  /\ UNCHANGED <<active, switches, fetching, holder, streamVars, connection,
                 stored, faults>>

\* The end of the stream, however it comes: the buffers go, the votes stay.
Disconnect ==
  /\ connected
  /\ publishing = NoPrediction
  /\ connected' = FALSE
  /\ buf' = [r \in Receivers |-> <<>>]
  /\ UNCHANGED <<active, switches, fetching, holder, votes, activeModelId,
                 lastPublished, publishing, connection, stored, faults>>

\* most_common(1): the first counted of the most frequent votes.
Count(v, s) == Cardinality({i \in DOMAIN s : s[i].room = v})
Winner(s) ==
  LET first == CHOOSE i \in DOMAIN s :
        /\ \A k \in DOMAIN s : Count(s[k].room, s) <= Count(s[i].room, s)
        /\ \A k \in 1..(i - 1) : Count(s[k].room, s) < Count(s[i].room, s)
  IN  s[first].room

\* The rooms with human_count 1, one winner for every receiver with votes.
Aggregate(vs) == {Winner(vs[r]) : r \in {q \in Receivers : vs[q] # <<>>}}

\* The state a row is handled in: empty when the model changed under the loop.
SwapModel == holder # activeModelId
Buffered(r) == IF SwapModel THEN <<>> ELSE buf[r]
\* Mutants: a swap of the model keeps the votes, or what was last published.
VotesSurviveSwap == votes
PublishedSurvivesSwap == lastPublished

Votes == IF SwapModel THEN [r \in Receivers |-> <<>>] ELSE votes
LastPublished == IF SwapModel THEN NoPrediction ELSE lastPublished

\* deque(maxlen = VOTE_HISTORY): the oldest vote falls out of a full deque.
Remember(s, v) == LET t == Append(s, v)
                  IN  IF Len(t) > VoteHistory THEN Tail(t) ELSE t

\* A row without an active model is dropped and resets the loop.
RowWithoutModel ==
  /\ connected /\ publishing = NoPrediction
  /\ holder = NoModel
  /\ activeModelId' = NoModel
  /\ buf' = [r \in Receivers |-> <<>>]
  /\ votes' = [r \in Receivers |-> <<>>]
  /\ lastPublished' = NoPrediction
  /\ UNCHANGED <<active, switches, fetching, holder, publishing, connected,
                 connection, stored, faults>>

\* A row that does not fill its receiver's window is buffered.
BufferRow(r) ==
  /\ connected /\ publishing = NoPrediction
  /\ holder # NoModel
  /\ Len(Buffered(r)) + 1 < Window
  /\ activeModelId' = holder
  /\ buf' = [q \in Receivers |->
               IF q = r THEN Append(Buffered(r), connection) ELSE Buffered(q)]
  /\ votes' = Votes
  /\ lastPublished' = LastPublished
  /\ UNCHANGED <<active, switches, fetching, holder, publishing, connected,
                 connection, stored, faults>>

\* A window that cannot be evaluated is discarded.
DiscardWindow(r) ==
  /\ connected /\ publishing = NoPrediction
  /\ holder # NoModel
  /\ Len(Buffered(r)) + 1 >= Window
  /\ Fault
  /\ activeModelId' = holder
  /\ buf' = [q \in Receivers |-> IF q = r THEN <<>> ELSE Buffered(q)]
  /\ votes' = Votes
  /\ lastPublished' = LastPublished
  /\ UNCHANGED <<active, switches, fetching, holder, publishing, connected,
                 connection, stored>>

\* A full window is one vote; when it changes the rooms a PUT begins.
Vote(r, room) ==
  LET window == Append(Buffered(r), connection)
      vote == [room |-> room, model |-> holder,
               connections |-> Cardinality(ToSet(window))]
      now == [Votes EXCEPT ![r] = Remember(@, vote)]
      payload == [model |-> holder, rooms |-> Aggregate(now)]
  IN  /\ connected /\ publishing = NoPrediction
      /\ holder # NoModel
      /\ Len(window) >= Window
      /\ activeModelId' = holder
      /\ buf' = [q \in Receivers |-> IF q = r THEN <<>> ELSE Buffered(q)]
      /\ votes' = now
      /\ lastPublished' = LastPublished
      /\ publishing' = IF LastPublished = payload THEN NoPrediction ELSE payload
      /\ UNCHANGED <<active, switches, fetching, holder, connected, connection,
                     stored, faults>>

\* The PUT is answered with success.
PutSucceeds ==
  /\ publishing # NoPrediction
  /\ stored' = publishing
  /\ lastPublished' = publishing
  /\ publishing' = NoPrediction
  /\ UNCHANGED <<active, switches, fetching, holder, buf, votes, activeModelId,
                 connected, connection, faults>>

\* The PUT fails for Volva, which keeps last_published; Freki may or may not
\* have stored the payload before the answer was lost.
PutFails ==
  /\ publishing # NoPrediction
  /\ Fault
  /\ stored' \in {stored, publishing}
  /\ publishing' = NoPrediction
  /\ UNCHANGED <<active, switches, fetching, holder, buf, votes, activeModelId,
                 lastPublished, connected, connection>>

\* The process ends and is started again; a PUT it awaited may have been stored.
Crash ==
  /\ Fault
  /\ fetching' = NoModel /\ holder' = NoModel
  /\ connected' = FALSE
  /\ buf' = [r \in Receivers |-> <<>>] /\ votes' = [r \in Receivers |-> <<>>]
  /\ activeModelId' = NoModel
  /\ lastPublished' = NoPrediction /\ publishing' = NoPrediction
  /\ stored' \in {stored} \union ({publishing} \ {NoPrediction})
  /\ UNCHANGED <<active, switches, connection>>

Next ==
  \/ ActivateModel
  \/ FetchMetadata
  \/ LoadModel
  \/ RefreshFails
  \/ Connect
  \/ Disconnect
  \/ RowWithoutModel
  \/ \E r \in Receivers : BufferRow(r)
  \/ \E r \in Receivers : DiscardWindow(r)
  \/ \E r \in Receivers, room \in Rooms : Vote(r, room)
  \/ PutSucceeds
  \/ PutFails
  \/ Crash

Spec == Init /\ [][Next]_volvaVars

\* Both loops run for ever, Freki answers, and every receiver's rows keep
\* coming.  Nothing is owed by the operator, and the stream need not break.
RowArrives(r) == BufferRow(r) \/ \E room \in Rooms : Vote(r, room)

Fairness ==
  /\ WF_volvaVars(FetchMetadata)
  /\ SF_volvaVars(LoadModel)
  /\ WF_volvaVars(Connect)
  /\ SF_volvaVars(PutSucceeds)
  /\ \A r \in Receivers : SF_volvaVars(RowArrives(r))

FairSpec == Spec /\ Fairness

-------------------------------------------------------------------------------
(* Properties.                                                             *)

\* Type invariant.
VolvaTypeOK ==
  /\ active \in Models \union {NoModel}
  /\ fetching \in Models \union {NoModel}
  /\ holder \in Models \union {NoModel}
  /\ activeModelId \in Models \union {NoModel}
  /\ \A r \in Receivers : Len(buf[r]) < Window /\ Len(votes[r]) <= VoteHistory
  /\ connection \in 0..MaxConnections
  /\ faults \in 0..MaxFaults

\* The votes that are aggregated were all cast by one model, the one whose
\* rooms are published: a swap by the other task, before a row or while a PUT
\* is awaited, never mixes two models or credits one with the votes of another.
VotesOfOneModel ==
  \A r \in Receivers : \A i \in DOMAIN votes[r] :
    /\ votes[r][i].model = activeModelId
    /\ publishing # NoPrediction => votes[r][i].model = publishing.model

\* No window that was voted on spans an outage of the stream: all its rows
\* came over one connection.
WindowsAreUnbroken ==
  \A r \in Receivers : \A i \in DOMAIN votes[r] :
    votes[r][i].connections = 1

\* As long as no request has failed, Freki's row is what Volva last published,
\* so a publication is skipped only when Freki has the same rooms already.
SkipIsHarmless ==
  faults = 0 /\ lastPublished # NoPrediction /\ publishing = NoPrediction
    => stored = lastPublished /\ stored.rooms = Aggregate(votes)

\* When the operator stops switching, Freki ends up with a prediction of the
\* active model, however the swap met polls, outages, failures and crashes.
ActiveModelPredicts ==
  \A m \in Models :
    <>[](active = m /\ connected) =>
      <>[](stored # NoPrediction /\ stored.model = m)
================================================================================
