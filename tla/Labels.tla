-------------------------------- MODULE Labels --------------------------------
(***************************************************************************)
(* Rooms, labels and the two tables that carry label names without a       *)
(* foreign key, csi_samples and training_samples, as Freki's concurrent    *)
(* requests change them (routers/labels.py, routers/rooms.py).             *)
(*                                                                         *)
(* A request goes through several transactions, and a transaction through  *)
(* several statements (READ COMMITTED): other requests run in between.     *)
(* What a transaction has not committed is kept in req; the rows it has    *)
(* written are locked until it commits.  A statement that reads one table  *)
(* and writes another works from the snapshot of its beginning.            *)
(*                                                                         *)
(* One sample per point of time; a window is an interval of times.         *)
(***************************************************************************)
EXTENDS Naturals, FiniteSets

CONSTANTS
  RoomNames,
  LastTime,         \* bound on the samples
  MaxLabels,        \* bound on the labels created
  Sessions,         \* requests served at once
  NoRoom,           \* label IS NULL in csi_samples, no row in training_samples
  Gone              \* the sample is past the retention of csi_samples

ASSUME LabelsAssumption ==
  /\ LastTime \in Nat \ {0}
  /\ MaxLabels \in Nat
  /\ NoRoom \notin RoomNames /\ Gone \notin RoomNames /\ NoRoom # Gone

Times == 1..LastTime
Windows == {a..b : a, b \in Times} \ {{}}

VARIABLES
  rooms,            \* names in table rooms
  labels,           \* rows of table labels
  lastLabel,        \* last label id
  csi,              \* column label of csi_samples
  training,         \* column label of training_samples
  req,              \* the request each session is serving
  skipped,          \* history: times whose best-effort work was given up
  contended         \* history: times two requests were at work on at once

labelVars == <<rooms, labels, lastLabel, csi, training, req, skipped, contended>>

Idle == [op |-> "idle", window |-> {}]

LabelsInit ==
  /\ rooms = RoomNames          \* seeded by the migration
  /\ labels = {}
  /\ lastLabel = 0
  /\ csi = [t \in Times |-> NoRoom]
  /\ training = [t \in Times |-> NoRoom]
  /\ req = [s \in Sessions |-> Idle]
  /\ skipped = {}
  /\ contended = {}

\* The follow-up work a request does after it has committed what it was for.
FollowUp == {"backfill", "sync", "write", "resync", "rewrite"}

Busy(s) == UNION {req[o].window : o \in Sessions \ {s}}

Begin(s, r) ==
  /\ req[s].op = "idle"
  /\ req' = [req EXCEPT ![s] = r]
  /\ contended' = contended \union (r.window \intersect Busy(s))

Continue(s, r) == req' = [req EXCEPT ![s] = r] /\ UNCHANGED contended

End(s) == Continue(s, Idle)

\* Rows locked by transactions that have written them and not committed:
\* samples by a delete, training rows by a resync, names by a rename.
SamplesLocked(s) ==
  UNION {req[o].window : o \in {q \in Sessions \ {s} : req[q].op = "clearing"}}
TrainingLocked(s) ==
  UNION {req[o].replaced : o \in {q \in Sessions \ {s} : req[q].op = "rewrite"}}
NamesLocked ==
  UNION {{req[o].old, req[o].new} : o \in {q \in Sessions : req[q].op = "rename"}}

-------------------------------------------------------------------------------
(* Rooms.                                                                  *)

CreateRoom(n) ==
  /\ n \notin rooms \union NamesLocked
  /\ rooms' = rooms \union {n}
  /\ UNCHANGED <<labels, lastLabel, csi, training, req, skipped, contended>>

DeleteRoom(n) ==
  /\ n \in rooms \ NamesLocked
  /\ \A l \in labels : l.room # n
  /\ rooms' = rooms \ {n}
  /\ UNCHANGED <<labels, lastLabel, csi, training, req, skipped, contended>>

BeingDeleted ==
  {l \in labels : \E o \in Sessions : req[o].op = "clearing" /\ req[o].label.id = l.id}

\* The rename is flushed, the cascade locks the labels of the room, and the
\* UPDATE of csi_samples takes its snapshot.
RenameFlush(s, old, new) ==
  /\ old \in rooms /\ new \notin rooms
  /\ {old, new} \intersect NamesLocked = {}
  /\ \A l \in BeingDeleted : l.room # old
  /\ Begin(s, [op |-> "rename", window |-> Times, old |-> old, new |-> new,
               snapshot |-> csi])
  /\ UNCHANGED <<rooms, labels, lastLabel, csi, training, skipped>>

\* Renamed samples: those the snapshot shows under the old name and that still
\* have it when their row can be locked.
RenameCommit(s) ==
  /\ req[s].op = "rename"
  /\ LET old == req[s].old
         new == req[s].new
         seen == {t \in Times : req[s].snapshot[t] = old}
     IN  /\ seen \intersect SamplesLocked(s) = {}
         /\ rooms' = (rooms \ {old}) \union {new}
         /\ labels' = {IF l.room = old THEN [l EXCEPT !.room = new] ELSE l : l \in labels}
         /\ csi' = [t \in Times |->
                      IF t \in seen /\ csi[t] = old THEN new ELSE csi[t]]
         /\ \/ /\ {t \in Times : training[t] = old} \intersect TrainingLocked(s) = {}
               /\ training' = [t \in Times |->
                                 IF training[t] = old THEN new ELSE training[t]]
               /\ UNCHANGED skipped
            \/ /\ skipped' = Times     \* no permission: left out
               /\ UNCHANGED training
  /\ End(s)
  /\ UNCHANGED lastLabel

-------------------------------------------------------------------------------
(* Creating a label.                                                       *)

\* The label is committed and answered; the rest is a background task.
CreateLabel(s, n, w) ==
  /\ lastLabel < MaxLabels
  /\ n \in rooms \ NamesLocked
  /\ lastLabel' = lastLabel + 1
  /\ LET l == [id |-> lastLabel + 1, room |-> n, window |-> w]
     IN  /\ labels' = labels \union {l}
         /\ Begin(s, [op |-> "backfill", window |-> w, label |-> l])
  /\ UNCHANGED <<rooms, csi, training, skipped>>

Backfill(s) ==
  /\ req[s].op = "backfill"
  /\ req[s].window \intersect SamplesLocked(s) = {}
  /\ csi' = [t \in Times |-> IF t \in req[s].window /\ csi[t] # Gone
                             THEN req[s].label.room ELSE csi[t]]
  /\ Continue(s, [op |-> "sync", window |-> req[s].window])
  /\ UNCHANGED <<rooms, labels, lastLabel, training, skipped>>

\* Mutant: the resync does not delete first.
ReplacesNothing(s) == {}

\* A resync first deletes the training rows of the window; a sync does not.
Replaced(s) ==
  {t \in req[s].window : req[s].op = "resync" /\ training[t] # NoRoom}

\* INSERT INTO training_samples SELECT ... FROM csi_samples begins ...
TrainingRead(s) ==
  /\ req[s].op \in {"sync", "resync"}
  /\ Replaced(s) \intersect TrainingLocked(s) = {}
  /\ Continue(s, [op |-> IF req[s].op = "sync" THEN "write" ELSE "rewrite",
                  window |-> req[s].window, replaced |-> Replaced(s),
                  selected |-> [t \in {u \in req[s].window : csi[u] \in RoomNames}
                                  |-> csi[t]]])
  /\ UNCHANGED <<rooms, labels, lastLabel, csi, training, skipped>>

\* Mutant: the window is emptied after the insert.
InsertedThenDeleted(r, t) ==
  IF t \in r.replaced THEN NoRoom
  ELSE IF t \in DOMAIN r.selected THEN r.selected[t] ELSE training[t]

\* ON CONFLICT (time, receiver_id) DO UPDATE SET label = EXCLUDED.label.
DeletedThenInserted(r, t) ==
  IF t \in DOMAIN r.selected THEN r.selected[t]
  ELSE IF t \in r.replaced THEN NoRoom ELSE training[t]

\* ... and ends, and its transaction commits.
TrainingWrite(s) ==
  /\ req[s].op \in {"write", "rewrite"}
  /\ DOMAIN req[s].selected \intersect TrainingLocked(s) = {}
  /\ training' = [t \in Times |-> DeletedThenInserted(req[s], t)]
  /\ End(s)
  /\ UNCHANGED <<rooms, labels, lastLabel, csi, skipped>>

-------------------------------------------------------------------------------
(* Deleting a label.                                                       *)

DeleteRead(s, l) ==
  /\ l \in labels
  /\ Begin(s, [op |-> "delete", window |-> l.window, label |-> l])
  /\ UNCHANGED <<rooms, labels, lastLabel, csi, training, skipped>>

\* Mutant: labels that began before the window are overlooked.
StartedWithin(l) ==
  {m \in labels : m.id # l.id /\ \E t \in m.window \intersect l.window :
                                    \A u \in m.window : t <= u}

Overlapping(l) == {m \in labels : m.id # l.id /\ m.window \intersect l.window # {}}

\* The samples of the window are cleared, the label is deleted, and the
\* surviving labels are selected.  A label that another request has deleted
\* by now makes no difference: its DELETE matches no row, which is a warning.
DeleteClear(s) ==
  /\ req[s].op = "delete"
  /\ req[s].window \intersect SamplesLocked(s) = {}
  /\ \A l \in labels : l.id = req[s].label.id => l.room \notin NamesLocked
  /\ Continue(s, [op |-> "clearing", window |-> req[s].window,
                  label |-> req[s].label, reapply |-> Overlapping(req[s].label)])
  /\ UNCHANGED <<rooms, labels, lastLabel, csi, training, skipped>>

\* Applied one after the other by time_start and id, so the last one stays.
Before(l, m) ==
  LET start(k) == CHOOSE t \in k.window : \A u \in k.window : t <= u
  IN  start(l) < start(m) \/ (start(l) = start(m) /\ l.id < m.id)

LastApplied(ls) == CHOOSE l \in ls : \A m \in ls \ {l} : Before(m, l)

DeleteCommit(s) ==
  /\ req[s].op = "clearing"
  /\ LET over(t) == {m \in req[s].reapply : t \in m.window}
     IN  csi' = [t \in Times |->
                   IF t \notin req[s].window \/ csi[t] = Gone THEN csi[t]
                   ELSE IF over(t) = {} THEN NoRoom ELSE LastApplied(over(t)).room]
  /\ labels' = {l \in labels : l.id # req[s].label.id}
  /\ Continue(s, [op |-> "resync", window |-> req[s].window])
  /\ UNCHANGED <<rooms, lastLabel, training, skipped>>

-------------------------------------------------------------------------------

\* A lock or statement timeout, a lost connection, a refused permission or the
\* end of the process: the transaction rolls back, and a follow-up is not
\* tried again.
Abort(s) ==
  /\ req[s].op # "idle"
  /\ skipped' = IF req[s].op \in FollowUp THEN skipped \union req[s].window ELSE skipped
  /\ End(s)
  /\ UNCHANGED <<rooms, labels, lastLabel, csi, training>>

\* The retention policy of csi_samples drops a sample; training_samples has none.
Expire(t) ==
  /\ csi[t] # Gone
  /\ \A o \in Sessions : req[o].op = "clearing" => t \notin req[o].window
  /\ csi' = [csi EXCEPT ![t] = Gone]
  /\ UNCHANGED <<rooms, labels, lastLabel, training, req, skipped, contended>>

SessionStep(s) ==
  \/ RenameCommit(s) \/ Backfill(s) \/ TrainingRead(s) \/ TrainingWrite(s)
  \/ DeleteClear(s) \/ DeleteCommit(s)

LabelsNext ==
  \/ \E n \in RoomNames : CreateRoom(n)
  \/ \E n \in RoomNames : DeleteRoom(n)
  \/ \E s \in Sessions, old, new \in RoomNames : RenameFlush(s, old, new)
  \/ \E s \in Sessions, n \in RoomNames, w \in Windows : CreateLabel(s, n, w)
  \/ \E s \in Sessions : \E l \in labels : DeleteRead(s, l)
  \/ \E s \in Sessions : SessionStep(s)
  \/ \E s \in Sessions : Abort(s)
  \/ \E t \in Times : Expire(t)

LabelsSpec == LabelsInit /\ [][LabelsNext]_labelVars

-------------------------------------------------------------------------------
(* Properties.                                                             *)

BackfillPending(l) ==
  \E s \in Sessions : req[s].op = "backfill" /\ req[s].label.id = l.id

Settled(t) == \A s \in Sessions : t \notin req[s].window

\* Type invariant; a label always names a room.
LabelsTypeOK ==
  /\ rooms \subseteq RoomNames
  /\ labels \subseteq [id : 1..MaxLabels, room : rooms, window : Windows]
  /\ csi \in [Times -> RoomNames \union {NoRoom, Gone}]
  /\ training \in [Times -> RoomNames \union {NoRoom}]
  /\ \A s \in Sessions : req[s].window \in Windows \union {{}}
  /\ skipped \subseteq Times /\ contended \subseteq Times

\* Deleting one label does not erase another (labels.py:250-251): whatever
\* requests run at once, a sample under a label that was backfilled is labelled.
SurvivorsStayLabelled ==
  \A l \in labels : \A t \in l.window \ skipped :
    csi[t] # Gone /\ ~BackfillPending(l) => csi[t] # NoRoom

\* Nor does it erase the training row of another: when the requests at work on
\* a sample are done, it has a training row if a label covers it.
SurvivorsStayTrained ==
  \A l \in labels : \A t \in l.window \ skipped :
    csi[t] # Gone /\ Settled(t) => training[t] # NoRoom

\* Requests that did not meet leave the three tables in agreement: a sample is
\* labelled by a label that covers it or not at all, and its training row
\* mirrors it.
SequentialIsExact ==
  \A t \in Times \ (skipped \union contended) :
    csi[t] # Gone /\ Settled(t) =>
      LET covering == {l \in labels : t \in l.window}
      IN  /\ csi[t] \in IF covering = {} THEN {NoRoom} ELSE {l.room : l \in covering}
          /\ training[t] = csi[t]
===============================================================================
