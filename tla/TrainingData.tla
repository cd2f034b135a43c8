----------------------------- MODULE TrainingData -----------------------------
(***************************************************************************)
(* The export a training job reads: Freki pages through the labelled rows  *)
(* of a span by the key (time, receiver) (routers/training_data.py), Nornir*)
(* asks for page after page and cuts the stream into windows               *)
(* (freki_client.py, train.py).  Every page is a statement of its own;     *)
(* requests that label, delete and rename commit between two of them.      *)
(*                                                                         *)
(* Freki reads training_samples, or csi_samples if it has no permission.   *)
(* What the label requests commit is taken from module Labels: here one    *)
(* transaction gives the samples of an interval a label, and another       *)
(* brings the training rows of an interval up to date.                     *)
(***************************************************************************)
EXTENDS Naturals, Sequences, FiniteSets, SequencesExt

CONSTANTS
  Times, Receivers, \* numbers
  RoomNames,
  NoRoom,           \* not labelled: label IS NULL, no row of training_samples
  Requested,        \* rooms of the job
  Span,             \* its interval of times
  PageSize,
  WindowSize,
  Start,            \* no cursor
  MaxWrites         \* bound on the commits of label requests

ASSUME TrainingDataAssumption ==
  /\ Times \subseteq Nat /\ IsFiniteSet(Times) /\ Span \subseteq Times
  /\ Receivers \subseteq Nat /\ IsFiniteSet(Receivers)
  /\ Requested \subseteq RoomNames /\ NoRoom \notin RoomNames
  /\ PageSize \in Nat \ {0} /\ WindowSize \in Nat \ {0} /\ MaxWrites \in Nat
  /\ Start \notin Times \X Receivers

Rows == Times \X Receivers
Intervals == {{t \in Times : a <= t /\ t <= b} : a, b \in Times} \ {{}}

VARIABLES
  csi,              \* column label of csi_samples
  training,         \* column label of training_samples
  readable,         \* Freki may read and write training_samples
  job,              \* idle, paging, last (page received), trained or failed
  cursor,
  page,             \* rows of the current page the windowing has not taken
  buffers,          \* per receiver: its partial window
  windows,          \* windows cut so far
  emitted,          \* history: rows the job has received, with their labels
  steady,           \* history: rows whose label did not change since it began
  writes

tables == <<csi, training, readable, writes>>
export == <<job, cursor, page, buffers, windows, emitted>>
dataVars == <<tables, export, steady>>

DataInit ==
  /\ \E labelOf \in [Times -> RoomNames \union {NoRoom}] :
       csi = [row \in Rows |-> labelOf[row[1]]]
  /\ training = csi
  /\ readable \in BOOLEAN
  /\ writes = 0
  /\ job = "idle" /\ cursor = Start /\ page = <<>> /\ emitted = <<>>
  /\ buffers = [r \in Receivers |-> <<>>] /\ windows = <<>>
  /\ steady = {}

-------------------------------------------------------------------------------
(* Label requests.                                                         *)

Write ==
  /\ writes < MaxWrites /\ writes' = writes + 1
  /\ steady' = {row \in steady : csi'[row] = csi[row] /\ training'[row] = training[row]}
  /\ UNCHANGED <<readable, export>>

\* Backfill of a new label, or the clearing of a deleted one.
Relabel(w, label) ==
  /\ csi' = [row \in Rows |-> IF row[1] \in w THEN label ELSE csi[row]]
  /\ UNCHANGED training
  /\ Write

\* The training rows of an interval are updated; a resync also removes some.
Mirror(w) ==
  /\ readable
  /\ \E removing \in BOOLEAN :
       training' = [row \in Rows |->
                      IF row[1] \in w /\ (removing \/ csi[row] # NoRoom)
                      THEN csi[row] ELSE training[row]]
  /\ UNCHANGED csi
  /\ Write

Rename(old, new) ==
  LET renamed(table) == [row \in Rows |-> IF table[row] = old THEN new ELSE table[row]]
  IN  /\ csi' = renamed(csi)
      /\ training' = IF readable THEN renamed(training) ELSE training
      /\ Write

\* The operator grants what is missing.
Grant ==
  /\ ~readable /\ readable' = TRUE
  /\ UNCHANGED <<csi, training, writes, export, steady>>

-------------------------------------------------------------------------------
(* The export.                                                             *)

\* (time, receiver_id) > (cursor_time, cursor_receiver_id)
Precedes(a, b) == a[1] < b[1] \/ (a[1] = b[1] /\ a[2] < b[2])

\* ORDER BY time, receiver_id
InOrder(rows) ==
  [i \in 1..Cardinality(rows) |->
     CHOOSE row \in rows : Cardinality({q \in rows : Precedes(q, row)}) = i - 1]

\* Mutant: the page continues after the time of the cursor.
PastTime(row) == cursor = Start \/ cursor[1] < row[1]

\* Mutant: the row of the cursor is selected again.
FromCursor(row) == cursor = Start \/ ~Precedes(row, cursor)

PastCursor(row) == cursor = Start \/ Precedes(cursor, row)

\* The labels a page is selected by.
Source == IF readable THEN training ELSE csi

Matching ==
  {row \in Rows : row[1] \in Span /\ Source[row] \in Requested /\ PastCursor(row)}

Begin ==
  /\ job \in {"idle", "trained", "failed"}
  /\ job' = "paging" /\ cursor' = Start /\ page' = <<>> /\ emitted' = <<>>
  /\ buffers' = [r \in Receivers |-> <<>>] /\ windows' = <<>>
  /\ steady' = {row \in Rows : csi[row] = training[row]}
  /\ UNCHANGED tables

\* Mutant: an empty page is asked for again.
EndsWithRows(rows, more) == ~more /\ rows # <<>>

Ends(rows, more) == ~more

\* One page; the last has no next_cursor.
Page ==
  /\ job = "paging" /\ page = <<>>
  /\ LET sorted == InOrder(Matching)
         more == Len(sorted) > PageSize
         rows == IF more THEN SubSeq(sorted, 1, PageSize) ELSE sorted
     IN  /\ page' = [i \in DOMAIN rows |-> [of |-> rows[i], label |-> Source[rows[i]]]]
         /\ cursor' = IF more THEN rows[PageSize] ELSE Start
         /\ job' = IF Ends(rows, more) THEN "last" ELSE "paging"
  /\ emitted' = emitted \o page'
  /\ UNCHANGED <<tables, buffers, windows, steady>>

\* A page is not answered, or not with success.
PageFails ==
  /\ job = "paging" /\ page = <<>>
  /\ job' = "failed"
  /\ UNCHANGED <<tables, cursor, page, buffers, windows, emitted, steady>>

\* Mutant: a transition starts no new window.
KeepsPartial(buffer, row) == FALSE

\* The label of the receiver changes: its partial window is discarded.
Transition(buffer, row) == buffer # <<>> /\ buffer[1].label # row.label

\* _windows takes the next row of the page: a buffer per receiver, cut when full.
Consume ==
  /\ page # <<>> /\ page' = Tail(page)
  /\ LET row == Head(page)
         r == row.of[2]
         filled == Append(IF Transition(buffers[r], row) THEN <<>> ELSE buffers[r], row)
         full == Len(filled) >= WindowSize
     IN  /\ buffers' = [buffers EXCEPT ![r] = IF full THEN <<>> ELSE filled]
         /\ windows' = IF full THEN Append(windows, filled) ELSE windows
  /\ UNCHANGED <<tables, job, cursor, emitted, steady>>

\* A job without windows fails; so may one whose windows differ in width, or
\* whose split or fit raises.
Fit ==
  /\ job = "last" /\ page = <<>>
  /\ \/ job' = "failed"
     \/ windows # <<>> /\ job' = "trained"
  /\ UNCHANGED <<tables, cursor, page, buffers, windows, emitted, steady>>

DataNext ==
  \/ \E w \in Intervals, label \in RoomNames \union {NoRoom} : Relabel(w, label)
  \/ \E w \in Intervals : Mirror(w)
  \/ \E old, new \in RoomNames : Rename(old, new)
  \/ Grant \/ Begin \/ Page \/ PageFails \/ Consume \/ Fit

DataSpec == DataInit /\ [][DataNext]_dataVars

\* Nornir asks for the next page until there is none.
FairData == DataSpec /\ WF_dataVars(Page \/ Consume \/ Fit)

-------------------------------------------------------------------------------
(* Properties.                                                             *)

\* A job receives its rows in the order of (time, receiver) and none twice,
\* whatever is relabelled between two pages (training_data.py:110-117).
ExportInOrder ==
  \A i, j \in DOMAIN emitted : i < j => Precedes(emitted[i].of, emitted[j].of)

\* Rows that nobody relabels meanwhile are exported with their label, however
\* the rows around them come and go: no page boundary loses one.
SteadyRowsExported ==
  \A row \in steady :
    row[1] \in Span /\ csi[row] \in Requested
      /\ (job \in {"last", "trained"} \/ (cursor # Start /\ ~Precedes(cursor, row)))
    => [of |-> row, label |-> csi[row]] \in ToSet(emitted)

\* No row of their receiver comes between the two in what the job received.
Adjacent(a, b) ==
  /\ a.of[2] = b.of[2] /\ Precedes(a.of, b.of)
  /\ \A row \in ToSet(emitted) :
       row.of[2] = b.of[2] => ~(Precedes(a.of, row.of) /\ Precedes(row.of, b.of))

\* Every window is a run of rows of one receiver under one label, and no row is
\* in two windows, although rows of all receivers are mixed in the stream and
\* their labels may come from different labelings (train.py:68-82).
WindowsAreRuns ==
  /\ \A i \in DOMAIN windows :
       /\ Len(windows[i]) = WindowSize /\ ToSet(windows[i]) \subseteq ToSet(emitted)
       /\ \A k \in 1..WindowSize : windows[i][k].label = windows[i][1].label
       /\ \A k \in 2..WindowSize : Adjacent(windows[i][k - 1], windows[i][k])
  /\ \A i, j \in DOMAIN windows : i # j =>
       ToSet(windows[i]) \intersect ToSet(windows[j]) = {}

\* Every export comes to an end.
ExportEnds == (job = "paging") ~> (job \in {"trained", "failed"})
===============================================================================
