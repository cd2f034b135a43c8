---------------------------- MODULE Labels_proofs ----------------------------
(***************************************************************************)
(* Proofs, for any rooms, samples, labels and concurrent requests: a       *)
(* sample under a label that was backfilled stays labelled, and in the end *)
(* has a training row; requests that did not meet leave the three tables   *)
(* in agreement.                                                           *)
(***************************************************************************)
EXTENDS Labels, FiniteSetTheorems, WellFoundedInduction, TLAPS

LabelRecords == [id : 1..lastLabel, room : RoomNames, window : Windows]

SameIdSame(ls) == \A l, m \in ls : l.id = m.id => l = m

\* What a request remembers.
ReqOK(s) ==
  LET r == req[s]
  IN  /\ r.window \in Windows \union {{}}
      /\ r.op \in {"idle", "rename", "delete", "clearing"} \union FollowUp
      /\ r.op = "idle" => r.window = {}
      /\ r.op = "rename" =>
           /\ r.window = Times /\ r.old \in RoomNames /\ r.new \in RoomNames
           /\ r.snapshot \in [Times -> RoomNames \union {NoRoom, Gone}]
      /\ r.op \in {"backfill", "delete", "clearing"} =>
           /\ r.label \in LabelRecords /\ r.label.window = r.window
           /\ \A l \in labels : l.id = r.label.id => l.window = r.window
      /\ r.op = "clearing" =>
           /\ r.reapply \subseteq LabelRecords /\ SameIdSame(r.reapply)
           /\ \A m \in r.reapply : \A l \in labels : l.id = m.id => l.window = m.window
      /\ r.op \in {"write", "rewrite"} =>
           /\ r.replaced \subseteq r.window /\ DOMAIN r.selected \subseteq r.window
           /\ \A t \in DOMAIN r.selected : r.selected[t] \in RoomNames
           /\ r.op = "write" => r.replaced = {}

Shapes ==
  /\ req = [s \in Sessions |-> req[s]]
  /\ \A s \in Sessions : ReqOK(s)
  /\ lastLabel \in Nat
  /\ \A l \in labels : l.id \in 1..lastLabel
  /\ SameIdSame(labels)

\* A delete that has cleared its window knows every label it must apply again,
\* unless the label has come since and its backfill waits or was given up.
ReappliesSurvivors ==
  \A s \in Sessions : req[s].op = "clearing" =>
    \A l \in labels : \A t \in (l.window \intersect req[s].window) \ skipped :
      \/ l.id = req[s].label.id
      \/ BackfillPending(l)
      \/ \E m \in req[s].reapply : m.id = l.id

\* The request will give the sample a training row.
Promises(s, t) ==
  \/ req[s].op \in {"sync", "resync"} /\ t \in req[s].window
  \/ req[s].op \in {"write", "rewrite"} /\ t \in DOMAIN req[s].selected

\* The request will take the training row away.
Threatens(s, t) ==
  req[s].op = "rewrite" /\ t \in req[s].replaced /\ t \notin DOMAIN req[s].selected

\* A labelled sample has a training row that nobody is about to remove, or
\* some request will give it one.
TrainingIsOwed ==
  \A t \in Times \ skipped :
    csi[t] \in RoomNames =>
      \/ training[t] # NoRoom /\ \A s \in Sessions : ~Threatens(s, t)
      \/ \E s \in Sessions : Promises(s, t)

AloneUnlessContended ==
  \A t \in Times \ contended : \A s, o \in Sessions :
    t \in req[s].window /\ t \in req[o].window => s = o

RoomsAt(ls, t) ==
  LET covering == {l \in ls : t \in l.window}
  IN  IF covering = {} THEN {NoRoom} ELSE {l.room : l \in covering}

\* What a request that is alone on a sample has made of it so far.
InTune(s, t) ==
  LET r == req[s]
  IN  /\ r.op = "backfill" => r.label \in labels
      /\ r.op # "backfill" => csi[t] \in RoomsAt(labels, t)
      /\ r.op \in {"delete", "clearing", "rename"} => training[t] = csi[t]
      /\ r.op = "rename" => r.snapshot[t] = csi[t]
      /\ r.op = "clearing" =>
           {m \in r.reapply : t \in m.window}
             = {l \in labels : l.id # r.label.id /\ t \in l.window}
      /\ r.op = "sync" => csi[t] \in RoomNames
      /\ r.op \in {"write", "rewrite"} =>
           /\ t \in DOMAIN r.selected <=> csi[t] \in RoomNames
           /\ t \in DOMAIN r.selected => r.selected[t] = csi[t]
      /\ r.op = "write" => csi[t] \in RoomNames
      /\ r.op = "rewrite" /\ csi[t] = NoRoom /\ t \notin r.replaced => training[t] = NoRoom

AloneIsInTune ==
  \A t \in Times \ (skipped \union contended) : csi[t] # Gone =>
    \A s \in Sessions : t \in req[s].window => InTune(s, t)

\* The inductive invariant.
IInv ==
  /\ LabelsTypeOK
  /\ Shapes
  /\ ReappliesSurvivors
  /\ SurvivorsStayLabelled
  /\ TrainingIsOwed
  /\ AloneUnlessContended
  /\ AloneIsInTune
  /\ SequentialIsExact

-------------------------------------------------------------------------------
(* What the steps have in common.                                          *)

\* The step is one of request s, and sets what it remembers to r.
Sets(s, r) ==
  /\ req'[s] = r
  /\ \A o \in Sessions : o # s => req'[o] = req[o]
  /\ req' = [o \in Sessions |-> req'[o]]

LEMMA SetsReq ==
  ASSUME Shapes, NEW s \in Sessions, NEW r, req' = [req EXCEPT ![s] = r]
  PROVE  Sets(s, r)
BY DEF Shapes, Sets

\* A request only begins where it is noted that it meets another.
LEMMA AloneStep ==
  ASSUME AloneUnlessContended, NEW s \in Sessions, NEW r, Sets(s, r),
         \/ r.window \subseteq req[s].window /\ contended' = contended
         \/ contended' = contended \union (r.window \intersect Busy(s))
  PROVE  AloneUnlessContended'
<1> SUFFICES ASSUME NEW t \in Times \ contended', NEW o \in Sessions, NEW q \in Sessions,
                    t \in req'[o].window, t \in req'[q].window, o # q
             PROVE  FALSE
  BY DEF AloneUnlessContended
<1>1. contended \subseteq contended'
  OBVIOUS
<1>2. CASE o # s /\ q # s
  BY <1>1, <1>2 DEF AloneUnlessContended, Sets
<1>3. ASSUME NEW a \in Sessions, a # s, t \in req[a].window, t \in r.window
      PROVE  FALSE
  <2>1. t \in Busy(s)
    BY <1>3 DEF Busy
  <2>2. CASE contended' = contended \union (r.window \intersect Busy(s))
    BY <1>3, <2>1, <2>2
  <2>3. CASE r.window \subseteq req[s].window
    BY <1>1, <1>3, <2>3 DEF AloneUnlessContended
  <2> QED BY <2>2, <2>3
<1> QED BY <1>2, <1>3 DEF Sets

\* What is the same at a point of time after the step.
Untouched(t) ==
  /\ csi'[t] = csi[t] /\ training'[t] = training[t]
  /\ {l \in labels' : t \in l.window} = {l \in labels : t \in l.window}

LEMMA UntouchedInTune ==
  ASSUME NEW t, NEW o \in Sessions, Untouched(t), req'[o] = req[o],
         t \in req[o].window, ReqOK(o), InTune(o, t)
  PROVE  InTune(o, t)'
<1>1. RoomsAt(labels', t) = RoomsAt(labels, t)
  BY DEF RoomsAt, Untouched
<1>2. csi'[t] = csi[t] /\ training'[t] = training[t]
  BY DEF Untouched
<1>3. ASSUME req[o].op = "backfill" PROVE req[o].label \in labels'
  <2>1. req[o].label \in labels /\ t \in req[o].label.window
    BY <1>3 DEF InTune, ReqOK
  <2> QED BY <2>1 DEF Untouched
<1>4. {l \in labels' : l.id # req[o].label.id /\ t \in l.window}
        = {l \in labels : l.id # req[o].label.id /\ t \in l.window}
  BY DEF Untouched
<1> QED BY <1>1, <1>2, <1>3, <1>4 DEF InTune

\* A step of request s is in tune if its own work is.
LEMMA TuneStep ==
  ASSUME Shapes, AloneUnlessContended, AloneUnlessContended', AloneIsInTune, SequentialIsExact,
         NEW s \in Sessions, NEW r, Sets(s, r),
         skipped \subseteq skipped', contended \subseteq contended',
         \A t \in Times \ (skipped' \union contended') : csi'[t] # Gone =>
           /\ csi[t] # Gone
           /\ t \notin req[s].window \union r.window => Untouched(t)
           /\ t \in r.window => InTune(s, t)'
           /\ t \in req[s].window \ r.window =>
                csi'[t] \in RoomsAt(labels', t) /\ training'[t] = csi'[t]
  PROVE  AloneIsInTune' /\ SequentialIsExact'
<1>1. ASSUME NEW t \in Times \ (skipped' \union contended'), csi'[t] # Gone,
             NEW o \in Sessions, t \in req'[o].window
      PROVE  InTune(o, t)'
  <2>1. CASE o = s
    BY <1>1, <2>1 DEF Sets
  <2>2. CASE o # s
    <3>1. req'[o] = req[o]
      BY <2>2 DEF Sets
    <3>2. t \notin r.window
      BY <1>1, <2>2 DEF AloneUnlessContended, Sets
    <3>3. t \notin req[s].window
      BY <1>1, <2>2, <3>1 DEF AloneUnlessContended
    <3>4. Untouched(t) /\ InTune(o, t)
      BY <1>1, <3>1, <3>2, <3>3 DEF AloneIsInTune
    <3> QED BY <1>1, <3>1, <3>4, UntouchedInTune DEF Shapes
  <2> QED BY <2>1, <2>2
<1>2. ASSUME NEW t \in Times \ (skipped' \union contended'), csi'[t] # Gone, Settled(t)'
      PROVE  csi'[t] \in RoomsAt(labels', t) /\ training'[t] = csi'[t]
  <2>1. t \notin r.window
    BY <1>2 DEF Settled, Sets
  <2>2. CASE t \in req[s].window
    BY <1>2, <2>1, <2>2
  <2>3. CASE t \notin req[s].window
    <3>1. Untouched(t)
      BY <1>2, <2>1, <2>3
    <3>2. Settled(t)
      BY <1>2, <2>3 DEF Settled, Sets
    <3>3. csi[t] \in RoomsAt(labels, t) /\ training[t] = csi[t]
      BY <1>2, <3>2 DEF SequentialIsExact, RoomsAt
    <3>4. RoomsAt(labels', t) = RoomsAt(labels, t)
      BY <3>1 DEF RoomsAt, Untouched
    <3> QED BY <3>1, <3>3, <3>4 DEF Untouched
  <2> QED BY <2>2, <2>3
<1>3. AloneIsInTune'
  BY <1>1 DEF AloneIsInTune
<1>4. SequentialIsExact'
  BY <1>2 DEF SequentialIsExact, RoomsAt
<1> QED BY <1>3, <1>4

\* The label was there before, by the same id and over the same window.
WasThere(m) == \E l \in labels : l.id = m.id /\ l.window = m.window

LEMMA ShapesStep ==
  ASSUME Shapes, NEW s \in Sessions, NEW r, Sets(s, r), ReqOK(s)',
         \/ lastLabel' = lastLabel /\ \A m \in labels' : WasThere(m)
         \/ lastLabel' = lastLabel + 1 /\ \A m \in labels' : WasThere(m) \/ m.id = lastLabel + 1,
         SameIdSame(labels')
  PROVE  Shapes'
<1>1. /\ lastLabel \in Nat /\ lastLabel' \in Nat /\ lastLabel <= lastLabel'
      /\ \A l \in labels : l.id \in 1..lastLabel
      /\ lastLabel' = lastLabel + 1 => lastLabel + 1 \in 1..lastLabel'
      /\ 1..lastLabel \subseteq 1..lastLabel'
      /\ lastLabel + 1 \notin 1..lastLabel
  BY DEF Shapes
<1>2. \A m \in labels' : m.id \in 1..lastLabel'
  <2> SUFFICES ASSUME NEW m \in labels' PROVE m.id \in 1..lastLabel'
    OBVIOUS
  <2>1. CASE lastLabel' = lastLabel /\ WasThere(m)
    BY <1>1, <2>1 DEF WasThere
  <2>2. CASE lastLabel' = lastLabel + 1 /\ m.id = lastLabel + 1
    BY <1>1, <2>2
  <2>3. CASE lastLabel' = lastLabel + 1 /\ WasThere(m)
    <3>1. PICK l \in labels : l.id = m.id
      BY <2>3 DEF WasThere
    <3> QED BY <1>1, <2>3, <3>1
  <2> QED BY <2>1, <2>2, <2>3
<1>3. LabelRecords \subseteq LabelRecords'
  BY <1>1 DEF LabelRecords
<1>4. ASSUME NEW o \in Sessions, o # s PROVE ReqOK(o)'
  <2>1. req'[o] = req[o] /\ ReqOK(o)
    BY <1>4 DEF Shapes, Sets
  <2>2. ASSUME NEW k \in LabelRecords, NEW w, \A l \in labels : l.id = k.id => l.window = w,
               NEW m \in labels', m.id = k.id
        PROVE  m.window = w
    BY <1>1, <2>2 DEF WasThere, LabelRecords
  <2>3. req[o].op \in {"backfill", "delete", "clearing"} =>
          /\ req[o].label \in LabelRecords'
          /\ \A m \in labels' : m.id = req[o].label.id => m.window = req[o].window
    BY <1>3, <2>1, <2>2 DEF ReqOK
  <2>4. req[o].op = "clearing" =>
          /\ req[o].reapply \subseteq LabelRecords'
          /\ \A k \in req[o].reapply : \A m \in labels' : m.id = k.id => m.window = k.window
    BY <1>3, <2>1, <2>2 DEF ReqOK
  <2> QED BY <2>1, <2>3, <2>4 DEF ReqOK
<1> QED BY <1>1, <1>2, <1>4 DEF Shapes, Sets

LEMMA PendingStays ==
  ASSUME NEW s \in Sessions, NEW r, Sets(s, r), NEW l, BackfillPending(l),
         ~(req[s].op = "backfill" /\ req[s].label.id = l.id)
  PROVE  BackfillPending(l)'
BY DEF BackfillPending, Sets

\* Steps after which no delete has cleared that had not before.
LEMMA ReapplyStep ==
  ASSUME Shapes, ReappliesSurvivors, NEW s \in Sessions, NEW r, Sets(s, r),
         skipped \subseteq skipped', r.op # "clearing",
         \A m \in labels' : WasThere(m) \/ BackfillPending(m)',
         req[s].op = "backfill" =>
           req[s].window \subseteq skipped' \/ req[s].window \intersect SamplesLocked(s) = {}
  PROVE  ReappliesSurvivors'
<1> SUFFICES ASSUME NEW o \in Sessions, req'[o].op = "clearing", NEW m \in labels',
                    NEW t \in (m.window \intersect req'[o].window) \ skipped',
                    m.id # req'[o].label.id, ~BackfillPending(m)'
             PROVE  \E k \in req'[o].reapply : k.id = m.id
  BY DEF ReappliesSurvivors
<1>1. o # s /\ req'[o] = req[o]
  BY DEF Sets
<1>2. PICK l \in labels : l.id = m.id /\ l.window = m.window
  BY DEF WasThere
<1>3. CASE BackfillPending(l)
  <2>1. BackfillPending(m)
    BY <1>2, <1>3 DEF BackfillPending
  <2>2. req[s].op = "backfill" /\ req[s].label.id = m.id
    BY <2>1, PendingStays
  <2>3. req[s].window = l.window
    BY <1>2, <2>2 DEF Shapes, ReqOK
  <2>4. t \in SamplesLocked(s)
    BY <1>1 DEF SamplesLocked
  <2> QED BY <1>2, <2>2, <2>3, <2>4
<1>4. CASE ~BackfillPending(l)
  BY <1>1, <1>2, <1>4 DEF ReappliesSurvivors
<1> QED BY <1>3, <1>4

\* Steps that take no label from a sample.
LEMMA LabelledStep ==
  ASSUME Shapes, SurvivorsStayLabelled, NEW s \in Sessions, NEW r, Sets(s, r),
         skipped \subseteq skipped',
         \A m \in labels' : WasThere(m) \/ BackfillPending(m)',
         \A l \in labels : \A t \in l.window \ skipped' :
           csi'[t] # Gone => csi[t] # Gone /\ (csi'[t] = NoRoom => csi[t] = NoRoom),
         req[s].op = "backfill" =>
           req[s].window \subseteq skipped' \/ \A t \in req[s].window : csi'[t] # NoRoom
  PROVE  SurvivorsStayLabelled'
<1> SUFFICES ASSUME NEW m \in labels', NEW t \in m.window \ skipped', csi'[t] # Gone,
                    ~BackfillPending(m)'
             PROVE  csi'[t] # NoRoom
  BY DEF SurvivorsStayLabelled
<1>1. PICK l \in labels : l.id = m.id /\ l.window = m.window
  BY DEF WasThere
<1>2. CASE BackfillPending(l)
  <2>1. BackfillPending(m)
    BY <1>1, <1>2 DEF BackfillPending
  <2>2. req[s].op = "backfill" /\ req[s].label.id = m.id
    BY <2>1, PendingStays
  <2>3. req[s].window = l.window
    BY <1>1, <2>2 DEF Shapes, ReqOK
  <2> QED BY <1>1, <2>2, <2>3
<1>3. CASE ~BackfillPending(l)
  BY <1>1, <1>3 DEF SurvivorsStayLabelled
<1> QED BY <1>2, <1>3

\* Steps that take no training row from a sample.
LEMMA OwedStep ==
  ASSUME TrainingIsOwed, NEW s \in Sessions, NEW r, Sets(s, r),
         skipped \subseteq skipped',
         \A t \in Times \ skipped' : csi'[t] \in RoomNames =>
           \/ Promises(s, t)'
           \/ /\ csi[t] \in RoomNames
              /\ training[t] # NoRoom => training'[t] # NoRoom
              /\ Promises(s, t) => Promises(s, t)'
              /\ Threatens(s, t)' => Threatens(s, t)
  PROVE  TrainingIsOwed'
<1> SUFFICES ASSUME NEW t \in Times \ skipped', csi'[t] \in RoomNames,
                    \A o \in Sessions : ~Promises(o, t)'
             PROVE  training'[t] # NoRoom /\ \A o \in Sessions : ~Threatens(o, t)'
  BY DEF TrainingIsOwed
<1>1. /\ csi[t] \in RoomNames
      /\ training[t] # NoRoom => training'[t] # NoRoom
      /\ ~Promises(s, t)
      /\ Threatens(s, t)' => Threatens(s, t)
  OBVIOUS
<1>2. \A o \in Sessions : o # s =>
        (Promises(o, t)' <=> Promises(o, t)) /\ (Threatens(o, t)' <=> Threatens(o, t))
  BY DEF Sets, Promises, Threatens
<1>3. \A o \in Sessions : ~Promises(o, t)
  BY <1>1, <1>2
<1>4. training[t] # NoRoom /\ \A o \in Sessions : ~Threatens(o, t)
  BY <1>1, <1>3 DEF TrainingIsOwed
<1> QED BY <1>1, <1>2, <1>4

LEMMA WindowFacts ==
  /\ \A w \in Windows : w \subseteq Times /\ w # {}
  /\ Times \in Windows
<1>1. LastTime \in Nat \ {0}
  BY LabelsAssumption
<1>2. \A w \in Windows : w \subseteq Times /\ w # {}
  BY <1>1 DEF Windows, Times
<1>3. 1..LastTime \in Windows
  <2>1. 1 \in Times /\ LastTime \in Times
    BY <1>1 DEF Times
  <2>2. 1..LastTime # {}
    BY <1>1
  <2> QED BY <2>1, <2>2 DEF Windows
<1> QED BY <1>2, <1>3 DEF Times

LEMMA BeginStep ==
  ASSUME IInv, NEW s \in Sessions, NEW r, Begin(s, r), r.window \in Windows
  PROVE  /\ Sets(s, r) /\ AloneUnlessContended'
         /\ req[s].op = "idle" /\ req[s].window = {}
         /\ contended \subseteq contended' /\ contended' \subseteq Times
         /\ \A o \in Sessions : req'[o].window \in Windows \union {{}}
         /\ \A t \in r.window \ (contended' \union skipped) :
              csi[t] # Gone => csi[t] \in RoomsAt(labels, t) /\ training[t] = csi[t]
<1>1. Sets(s, r)
  BY SetsReq DEF Begin, IInv
<1>2. contended' = contended \union (r.window \intersect Busy(s))
  BY DEF Begin
<1>3. req[s].op = "idle" /\ req[s].window = {}
  BY DEF Begin, IInv, Shapes, ReqOK
<1>4. r.window \subseteq Times
  BY WindowFacts
<1>5. contended \subseteq contended' /\ contended' \subseteq Times
  BY <1>2, <1>4 DEF IInv, LabelsTypeOK
<1>6. \A o \in Sessions : req'[o].window \in Windows \union {{}}
  BY <1>1 DEF Sets, IInv, LabelsTypeOK
<1>7. AloneUnlessContended'
  BY <1>1, <1>2, AloneStep DEF IInv
<1>8. ASSUME NEW t \in r.window \ (contended' \union skipped), csi[t] # Gone
      PROVE  csi[t] \in RoomsAt(labels, t) /\ training[t] = csi[t]
  <2>1. t \notin Busy(s)
    BY <1>2, <1>8
  <2>2. Settled(t)
    BY <1>3, <2>1 DEF Settled, Busy
  <2>3. t \in Times \ (skipped \union contended)
    BY <1>4, <1>5, <1>8
  <2> QED BY <1>8, <2>2, <2>3 DEF IInv, SequentialIsExact, RoomsAt
<1> QED BY <1>1, <1>3, <1>5, <1>6, <1>7, <1>8

LEMMA ContinueStep ==
  ASSUME IInv, NEW s \in Sessions, NEW r, Continue(s, r),
         r.window \in {req[s].window, {}}
  PROVE  /\ Sets(s, r) /\ AloneUnlessContended'
         /\ contended' = contended /\ contended' \subseteq Times
         /\ req[s].window \subseteq Times
         /\ \A o \in Sessions : req'[o].window \in Windows \union {{}}
<1>1. Sets(s, r)
  BY SetsReq DEF Continue, IInv
<1>2. contended' = contended /\ r.window \subseteq req[s].window
  BY DEF Continue
<1>3. AloneUnlessContended'
  BY <1>1, <1>2, AloneStep DEF IInv
<1>4. \A o \in Sessions : req[o].window \in Windows \union {{}}
  BY DEF IInv, LabelsTypeOK
<1>5. \A o \in Sessions : req'[o].window \in Windows \union {{}}
  BY <1>1, <1>4 DEF Sets
<1>6. req[s].window \subseteq Times
  BY <1>4, WindowFacts
<1> QED BY <1>1, <1>2, <1>3, <1>5, <1>6 DEF IInv, LabelsTypeOK

-------------------------------------------------------------------------------
(* The steps.                                                              *)

LEMMA RoomsStep ==
  ASSUME IInv, UNCHANGED <<labels, lastLabel, csi, training, req, skipped, contended>>,
         rooms' \subseteq RoomNames,
         \A l \in labels : l.room \in rooms'
  PROVE  IInv'
<1>1. LabelsTypeOK'
  <2>1. labels \subseteq [id : 1..MaxLabels, room : rooms', window : Windows]
    BY DEF IInv, LabelsTypeOK
  <2> QED BY <2>1 DEF IInv, LabelsTypeOK
<1>2. \A s \in Sessions : ReqOK(s)'
  BY DEF IInv, Shapes, ReqOK, LabelRecords
<1>3. Shapes'
  BY <1>2 DEF IInv, Shapes, SameIdSame
<1>4. ReappliesSurvivors' /\ SurvivorsStayLabelled'
  BY DEF IInv, ReappliesSurvivors, SurvivorsStayLabelled, BackfillPending
<1>5. TrainingIsOwed'
  BY DEF IInv, TrainingIsOwed, Promises, Threatens
<1>6. AloneUnlessContended'
  BY DEF IInv, AloneUnlessContended
<1>7. ASSUME NEW t \in Times \ (skipped' \union contended'), csi'[t] # Gone,
             NEW s \in Sessions, t \in req'[s].window
      PROVE  InTune(s, t)'
  <2>1. Untouched(t)
    BY DEF Untouched
  <2>2. InTune(s, t) /\ ReqOK(s)
    BY <1>7 DEF IInv, AloneIsInTune, Shapes
  <2> QED BY <1>7, <2>1, <2>2, UntouchedInTune
<1>8. AloneIsInTune'
  BY <1>7 DEF AloneIsInTune
<1>9. SequentialIsExact'
  BY DEF IInv, SequentialIsExact, Settled
<1> QED BY <1>1, <1>3, <1>4, <1>5, <1>6, <1>8, <1>9 DEF IInv

LEMMA ExpireStep ==
  ASSUME IInv, NEW x \in Times, Expire(x)
  PROVE  IInv'
<1>1. /\ UNCHANGED <<rooms, labels, lastLabel, training, req, skipped, contended>>
      /\ csi' \in [Times -> RoomNames \union {NoRoom, Gone}]
      /\ \A t \in Times : csi'[t] = IF t = x THEN Gone ELSE csi[t]
  BY DEF Expire, IInv, LabelsTypeOK
<1>2. LabelsTypeOK'
  BY <1>1 DEF IInv, LabelsTypeOK
<1>3. \A t \in Times : csi'[t] # Gone => Untouched(t)
  BY <1>1 DEF Untouched
<1>4. \A s \in Sessions : ReqOK(s)'
  BY <1>1 DEF IInv, Shapes, ReqOK, LabelRecords
<1>5. Shapes'
  BY <1>1, <1>4 DEF IInv, Shapes, SameIdSame
<1>6. ReappliesSurvivors'
  BY <1>1 DEF IInv, ReappliesSurvivors, BackfillPending
<1>7. \A l \in labels : l.window \subseteq Times
  BY WindowFacts DEF IInv, LabelsTypeOK
<1>8. SurvivorsStayLabelled'
  BY <1>1, <1>7 DEF IInv, SurvivorsStayLabelled, BackfillPending
<1>9. TrainingIsOwed'
  BY <1>1, LabelsAssumption DEF IInv, TrainingIsOwed, Promises, Threatens
<1>10. AloneUnlessContended'
  BY <1>1 DEF IInv, AloneUnlessContended
<1>11. ASSUME NEW t \in Times \ (skipped' \union contended'), csi'[t] # Gone,
             NEW s \in Sessions, t \in req'[s].window
      PROVE  InTune(s, t)'
  <2>1. Untouched(t) /\ csi[t] # Gone
    BY <1>1, <1>3, <1>11
  <2>2. InTune(s, t) /\ ReqOK(s)
    BY <1>1, <1>11, <2>1 DEF IInv, AloneIsInTune, Shapes
  <2> QED BY <1>1, <1>11, <2>1, <2>2, UntouchedInTune
<1>12. AloneIsInTune'
  BY <1>11 DEF AloneIsInTune
<1>13. SequentialIsExact'
  BY <1>1 DEF IInv, SequentialIsExact, Settled
<1> QED BY <1>2, <1>5, <1>6, <1>8, <1>9, <1>10, <1>12, <1>13 DEF IInv

LEMMA RenameFlushStep ==
  ASSUME IInv, NEW s \in Sessions, NEW old \in RoomNames, NEW new \in RoomNames,
         RenameFlush(s, old, new)
  PROVE  IInv'
<1> DEFINE r == [op |-> "rename", window |-> Times, old |-> old, new |-> new,
                 snapshot |-> csi]
<1>1. Begin(s, r) /\ UNCHANGED <<rooms, labels, lastLabel, csi, training, skipped>>
  BY DEF RenameFlush
<1>2. /\ r.window = Times /\ r.op = "rename" /\ r.snapshot = csi
      /\ r.old = old /\ r.new = new
  OBVIOUS
<1> HIDE DEF r
<1>3. /\ Sets(s, r) /\ AloneUnlessContended'
      /\ req[s].op = "idle" /\ req[s].window = {}
      /\ contended \subseteq contended' /\ contended' \subseteq Times
      /\ \A o \in Sessions : req'[o].window \in Windows \union {{}}
      /\ \A t \in r.window \ (contended' \union skipped) :
           csi[t] # Gone => csi[t] \in RoomsAt(labels, t) /\ training[t] = csi[t]
  BY <1>1, <1>2, WindowFacts, BeginStep
<1>4. LabelsTypeOK'
  BY <1>1, <1>3 DEF IInv, LabelsTypeOK
<1>5. req'[s] = r
  BY <1>3 DEF Sets
<1>6. ReqOK(s)'
  BY <1>1, <1>2, <1>5, WindowFacts DEF ReqOK, IInv, LabelsTypeOK
<1>7. \A m \in labels' : WasThere(m)
  BY <1>1 DEF WasThere
<1>8. Shapes'
  BY <1>1, <1>3, <1>6, <1>7, ShapesStep DEF IInv, Shapes, SameIdSame
<1>9. ReappliesSurvivors'
  BY <1>1, <1>2, <1>3, <1>7, ReapplyStep DEF IInv
<1>10. SurvivorsStayLabelled'
  BY <1>1, <1>3, <1>7, LabelledStep DEF IInv
<1>11. \A t : ~Promises(s, t) /\ ~Threatens(s, t)'
  BY <1>2, <1>3, <1>5 DEF Promises, Threatens
<1>12. TrainingIsOwed'
  BY <1>1, <1>3, <1>11, OwedStep DEF IInv
<1>13. AloneIsInTune' /\ SequentialIsExact'
  <2> SUFFICES ASSUME NEW t \in Times \ (skipped' \union contended'), csi'[t] # Gone
               PROVE  InTune(s, t)'
    BY <1>1, <1>2, <1>3, TuneStep DEF IInv
  <2> QED BY <1>1, <1>2, <1>3, <1>5 DEF InTune
<1> QED BY <1>3, <1>4, <1>8, <1>9, <1>10, <1>12, <1>13 DEF IInv

LEMMA CreateLabelStep ==
  ASSUME IInv, NEW s \in Sessions, NEW n \in RoomNames, NEW w \in Windows,
         CreateLabel(s, n, w)
  PROVE  IInv'
<1>0. PICK l : l = [id |-> lastLabel + 1, room |-> n, window |-> w]
  OBVIOUS
<1> DEFINE r == [op |-> "backfill", window |-> w, label |-> l]
<1>1. /\ Begin(s, r) /\ UNCHANGED <<rooms, csi, training, skipped>>
      /\ labels' = labels \union {l} /\ lastLabel' = lastLabel + 1
      /\ n \in rooms /\ lastLabel < MaxLabels
  BY <1>0 DEF CreateLabel
<1>2. /\ r.op = "backfill" /\ r.window = w /\ r.label = l
      /\ l.id = lastLabel + 1 /\ l.room = n /\ l.window = w
      /\ l \in [id : {lastLabel + 1}, room : {n}, window : Windows]
  BY <1>0
<1> HIDE DEF r
<1>3. /\ Sets(s, r) /\ AloneUnlessContended'
      /\ req[s].op = "idle" /\ req[s].window = {}
      /\ contended \subseteq contended' /\ contended' \subseteq Times
      /\ \A o \in Sessions : req'[o].window \in Windows \union {{}}
  BY <1>1, <1>2, BeginStep
<1>4. /\ lastLabel \in Nat /\ MaxLabels \in Nat
      /\ \A m \in labels : m.id \in 1..lastLabel /\ m.id # lastLabel + 1
  BY LabelsAssumption DEF IInv, Shapes
<1>5. l \in [id : 1..MaxLabels, room : rooms, window : Windows]
  <2>1. lastLabel + 1 \in 1..MaxLabels
    BY <1>1, <1>4
  <2> QED BY <1>1, <1>2, <2>1
<1>6. LabelsTypeOK'
  BY <1>1, <1>3, <1>5 DEF IInv, LabelsTypeOK
<1>7. req'[s] = r
  BY <1>3 DEF Sets
<1>8. ReqOK(s)'
  <2>1. l \in LabelRecords'
    <3>1. lastLabel + 1 \in 1..lastLabel'
      BY <1>1, <1>4
    <3> QED BY <1>2, <3>1 DEF LabelRecords
  <2>2. \A m \in labels' : m.id = l.id => m.window = w
    BY <1>1, <1>2, <1>4
  <2> QED BY <1>2, <1>7, <2>1, <2>2 DEF ReqOK, FollowUp
<1>9. \A m \in labels : WasThere(m)
  BY DEF WasThere
<1>10. BackfillPending(l)'
  BY <1>2, <1>7 DEF BackfillPending
<1>11. \A m \in labels' : WasThere(m) \/ BackfillPending(m)'
  BY <1>1, <1>9, <1>10
<1>12. SameIdSame(labels')
  BY <1>1, <1>2, <1>4 DEF IInv, Shapes, SameIdSame
<1>13. Shapes'
  <2>1. \A m \in labels' : WasThere(m) \/ m.id = lastLabel + 1
    BY <1>1, <1>2, <1>9
  <2> QED BY <1>1, <1>3, <1>8, <1>12, <2>1, ShapesStep DEF IInv
<1>14. ReappliesSurvivors'
  BY <1>1, <1>2, <1>3, <1>11, ReapplyStep DEF IInv
<1>15. SurvivorsStayLabelled'
  BY <1>1, <1>3, <1>11, LabelledStep DEF IInv
<1>16. \A t : ~Promises(s, t) /\ ~Threatens(s, t)'
  BY <1>2, <1>3, <1>7 DEF Promises, Threatens
<1>17. TrainingIsOwed'
  BY <1>1, <1>3, <1>16, OwedStep DEF IInv
<1>18. AloneIsInTune' /\ SequentialIsExact'
  <2>1. \A t \in w : InTune(s, t)'
    BY <1>1, <1>2, <1>7 DEF InTune
  <2>2. ASSUME NEW t \in Times, t \notin w PROVE Untouched(t)
    BY <1>1, <1>2, <2>2 DEF Untouched
  <2> QED BY <1>1, <1>2, <1>3, <2>1, <2>2, TuneStep DEF IInv
<1> QED BY <1>3, <1>6, <1>13, <1>14, <1>15, <1>17, <1>18 DEF IInv

LEMMA BackfillStep ==
  ASSUME IInv, NEW s \in Sessions, Backfill(s)
  PROVE  IInv'
<1> DEFINE r == [op |-> "sync", window |-> req[s].window]
<1>1. /\ Continue(s, r) /\ UNCHANGED <<rooms, labels, lastLabel, training, skipped>>
      /\ csi' = [t \in Times |-> IF t \in req[s].window /\ csi[t] # Gone
                                 THEN req[s].label.room ELSE csi[t]]
      /\ req[s].op = "backfill" /\ req[s].window \intersect SamplesLocked(s) = {}
  BY DEF Backfill
<1>2. r.op = "sync" /\ r.window = req[s].window
  OBVIOUS
<1> HIDE DEF r
<1>3. /\ Sets(s, r) /\ AloneUnlessContended'
      /\ contended' = contended /\ contended' \subseteq Times
      /\ req[s].window \subseteq Times
      /\ \A o \in Sessions : req'[o].window \in Windows \union {{}}
  BY <1>1, <1>2, ContinueStep
<1>4. /\ req[s].label.room \in RoomNames
      /\ req[s].label.window = req[s].window
  BY <1>1 DEF IInv, Shapes, ReqOK, LabelRecords
<1>5. /\ csi' \in [Times -> RoomNames \union {NoRoom, Gone}]
      /\ \A t \in Times : csi'[t] = IF t \in req[s].window /\ csi[t] # Gone
                                    THEN req[s].label.room ELSE csi[t]
  BY <1>1, <1>4 DEF IInv, LabelsTypeOK
<1>6. LabelsTypeOK'
  BY <1>1, <1>3, <1>5 DEF IInv, LabelsTypeOK
<1>7. req'[s] = r
  BY <1>3 DEF Sets
<1>8. ReqOK(s)'
  BY <1>2, <1>3, <1>7 DEF ReqOK, FollowUp
<1>9. \A m \in labels' : WasThere(m)
  BY <1>1 DEF WasThere
<1>10. Shapes'
  BY <1>1, <1>3, <1>8, <1>9, ShapesStep DEF IInv, Shapes, SameIdSame
<1>11. ReappliesSurvivors'
  BY <1>1, <1>2, <1>3, <1>9, ReapplyStep DEF IInv
<1>12. RoomNames \intersect {NoRoom, Gone} = {}
  BY LabelsAssumption
<1>13. SurvivorsStayLabelled'
  <2>1. \A t \in req[s].window : csi'[t] # NoRoom \/ csi'[t] = Gone
    BY <1>3, <1>4, <1>5, <1>12
  <2>2. \A m \in labels : m.window \subseteq Times
    BY WindowFacts DEF IInv, LabelsTypeOK
  <2>3. Gone # NoRoom
    BY LabelsAssumption
  <2>4. \A t \in req[s].window : csi'[t] # NoRoom
    BY <2>1, <2>3
  <2>5. \A m \in labels : \A t \in m.window \ skipped' :
          csi'[t] # Gone => csi[t] # Gone /\ (csi'[t] = NoRoom => csi[t] = NoRoom)
    BY <1>4, <1>5, <1>12, <2>2
  <2> QED BY <1>1, <1>3, <1>9, <2>4, <2>5, LabelledStep DEF IInv
<1>14. TrainingIsOwed'
  <2>1. \A t : ~Promises(s, t) /\ ~Threatens(s, t)'
    BY <1>1, <1>2, <1>7 DEF Promises, Threatens
  <2>2. \A t \in req[s].window : Promises(s, t)'
    BY <1>2, <1>7 DEF Promises
  <2>3. \A t \in Times \ req[s].window : csi'[t] = csi[t]
    BY <1>5
  <2> QED BY <1>1, <1>3, <2>1, <2>2, <2>3, OwedStep DEF IInv
<1>15. AloneIsInTune' /\ SequentialIsExact'
  <2>1. ASSUME NEW t \in Times \ (skipped' \union contended'), csi'[t] # Gone,
               t \in req[s].window
        PROVE  csi[t] # Gone /\ InTune(s, t)'
    <3>1. csi[t] # Gone /\ csi'[t] = req[s].label.room
      BY <1>4, <1>5, <2>1
    <3>2. InTune(s, t)
      BY <1>1, <1>3, <2>1, <3>1 DEF IInv, AloneIsInTune
    <3>3. req[s].label \in labels'
      BY <1>1, <3>2 DEF InTune
    <3>4. csi'[t] \in RoomsAt(labels', t)
      BY <1>4, <2>1, <3>1, <3>3 DEF RoomsAt
    <3> QED BY <1>2, <1>4, <1>7, <3>1, <3>4 DEF InTune
  <2>2. ASSUME NEW t \in Times, t \notin req[s].window PROVE csi'[t] = csi[t] /\ Untouched(t)
    BY <1>1, <1>5, <2>2 DEF Untouched
  <2> QED BY <1>1, <1>2, <1>3, <2>1, <2>2, TuneStep DEF IInv
<1> QED BY <1>3, <1>6, <1>10, <1>11, <1>13, <1>14, <1>15 DEF IInv

LEMMA RenameCommitStep ==
  ASSUME IInv, NEW s \in Sessions, RenameCommit(s)
  PROVE  IInv'
<1> DEFINE old == req[s].old
           new == req[s].new
           seen == {t \in Times : req[s].snapshot[t] = old}
           renamed(l) == IF l.room = old THEN [l EXCEPT !.room = new] ELSE l
<1>1. /\ req[s].op = "rename" /\ Continue(s, Idle) /\ UNCHANGED lastLabel
      /\ rooms' = (rooms \ {old}) \union {new}
      /\ labels' = {renamed(l) : l \in labels}
      /\ csi' = [t \in Times |-> IF t \in seen /\ csi[t] = old THEN new ELSE csi[t]]
      /\ \/ /\ training' = [t \in Times |-> IF training[t] = old THEN new ELSE training[t]]
            /\ UNCHANGED skipped
         \/ skipped' = Times /\ UNCHANGED training
  BY DEF RenameCommit, End
<1>2. /\ req[s].window = Times /\ old \in RoomNames /\ new \in RoomNames
      /\ \A t \in seen : req[s].snapshot[t] = old
      /\ \A t \in Times : req[s].snapshot[t] = old => t \in seen
  BY <1>1 DEF IInv, Shapes, ReqOK
<1>3. \A l \in labels :
        /\ renamed(l).id = l.id /\ renamed(l).window = l.window
        /\ renamed(l).room = IF l.room = old THEN new ELSE l.room
        /\ renamed(l) \in [id : 1..MaxLabels, room : rooms', window : Windows]
  <2> SUFFICES ASSUME NEW l \in labels
               PROVE  /\ renamed(l).id = l.id /\ renamed(l).window = l.window
                      /\ renamed(l).room = IF l.room = old THEN new ELSE l.room
                      /\ renamed(l) \in [id : 1..MaxLabels, room : rooms', window : Windows]
    OBVIOUS
  <2>1. l \in [id : 1..MaxLabels, room : rooms, window : Windows]
    BY DEF IInv, LabelsTypeOK
  <2>2. CASE l.room = old
    BY <1>1, <2>1, <2>2
  <2>3. CASE l.room # old
    <3>1. l.room \in rooms'
      BY <1>1, <2>1, <2>3
    <3> QED BY <2>1, <2>3, <3>1
  <2> QED BY <2>2, <2>3
<1> HIDE DEF renamed
<1>4. RoomNames \intersect {NoRoom, Gone} = {} /\ NoRoom # Gone
  BY LabelsAssumption
<1>5. /\ csi' \in [Times -> RoomNames \union {NoRoom, Gone}]
      /\ \A t \in Times : csi'[t] = IF t \in seen /\ csi[t] = old THEN new ELSE csi[t]
  BY <1>1, <1>2 DEF IInv, LabelsTypeOK
<1> HIDE DEF old, new, seen
<1>6. /\ training' \in [Times -> RoomNames \union {NoRoom}]
      /\ \A t \in Times \ skipped' :
           training'[t] = IF training[t] = old THEN new ELSE training[t]
      /\ skipped \subseteq skipped' /\ skipped' \subseteq Times
  BY <1>1, <1>2 DEF IInv, LabelsTypeOK
<1>7. /\ Sets(s, Idle) /\ AloneUnlessContended'
      /\ contended' = contended /\ contended' \subseteq Times
      /\ \A o \in Sessions : req'[o].window \in Windows \union {{}}
  <2>1. Idle.window = {}
    BY DEF Idle
  <2> QED BY <1>1, <2>1, ContinueStep
<1>8. LabelsTypeOK'
  <2>1. rooms' \subseteq RoomNames
    BY <1>1, <1>2 DEF IInv, LabelsTypeOK
  <2>2. labels' \subseteq [id : 1..MaxLabels, room : rooms', window : Windows]
    BY <1>1, <1>3
  <2> QED BY <1>5, <1>6, <1>7, <2>1, <2>2 DEF LabelsTypeOK
<1>9. ReqOK(s)'
  BY <1>7 DEF Sets, ReqOK, Idle, FollowUp
<1>10. \A m \in labels' : WasThere(m)
  BY <1>1, <1>3 DEF WasThere
<1>11. SameIdSame(labels')
  <2> SUFFICES ASSUME NEW l \in labels, NEW m \in labels, renamed(l).id = renamed(m).id
               PROVE  renamed(l) = renamed(m)
    BY <1>1 DEF SameIdSame
  <2> QED BY <1>3 DEF IInv, Shapes, SameIdSame
<1>12. Shapes'
  BY <1>1, <1>7, <1>9, <1>10, <1>11, ShapesStep DEF IInv
<1>13. Idle.op = "idle" /\ Idle.window = {}
  BY DEF Idle
<1>14. ReappliesSurvivors'
  BY <1>1, <1>6, <1>7, <1>10, <1>13, ReapplyStep DEF IInv
<1>15. \A l \in labels : l.window \subseteq Times
  BY WindowFacts DEF IInv, LabelsTypeOK
<1>16. SurvivorsStayLabelled'
  <2>1. \A l \in labels : \A t \in l.window \ skipped' :
          csi'[t] # Gone => csi[t] # Gone /\ (csi'[t] = NoRoom => csi[t] = NoRoom)
    BY <1>2, <1>4, <1>5, <1>15
  <2> QED BY <1>1, <1>6, <1>7, <1>10, <2>1, LabelledStep DEF IInv
<1>17. TrainingIsOwed'
  <2>1. \A t : ~Promises(s, t) /\ ~Threatens(s, t)'
    BY <1>1, <1>7, <1>13 DEF Promises, Threatens, Sets
  <2>2. \A t \in Times : csi'[t] \in RoomNames => csi[t] \in RoomNames
    BY <1>2, <1>5
  <2>3. \A t \in Times \ skipped' : training[t] # NoRoom => training'[t] # NoRoom
    BY <1>2, <1>4, <1>6
  <2> QED BY <1>6, <1>7, <2>1, <2>2, <2>3, OwedStep DEF IInv
<1>18. AloneIsInTune' /\ SequentialIsExact'
  <2>1. ASSUME NEW t \in Times \ (skipped' \union contended'), csi'[t] # Gone
        PROVE  csi[t] # Gone /\ csi'[t] \in RoomsAt(labels', t) /\ training'[t] = csi'[t]
    <3>1. csi[t] # Gone
      BY <1>2, <1>4, <1>5, <2>1
    <3>2. InTune(s, t)
      BY <1>2, <1>6, <1>7, <2>1, <3>1 DEF IInv, AloneIsInTune
    <3>3. /\ csi[t] \in RoomsAt(labels, t) /\ training[t] = csi[t]
          /\ req[s].snapshot[t] = csi[t]
      BY <1>1, <3>2 DEF InTune
    <3>4. csi'[t] = IF csi[t] = old THEN new ELSE csi[t]
      BY <1>2, <1>5, <3>3 DEF old
    <3>5. training'[t] = csi'[t]
      BY <1>6, <3>3, <3>4
    <3>6. CASE \E l \in labels : t \in l.window
      <4>1. PICK l \in labels : t \in l.window /\ l.room = csi[t]
        BY <3>3, <3>6 DEF RoomsAt
      <4>2. renamed(l) \in labels' /\ t \in renamed(l).window /\ renamed(l).room = csi'[t]
        BY <1>1, <1>3, <3>4, <4>1
      <4> QED BY <3>1, <3>5, <4>2 DEF RoomsAt
    <3>7. CASE ~\E l \in labels : t \in l.window
      <4>1. csi[t] = NoRoom
        BY <3>3, <3>7 DEF RoomsAt
      <4>2. csi'[t] = NoRoom
        BY <1>2, <1>4, <3>4, <4>1
      <4>3. \A m \in labels' : t \notin m.window
        BY <1>1, <1>3, <3>7
      <4> QED BY <3>1, <3>5, <4>2, <4>3 DEF RoomsAt
    <3> QED BY <3>6, <3>7
  <2> QED BY <1>2, <1>6, <1>7, <1>13, <2>1, TuneStep DEF IInv
<1> QED BY <1>7, <1>8, <1>12, <1>14, <1>16, <1>17, <1>18 DEF IInv

LEMMA TrainingReadStep ==
  ASSUME IInv, NEW s \in Sessions, TrainingRead(s)
  PROVE  IInv'
<1> DEFINE sel == [t \in {u \in req[s].window : csi[u] \in RoomNames} |-> csi[t]]
<1>1. PICK r : r = [op |-> IF req[s].op = "sync" THEN "write" ELSE "rewrite",
                    window |-> req[s].window, replaced |-> Replaced(s), selected |-> sel]
  OBVIOUS
<1>2. /\ Continue(s, r) /\ UNCHANGED <<rooms, labels, lastLabel, csi, training, skipped>>
      /\ req[s].op \in {"sync", "resync"}
  BY <1>1 DEF TrainingRead
<1>3. /\ req[s].op = "sync" => r.op = "write"
      /\ req[s].op = "resync" => r.op = "rewrite"
      /\ r.window = req[s].window /\ r.replaced = Replaced(s)
      /\ DOMAIN r.selected = {u \in req[s].window : csi[u] \in RoomNames}
      /\ \A t \in DOMAIN r.selected : r.selected[t] = csi[t]
  BY <1>1, <1>2
<1>4. /\ Sets(s, r) /\ AloneUnlessContended'
      /\ contended' = contended /\ contended' \subseteq Times
      /\ req[s].window \subseteq Times
      /\ \A o \in Sessions : req'[o].window \in Windows \union {{}}
  BY <1>2, <1>3, ContinueStep
<1>5. LabelsTypeOK'
  BY <1>2, <1>4 DEF IInv, LabelsTypeOK
<1>6. req'[s] = r
  BY <1>4 DEF Sets
<1>7. ReqOK(s)'
  BY <1>2, <1>3, <1>4, <1>6 DEF ReqOK, FollowUp, Replaced
<1>8. \A m \in labels' : WasThere(m)
  BY <1>2 DEF WasThere
<1>9. Shapes'
  BY <1>2, <1>4, <1>7, <1>8, ShapesStep DEF IInv, Shapes, SameIdSame
<1>10. ReappliesSurvivors'
  BY <1>2, <1>3, <1>4, <1>8, ReapplyStep DEF IInv
<1>11. SurvivorsStayLabelled'
  BY <1>2, <1>4, <1>8, LabelledStep DEF IInv
<1>12. TrainingIsOwed'
  <2> SUFFICES ASSUME NEW t \in Times \ skipped', csi'[t] \in RoomNames, ~Promises(s, t)'
               PROVE  ~Promises(s, t) /\ ~Threatens(s, t)'
    BY <1>2, <1>4, OwedStep DEF IInv
  <2>1. t \notin req[s].window
    BY <1>2, <1>3, <1>6 DEF Promises
  <2> QED BY <1>2, <1>3, <1>6, <2>1 DEF Promises, Threatens, Replaced
<1>13. AloneIsInTune' /\ SequentialIsExact'
  <2>1. ASSUME NEW t \in Times \ (skipped' \union contended'), csi'[t] # Gone,
               t \in req[s].window
        PROVE  InTune(s, t)'
    <3>1. InTune(s, t)
      BY <1>2, <1>4, <2>1 DEF IInv, AloneIsInTune
    <3>2. csi[t] \in RoomsAt(labels, t) /\ (req[s].op = "sync" => csi[t] \in RoomNames)
      BY <1>2, <3>1 DEF InTune
    <3>3. t \in DOMAIN r.selected <=> csi[t] \in RoomNames
      BY <1>3, <2>1
    <3>4. t \notin Replaced(s) => req[s].op # "resync" \/ training[t] = NoRoom
      BY <2>1 DEF Replaced
    <3> QED BY <1>2, <1>3, <1>6, <3>2, <3>3, <3>4 DEF InTune, RoomsAt
  <2>2. \A t : Untouched(t)
    BY <1>2 DEF Untouched
  <2> QED BY <1>2, <1>3, <1>4, <2>1, <2>2, TuneStep DEF IInv
<1> QED BY <1>4, <1>5, <1>9, <1>10, <1>11, <1>12, <1>13 DEF IInv

LEMMA TrainingWriteStep ==
  ASSUME IInv, NEW s \in Sessions, TrainingWrite(s)
  PROVE  IInv'
<1>1. /\ Continue(s, Idle) /\ UNCHANGED <<rooms, labels, lastLabel, csi, skipped>>
      /\ training' = [t \in Times |-> DeletedThenInserted(req[s], t)]
      /\ req[s].op \in {"write", "rewrite"}
      /\ DOMAIN req[s].selected \intersect TrainingLocked(s) = {}
  BY DEF TrainingWrite, End
<1>2. /\ req[s].replaced \subseteq req[s].window
      /\ DOMAIN req[s].selected \subseteq req[s].window
      /\ \A t \in DOMAIN req[s].selected : req[s].selected[t] \in RoomNames
  BY <1>1 DEF IInv, Shapes, ReqOK
<1>3. Idle.op = "idle" /\ Idle.window = {}
  BY DEF Idle
<1>4. /\ Sets(s, Idle) /\ AloneUnlessContended'
      /\ contended' = contended /\ contended' \subseteq Times
      /\ req[s].window \subseteq Times
      /\ \A o \in Sessions : req'[o].window \in Windows \union {{}}
  BY <1>1, <1>3, ContinueStep
<1>5. RoomNames \intersect {NoRoom, Gone} = {}
  BY LabelsAssumption
<1>6. /\ training' \in [Times -> RoomNames \union {NoRoom}]
      /\ \A t \in Times : training'[t] =
           IF t \in DOMAIN req[s].selected THEN req[s].selected[t]
           ELSE IF t \in req[s].replaced THEN NoRoom ELSE training[t]
  BY <1>1, <1>2 DEF DeletedThenInserted, IInv, LabelsTypeOK
<1>7. LabelsTypeOK'
  BY <1>1, <1>4, <1>6 DEF IInv, LabelsTypeOK
<1>8. req'[s] = Idle
  BY <1>4 DEF Sets
<1>9. ReqOK(s)'
  BY <1>3, <1>8 DEF ReqOK, FollowUp
<1>10. \A m \in labels' : WasThere(m)
  BY <1>1 DEF WasThere
<1>11. Shapes'
  BY <1>1, <1>4, <1>9, <1>10, ShapesStep DEF IInv, Shapes, SameIdSame
<1>12. ReappliesSurvivors'
  BY <1>1, <1>3, <1>4, <1>10, ReapplyStep DEF IInv
<1>13. SurvivorsStayLabelled'
  BY <1>1, <1>4, <1>10, LabelledStep DEF IInv
<1>14. TrainingIsOwed'
  <2> SUFFICES ASSUME NEW t \in Times \ skipped', csi'[t] \in RoomNames,
                      \A o \in Sessions : ~Promises(o, t)'
               PROVE  training'[t] # NoRoom /\ \A o \in Sessions : ~Threatens(o, t)'
    BY DEF TrainingIsOwed
  <2>1. \A o \in Sessions : o # s =>
          (Promises(o, t)' <=> Promises(o, t)) /\ (Threatens(o, t)' <=> Threatens(o, t))
    BY <1>4 DEF Sets, Promises, Threatens
  <2>2. ~Threatens(s, t)'
    BY <1>3, <1>8 DEF Threatens
  <2>3. CASE t \in DOMAIN req[s].selected
    <3>1. training'[t] # NoRoom
      BY <1>2, <1>5, <1>6, <2>3
    <3>2. t \notin TrainingLocked(s)
      BY <1>1, <2>3
    <3>3. \A o \in Sessions : o # s => ~Threatens(o, t)
      BY <3>2 DEF Threatens, TrainingLocked
    <3> QED BY <2>1, <2>2, <3>1, <3>3
  <2>4. CASE t \notin DOMAIN req[s].selected
    <3>1. \A o \in Sessions : ~Promises(o, t)
      BY <1>1, <2>1, <2>4 DEF Promises
    <3>2. training[t] # NoRoom /\ \A o \in Sessions : ~Threatens(o, t)
      BY <1>1, <3>1 DEF IInv, TrainingIsOwed
    <3>3. t \in req[s].replaced => req[s].op = "write"
      BY <1>1, <2>4, <3>2 DEF Threatens
    <3>4. t \notin req[s].replaced
      BY <1>1, <2>4, <3>3 DEF IInv, Shapes, ReqOK
    <3>5. training'[t] # NoRoom
      BY <1>6, <2>4, <3>2, <3>4
    <3> QED BY <2>1, <2>2, <3>2, <3>5
  <2> QED BY <2>3, <2>4
<1>15. AloneIsInTune' /\ SequentialIsExact'
  <2>1. ASSUME NEW t \in Times \ (skipped' \union contended'), csi'[t] # Gone,
               t \in req[s].window
        PROVE  csi'[t] \in RoomsAt(labels', t) /\ training'[t] = csi'[t]
    <3>1. InTune(s, t)
      BY <1>1, <1>4, <2>1 DEF IInv, AloneIsInTune
    <3>2. /\ csi[t] \in RoomsAt(labels, t)
          /\ t \in DOMAIN req[s].selected <=> csi[t] \in RoomNames
          /\ t \in DOMAIN req[s].selected => req[s].selected[t] = csi[t]
          /\ req[s].op = "write" => csi[t] \in RoomNames
          /\ req[s].op = "rewrite" /\ csi[t] = NoRoom /\ t \notin req[s].replaced
               => training[t] = NoRoom
      BY <1>1, <3>1 DEF InTune
    <3>3. csi[t] \in RoomNames \union {NoRoom}
      BY <1>1, <2>1 DEF IInv, LabelsTypeOK
    <3>4. training'[t] = csi[t]
      BY <1>1, <1>5, <1>6, <2>1, <3>2, <3>3
    <3> QED BY <1>1, <3>2, <3>4 DEF RoomsAt
  <2>2. ASSUME NEW t \in Times, t \notin req[s].window PROVE Untouched(t)
    BY <1>1, <1>2, <1>6, <2>2 DEF Untouched
  <2> QED BY <1>1, <1>3, <1>4, <2>1, <2>2, TuneStep DEF IInv
<1> QED BY <1>4, <1>7, <1>11, <1>12, <1>13, <1>14, <1>15 DEF IInv

LEMMA AbortStep ==
  ASSUME IInv, NEW s \in Sessions, Abort(s)
  PROVE  IInv'
<1>1. /\ Continue(s, Idle) /\ UNCHANGED <<rooms, labels, lastLabel, csi, training>>
      /\ skipped' = IF req[s].op \in FollowUp THEN skipped \union req[s].window ELSE skipped
  BY DEF Abort, End
<1>2. Idle.op = "idle" /\ Idle.window = {}
  BY DEF Idle
<1>3. /\ Sets(s, Idle) /\ AloneUnlessContended'
      /\ contended' = contended /\ contended' \subseteq Times
      /\ req[s].window \subseteq Times
      /\ \A o \in Sessions : req'[o].window \in Windows \union {{}}
  BY <1>1, <1>2, ContinueStep
<1>4. skipped \subseteq skipped' /\ skipped' \subseteq Times
  BY <1>1, <1>3 DEF IInv, LabelsTypeOK
<1>5. LabelsTypeOK'
  BY <1>1, <1>3, <1>4 DEF IInv, LabelsTypeOK
<1>6. req'[s] = Idle
  BY <1>3 DEF Sets
<1>7. ReqOK(s)'
  BY <1>2, <1>6 DEF ReqOK, FollowUp
<1>8. \A m \in labels' : WasThere(m)
  BY <1>1 DEF WasThere
<1>9. Shapes'
  BY <1>1, <1>3, <1>7, <1>8, ShapesStep DEF IInv, Shapes, SameIdSame
<1>10. req[s].op \in FollowUp => req[s].window \subseteq skipped'
  BY <1>1
<1>11. req[s].op = "backfill" => req[s].window \subseteq skipped'
  BY <1>10 DEF FollowUp
<1>12. ReappliesSurvivors'
  BY <1>1, <1>2, <1>3, <1>4, <1>8, <1>11, ReapplyStep DEF IInv
<1>13. SurvivorsStayLabelled'
  BY <1>1, <1>3, <1>4, <1>8, <1>11, LabelledStep DEF IInv
<1>14. TrainingIsOwed'
  <2>1. \A t : ~Threatens(s, t)'
    BY <1>2, <1>6 DEF Threatens
  <2>2. ASSUME NEW t \in Times \ skipped', Promises(s, t) PROVE FALSE
    <3>1. t \in req[s].window /\ req[s].op \in FollowUp
      BY <2>2 DEF Promises, FollowUp, IInv, Shapes, ReqOK
    <3> QED BY <1>10, <2>2, <3>1
  <2> QED BY <1>1, <1>3, <1>4, <2>1, <2>2, OwedStep DEF IInv
<1>15. AloneIsInTune' /\ SequentialIsExact'
  <2>1. ASSUME NEW t \in Times \ (skipped' \union contended'), csi'[t] # Gone,
               t \in req[s].window
        PROVE  csi'[t] \in RoomsAt(labels', t) /\ training'[t] = csi'[t]
    <3>1. req[s].op \notin FollowUp
      BY <1>10, <2>1
    <3>2. req[s].op \in {"delete", "clearing", "rename"}
      BY <2>1, <3>1 DEF IInv, Shapes, ReqOK
    <3>3. InTune(s, t)
      BY <1>1, <1>3, <1>4, <2>1 DEF IInv, AloneIsInTune
    <3>4. csi[t] \in RoomsAt(labels, t) /\ training[t] = csi[t]
      BY <3>2, <3>3 DEF InTune
    <3> QED BY <1>1, <3>4 DEF RoomsAt
  <2>2. \A t : Untouched(t)
    BY <1>1 DEF Untouched
  <2> QED BY <1>1, <1>2, <1>3, <1>4, <2>1, <2>2, TuneStep DEF IInv
<1> QED BY <1>3, <1>5, <1>9, <1>12, <1>13, <1>14, <1>15 DEF IInv

LEMMA DeleteReadStep ==
  ASSUME IInv, NEW s \in Sessions, NEW l \in labels, DeleteRead(s, l)
  PROVE  IInv'
<1> DEFINE r == [op |-> "delete", window |-> l.window, label |-> l]
<1>1. Begin(s, r) /\ UNCHANGED <<rooms, labels, lastLabel, csi, training, skipped>>
  BY DEF DeleteRead
<1>2. r.op = "delete" /\ r.window = l.window /\ r.label = l
  OBVIOUS
<1> HIDE DEF r
<1>3. /\ l \in [id : 1..MaxLabels, room : rooms, window : Windows]
      /\ l.id \in 1..lastLabel /\ rooms \subseteq RoomNames
  BY DEF IInv, LabelsTypeOK, Shapes
<1>4. l \in LabelRecords /\ l.window \in Windows
  BY <1>3 DEF LabelRecords
<1>5. /\ Sets(s, r) /\ AloneUnlessContended'
      /\ req[s].op = "idle" /\ req[s].window = {}
      /\ contended \subseteq contended' /\ contended' \subseteq Times
      /\ \A o \in Sessions : req'[o].window \in Windows \union {{}}
      /\ \A t \in r.window \ (contended' \union skipped) :
           csi[t] # Gone => csi[t] \in RoomsAt(labels, t) /\ training[t] = csi[t]
  BY <1>1, <1>2, <1>4, BeginStep
<1>6. LabelsTypeOK'
  BY <1>1, <1>5 DEF IInv, LabelsTypeOK
<1>7. req'[s] = r
  BY <1>5 DEF Sets
<1>8. ReqOK(s)'
  <2>1. r.label \in LabelRecords'
    BY <1>1, <1>2, <1>4 DEF LabelRecords
  <2>2. \A m \in labels' : m.id = l.id => m.window = l.window
    BY <1>1 DEF IInv, Shapes, SameIdSame
  <2> QED BY <1>2, <1>4, <1>7, <2>1, <2>2 DEF ReqOK, FollowUp
<1>9. \A m \in labels' : WasThere(m)
  BY <1>1 DEF WasThere
<1>10. Shapes'
  BY <1>1, <1>5, <1>8, <1>9, ShapesStep DEF IInv, Shapes, SameIdSame
<1>11. ReappliesSurvivors'
  BY <1>1, <1>2, <1>5, <1>9, ReapplyStep DEF IInv
<1>12. SurvivorsStayLabelled'
  BY <1>1, <1>5, <1>9, LabelledStep DEF IInv
<1>13. \A t : ~Promises(s, t) /\ ~Threatens(s, t)'
  BY <1>2, <1>5, <1>7 DEF Promises, Threatens
<1>14. TrainingIsOwed'
  BY <1>1, <1>5, <1>13, OwedStep DEF IInv
<1>15. AloneIsInTune' /\ SequentialIsExact'
  <2>1. ASSUME NEW t \in Times \ (skipped' \union contended'), csi'[t] # Gone, t \in r.window
        PROVE  InTune(s, t)'
    BY <1>1, <1>2, <1>5, <1>7, <2>1 DEF InTune, RoomsAt
  <2>2. \A t : Untouched(t)
    BY <1>1 DEF Untouched
  <2> QED BY <1>1, <1>2, <1>5, <2>1, <2>2, TuneStep DEF IInv
<1> QED BY <1>5, <1>6, <1>10, <1>11, <1>12, <1>14, <1>15 DEF IInv

LEMMA DeleteClearStep ==
  ASSUME IInv, NEW s \in Sessions, DeleteClear(s)
  PROVE  IInv'
<1>1. PICK r : r = [op |-> "clearing", window |-> req[s].window,
                    label |-> req[s].label, reapply |-> Overlapping(req[s].label)]
  OBVIOUS
<1>2. /\ Continue(s, r) /\ UNCHANGED <<rooms, labels, lastLabel, csi, training, skipped>>
      /\ req[s].op = "delete"
  BY <1>1 DEF DeleteClear
<1>3. /\ r.op = "clearing" /\ r.window = req[s].window /\ r.label = req[s].label
      /\ r.reapply = Overlapping(req[s].label)
  BY <1>1
<1>4. /\ Sets(s, r) /\ AloneUnlessContended'
      /\ contended' = contended /\ contended' \subseteq Times
      /\ req[s].window \subseteq Times
      /\ \A o \in Sessions : req'[o].window \in Windows \union {{}}
  BY <1>2, <1>3, ContinueStep
<1>5. LabelsTypeOK'
  BY <1>2, <1>4 DEF IInv, LabelsTypeOK
<1>6. req'[s] = r
  BY <1>4 DEF Sets
<1>7. /\ req[s].label \in LabelRecords /\ req[s].label.window = req[s].window
      /\ \A l \in labels : l.id = req[s].label.id => l.window = req[s].window
  BY <1>2 DEF IInv, Shapes, ReqOK
<1>8. r.reapply \subseteq labels
  BY <1>3 DEF Overlapping
<1>9. labels \subseteq LabelRecords
  <2> SUFFICES ASSUME NEW l \in labels PROVE l \in LabelRecords
    OBVIOUS
  <2>1. /\ l \in [id : 1..MaxLabels, room : rooms, window : Windows]
        /\ l.id \in 1..lastLabel /\ rooms \subseteq RoomNames
    BY DEF IInv, LabelsTypeOK, Shapes
  <2> QED BY <2>1 DEF LabelRecords
<1>10. ReqOK(s)'
  <2>1. r.label \in LabelRecords' /\ r.reapply \subseteq LabelRecords'
    BY <1>2, <1>3, <1>7, <1>8, <1>9 DEF LabelRecords
  <2>2. SameIdSame(labels) /\ SameIdSame(r.reapply)
    BY <1>8 DEF IInv, Shapes, SameIdSame
  <2>3. \A k \in r.reapply : \A m \in labels' : m.id = k.id => m.window = k.window
    BY <1>2, <1>8, <2>2 DEF SameIdSame
  <2>4. r.window \in Windows \union {{}}
    BY <1>3 DEF IInv, LabelsTypeOK
  <2> QED BY <1>2, <1>3, <1>6, <1>7, <2>1, <2>2, <2>3, <2>4 DEF ReqOK, FollowUp
<1>11. \A m \in labels' : WasThere(m)
  BY <1>2 DEF WasThere
<1>12. Shapes'
  BY <1>2, <1>4, <1>10, <1>11, ShapesStep DEF IInv, Shapes, SameIdSame
<1>13. ReappliesSurvivors'
  <2> SUFFICES ASSUME NEW o \in Sessions, req'[o].op = "clearing", NEW l \in labels,
                      NEW t \in (l.window \intersect req'[o].window) \ skipped,
                      l.id # req'[o].label.id, ~BackfillPending(l)'
               PROVE  \E k \in req'[o].reapply : k.id = l.id
    BY <1>2 DEF ReappliesSurvivors
  <2>1. CASE o = s
    BY <1>3, <1>6, <1>7, <2>1 DEF Overlapping
  <2>2. CASE o # s
    <3>1. ~BackfillPending(l)
      BY <1>2, <1>4, PendingStays
    <3> QED BY <1>4, <2>2, <3>1 DEF Sets, IInv, ReappliesSurvivors
  <2> QED BY <2>1, <2>2
<1>14. SurvivorsStayLabelled'
  BY <1>2, <1>4, <1>11, LabelledStep DEF IInv
<1>15. \A t : ~Promises(s, t) /\ ~Threatens(s, t)'
  BY <1>2, <1>3, <1>6 DEF Promises, Threatens
<1>16. TrainingIsOwed'
  BY <1>2, <1>4, <1>15, OwedStep DEF IInv
<1>17. AloneIsInTune' /\ SequentialIsExact'
  <2>1. ASSUME NEW t \in Times \ (skipped' \union contended'), csi'[t] # Gone,
               t \in req[s].window
        PROVE  InTune(s, t)'
    <3>1. InTune(s, t)
      BY <1>2, <1>4, <2>1 DEF IInv, AloneIsInTune
    <3>2. csi[t] \in RoomsAt(labels, t) /\ training[t] = csi[t]
      BY <1>2, <3>1 DEF InTune
    <3>3. {m \in r.reapply : t \in m.window}
            = {l \in labels : l.id # r.label.id /\ t \in l.window}
      BY <1>3, <1>7, <2>1 DEF Overlapping
    <3> QED BY <1>2, <1>3, <1>6, <3>2, <3>3 DEF InTune, RoomsAt
  <2>2. \A t : Untouched(t)
    BY <1>2 DEF Untouched
  <2> QED BY <1>2, <1>3, <1>4, <2>1, <2>2, TuneStep DEF IInv
<1> QED BY <1>4, <1>5, <1>12, <1>13, <1>14, <1>16, <1>17 DEF IInv

LEMMA LeastNat ==
  ASSUME NEW S, S \subseteq Nat, S # {}
  PROVE  \E n \in S : \A m \in S : n <= m
<1>1. PICK n \in S : \A m \in S : <<m, n>> \notin OpToRel(<, Nat)
  BY NatLessThanWellFounded, WFMin, Zenon
<1>2. ASSUME NEW m \in S PROVE n <= m
  <2>1. <<m, n>> \in Nat \X Nat /\ m \in Nat /\ n \in Nat
    OBVIOUS
  <2>2. ~(m < n)
    BY <1>1, <2>1 DEF OpToRel
  <2> QED BY <2>1, <2>2
<1> QED BY <1>2

LEMMA GreatestUpTo ==
  ASSUME NEW b \in Nat, NEW S, S \subseteq 1..b, S # {}
  PROVE  \E n \in S : \A m \in S : m <= n
<1> DEFINE Room == {k \in Nat : b - k \in S}
<1>1. \A n \in S : n \in Nat /\ b - n \in Nat /\ b - (b - n) = n
  OBVIOUS
<1>2. Room \subseteq Nat /\ Room # {}
  BY <1>1
<1>3. \A n \in S : b - n \in Room
  BY <1>1
<1>4. \A k \in Room : k \in Nat /\ b - k \in S
  OBVIOUS
<1> HIDE DEF Room
<1>5. PICK k \in Room : \A j \in Room : k <= j
  BY <1>2, LeastNat
<1>6. ASSUME NEW m \in S PROVE m <= b - k
  <2>1. k <= b - m
    BY <1>3, <1>5
  <2> QED BY <1>1, <1>4, <2>1
<1> QED BY <1>4, <1>6

\* Some label of several is applied last.
LEMMA OneIsLast ==
  ASSUME NEW ls, ls \subseteq LabelRecords, SameIdSame(ls), ls # {}, lastLabel \in Nat
  PROVE  LastApplied(ls) \in ls
<1> DEFINE Start(k) == CHOOSE t \in k.window : \A u \in k.window : t <= u
<1>1. \A k \in ls : Start(k) \in 1..LastTime /\ k.id \in 1..lastLabel
  <2> SUFFICES ASSUME NEW k \in ls PROVE Start(k) \in 1..LastTime /\ k.id \in 1..lastLabel
    OBVIOUS
  <2>1. k.window \subseteq 1..LastTime /\ k.window # {} /\ k.id \in 1..lastLabel
    BY WindowFacts DEF LabelRecords, Times
  <2>2. \E t \in k.window : \A u \in k.window : t <= u
    BY <2>1, LeastNat
  <2>3. Start(k) \in k.window
    BY <2>2
  <2> QED BY <2>1, <2>3
<1>2. \A k, m \in ls : Start(k) < Start(m) \/ (Start(k) = Start(m) /\ k.id < m.id)
                         => Before(k, m)
  BY DEF Before
<1> HIDE DEF Start
<1>3. PICK a \in ls : \A m \in ls : Start(m) <= Start(a)
  <2> DEFINE S == {Start(m) : m \in ls}
  <2>1. S \subseteq 1..LastTime /\ S # {} /\ LastTime \in Nat
    BY <1>1, LabelsAssumption
  <2>2. PICK n \in S : \A m \in S : m <= n
    <3> HIDE DEF S
    <3> QED BY <2>1, GreatestUpTo
  <2> QED BY <2>2
<1> DEFINE Latest == {m \in ls : Start(m) = Start(a)}
<1>4. PICK z \in Latest : \A m \in Latest : m.id <= z.id
  <2> DEFINE S == {m.id : m \in Latest}
  <2>1. S \subseteq 1..lastLabel /\ S # {}
    BY <1>1
  <2>2. PICK n \in S : \A m \in S : m <= n
    <3> HIDE DEF S
    <3> QED BY <2>1, GreatestUpTo
  <2> QED BY <2>2
<1>5. ASSUME NEW m \in ls \ {z} PROVE Before(m, z)
  <2>1. /\ Start(m) \in Nat /\ Start(z) \in Nat /\ m.id \in Nat /\ z.id \in Nat
        /\ m.id # z.id /\ Start(m) <= Start(a) /\ Start(z) = Start(a)
    BY <1>1, <1>3, LabelsAssumption DEF SameIdSame
  <2>2. CASE Start(m) = Start(a)
    BY <1>2, <1>4, <2>1, <2>2
  <2>3. CASE Start(m) # Start(a)
    BY <1>2, <2>1, <2>3
  <2> QED BY <2>2, <2>3
<1>6. z \in ls /\ \A m \in ls \ {z} : Before(m, z)
  BY <1>5
<1> QED BY <1>6 DEF LastApplied

LEMMA DeleteCommitStep ==
  ASSUME IInv, NEW s \in Sessions, DeleteCommit(s)
  PROVE  IInv'
<1> DEFINE r == [op |-> "resync", window |-> req[s].window]
           over(t) == {m \in req[s].reapply : t \in m.window}
<1>1. /\ Continue(s, r) /\ UNCHANGED <<rooms, lastLabel, training, skipped>>
      /\ req[s].op = "clearing"
      /\ csi' = [t \in Times |->
                   IF t \notin req[s].window \/ csi[t] = Gone THEN csi[t]
                   ELSE IF over(t) = {} THEN NoRoom ELSE LastApplied(over(t)).room]
      /\ labels' = {l \in labels : l.id # req[s].label.id}
  BY DEF DeleteCommit
<1>2. r.op = "resync" /\ r.window = req[s].window
  OBVIOUS
<1> HIDE DEF r
<1>3. /\ Sets(s, r) /\ AloneUnlessContended'
      /\ contended' = contended /\ contended' \subseteq Times
      /\ req[s].window \subseteq Times
      /\ \A o \in Sessions : req'[o].window \in Windows \union {{}}
  BY <1>1, <1>2, ContinueStep
<1>4. /\ \A l \in labels : l.id = req[s].label.id => l.window = req[s].window
      /\ req[s].reapply \subseteq LabelRecords /\ SameIdSame(req[s].reapply)
      /\ \A m \in req[s].reapply : \A l \in labels : l.id = m.id => l.window = m.window
  BY <1>1 DEF IInv, Shapes, ReqOK
<1>5. \A t \in Times : over(t) # {} =>
        LastApplied(over(t)) \in over(t) /\ LastApplied(over(t)).room \in RoomNames
  <2> SUFFICES ASSUME NEW t \in Times, over(t) # {}
               PROVE  LastApplied(over(t)) \in over(t) /\ LastApplied(over(t)).room \in RoomNames
    OBVIOUS
  <2>1. over(t) \subseteq LabelRecords /\ SameIdSame(over(t)) /\ lastLabel \in Nat
    BY <1>4 DEF SameIdSame, IInv, Shapes
  <2>2. LastApplied(over(t)) \in over(t)
    <3> HIDE DEF over
    <3> QED BY <2>1, OneIsLast
  <2>3. LastApplied(over(t)) \in LabelRecords
    BY <2>1, <2>2
  <2> QED BY <2>2, <2>3 DEF LabelRecords
<1>6. \A t : over(t) = {m \in req[s].reapply : t \in m.window}
  OBVIOUS
<1> HIDE DEF over
<1>7. /\ csi' \in [Times -> RoomNames \union {NoRoom, Gone}]
      /\ \A t \in Times : csi'[t] =
           IF t \notin req[s].window \/ csi[t] = Gone THEN csi[t]
           ELSE IF over(t) = {} THEN NoRoom ELSE LastApplied(over(t)).room
  BY <1>1, <1>5 DEF IInv, LabelsTypeOK
<1>8. LabelsTypeOK'
  BY <1>1, <1>3, <1>7 DEF IInv, LabelsTypeOK
<1>9. req'[s] = r
  BY <1>3 DEF Sets
<1>10. ReqOK(s)'
  BY <1>2, <1>3, <1>9 DEF ReqOK, FollowUp
<1>11. \A m \in labels' : WasThere(m)
  BY <1>1 DEF WasThere
<1>12. SameIdSame(labels')
  BY <1>1 DEF IInv, Shapes, SameIdSame
<1>13. Shapes'
  BY <1>1, <1>3, <1>10, <1>11, <1>12, ShapesStep DEF IInv
<1>14. ReappliesSurvivors'
  BY <1>1, <1>2, <1>3, <1>11, ReapplyStep DEF IInv
<1>15. RoomNames \intersect {NoRoom, Gone} = {} /\ NoRoom # Gone
  BY LabelsAssumption
<1>16. SurvivorsStayLabelled'
  <2> SUFFICES ASSUME NEW l \in labels', NEW t \in l.window \ skipped', csi'[t] # Gone,
                      ~BackfillPending(l)'
               PROVE  csi'[t] # NoRoom
    BY DEF SurvivorsStayLabelled
  <2>1. l \in labels /\ l.id # req[s].label.id /\ t \in Times
    BY <1>1, WindowFacts DEF IInv, LabelsTypeOK
  <2>2. ~BackfillPending(l)
    BY <1>1, <1>3, PendingStays
  <2>3. CASE t \notin req[s].window
    BY <1>1, <1>7, <2>1, <2>2, <2>3 DEF IInv, SurvivorsStayLabelled
  <2>4. CASE t \in req[s].window
    <3>1. PICK m \in req[s].reapply : m.id = l.id
      BY <1>1, <2>1, <2>2, <2>4 DEF IInv, ReappliesSurvivors
    <3>2. m \in over(t)
      BY <1>4, <1>6, <2>1, <3>1
    <3>3. csi'[t] = csi[t] \/ csi'[t] \in RoomNames
      BY <1>5, <1>7, <2>1, <3>2
    <3>4. csi'[t] = Gone \/ csi'[t] \in RoomNames
      BY <1>5, <1>7, <2>1, <2>4, <3>2
    <3> QED BY <1>15, <3>4
  <2> QED BY <2>3, <2>4
<1>17. TrainingIsOwed'
  <2>1. \A t : ~Promises(s, t) /\ ~Threatens(s, t)'
    BY <1>1, <1>2, <1>9 DEF Promises, Threatens
  <2>2. \A t \in req[s].window : Promises(s, t)'
    BY <1>2, <1>9 DEF Promises
  <2>3. \A t \in Times \ req[s].window : csi'[t] = csi[t]
    BY <1>7
  <2> QED BY <1>1, <1>3, <2>1, <2>2, <2>3, OwedStep DEF IInv
<1>18. AloneIsInTune' /\ SequentialIsExact'
  <2>1. ASSUME NEW t \in Times \ (skipped' \union contended'), csi'[t] # Gone,
               t \in req[s].window
        PROVE  csi[t] # Gone /\ InTune(s, t)'
    <3>1. /\ csi[t] # Gone
          /\ csi'[t] = IF over(t) = {} THEN NoRoom ELSE LastApplied(over(t)).room
      BY <1>7, <2>1
    <3>2. InTune(s, t)
      BY <1>1, <1>3, <2>1, <3>1 DEF IInv, AloneIsInTune
    <3>3. over(t) = {l \in labels' : t \in l.window}
      BY <1>1, <1>6, <3>2 DEF InTune
    <3>4. csi'[t] \in RoomsAt(labels', t)
      BY <1>5, <2>1, <3>1, <3>3 DEF RoomsAt
    <3> QED BY <1>2, <1>9, <3>1, <3>4 DEF InTune
  <2>2. ASSUME NEW t \in Times, t \notin req[s].window PROVE csi'[t] = csi[t] /\ Untouched(t)
    BY <1>1, <1>4, <1>7, <2>2 DEF Untouched
  <2> QED BY <1>1, <1>2, <1>3, <2>1, <2>2, TuneStep DEF IInv
<1> QED BY <1>3, <1>8, <1>13, <1>14, <1>16, <1>17, <1>18 DEF IInv

-------------------------------------------------------------------------------
(* The theorems.                                                           *)

LEMMA LabelsStart == LabelsInit => IInv
<1> SUFFICES ASSUME LabelsInit PROVE IInv
  OBVIOUS
<1>1. /\ rooms = RoomNames /\ labels = {} /\ lastLabel = 0
      /\ \A t \in Times : csi[t] = NoRoom /\ training[t] = NoRoom
      /\ csi \in [Times -> RoomNames \union {NoRoom, Gone}]
      /\ training \in [Times -> RoomNames \union {NoRoom}]
      /\ \A s \in Sessions : req[s].op = "idle" /\ req[s].window = {}
      /\ req = [s \in Sessions |-> req[s]]
      /\ skipped = {} /\ contended = {}
  BY DEF LabelsInit, Idle
<1>2. LabelsTypeOK
  BY <1>1 DEF LabelsTypeOK
<1>3. Shapes
  BY <1>1 DEF Shapes, ReqOK, FollowUp, SameIdSame
<1>4. ReappliesSurvivors /\ SurvivorsStayLabelled /\ AloneUnlessContended /\ AloneIsInTune
  BY <1>1 DEF ReappliesSurvivors, SurvivorsStayLabelled, AloneUnlessContended, AloneIsInTune
<1>5. TrainingIsOwed
  BY <1>1, LabelsAssumption DEF TrainingIsOwed
<1>6. SequentialIsExact
  BY <1>1 DEF SequentialIsExact
<1> QED BY <1>2, <1>3, <1>4, <1>5, <1>6 DEF IInv

LEMMA LabelsStep == IInv /\ [LabelsNext]_labelVars => IInv'
<1> SUFFICES ASSUME IInv, [LabelsNext]_labelVars PROVE IInv'
  OBVIOUS
<1>1. \A l \in labels : l.room \in rooms
  BY DEF IInv, LabelsTypeOK
<1>2. rooms \subseteq RoomNames
  BY DEF IInv, LabelsTypeOK
<1>3. ASSUME NEW n \in RoomNames, CreateRoom(n) PROVE IInv'
  BY <1>1, <1>2, <1>3, RoomsStep DEF CreateRoom
<1>4. ASSUME NEW n \in RoomNames, DeleteRoom(n) PROVE IInv'
  BY <1>1, <1>2, <1>4, RoomsStep DEF DeleteRoom
<1>5. ASSUME NEW s \in Sessions, NEW old \in RoomNames, NEW new \in RoomNames,
             RenameFlush(s, old, new)
      PROVE  IInv'
  BY <1>5, RenameFlushStep
<1>6. ASSUME NEW s \in Sessions, NEW n \in RoomNames, NEW w \in Windows, CreateLabel(s, n, w)
      PROVE  IInv'
  BY <1>6, CreateLabelStep
<1>7. ASSUME NEW s \in Sessions, NEW l \in labels, DeleteRead(s, l) PROVE IInv'
  BY <1>7, DeleteReadStep
<1>8. ASSUME NEW s \in Sessions, SessionStep(s) PROVE IInv'
  BY <1>8, RenameCommitStep, BackfillStep, TrainingReadStep, TrainingWriteStep,
     DeleteClearStep, DeleteCommitStep DEF SessionStep
<1>9. ASSUME NEW s \in Sessions, Abort(s) PROVE IInv'
  BY <1>9, AbortStep
<1>10. ASSUME NEW t \in Times, Expire(t) PROVE IInv'
  BY <1>10, ExpireStep
<1>11. CASE UNCHANGED labelVars
  <2>1. UNCHANGED <<rooms, labels, lastLabel, csi, training, req, skipped, contended>>
    BY <1>11 DEF labelVars
  <2> QED BY <1>1, <1>2, <2>1, RoomsStep
<1> QED BY <1>3, <1>4, <1>5, <1>6, <1>7, <1>8, <1>9, <1>10, <1>11 DEF LabelsNext

\* The inductive invariant holds in every state.
THEOREM LabelsInvariant == LabelsSpec => []IInv
BY LabelsStart, LabelsStep, PTL DEF LabelsSpec

\* The tables and the requests are of their types, and a label always names a
\* room.
THEOREM LabelsTypes == LabelsSpec => []LabelsTypeOK
<1>1. IInv => LabelsTypeOK
  BY DEF IInv
<1> QED BY <1>1, LabelsInvariant, PTL

\* Deleting one label does not erase another from csi_samples, whatever
\* requests run at once (labels.py:250-251).
THEOREM LabelsSurvive == LabelsSpec => []SurvivorsStayLabelled
<1>1. IInv => SurvivorsStayLabelled
  BY DEF IInv
<1> QED BY <1>1, LabelsInvariant, PTL

\* Nor from training_samples, once the requests at work on the sample are done.
THEOREM LabelsSurviveTrained == LabelsSpec => []SurvivorsStayTrained
<1>1. ASSUME IInv PROVE SurvivorsStayTrained
  <2> SUFFICES ASSUME NEW l \in labels, NEW t \in l.window \ skipped, csi[t] # Gone,
                      Settled(t)
               PROVE  training[t] # NoRoom
    BY DEF SurvivorsStayTrained
  <2>1. t \in Times
    BY <1>1, WindowFacts DEF IInv, LabelsTypeOK
  <2>2. ~BackfillPending(l)
    BY <1>1 DEF BackfillPending, Settled, IInv, Shapes, ReqOK
  <2>3. csi[t] \in RoomNames
    BY <1>1, <2>1, <2>2 DEF IInv, SurvivorsStayLabelled, LabelsTypeOK
  <2>4. \A s \in Sessions : ~Promises(s, t)
    BY <1>1 DEF Settled, Promises, IInv, Shapes, ReqOK
  <2> QED BY <1>1, <2>1, <2>3, <2>4 DEF IInv, TrainingIsOwed
<1> QED BY <1>1, LabelsInvariant, PTL

\* Where no two requests met, and none was given up, the samples, the labels
\* and the training rows agree.
THEOREM LabelsSequential == LabelsSpec => []SequentialIsExact
<1>1. IInv => SequentialIsExact
  BY DEF IInv
<1> QED BY <1>1, LabelsInvariant, PTL
==============================================================================
