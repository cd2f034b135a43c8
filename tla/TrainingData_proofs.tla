-------------------------- MODULE TrainingData_proofs --------------------------
(***************************************************************************)
(* Proofs, for any rows, pages and windows and whatever is relabelled      *)
(* between two pages: a job receives its rows in order and none twice,     *)
(* every row nobody relabels arrives with its label, and every window is a *)
(* run of rows of one receiver under one label.                            *)
(***************************************************************************)
EXTENDS TrainingData, FiniteSetTheorems, SequenceTheorems, WellFoundedInduction, TLAPS

Exported == [of : Rows, label : RoomNames]

DataTypeOK ==
  /\ csi \in [Rows -> RoomNames \union {NoRoom}]
  /\ training \in [Rows -> RoomNames \union {NoRoom}]
  /\ readable \in BOOLEAN /\ writes \in 0..MaxWrites
  /\ job \in {"idle", "paging", "last", "trained", "failed"}
  /\ cursor \in Rows \union {Start}
  /\ page \in Seq(Exported) /\ emitted \in Seq(Exported)
  /\ buffers \in [Receivers -> Seq(Exported)]
  /\ windows \in Seq(Seq(Exported))
  /\ steady \subseteq Rows

\* Whichever table a page is read from, a steady row has its label there.
SteadyAgree == \A row \in steady : training[row] = csi[row]

\* The cursor is the last row received; before the first page there is none.
CursorIsLast ==
  job = "paging" =>
    IF cursor = Start THEN emitted = <<>>
    ELSE emitted # <<>> /\ emitted[Len(emitted)].of = cursor

\* The page is the end of what was received; the windowing took the rest.
TakenCount == Len(emitted) - Len(page)

PageIsRest ==
  /\ Len(page) <= Len(emitted)
  /\ \A k \in 1..Len(page) : page[k] = emitted[TakenCount + k]

TakenRows == {emitted[q] : q \in 1..TakenCount}

\* The last rows of receiver r that were taken, under one label and one after
\* the other.
IsRun(buffer, r) ==
  /\ \A k \in 1..Len(buffer) :
       /\ buffer[k] \in TakenRows
       /\ buffer[k].of[2] = r /\ buffer[k].label = buffer[1].label
  /\ \A k \in 2..Len(buffer) : Adjacent(buffer[k - 1], buffer[k])
  /\ buffer # <<>> => \A row \in TakenRows :
       row.of[2] = r => ~Precedes(buffer[Len(buffer)].of, row.of)

BuffersAreRuns ==
  \A r \in Receivers : Len(buffers[r]) < WindowSize /\ IsRun(buffers[r], r)

\* Rows in windows are taken, and in no partial window.
WindowsAreTaken ==
  \A i \in DOMAIN windows :
    /\ ToSet(windows[i]) \subseteq TakenRows
    /\ \A r \in Receivers : ToSet(windows[i]) \intersect ToSet(buffers[r]) = {}

\* The inductive invariant.
DInv ==
  /\ DataTypeOK
  /\ SteadyAgree
  /\ CursorIsLast
  /\ ExportInOrder
  /\ SteadyRowsExported
  /\ PageIsRest
  /\ BuffersAreRuns
  /\ WindowsAreTaken
  /\ WindowsAreRuns

-------------------------------------------------------------------------------
(* The order of the rows.                                                  *)

LEMMA PrecedesIsOrder ==
  /\ \A a \in Rows : ~Precedes(a, a)
  /\ \A a, b \in Rows : a = b \/ Precedes(a, b) \/ Precedes(b, a)
  /\ \A a, b \in Rows : ~(Precedes(a, b) /\ Precedes(b, a))
  /\ \A a, b, c \in Rows : Precedes(a, b) /\ Precedes(b, c) => Precedes(a, c)
<1>1. \A a \in Rows : a[1] \in Nat /\ a[2] \in Nat /\ a = <<a[1], a[2]>>
  <2> SUFFICES ASSUME NEW a \in Rows PROVE a[1] \in Nat /\ a[2] \in Nat /\ a = <<a[1], a[2]>>
    OBVIOUS
  <2>1. PICK t \in Times, r \in Receivers : a = <<t, r>>
    BY DEF Rows
  <2>2. t \in Nat /\ r \in Nat
    BY TrainingDataAssumption
  <2> QED BY <2>1, <2>2
<1>2. \A a \in Rows : ~Precedes(a, a)
  BY <1>1 DEF Precedes
<1>3. ASSUME NEW a \in Rows, NEW b \in Rows PROVE a = b \/ Precedes(a, b) \/ Precedes(b, a)
  <2>1. a[1] \in Nat /\ a[2] \in Nat /\ b[1] \in Nat /\ b[2] \in Nat
    BY <1>1
  <2>2. a[1] = b[1] /\ a[2] = b[2] => a = b
    BY <1>1
  <2> QED BY <2>1, <2>2 DEF Precedes
<1>4. ASSUME NEW a \in Rows, NEW b \in Rows PROVE ~(Precedes(a, b) /\ Precedes(b, a))
  <2>1. a[1] \in Nat /\ a[2] \in Nat /\ b[1] \in Nat /\ b[2] \in Nat
    BY <1>1
  <2> QED BY <2>1 DEF Precedes
<1>5. ASSUME NEW a \in Rows, NEW b \in Rows, NEW c \in Rows, Precedes(a, b), Precedes(b, c)
      PROVE  Precedes(a, c)
  <2>1. /\ a[1] \in Nat /\ a[2] \in Nat /\ b[1] \in Nat /\ b[2] \in Nat
        /\ c[1] \in Nat /\ c[2] \in Nat
    BY <1>1
  <2> QED BY <1>5, <2>1 DEF Precedes
<1> QED BY <1>2, <1>3, <1>4, <1>5

LEMMA LeastNat ==
  ASSUME NEW S, S \subseteq Nat, S # {}
  PROVE  \E n \in S : \A m \in S : n <= m
<1>1. PICK n \in S : \A m \in S : <<m, n>> \notin OpToRel(<, Nat)
  BY NatLessThanWellFounded, WFMin, Zenon
<1>2. ASSUME NEW m \in S PROVE n <= m
  <2>1. <<m, n>> \in Nat \X Nat /\ m \in Nat /\ n \in Nat
    OBVIOUS
  <2>2. ~(m < n)
    BY <1>1, <2>1 DEF OpToRel
  <2> QED BY <2>1, <2>2
<1> QED BY <1>2

LEMMA LeastRow ==
  ASSUME NEW S, S \subseteq Rows, S # {}
  PROVE  \E a \in S : \A b \in S : ~Precedes(b, a)
<1>1. \A a \in S : a[1] \in Nat /\ a[2] \in Nat
  BY TrainingDataAssumption DEF Rows
<1>2. PICK x \in S : \A b \in S : x[1] <= b[1]
  <2> DEFINE T == {a[1] : a \in S}
  <2>1. T \subseteq Nat /\ T # {}
    BY <1>1
  <2>2. PICK n \in T : \A m \in T : n <= m
    <3> HIDE DEF T
    <3> QED BY <2>1, LeastNat
  <2> QED BY <2>2
<1> DEFINE First == {a \in S : a[1] = x[1]}
<1>3. PICK y \in First : \A b \in First : y[2] <= b[2]
  <2> DEFINE T == {a[2] : a \in First}
  <2>1. T \subseteq Nat /\ T # {}
    BY <1>1
  <2>2. PICK n \in T : \A m \in T : n <= m
    <3> HIDE DEF T
    <3> QED BY <2>1, LeastNat
  <2> QED BY <2>2
<1>4. ASSUME NEW b \in S PROVE ~Precedes(b, y)
  <2>1. b[1] \in Nat /\ b[2] \in Nat /\ y[1] \in Nat /\ y[2] \in Nat /\ y[1] = x[1]
    BY <1>1
  <2>2. y[1] <= b[1] /\ (b[1] = x[1] => y[2] <= b[2])
    BY <1>2, <1>3
  <2> QED BY <2>1, <2>2 DEF Precedes
<1> QED BY <1>4

Below(S, a) == {q \in S : Precedes(q, a)}

LEMMA RankType ==
  ASSUME NEW S, IsFiniteSet(S), NEW a
  PROVE  IsFiniteSet(Below(S, a)) /\ Cardinality(Below(S, a)) \in Nat
<1>1. Below(S, a) \subseteq S
  BY DEF Below
<1> QED BY <1>1, FS_Subset, FS_CardinalityType

LEMMA RankStep ==
  ASSUME NEW S, S \subseteq Rows, IsFiniteSet(S), NEW a \in S
  PROVE  /\ IsFiniteSet(Below(S, a) \union {a})
         /\ Cardinality(Below(S, a) \union {a}) = Cardinality(Below(S, a)) + 1
<1>1. a \notin Below(S, a)
  BY PrecedesIsOrder DEF Below
<1> QED BY <1>1, RankType, FS_AddElement

LEMMA RankGrows ==
  ASSUME NEW S, S \subseteq Rows, IsFiniteSet(S), NEW a \in S, NEW b \in S, Precedes(a, b)
  PROVE  Cardinality(Below(S, a)) < Cardinality(Below(S, b))
<1>1. Below(S, a) \union {a} \subseteq Below(S, b)
  BY PrecedesIsOrder DEF Below
<1>2. Cardinality(Below(S, a) \union {a}) <= Cardinality(Below(S, b))
  BY <1>1, RankType, FS_Subset
<1> QED BY <1>2, RankStep, RankType

\* Every number of rows is before some row: there is no first exception.
LEMMA RankTaken ==
  ASSUME NEW S, S \subseteq Rows, IsFiniteSet(S), NEW i \in 1..Cardinality(S)
  PROVE  \E a \in S : Cardinality(Below(S, a)) = i - 1
<1> DEFINE Bad == {k \in 1..Cardinality(S) : \A a \in S : Cardinality(Below(S, a)) # k - 1}
<1> SUFFICES ASSUME Bad # {} PROVE FALSE
  OBVIOUS
<1>1. Cardinality(S) \in Nat
  BY FS_CardinalityType
<1>2. PICK k \in Bad : \A m \in Bad : k <= m
  <2>1. Bad \subseteq Nat
    BY <1>1
  <2> HIDE DEF Bad
  <2> QED BY <2>1, LeastNat
<1>3. k \in Nat /\ 1 <= k /\ k <= Cardinality(S)
  BY <1>1
<1>4. CASE k = 1
  <2>1. S # {}
    BY <1>3, FS_EmptySet
  <2>2. PICK a \in S : \A b \in S : ~Precedes(b, a)
    BY <2>1, LeastRow
  <2>3. Below(S, a) = {}
    BY <2>2 DEF Below
  <2>4. Cardinality(Below(S, a)) = 0
    BY <2>3, FS_EmptySet
  <2> QED BY <1>4, <2>4
<1>5. CASE k # 1
  <2>1. k - 1 \in 1..Cardinality(S) /\ k - 1 \notin Bad
    BY <1>1, <1>2, <1>3, <1>5
  <2>2. PICK a \in S : Cardinality(Below(S, a)) = (k - 1) - 1
    BY <2>1
  <2>3. Cardinality(Below(S, a) \union {a}) = k - 1
    <3>1. Cardinality(Below(S, a) \union {a}) = Cardinality(Below(S, a)) + 1
      BY RankStep
    <3> QED BY <1>3, <2>2, <3>1
  <2> DEFINE Above == {b \in S : Precedes(a, b)}
  <2>4. CASE Above = {}
    <3>1. S = Below(S, a) \union {a}
      BY <2>4, PrecedesIsOrder DEF Below
    <3>2. Cardinality(S) = k - 1
      BY <2>3, <3>1
    <3> QED BY <1>3, <3>2
  <2>5. CASE Above # {}
    <3>1. Above \subseteq Rows
      OBVIOUS
    <3>2. PICK b \in Above : \A c \in Above : ~Precedes(c, b)
      BY <2>5, <3>1, LeastRow
    <3>3. Below(S, b) = Below(S, a) \union {a}
      <4>1. \A c \in S : Precedes(c, b) <=> (Precedes(c, a) \/ c = a)
        BY <3>2, PrecedesIsOrder
      <4> QED BY <4>1 DEF Below
    <3>4. Cardinality(Below(S, b)) = k - 1
      BY <2>3, <3>3
    <3> QED BY <3>4
  <2> QED BY <2>4, <2>5
<1> QED BY <1>4, <1>5

\* ORDER BY time, receiver_id gives the rows in order, and the first ones of
\* them are those that precede the others.
LEMMA InOrderIsSorted ==
  ASSUME NEW S, S \subseteq Rows, IsFiniteSet(S)
  PROVE  LET rows == InOrder(S)
         IN  /\ rows \in Seq(S) /\ Len(rows) = Cardinality(S) /\ Cardinality(S) \in Nat
             /\ \A i, j \in 1..Len(rows) : i < j => Precedes(rows[i], rows[j])
             /\ \A k \in 1..Len(rows) : \A a \in S :
                  ~Precedes(rows[k], a) => \E i \in 1..k : rows[i] = a
             /\ \A a \in S : \E i \in 1..Len(rows) : rows[i] = a
<1> DEFINE n == Cardinality(S)
           rows == InOrder(S)
           Rank(a) == Cardinality(Below(S, a))
<1>1. n \in Nat
  BY FS_CardinalityType
<1>2. \A i \in 1..n : rows[i] \in S /\ Rank(rows[i]) = i - 1
  <2> SUFFICES ASSUME NEW i \in 1..n PROVE rows[i] \in S /\ Rank(rows[i]) = i - 1
    OBVIOUS
  <2>1. \E a \in S : Rank(a) = i - 1
    BY RankTaken
  <2>2. rows[i] = CHOOSE a \in S : Rank(a) = i - 1
    BY DEF InOrder, Below
  <2> HIDE DEF rows, Rank
  <2> QED BY <2>1, <2>2
<1>3. rows \in Seq(S) /\ Len(rows) = n /\ DOMAIN rows = 1..n
  <2>1. rows \in [1..n -> S]
    BY <1>2 DEF InOrder
  <2> HIDE DEF rows, n
  <2> QED BY <1>1, <2>1
<1>4. \A a, b \in S : Precedes(a, b) => Rank(a) < Rank(b)
  BY RankGrows
<1>5. \A a \in S : Rank(a) \in Nat
  BY RankType
<1> HIDE DEF rows, n, Rank
<1>6. \A i, j \in 1..n : i < j => Precedes(rows[i], rows[j])
  <2> SUFFICES ASSUME NEW i \in 1..n, NEW j \in 1..n, i < j PROVE Precedes(rows[i], rows[j])
    OBVIOUS
  <2>1. rows[i] \in S /\ rows[j] \in S /\ Rank(rows[i]) = i - 1 /\ Rank(rows[j]) = j - 1
    BY <1>2
  <2>2. i \in Nat /\ j \in Nat
    BY <1>1
  <2>3. rows[i] # rows[j] /\ ~Precedes(rows[j], rows[i])
    BY <1>4, <2>1, <2>2
  <2> QED BY <2>1, <2>3, PrecedesIsOrder
<1>7. ASSUME NEW a \in S PROVE \E i \in 1..n : rows[i] = a /\ i = Rank(a) + 1
  <2>1. Rank(a) < n
    <3>1. Below(S, a) \union {a} \subseteq S
      BY DEF Below
    <3>2. Cardinality(Below(S, a) \union {a}) <= Cardinality(S)
      BY <3>1, FS_Subset
    <3> QED BY <1>1, <1>5, <3>2, RankStep DEF n, Rank
  <2> DEFINE i == Rank(a) + 1
  <2>2. i \in 1..n /\ i - 1 = Rank(a)
    BY <1>1, <1>5, <2>1
  <2> HIDE DEF i
  <2>3. rows[i] \in S /\ Rank(rows[i]) = Rank(a)
    BY <1>2, <2>2
  <2>4. ~Precedes(rows[i], a) /\ ~Precedes(a, rows[i])
    BY <1>4, <1>5, <2>3
  <2>5. rows[i] = a
    BY <2>3, <2>4, PrecedesIsOrder
  <2> QED BY <2>2, <2>5 DEF i
<1>8. ASSUME NEW k \in 1..n, NEW a \in S, ~Precedes(rows[k], a)
      PROVE  \E i \in 1..k : rows[i] = a
  <2>1. PICK i \in 1..n : rows[i] = a
    BY <1>7
  <2>2. ~(k < i)
    BY <1>6, <1>8, <2>1
  <2>3. i \in 1..k
    BY <1>1, <2>2
  <2> QED BY <2>1, <2>3
<1>9. \A a \in S : \E i \in 1..n : rows[i] = a
  BY <1>7
<1> QED BY <1>1, <1>3, <1>6, <1>8, <1>9 DEF rows, n

-------------------------------------------------------------------------------
(* The steps.                                                              *)

LEMMA RowsFinite == \A S : S \subseteq Rows => IsFiniteSet(S)
BY TrainingDataAssumption, FS_Product, FS_Subset DEF Rows

\* The windowing and what was received.
Stream ==
  ExportInOrder /\ PageIsRest /\ BuffersAreRuns /\ WindowsAreTaken /\ WindowsAreRuns

LEMMA StreamStays ==
  ASSUME Stream, UNCHANGED <<page, buffers, windows, emitted>>
  PROVE  Stream'
<1>1. TakenCount' = TakenCount /\ TakenRows' = TakenRows
  BY DEF TakenCount, TakenRows
<1>2. \A a, b : Adjacent(a, b)' <=> Adjacent(a, b)
  BY DEF Adjacent
<1>3. \A b, r : IsRun(b, r)' <=> IsRun(b, r)
  BY <1>1, <1>2 DEF IsRun
<1>4. ExportInOrder' /\ PageIsRest'
  BY <1>1 DEF Stream, ExportInOrder, PageIsRest
<1>5. BuffersAreRuns' /\ WindowsAreTaken'
  BY <1>1, <1>3 DEF Stream, BuffersAreRuns, WindowsAreTaken
<1>6. WindowsAreRuns'
  BY <1>2 DEF Stream, WindowsAreRuns
<1> QED BY <1>4, <1>5, <1>6 DEF Stream

LEMMA InitDInv == DataInit => DInv
<1> SUFFICES ASSUME DataInit PROVE DInv
  OBVIOUS
<1>1. PICK labelOf \in [Times -> RoomNames \union {NoRoom}] :
        csi = [row \in Rows |-> labelOf[row[1]]]
  BY DEF DataInit
<1>2. csi \in [Rows -> RoomNames \union {NoRoom}]
  <2>1. \A row \in Rows : row[1] \in Times
    BY DEF Rows
  <2> QED BY <1>1, <2>1
<1>3. /\ training = csi /\ readable \in BOOLEAN /\ writes = 0 /\ steady = {}
      /\ job = "idle" /\ cursor = Start /\ page = <<>> /\ emitted = <<>> /\ windows = <<>>
      /\ buffers = [r \in Receivers |-> <<>>]
  BY DEF DataInit
<1>4. \A r \in Receivers : buffers[r] = <<>>
  BY <1>3
<1>5. Len(<<>>) = 0 /\ DOMAIN <<>> = {} /\ WindowSize > 0
  BY TrainingDataAssumption
<1>6. DataTypeOK
  BY <1>2, <1>3, TrainingDataAssumption DEF DataTypeOK
<1>7. SteadyAgree /\ CursorIsLast /\ SteadyRowsExported
  BY <1>3 DEF SteadyAgree, CursorIsLast, SteadyRowsExported
<1>8. ExportInOrder /\ PageIsRest /\ WindowsAreTaken /\ WindowsAreRuns
  BY <1>3, <1>5 DEF ExportInOrder, PageIsRest, WindowsAreTaken, WindowsAreRuns
<1>9. BuffersAreRuns
  BY <1>4, <1>5 DEF BuffersAreRuns, IsRun
<1> QED BY <1>6, <1>7, <1>8, <1>9 DEF DInv

\* A commit of a label request between two steps of the export.
LEMMA WriteStep ==
  ASSUME DInv, Write, csi' \in [Rows -> RoomNames \union {NoRoom}],
         training' \in [Rows -> RoomNames \union {NoRoom}]
  PROVE  DInv'
<1>1. /\ UNCHANGED <<readable, job, cursor, page, buffers, windows, emitted>>
      /\ writes < MaxWrites /\ writes' = writes + 1
      /\ steady' = {row \in steady : csi'[row] = csi[row] /\ training'[row] = training[row]}
  BY DEF Write, export
<1>2. DataTypeOK'
  BY <1>1, TrainingDataAssumption DEF DInv, DataTypeOK
<1>3. SteadyAgree'
  BY <1>1 DEF DInv, SteadyAgree
<1>4. CursorIsLast'
  BY <1>1 DEF DInv, CursorIsLast
<1>5. SteadyRowsExported'
  BY <1>1 DEF DInv, SteadyRowsExported
<1>6. Stream'
  BY <1>1, StreamStays DEF DInv, Stream
<1> QED BY <1>2, <1>3, <1>4, <1>5, <1>6 DEF DInv, Stream

LEMMA LabelSteps ==
  ASSUME DInv,
         \/ \E w \in Intervals, label \in RoomNames \union {NoRoom} : Relabel(w, label)
         \/ \E w \in Intervals : Mirror(w)
         \/ \E old, new \in RoomNames : Rename(old, new)
  PROVE  DInv'
<1>1. csi \in [Rows -> RoomNames \union {NoRoom}] /\ training \in [Rows -> RoomNames \union {NoRoom}]
  BY DEF DInv, DataTypeOK
<1>2. ASSUME NEW w, NEW label \in RoomNames \union {NoRoom}, Relabel(w, label) PROVE DInv'
  BY <1>1, <1>2, WriteStep DEF Relabel
<1>3. ASSUME NEW w, Mirror(w) PROVE DInv'
  BY <1>1, <1>3, WriteStep DEF Mirror
<1>4. ASSUME NEW old \in RoomNames, NEW new \in RoomNames, Rename(old, new) PROVE DInv'
  BY <1>1, <1>4, WriteStep DEF Rename
<1> QED BY <1>2, <1>3, <1>4

\* A grant, a failed page and the fit only change where the job is.
LEMMA QuietStep ==
  ASSUME DInv, Grant \/ PageFails \/ Fit
  PROVE  DInv'
<1>1. /\ UNCHANGED <<csi, training, writes, cursor, page, buffers, windows, emitted, steady>>
      /\ readable' \in BOOLEAN
      /\ job' \in {"idle", "paging", "last", "trained", "failed"}
      /\ job' \in {"paging", "last", "trained"} => job' = job \/ (job = "last" /\ job' = "trained")
  <2>0. job \in {"idle", "paging", "last", "trained", "failed"} /\ readable \in BOOLEAN
    BY DEF DInv, DataTypeOK
  <2>1. CASE Grant
    <3>1. /\ UNCHANGED <<csi, training, writes, steady>> /\ readable' = TRUE
          /\ UNCHANGED <<job, cursor, page, buffers, windows, emitted>>
      BY <2>1 DEF Grant, export
    <3>2. readable' \in BOOLEAN
      BY <3>1
    <3> QED BY <2>0, <3>1, <3>2
  <2>2. CASE PageFails
    BY <2>0, <2>2 DEF PageFails, tables
  <2>3. CASE Fit
    BY <2>0, <2>3 DEF Fit, tables
  <2> QED BY <2>1, <2>2, <2>3
<1>2. DataTypeOK'
  BY <1>1 DEF DInv, DataTypeOK
<1>3. SteadyAgree'
  BY <1>1 DEF DInv, SteadyAgree
<1>4. CursorIsLast'
  BY <1>1 DEF DInv, CursorIsLast
<1>5. SteadyRowsExported'
  BY <1>1 DEF DInv, SteadyRowsExported
<1>6. Stream'
  BY <1>1, StreamStays DEF DInv, Stream
<1> QED BY <1>2, <1>3, <1>4, <1>5, <1>6 DEF DInv, Stream

LEMMA BeginStep ==
  ASSUME DInv, Begin
  PROVE  DInv'
<1>1. /\ UNCHANGED <<csi, training, readable, writes>>
      /\ job' = "paging" /\ cursor' = Start /\ page' = <<>> /\ emitted' = <<>> /\ windows' = <<>>
      /\ buffers' = [r \in Receivers |-> <<>>]
      /\ steady' = {row \in Rows : csi[row] = training[row]}
  BY DEF Begin, tables
<1>2. \A r \in Receivers : buffers'[r] = <<>>
  BY <1>1
<1>3. Len(<<>>) = 0 /\ DOMAIN <<>> = {} /\ WindowSize > 0
  BY TrainingDataAssumption
<1>4. DataTypeOK'
  BY <1>1 DEF DInv, DataTypeOK
<1>5. SteadyAgree' /\ CursorIsLast' /\ SteadyRowsExported'
  BY <1>1 DEF SteadyAgree, CursorIsLast, SteadyRowsExported
<1>6. ExportInOrder' /\ PageIsRest' /\ WindowsAreTaken' /\ WindowsAreRuns'
  BY <1>1, <1>3 DEF ExportInOrder, PageIsRest, WindowsAreTaken, WindowsAreRuns
<1>7. BuffersAreRuns'
  BY <1>2, <1>3 DEF BuffersAreRuns, IsRun
<1> QED BY <1>4, <1>5, <1>6, <1>7 DEF DInv

LEMMA StreamTypes ==
  ASSUME DInv
  PROVE  /\ Len(emitted) \in Nat /\ Len(page) \in Nat /\ TakenCount \in Nat
         /\ Len(page) <= Len(emitted) /\ TakenCount <= Len(emitted)
         /\ TakenCount + Len(page) = Len(emitted)
         /\ DOMAIN emitted = 1..Len(emitted)
         /\ \A i \in 1..Len(emitted) : emitted[i] \in Exported /\ emitted[i].of \in Rows
         /\ TakenRows \subseteq ToSet(emitted) /\ ToSet(emitted) \subseteq Exported
<1>1. /\ emitted \in Seq(Exported) /\ page \in Seq(Exported) /\ Len(page) <= Len(emitted)
  BY DEF DInv, DataTypeOK, PageIsRest
<1>2. /\ Len(emitted) \in Nat /\ Len(page) \in Nat /\ DOMAIN emitted = 1..Len(emitted)
      /\ \A i \in 1..Len(emitted) : emitted[i] \in Exported
  BY <1>1
<1>3. /\ TakenCount \in Nat /\ TakenCount <= Len(emitted)
      /\ TakenCount + Len(page) = Len(emitted)
  BY <1>1, <1>2 DEF TakenCount
<1>4. \A e \in Exported : e.of \in Rows
  BY DEF Exported
<1>5. TakenRows \subseteq ToSet(emitted)
  BY <1>2, <1>3 DEF TakenRows, ToSet
<1>6. ToSet(emitted) \subseteq Exported
  BY <1>2 DEF ToSet
<1> QED BY <1>1, <1>2, <1>3, <1>4, <1>5, <1>6

\* A page comes behind all that was received before, and is not taken yet.
LEMMA ArrivalStep ==
  ASSUME DInv, page = <<>>, NEW p \in Seq(Exported),
         page' = p, emitted' = emitted \o p, UNCHANGED <<buffers, windows>>,
         \A i, j \in 1..Len(p) : i < j => Precedes(p[i].of, p[j].of),
         \A i \in 1..Len(emitted), j \in 1..Len(p) : Precedes(emitted[i].of, p[j].of)
  PROVE  /\ Stream'
         /\ ToSet(emitted') = ToSet(emitted) \union ToSet(p)
         /\ p # <<>> => emitted' # <<>> /\ emitted'[Len(emitted')] = p[Len(p)]
<1> DEFINE m == Len(emitted)
           n == Len(p)
<1>1. /\ m \in Nat /\ n \in Nat /\ emitted \in Seq(Exported) /\ Len(<<>>) = 0
      /\ emitted \o p \in Seq(Exported) /\ Len(emitted \o p) = m + n
      /\ \A i \in 1..m : (emitted \o p)[i] = emitted[i]
      /\ \A j \in 1..n : (emitted \o p)[m + j] = p[j]
      /\ DOMAIN emitted = 1..m /\ DOMAIN p = 1..n
      /\ \A i \in 1..m : emitted[i] \in Exported
      /\ \A j \in 1..n : p[j] \in Exported
  BY DEF DInv, DataTypeOK
<1>2. /\ emitted' \in Seq(Exported) /\ Len(emitted') = m + n /\ DOMAIN emitted' = 1..(m + n)
      /\ \A i \in 1..m : emitted'[i] = emitted[i]
      /\ \A j \in 1..n : emitted'[m + j] = p[j]
  BY <1>1
<1>3. /\ Len(page') = n /\ TakenCount = m
  BY <1>1 DEF TakenCount
<1>4. TakenCount' = m
  BY <1>1, <1>2, <1>3 DEF TakenCount
<1> HIDE DEF m, n
<1>5. TakenRows' = TakenRows
  BY <1>1, <1>2, <1>3, <1>4 DEF TakenRows
<1>6. \A i \in 1..(m + n) : i \in 1..m \/ (i - m \in 1..n /\ i = m + (i - m))
  BY <1>1
<1>7. ToSet(emitted') = ToSet(emitted) \union ToSet(p)
  <2>1. \A x : x \in ToSet(emitted') => x \in ToSet(emitted) \union ToSet(p)
    BY <1>1, <1>2, <1>6 DEF ToSet
  <2>2. \A i \in 1..m : i \in 1..(m + n)
    BY <1>1
  <2>3. \A j \in 1..n : m + j \in 1..(m + n)
    BY <1>1
  <2>4. ASSUME NEW x \in ToSet(emitted) PROVE x \in ToSet(emitted')
    <3>1. PICK i \in 1..m : x = emitted[i]
      BY <1>1, <2>4 DEF ToSet
    <3> QED BY <1>2, <2>2, <3>1 DEF ToSet
  <2>5. ASSUME NEW x \in ToSet(p) PROVE x \in ToSet(emitted')
    <3>1. PICK j \in 1..n : x = p[j]
      BY <1>1, <2>5 DEF ToSet
    <3> QED BY <1>2, <2>3, <3>1 DEF ToSet
  <2> QED BY <2>1, <2>4, <2>5
<1>8. ExportInOrder'
  <2> SUFFICES ASSUME NEW i \in 1..(m + n), NEW j \in 1..(m + n), i < j
               PROVE  Precedes(emitted'[i].of, emitted'[j].of)
    BY <1>2 DEF ExportInOrder
  <2>1. CASE j \in 1..m
    <3>1. i \in 1..m
      BY <1>1, <2>1
    <3> QED BY <1>1, <1>2, <2>1, <3>1 DEF DInv, ExportInOrder
  <2>2. CASE i \in 1..m /\ j \notin 1..m
    <3>1. j - m \in 1..n /\ emitted'[j] = p[j - m]
      BY <1>2, <1>6, <2>2
    <3> QED BY <1>2, <2>2, <3>1 DEF m, n
  <2>3. CASE i \notin 1..m /\ j \notin 1..m
    <3>1. /\ j - m \in 1..n /\ emitted'[j] = p[j - m]
          /\ i - m \in 1..n /\ emitted'[i] = p[i - m]
      BY <1>2, <1>6, <2>3
    <3>2. i - m < j - m
      BY <1>1
    <3> QED BY <3>1, <3>2 DEF n
  <2> QED BY <2>1, <2>2, <2>3
<1>9. PageIsRest'
  BY <1>1, <1>2, <1>3, <1>4 DEF PageIsRest
<1>10. ASSUME NEW a \in ToSet(emitted), NEW b \in ToSet(emitted), Adjacent(a, b)
       PROVE  Adjacent(a, b)'
  <2> SUFFICES ASSUME NEW row \in ToSet(p) PROVE ~Precedes(row.of, b.of)
    BY <1>7, <1>10 DEF Adjacent
  <2>1. PICK i \in 1..m : b = emitted[i]
    BY <1>1 DEF ToSet
  <2>2. PICK j \in 1..n : row = p[j]
    BY <1>1 DEF ToSet
  <2>3. Precedes(b.of, row.of)
    BY <2>1, <2>2 DEF m, n
  <2>4. b.of \in Rows /\ row.of \in Rows
    BY <1>1, <2>1, <2>2 DEF Exported
  <2> QED BY <2>3, <2>4, PrecedesIsOrder
<1>11. TakenRows \subseteq ToSet(emitted)
  BY StreamTypes
<1>12. BuffersAreRuns'
  <2> SUFFICES ASSUME NEW r \in Receivers
               PROVE  Len(buffers[r]) < WindowSize /\ IsRun(buffers[r], r)'
    BY DEF BuffersAreRuns
  <2> DEFINE buffer == buffers[r]
  <2>1. Len(buffer) < WindowSize /\ IsRun(buffer, r) /\ Len(buffer) \in Nat
    BY DEF DInv, BuffersAreRuns, DataTypeOK
  <2>2. ASSUME NEW k \in 2..Len(buffer) PROVE Adjacent(buffer[k - 1], buffer[k])'
    <3>1. k \in 1..Len(buffer) /\ k - 1 \in 1..Len(buffer)
      BY <2>1
    <3>2. buffer[k] \in ToSet(emitted) /\ buffer[k - 1] \in ToSet(emitted)
      BY <1>11, <2>1, <3>1 DEF IsRun
    <3>3. Adjacent(buffer[k - 1], buffer[k])
      BY <2>1 DEF IsRun
    <3> QED BY <1>10, <3>2, <3>3
  <2> HIDE DEF buffer
  <2>3. IsRun(buffer, r) => /\ \A k \in 1..Len(buffer) :
                                 /\ buffer[k] \in TakenRows'
                                 /\ buffer[k].of[2] = r /\ buffer[k].label = buffer[1].label
                            /\ buffer # <<>> => \A row \in TakenRows' :
                                 row.of[2] = r => ~Precedes(buffer[Len(buffer)].of, row.of)
    BY <1>5 DEF IsRun
  <2>4. buffer' = buffer
    BY DEF buffer
  <2> QED BY <2>1, <2>2, <2>3, <2>4 DEF IsRun, buffer
<1>13. WindowsAreTaken'
  BY <1>5 DEF DInv, WindowsAreTaken
<1>14. WindowsAreRuns'
  <2>1. ASSUME NEW i \in DOMAIN windows
        PROVE  /\ Len(windows[i]) = WindowSize /\ ToSet(windows[i]) \subseteq ToSet(emitted')
               /\ \A k \in 1..WindowSize : windows[i][k].label = windows[i][1].label
               /\ \A k \in 2..WindowSize : Adjacent(windows[i][k - 1], windows[i][k])'
    <3>1. /\ Len(windows[i]) = WindowSize /\ ToSet(windows[i]) \subseteq ToSet(emitted)
          /\ \A k \in 1..WindowSize : windows[i][k].label = windows[i][1].label
          /\ \A k \in 2..WindowSize : Adjacent(windows[i][k - 1], windows[i][k])
      BY DEF DInv, WindowsAreRuns
    <3>2. windows[i] \in Seq(Exported) /\ WindowSize \in Nat
      BY TrainingDataAssumption DEF DInv, DataTypeOK
    <3>3. \A k \in 1..WindowSize : windows[i][k] \in ToSet(emitted)
      <4>1. DOMAIN windows[i] = 1..WindowSize
        BY <3>1, <3>2
      <4> QED BY <3>1, <4>1 DEF ToSet
    <3>4. \A k \in 2..WindowSize : k \in 1..WindowSize /\ k - 1 \in 1..WindowSize
      BY <3>2
    <3>5. \A k \in 2..WindowSize : Adjacent(windows[i][k - 1], windows[i][k])'
      BY <1>10, <3>1, <3>3, <3>4
    <3> QED BY <1>7, <3>1, <3>5
  <2>2. \A i, j \in DOMAIN windows : i # j =>
          ToSet(windows[i]) \intersect ToSet(windows[j]) = {}
    BY DEF DInv, WindowsAreRuns
  <2> QED BY <2>1, <2>2 DEF WindowsAreRuns
<1>15. p # <<>> => emitted' # <<>> /\ emitted'[Len(emitted')] = p[Len(p)]
  <2>1. p # <<>> => n \in 1..n
    BY <1>1 DEF n
  <2>2. m + n > 0 => emitted' # <<>>
    BY <1>1, <1>2
  <2> QED BY <1>1, <1>2, <2>1, <2>2 DEF n
<1> QED BY <1>7, <1>8, <1>9, <1>12, <1>13, <1>14, <1>15 DEF Stream

LEMMA PageStep ==
  ASSUME DInv, Page
  PROVE  DInv'
<1> DEFINE sorted == InOrder(Matching)
           more == Len(sorted) > PageSize
           rows == IF more THEN SubSeq(sorted, 1, PageSize) ELSE sorted
           n == Len(rows)
           p == [i \in DOMAIN rows |-> [of |-> rows[i], label |-> Source[rows[i]]]]
<1>1. /\ job = "paging" /\ page = <<>> /\ page' = p /\ emitted' = emitted \o p
      /\ cursor' = IF more THEN rows[PageSize] ELSE Start
      /\ job' = IF ~more THEN "last" ELSE "paging"
      /\ UNCHANGED <<csi, training, readable, writes, buffers, windows, steady>>
  BY DEF Page, Ends, tables
<1>2. /\ Matching \subseteq Rows /\ IsFiniteSet(Matching)
      /\ \A row \in Matching : Source[row] \in RoomNames /\ PastCursor(row)
  BY RowsFinite, TrainingDataAssumption DEF Matching
<1>3. /\ sorted \in Seq(Matching) /\ Len(sorted) \in Nat
      /\ \A i, j \in 1..Len(sorted) : i < j => Precedes(sorted[i], sorted[j])
      /\ \A k \in 1..Len(sorted) : \A a \in Matching :
           ~Precedes(sorted[k], a) => \E i \in 1..k : sorted[i] = a
      /\ \A a \in Matching : \E i \in 1..Len(sorted) : sorted[i] = a
  BY <1>2, InOrderIsSorted
<1>4. PageSize \in Nat /\ PageSize > 0
  BY TrainingDataAssumption
<1> HIDE DEF sorted
<1>5. /\ n \in Nat /\ n <= Len(sorted) /\ DOMAIN rows = 1..n
      /\ \A i \in 1..n : rows[i] = sorted[i]
      /\ more => n = PageSize
      /\ ~more => n = Len(sorted)
  <2>1. CASE more
    <3>1. /\ SubSeq(sorted, 1, PageSize) \in Seq(Matching)
          /\ Len(SubSeq(sorted, 1, PageSize)) = PageSize
          /\ \A i \in 1..PageSize : SubSeq(sorted, 1, PageSize)[i] = sorted[i]
      BY <1>3, <1>4, <2>1
    <3> QED BY <1>3, <1>4, <2>1, <3>1
  <2>2. CASE ~more
    BY <1>3, <2>2
  <2> QED BY <2>1, <2>2
<1> HIDE DEF more, rows, n
<1>6. \A i \in 1..n : i \in 1..Len(sorted) /\ rows[i] = sorted[i] /\ rows[i] \in Matching
  <2> SUFFICES ASSUME NEW i \in 1..n
               PROVE  i \in 1..Len(sorted) /\ rows[i] = sorted[i] /\ rows[i] \in Matching
    OBVIOUS
  <2>1. i \in 1..Len(sorted)
    <3>1. n \in Nat /\ n <= Len(sorted) /\ Len(sorted) \in Nat
      BY <1>3, <1>5
    <3> QED BY <3>1
  <2>2. sorted[i] \in Matching
    BY <1>3, <2>1
  <2> QED BY <1>5, <2>1, <2>2
<1>7. DOMAIN p = 1..n /\ \A i \in 1..n : p[i] = [of |-> rows[i], label |-> Source[rows[i]]]
  BY <1>5
<1> HIDE DEF p
<1>8. /\ \A i \in 1..n : p[i].of = rows[i] /\ p[i] \in Exported
      /\ p \in Seq(Exported) /\ Len(p) = n
  <2>1. \A i \in 1..n : p[i].of = rows[i] /\ p[i] \in Exported
    BY <1>2, <1>6, <1>7 DEF Exported
  <2>2. p \in [1..n -> Exported]
    <3>1. p = [i \in DOMAIN p |-> p[i]]
      BY DEF p
    <3> QED BY <1>7, <2>1, <3>1
  <2> QED BY <1>5, <2>1, <2>2
<1>9. \A i, j \in 1..n : i < j => Precedes(p[i].of, p[j].of)
  BY <1>3, <1>6, <1>8
<1>10. \A i \in 1..Len(emitted), j \in 1..n : Precedes(emitted[i].of, p[j].of)
  <2> SUFFICES ASSUME NEW i \in 1..Len(emitted), NEW j \in 1..n
               PROVE  Precedes(emitted[i].of, p[j].of)
    OBVIOUS
  <2>1. Len(emitted) \in Nat /\ emitted # <<>> /\ emitted \in Seq(Exported)
    BY StreamTypes DEF DInv, DataTypeOK
  <2>2. cursor # Start /\ emitted[Len(emitted)].of = cursor
    BY <1>1, <2>1 DEF DInv, CursorIsLast
  <2>3. Precedes(cursor, p[j].of)
    BY <1>2, <1>6, <1>8, <2>2 DEF PastCursor
  <2>4. i = Len(emitted) \/ Precedes(emitted[i].of, cursor)
    <3>1. i < Len(emitted) => Precedes(emitted[i].of, emitted[Len(emitted)].of)
      BY <2>1, StreamTypes DEF DInv, ExportInOrder
    <3> QED BY <2>1, <2>2, <3>1
  <2>5. emitted[i].of \in Rows /\ cursor \in Rows /\ p[j].of \in Rows
    BY <1>8, <2>2, StreamTypes DEF DInv, DataTypeOK, Exported
  <2> QED BY <2>2, <2>3, <2>4, <2>5, PrecedesIsOrder
<1>11. /\ Stream' /\ ToSet(emitted') = ToSet(emitted) \union ToSet(p)
       /\ p # <<>> => emitted' # <<>> /\ emitted'[Len(emitted')] = p[Len(p)]
  BY <1>1, <1>8, <1>9, <1>10, ArrivalStep
<1>12. more => PageSize \in 1..n /\ rows[PageSize] \in Rows /\ rows[PageSize] # Start
  BY <1>2, <1>4, <1>5, <1>6, TrainingDataAssumption DEF Rows
<1>13. DataTypeOK'
  <2>1. emitted' \in Seq(Exported)
    BY <1>1, <1>8 DEF DInv, DataTypeOK
  <2>2. cursor' \in Rows \union {Start}
    BY <1>1, <1>12
  <2> QED BY <1>1, <1>8, <2>1, <2>2 DEF DInv, DataTypeOK
<1>14. SteadyAgree'
  BY <1>1 DEF DInv, SteadyAgree
<1>15. CursorIsLast'
  <2> SUFFICES ASSUME more
               PROVE  cursor' # Start /\ emitted' # <<>> /\ emitted'[Len(emitted')].of = cursor'
    BY <1>1 DEF CursorIsLast
  <2>1. p # <<>> /\ Len(p) = PageSize /\ p[PageSize].of = rows[PageSize]
    BY <1>4, <1>5, <1>8, <1>12
  <2> QED BY <1>1, <1>11, <1>12, <2>1
<1>16. SteadyRowsExported'
  <2> SUFFICES ASSUME NEW row \in steady, row[1] \in Span, csi[row] \in Requested,
                      ~more \/ ~Precedes(rows[PageSize], row)
               PROVE  [of |-> row, label |-> csi[row]] \in ToSet(emitted')
    BY <1>1 DEF SteadyRowsExported
  <2>1. row \in Rows /\ Source[row] = csi[row]
    BY DEF DInv, DataTypeOK, SteadyAgree, Source
  <2>2. CASE PastCursor(row)
    <3>1. row \in Matching
      BY <2>1, <2>2 DEF Matching
    <3>2. PICK i \in 1..n : rows[i] = row
      <4>1. CASE ~more
        BY <1>3, <1>5, <3>1, <4>1
      <4>2. CASE more
        <5>1. PageSize \in 1..Len(sorted) /\ ~Precedes(sorted[PageSize], row)
          BY <1>3, <1>4, <1>5, <1>12, <4>2
        <5>2. PICK i \in 1..PageSize : sorted[i] = row
          BY <1>3, <3>1, <5>1
        <5> QED BY <1>5, <4>2, <5>2
      <4> QED BY <4>1, <4>2
    <3>3. p[i] = [of |-> row, label |-> csi[row]]
      BY <1>7, <2>1, <3>2
    <3>4. p[i] \in ToSet(p)
      BY <1>7, <3>2 DEF ToSet
    <3> QED BY <1>11, <3>3, <3>4
  <2>3. CASE ~PastCursor(row)
    <3>1. cursor # Start /\ ~Precedes(cursor, row)
      BY <2>3 DEF PastCursor
    <3> QED BY <1>11, <3>1 DEF DInv, SteadyRowsExported
  <2> QED BY <2>2, <2>3
<1> QED BY <1>11, <1>13, <1>14, <1>15, <1>16 DEF DInv, Stream

\* The row the windowing takes is the next of what was received, behind all
\* that were taken.
LEMMA TakenNext ==
  ASSUME DInv, Consume
  PROVE  /\ Head(page) \in Exported /\ Head(page) \in ToSet(emitted)
         /\ Head(page) \notin TakenRows
         /\ TakenRows' = TakenRows \union {Head(page)}
         /\ \A row \in TakenRows : Precedes(row.of, Head(page).of)
         /\ \A row \in ToSet(emitted) :
              row \in TakenRows \/ ~Precedes(row.of, Head(page).of)
         /\ PageIsRest' /\ page' \in Seq(Exported)
<1> DEFINE c == TakenCount
           e == Head(page)
           m == Len(emitted)
<1>1. /\ page # <<>> /\ page' = Tail(page) /\ emitted' = emitted
  BY DEF Consume
<1>2. /\ m \in Nat /\ Len(page) \in Nat /\ c \in Nat /\ c + Len(page) = m
      /\ DOMAIN emitted = 1..m
      /\ \A i \in 1..m : emitted[i] \in Exported /\ emitted[i].of \in Rows
  BY StreamTypes
<1>3. page \in Seq(Exported) /\ \A k \in 1..Len(page) : page[k] = emitted[c + k]
  BY DEF DInv, DataTypeOK, PageIsRest
<1>4. /\ Len(page) >= 1 /\ Tail(page) \in Seq(Exported) /\ Len(Tail(page)) = Len(page) - 1
      /\ e = page[1] /\ \A k \in 1..Len(page) - 1 : Tail(page)[k] = page[k + 1]
  BY <1>1, <1>3
<1>5. c + 1 \in 1..m /\ e = emitted[c + 1]
  BY <1>2, <1>3, <1>4
<1>6. TakenCount' = c + 1
  BY <1>1, <1>2, <1>4 DEF TakenCount
<1> HIDE DEF c, e, m
<1>7. PageIsRest'
  <2>1. \A k \in 1..Len(page) - 1 : Tail(page)[k] = emitted[(c + 1) + k]
    <3> SUFFICES ASSUME NEW k \in 1..Len(page) - 1 PROVE page[k + 1] = emitted[(c + 1) + k]
      BY <1>4
    <3>1. k + 1 \in 1..Len(page) /\ c + (k + 1) = (c + 1) + k
      BY <1>2
    <3> QED BY <1>3, <3>1
  <2>2. Len(page) - 1 <= m
    BY <1>2
  <2> QED BY <1>1, <1>4, <1>6, <2>1, <2>2 DEF PageIsRest, m
<1>8. TakenRows' = TakenRows \union {e}
  <2>1. 1..(c + 1) = 1..c \union {c + 1}
    BY <1>2
  <2>2. TakenRows' = {emitted[q] : q \in 1..(c + 1)} /\ TakenRows = {emitted[q] : q \in 1..c}
    BY <1>1, <1>6 DEF TakenRows, c
  <2> QED BY <1>5, <2>1, <2>2
<1>9. \A q \in 1..m : q < c + 1 => Precedes(emitted[q].of, e.of)
  BY <1>2, <1>5 DEF DInv, ExportInOrder
<1>10. \A row \in TakenRows : Precedes(row.of, e.of) /\ row.of \in Rows
  <2> SUFFICES ASSUME NEW q \in 1..c
               PROVE  Precedes(emitted[q].of, e.of) /\ emitted[q].of \in Rows
    BY DEF TakenRows, c
  <2>1. q \in 1..m /\ q < c + 1
    BY <1>2, <1>5
  <2> QED BY <1>2, <1>9, <2>1
<1>11. e \in Exported /\ e.of \in Rows /\ e \in ToSet(emitted)
  BY <1>2, <1>5 DEF ToSet
<1>12. e \notin TakenRows
  BY <1>10, <1>11, PrecedesIsOrder
<1>13. ASSUME NEW row \in ToSet(emitted), row \notin TakenRows PROVE ~Precedes(row.of, e.of)
  <2>1. PICK q \in 1..m : row = emitted[q]
    BY <1>2 DEF ToSet
  <2>2. q \notin 1..c
    BY <1>13, <2>1 DEF TakenRows, c
  <2>3. q = c + 1 \/ c + 1 < q
    BY <1>2, <2>2
  <2>4. q = c + 1 \/ Precedes(e.of, row.of)
    BY <1>2, <1>5, <2>1, <2>3 DEF DInv, ExportInOrder
  <2>5. row.of \in Rows
    BY <1>2, <2>1
  <2> QED BY <1>5, <1>11, <2>1, <2>4, <2>5, PrecedesIsOrder
<1> QED BY <1>1, <1>4, <1>7, <1>8, <1>10, <1>11, <1>12, <1>13 DEF e

\* A run grows by the next row of its receiver, if the label is the same.
LEMMA RunGrows ==
  ASSUME DInv, Consume, NEW e, e = Head(page), NEW b \in Seq(Exported), NEW r,
         IsRun(b, r), e.of[2] = r, b # <<>> => b[1].label = e.label
  PROVE  IsRun(Append(b, e), r)'
<1> DEFINE n == Len(b)
           f == Append(b, e)
<1>1. /\ e \in Exported /\ e \notin TakenRows /\ TakenRows' = TakenRows \union {e}
      /\ \A row \in TakenRows : Precedes(row.of, e.of)
      /\ \A row \in ToSet(emitted) : row \in TakenRows \/ ~Precedes(row.of, e.of)
  BY TakenNext
<1>2. emitted' = emitted /\ \A x, y : Adjacent(x, y)' <=> Adjacent(x, y)
  BY DEF Consume, Adjacent
<1>3. /\ n \in Nat /\ Len(f) = n + 1 /\ f[n + 1] = e /\ f # <<>>
      /\ \A k \in 1..n : f[k] = b[k]
  <2>1. f \in Seq(Exported) /\ n \in Nat /\ Len(f) = n + 1
    BY <1>1
  <2>2. f[n + 1] = e /\ \A k \in 1..n : f[k] = b[k]
    BY <1>1, <2>1
  <2>3. f # <<>>
    <3> HIDE DEF f, n
    <3> QED BY <2>1
  <2> QED BY <2>1, <2>2, <2>3
<1>4. \A k \in 1..n : b[k] \in TakenRows /\ b[k].of[2] = r /\ b[k].label = b[1].label
  BY DEF IsRun
<1>5. n = 0 => b = <<>>
  BY <1>3
<1> HIDE DEF n, f
<1>6. \A k \in 1..(n + 1) : k \in 1..n \/ k = n + 1
  BY <1>3
<1>7. f[1].label = e.label
  <2>1. CASE n = 0
    BY <1>3, <2>1
  <2>2. CASE n # 0
    <3>1. 1 \in 1..n /\ b # <<>>
      BY <1>3, <2>2 DEF n
    <3> QED BY <1>3, <3>1
  <2> QED BY <2>1, <2>2
<1>8. ASSUME NEW k \in 1..(n + 1)
      PROVE  f[k] \in TakenRows' /\ f[k].of[2] = r /\ f[k].label = f[1].label
  <2>1. CASE k = n + 1
    BY <1>1, <1>3, <1>7, <2>1
  <2>2. CASE k \in 1..n
    <3>1. 1 \in 1..n
      BY <1>3, <2>2
    <3> QED BY <1>1, <1>3, <1>4, <2>2, <3>1
  <2> QED BY <1>6, <2>1, <2>2
<1>9. ASSUME NEW k \in 2..(n + 1) PROVE Adjacent(f[k - 1], f[k])'
  <2>1. CASE k \in 2..n
    <3>1. k \in 1..n /\ k - 1 \in 1..n
      BY <1>3, <2>1
    <3>2. Adjacent(b[k - 1], b[k])
      BY <2>1 DEF IsRun, n
    <3> QED BY <1>2, <1>3, <3>1, <3>2
  <2>2. CASE k \notin 2..n
    <3>1. k = n + 1 /\ n \in 1..n /\ k - 1 = n
      BY <1>3, <2>2
    <3>2. b # <<>>
      BY <3>1 DEF n
    <3>3. \A row \in TakenRows : row.of[2] = r => ~Precedes(b[n].of, row.of)
      BY <3>2 DEF IsRun, n
    <3>4. Adjacent(b[n], e)
      <4>1. b[n].of[2] = e.of[2] /\ Precedes(b[n].of, e.of) /\ e.of[2] = r
        BY <1>1, <1>4, <3>1
      <4> QED BY <1>1, <3>3, <4>1 DEF Adjacent
    <3> QED BY <1>2, <1>3, <3>1, <3>4
  <2> QED BY <2>1, <2>2
<1>10. \A row \in TakenRows' : ~Precedes(e.of, row.of)
  <2>1. e.of \in Rows /\ \A row \in TakenRows : row.of \in Rows
    BY <1>1, StreamTypes DEF Exported
  <2> QED BY <1>1, <2>1, PrecedesIsOrder
<1>11. /\ \A k \in 1..Len(f) : f[k] \in TakenRows' /\ f[k].of[2] = r /\ f[k].label = f[1].label
       /\ \A k \in 2..Len(f) : Adjacent(f[k - 1], f[k])'
       /\ \A row \in TakenRows' : ~Precedes(f[Len(f)].of, row.of)
  BY <1>3, <1>8, <1>9, <1>10
<1>12. IsRun(f, r)'
  BY <1>11 DEF IsRun
<1> QED BY <1>12 DEF f

\* Discarded or not, the partial window and the next row of its receiver are a
\* run; a full run becomes a window, and its rows are taken from no other.
LEMMA ConsumeStep ==
  ASSUME DInv, Consume
  PROVE  DInv'
<1>1. PICK e : e = Head(page)
  OBVIOUS
<1>2. /\ e \in Exported /\ e \in ToSet(emitted) /\ e \notin TakenRows
      /\ TakenRows' = TakenRows \union {e}
      /\ PageIsRest' /\ page' \in Seq(Exported)
  BY <1>1, TakenNext
<1>3. PICK r : r = e.of[2]
  OBVIOUS
<1>4. r \in Receivers
  BY <1>2, <1>3 DEF Exported, Rows
<1>5. PICK b : b = IF Transition(buffers[r], e) THEN <<>> ELSE buffers[r]
  OBVIOUS
<1>6. PICK f : f = Append(b, e)
  OBVIOUS
<1>7. /\ buffers' = [buffers EXCEPT ![r] = IF Len(f) >= WindowSize THEN <<>> ELSE f]
      /\ windows' = IF Len(f) >= WindowSize THEN Append(windows, f) ELSE windows
      /\ UNCHANGED <<csi, training, readable, writes, job, cursor, emitted, steady>>
  BY <1>1, <1>3, <1>5, <1>6 DEF Consume, tables
<1>8. /\ buffers \in [Receivers -> Seq(Exported)] /\ windows \in Seq(Seq(Exported))
      /\ \A q \in Receivers : Len(buffers[q]) < WindowSize /\ IsRun(buffers[q], q)
      /\ WindowSize \in Nat /\ WindowSize > 0
  BY TrainingDataAssumption DEF DInv, DataTypeOK, BuffersAreRuns
<1>9. b \in Seq(Exported) /\ (b = <<>> \/ b = buffers[r]) /\ (b # <<>> => b[1].label = e.label)
  BY <1>4, <1>5, <1>8 DEF Transition
<1>10. IsRun(b, r) /\ Len(b) < WindowSize
  <2>1. IsRun(<<>>, r) /\ Len(<<>>) = 0
    BY DEF IsRun
  <2> QED BY <1>4, <1>8, <1>9, <2>1
<1>11. IsRun(f, r)'
  <2>1. IsRun(Append(b, e), r)'
    BY <1>1, <1>3, <1>9, <1>10, RunGrows
  <2> QED BY <1>6, <2>1
<1>12. /\ f \in Seq(Exported) /\ Len(f) \in Nat /\ f # <<>> /\ DOMAIN f = 1..Len(f)
       /\ Len(f) <= WindowSize /\ ToSet(f) = ToSet(b) \union {e}
  <2>1. /\ Len(b) \in Nat /\ f \in Seq(Exported) /\ Len(f) = Len(b) + 1 /\ f[Len(b) + 1] = e
        /\ \A k \in 1..Len(b) : f[k] = b[k]
        /\ DOMAIN b = 1..Len(b) /\ DOMAIN f = 1..Len(f)
    BY <1>2, <1>6, <1>9
  <2>2. 1..(Len(b) + 1) = 1..Len(b) \union {Len(b) + 1}
    BY <2>1
  <2>3. ToSet(f) = ToSet(b) \union {e}
    BY <2>1, <2>2 DEF ToSet
  <2> QED BY <1>8, <1>10, <2>1, <2>3
<1>13. \A x, y : Adjacent(x, y)' <=> Adjacent(x, y)
  BY <1>7 DEF Adjacent
<1>14. DataTypeOK'
  <2>1. windows' \in Seq(Seq(Exported))
    BY <1>7, <1>8, <1>12
  <2>2. buffers' \in [Receivers -> Seq(Exported)]
    <3>1. <<>> \in Seq(Exported)
      OBVIOUS
    <3>2. PICK left \in Seq(Exported) : buffers' = [buffers EXCEPT ![r] = left]
      BY <1>7, <1>12, <3>1
    <3> QED BY <1>8, <3>2
  <2> QED BY <1>2, <1>7, <2>1, <2>2 DEF DInv, DataTypeOK
<1>15. SteadyAgree' /\ CursorIsLast' /\ SteadyRowsExported' /\ ExportInOrder'
  BY <1>7 DEF DInv, SteadyAgree, CursorIsLast, SteadyRowsExported, ExportInOrder
\* Each partial window.
<1>16. ASSUME NEW q \in Receivers
       PROVE  /\ Len(buffers'[q]) < WindowSize /\ IsRun(buffers[q], q)'
              /\ q = r => (IF Len(f) >= WindowSize THEN buffers'[q] = <<>> ELSE buffers'[q] = f)
              /\ q # r => buffers'[q] = buffers[q]
  <2>1. CASE q # r
    <3>1. buffers'[q] = buffers[q]
      BY <1>7, <1>8, <2>1
    <3>2. PICK c : c = buffers[q]
      OBVIOUS
    <3>3. IsRun(c, q) /\ Len(c) < WindowSize
      BY <1>8, <3>2
    <3>4. IsRun(c, q)'
      <4>1. /\ \A k \in 1..Len(c) :
                 /\ c[k] \in TakenRows'
                 /\ c[k].of[2] = q /\ c[k].label = c[1].label
            /\ \A k \in 2..Len(c) : Adjacent(c[k - 1], c[k])'
            /\ c # <<>> => \A row \in TakenRows' :
                 row.of[2] = q => ~Precedes(c[Len(c)].of, row.of)
        BY <1>2, <1>3, <1>13, <2>1, <3>3 DEF IsRun
      <4> QED BY <4>1 DEF IsRun
    <3> QED BY <2>1, <3>1, <3>2, <3>3, <3>4
  <2>2. CASE q = r /\ Len(f) >= WindowSize
    <3>1. buffers'[q] = <<>>
      BY <1>7, <1>8, <2>2
    <3>2. IsRun(<<>>, q)' /\ Len(<<>>) = 0
      BY DEF IsRun
    <3> QED BY <1>8, <2>2, <3>1, <3>2
  <2>3. CASE q = r /\ ~(Len(f) >= WindowSize)
    <3>1. buffers'[q] = f
      BY <1>7, <1>8, <2>3
    <3> QED BY <1>8, <1>11, <1>12, <2>3, <3>1
  <2> QED BY <2>1, <2>2, <2>3
<1>17. BuffersAreRuns'
  BY <1>16 DEF BuffersAreRuns
\* Each window, of before or the one just cut.
<1>18. /\ \A i \in DOMAIN windows' : i \in DOMAIN windows \/ Len(f) >= WindowSize
       /\ \A i \in DOMAIN windows' :
            IF i \in DOMAIN windows THEN windows'[i] = windows[i] ELSE windows'[i] = f
       /\ \A i, j \in DOMAIN windows' : i \in DOMAIN windows \/ j \in DOMAIN windows \/ i = j
  <2>1. CASE Len(f) >= WindowSize
    <3> DEFINE n == Len(windows)
    <3>1. /\ n \in Nat /\ DOMAIN windows = 1..n /\ DOMAIN windows' = 1..(n + 1)
          /\ windows'[n + 1] = f /\ \A i \in 1..n : windows'[i] = windows[i]
      BY <1>7, <1>8, <1>12, <2>1
    <3> HIDE DEF n
    <3>2. \A i \in 1..(n + 1) : i \in 1..n \/ (i = n + 1 /\ i \notin 1..n)
      BY <3>1
    <3> QED BY <2>1, <3>1, <3>2
  <2>2. CASE ~(Len(f) >= WindowSize)
    BY <1>7, <2>2
  <2> QED BY <2>1, <2>2
<1>19. \A i \in DOMAIN windows :
         /\ Len(windows[i]) = WindowSize /\ ToSet(windows[i]) \subseteq ToSet(emitted)
         /\ \A k \in 1..WindowSize : windows[i][k].label = windows[i][1].label
         /\ \A k \in 2..WindowSize : Adjacent(windows[i][k - 1], windows[i][k])
         /\ ToSet(windows[i]) \subseteq TakenRows
         /\ \A q \in Receivers : ToSet(windows[i]) \intersect ToSet(buffers[q]) = {}
  BY DEF DInv, WindowsAreRuns, WindowsAreTaken
<1>20. \A i \in DOMAIN windows : ToSet(windows[i]) \intersect ToSet(f) = {}
  <2>1. ToSet(<<>>) = {}
    BY DEF ToSet
  <2> QED BY <1>2, <1>4, <1>9, <1>12, <1>19, <2>1
<1>21. ToSet(f) \subseteq TakenRows'
  BY <1>11, <1>12 DEF IsRun, ToSet
<1>22. WindowsAreTaken'
  <2> SUFFICES ASSUME NEW i \in DOMAIN windows'
               PROVE  /\ ToSet(windows'[i]) \subseteq TakenRows'
                      /\ \A q \in Receivers :
                           ToSet(windows'[i]) \intersect ToSet(buffers'[q]) = {}
    BY DEF WindowsAreTaken
  <2>1. ToSet(<<>>) = {}
    BY DEF ToSet
  <2>2. CASE i \in DOMAIN windows
    <3>1. windows'[i] = windows[i]
      BY <1>18, <2>2
    <3>2. \A q \in Receivers : ToSet(windows[i]) \intersect ToSet(buffers'[q]) = {}
      BY <1>16, <1>19, <1>20, <2>1, <2>2
    <3> QED BY <1>2, <1>19, <2>2, <3>1, <3>2
  <2>3. CASE i \notin DOMAIN windows
    <3>1. windows'[i] = f /\ Len(f) >= WindowSize
      BY <1>18, <2>3
    <3>2. ASSUME NEW q \in Receivers, q # r PROVE ToSet(f) \intersect ToSet(buffers'[q]) = {}
      <4>1. buffers'[q] = buffers[q] /\ IsRun(buffers[q], q) /\ buffers[q] \in Seq(Exported)
        BY <1>8, <1>16, <3>2
      <4>2. \A x \in ToSet(buffers[q]) : x.of[2] = q
        BY <4>1 DEF IsRun, ToSet
      <4>3. \A x \in ToSet(f) : x.of[2] = r
        BY <1>11, <1>12 DEF IsRun, ToSet
      <4> QED BY <3>2, <4>1, <4>2, <4>3
    <3>3. buffers'[r] = <<>>
      BY <1>4, <1>16, <3>1
    <3> QED BY <1>21, <2>1, <3>1, <3>2, <3>3
  <2> QED BY <2>2, <2>3
<1>23. WindowsAreRuns'
  <2>1. ASSUME NEW i \in DOMAIN windows'
        PROVE  /\ Len(windows'[i]) = WindowSize /\ ToSet(windows'[i]) \subseteq ToSet(emitted)
               /\ \A k \in 1..WindowSize : windows'[i][k].label = windows'[i][1].label
               /\ \A k \in 2..WindowSize : Adjacent(windows'[i][k - 1], windows'[i][k])
    <3>1. CASE i \in DOMAIN windows
      BY <1>18, <1>19, <3>1
    <3>2. CASE i \notin DOMAIN windows
      <4>1. windows'[i] = f /\ Len(f) >= WindowSize /\ Len(f) <= WindowSize
        BY <1>12, <1>18, <3>2
      <4>2. Len(f) = WindowSize
        <5>1. Len(f) \in Nat /\ WindowSize \in Nat
          BY <1>8, <1>12
        <5> QED BY <4>1, <5>1
      <4>3. /\ \A k \in 1..Len(f) : f[k].label = f[1].label
            /\ \A k \in 2..Len(f) : Adjacent(f[k - 1], f[k])'
        BY <1>11 DEF IsRun
      <4>4. ToSet(f) \subseteq ToSet(emitted)
        BY <1>2, <1>21, StreamTypes
      <4> QED BY <1>13, <4>1, <4>2, <4>3, <4>4
    <3> QED BY <3>1, <3>2
  <2>2. ASSUME NEW i \in DOMAIN windows', NEW j \in DOMAIN windows', i # j
        PROVE  ToSet(windows'[i]) \intersect ToSet(windows'[j]) = {}
    <3>1. CASE i \in DOMAIN windows /\ j \in DOMAIN windows
      BY <1>18, <2>2, <3>1 DEF DInv, WindowsAreRuns
    <3>2. CASE i \in DOMAIN windows /\ j \notin DOMAIN windows
      BY <1>18, <1>20, <3>2
    <3>3. CASE i \notin DOMAIN windows /\ j \in DOMAIN windows
      BY <1>18, <1>20, <3>3
    <3> QED BY <1>18, <2>2, <3>1, <3>2, <3>3
  <2>3. \A x, y : Adjacent(x, y) => Adjacent(x, y)'
    BY <1>13
  <2> QED BY <1>7, <2>1, <2>2, <2>3 DEF WindowsAreRuns
<1> QED BY <1>2, <1>14, <1>15, <1>17, <1>22, <1>23 DEF DInv

LEMMA StepDInv == DInv /\ [DataNext]_dataVars => DInv'
<1> SUFFICES ASSUME DInv, [DataNext]_dataVars PROVE DInv'
  OBVIOUS
<1>1. CASE \/ \E w \in Intervals, label \in RoomNames \union {NoRoom} : Relabel(w, label)
           \/ \E w \in Intervals : Mirror(w)
           \/ \E old, new \in RoomNames : Rename(old, new)
  BY <1>1, LabelSteps
<1>2. CASE Grant \/ PageFails \/ Fit
  BY <1>2, QuietStep
<1>3. CASE Begin
  BY <1>3, BeginStep
<1>4. CASE Page
  BY <1>4, PageStep
<1>5. CASE Consume
  BY <1>5, ConsumeStep
<1>6. CASE UNCHANGED dataVars
  <2>1. UNCHANGED <<csi, training, readable, writes, steady>>
          /\ UNCHANGED <<job, cursor, page, buffers, windows, emitted>>
    BY <1>6 DEF dataVars, tables, export
  <2>2. DataTypeOK' /\ SteadyAgree' /\ CursorIsLast' /\ SteadyRowsExported'
    BY <2>1 DEF DInv, DataTypeOK, SteadyAgree, CursorIsLast, SteadyRowsExported
  <2>3. Stream'
    BY <2>1, StreamStays DEF DInv, Stream
  <2> QED BY <2>2, <2>3 DEF DInv, Stream
<1> QED BY <1>1, <1>2, <1>3, <1>4, <1>5, <1>6 DEF DataNext

-------------------------------------------------------------------------------
(* The theorems.                                                           *)

\* The invariant holds of every export, whatever is relabelled meanwhile.
THEOREM TrainingDataInvariant == DataSpec => []DInv
BY InitDInv, StepDInv, PTL DEF DataSpec

\* The state keeps its types: the page and the buffers hold labelled rows only.
THEOREM TrainingDataTypes == DataSpec => []DataTypeOK
<1>1. DInv => DataTypeOK
  BY DEF DInv
<1> QED BY <1>1, TrainingDataInvariant, PTL

\* A job receives its rows in the order of (time, receiver) and none twice
\* (training_data.py:110-117).
THEOREM RowsArriveInOrder == DataSpec => []ExportInOrder
<1>1. DInv => ExportInOrder
  BY DEF DInv
<1> QED BY <1>1, TrainingDataInvariant, PTL

\* No page boundary loses a row that nobody relabels, of whatever table its
\* page is read (training_data.py:134-151).
THEOREM NoSteadyRowLost == DataSpec => []SteadyRowsExported
<1>1. DInv => SteadyRowsExported
  BY DEF DInv
<1> QED BY <1>1, TrainingDataInvariant, PTL

\* Every window is a run of rows of one receiver under one label, and no row is
\* in two windows (train.py:68-82).
THEOREM WindowsCutRuns == DataSpec => []WindowsAreRuns
<1>1. DInv => WindowsAreRuns
  BY DEF DInv
<1> QED BY <1>1, TrainingDataInvariant, PTL
================================================================================
