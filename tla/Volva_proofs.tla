---------------------------- MODULE Volva_proofs ----------------------------
(***************************************************************************)
(* Proofs, for any models, rooms, receivers, window and vote history: the  *)
(* votes that are aggregated are of the model whose rooms are published,   *)
(* no window that was voted on spans an outage, and a publication is       *)
(* skipped only when Freki has the same rooms already.                     *)
(***************************************************************************)
EXTENDS Volva, FiniteSetTheorems, SequenceTheorems, WellFoundedInduction, TLAPS

VoteRecords == [room : Rooms, model : Models, connections : Nat]
Payloads == [model : Models, rooms : SUBSET Rooms]

StreamTypes ==
  /\ buf \in [Receivers -> Seq(Nat)]
  /\ votes \in [Receivers -> Seq(VoteRecords)]
  /\ lastPublished \in Payloads \union {NoPrediction}
  /\ publishing \in Payloads \union {NoPrediction}
  /\ stored \in Payloads \union {NoPrediction}
  /\ connected \in BOOLEAN

\* The rows buffered came over the connection that is up; without one there
\* are none.
BuffersOfConnection ==
  \A r \in Receivers :
    /\ \A i \in DOMAIN buf[r] : buf[r][i] = connection
    /\ ~connected => buf[r] = <<>>

\* A PUT that is awaited carries what the votes say, under the model that
\* stream_loop works for.
PublishesTheVotes ==
  publishing # NoPrediction =>
    publishing.model = activeModelId /\ publishing.rooms = Aggregate(votes)

\* Until a request fails, what was last published is what the votes say, unless
\* the next PUT is under way.
PublishedTheVotes ==
  faults = 0 /\ lastPublished # NoPrediction /\ publishing = NoPrediction =>
    lastPublished.rooms = Aggregate(votes)

\* Until a request fails, Freki has what was last published.
StoredIsPublished ==
  faults = 0 /\ lastPublished # NoPrediction => stored = lastPublished

\* The inductive invariant.
IInv ==
  /\ VolvaTypeOK
  /\ StreamTypes
  /\ BuffersOfConnection
  /\ PublishesTheVotes
  /\ PublishedTheVotes
  /\ StoredIsPublished
  /\ VotesOfOneModel
  /\ WindowsAreUnbroken


LEMMA EmptyWindows ==
  ASSUME NEW S
  PROVE  LET none == [r \in Receivers |-> <<>>] IN
           /\ none \in [Receivers -> Seq(S)]
           /\ \A r \in Receivers : none[r] = <<>>
           /\ Len(<<>>) = 0 /\ DOMAIN <<>> = {}
OBVIOUS

LEMMA InitIInv == Init => IInv
<1> SUFFICES ASSUME Init PROVE IInv
  OBVIOUS
<1> USE VolvaAssumption
<1>1. /\ buf \in [Receivers -> Seq(Nat)] /\ \A r \in Receivers : buf[r] = <<>>
      /\ votes \in [Receivers -> Seq(VoteRecords)] /\ \A r \in Receivers : votes[r] = <<>>
      /\ Len(<<>>) = 0 /\ DOMAIN <<>> = {}
  BY EmptyWindows DEF Init
<1>2. VolvaTypeOK
  BY <1>1 DEF Init, VolvaTypeOK
<1>3. StreamTypes
  BY <1>1 DEF Init, StreamTypes
<1>4. BuffersOfConnection /\ VotesOfOneModel /\ WindowsAreUnbroken
  BY <1>1 DEF BuffersOfConnection, VotesOfOneModel, WindowsAreUnbroken
<1>5. PublishesTheVotes /\ PublishedTheVotes /\ StoredIsPublished
  BY DEF Init, PublishesTheVotes, PublishedTheVotes, StoredIsPublished
<1> QED BY <1>2, <1>3, <1>4, <1>5 DEF IInv

-------------------------------------------------------------------------------
(* The votes.                                                              *)

LEMMA LeastNat ==
  ASSUME NEW S, S \subseteq Nat, S # {}
  PROVE  \E n \in S : \A m \in S : n <= m
<1>1. PICK n \in S : \A m \in S : <<m, n>> \notin OpToRel(<, Nat)
  BY NatLessThanWellFounded, WFMin
<1>2. ASSUME NEW m \in S PROVE n <= m
  <2>1. <<m, n>> \in Nat \X Nat /\ m \in Nat /\ n \in Nat
    OBVIOUS
  <2>2. ~(m < n)
    BY <1>1, <2>1 DEF OpToRel
  <2> QED BY <2>1, <2>2
<1> QED BY <1>2

LEMMA CountType ==
  ASSUME NEW s \in Seq(VoteRecords), NEW v
  PROVE  Count(v, s) \in Nat /\ Count(v, s) <= Len(s)
<1> DEFINE P == {i \in DOMAIN s : s[i].room = v}
<1>1. Len(s) \in Nat /\ DOMAIN s = 1..Len(s)
  OBVIOUS
<1>2. IsFiniteSet(1..Len(s)) /\ Cardinality(1..Len(s)) = Len(s)
  BY <1>1, FS_Interval
<1>3. IsFiniteSet(P) /\ Cardinality(P) <= Cardinality(1..Len(s))
  BY <1>1, <1>2, FS_Subset
<1>4. Cardinality(P) \in Nat
  BY <1>3, FS_CardinalityType
<1> QED BY <1>2, <1>3, <1>4 DEF Count

\* The winner of a receiver's votes is a room that was voted for.
LEMMA WinnerIsVoted ==
  ASSUME NEW s \in Seq(VoteRecords), s # <<>>
  PROVE  \E i \in DOMAIN s : Winner(s) = s[i].room
<1> DEFINE Bounds == {n \in Nat : \A k \in DOMAIN s : Count(s[k].room, s) <= n}
<1>1. Len(s) \in Nat /\ DOMAIN s = 1..Len(s) /\ 1 \in DOMAIN s
  OBVIOUS
<1>2. \A k \in DOMAIN s : Count(s[k].room, s) \in Nat /\ Count(s[k].room, s) <= Len(s)
  BY CountType
<1>3. Len(s) \in Bounds
  BY <1>1, <1>2
<1>4. PICK most \in Bounds : \A n \in Bounds : most <= n
  BY <1>3, LeastNat
<1> DEFINE Top == {i \in DOMAIN s : Count(s[i].room, s) = most}
<1>5. Top # {}
  <2> SUFFICES ASSUME \A k \in DOMAIN s : Count(s[k].room, s) # most PROVE FALSE
    OBVIOUS
  <2>1. \A k \in DOMAIN s : Count(s[k].room, s) \in Nat /\ Count(s[k].room, s) < most
    BY <1>2, <1>4
  <2>2. most - 1 \in Nat
    BY <1>1, <1>4, <2>1
  <2>3. most - 1 \in Bounds
    BY <1>4, <2>1, <2>2
  <2> QED BY <1>4, <2>3
<1>6. PICK first \in Top : \A i \in Top : first <= i
  <2>1. Top \subseteq Nat
    BY <1>1
  <2> HIDE DEF Top
  <2> QED BY <1>5, <2>1, LeastNat
<1>7. /\ first \in DOMAIN s
      /\ \A k \in DOMAIN s : Count(s[k].room, s) <= Count(s[first].room, s)
      /\ \A k \in 1..(first - 1) : Count(s[k].room, s) < Count(s[first].room, s)
  <2>1. \A k \in 1..(first - 1) : k \in DOMAIN s /\ k \notin Top
    BY <1>1, <1>6
  <2> QED BY <1>2, <1>4, <1>6, <2>1
<1> QED BY <1>7 DEF Winner

LEMMA AggregateType ==
  ASSUME NEW vs \in [Receivers -> Seq(VoteRecords)]
  PROVE  Aggregate(vs) \subseteq Rooms
<1>1. ASSUME NEW r \in Receivers, vs[r] # <<>> PROVE Winner(vs[r]) \in Rooms
  <2>1. PICK i \in DOMAIN vs[r] : Winner(vs[r]) = vs[r][i].room
    BY <1>1, WinnerIsVoted
  <2>2. vs[r][i] \in VoteRecords
    OBVIOUS
  <2> QED BY <2>1, <2>2 DEF VoteRecords
<1> QED BY <1>1 DEF Aggregate

LEMMA StepUp ==
  ASSUME NEW n \in Nat, NEW i \in 1..n, i # n
  PROVE  i + 1 \in 1..n
OBVIOUS

\* A vote that is remembered is the last one, or was there before.
LEMMA RememberVote ==
  ASSUME NEW s \in Seq(VoteRecords), NEW v \in VoteRecords, Len(s) <= VoteHistory
  PROVE  /\ Remember(s, v) \in Seq(VoteRecords)
         /\ Len(Remember(s, v)) <= VoteHistory
         /\ \A i \in DOMAIN Remember(s, v) :
              Remember(s, v)[i] = v \/ \E k \in DOMAIN s : Remember(s, v)[i] = s[k]
<1> USE VolvaAssumption
<1> DEFINE t == Append(s, v)
<1>1. /\ t \in Seq(VoteRecords) /\ Len(t) = Len(s) + 1 /\ DOMAIN t = 1..(Len(s) + 1)
      /\ \A i \in 1..Len(s) : t[i] = s[i]
      /\ t[Len(s) + 1] = v
      /\ Len(s) \in Nat /\ DOMAIN s = 1..Len(s)
  OBVIOUS
<1> HIDE DEF t
<1>2. CASE Len(t) > VoteHistory
  <2>1. t # <<>>
    BY <1>1
  <2>2. /\ Tail(t) \in Seq(VoteRecords) /\ Len(Tail(t)) = Len(s)
        /\ DOMAIN Tail(t) = 1..Len(s)
        /\ \A i \in 1..Len(s) : Tail(t)[i] = t[i + 1]
    BY <1>1, <2>1, HeadTailProperties
  <2>3. ASSUME NEW i \in 1..Len(s)
        PROVE  Tail(t)[i] = v \/ \E k \in DOMAIN s : Tail(t)[i] = s[k]
    <3>1. Tail(t)[i] = t[i + 1] /\ i + 1 \in 1..(Len(s) + 1)
      BY <1>1, <2>2
    <3>2. CASE i = Len(s)
      BY <1>1, <3>1, <3>2
    <3>3. CASE i # Len(s)
      <4>1. Len(s) \in Nat /\ DOMAIN s = 1..Len(s)
        OBVIOUS
      <4>2. i + 1 \in 1..Len(s)
        BY <3>3, <4>1, StepUp
      <4> QED BY <1>1, <3>1, <4>1, <4>2
    <3> QED BY <3>2, <3>3
  <2> QED BY <1>1, <1>2, <2>2, <2>3 DEF Remember, t
<1>3. CASE ~(Len(t) > VoteHistory)
  BY <1>1, <1>3 DEF Remember, t
<1> QED BY <1>2, <1>3

-------------------------------------------------------------------------------
(* The steps.                                                              *)

\* What a row finds, the model it is handled under settled: buffers of this
\* connection, votes of the model in the holder, and what was last published
\* in agreement with them.
RowState ==
  /\ Votes \in [Receivers -> Seq(VoteRecords)]
  /\ LastPublished \in Payloads \union {NoPrediction}
  /\ \A r \in Receivers :
       /\ Buffered(r) \in Seq(Nat) /\ Len(Buffered(r)) < Window
       /\ \A i \in DOMAIN Buffered(r) : Buffered(r)[i] = connection
       /\ Len(Votes[r]) <= VoteHistory
       /\ \A i \in DOMAIN Votes[r] : Votes[r][i].model = holder /\ Votes[r][i].connections = 1
  /\ faults = 0 /\ LastPublished # NoPrediction =>
       stored = LastPublished /\ LastPublished.rooms = Aggregate(Votes)

LEMMA RowFinds ==
  ASSUME IInv, publishing = NoPrediction
  PROVE  RowState
<1>1. CASE SwapModel
  <2>1. Votes \in [Receivers -> Seq(VoteRecords)] /\ \A r \in Receivers : Votes[r] = <<>>
    BY <1>1, EmptyWindows DEF Votes
  <2>2. LastPublished = NoPrediction /\ \A r \in Receivers : Buffered(r) = <<>>
    BY <1>1 DEF LastPublished, Buffered
  <2>3. <<>> \in Seq(Nat) /\ Len(<<>>) = 0 /\ DOMAIN <<>> = {} /\ 0 < Window /\ 0 <= VoteHistory
    BY VolvaAssumption
  <2> QED BY <2>1, <2>2, <2>3 DEF RowState
<1>2. CASE ~SwapModel
  <2>1. /\ Votes = votes /\ LastPublished = lastPublished /\ holder = activeModelId
        /\ \A r \in Receivers : Buffered(r) = buf[r]
    BY <1>2 DEF Votes, LastPublished, Buffered, SwapModel
  <2> QED BY <2>1 DEF RowState, IInv, VolvaTypeOK, StreamTypes, BuffersOfConnection,
        PublishedTheVotes, StoredIsPublished, VotesOfOneModel, WindowsAreUnbroken
<1> QED BY <1>1, <1>2

\* The other task: it leaves stream_loop's state alone.
LEMMA OtherTaskIInv ==
  IInv /\ (ActivateModel \/ FetchMetadata \/ LoadModel \/ RefreshFails) => IInv'
<1> SUFFICES ASSUME IInv, ActivateModel \/ FetchMetadata \/ LoadModel \/ RefreshFails
             PROVE  IInv'
  OBVIOUS
<1>1. /\ UNCHANGED <<streamVars, connected, connection, stored>>
      /\ faults' \in 0..MaxFaults
      /\ faults' = 0 => faults = 0
      /\ active' \in Models \union {NoModel}
      /\ fetching' \in Models \union {NoModel}
      /\ holder' \in Models \union {NoModel}
  BY VolvaAssumption DEF IInv, VolvaTypeOK, ActivateModel, FetchMetadata, LoadModel,
     RefreshFails, Fault
<1>2. VolvaTypeOK'
  BY <1>1 DEF IInv, VolvaTypeOK, streamVars
<1>3. StreamTypes' /\ BuffersOfConnection' /\ VotesOfOneModel' /\ WindowsAreUnbroken'
  BY <1>1 DEF IInv, StreamTypes, BuffersOfConnection, VotesOfOneModel, WindowsAreUnbroken,
     streamVars
<1>4. PublishesTheVotes' /\ PublishedTheVotes' /\ StoredIsPublished'
  BY <1>1 DEF IInv, PublishesTheVotes, PublishedTheVotes, StoredIsPublished, Aggregate,
     streamVars
<1> QED BY <1>2, <1>3, <1>4 DEF IInv

LEMMA ConnectIInv == IInv /\ Connect => IInv'
<1> SUFFICES ASSUME IInv, Connect PROVE IInv'
  OBVIOUS
<1>1. VolvaTypeOK'
  BY VolvaAssumption DEF Connect, IInv, VolvaTypeOK, streamVars
<1>2. BuffersOfConnection'
  <2>1. \A r \in Receivers : buf'[r] = <<>>
    BY DEF Connect, IInv, BuffersOfConnection, streamVars
  <2>2. DOMAIN <<>> = {}
    OBVIOUS
  <2> QED BY <2>1, <2>2 DEF BuffersOfConnection
<1>3. StreamTypes' /\ VotesOfOneModel' /\ WindowsAreUnbroken'
  BY DEF Connect, IInv, StreamTypes, VotesOfOneModel, WindowsAreUnbroken, streamVars
<1>4. PublishesTheVotes' /\ PublishedTheVotes' /\ StoredIsPublished'
  BY DEF Connect, IInv, PublishesTheVotes, PublishedTheVotes, StoredIsPublished, Aggregate,
     streamVars
<1> QED BY <1>1, <1>2, <1>3, <1>4 DEF IInv

LEMMA DisconnectIInv == IInv /\ Disconnect => IInv'
<1> SUFFICES ASSUME IInv, Disconnect PROVE IInv'
  OBVIOUS
<1>1. /\ buf' \in [Receivers -> Seq(Nat)] /\ \A r \in Receivers : buf'[r] = <<>>
      /\ Len(<<>>) = 0 /\ DOMAIN <<>> = {}
  BY EmptyWindows DEF Disconnect
<1>2. VolvaTypeOK'
  BY <1>1, VolvaAssumption DEF Disconnect, IInv, VolvaTypeOK
<1>3. StreamTypes' /\ BuffersOfConnection' /\ VotesOfOneModel' /\ WindowsAreUnbroken'
  BY <1>1 DEF Disconnect, IInv, StreamTypes, BuffersOfConnection, VotesOfOneModel,
     WindowsAreUnbroken
<1>4. PublishesTheVotes' /\ PublishedTheVotes' /\ StoredIsPublished'
  BY DEF Disconnect, IInv, PublishesTheVotes, PublishedTheVotes, StoredIsPublished, Aggregate
<1> QED BY <1>2, <1>3, <1>4 DEF IInv

\* A row without a model and the end of the process start the loop anew.
LEMMA AnewIInv == IInv /\ (RowWithoutModel \/ Crash) => IInv'
<1> SUFFICES ASSUME IInv, RowWithoutModel \/ Crash PROVE IInv'
  OBVIOUS
<1>1. /\ buf' \in [Receivers -> Seq(Nat)] /\ \A r \in Receivers : buf'[r] = <<>>
      /\ votes' \in [Receivers -> Seq(VoteRecords)] /\ \A r \in Receivers : votes'[r] = <<>>
      /\ Len(<<>>) = 0 /\ DOMAIN <<>> = {}
  BY EmptyWindows DEF RowWithoutModel, Crash
<1>2. /\ lastPublished' = NoPrediction /\ publishing' = NoPrediction
      /\ stored' \in {stored, publishing}
      /\ connected' \in BOOLEAN
      /\ UNCHANGED <<active, connection>>
      /\ activeModelId' = NoModel
      /\ fetching' \in {fetching, NoModel} /\ holder' \in {holder, NoModel}
      /\ faults' \in 0..MaxFaults
  <2>1. faults \in 0..MaxFaults /\ MaxFaults \in Nat
    BY VolvaAssumption DEF IInv, VolvaTypeOK
  <2>2. CASE RowWithoutModel
    BY <2>1, <2>2 DEF RowWithoutModel, IInv, StreamTypes
  <2>3. CASE Crash
    <3>1. faults' \in 0..MaxFaults
      BY <2>1, <2>3 DEF Crash, Fault
    <3> QED BY <2>3, <3>1 DEF Crash
  <2> QED BY <2>2, <2>3
<1>3. VolvaTypeOK'
  BY <1>1, <1>2, VolvaAssumption DEF IInv, VolvaTypeOK
<1>4. StreamTypes' /\ BuffersOfConnection' /\ VotesOfOneModel' /\ WindowsAreUnbroken'
  BY <1>1, <1>2 DEF IInv, StreamTypes, BuffersOfConnection, VotesOfOneModel,
     WindowsAreUnbroken
<1>5. PublishesTheVotes' /\ PublishedTheVotes' /\ StoredIsPublished'
  BY <1>2 DEF PublishesTheVotes, PublishedTheVotes, StoredIsPublished
<1> QED BY <1>3, <1>4, <1>5 DEF IInv

\* A row that is no vote.
LEMMA NoVoteIInv ==
  ASSUME NEW r \in Receivers
  PROVE  IInv /\ (BufferRow(r) \/ DiscardWindow(r)) => IInv'
<1> SUFFICES ASSUME IInv, BufferRow(r) \/ DiscardWindow(r) PROVE IInv'
  OBVIOUS
<1>1. /\ RowState
      /\ votes' = Votes /\ lastPublished' = LastPublished /\ activeModelId' = holder
      /\ connected /\ publishing = NoPrediction
      /\ UNCHANGED <<active, fetching, holder, publishing, connected, connection, stored>>
      /\ faults' \in 0..MaxFaults /\ (faults' = 0 => faults = 0)
  BY RowFinds, VolvaAssumption DEF BufferRow, DiscardWindow, Fault, IInv, VolvaTypeOK
<1>2. /\ buf' \in [Receivers -> Seq(Nat)]
      /\ \A q \in Receivers :
           Len(buf'[q]) < Window /\ \A i \in DOMAIN buf'[q] : buf'[q][i] = connection
  <2>1. CASE BufferRow(r)
    <3> DEFINE row == Append(Buffered(r), connection)
    <3>1. /\ row \in Seq(Nat) /\ Len(row) = Len(Buffered(r)) + 1 /\ DOMAIN row = 1..Len(row)
          /\ row[Len(Buffered(r)) + 1] = connection
          /\ \A i \in 1..Len(Buffered(r)) : row[i] = Buffered(r)[i]
          /\ Len(Buffered(r)) \in Nat /\ DOMAIN Buffered(r) = 1..Len(Buffered(r))
      <4>1. Buffered(r) \in Seq(Nat) /\ connection \in Nat
        BY <1>1, VolvaAssumption DEF RowState, IInv, VolvaTypeOK
      <4> HIDE DEF Buffered
      <4> QED BY <4>1
    <3>2. /\ Len(row) < Window
          /\ \A q \in Receivers : buf'[q] = IF q = r THEN row ELSE Buffered(q)
          /\ buf' = [q \in Receivers |-> IF q = r THEN row ELSE Buffered(q)]
      BY <2>1, <3>1 DEF BufferRow
    <3> HIDE DEF row
    <3>3. ASSUME NEW i \in DOMAIN row PROVE row[i] = connection
      <4>1. \A k \in DOMAIN Buffered(r) : Buffered(r)[k] = connection
        BY <1>1 DEF RowState
      <4>2. CASE i = Len(Buffered(r)) + 1
        BY <3>1, <4>2
      <4>3. CASE i # Len(Buffered(r)) + 1
        <5>1. i \in 1..Len(Buffered(r))
          BY <3>1, <4>3
        <5> QED BY <3>1, <4>1, <5>1
      <4> QED BY <4>2, <4>3
    <3> QED BY <1>1, <3>1, <3>2, <3>3 DEF RowState
  <2>2. CASE DiscardWindow(r)
    <3>1. buf' = [q \in Receivers |-> IF q = r THEN <<>> ELSE Buffered(q)]
      BY <2>2 DEF DiscardWindow
    <3>2. <<>> \in Seq(Nat) /\ Len(<<>>) = 0 /\ DOMAIN <<>> = {} /\ 0 < Window
      BY VolvaAssumption
    <3> QED BY <1>1, <3>1, <3>2 DEF RowState
  <2> QED BY <2>1, <2>2
<1>3. VolvaTypeOK'
  BY <1>1, <1>2 DEF IInv, VolvaTypeOK, RowState
<1>4. StreamTypes' /\ BuffersOfConnection'
  BY <1>1, <1>2 DEF IInv, StreamTypes, BuffersOfConnection, RowState
<1>5. VotesOfOneModel' /\ WindowsAreUnbroken'
  BY <1>1 DEF VotesOfOneModel, WindowsAreUnbroken, RowState
<1>6. PublishesTheVotes' /\ PublishedTheVotes' /\ StoredIsPublished'
  <2>1. Aggregate(votes)' = Aggregate(Votes)
    BY <1>1 DEF Aggregate
  <2> QED BY <1>1, <2>1 DEF PublishesTheVotes, PublishedTheVotes, StoredIsPublished, RowState
<1> QED BY <1>3, <1>4, <1>5, <1>6 DEF IInv

\* A vote: the rooms it changes are published, or are Freki's already.
LEMMA VoteIInv ==
  ASSUME NEW r \in Receivers, NEW room \in Rooms
  PROVE  IInv /\ Vote(r, room) => IInv'
<1> SUFFICES ASSUME IInv, Vote(r, room) PROVE IInv'
  OBVIOUS
<1> DEFINE window == Append(Buffered(r), connection)
           vote == [room |-> room, model |-> holder, connections |-> Cardinality(ToSet(window))]
           now == [Votes EXCEPT ![r] = Remember(@, vote)]
           payload == [model |-> holder, rooms |-> Aggregate(now)]
<1>1. /\ RowState
      /\ votes' = now /\ lastPublished' = LastPublished /\ activeModelId' = holder
      /\ buf' = [q \in Receivers |-> IF q = r THEN <<>> ELSE Buffered(q)]
      /\ publishing' = IF LastPublished = payload THEN NoPrediction ELSE payload
      /\ connected /\ publishing = NoPrediction
      /\ UNCHANGED <<active, fetching, holder, connected, connection, stored, faults>>
  BY RowFinds DEF Vote
<1>2. holder \in Models /\ connection \in Nat
  BY VolvaAssumption DEF Vote, IInv, VolvaTypeOK
<1>3. ToSet(window) = {connection}
  <2>1. Buffered(r) \in Seq(Nat) /\ \A i \in DOMAIN Buffered(r) : Buffered(r)[i] = connection
    BY <1>1 DEF RowState
  <2>2. /\ DOMAIN window = 1..(Len(Buffered(r)) + 1)
        /\ window[Len(Buffered(r)) + 1] = connection
        /\ \A i \in 1..Len(Buffered(r)) : window[i] = Buffered(r)[i]
        /\ Len(Buffered(r)) \in Nat /\ DOMAIN Buffered(r) = 1..Len(Buffered(r))
    <3> HIDE DEF Buffered
    <3> QED BY <1>2, <2>1
  <2>3. \A i \in DOMAIN window : window[i] = connection
    <3> HIDE DEF window
    <3> SUFFICES ASSUME NEW i \in DOMAIN window PROVE window[i] = connection
      OBVIOUS
    <3>1. CASE i = Len(Buffered(r)) + 1
      BY <2>2, <3>1
    <3>2. CASE i # Len(Buffered(r)) + 1
      <4>1. i \in 1..Len(Buffered(r))
        BY <2>2, <3>2
      <4> QED BY <2>1, <2>2, <4>1
    <3> QED BY <3>1, <3>2
  <2>4. Len(Buffered(r)) + 1 \in DOMAIN window
    BY <2>2
  <2> HIDE DEF window
  <2> QED BY <2>3, <2>4 DEF ToSet
<1>4. vote \in VoteRecords /\ vote.model = holder /\ vote.connections = 1
  <2>1. Cardinality({connection}) = 1
    BY FS_Singleton
  <2> QED BY <1>2, <1>3, <2>1 DEF VoteRecords
<1> HIDE DEF window, vote
<1>5. /\ Remember(Votes[r], vote) \in Seq(VoteRecords)
      /\ Len(Remember(Votes[r], vote)) <= VoteHistory
      /\ \A i \in DOMAIN Remember(Votes[r], vote) :
           /\ Remember(Votes[r], vote)[i].model = holder
           /\ Remember(Votes[r], vote)[i].connections = 1
  <2>1. Votes[r] \in Seq(VoteRecords) /\ Len(Votes[r]) <= VoteHistory
    BY <1>1 DEF RowState
  <2>2. \A i \in DOMAIN Votes[r] : Votes[r][i].model = holder /\ Votes[r][i].connections = 1
    BY <1>1 DEF RowState
  <2> DEFINE new == Remember(Votes[r], vote)
  <2>3. /\ new \in Seq(VoteRecords) /\ Len(new) <= VoteHistory
        /\ \A i \in DOMAIN new : new[i] = vote \/ \E k \in DOMAIN Votes[r] : new[i] = Votes[r][k]
    BY <1>4, <2>1, RememberVote
  <2> HIDE DEF new
  <2>4. \A i \in DOMAIN new : new[i].model = holder /\ new[i].connections = 1
    BY <1>4, <2>2, <2>3
  <2> QED BY <2>3, <2>4 DEF new
<1>6. /\ now \in [Receivers -> Seq(VoteRecords)]
      /\ \A q \in Receivers : now[q] = IF q = r THEN Remember(Votes[r], vote) ELSE Votes[q]
  BY <1>1, <1>5 DEF RowState
<1> HIDE DEF now
<1>7. payload \in Payloads
  BY <1>2, <1>6, AggregateType DEF Payloads
<1>8. payload # NoPrediction /\ payload.model = holder /\ payload.rooms = Aggregate(now)
  BY <1>7, VolvaAssumption DEF Payloads
<1> HIDE DEF payload
<1>9. /\ buf' \in [Receivers -> Seq(Nat)]
      /\ \A q \in Receivers :
           Len(buf'[q]) < Window /\ \A i \in DOMAIN buf'[q] : buf'[q][i] = connection
  <2>1. <<>> \in Seq(Nat) /\ Len(<<>>) = 0 /\ DOMAIN <<>> = {} /\ 0 < Window
    BY VolvaAssumption
  <2> QED BY <1>1, <2>1 DEF RowState
<1>10. VolvaTypeOK'
  BY <1>1, <1>5, <1>6, <1>9 DEF IInv, VolvaTypeOK, RowState
<1>11. StreamTypes' /\ BuffersOfConnection'
  BY <1>1, <1>6, <1>7, <1>9 DEF IInv, StreamTypes, BuffersOfConnection, RowState
<1>12. VotesOfOneModel' /\ WindowsAreUnbroken'
  <2>1. ASSUME NEW q \in Receivers, NEW i \in DOMAIN now[q]
        PROVE  now[q][i].model = holder /\ now[q][i].connections = 1
    <3>1. CASE q = r
      BY <1>5, <1>6, <3>1
    <3>2. CASE q # r
      BY <1>1, <1>6, <3>2 DEF RowState
    <3> QED BY <3>1, <3>2
  <2> QED BY <1>1, <1>8, <2>1 DEF VotesOfOneModel, WindowsAreUnbroken
<1>13. PublishesTheVotes' /\ PublishedTheVotes' /\ StoredIsPublished'
  <2>1. Aggregate(votes)' = Aggregate(now)
    BY <1>1 DEF Aggregate
  <2> QED BY <1>1, <1>8, <2>1 DEF PublishesTheVotes, PublishedTheVotes, StoredIsPublished,
        RowState
<1> QED BY <1>10, <1>11, <1>12, <1>13 DEF IInv

\* The end of a PUT.
LEMMA PutIInv == IInv /\ (PutSucceeds \/ PutFails) => IInv'
<1> SUFFICES ASSUME IInv, PutSucceeds \/ PutFails PROVE IInv'
  OBVIOUS
<1>1. /\ publishing # NoPrediction /\ publishing' = NoPrediction
      /\ UNCHANGED <<active, fetching, holder, buf, votes, activeModelId, connected, connection>>
      /\ stored' \in {stored, publishing} /\ lastPublished' \in {lastPublished, publishing}
      /\ faults' \in 0..MaxFaults
  <2>1. faults \in 0..MaxFaults /\ MaxFaults \in Nat
    BY VolvaAssumption DEF IInv, VolvaTypeOK
  <2> QED BY <2>1 DEF PutSucceeds, PutFails, Fault
<1>2. VolvaTypeOK' /\ StreamTypes'
  BY <1>1 DEF IInv, VolvaTypeOK, StreamTypes
<1>3. BuffersOfConnection' /\ VotesOfOneModel' /\ WindowsAreUnbroken'
  BY <1>1 DEF IInv, BuffersOfConnection, VotesOfOneModel, WindowsAreUnbroken
<1>4. PublishesTheVotes' /\ PublishedTheVotes' /\ StoredIsPublished'
  <2>1. Aggregate(votes)' = Aggregate(votes)
    BY <1>1 DEF Aggregate
  <2>2. CASE PutSucceeds
    BY <1>1, <2>1, <2>2 DEF PutSucceeds, IInv, PublishesTheVotes, PublishedTheVotes,
       StoredIsPublished
  <2>3. CASE PutFails
    <3>1. faults' # 0
      BY <2>3 DEF PutFails, Fault, IInv, VolvaTypeOK
    <3> QED BY <1>1, <3>1 DEF PublishesTheVotes, PublishedTheVotes, StoredIsPublished
  <2> QED BY <2>2, <2>3
<1> QED BY <1>2, <1>3, <1>4 DEF IInv

LEMMA NextIInv == IInv /\ [Next]_volvaVars => IInv'
<1> SUFFICES ASSUME IInv, [Next]_volvaVars PROVE IInv'
  OBVIOUS
<1>1. CASE ActivateModel \/ FetchMetadata \/ LoadModel \/ RefreshFails
  BY <1>1, OtherTaskIInv
<1>2. CASE Connect \/ Disconnect
  BY <1>2, ConnectIInv, DisconnectIInv
<1>3. CASE RowWithoutModel \/ Crash
  BY <1>3, AnewIInv
<1>4. CASE \E r \in Receivers : BufferRow(r) \/ DiscardWindow(r)
  BY <1>4, NoVoteIInv
<1>5. CASE \E r \in Receivers, room \in Rooms : Vote(r, room)
  BY <1>5, VoteIInv
<1>6. CASE PutSucceeds \/ PutFails
  BY <1>6, PutIInv
<1>7. CASE UNCHANGED volvaVars
  BY <1>7 DEF volvaVars, streamVars, IInv, VolvaTypeOK, StreamTypes, BuffersOfConnection,
     PublishesTheVotes, PublishedTheVotes, StoredIsPublished, VotesOfOneModel,
     WindowsAreUnbroken, Aggregate
<1> QED BY <1>1, <1>2, <1>3, <1>4, <1>5, <1>6, <1>7 DEF Next

\* In every reachable state the inductive invariant holds.
THEOREM VolvaInvariant == Spec => []IInv
<1> QED BY InitIInv, NextIInv, PTL DEF Spec

\* The type invariant: no window overflows, no receiver has more votes than
\* VOTE_HISTORY.
THEOREM VolvaTypes == Spec => []VolvaTypeOK
<1>1. IInv => VolvaTypeOK
  BY DEF IInv
<1> QED BY <1>1, VolvaInvariant, PTL

\* The votes that are aggregated are all of the model whose rooms are
\* published, whenever the other task swaps the holder.
THEOREM VolvaOneModel == Spec => []VotesOfOneModel
<1>1. IInv => VotesOfOneModel
  BY DEF IInv
<1> QED BY <1>1, VolvaInvariant, PTL

\* No window that was voted on spans an outage of the stream.
THEOREM VolvaUnbroken == Spec => []WindowsAreUnbroken
<1>1. IInv => WindowsAreUnbroken
  BY DEF IInv
<1> QED BY <1>1, VolvaInvariant, PTL

\* Until a request fails, a publication that is skipped is Freki's row already.
THEOREM VolvaSkip == Spec => []SkipIsHarmless
<1>1. IInv => SkipIsHarmless
  BY DEF IInv, StoredIsPublished, PublishedTheVotes, SkipIsHarmless
<1> QED BY <1>1, VolvaInvariant, PTL
=============================================================================
