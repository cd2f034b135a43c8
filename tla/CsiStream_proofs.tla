--------------------------- MODULE CsiStream_proofs ---------------------------
(***************************************************************************)
(* Proofs, for any number of Geri processes, receivers and packets, any    *)
(* queue, batch and poll size: no packet is stored twice, none vanishes    *)
(* without an excuse, and the stream emits the rows of the table in the    *)
(* order of their times and passes over none but late ones.                *)
(***************************************************************************)
EXTENDS CsiStream, FiniteSetTheorems, SequenceTheorems, WellFoundedInduction, TLAPS

Once(s) == \A i, j \in DOMAIN s : i # j => s[i] # s[j]
Disjoint(S, T) == S \intersect T = {}

\* The types of what GeriTypeOK leaves open, and the size of a batch while the
\* writer may still add to it.
Shapes ==
  /\ queue \in [Replicas -> Seq(Packets)]
  /\ batch \in [Replicas -> Seq(Packets)]
  /\ cache \in [Replicas -> SUBSET Receivers]
  /\ writer \in [Replicas -> [at : {"get", "lookup", "heartbeat", "insert", "final", "stopped"},
                              hand : {{}} \union {{p} : p \in Packets}]]
  /\ table \in Seq(Packets)
  /\ inDoubt \subseteq Seq(Packets)
  /\ excused \subseteq Packets
  /\ \A g \in Replicas :
       /\ writer[g].at \in {"get", "lookup", "heartbeat"} => Len(batch[g]) < BatchSize
       /\ writer[g].at = "stopped" => batch[g] = <<>>

Anywhere ==
  ToSet(table) \union excused \union (UNION {Held(g) : g \in Replicas})
    \union (UNION {ToSet(rows) : rows \in inDoubt})

\* Every packet anywhere has arrived: the next one is new.
AllArrived ==
  \A p \in Anywhere : p.time <= arrived

\* A process has a packet in one place, and there once.
HeldOnce(g) ==
  /\ Once(queue[g]) /\ Once(batch[g])
  /\ Disjoint(ToSet(queue[g]), ToSet(batch[g]))
  /\ Disjoint(ToSet(queue[g]) \union ToSet(batch[g]), writer[g].hand)

\* No two of the processes, the table and the inserts in doubt have a packet
\* in common.
OnePlace ==
  /\ Once(table)
  /\ \A g \in Replicas :
       HeldOnce(g) /\ Disjoint(Held(g), ToSet(table))
  /\ \A g, h \in Replicas : g # h => Disjoint(Held(g), Held(h))
  /\ \A rows \in inDoubt :
       /\ Once(rows) /\ Disjoint(ToSet(rows), ToSet(table))
       /\ \A g \in Replicas : Disjoint(ToSet(rows), Held(g))
  /\ \A rows, others \in inDoubt : rows # others => Disjoint(ToSet(rows), ToSet(others))

\* The inductive invariant of Geri.
GInv ==
  /\ GeriTypeOK
  /\ Shapes
  /\ AllArrived
  /\ OnePlace
  /\ NothingVanishes

\* What the stream has emitted is stored, ends before or at the cursor, and
\* the cursor is the last row emitted or the tail the stream began at.
CursorKeepsUp ==
  /\ emitted \in Seq(Nat)
  /\ cursor = NoCursor => emitted = <<>>
  /\ cursor # NoCursor =>
       /\ cursor \in Stored
       /\ cursor = start \/ cursor \in ToSet(emitted)
       /\ \A i \in DOMAIN emitted : emitted[i] <= cursor

\* The inductive invariant of the stream.
SInv ==
  /\ StreamTypeOK
  /\ CursorKeepsUp
  /\ StreamInOrder
  /\ MissesOnlyLate

-------------------------------------------------------------------------------
(* Sequences without repetition.                                           *)

LEMMA OnceNone == ToSet(<<>>) = {} /\ Once(<<>>) /\ Len(<<>>) = 0
BY DEF ToSet, Once

LEMMA ToSetNone ==
  ASSUME NEW S, NEW s \in Seq(S)
  PROVE  ToSet(s) \subseteq S /\ (s # <<>> => ToSet(s) # {})
<1>1. Len(s) \in Nat /\ DOMAIN s = 1..Len(s) /\ \A i \in 1..Len(s) : s[i] \in S
  OBVIOUS
<1>2. s # <<>> => 1 \in DOMAIN s
  OBVIOUS
<1> QED BY <1>1, <1>2 DEF ToSet

LEMMA OnceAppend ==
  ASSUME NEW S, NEW s \in Seq(S), NEW p \in S
  PROVE  /\ Append(s, p) \in Seq(S)
         /\ Len(Append(s, p)) = Len(s) + 1
         /\ ToSet(Append(s, p)) = ToSet(s) \union {p}
         /\ Once(s) /\ p \notin ToSet(s) => Once(Append(s, p))
<1> DEFINE t == Append(s, p)
           n == Len(s)
<1>1. /\ t \in Seq(S) /\ Len(t) = n + 1 /\ DOMAIN t = 1..(n + 1)
      /\ \A i \in 1..n : t[i] = s[i]
      /\ t[n + 1] = p
      /\ n \in Nat /\ DOMAIN s = 1..n
  OBVIOUS
<1> HIDE DEF t, n
<1>2. \A i \in 1..(n + 1) : i \in 1..n \/ i = n + 1
  BY <1>1
<1>3. ToSet(t) = ToSet(s) \union {p}
  BY <1>1, <1>2 DEF ToSet
<1>4. Once(s) /\ p \notin ToSet(s) => Once(t)
  BY <1>1, <1>2 DEF ToSet, Once
<1> QED BY <1>1, <1>3, <1>4 DEF t, n

LEMMA OnceTail ==
  ASSUME NEW S, NEW s \in Seq(S), s # <<>>
  PROVE  /\ Head(s) \in S /\ Tail(s) \in Seq(S)
         /\ Len(Tail(s)) <= Len(s)
         /\ ToSet(s) = ToSet(Tail(s)) \union {Head(s)}
         /\ Once(s) => Once(Tail(s)) /\ Head(s) \notin ToSet(Tail(s))
<1> DEFINE t == Tail(s)
           n == Len(s)
<1>1. /\ Head(s) \in S /\ t \in Seq(S) /\ Len(t) = n - 1
      /\ \A i \in 1..(n - 1) : t[i] = s[i + 1]
      /\ n \in Nat \ {0} /\ DOMAIN s = 1..n /\ DOMAIN t = 1..(n - 1)
      /\ Head(s) = s[1]
  <2>1. n \in Nat /\ n # 0 /\ DOMAIN s = 1..n
    OBVIOUS
  <2>2. /\ Head(s) \in S /\ t \in Seq(S) /\ Len(t) = n - 1
        /\ \A i \in 1..Len(t) : t[i] = s[i + 1]
    BY HeadTailProperties
  <2>3. DOMAIN t = 1..Len(t) /\ Head(s) = s[1]
    BY <2>2
  <2> QED BY <2>1, <2>2, <2>3
<1> HIDE DEF t, n
<1>2. \A i \in 1..n : i = 1 \/ (i - 1 \in 1..(n - 1) /\ i = (i - 1) + 1)
  BY <1>1
<1>3. \A i \in 1..(n - 1) : i + 1 \in 1..n /\ i + 1 # 1
  BY <1>1
<1>4. ToSet(s) = ToSet(t) \union {Head(s)}
  <2>1. ASSUME NEW i \in 1..n PROVE s[i] \in ToSet(t) \union {Head(s)}
    <3>1. CASE i = 1
      BY <1>1, <3>1
    <3>2. CASE i # 1
      <4> DEFINE k == i - 1
      <4>1. k \in 1..(n - 1) /\ i = k + 1
        BY <1>2, <3>2
      <4> HIDE DEF k
      <4> QED BY <1>1, <4>1 DEF ToSet
    <3> QED BY <3>1, <3>2
  <2>2. 1 \in 1..n
    BY <1>1
  <2> QED BY <1>1, <1>3, <2>1, <2>2 DEF ToSet
<1>5. Once(s) => Once(t) /\ Head(s) \notin ToSet(t)
  <2> SUFFICES ASSUME Once(s) PROVE Once(t) /\ Head(s) \notin ToSet(t)
    OBVIOUS
  <2>1. \A i, k \in 1..(n - 1) : i # k => i + 1 # k + 1
    BY <1>1
  <2>2. Once(t)
    <3> SUFFICES ASSUME NEW i \in 1..(n - 1), NEW k \in 1..(n - 1), i # k PROVE t[i] # t[k]
      BY <1>1 DEF Once
    <3>1. i + 1 \in 1..n /\ k + 1 \in 1..n /\ i + 1 # k + 1
      BY <1>3, <2>1
    <3>2. s[i + 1] # s[k + 1]
      BY <1>1, <3>1 DEF Once
    <3> QED BY <1>1, <3>2
  <2>3. 1 \in 1..n
    BY <1>1
  <2>4. Head(s) \notin ToSet(t)
    BY <1>1, <1>3, <2>3 DEF Once, ToSet
  <2> QED BY <2>2, <2>4
<1>6. Len(t) <= n
  BY <1>1
<1> QED BY <1>1, <1>4, <1>5, <1>6 DEF t, n

LEMMA OnceConcat ==
  ASSUME NEW S, NEW s \in Seq(S), NEW t \in Seq(S)
  PROVE  /\ s \o t \in Seq(S)
         /\ ToSet(s \o t) = ToSet(s) \union ToSet(t)
         /\ Once(s) /\ Once(t) /\ Disjoint(ToSet(s), ToSet(t)) => Once(s \o t)
<1> DEFINE u == s \o t
           m == Len(s)
           n == Len(t)
<1>1. /\ u \in Seq(S) /\ Len(u) = m + n /\ DOMAIN u = 1..(m + n)
      /\ \A i \in 1..(m + n) : u[i] = IF i <= m THEN s[i] ELSE t[i - m]
      /\ m \in Nat /\ n \in Nat /\ DOMAIN s = 1..m /\ DOMAIN t = 1..n
  BY ConcatProperties
<1> HIDE DEF u, m, n
<1>2. \A i \in 1..(m + n) : (i \in 1..m /\ i <= m) \/ (i - m \in 1..n /\ ~(i <= m))
  BY <1>1
<1>3. \A i \in 1..m : i \in 1..(m + n) /\ i <= m
  BY <1>1
<1>4. \A i \in 1..n : i + m \in 1..(m + n) /\ ~(i + m <= m) /\ (i + m) - m = i
  BY <1>1
<1>5. \A i \in 1..m : u[i] = s[i]
  BY <1>1, <1>3
<1>6. \A i \in 1..n : u[i + m] = t[i]
  BY <1>1, <1>4
<1>7. ToSet(u) = ToSet(s) \union ToSet(t)
  <2>1. ToSet(u) \subseteq ToSet(s) \union ToSet(t)
    BY <1>1, <1>2 DEF ToSet
  <2>2. ToSet(s) \subseteq ToSet(u)
    BY <1>1, <1>3, <1>5 DEF ToSet
  <2>3. ToSet(t) \subseteq ToSet(u)
    <3> SUFFICES ASSUME NEW i \in 1..n PROVE t[i] \in ToSet(u)
      BY <1>1 DEF ToSet
    <3>1. i + m \in DOMAIN u /\ u[i + m] = t[i]
      BY <1>1, <1>4, <1>6
    <3> QED BY <3>1 DEF ToSet
  <2> QED BY <2>1, <2>2, <2>3
<1>8. Once(s) /\ Once(t) /\ Disjoint(ToSet(s), ToSet(t)) => Once(u)
  <2> SUFFICES ASSUME Once(s), Once(t), Disjoint(ToSet(s), ToSet(t)),
                      NEW i \in 1..(m + n), NEW k \in 1..(m + n), i # k
               PROVE  u[i] # u[k]
    BY <1>1 DEF Once
  <2>1. CASE i <= m /\ k <= m
    BY <1>1, <1>2, <2>1 DEF Once
  <2>2. CASE ~(i <= m) /\ ~(k <= m)
    <3>1. i - m \in 1..n /\ k - m \in 1..n /\ i - m # k - m
      BY <1>1, <1>2, <2>2
    <3> QED BY <1>1, <2>2, <3>1 DEF Once
  <2>3. CASE i <= m /\ ~(k <= m)
    <3>1. u[i] \in ToSet(s) /\ u[k] \in ToSet(t)
      BY <1>1, <1>2, <2>3 DEF ToSet
    <3> QED BY <3>1 DEF Disjoint
  <2>4. CASE ~(i <= m) /\ k <= m
    <3>1. u[i] \in ToSet(t) /\ u[k] \in ToSet(s)
      BY <1>1, <1>2, <2>4 DEF ToSet
    <3> QED BY <3>1 DEF Disjoint
  <2> QED BY <2>1, <2>2, <2>3, <2>4
<1> QED BY <1>1, <1>7, <1>8 DEF u, m, n

LEMMA TimesOf ==
  ASSUME NEW s
  PROVE  {s[i].time : i \in DOMAIN s} = {p.time : p \in ToSet(s)}
BY DEF ToSet

-------------------------------------------------------------------------------
(* Where the packets are.                                                  *)

LEMMA DoubtAnywhere == \A rows \in inDoubt : ToSet(rows) \subseteq Anywhere
BY DEF Anywhere

Others(g) ==
  \A h \in Replicas : h # g =>
    queue'[h] = queue[h] /\ batch'[h] = batch[h] /\ writer'[h] = writer[h]

\* A step of one process that leaves the table alone: it may take in a new
\* packet, and what it gives up is excused.
LEMMA MemoryStep ==
  ASSUME AllArrived, OnePlace, NothingVanishes, arrived \in Nat,
         NEW g \in Replicas, NEW new,
         UNCHANGED <<table, inDoubt>>, Others(g),
         \/ new = {} /\ arrived' = arrived
         \/ arrived' = arrived + 1 /\ \E p \in new : new = {p} /\ p.time = arrived + 1,
         \A p \in Anywhere : p.time \in Nat,
         HeldOnce(g)',
         Held(g)' \subseteq Held(g) \union new,
         excused \subseteq excused', excused' \subseteq excused \union Held(g) \union new,
         Held(g) \union new \subseteq Held(g)' \union excused'
  PROVE  AllArrived' /\ OnePlace' /\ NothingVanishes'
<1>1. \A h \in Replicas : h # g => Held(h)' = Held(h) /\ (HeldOnce(h) => HeldOnce(h)')
  BY DEF Others, Held, HeldOnce
<1>2. /\ \A p \in Anywhere : p.time <= arrived /\ p \notin new
      /\ \A p \in new : p.time <= arrived'
      /\ arrived <= arrived'
  BY DEF AllArrived, Anywhere
<1>3. AllArrived'
  <2>1. ASSUME NEW p \in Anywhere' PROVE p \in Anywhere \union new
    <3>1. CASE p \in ToSet(table) \/ \E rows \in inDoubt : p \in ToSet(rows)
      BY <3>1, DoubtAnywhere DEF Anywhere
    <3>2. CASE p \in excused'
      BY <3>2 DEF Anywhere
    <3>3. CASE \E h \in Replicas : p \in Held(h)'
      BY <1>1, <3>3 DEF Anywhere
    <3>4. ToSet(table)' = ToSet(table) /\ inDoubt' = inDoubt
      OBVIOUS
    <3> QED BY <2>1, <3>1, <3>2, <3>3, <3>4 DEF Anywhere
  <2>2. ASSUME NEW p \in Anywhere' PROVE p.time <= arrived'
    <3>1. CASE p \in Anywhere
      <4>1. p.time \in Nat /\ p.time <= arrived /\ arrived' \in Nat
        BY <1>2, <3>1
      <4> QED BY <1>2, <4>1
    <3>2. CASE p \in new
      BY <1>2, <3>2
    <3> QED BY <2>1, <3>1, <3>2
  <2> QED BY <2>2 DEF AllArrived, Anywhere
<1>4. OnePlace'
  <2>1. /\ Disjoint(new, ToSet(table))
        /\ \A h \in Replicas : Disjoint(new, Held(h))
        /\ \A rows \in inDoubt : Disjoint(new, ToSet(rows))
    <3>1. Disjoint(new, ToSet(table))
      BY <1>2 DEF Disjoint, Anywhere
    <3>2. \A h \in Replicas : Disjoint(new, Held(h))
      BY <1>2 DEF Disjoint, Anywhere
    <3>3. \A rows \in inDoubt : Disjoint(new, ToSet(rows))
      BY <1>2, DoubtAnywhere DEF Disjoint
    <3> QED BY <3>1, <3>2, <3>3
  <2>2. Once(table)' /\ \A h \in Replicas : HeldOnce(h)' /\ Disjoint(Held(h), ToSet(table))'
    BY <1>1, <2>1 DEF OnePlace, Disjoint
  <2>3. \A h, o \in Replicas : h # o => Disjoint(Held(h), Held(o))'
    BY <1>1, <2>1 DEF OnePlace, Disjoint
  <2>4. \A rows \in inDoubt' :
          /\ Once(rows) /\ Disjoint(ToSet(rows), ToSet(table)')
          /\ \A h \in Replicas : Disjoint(ToSet(rows), Held(h)')
    BY <1>1, <2>1 DEF OnePlace, Disjoint
  <2>5. \A rows, others \in inDoubt' : rows # others => Disjoint(ToSet(rows), ToSet(others))
    BY DEF OnePlace
  <2> QED BY <2>2, <2>3, <2>4, <2>5 DEF OnePlace
<1>5. NothingVanishes'
  <2> SUFFICES ASSUME NEW t \in 1..arrived', t \notin Stored'
               PROVE  \E p \in excused' \union UNION {Held(h)' : h \in Replicas} : p.time = t
    BY DEF NothingVanishes
  <2>1. Stored' = Stored
    BY DEF Stored
  <2>2. CASE t \in 1..arrived
    <3>1. PICK p \in excused \union UNION {Held(h) : h \in Replicas} : p.time = t
      BY <2>1, <2>2 DEF NothingVanishes
    <3>2. p \in excused' \union UNION {Held(h)' : h \in Replicas}
      BY <1>1, <3>1
    <3> QED BY <3>1, <3>2
  <2>3. CASE t \notin 1..arrived
    <3>1. t = arrived + 1 /\ \E p \in new : p.time = t
      BY <2>3
    <3> QED BY <3>1
  <2> QED BY <2>2, <2>3
<1> QED BY <1>3, <1>4, <1>5

\* A batch is committed: it leaves the process for the table.
LEMMA CommitStep ==
  ASSUME AllArrived, OnePlace, NothingVanishes,
         NEW g \in Replicas, table \in Seq(Packets), batch[g] \in Seq(Packets),
         UNCHANGED <<arrived, inDoubt, excused>>, Others(g),
         table' = table \o batch[g],
         HeldOnce(g)',
         Held(g)' \subseteq Held(g), Disjoint(Held(g)', ToSet(batch[g])),
         Held(g) \subseteq Held(g)' \union ToSet(batch[g])
  PROVE  AllArrived' /\ OnePlace' /\ NothingVanishes'
<1>1. \A h \in Replicas : h # g => Held(h)' = Held(h) /\ (HeldOnce(h) => HeldOnce(h)')
  BY DEF Others, Held, HeldOnce
<1>2. ToSet(batch[g]) \subseteq Held(g)
  BY DEF Held
<1>3. /\ ToSet(table') = ToSet(table) \union ToSet(batch[g])
      /\ Once(table')
  BY OnceConcat, <1>2 DEF OnePlace, HeldOnce, Disjoint
<1>4. AllArrived'
  <2>1. \A h \in Replicas : Held(h)' \subseteq Anywhere
    BY <1>1 DEF Anywhere
  <2>2. ToSet(table') \subseteq Anywhere
    BY <1>2, <1>3 DEF Anywhere
  <2>3. excused' \subseteq Anywhere /\ inDoubt' = inDoubt
    BY DEF Anywhere
  <2>4. Anywhere' \subseteq Anywhere
    BY <2>1, <2>2, <2>3, DoubtAnywhere DEF Anywhere
  <2> QED BY <2>4 DEF AllArrived
<1>5. OnePlace'
  <2>1. \A h \in Replicas : Held(h)' \subseteq Held(h) /\ Disjoint(Held(h)', ToSet(batch[g]))
    BY <1>1, <1>2 DEF OnePlace, Disjoint
  <2>2. \A h \in Replicas : HeldOnce(h)' /\ Disjoint(Held(h), ToSet(table))'
    BY <1>1, <1>3, <2>1 DEF OnePlace, Disjoint
  <2>3. \A h, o \in Replicas : h # o => Disjoint(Held(h), Held(o))'
    BY <2>1 DEF OnePlace, Disjoint
  <2>4. \A rows \in inDoubt' :
          /\ Once(rows) /\ Disjoint(ToSet(rows), ToSet(table'))
          /\ \A h \in Replicas : Disjoint(ToSet(rows), Held(h)')
    BY <1>2, <1>3, <2>1 DEF OnePlace, Disjoint
  <2>5. \A rows, others \in inDoubt' : rows # others => Disjoint(ToSet(rows), ToSet(others))
    BY DEF OnePlace
  <2> QED BY <1>3, <2>2, <2>3, <2>4, <2>5 DEF OnePlace
<1>6. NothingVanishes'
  <2> SUFFICES ASSUME NEW t \in 1..arrived, t \notin Stored'
               PROVE  \E p \in excused' \union UNION {Held(h)' : h \in Replicas} : p.time = t
    BY DEF NothingVanishes
  <2>1. /\ Stored = {p.time : p \in ToSet(table)}
        /\ Stored' = {p.time : p \in ToSet(table')}
    BY TimesOf DEF Stored
  <2>2. PICK p \in excused \union UNION {Held(h) : h \in Replicas} : p.time = t
    BY <1>3, <2>1 DEF NothingVanishes
  <2>3. p \notin ToSet(batch[g])
    BY <1>3, <2>1, <2>2
  <2>4. p \in excused' \union UNION {Held(h)' : h \in Replicas}
    BY <1>1, <2>2, <2>3
  <2> QED BY <2>2, <2>4
<1> QED BY <1>4, <1>5, <1>6

\* A batch leaves the process with its commit in doubt.
LEMMA DoubtStep ==
  ASSUME AllArrived, OnePlace, NothingVanishes,
         NEW g \in Replicas,
         UNCHANGED <<arrived, table>>, Others(g),
         inDoubt' = inDoubt \union {batch[g]},
         HeldOnce(g)',
         Held(g)' \subseteq Held(g), Disjoint(Held(g)', ToSet(batch[g])),
         excused \subseteq excused', excused' \subseteq excused \union Held(g),
         Held(g) \subseteq Held(g)' \union excused'
  PROVE  AllArrived' /\ OnePlace' /\ NothingVanishes'
<1>1. \A h \in Replicas : h # g => Held(h)' = Held(h) /\ (HeldOnce(h) => HeldOnce(h)')
  BY DEF Others, Held, HeldOnce
<1>2. ToSet(batch[g]) \subseteq Held(g)
  BY DEF Held
<1>3. AllArrived'
  <2>1. \A h \in Replicas : Held(h)' \subseteq Anywhere
    BY <1>1 DEF Anywhere
  <2>2. excused' \subseteq Anywhere /\ ToSet(table)' \subseteq Anywhere
    BY DEF Anywhere
  <2>3. \A rows \in inDoubt' : ToSet(rows) \subseteq Anywhere
    BY <1>2, DoubtAnywhere DEF Anywhere
  <2>4. Anywhere' \subseteq Anywhere
    BY <2>1, <2>2, <2>3 DEF Anywhere
  <2> QED BY <2>4 DEF AllArrived
<1>4. OnePlace'
  <2>1. \A h \in Replicas : Held(h)' \subseteq Held(h) /\ Disjoint(Held(h)', ToSet(batch[g]))
    BY <1>1, <1>2 DEF OnePlace, Disjoint
  <2>2. \A h \in Replicas : HeldOnce(h)' /\ Disjoint(Held(h), ToSet(table))'
    BY <1>1, <2>1 DEF OnePlace, Disjoint
  <2>3. \A h, o \in Replicas : h # o => Disjoint(Held(h), Held(o))'
    BY <2>1 DEF OnePlace, Disjoint
  <2>4. /\ Once(batch[g]) /\ Disjoint(ToSet(batch[g]), ToSet(table))
        /\ \A rows \in inDoubt : Disjoint(ToSet(rows), ToSet(batch[g]))
    BY <1>2 DEF OnePlace, HeldOnce, Disjoint
  <2>5. \A rows \in inDoubt' :
          /\ Once(rows) /\ Disjoint(ToSet(rows), ToSet(table'))
          /\ \A h \in Replicas : Disjoint(ToSet(rows), Held(h)')
    BY <2>1, <2>4 DEF OnePlace, Disjoint
  <2>6. \A rows, others \in inDoubt' : rows # others => Disjoint(ToSet(rows), ToSet(others))
    BY <2>4 DEF OnePlace, Disjoint
  <2> QED BY <2>2, <2>3, <2>5, <2>6 DEF OnePlace
<1>5. NothingVanishes'
  <2> SUFFICES ASSUME NEW t \in 1..arrived, t \notin Stored
               PROVE  \E p \in excused' \union UNION {Held(h)' : h \in Replicas} : p.time = t
    BY DEF NothingVanishes, Stored
  <2>1. PICK p \in excused \union UNION {Held(h) : h \in Replicas} : p.time = t
    BY DEF NothingVanishes
  <2>2. p \in excused' \union UNION {Held(h)' : h \in Replicas}
    BY <1>1, <2>1
  <2> QED BY <2>1, <2>2
<1> QED BY <1>3, <1>4, <1>5

\* An insert in doubt turns out to be committed, or not.
LEMMA LandStep ==
  ASSUME AllArrived, OnePlace, NothingVanishes, table \in Seq(Packets),
         NEW rows \in inDoubt, rows \in Seq(Packets), Land(rows)
  PROVE  AllArrived' /\ OnePlace' /\ NothingVanishes'
<1>1. /\ \A h \in Replicas : Held(h)' = Held(h) /\ (HeldOnce(h) => HeldOnce(h)')
      /\ inDoubt' = inDoubt \ {rows} /\ excused' = excused /\ arrived' = arrived
      /\ table' \in {table, table \o rows}
  BY DEF Land, Held, HeldOnce
<1>2. /\ ToSet(table) \subseteq ToSet(table')
      /\ ToSet(table') \subseteq ToSet(table) \union ToSet(rows)
      /\ Once(table')
  <2>1. CASE table' = table
    BY <2>1 DEF OnePlace
  <2>2. CASE table' = table \o rows
    <3>1. Once(table) /\ Once(rows) /\ Disjoint(ToSet(table), ToSet(rows))
      BY DEF OnePlace, Disjoint
    <3>2. ToSet(table \o rows) = ToSet(table) \union ToSet(rows) /\ Once(table \o rows)
      BY <3>1, OnceConcat
    <3> QED BY <2>2, <3>2
  <2> QED BY <1>1, <2>1, <2>2
<1>3. AllArrived'
  <2>1. ToSet(table') \subseteq Anywhere
    BY <1>2, DoubtAnywhere DEF Anywhere
  <2>2. Anywhere' \subseteq Anywhere
    BY <1>1, <2>1, DoubtAnywhere DEF Anywhere
  <2> QED BY <1>1, <2>2 DEF AllArrived
<1>4. OnePlace'
  <2>1. \A h \in Replicas : HeldOnce(h)' /\ Disjoint(Held(h), ToSet(table))'
    BY <1>1, <1>2 DEF OnePlace, Disjoint
  <2>2. \A h, o \in Replicas : h # o => Disjoint(Held(h), Held(o))'
    BY <1>1 DEF OnePlace
  <2>3. \A others \in inDoubt' :
          /\ Once(others) /\ Disjoint(ToSet(others), ToSet(table'))
          /\ \A h \in Replicas : Disjoint(ToSet(others), Held(h)')
    BY <1>1, <1>2 DEF OnePlace, Disjoint
  <2>4. \A some, others \in inDoubt' : some # others => Disjoint(ToSet(some), ToSet(others))
    BY <1>1 DEF OnePlace
  <2> QED BY <1>2, <2>1, <2>2, <2>3, <2>4 DEF OnePlace
<1>5. NothingVanishes'
  <2>1. /\ Stored = {p.time : p \in ToSet(table)}
        /\ Stored' = {p.time : p \in ToSet(table')}
    BY TimesOf DEF Stored
  <2>2. Stored \subseteq Stored'
    BY <1>2, <2>1
  <2> QED BY <1>1, <2>2 DEF NothingVanishes
<1> QED BY <1>3, <1>4, <1>5

-------------------------------------------------------------------------------
(* The steps of Geri.                                                      *)

Stations == {"get", "lookup", "heartbeat", "insert", "final", "stopped"}

\* The types of one process.
Local(g) ==
  /\ queue[g] \in Seq(Packets) /\ Len(queue[g]) <= QueueSize
  /\ batch[g] \in Seq(Packets)
  /\ cache[g] \subseteq Receivers
  /\ writer[g] \in [at : Stations, hand : {{}} \union {{p} : p \in Packets}]
  /\ writer[g].hand # {} <=> writer[g].at \in {"lookup", "heartbeat"}
  /\ writer[g].at \in {"insert", "final"} => Len(batch[g]) \in 1..BatchSize
  /\ writer[g].at \in {"get", "lookup", "heartbeat"} => Len(batch[g]) < BatchSize
  /\ writer[g].at = "stopped" => batch[g] = <<>>

\* The step is one of process g.
Frame(g) ==
  /\ queue' = [queue EXCEPT ![g] = queue'[g]]
  /\ batch' = [batch EXCEPT ![g] = batch'[g]]
  /\ cache' = [cache EXCEPT ![g] = cache'[g]]
  /\ writer' = [writer EXCEPT ![g] = writer'[g]]

LEMMA TypesLocal ==
  ASSUME GeriTypeOK, Shapes
  PROVE  /\ \A g \in Replicas : Local(g)
         /\ arrived \in 0..MaxPackets /\ arrived \in Nat
         /\ Anywhere \subseteq Packets
         /\ \A p \in Anywhere : p.time \in Nat
<1>1. \A g \in Replicas : Local(g)
  BY DEF GeriTypeOK, Shapes, Local, Stations
<1>2. ToSet(table) \subseteq Packets /\ excused \subseteq Packets
  BY DEF GeriTypeOK
<1>3. \A g \in Replicas : Held(g) \subseteq Packets
  BY DEF GeriTypeOK
<1>4. \A rows \in inDoubt : ToSet(rows) \subseteq Packets
  BY ToSetNone DEF Shapes
<1>5. Anywhere \subseteq Packets
  BY <1>2, <1>3, <1>4 DEF Anywhere
<1>6. \A p \in Packets : p.time \in Nat
  BY GeriAssumption DEF Packets
<1>7. arrived \in 0..MaxPackets /\ arrived \in Nat
  BY GeriAssumption DEF GeriTypeOK
<1> QED BY <1>1, <1>5, <1>6, <1>7

LEMMA LocalTypes ==
  ASSUME GeriTypeOK, Shapes, NEW g \in Replicas, Frame(g), Local(g)',
         arrived' \in 0..MaxPackets, table' \in Seq(Packets),
         inDoubt' \subseteq Seq(Packets), excused' \subseteq Packets
  PROVE  GeriTypeOK' /\ Shapes' /\ Others(g)
<1>1. \A h \in Replicas : Local(h)
  BY TypesLocal
<1>2. /\ queue' \in [Replicas -> Seq(Packets)]
      /\ batch' \in [Replicas -> Seq(Packets)]
      /\ cache' \in [Replicas -> SUBSET Receivers]
      /\ writer' \in [Replicas -> [at : Stations, hand : {{}} \union {{p} : p \in Packets}]]
  BY DEF Frame, Shapes, Local, Stations
<1>3. \A h \in Replicas : h # g => /\ queue'[h] = queue[h] /\ batch'[h] = batch[h]
                                   /\ cache'[h] = cache[h] /\ writer'[h] = writer[h]
  BY DEF Frame, Shapes
<1>4. ASSUME NEW h \in Replicas PROVE Local(h)'
  <2>1. CASE h = g
    BY <2>1
  <2>2. CASE h # g
    BY <1>1, <1>3, <2>2 DEF Local
  <2> QED BY <2>1, <2>2
<1>5. ASSUME NEW h \in Replicas PROVE Held(h)' \subseteq Packets
  <2>1. ToSet(queue'[h]) \subseteq Packets /\ ToSet(batch'[h]) \subseteq Packets
    BY <1>4, ToSetNone DEF Local
  <2>2. writer'[h].hand \subseteq Packets
    BY <1>4 DEF Local
  <2> QED BY <2>1, <2>2 DEF Held
<1>6. GeriTypeOK'
  <2>1. ToSet(table') \subseteq Packets
    BY ToSetNone
  <2> QED BY <1>4, <1>5, <2>1 DEF GeriTypeOK, Local
<1>7. Shapes'
  BY <1>2, <1>4 DEF Shapes, Local, Stations
<1> QED BY <1>3, <1>6, <1>7 DEF Others

\* What happens in the memory of a process.
LEMMA MemoryGInv ==
  ASSUME GInv, NEW g \in Replicas, NEW new,
         UNCHANGED <<table, inDoubt>>, Frame(g), Local(g)', arrived' \in 0..MaxPackets,
         \/ new = {} /\ arrived' = arrived
         \/ arrived' = arrived + 1 /\ \E p \in Packets : new = {p} /\ p.time = arrived + 1,
         HeldOnce(g)',
         Held(g)' \subseteq Held(g) \union new,
         excused \subseteq excused', excused' \subseteq excused \union Held(g) \union new,
         Held(g) \union new \subseteq Held(g)' \union excused'
  PROVE  GInv'
<1>1. GeriTypeOK /\ Shapes /\ AllArrived /\ OnePlace /\ NothingVanishes
  BY DEF GInv
<1>2. excused' \subseteq Packets
  BY <1>1 DEF GeriTypeOK
<1>3. GeriTypeOK' /\ Shapes' /\ Others(g)
  BY <1>1, <1>2, LocalTypes DEF Shapes
<1>4. arrived \in Nat /\ \A p \in Anywhere : p.time \in Nat
  BY <1>1, TypesLocal
<1>5. \/ new = {} /\ arrived' = arrived
      \/ arrived' = arrived + 1 /\ \E p \in new : new = {p} /\ p.time = arrived + 1
  OBVIOUS
<1>6. AllArrived' /\ OnePlace' /\ NothingVanishes'
  BY <1>1, <1>3, <1>4, <1>5, MemoryStep
<1> QED BY <1>3, <1>6 DEF GInv

LEMMA MemoryOnlyGInv ==
  ASSUME GInv, NEW g \in Replicas,
         UNCHANGED <<arrived, table, inDoubt>>, Frame(g), Local(g)', HeldOnce(g)',
         Held(g)' \subseteq Held(g),
         excused \subseteq excused', excused' \subseteq excused \union Held(g),
         Held(g) \subseteq Held(g)' \union excused'
  PROVE  GInv'
<1>1. arrived' = arrived /\ arrived' \in 0..MaxPackets
  BY DEF GInv, GeriTypeOK
<1>2. /\ Held(g)' \subseteq Held(g) \union {}
      /\ excused' \subseteq excused \union Held(g) \union {}
      /\ Held(g) \union {} \subseteq Held(g)' \union excused'
  OBVIOUS
<1> QED BY <1>1, <1>2, MemoryGInv

LEMMA ArriveGInv ==
  ASSUME GInv, NEW g \in Replicas, NEW r \in Receivers, Arrive(g, r)
  PROVE  GInv'
<1> DEFINE p == [time |-> arrived + 1, receiver |-> r]
<1>1. GeriTypeOK /\ Shapes /\ Local(g) /\ arrived \in Nat /\ HeldOnce(g)
  BY TypesLocal DEF GInv, OnePlace
<1>2. p \in Packets /\ p.time = arrived + 1
  BY <1>1, GeriAssumption DEF Arrive, Packets
<1>3. /\ arrived' = arrived + 1 /\ arrived' \in 0..MaxPackets
      /\ UNCHANGED <<batch, cache, writer, table, inDoubt>>
      /\ \/ /\ Len(queue[g]) < QueueSize
            /\ queue' = [queue EXCEPT ![g] = Append(queue[g], p)]
            /\ UNCHANGED excused
         \/ /\ excused' = excused \union {p}
            /\ UNCHANGED queue
  BY <1>1, GeriAssumption DEF Arrive
<1> HIDE DEF p
<1>4. p \notin Held(g)
  <2>1. \A q \in Held(g) : q \in Anywhere
    BY DEF Anywhere
  <2> QED BY <1>1, <1>2, <2>1, TypesLocal DEF GInv, AllArrived
<1>5. CASE Len(queue[g]) < QueueSize /\ queue' = [queue EXCEPT ![g] = Append(queue[g], p)]
           /\ UNCHANGED excused
  <2>1. /\ queue'[g] = Append(queue[g], p)
        /\ queue'[g] \in Seq(Packets) /\ Len(queue'[g]) = Len(queue[g]) + 1
        /\ ToSet(queue'[g]) = ToSet(queue[g]) \union {p}
        /\ Once(queue'[g])
    <3>1. queue[g] \in Seq(Packets) /\ Once(queue[g]) /\ p \notin ToSet(queue[g])
      BY <1>1, <1>4 DEF Local, HeldOnce, Held
    <3>2. queue'[g] = Append(queue[g], p)
      BY <1>1, <1>5 DEF Shapes
    <3> QED BY <1>2, <3>1, <3>2, OnceAppend
  <2>2. Frame(g)
    BY <1>1, <1>3, <1>5 DEF Frame, Shapes
  <2>3. Local(g)'
    BY <1>1, <1>3, <1>5, <2>1, GeriAssumption DEF Local
  <2>4. HeldOnce(g)' /\ Held(g)' = Held(g) \union {p}
    BY <1>1, <1>3, <1>4, <2>1 DEF HeldOnce, Held, Disjoint
  <2> QED BY <1>2, <1>3, <1>5, <2>2, <2>3, <2>4, MemoryGInv
<1>6. CASE excused' = excused \union {p} /\ UNCHANGED queue
  <2>1. Frame(g)
    BY <1>1, <1>3, <1>6 DEF Frame, Shapes
  <2>2. Local(g)' /\ HeldOnce(g)' /\ Held(g)' = Held(g)
    BY <1>1, <1>3, <1>6 DEF Local, HeldOnce, Held
  <2> QED BY <1>2, <1>3, <1>6, <2>1, <2>2, MemoryGInv
<1> QED BY <1>3, <1>5, <1>6

\* A packet that comes off the queue or back from the database is collected,
\* or stays in the writer's hand.
LEMMA PassesOn ==
  ASSUME GInv, NEW g \in Replicas, NEW p \in Packets,
         writer[g].at \in {"get", "lookup", "heartbeat"},
         Known(g, p) \/ (Goto(g, "lookup", {p}) /\ UNCHANGED batch),
         queue' = [queue EXCEPT ![g] = queue'[g]],
         queue'[g] \in Seq(Packets), Len(queue'[g]) <= QueueSize, Once(queue'[g]),
         p \notin ToSet(queue'[g]), p \notin ToSet(batch[g]),
         Disjoint(ToSet(queue'[g]), ToSet(batch[g])),
         Held(g) = ToSet(queue'[g]) \union ToSet(batch[g]) \union {p},
         cache' = [cache EXCEPT ![g] = cache'[g]], cache'[g] \subseteq Receivers,
         UNCHANGED <<arrived, table, inDoubt, excused>>
  PROVE  GInv'
<1>1. /\ GeriTypeOK /\ Shapes /\ Local(g) /\ HeldOnce(g)
      /\ arrived' \in 0..MaxPackets
  BY TypesLocal DEF GInv, OnePlace
<1>2. /\ batch[g] \in Seq(Packets) /\ Once(batch[g]) /\ Len(batch[g]) < BatchSize
      /\ Len(batch[g]) \in Nat
  BY <1>1 DEF Local, HeldOnce
<1>3. CASE Collect(g, p)
  <2> DEFINE where == IF Len(batch[g]) + 1 >= BatchSize THEN "insert" ELSE "get"
  <2>1. /\ batch' = [batch EXCEPT ![g] = Append(batch[g], p)]
        /\ writer' = [writer EXCEPT ![g] = [at |-> where, hand |-> {}]]
    BY <1>3 DEF Collect, Goto
  <2>2. /\ batch'[g] = Append(batch[g], p)
        /\ writer'[g] = [at |-> where, hand |-> {}]
    BY <1>1, <2>1 DEF Shapes
  <2>3. /\ batch'[g] \in Seq(Packets) /\ Len(batch'[g]) = Len(batch[g]) + 1
        /\ ToSet(batch'[g]) = ToSet(batch[g]) \union {p}
        /\ Once(batch'[g])
    BY <1>2, <2>2, OnceAppend
  <2>4. Frame(g)
    BY <2>1, <2>2 DEF Frame
  <2>5. Local(g)'
    <3>1. writer'[g].at = where /\ writer'[g].hand = {} /\ where \in {"insert", "get"}
      BY <2>2
    <3>2. where = "insert" => Len(batch'[g]) \in 1..BatchSize
      BY <1>2, <2>3, GeriAssumption
    <3>3. where = "get" => Len(batch'[g]) < BatchSize
      BY <1>2, <2>3, GeriAssumption
    <3>4. writer'[g] \in [at : Stations, hand : {{}} \union {{q} : q \in Packets}]
      BY <2>2, <3>1 DEF Stations
    <3> HIDE DEF where
    <3> QED BY <2>3, <3>1, <3>2, <3>3, <3>4 DEF Local
  <2>6. HeldOnce(g)' /\ Held(g)' = Held(g)
    BY <2>2, <2>3 DEF HeldOnce, Held, Disjoint
  <2> QED BY <1>1, <2>4, <2>5, <2>6, MemoryOnlyGInv
<1>4. CASE (Goto(g, "heartbeat", {p}) \/ Goto(g, "lookup", {p})) /\ UNCHANGED batch
  <2>1. PICK where \in {"heartbeat", "lookup"} :
          writer' = [writer EXCEPT ![g] = [at |-> where, hand |-> {p}]]
    BY <1>4 DEF Goto
  <2>2. writer'[g] = [at |-> where, hand |-> {p}]
    BY <1>1, <2>1 DEF Shapes
  <2>3. Frame(g)
    BY <1>1, <1>4, <2>1, <2>2 DEF Frame, Shapes
  <2>4. Local(g)'
    BY <1>2, <1>4, <2>2 DEF Local, Stations
  <2>5. HeldOnce(g)' /\ Held(g)' = Held(g)
    BY <1>2, <1>4, <2>2 DEF HeldOnce, Held, Disjoint
  <2> QED BY <1>1, <2>3, <2>4, <2>5, MemoryOnlyGInv
<1> QED BY <1>3, <1>4 DEF Known

LEMMA TakeGInv ==
  ASSUME GInv, NEW g \in Replicas, Take(g)
  PROVE  GInv'
<1> DEFINE p == Head(queue[g])
<1>1. /\ GeriTypeOK /\ Shapes /\ Local(g) /\ HeldOnce(g)
      /\ queue[g] \in Seq(Packets) /\ queue[g] # <<>> /\ Len(queue[g]) <= QueueSize
      /\ Len(queue[g]) \in Nat
      /\ writer[g].at = "get" /\ writer[g].hand = {}
      /\ QueueSize \in Nat
  BY TypesLocal, GeriAssumption DEF GInv, OnePlace, Local, Take
<1>2. /\ queue' = [queue EXCEPT ![g] = Tail(queue[g])]
      /\ Known(g, p) \/ (Goto(g, "lookup", {p}) /\ UNCHANGED batch)
      /\ UNCHANGED <<arrived, cache, table, inDoubt, excused>>
  BY DEF Take
<1>3. queue'[g] = Tail(queue[g])
  BY <1>1, <1>2 DEF Shapes
<1>4. /\ p \in Packets /\ queue'[g] \in Seq(Packets) /\ Len(queue'[g]) <= Len(queue[g])
      /\ ToSet(queue[g]) = ToSet(queue'[g]) \union {p}
      /\ Once(queue'[g]) /\ p \notin ToSet(queue'[g])
  BY <1>1, <1>3, OnceTail DEF HeldOnce
<1> HIDE DEF p
<1>5. /\ p \notin ToSet(batch[g])
      /\ Disjoint(ToSet(queue'[g]), ToSet(batch[g]))
      /\ Held(g) = ToSet(queue'[g]) \union ToSet(batch[g]) \union {p}
  BY <1>1, <1>4 DEF HeldOnce, Held, Disjoint
<1>6. /\ queue' = [queue EXCEPT ![g] = queue'[g]] /\ Len(queue'[g]) <= QueueSize
      /\ cache' = [cache EXCEPT ![g] = cache'[g]] /\ cache'[g] \subseteq Receivers
  <2>1. Len(queue'[g]) \in Nat
    BY <1>4
  <2> QED BY <1>1, <1>2, <1>3, <1>4, <2>1 DEF Shapes, Local
<1> QED BY <1>1, <1>2, <1>4, <1>5, <1>6, PassesOn

\* The packet in hand, and what is around it.
LEMMA InHand ==
  ASSUME GInv, NEW g \in Replicas, NEW p \in writer[g].hand
  PROVE  /\ p \in Packets /\ writer[g].hand = {p}
         /\ writer[g].at \in {"lookup", "heartbeat"}
         /\ p \notin ToSet(queue[g]) /\ p \notin ToSet(batch[g])
         /\ Disjoint(ToSet(queue[g]), ToSet(batch[g]))
         /\ Once(queue[g]) /\ Once(batch[g])
         /\ queue[g] \in Seq(Packets) /\ Len(queue[g]) <= QueueSize
         /\ queue = [queue EXCEPT ![g] = queue[g]]
         /\ cache[g] \subseteq Receivers /\ cache = [cache EXCEPT ![g] = cache[g]]
         /\ Held(g) = ToSet(queue[g]) \union ToSet(batch[g]) \union {p}
<1>1. Shapes /\ Local(g) /\ HeldOnce(g)
  BY TypesLocal DEF GInv, OnePlace
<1>2. p \in Packets /\ writer[g].hand = {p}
  BY <1>1 DEF Local
<1> QED BY <1>1, <1>2 DEF Shapes, Local, HeldOnce, Held, Disjoint

LEMMA LookedUpGInv ==
  ASSUME GInv, NEW g \in Replicas, LookedUp(g)
  PROVE  GInv'
<1>1. PICK p \in writer[g].hand :
       \/ /\ cache' = [cache EXCEPT ![g] = cache[g] \union {p.receiver}]
          /\ Known(g, p)
          /\ UNCHANGED excused
       \/ /\ excused' = excused \union {p}
          /\ Goto(g, "get", {})
          /\ UNCHANGED <<batch, cache>>
  BY DEF LookedUp
<1>2. /\ GeriTypeOK /\ Shapes /\ Local(g) /\ HeldOnce(g)
      /\ arrived' \in 0..MaxPackets
      /\ UNCHANGED <<arrived, queue, table, inDoubt>>
  BY TypesLocal DEF GInv, OnePlace, LookedUp
<1>3. CASE /\ cache' = [cache EXCEPT ![g] = cache[g] \union {p.receiver}]
           /\ Known(g, p)
           /\ UNCHANGED excused
  <2>1. cache'[g] = cache[g] \union {p.receiver} /\ cache'[g] \subseteq Receivers
    BY <1>2, <1>3, InHand DEF Shapes, Packets
  <2>2. cache' = [cache EXCEPT ![g] = cache'[g]]
    BY <1>3, <2>1
  <2> QED BY <1>2, <1>3, <2>1, <2>2, InHand, PassesOn
<1>4. CASE excused' = excused \union {p} /\ Goto(g, "get", {}) /\ UNCHANGED <<batch, cache>>
  <2>1. writer'[g] = [at |-> "get", hand |-> {}]
    BY <1>2, <1>4 DEF Goto, Shapes
  <2>2. Frame(g)
    BY <1>2, <1>4, <2>1 DEF Frame, Goto, Shapes
  <2>3. Local(g)'
    BY <1>2, <1>4, <2>1, InHand DEF Local, Stations
  <2>4. HeldOnce(g)' /\ Held(g)' \subseteq Held(g) /\ Held(g) \subseteq Held(g)' \union {p}
        /\ p \in Held(g)
    BY <1>2, <1>4, <2>1, InHand DEF HeldOnce, Held, Disjoint
  <2> QED BY <1>2, <1>4, <2>2, <2>3, <2>4, MemoryGInv
<1> QED BY <1>1, <1>3, <1>4

LEMMA HeartbeatGInv ==
  ASSUME GInv, NEW g \in Replicas, HeartbeatDone(g)
  PROVE  GInv'
<1>1. PICK p \in writer[g].hand : Known(g, p)
  BY DEF HeartbeatDone, Known
<1>2. UNCHANGED <<arrived, queue, cache, table, inDoubt, excused>>
  BY DEF HeartbeatDone
<1> QED BY <1>1, <1>2, InHand, PassesOn

LEMMA IdleGInv ==
  ASSUME GInv, NEW g \in Replicas, IdleFlush(g) \/ Restart(g)
  PROVE  GInv'
<1>1. /\ GeriTypeOK /\ Shapes /\ Local(g) /\ HeldOnce(g)
      /\ UNCHANGED <<arrived, queue, batch, table, inDoubt, excused>>
      /\ cache' = [cache EXCEPT ![g] = cache'[g]] /\ cache'[g] \subseteq Receivers
  BY TypesLocal DEF GInv, OnePlace, IdleFlush, Restart, Shapes, Local
<1>2. PICK where \in {"get", "insert"} :
        /\ writer' = [writer EXCEPT ![g] = [at |-> where, hand |-> {}]]
        /\ where = "insert" => batch[g] # <<>> /\ writer[g].at = "get"
        /\ where = "get" => batch[g] = <<>>
        /\ writer[g].hand = {}
  BY <1>1 DEF IdleFlush, Restart, Goto, Local
<1>3. writer'[g] = [at |-> where, hand |-> {}]
  BY <1>1, <1>2 DEF Shapes
<1>4. Frame(g)
  BY <1>1, <1>2, <1>3 DEF Frame, Shapes
<1>5. Local(g)'
  <2>1. writer'[g] \in [at : Stations, hand : {{}} \union {{p} : p \in Packets}]
    BY <1>3 DEF Stations
  <2>2. where = "insert" => Len(batch[g]) \in 1..BatchSize
    BY <1>1, <1>2, GeriAssumption DEF Local
  <2>3. where = "get" => Len(batch[g]) < BatchSize
    BY <1>2, OnceNone, GeriAssumption
  <2> QED BY <1>1, <1>3, <2>1, <2>2, <2>3 DEF Local
<1>6. HeldOnce(g)' /\ Held(g)' = Held(g)
  BY <1>1, <1>2, <1>3 DEF HeldOnce, Held, Disjoint
<1> QED BY <1>1, <1>4, <1>5, <1>6, MemoryOnlyGInv

LEMMA StopGInv ==
  ASSUME GInv, NEW g \in Replicas, StopWaiting(g)
  PROVE  GInv'
<1> DEFINE where == IF batch[g] = <<>> THEN "stopped" ELSE "final"
<1>1. /\ GeriTypeOK /\ Shapes /\ Local(g) /\ HeldOnce(g)
      /\ writer[g].at = "get" /\ writer[g].hand = {}
      /\ queue' = [queue EXCEPT ![g] = <<>>]
      /\ writer' = [writer EXCEPT ![g] = [at |-> where, hand |-> {}]]
      /\ excused' = excused \union ToSet(queue[g])
      /\ UNCHANGED <<arrived, batch, cache, table, inDoubt>>
  BY TypesLocal DEF GInv, OnePlace, StopWaiting, Goto, Local
<1>2. queue'[g] = <<>> /\ writer'[g] = [at |-> where, hand |-> {}]
  BY <1>1 DEF Shapes
<1>3. Frame(g)
  BY <1>1, <1>2 DEF Frame, Shapes
<1>4. Local(g)'
  <2>1. <<>> \in Seq(Packets) /\ Len(<<>>) <= QueueSize
    BY OnceNone, GeriAssumption
  <2>2. writer'[g] \in [at : Stations, hand : {{}} \union {{p} : p \in Packets}]
    BY <1>2 DEF Stations
  <2>3. batch[g] # <<>> => Len(batch[g]) \in 1..BatchSize
    BY <1>1, GeriAssumption DEF Local
  <2> QED BY <1>1, <1>2, <2>1, <2>2, <2>3 DEF Local
<1>5. /\ HeldOnce(g)'
      /\ Held(g)' \subseteq Held(g) /\ Held(g) \subseteq Held(g)' \union ToSet(queue[g])
      /\ ToSet(queue[g]) \subseteq Held(g)
  BY <1>1, <1>2, OnceNone DEF HeldOnce, Held, Disjoint
<1> QED BY <1>1, <1>3, <1>4, <1>5, MemoryOnlyGInv

\* The batch leaves the process: the table has it, or what it held is excused
\* and its commit in doubt or not.
LEMMA BatchLeaves ==
  ASSUME GInv, NEW g \in Replicas, NEW where \in {"get", "stopped"},
         \/ UNCHANGED queue /\ writer[g].hand = {} /\ InsertEnds(batch[g])
         \/ /\ queue' = [queue EXCEPT ![g] = <<>>]
            /\ excused' = excused \union Held(g)
            /\ UNCHANGED table
            /\ inDoubt' = inDoubt \/ inDoubt' = inDoubt \union {batch[g]},
         batch' = [batch EXCEPT ![g] = <<>>],
         writer' = [writer EXCEPT ![g] = [at |-> where, hand |-> {}]],
         UNCHANGED <<arrived, cache>>
  PROVE  GInv'
<1>1. /\ GeriTypeOK /\ Shapes /\ AllArrived /\ OnePlace /\ NothingVanishes
      /\ Local(g) /\ HeldOnce(g) /\ batch[g] \in Seq(Packets) /\ table \in Seq(Packets)
      /\ arrived' \in 0..MaxPackets
  BY TypesLocal DEF GInv, OnePlace, Shapes, Local
<1>2. /\ batch'[g] = <<>> /\ writer'[g] = [at |-> where, hand |-> {}]
      /\ queue'[g] \in {queue[g], <<>>} /\ queue' = [queue EXCEPT ![g] = queue'[g]]
  BY <1>1 DEF Shapes
<1>3. Frame(g)
  BY <1>1, <1>2 DEF Frame, Shapes
<1>4. Local(g)'
  <2>1. <<>> \in Seq(Packets) /\ Len(<<>>) <= QueueSize /\ Len(<<>>) < BatchSize
    BY OnceNone, GeriAssumption
  <2>2. writer'[g] \in [at : Stations, hand : {{}} \union {{p} : p \in Packets}]
    BY <1>2 DEF Stations
  <2>3. queue'[g] \in Seq(Packets) /\ Len(queue'[g]) <= QueueSize /\ cache'[g] \subseteq Receivers
    BY <1>1, <1>2, <2>1 DEF Local
  <2>4. /\ batch'[g] \in Seq(Packets) /\ Len(batch'[g]) < BatchSize
        /\ writer'[g].hand = {} /\ writer'[g].at \in {"get", "stopped"}
    <3>1. batch'[g] = <<>> /\ writer'[g] = [at |-> where, hand |-> {}]
      BY <1>2
    <3>2. writer'[g].hand = {} /\ writer'[g].at \in {"get", "stopped"}
      BY <3>1
    <3> QED BY <2>1, <3>1, <3>2
  <2> QED BY <1>2, <2>2, <2>3, <2>4 DEF Local
<1>5. /\ HeldOnce(g)' /\ Held(g)' = ToSet(queue'[g])
      /\ ToSet(queue'[g]) \subseteq ToSet(queue[g])
      /\ Held(g)' \subseteq Held(g) /\ Disjoint(Held(g)', ToSet(batch[g]))
      /\ ToSet(batch[g]) \subseteq Held(g)
  BY <1>1, <1>2, OnceNone DEF HeldOnce, Held, Disjoint
<1>6. Held(g) \subseteq Packets /\ excused \subseteq Packets /\ inDoubt \subseteq Seq(Packets)
  BY <1>1 DEF GeriTypeOK, Shapes
<1>7. CASE table' = table \o batch[g] /\ UNCHANGED <<inDoubt, excused, queue>>
           /\ writer[g].hand = {}
  <2>1. table' \in Seq(Packets)
    BY <1>1, <1>7, OnceConcat
  <2>2. GeriTypeOK' /\ Shapes' /\ Others(g)
    BY <1>1, <1>3, <1>4, <1>6, <1>7, <2>1, LocalTypes
  <2>3. Held(g) \subseteq Held(g)' \union ToSet(batch[g])
    BY <1>5, <1>7 DEF Held
  <2>4. AllArrived' /\ OnePlace' /\ NothingVanishes'
    BY <1>1, <1>5, <1>7, <2>2, <2>3, CommitStep
  <2> QED BY <2>2, <2>4 DEF GInv
<1>8. CASE /\ UNCHANGED table
           /\ \/ excused' = excused \union ToSet(batch[g]) /\ UNCHANGED queue
                   /\ writer[g].hand = {}
              \/ excused' = excused \union Held(g)
           /\ inDoubt' = inDoubt \/ inDoubt' = inDoubt \union {batch[g]}
  <2>1. /\ excused \subseteq excused' /\ excused' \subseteq excused \union Held(g)
        /\ Held(g) \subseteq Held(g)' \union excused'
    <3>1. CASE excused' = excused \union Held(g)
      BY <3>1
    <3>2. CASE excused' = excused \union ToSet(batch[g]) /\ UNCHANGED queue
                 /\ writer[g].hand = {}
      BY <1>5, <3>2 DEF Held
    <3> QED BY <1>8, <3>1, <3>2
  <2>2. CASE inDoubt' = inDoubt
    BY <1>3, <1>4, <1>5, <1>8, <2>1, <2>2, MemoryOnlyGInv
  <2>3. CASE inDoubt' = inDoubt \union {batch[g]}
    <3>1. table' = table /\ table' \in Seq(Packets) /\ inDoubt' \subseteq Seq(Packets)
            /\ excused' \subseteq Packets
      BY <1>1, <1>6, <1>8, <2>1, <2>3
    <3>2. GeriTypeOK' /\ Shapes' /\ Others(g)
      BY <1>1, <1>3, <1>4, <3>1, LocalTypes
    <3>3. AllArrived' /\ OnePlace' /\ NothingVanishes'
      BY <1>1, <1>5, <2>1, <2>3, <3>1, <3>2, DoubtStep
    <3> QED BY <3>2, <3>3 DEF GInv
  <2> QED BY <1>8, <2>2, <2>3
<1> QED BY <1>7, <1>8 DEF InsertEnds

LEMMA InsertGInv ==
  ASSUME GInv, NEW g \in Replicas, Insert(g) \/ FinalInsert(g) \/ Killed(g)
  PROVE  GInv'
<1>1. CASE Insert(g) \/ FinalInsert(g)
  <2>1. writer[g].hand = {}
    BY <1>1, TypesLocal DEF GInv, Local, Insert, FinalInsert
  <2> QED BY <1>1, <2>1, BatchLeaves DEF Insert, FinalInsert, Goto
<1>2. CASE Killed(g)
  <2>1. /\ queue' = [queue EXCEPT ![g] = <<>>]
        /\ batch' = [batch EXCEPT ![g] = <<>>]
        /\ writer' = [writer EXCEPT ![g] = [at |-> "stopped", hand |-> {}]]
        /\ excused' = excused \union Held(g)
        /\ inDoubt' = inDoubt \/ inDoubt' = inDoubt \union {batch[g]}
        /\ UNCHANGED table /\ UNCHANGED <<arrived, cache>>
    BY <1>2 DEF Killed, Goto
  <2> QED BY <2>1, BatchLeaves
<1> QED BY <1>1, <1>2

LEMMA LandGInv ==
  ASSUME GInv, NEW rows \in inDoubt, Land(rows)
  PROVE  GInv'
<1>1. /\ GeriTypeOK /\ Shapes /\ AllArrived /\ OnePlace /\ NothingVanishes
      /\ table \in Seq(Packets) /\ rows \in Seq(Packets)
      /\ inDoubt' = inDoubt \ {rows} /\ table' \in {table, table \o rows}
      /\ UNCHANGED <<arrived, queue, batch, cache, writer, excused>>
  BY DEF GInv, Shapes, Land
<1>2. table' \in Seq(Packets) /\ ToSet(table') \subseteq Packets
  <2>1. table \o rows \in Seq(Packets)
    BY <1>1, OnceConcat
  <2>2. table' \in Seq(Packets)
    BY <1>1, <2>1
  <2> QED BY <2>2, ToSetNone
<1>3. Shapes'
  BY <1>1, <1>2 DEF Shapes
<1>4. GeriTypeOK'
  BY <1>1, <1>2 DEF GeriTypeOK, Held
<1> QED BY <1>1, <1>3, <1>4, LandStep DEF GInv

LEMMA GeriInitGInv == GeriInit => GInv
<1> SUFFICES ASSUME GeriInit PROVE GInv
  OBVIOUS
<1> USE GeriAssumption
<1>1. <<>> \in Seq(Packets) /\ ToSet(<<>>) = {} /\ Once(<<>>) /\ Len(<<>>) = 0
  BY OnceNone
<1>2. \A g \in Replicas : /\ queue[g] = <<>> /\ batch[g] = <<>> /\ cache[g] = {}
                          /\ writer[g].hand = {} /\ writer[g].at = "get"
                          /\ Held(g) = {}
  BY <1>1 DEF GeriInit, AtGet, Held
<1>3. GeriTypeOK
  BY <1>1, <1>2 DEF GeriInit, GeriTypeOK
<1>4. Shapes
  BY <1>1, <1>2 DEF GeriInit, Shapes, AtGet
<1>5. AllArrived
  BY <1>1, <1>2 DEF GeriInit, AllArrived, Anywhere
<1>6. OnePlace
  BY <1>1, <1>2 DEF GeriInit, OnePlace, HeldOnce, Disjoint
<1>7. NothingVanishes
  BY DEF GeriInit, NothingVanishes
<1> QED BY <1>3, <1>4, <1>5, <1>6, <1>7 DEF GInv

LEMMA GeriNextGInv == GInv /\ [GeriNext]_geriVars => GInv'
<1> SUFFICES ASSUME GInv, [GeriNext]_geriVars PROVE GInv'
  OBVIOUS
<1>1. CASE \E g \in Replicas, r \in Receivers : Arrive(g, r)
  BY <1>1, ArriveGInv
<1>2. CASE \E g \in Replicas : WriterStep(g)
  BY <1>2, TakeGInv, LookedUpGInv, HeartbeatGInv, IdleGInv, InsertGInv DEF WriterStep
<1>3. CASE \E rows \in inDoubt : Land(rows)
  BY <1>3, LandGInv
<1>4. CASE \E g \in Replicas : StopWaiting(g) \/ Killed(g) \/ Restart(g)
  BY <1>4, StopGInv, InsertGInv, IdleGInv
<1>5. CASE UNCHANGED geriVars
  <2>1. UNCHANGED <<arrived, queue, batch, cache, writer, table, inDoubt, excused>>
    BY <1>5 DEF geriVars
  <2>2. \A g \in Replicas : Held(g)' = Held(g) /\ (HeldOnce(g) => HeldOnce(g)')
    BY <2>1 DEF Held, HeldOnce
  <2>3. GeriTypeOK' /\ Shapes'
    BY <2>1, <2>2 DEF GInv, GeriTypeOK, Shapes
  <2>4. AllArrived'
    <3>1. Anywhere' \subseteq Anywhere
      BY <2>1, <2>2, DoubtAnywhere DEF Anywhere
    <3> QED BY <2>1, <3>1 DEF GInv, AllArrived
  <2>5. OnePlace'
    BY <2>1, <2>2 DEF GInv, OnePlace
  <2>6. NothingVanishes'
    BY <2>1, <2>2 DEF GInv, NothingVanishes, Stored
  <2> QED BY <2>3, <2>4, <2>5, <2>6 DEF GInv
<1> QED BY <1>1, <1>2, <1>3, <1>4, <1>5 DEF GeriNext

LEMMA GeriSafe == GInv => GeriTypeOK /\ StoredOnce /\ NothingVanishes
BY DEF GInv, OnePlace, Once, StoredOnce

-------------------------------------------------------------------------------
(* Rows in order.                                                          *)

LEMMA LeastNat ==
  ASSUME NEW S, S \subseteq Nat, S # {}
  PROVE  \E n \in S : \A m \in S : n <= m
<1>1. PICK n \in S : \A m \in S : <<m, n>> \notin OpToRel(<, Nat)
  BY NatLessThanWellFounded, WFMin
<1>2. ASSUME NEW m \in S PROVE n <= m
  <2>1. <<m, n>> \in Nat \X Nat /\ m \in Nat /\ n \in Nat
    OBVIOUS
  <2>2. ~(m < n)
    BY <1>1, <2>1 DEF OpToRel
  <2> QED BY <2>1, <2>2
<1> QED BY <1>2

\* How many rows are before t.
Rank(S, t) == Cardinality({u \in S : u < t})

LEMMA RankType ==
  ASSUME NEW S, IsFiniteSet(S), NEW t
  PROVE  Rank(S, t) \in Nat /\ IsFiniteSet({u \in S : u < t})
<1>1. {u \in S : u < t} \subseteq S
  OBVIOUS
<1> QED BY <1>1, FS_Subset, FS_CardinalityType DEF Rank

LEMMA RankStep ==
  ASSUME NEW S, S \subseteq Nat, IsFiniteSet(S), NEW t \in S
  PROVE  Cardinality({u \in S : u < t} \union {t}) = Rank(S, t) + 1
<1>1. t \notin {u \in S : u < t}
  OBVIOUS
<1>2. IsFiniteSet({u \in S : u < t})
  BY RankType
<1> HIDE DEF Rank
<1> QED BY <1>1, <1>2, FS_AddElement DEF Rank

LEMMA RankGrows ==
  ASSUME NEW S, S \subseteq Nat, IsFiniteSet(S), NEW t \in S, NEW v \in S, t < v
  PROVE  Rank(S, t) < Rank(S, v)
<1>1. {u \in S : u < t} \union {t} \subseteq {u \in S : u < v}
  <2>1. \A u \in S : u \in Nat /\ (u < t => u < v)
    OBVIOUS
  <2> QED BY <2>1
<1>2. Cardinality({u \in S : u < t} \union {t}) <= Cardinality({u \in S : u < v})
  BY <1>1, RankType, FS_Subset
<1>3. Rank(S, t) \in Nat /\ Rank(S, v) \in Nat
  BY RankType
<1>4. Rank(S, t) + 1 <= Rank(S, v)
  BY <1>2, RankStep DEF Rank
<1> QED BY <1>3, <1>4

\* Every number of rows is before some row: there is no first exception.
LEMMA RankTaken ==
  ASSUME NEW S, S \subseteq Nat, IsFiniteSet(S), NEW i \in 1..Cardinality(S)
  PROVE  \E t \in S : Rank(S, t) = i - 1
<1> DEFINE Bad == {k \in 1..Cardinality(S) : \A t \in S : Rank(S, t) # k - 1}
<1> SUFFICES ASSUME Bad # {} PROVE FALSE
  OBVIOUS
<1>1. Cardinality(S) \in Nat
  BY FS_CardinalityType
<1>2. PICK k \in Bad : \A m \in Bad : k <= m
  <2>1. Bad \subseteq Nat
    BY <1>1
  <2> HIDE DEF Bad
  <2> QED BY <2>1, LeastNat
<1>3. k \in Nat /\ 1 <= k /\ k <= Cardinality(S)
  BY <1>1
<1>4. CASE k = 1
  <2>1. S # {}
    BY <1>3, FS_EmptySet
  <2>2. PICK t \in S : \A u \in S : t <= u
    BY <2>1, LeastNat
  <2>3. {u \in S : u < t} = {}
    <3>1. \A u \in S : u \in Nat /\ t \in Nat /\ ~(u < t)
      BY <2>2
    <3> QED BY <3>1
  <2>4. Rank(S, t) = 0
    BY <2>3, FS_EmptySet DEF Rank
  <2> QED BY <1>4, <2>4
<1>5. CASE k # 1
  <2>1. k - 1 \in 1..Cardinality(S) /\ k - 1 \notin Bad
    BY <1>1, <1>2, <1>3, <1>5
  <2>2. PICK t \in S : Rank(S, t) = (k - 1) - 1
    BY <2>1
  <2>3. Cardinality({u \in S : u < t} \union {t}) = k - 1
    <3>1. Cardinality({u \in S : u < t} \union {t}) = Rank(S, t) + 1
      BY RankStep
    <3> QED BY <1>3, <2>2, <3>1
  <2>6. \A u \in S : u \in Nat /\ (u < t \/ u = t \/ t < u) /\ ~(u < t /\ t < u)
    OBVIOUS
  <2> DEFINE Above == {u \in S : t < u}
  <2>4. CASE Above = {}
    <3>1. S = {u \in S : u < t} \union {t}
      BY <2>4, <2>6
    <3>2. Cardinality(S) = k - 1
      BY <2>3, <3>1
    <3> QED BY <1>3, <3>2
  <2>5. CASE Above # {}
    <3>1. Above \subseteq Nat
      OBVIOUS
    <3>2. PICK v \in Above : \A u \in Above : v <= u
      BY <2>5, <3>1, LeastNat
    <3>3. {u \in S : u < v} = {u \in S : u < t} \union {t}
      <4>1. \A u \in S : u < v <=> (u < t \/ u = t)
        <5> SUFFICES ASSUME NEW u \in S PROVE u < v <=> (u < t \/ u = t)
          OBVIOUS
        <5>1. u \in Nat /\ v \in Nat /\ t \in Nat /\ t < v /\ (t < u => v <= u)
          BY <3>2
        <5> QED BY <5>1
      <4> QED BY <4>1
    <3>4. Rank(S, v) = k - 1
      BY <2>3, <3>3 DEF Rank
    <3> QED BY <3>4
  <2> QED BY <2>4, <2>5
<1> QED BY <1>4, <1>5

\* ORDER BY time gives the rows in order, and the first ones are the least.
LEMMA InOrderIsSorted ==
  ASSUME NEW S, S \subseteq Nat, IsFiniteSet(S)
  PROVE  LET rows == InOrder(S)
         IN  /\ rows \in Seq(S) /\ Len(rows) = Cardinality(S) /\ Cardinality(S) \in Nat
             /\ \A i, j \in 1..Len(rows) : i < j => rows[i] < rows[j]
             /\ \A k \in 1..Len(rows) : \A u \in S :
                  u <= rows[k] => \E i \in 1..k : rows[i] = u
<1> DEFINE n == Cardinality(S)
           rows == InOrder(S)
<1>1. n \in Nat
  BY FS_CardinalityType
<1>2. \A i \in 1..n : rows[i] \in S /\ Rank(S, rows[i]) = i - 1
  <2> SUFFICES ASSUME NEW i \in 1..n PROVE rows[i] \in S /\ Rank(S, rows[i]) = i - 1
    OBVIOUS
  <2>1. \E t \in S : Rank(S, t) = i - 1
    BY RankTaken
  <2>2. rows[i] = CHOOSE t \in S : Rank(S, t) = i - 1
    BY DEF InOrder, Rank
  <2> HIDE DEF rows
  <2> QED BY <2>1, <2>2
<1>3. rows \in Seq(S) /\ Len(rows) = n /\ DOMAIN rows = 1..n
  <2>1. rows \in [1..n -> S]
    BY <1>2 DEF InOrder
  <2> HIDE DEF rows, n
  <2> QED BY <1>1, <2>1
<1> HIDE DEF rows, n
<1>4. \A i, j \in 1..n : i < j => rows[i] < rows[j]
  <2> SUFFICES ASSUME NEW i \in 1..n, NEW j \in 1..n, i < j PROVE rows[i] < rows[j]
    OBVIOUS
  <2>1. rows[i] \in Nat /\ rows[j] \in Nat /\ i \in Nat /\ j \in Nat
    <3>1. rows[i] \in S /\ rows[j] \in S
      BY <1>2
    <3>2. i \in Nat /\ j \in Nat
      BY <1>1
    <3> QED BY <3>1, <3>2
  <2>2. rows[i] # rows[j]
    BY <1>2, <2>1
  <2>3. ~(rows[j] < rows[i])
    <3> SUFFICES ASSUME rows[j] < rows[i] PROVE FALSE
      OBVIOUS
    <3>1. Rank(S, rows[j]) < Rank(S, rows[i])
      BY <1>2, RankGrows
    <3> QED BY <1>2, <2>1, <3>1
  <2> QED BY <2>1, <2>2, <2>3
<1>5. ASSUME NEW k \in 1..n, NEW u \in S, u <= rows[k]
      PROVE  \E i \in 1..k : rows[i] = u
  <2>1. rows[k] \in S /\ Rank(S, rows[k]) = k - 1 /\ k \in Nat
    BY <1>1, <1>2
  <2>2. Rank(S, u) \in Nat
    BY RankType
  <2>3. Rank(S, u) <= k - 1
    <3>1. CASE u = rows[k]
      BY <2>1, <3>1
    <3>2. CASE u < rows[k]
      <4>1. Rank(S, u) < Rank(S, rows[k])
        BY <2>1, <3>2, RankGrows
      <4> QED BY <2>1, <2>2, <4>1
    <3>3. u \in Nat /\ rows[k] \in Nat
      BY <2>1
    <3> QED BY <1>5, <3>1, <3>2, <3>3
  <2> DEFINE i == Rank(S, u) + 1
  <2>4. i \in 1..k /\ i \in 1..n /\ i - 1 = Rank(S, u)
    BY <1>1, <2>1, <2>2, <2>3
  <2> HIDE DEF i
  <2>5. rows[i] \in S /\ Rank(S, rows[i]) = Rank(S, u)
    BY <1>2, <2>4
  <2>6. ~(rows[i] < u) /\ ~(u < rows[i])
    <3>1. rows[i] < u => Rank(S, rows[i]) < Rank(S, u)
      BY <2>5, RankGrows
    <3>2. u < rows[i] => Rank(S, u) < Rank(S, rows[i])
      BY <2>5, RankGrows
    <3> QED BY <2>2, <2>5, <3>1, <3>2
  <2>7. rows[i] = u
    <3>1. rows[i] \in Nat /\ u \in Nat
      BY <2>5
    <3> QED BY <2>6, <3>1
  <2> QED BY <2>4, <2>7
<1> QED BY <1>1, <1>3, <1>4, <1>5 DEF rows, n

-------------------------------------------------------------------------------
(* The steps of the stream.                                                *)

LEMMA StoredType ==
  ASSUME GInv
  PROVE  /\ Stored \subseteq 1..MaxPackets /\ Stored \subseteq Nat /\ IsFiniteSet(Stored)
         /\ \A i \in DOMAIN table : table[i].time \in Stored
         /\ Len(table) \in Nat /\ DOMAIN table = 1..Len(table)
<1>1. table \in Seq(Packets) /\ Len(table) \in Nat /\ DOMAIN table = 1..Len(table)
  BY DEF GInv, Shapes
<1>2. \A i \in DOMAIN table : table[i].time \in 1..MaxPackets
  <2>1. \A i \in DOMAIN table : table[i] \in Packets
    BY <1>1
  <2> QED BY <2>1 DEF Packets
<1>3. Stored \subseteq 1..MaxPackets /\ \A i \in DOMAIN table : table[i].time \in Stored
  BY <1>2 DEF Stored
<1>4. Stored \subseteq Nat /\ IsFiniteSet(Stored)
  <2>1. IsFiniteSet(1..MaxPackets)
    BY GeriAssumption, FS_Interval
  <2>2. 1..MaxPackets \subseteq Nat
    BY GeriAssumption
  <2> QED BY <1>3, <2>1, <2>2, FS_Subset
<1> QED BY <1>1, <1>3, <1>4

LEMMA LatestIsStored ==
  ASSUME GInv
  PROVE  LatestCursor = NoCursor \/ LatestCursor \in Stored
<1> SUFFICES ASSUME Stored # {} PROVE LatestCursor \in Stored
  BY DEF LatestCursor
<1>1. \A t \in Stored : t \in 1..MaxPackets
  BY StoredType
<1> DEFINE gaps == {MaxPackets - t : t \in Stored}
<1>2. gaps \subseteq Nat /\ gaps # {}
  BY <1>1, GeriAssumption
<1>3. PICK least \in gaps : \A gap \in gaps : least <= gap
  BY <1>2, LeastNat
<1>4. PICK t \in Stored : least = MaxPackets - t
  OBVIOUS
<1>5. \A u \in Stored : u <= t
  <2> SUFFICES ASSUME NEW u \in Stored PROVE u <= t
    OBVIOUS
  <2>1. MaxPackets - t <= MaxPackets - u
    BY <1>3, <1>4
  <2> QED BY <1>1, <2>1, GeriAssumption
<1> QED BY <1>4, <1>5 DEF LatestCursor

LEMMA TableGrows ==
  ASSUME GInv, [GeriNext]_geriVars
  PROVE  \A i \in DOMAIN table : i \in DOMAIN table' /\ table'[i] = table[i]
<1>1. /\ table \in Seq(Packets) /\ \A g \in Replicas : batch[g] \in Seq(Packets)
      /\ inDoubt \subseteq Seq(Packets)
  BY DEF GInv, Shapes
<1>2. table' = table \/ \E rows \in Seq(Packets) : table' = table \o rows
  BY <1>1 DEF GeriNext, geriVars, Arrive, WriterStep, Take, LookedUp, HeartbeatDone,
     IdleFlush, Insert, FinalInsert, InsertEnds, Land, StopWaiting, Killed, Restart
<1>3. ASSUME NEW rows \in Seq(Packets), table' = table \o rows
      PROVE  \A i \in DOMAIN table : i \in DOMAIN table' /\ table'[i] = table[i]
  BY <1>1, <1>3, ConcatProperties
<1> QED BY <1>2, <1>3

\* The rows of one poll.
LEMMA PollSelects ==
  ASSUME GInv, cursor \in Nat, NextRows # <<>>
  PROVE  LET n == Len(NextRows)
         IN  /\ n \in Nat \ {0} /\ NextRows \in Seq(Stored)
             /\ \A i \in 1..n : NextRows[i] \in Stored /\ cursor < NextRows[i]
             /\ \A i, j \in 1..n : i < j => NextRows[i] < NextRows[j]
             /\ \A u \in Stored : cursor < u /\ u <= NextRows[n] => \E i \in 1..n : NextRows[i] = u
<1> DEFINE S == {t \in Stored : t > cursor}
           rows == InOrder(S)
           n == IF Len(rows) <= MaxBatch THEN Len(rows) ELSE MaxBatch
<1>1. S \subseteq Nat /\ IsFiniteSet(S)
  BY StoredType, FS_Subset
<1>2. /\ rows \in Seq(S) /\ Len(rows) \in Nat
      /\ \A i, j \in 1..Len(rows) : i < j => rows[i] < rows[j]
      /\ \A k \in 1..Len(rows) : \A u \in S : u <= rows[k] => \E i \in 1..k : rows[i] = u
  BY <1>1, InOrderIsSorted
<1>3. NextRows = IF Len(rows) <= MaxBatch THEN rows ELSE SubSeq(rows, 1, MaxBatch)
  BY DEF NextRows
<1> HIDE DEF rows
<1>4. /\ n \in Nat /\ n <= Len(rows)
      /\ Len(NextRows) = n /\ NextRows \in Seq(S) /\ DOMAIN NextRows = 1..n
      /\ \A i \in 1..n : i \in 1..Len(rows) /\ NextRows[i] = rows[i]
  <2>1. CASE Len(rows) <= MaxBatch
    BY <1>2, <1>3, <2>1
  <2>2. CASE ~(Len(rows) <= MaxBatch)
    <3>1. MaxBatch \in Nat \ {0} /\ MaxBatch <= Len(rows) /\ n = MaxBatch
      BY <1>2, <2>2, StreamAssumption
    <3>2. NextRows = SubSeq(rows, 1, MaxBatch)
      BY <1>3, <2>2
    <3>3. \A i \in 1..MaxBatch : i \in 1..Len(rows)
      BY <1>2, <3>1
    <3> HIDE DEF n
    <3> QED BY <1>2, <3>1, <3>2, <3>3, SubSeqProperties
  <2> QED BY <2>1, <2>2
<1> HIDE DEF n
<1>5. n # 0
  BY <1>4
<1>6. \A i \in 1..n : NextRows[i] \in S
  BY <1>4
<1>7. \A i, j \in 1..n : i < j => NextRows[i] < NextRows[j]
  BY <1>2, <1>4
<1>8. ASSUME NEW u \in S, u <= NextRows[n] PROVE \E i \in 1..n : NextRows[i] = u
  <2>1. n \in 1..n
    BY <1>4, <1>5
  <2>2. PICK i \in 1..n : rows[i] = u
    BY <1>2, <1>4, <1>8, <2>1
  <2> QED BY <1>4, <2>2
<1>9. NextRows \in Seq(Stored)
  <2>1. \A i \in 1..n : NextRows[i] \in Stored
    BY <1>6
  <2> QED BY <1>4, <2>1
<1>10. \A u \in Stored : cursor < u <=> u \in S
  BY StoredType
<1> QED BY <1>4, <1>5, <1>6, <1>7, <1>8, <1>9, <1>10

\* Geri writes: what the stream has passed over is late.
LEMMA WriteSInv ==
  ASSUME GInv, SInv, GInv', [GeriNext]_geriVars, UNCHANGED streamVars
  PROVE  SInv'
<1>1. /\ connected' = connected /\ cursor' = cursor /\ emitted' = emitted /\ start' = start
  BY DEF streamVars
<1>2. \A i \in DOMAIN table : i \in DOMAIN table' /\ table'[i] = table[i]
  BY TableGrows
<1>3. Stored \subseteq Stored'
  BY <1>2 DEF Stored
<1>4. /\ Len(table) \in Nat /\ DOMAIN table = 1..Len(table)
      /\ Len(table') \in Nat /\ DOMAIN table' = 1..Len(table')
      /\ \A i \in DOMAIN table : table[i].time \in Nat
      /\ \A i \in DOMAIN table' : table'[i].time \in Nat
  <2>1. table \in Seq(Packets) /\ table' \in Seq(Packets)
    BY DEF GInv, Shapes
  <2>2. \A p \in Packets : p.time \in Nat
    BY GeriAssumption DEF Packets
  <2> QED BY <2>1, <2>2
<1>5. StreamTypeOK'
  BY <1>1, <1>3 DEF SInv, StreamTypeOK, GInv
<1>6. CursorKeepsUp' /\ StreamInOrder'
  BY <1>1, <1>3 DEF SInv, CursorKeepsUp, StreamInOrder
<1>7. MissesOnlyLate'
  <2> SUFFICES ASSUME cursor # NoCursor, NEW i \in DOMAIN table',
                      table'[i].time > start, table'[i].time <= cursor,
                      table'[i].time \notin ToSet(emitted)
               PROVE  Late(i)'
    BY <1>1 DEF MissesOnlyLate
  <2>1. CASE i \in DOMAIN table
    <3>1. Late(i)
      BY <1>2, <2>1 DEF SInv, MissesOnlyLate
    <3>2. PICK j \in 1..(i - 1) : table[j].time > table[i].time
      BY <3>1 DEF Late
    <3>3. j \in DOMAIN table
      BY <1>4, <2>1
    <3> QED BY <1>2, <2>1, <3>2, <3>3 DEF Late
  <2>2. CASE i \notin DOMAIN table
    <3>1. PICK j \in DOMAIN table : table[j].time = cursor
      BY DEF SInv, CursorKeepsUp, Stored
    <3>2. j \in 1..(i - 1)
      BY <1>4, <2>2
    <3>3. table'[j].time = cursor
      BY <1>2, <3>1
    <3>4. start \in Nat /\ cursor \in Nat /\ table'[i].time \in Nat
      BY <1>4, GeriAssumption DEF SInv, StreamTypeOK
    <3>5. table'[i].time # cursor
      <4>1. cursor = start \/ cursor \in ToSet(emitted)
        BY DEF SInv, CursorKeepsUp
      <4> QED BY <3>4, <4>1
    <3>6. table'[j].time > table'[i].time
      BY <3>3, <3>4, <3>5
    <3> QED BY <3>2, <3>6 DEF Late
  <2> QED BY <2>1, <2>2
<1> QED BY <1>5, <1>6, <1>7 DEF SInv

\* The stream begins, at the tail or nowhere, or ends.
LEMMA BeginSInv ==
  ASSUME GInv, SInv, Connect \/ FindTail \/ Disconnect
  PROVE  SInv'
<1>1. /\ emitted' = <<>> /\ start' = cursor' /\ UNCHANGED geriVars
      /\ cursor' = NoCursor \/ cursor' \in Stored
      /\ connected' \in BOOLEAN
  BY LatestIsStored DEF Connect, FindTail, Disconnect, SInv, CursorKeepsUp, StreamTypeOK
<1>2. /\ GeriTypeOK' /\ Stored' = Stored /\ table' = table
      /\ Stored \subseteq 1..MaxPackets /\ NoCursor \notin 1..MaxPackets
      /\ \A t \in 1..MaxPackets : t \in Nat
  <2>1. GInv'
    BY <1>1, GeriNextGInv
  <2>2. table' = table
    BY <1>1 DEF geriVars
  <2> QED BY <2>1, <2>2, StoredType, GeriAssumption, StreamAssumption DEF GInv, Stored
<1>3. <<>> \in Seq(Nat) /\ DOMAIN <<>> = {} /\ ToSet(<<>>) = {}
  BY OnceNone
<1>4. StreamTypeOK'
  BY <1>1, <1>2, <1>3 DEF StreamTypeOK
<1>5. CursorKeepsUp' /\ StreamInOrder'
  BY <1>1, <1>2, <1>3 DEF CursorKeepsUp, StreamInOrder
<1>6. MissesOnlyLate'
  <2> SUFFICES ASSUME cursor' # NoCursor, NEW i \in DOMAIN table,
                      table[i].time > cursor', table[i].time <= cursor'
               PROVE  FALSE
    BY <1>1, <1>2 DEF MissesOnlyLate
  <2>1. table[i].time \in Nat /\ cursor' \in Nat
    BY <1>1, <1>2, StoredType
  <2> QED BY <2>1
<1> QED BY <1>4, <1>5, <1>6 DEF SInv

LEMMA PollSInv ==
  ASSUME GInv, SInv, Poll
  PROVE  SInv'
<1> DEFINE n == Len(NextRows)
           m == Len(emitted)
<1>1. /\ cursor # NoCursor /\ cursor \in Nat /\ start \in Nat /\ NextRows # <<>>
      /\ emitted' = emitted \o NextRows /\ cursor' = NextRows[n]
      /\ UNCHANGED <<geriVars, connected, start>>
  BY GeriAssumption DEF Poll, SInv, StreamTypeOK
<1>2. /\ n \in Nat \ {0} /\ NextRows \in Seq(Stored)
      /\ \A i \in 1..n : NextRows[i] \in Stored /\ cursor < NextRows[i]
      /\ \A i, j \in 1..n : i < j => NextRows[i] < NextRows[j]
      /\ \A u \in Stored : cursor < u /\ u <= NextRows[n] => \E i \in 1..n : NextRows[i] = u
  BY <1>1, PollSelects
<1>3. /\ GeriTypeOK' /\ Stored' = Stored /\ table' = table
      /\ Stored \subseteq Nat /\ Stored \subseteq 1..MaxPackets
  <2>1. GInv'
    BY <1>1, GeriNextGInv
  <2>2. table' = table
    BY <1>1 DEF geriVars
  <2> QED BY <2>1, <2>2, StoredType DEF GInv, Stored
<1>4. /\ emitted \in Seq(Nat) /\ NextRows \in Seq(Nat)
      /\ m \in Nat /\ DOMAIN emitted = 1..m
  <2>1. emitted \in Seq(Nat)
    BY DEF SInv, CursorKeepsUp
  <2>2. NextRows \in Seq(Nat)
    <3>1. \A i \in 1..n : NextRows[i] \in Nat
      BY <1>2, <1>3
    <3>2. DOMAIN NextRows = 1..n /\ NextRows \in [1..n -> Stored]
      BY <1>2
    <3>3. NextRows \in [1..n -> Nat]
      BY <3>1, <3>2
    <3> QED BY <1>2, <3>3
  <2> QED BY <2>1, <2>2
<1>5. /\ emitted' \in Seq(Nat) /\ DOMAIN emitted' = 1..(m + n)
      /\ \A i \in 1..(m + n) : emitted'[i] = IF i <= m THEN emitted[i] ELSE NextRows[i - m]
      /\ ToSet(emitted') = ToSet(emitted) \union ToSet(NextRows)
  <2>1. ToSet(emitted \o NextRows) = ToSet(emitted) \union ToSet(NextRows)
    BY <1>4, OnceConcat
  <2> QED BY <1>1, <1>4, <2>1, ConcatProperties
<1>6. ToSet(NextRows) = {NextRows[i] : i \in 1..n}
  BY <1>2 DEF ToSet
<1> HIDE DEF n, m
<1>7. /\ n \in 1..n /\ cursor' \in Stored /\ cursor' \in Nat /\ cursor' # NoCursor
      /\ cursor < cursor' /\ cursor' \in ToSet(emitted')
      /\ \A i \in 1..n : NextRows[i] <= cursor'
  <2>1. n \in 1..n
    BY <1>2
  <2>2. cursor' \in Stored /\ cursor < cursor' /\ cursor' \in Nat
    BY <1>1, <1>2, <1>3, <2>1
  <2>3. cursor' # NoCursor
    BY <2>2, StreamAssumption
  <2>4. cursor' \in ToSet(emitted')
    BY <1>1, <1>5, <1>6, <2>1
  <2>5. ASSUME NEW i \in 1..n PROVE NextRows[i] <= cursor'
    <3>1. NextRows[i] \in Nat
      BY <1>2, <1>3
    <3>2. CASE i = n
      BY <1>1, <2>2, <3>2
    <3>3. CASE i < n
      BY <1>1, <1>2, <2>1, <2>2, <3>1, <3>3
    <3> QED BY <1>2, <3>2, <3>3
  <2> QED BY <2>1, <2>2, <2>3, <2>4, <2>5
<1>8. \A i \in 1..m : emitted[i] \in Nat /\ emitted[i] <= cursor
  <2>1. \A i \in 1..m : emitted[i] \in Nat
    BY <1>4
  <2>2. \A i \in 1..m : emitted[i] <= cursor
    BY <1>1, <1>4 DEF SInv, CursorKeepsUp
  <2> QED BY <2>1, <2>2
<1>9. \A i \in 1..(m + n) : \/ i \in 1..m /\ emitted'[i] = emitted[i]
                            \/ i - m \in 1..n /\ emitted'[i] = NextRows[i - m]
  BY <1>2, <1>4, <1>5
<1>10. StreamTypeOK'
  <2>1. ToSet(emitted') \subseteq Stored'
    BY <1>2, <1>3, <1>5, <1>6 DEF SInv, StreamTypeOK
  <2> QED BY <1>1, <1>3, <1>7, <2>1 DEF SInv, StreamTypeOK
<1>11. CursorKeepsUp'
  <2>1. ASSUME NEW i \in DOMAIN emitted' PROVE emitted'[i] <= cursor'
    <3>1. CASE i \in 1..m /\ emitted'[i] = emitted[i]
      <4>1. emitted[i] \in Nat /\ emitted[i] <= cursor
        BY <1>8, <3>1
      <4> QED BY <1>1, <1>7, <3>1, <4>1
    <3>2. CASE i - m \in 1..n /\ emitted'[i] = NextRows[i - m]
      BY <1>7, <3>2
    <3> QED BY <1>5, <1>9, <3>1, <3>2
  <2> QED BY <1>3, <1>5, <1>7, <2>1 DEF CursorKeepsUp
<1>12. StreamInOrder'
  <2> SUFFICES ASSUME NEW i \in 1..(m + n), NEW j \in 1..(m + n), i < j
               PROVE  emitted'[i] < emitted'[j]
    BY <1>5 DEF StreamInOrder
  <2>1. CASE i \in 1..m /\ j \in 1..m
    <3>1. emitted[i] < emitted[j]
      BY <1>4, <2>1 DEF SInv, StreamInOrder
    <3>2. i <= m /\ j <= m
      BY <1>4, <2>1
    <3> QED BY <1>5, <3>1, <3>2
  <2>2. CASE i \in 1..m /\ j \notin 1..m
    <3>1. emitted'[i] = emitted[i] /\ j - m \in 1..n /\ emitted'[j] = NextRows[j - m]
      BY <1>4, <1>5, <1>9, <2>2
    <3>2. NextRows[j - m] \in Nat /\ cursor < NextRows[j - m]
      BY <1>2, <1>3, <3>1
    <3> QED BY <1>1, <1>8, <2>2, <3>1, <3>2
  <2>3. CASE i \notin 1..m
    <3>1. /\ i - m \in 1..n /\ emitted'[i] = NextRows[i - m]
          /\ j - m \in 1..n /\ emitted'[j] = NextRows[j - m] /\ i - m < j - m
      BY <1>2, <1>4, <1>9, <2>3
    <3> QED BY <1>2, <3>1
  <2> QED BY <2>1, <2>2, <2>3
<1>13. MissesOnlyLate'
  <2> SUFFICES ASSUME NEW i \in DOMAIN table, table[i].time > start, table[i].time <= cursor'
               PROVE  table[i].time \in ToSet(emitted') \/ Late(i)'
    BY <1>1, <1>3 DEF MissesOnlyLate
  <2>1. table[i].time \in Stored /\ table[i].time \in Nat
    BY <1>3, StoredType
  <2>2. CASE table[i].time <= cursor
    <3>1. table[i].time \in ToSet(emitted) \/ Late(i)
      BY <1>1, <2>2 DEF SInv, MissesOnlyLate
    <3>2. Late(i) => Late(i)'
      BY <1>3 DEF Late
    <3> QED BY <1>5, <3>1, <3>2
  <2>3. CASE cursor < table[i].time
    BY <1>1, <1>2, <1>5, <1>6, <2>1, <2>3
  <2> QED BY <1>1, <2>1, <2>2, <2>3
<1> QED BY <1>10, <1>11, <1>12, <1>13 DEF SInv

LEMMA IngestInitInv == IngestInit => GInv /\ SInv
<1> SUFFICES ASSUME IngestInit PROVE GInv /\ SInv
  OBVIOUS
<1>1. GInv
  BY GeriInitGInv DEF IngestInit
<1>2. <<>> \in Seq(Nat) /\ DOMAIN <<>> = {} /\ ToSet(<<>>) = {}
  BY OnceNone
<1>3. SInv
  BY <1>1, <1>2 DEF IngestInit, GInv, SInv, StreamTypeOK, CursorKeepsUp, StreamInOrder,
     MissesOnlyLate
<1> QED BY <1>1, <1>3

LEMMA IngestNextInv == GInv /\ SInv /\ [IngestNext]_ingestVars => GInv' /\ SInv'
<1> SUFFICES ASSUME GInv, SInv, [IngestNext]_ingestVars PROVE GInv' /\ SInv'
  OBVIOUS
<1>1. [GeriNext]_geriVars
  BY DEF IngestNext, ingestVars, Connect, FindTail, Poll, Disconnect
<1>2. GInv'
  BY <1>1, GeriNextGInv
<1>3. CASE UNCHANGED streamVars
  BY <1>1, <1>2, <1>3, WriteSInv
<1>4. CASE Connect \/ FindTail \/ Disconnect
  BY <1>2, <1>4, BeginSInv
<1>5. CASE Poll
  BY <1>2, <1>5, PollSInv
<1>6. SInv'
  BY <1>3, <1>4, <1>5 DEF IngestNext, ingestVars
<1> QED BY <1>2, <1>6

-------------------------------------------------------------------------------
(* The theorems.                                                           *)

\* In every reachable state of Geri its inductive invariant holds.
THEOREM GeriInvariant == GeriSpec => []GInv
<1> QED BY GeriInitGInv, GeriNextGInv, PTL DEF GeriSpec

\* The stream only reads: composed with it, Geri does what it does alone.
THEOREM IngestIsGeri == IngestSpec => GeriSpec
<1>1. IngestInit => GeriInit
  BY DEF IngestInit
<1>2. [IngestNext]_ingestVars => [GeriNext]_geriVars
  BY DEF IngestNext, ingestVars, Connect, FindTail, Poll, Disconnect
<1> QED BY <1>1, <1>2, PTL DEF IngestSpec, GeriSpec

\* In every reachable state both inductive invariants hold.
THEOREM IngestInvariant == IngestSpec => [](GInv /\ SInv)
<1> QED BY IngestInitInv, IngestNextInv, PTL DEF IngestSpec

\* The type invariants of Geri and of the stream.
THEOREM IngestTypes == IngestSpec => []StreamTypeOK
<1>1. GInv /\ SInv => StreamTypeOK
  BY DEF SInv
<1> QED BY <1>1, IngestInvariant, PTL

\* csi_samples, a table without a key, has no packet twice.
THEOREM GeriStoresOnce == GeriSpec => []StoredOnce
<1>1. GInv => StoredOnce
  BY GeriSafe
<1> QED BY <1>1, GeriInvariant, PTL

\* A packet that arrived is stored, in memory, or excused.
THEOREM GeriLosesNothing == GeriSpec => []NothingVanishes
<1>1. GInv => NothingVanishes
  BY GeriSafe
<1> QED BY <1>1, GeriInvariant, PTL

\* A consumer sees rows in the order of their times and none twice.
THEOREM StreamOrder == IngestSpec => []StreamInOrder
<1>1. GInv /\ SInv => StreamInOrder
  BY DEF SInv
<1> QED BY <1>1, IngestInvariant, PTL

\* The cursor passes over no row but one committed after it had passed.
THEOREM StreamMisses == IngestSpec => []MissesOnlyLate
<1>1. GInv /\ SInv => MissesOnlyLate
  BY DEF SInv
<1> QED BY <1>1, IngestInvariant, PTL
===============================================================================
