--------------------- MODULE DynamicConcurrencyLimitProofs ---------------------
(***************************************************************************)
(* Type correctness, slot conservation and the absence of lost wakeups of  *)
(* DynamicConcurrencyLimit, for every set of tasks and every MaxLimit.     *)
(*                                                                         *)
(* The one idea of the proof: the woken and the parked tasks, in that      *)
(* order, form one queue, and waking tasks moves the border between the    *)
(* two without changing the queue.  So the queue only grows at its end     *)
(* (Park) and only loses single elements (Resume, cancellation), and what  *)
(* is needed of it - no task twice, no task that also holds a slot - is    *)
(* easy to carry along.                                                    *)
(***************************************************************************)
EXTENDS DynamicConcurrencyLimit, ConcurrencyLimitLemmas, FiniteSetTheorems, TLAPS

\* Well-typed limits, and the parts of the invariant.
Limits == [value : Nat, waiting : Seq(Tasks), woken : Seq(Tasks),
           limit : 0..MaxLimit, debt : Nat]

Conserved(l, H) == l.value + Len(l.woken) + Cardinality(H) = l.limit + l.debt
NoneOverlooked(l) == (l.value > 0 /\ l.waiting # <<>>) => l.woken # <<>>

\* The inductive invariant, of a limit l and the set H of the tasks that hold
\* a slot of it.
Sound(l, H) ==
  /\ l \in Limits
  /\ H \subseteq Tasks
  /\ Conserved(l, H)
  /\ NoneOverlooked(l)
  /\ Distinct(Queue(l))
  /\ Avoids(Queue(l), H)

-------------------------------------------------------------------------------
\* Waking as ConcurrencyLimitLemmas has it, with the limit within its bounds.
LEMMA WakeFacts ==
  ASSUME NEW l \in Limits, NEW n \in Nat
  PROVE  /\ Wake(l, n) \in Limits
         /\ Wake(l, n).limit = l.limit /\ Wake(l, n).debt = l.debt
         /\ Wake(l, n).value + Len(Wake(l, n).woken) = l.value + Len(l.woken)
         /\ Queue(Wake(l, n)) = Queue(l)
         /\ \/ Wake(l, n).value = 0
            \/ Wake(l, n).waiting = <<>>
            \/ Len(Wake(l, n).woken) = Len(l.woken) + n
         /\ Len(Wake(l, n).woken) >= Len(l.woken)
<1>1. l \in LimitsOf(Tasks)
  BY MaxLimitAssumption DEF Limits, LimitsOf
<1> DEFINE w == Wake(l, n)
<1>2. /\ w \in LimitsOf(Tasks)
      /\ w.limit = l.limit /\ w.debt = l.debt
      /\ w.value + Len(w.woken) = l.value + Len(l.woken)
      /\ Queue(w) = Queue(l)
      /\ w.value = 0 \/ w.waiting = <<>> \/ Len(w.woken) = Len(l.woken) + n
      /\ Len(w.woken) >= Len(l.woken)
  BY <1>1, WakeMovesBorder, Zenon
<1> HIDE DEF w
<1>3. w \in Limits
  BY <1>2 DEF Limits, LimitsOf
<1> QED BY <1>2, <1>3, Zenon DEF w

\* Waking keeps the invariant; it restores the part about overlooked slots as
\* soon as it may wake anybody at all.
LEMMA WakeKeeps ==
  ASSUME NEW l \in Limits, NEW n \in Nat, NEW H \in SUBSET Tasks,
         Conserved(l, H), Distinct(Queue(l)), Avoids(Queue(l), H),
         n > 0 \/ l.value = 0 \/ NoneOverlooked(l)
  PROVE  Sound(Wake(l, n), H)
<1> DEFINE w == Wake(l, n)
<1>1. /\ w \in Limits
      /\ w.limit = l.limit /\ w.debt = l.debt
      /\ w.value + Len(w.woken) = l.value + Len(l.woken)
      /\ Queue(w) = Queue(l)
      /\ w.value = 0 \/ w.waiting = <<>> \/ Len(w.woken) = Len(l.woken) + n
      /\ Len(w.woken) >= Len(l.woken)
  BY WakeFacts
<1> HIDE DEF w
<1>2. Conserved(w, H)
  <2>1. w.value + Len(w.woken) + Cardinality(H)
          = l.value + Len(l.woken) + Cardinality(H)
    BY <1>1
  <2> QED BY <1>1, <2>1 DEF Conserved
<1>3. NoneOverlooked(w)
  <2>1. CASE n > 0
    <3>1. Len(l.woken) \in Nat /\ Len(<<>>) = 0
      BY EmptySeq DEF Limits
    <3>2. Len(w.woken) = Len(l.woken) + n => Len(w.woken) # 0
      BY <2>1, <3>1
    <3> QED BY <1>1, <3>1, <3>2 DEF NoneOverlooked
  <2>2. CASE n = 0
    <3>1. Wake(l, 0) = l
      <4>1. /\ l = [value |-> l.value, waiting |-> l.waiting, woken |-> l.woken,
                    limit |-> l.limit, debt |-> l.debt]
            /\ l.value \in Nat /\ l.waiting \in Seq(Tasks) /\ l.woken \in Seq(Tasks)
        BY DEF Limits
      <4>2. Smaller(0, Smaller(l.value, Len(l.waiting))) = 0
        <5>1. Len(l.waiting) \in Nat
          BY <4>1
        <5> QED BY <4>1, <5>1 DEF Smaller
      <4>3. /\ SubSeq(l.waiting, 0 + 1, Len(l.waiting)) = l.waiting
            /\ l.woken \o SubSeq(l.waiting, 1, 0) = l.woken
            /\ l.value - 0 = l.value
        BY <4>1, SubSeqFull, SubSeqEmpty, ConcatEmptySeq
      <4>4. Wake(l, 0) = [l EXCEPT !.value   = l.value - 0,
                                   !.waiting = SubSeq(l.waiting, 0 + 1, Len(l.waiting)),
                                   !.woken   = l.woken \o SubSeq(l.waiting, 1, 0)]
        BY <4>2, Zenon DEF Wake
      <4> QED BY <4>1, <4>3, <4>4
    <3> QED BY <2>2, <3>1, <1>1 DEF NoneOverlooked, w, Limits
  <2> QED BY <2>1, <2>2
<1> QED BY <1>1, <1>2, <1>3 DEF Sound, w

\* What Sound says of the fields, in the form the arithmetic steps need.
LEMMA FieldFacts ==
  ASSUME NEW l, NEW H, Sound(l, H)
  PROVE  /\ l = [value |-> l.value, waiting |-> l.waiting, woken |-> l.woken,
                 limit |-> l.limit, debt |-> l.debt]
         /\ l.value \in Nat /\ l.debt \in Nat
         /\ l.limit \in 0..MaxLimit /\ l.limit \in Nat
         /\ l.waiting \in Seq(Tasks) /\ Len(l.waiting) \in Nat
         /\ l.woken \in Seq(Tasks) /\ Len(l.woken) \in Nat
         /\ Queue(l) \in Seq(Tasks)
         /\ IsFiniteSet(H) /\ Cardinality(H) \in Nat
         /\ l.value + Len(l.woken) + Cardinality(H) = l.limit + l.debt
<1>1. l \in Limits /\ H \in SUBSET Tasks /\ Conserved(l, H)
  BY DEF Sound
<1>2. IsFiniteSet(H) /\ Cardinality(H) \in Nat
  BY <1>1, TasksAssumption, FS_Subset, FS_CardinalityType
<1>3. /\ l = [value |-> l.value, waiting |-> l.waiting, woken |-> l.woken,
              limit |-> l.limit, debt |-> l.debt]
      /\ l.value \in Nat /\ l.debt \in Nat /\ l.limit \in 0..MaxLimit
      /\ l.waiting \in Seq(Tasks) /\ l.woken \in Seq(Tasks)
  BY <1>1 DEF Limits
<1>4. l.limit \in Nat /\ Len(l.waiting) \in Nat /\ Len(l.woken) \in Nat
  BY <1>3, MaxLimitAssumption
<1>5. Queue(l) \in Seq(Tasks)
  BY <1>3, ConcatProperties DEF Queue
<1> QED BY <1>1, <1>2, <1>3, <1>4, <1>5 DEF Conserved

\* The end of the queue is where a task parks.
LEMMA ParkKeeps ==
  ASSUME NEW l, NEW H, NEW t \in Tasks, Sound(l, H), Locked(l), t \notin H,
         \A i \in 1..Len(l.waiting) : l.waiting[i] # t,
         \A i \in 1..Len(l.woken) : l.woken[i] # t
  PROVE  Sound(Park(l, t), H)
<1> DEFINE p == Park(l, t)
           q == Append(l.waiting, t)
<1>1. /\ l = [value |-> l.value, waiting |-> l.waiting, woken |-> l.woken,
              limit |-> l.limit, debt |-> l.debt]
      /\ l.value \in Nat /\ l.debt \in Nat /\ l.limit \in 0..MaxLimit
      /\ l.waiting \in Seq(Tasks) /\ Len(l.waiting) \in Nat
      /\ l.woken \in Seq(Tasks) /\ Len(l.woken) \in Nat
  BY FieldFacts
<1>2. /\ q \in Seq(Tasks) /\ Len(q) = Len(l.waiting) + 1
      /\ \A i \in 1..Len(l.waiting) : q[i] = l.waiting[i]
      /\ q[Len(l.waiting) + 1] = t
  BY <1>1, AppendProperties
<1>3. p = [value |-> l.value, waiting |-> q, woken |-> l.woken,
           limit |-> l.limit, debt |-> l.debt]
  <2>1. p = [l EXCEPT !.waiting = q]
    BY Zenon DEF Park
  <2> HIDE DEF p, q
  <2> QED BY <1>1, <2>1
<1> HIDE DEF p, q
<1>4. p \in Limits
  BY <1>1, <1>2, <1>3 DEF Limits
<1>5. Conserved(p, H)
  BY <1>3 DEF Conserved, Sound
<1>6. NoneOverlooked(p)
  BY <1>3 DEF NoneOverlooked, Sound, Locked
<1> DEFINE m == Len(l.woken)
           n == Len(l.waiting)
<1>7. /\ Len(Queue(l)) = m + n
      /\ \A j \in 1..(m + n) :
           Queue(l)[j] = IF j <= m THEN l.woken[j] ELSE l.waiting[j - m]
  BY <1>1, ConcatProperties, Zenon DEF Queue
<1>8. /\ Len(Queue(p)) = m + Len(q)
      /\ \A j \in 1..(m + Len(q)) :
           Queue(p)[j] = IF j <= m THEN l.woken[j] ELSE q[j - m]
  <2>1. Queue(p) = l.woken \o q
    BY <1>3 DEF Queue
  <2>2. /\ Len(l.woken \o q) = m + Len(q)
        /\ \A j \in 1..(m + Len(q)) :
             (l.woken \o q)[j] = IF j <= m THEN l.woken[j] ELSE q[j - m]
    <3>1. l.woken \in Seq(Tasks) /\ q \in Seq(Tasks)
      BY <1>1, <1>2
    <3> QED BY <3>1, ConcatProperties, Zenon
  <2> QED BY <2>1, <2>2, Zenon
<1>9. ASSUME NEW j \in 1..(m + n)
      PROVE  /\ Queue(p)[j] = Queue(l)[j]
             /\ Queue(l)[j] # t
  <2>1. CASE j <= m
    <3>1. j \in 1..(m + Len(q)) /\ j \in 1..m
      BY <1>1, <1>2, <2>1
    <3> QED BY <1>7, <1>8, <2>1, <3>1
  <2>2. CASE ~(j <= m)
    <3>1. j \in 1..(m + Len(q)) /\ j - m \in 1..n
      BY <1>1, <1>2, <2>2
    <3> QED BY <1>2, <1>7, <1>8, <2>2, <3>1
  <2> QED BY <2>1, <2>2
<1>10. /\ Queue(p)[m + n + 1] = t
       /\ Len(Queue(p)) = m + n + 1
       /\ m + n \in Nat
  <2>1. /\ m + n + 1 \in 1..(m + Len(q)) /\ ~(m + n + 1 <= m)
        /\ (m + n + 1) - m = n + 1 /\ m + Len(q) = m + n + 1 /\ m + n \in Nat
    BY <1>1, <1>2
  <2> QED BY <1>2, <1>8, <2>1
<1>11. \A j \in 1..Len(Queue(p)) : j \in 1..(m + n) \/ j = m + n + 1
  <2>1. m + n \in Nat /\ Len(Queue(p)) = (m + n) + 1
    BY <1>10
  <2> HIDE DEF m, n
  <2> QED BY <2>1
<1>12. Distinct(Queue(p))
  <2>1. Distinct(Queue(l))
    BY DEF Sound
  <2> SUFFICES ASSUME NEW i \in 1..Len(Queue(p)), NEW j \in 1..Len(Queue(p)),
                      Queue(p)[i] = Queue(p)[j]
               PROVE  i = j
    BY DEF Distinct
  <2>2. CASE i \in 1..(m + n) /\ j \in 1..(m + n)
    BY <1>7, <1>9, <2>1, <2>2 DEF Distinct
  <2>3. CASE i = m + n + 1 /\ j \in 1..(m + n)
    BY <1>9, <1>10, <2>3
  <2>4. CASE j = m + n + 1 /\ i \in 1..(m + n)
    BY <1>9, <1>10, <2>4
  <2> QED BY <1>11, <2>2, <2>3, <2>4
<1>13. Avoids(Queue(p), H)
  <2>1. Avoids(Queue(l), H)
    BY DEF Sound
  <2> QED BY <1>7, <1>9, <1>10, <1>11, <2>1 DEF Avoids
<1> QED BY <1>4, <1>5, <1>6, <1>12, <1>13 DEF Sound, p

\* Taking a free slot: nobody is in the queue.
LEMMA TakeKeeps ==
  ASSUME NEW l, NEW H, NEW t \in Tasks, Sound(l, H), ~Locked(l), t \notin H
  PROVE  Sound(TakeSlot(l), H \cup {t})
<1> DEFINE p == TakeSlot(l)
           K == H \cup {t}
<1>1. /\ l = [value |-> l.value, waiting |-> l.waiting, woken |-> l.woken,
              limit |-> l.limit, debt |-> l.debt]
      /\ l.value \in Nat /\ l.debt \in Nat
      /\ l.limit \in 0..MaxLimit /\ l.limit \in Nat
      /\ Len(l.woken) \in Nat
      /\ IsFiniteSet(H) /\ Cardinality(H) \in Nat
      /\ l.value + Len(l.woken) + Cardinality(H) = l.limit + l.debt
  BY FieldFacts
<1>2. l.value # 0 /\ l.waiting = <<>> /\ l.woken = <<>>
  BY DEF Locked
<1>3. p = [value |-> l.value - 1, waiting |-> <<>>, woken |-> <<>>,
           limit |-> l.limit, debt |-> l.debt]
  <2>1. p = [l EXCEPT !.value = l.value - 1]
    BY Zenon DEF TakeSlot
  <2> HIDE DEF p
  <2> QED BY <1>1, <1>2, <2>1
<1>4. Cardinality(K) = Cardinality(H) + 1
  BY <1>1, FS_AddElement
<1> HIDE DEF p
<1>5. p \in Limits
  BY <1>1, <1>2, <1>3, EmptySeq DEF Limits
<1>6. Conserved(p, K)
  <2>1. Len(l.woken) = 0
    BY <1>2, EmptySeq
  <2>2. /\ p.value = l.value - 1 /\ Len(p.woken) = Len(l.woken)
        /\ p.limit = l.limit /\ p.debt = l.debt
    BY <1>2, <1>3
  <2>3. p.value + Len(p.woken) + Cardinality(K) = p.limit + p.debt
    BY <1>1, <1>4, <2>1, <2>2
  <2> QED BY <2>3 DEF Conserved
<1>7. Queue(p) = <<>> /\ Len(<<>>) = 0
  BY <1>3, EmptySeq, ConcatEmptySeq DEF Queue
<1>8. NoneOverlooked(p) /\ Distinct(Queue(p)) /\ Avoids(Queue(p), K)
  <2>1. \A i \in 1..Len(Queue(p)) : FALSE
    BY <1>7
  <2>2. NoneOverlooked(p)
    BY <1>3 DEF NoneOverlooked
  <2> QED BY <2>1, <2>2 DEF Distinct, Avoids
<1>9. K \subseteq Tasks
  BY DEF Sound
<1> QED BY <1>5, <1>6, <1>8, <1>9 DEF Sound, p

\* The queue after its woken element i, or its parked element i, has left.
LEMMA QueueDrop ==
  ASSUME NEW l, NEW H, Sound(l, H)
  PROVE  /\ \A i \in 1..Len(l.woken) :
              /\ DropAt(l.woken, i) \in Seq(Tasks)
              /\ Len(DropAt(l.woken, i)) = Len(l.woken) - 1
              /\ Distinct(DropAt(l.woken, i) \o l.waiting)
              /\ Avoids(DropAt(l.woken, i) \o l.waiting, H)
         /\ \A i \in 1..Len(l.waiting) :
              /\ DropAt(l.waiting, i) \in Seq(Tasks)
              /\ Distinct(l.woken \o DropAt(l.waiting, i))
              /\ Avoids(l.woken \o DropAt(l.waiting, i), H)
<1>1. l.woken \in Seq(Tasks) /\ l.waiting \in Seq(Tasks) /\ Queue(l) \in Seq(Tasks)
  BY FieldFacts
<1>2. Distinct(Queue(l)) /\ Avoids(Queue(l), H)
  BY DEF Sound
<1>3. ASSUME NEW i \in 1..Len(l.woken)
      PROVE  /\ DropAt(l.woken, i) \in Seq(Tasks)
             /\ Len(DropAt(l.woken, i)) = Len(l.woken) - 1
             /\ Distinct(DropAt(l.woken, i) \o l.waiting)
             /\ Avoids(DropAt(l.woken, i) \o l.waiting, H)
  <2>1. /\ DropAt(l.woken, i) \in Seq(Tasks)
        /\ Len(DropAt(l.woken, i)) = Len(l.woken) - 1
    BY <1>1, DropFacts, Zenon
  <2>2. /\ i \in 1..Len(Queue(l))
        /\ DropAt(l.woken, i) \o l.waiting = DropAt(Queue(l), i)
    BY <1>1, DropLeft, Zenon DEF Queue
  <2>3. Distinct(DropAt(Queue(l), i)) /\ Avoids(DropAt(Queue(l), i), H)
    BY <1>1, <1>2, <2>2, DropKeeps, Zenon
  <2> QED BY <2>1, <2>2, <2>3, Zenon
<1>4. ASSUME NEW i \in 1..Len(l.waiting)
      PROVE  /\ DropAt(l.waiting, i) \in Seq(Tasks)
             /\ Distinct(l.woken \o DropAt(l.waiting, i))
             /\ Avoids(l.woken \o DropAt(l.waiting, i), H)
  <2>1. DropAt(l.waiting, i) \in Seq(Tasks)
    BY <1>1, DropFacts, Zenon
  <2>2. /\ Len(l.woken) + i \in 1..Len(Queue(l))
        /\ l.woken \o DropAt(l.waiting, i) = DropAt(Queue(l), Len(l.woken) + i)
    BY <1>1, DropRight, Zenon DEF Queue
  <2>3. /\ Distinct(DropAt(Queue(l), Len(l.woken) + i))
        /\ Avoids(DropAt(Queue(l), Len(l.woken) + i), H)
    BY <1>1, <1>2, <2>2, DropKeeps, Zenon
  <2> QED BY <2>1, <2>2, <2>3, Zenon
<1> QED BY <1>3, <1>4

\* m is the limit l with x in field f.
IsUpdate(m, l, f, x) ==
  /\ m \in Limits
  /\ m[f] = x
  /\ f # "value"   => m.value = l.value
  /\ f # "waiting" => m.waiting = l.waiting
  /\ f # "woken"   => m.woken = l.woken
  /\ f # "limit"   => m.limit = l.limit
  /\ f # "debt"    => m.debt = l.debt

\* Replacing one field of a limit changes that field and no other.
LEMMA Updates ==
  ASSUME NEW l \in Limits
  PROVE  /\ \A x \in Nat : IsUpdate([l EXCEPT !.value = x], l, "value", x)
         /\ \A x \in Seq(Tasks) : IsUpdate([l EXCEPT !.waiting = x], l, "waiting", x)
         /\ \A x \in Seq(Tasks) : IsUpdate([l EXCEPT !.woken = x], l, "woken", x)
         /\ \A x \in 0..MaxLimit : IsUpdate([l EXCEPT !.limit = x], l, "limit", x)
         /\ \A x \in Nat : IsUpdate([l EXCEPT !.debt = x], l, "debt", x)
<1>1. \A x \in Nat : IsUpdate([l EXCEPT !.value = x], l, "value", x)
  BY DEF Limits, IsUpdate
<1>2. \A x \in Seq(Tasks) : IsUpdate([l EXCEPT !.waiting = x], l, "waiting", x)
  BY DEF Limits, IsUpdate
<1>3. \A x \in Seq(Tasks) : IsUpdate([l EXCEPT !.woken = x], l, "woken", x)
  BY DEF Limits, IsUpdate
<1>4. \A x \in 0..MaxLimit : IsUpdate([l EXCEPT !.limit = x], l, "limit", x)
  BY DEF Limits, IsUpdate
<1>5. \A x \in Nat : IsUpdate([l EXCEPT !.debt = x], l, "debt", x)
  BY DEF Limits, IsUpdate
<1> QED BY <1>1, <1>2, <1>3, <1>4, <1>5, Zenon

\* A parked task that is cancelled leaves its place; nobody else moves.
LEMMA CancelWaitingKeeps ==
  ASSUME NEW l, NEW H, Sound(l, H), NEW i \in 1..Len(l.waiting)
  PROVE  Sound(CancelWaiting(l, i), H)
<1> DEFINE p == [l EXCEPT !.waiting = DropAt(l.waiting, i)]
<1>1. l \in Limits /\ l.value \in Nat
  BY DEF Sound, Limits
<1>2. /\ DropAt(l.waiting, i) \in Seq(Tasks)
      /\ Distinct(l.woken \o DropAt(l.waiting, i))
      /\ Avoids(l.woken \o DropAt(l.waiting, i), H)
  BY QueueDrop
<1>3. IsUpdate(p, l, "waiting", DropAt(l.waiting, i))
  BY <1>1, <1>2, Updates, Zenon
<1>4. CancelWaiting(l, i) = Wake(p, l.value)
  BY Zenon DEF CancelWaiting
<1> HIDE DEF p
<1>5. /\ p \in Limits /\ p.value = l.value /\ p.woken = l.woken
      /\ p.waiting = DropAt(l.waiting, i) /\ p.limit = l.limit /\ p.debt = l.debt
  BY <1>3 DEF IsUpdate
<1>6. Conserved(p, H)
  BY <1>5 DEF Sound, Conserved
<1>7. Queue(p) = l.woken \o DropAt(l.waiting, i)
  BY <1>5 DEF Queue
<1>8. Sound(Wake(p, l.value), H)
  <2>1. H \in SUBSET Tasks /\ (p.value = 0 \/ l.value > 0)
    BY <1>1, <1>5 DEF Sound
  <2> QED BY <1>1, <1>2, <1>5, <1>6, <1>7, <2>1, WakeKeeps
<1> QED BY <1>4, <1>8, Zenon

\* A woken task that is cancelled puts its slot back, and the next is woken.
LEMMA CancelWokenKeeps ==
  ASSUME NEW l, NEW H, Sound(l, H), NEW i \in 1..Len(l.woken)
  PROVE  Sound(CancelWoken(l, i), H)
<1> DEFINE m == [l EXCEPT !.woken = DropAt(l.woken, i)]
           p == [m EXCEPT !.value = m.value + 1]
<1>1. /\ l \in Limits /\ l.value \in Nat /\ l.debt \in Nat /\ l.limit \in Nat
      /\ Len(l.woken) \in Nat /\ Cardinality(H) \in Nat
      /\ l.value + Len(l.woken) + Cardinality(H) = l.limit + l.debt
  BY FieldFacts DEF Sound
<1>2. /\ DropAt(l.woken, i) \in Seq(Tasks)
      /\ Len(DropAt(l.woken, i)) = Len(l.woken) - 1
      /\ Distinct(DropAt(l.woken, i) \o l.waiting)
      /\ Avoids(DropAt(l.woken, i) \o l.waiting, H)
  BY QueueDrop
<1>3. CancelWoken(l, i) = Wake(p, l.value + 1)
  BY Zenon DEF CancelWoken
<1>4. IsUpdate(m, l, "woken", DropAt(l.woken, i))
  BY <1>1, <1>2, Updates, Zenon
<1>5. /\ m \in Limits /\ m.value = l.value /\ m.woken = DropAt(l.woken, i)
      /\ m.waiting = l.waiting /\ m.limit = l.limit /\ m.debt = l.debt
  <2> HIDE DEF m
  <2> QED BY <1>4 DEF IsUpdate
<1> HIDE DEF m
<1>6. IsUpdate(p, m, "value", m.value + 1)
  <2>1. m.value + 1 \in Nat
    BY <1>1, <1>5
  <2> QED BY <1>5, <2>1, Updates, Zenon
<1> HIDE DEF p
<1>7. /\ p \in Limits /\ p.value = l.value + 1 /\ p.woken = DropAt(l.woken, i)
      /\ p.waiting = l.waiting /\ p.limit = l.limit /\ p.debt = l.debt
  BY <1>5, <1>6 DEF IsUpdate
<1>8. Conserved(p, H)
  <2>1. /\ p.value = l.value + 1 /\ Len(p.woken) = Len(l.woken) - 1
        /\ p.limit = l.limit /\ p.debt = l.debt
    BY <1>2, <1>7
  <2>2. p.value + Len(p.woken) + Cardinality(H) = p.limit + p.debt
    BY <1>1, <2>1
  <2> QED BY <2>2 DEF Conserved
<1>9. Queue(p) = DropAt(l.woken, i) \o l.waiting
  BY <1>7 DEF Queue
<1>10. Sound(Wake(p, l.value + 1), H)
  <2>1. H \in SUBSET Tasks /\ l.value + 1 \in Nat /\ l.value + 1 > 0
    BY <1>1 DEF Sound
  <2> QED BY <1>2, <1>7, <1>8, <1>9, <2>1, WakeKeeps
<1> QED BY <1>3, <1>10, Zenon

\* The oldest woken task runs and holds its slot.
LEMMA ResumeKeeps ==
  ASSUME NEW l, NEW H, Sound(l, H), l.woken # <<>>
  PROVE  Sound(Resume(l), H \cup {Head(l.woken)})
<1> DEFINE t == Head(l.woken)
           K == H \cup {t}
           p == [l EXCEPT !.woken = Tail(l.woken)]
<1>1. /\ l = [value |-> l.value, waiting |-> l.waiting, woken |-> l.woken,
              limit |-> l.limit, debt |-> l.debt]
      /\ l.value \in Nat /\ l.debt \in Nat /\ l.limit \in 0..MaxLimit
      /\ l.limit \in Nat /\ l.waiting \in Seq(Tasks) /\ l.woken \in Seq(Tasks)
      /\ Len(l.woken) \in Nat /\ Len(l.waiting) \in Nat
      /\ IsFiniteSet(H) /\ Cardinality(H) \in Nat
      /\ l.value + Len(l.woken) + Cardinality(H) = l.limit + l.debt
      /\ Queue(l) \in Seq(Tasks)
  BY FieldFacts
<1>2. /\ t \in Tasks /\ t = l.woken[1] /\ 1 \in 1..Len(l.woken)
      /\ Tail(l.woken) = DropAt(l.woken, 1)
  <2>1. t \in Tasks /\ t = l.woken[1] /\ 1 \in 1..Len(l.woken)
    BY <1>1, EmptySeq
  <2>2. Tail(l.woken) \in Seq(Tasks) /\ Tail(l.woken) = SubSeq(l.woken, 2, Len(l.woken))
    BY <1>1, HeadTailProperties, TailIsSubSeq
  <2>3. SubSeq(l.woken, 1, 0) = <<>>
    BY SubSeqEmpty
  <2>4. <<>> \o Tail(l.woken) = Tail(l.woken)
    BY <2>2, ConcatEmptySeq
  <2>5. DropAt(l.woken, 1) = SubSeq(l.woken, 1, 0) \o SubSeq(l.woken, 2, Len(l.woken))
    <3>1. 1 - 1 = 0 /\ 1 + 1 = 2
      OBVIOUS
    <3> QED BY <3>1 DEF DropAt
  <2> QED BY <2>1, <2>2, <2>3, <2>4, <2>5, Zenon
<1>3. /\ DropAt(l.woken, 1) \in Seq(Tasks)
      /\ Len(DropAt(l.woken, 1)) = Len(l.woken) - 1
      /\ Distinct(DropAt(l.woken, 1) \o l.waiting)
      /\ Avoids(DropAt(l.woken, 1) \o l.waiting, H)
  BY <1>2, QueueDrop
<1>12. Resume(l) = Wake(p, l.value)
  BY Zenon DEF Resume
<1>13. IsUpdate(p, l, "woken", DropAt(l.woken, 1))
  <2>1. l \in Limits
    BY DEF Sound
  <2> QED BY <1>2, <1>3, <2>1, Updates, Zenon
<1> HIDE DEF p
<1>4. /\ p \in Limits /\ p.value = l.value /\ p.woken = DropAt(l.woken, 1)
      /\ p.waiting = l.waiting /\ p.limit = l.limit /\ p.debt = l.debt
  BY <1>13 DEF IsUpdate
<1>5. Queue(p) = DropAt(l.woken, 1) \o l.waiting
  BY <1>4 DEF Queue
<1>6. t \notin H /\ \A j \in 1..Len(Queue(p)) : Queue(p)[j] # t
  <2>1. /\ Len(Queue(l)) = Len(l.woken) + Len(l.waiting)
        /\ \A j \in 1..(Len(l.woken) + Len(l.waiting)) :
             Queue(l)[j] = IF j <= Len(l.woken) THEN l.woken[j]
                           ELSE l.waiting[j - Len(l.woken)]
    BY <1>1, ConcatProperties, Zenon DEF Queue
  <2>2. 1 \in 1..Len(Queue(l)) /\ Queue(l)[1] = t
    BY <1>1, <1>2, <2>1
  <2>3. Queue(p) = DropAt(Queue(l), 1)
    BY <1>1, <1>2, <1>5, DropLeft, Zenon DEF Queue
  <2>4. /\ Len(Queue(p)) = Len(Queue(l)) - 1
        /\ \A j \in 1..(Len(Queue(l)) - 1) :
             DropAt(Queue(l), 1)[j] = IF j < 1 THEN Queue(l)[j] ELSE Queue(l)[j + 1]
    BY <1>1, <2>2, <2>3, DropFacts, Zenon
  <2>5. Distinct(Queue(l)) /\ Avoids(Queue(l), H)
    BY DEF Sound
  <2>6. t \notin H
    BY <2>2, <2>5 DEF Avoids
  <2>7. ASSUME NEW j \in 1..Len(Queue(p))
        PROVE  Queue(p)[j] # t
    <3>1. /\ Len(Queue(l)) \in Nat /\ j \in 1..(Len(Queue(l)) - 1) /\ ~(j < 1)
          /\ j + 1 \in 1..Len(Queue(l)) /\ j + 1 # 1
      BY <1>1, <2>4
    <3>2. Queue(p)[j] = Queue(l)[j + 1]
      BY <2>3, <2>4, <3>1
    <3>3. Queue(l)[j + 1] # Queue(l)[1]
      BY <2>2, <2>5, <3>1 DEF Distinct
    <3> QED BY <2>2, <3>2, <3>3
  <2> QED BY <2>6, <2>7
<1>7. Cardinality(K) = Cardinality(H) + 1
  BY <1>1, <1>6, FS_AddElement
<1>8. Conserved(p, K)
  <2>1. /\ p.value = l.value /\ Len(p.woken) = Len(l.woken) - 1
        /\ p.limit = l.limit /\ p.debt = l.debt
    BY <1>3, <1>4
  <2>2. p.value + Len(p.woken) + Cardinality(K) = p.limit + p.debt
    BY <1>1, <1>7, <2>1
  <2> QED BY <2>2 DEF Conserved
<1>9. Avoids(Queue(p), K)
  BY <1>3, <1>5, <1>6 DEF Avoids
<1>10. K \in SUBSET Tasks
  BY <1>2 DEF Sound
<1>11. Sound(Wake(p, l.value), K)
  <2>1. l.value > 0 \/ p.value = 0
    BY <1>1, <1>4
  <2> HIDE DEF K
  <2> QED BY <1>1, <1>3, <1>4, <1>5, <1>8, <1>9, <1>10, <2>1, WakeKeeps
<1> QED BY <1>11, <1>12, Zenon

\* n semaphore releases, on a limit whose slots are n short of its account.
LEMMA SemaphoreReleaseKeeps ==
  ASSUME NEW l \in Limits, NEW n \in Nat, NEW H \in SUBSET Tasks,
         l.value + n + Len(l.woken) + Cardinality(H) = l.limit + l.debt,
         NoneOverlooked(l), Distinct(Queue(l)), Avoids(Queue(l), H)
  PROVE  Sound(SemaphoreRelease(l, n), H)
<1> DEFINE p == [l EXCEPT !.value = l.value + n]
<1>1. l.value \in Nat /\ l.value + n \in Nat
  BY DEF Limits
<1>2. SemaphoreRelease(l, n) = Wake(p, n)
  BY Zenon DEF SemaphoreRelease
<1>3. IsUpdate(p, l, "value", l.value + n)
  BY <1>1, Updates, Zenon
<1> HIDE DEF p
<1>4. /\ p \in Limits
      /\ p.value = l.value + n /\ p.woken = l.woken /\ p.waiting = l.waiting
      /\ p.limit = l.limit /\ p.debt = l.debt
  BY <1>3 DEF IsUpdate
<1>5. Conserved(p, H)
  BY <1>4 DEF Conserved
<1>6. Distinct(Queue(p)) /\ Avoids(Queue(p), H)
  BY <1>4 DEF Queue
<1>7. n > 0 \/ NoneOverlooked(p)
  BY <1>1, <1>4 DEF NoneOverlooked
<1>8. Sound(Wake(p, n), H)
  BY <1>4, <1>5, <1>6, <1>7, WakeKeeps
<1> QED BY <1>2, <1>8, Zenon

\* A release pays debt or frees a slot; either way the account stays balanced.
LEMMA ReleaseKeeps ==
  ASSUME NEW l, NEW H, Sound(l, H), NEW t \in H
  PROVE  Sound(Release(l), H \ {t})
<1> DEFINE K == H \ {t}
<1>1. /\ l \in Limits /\ l.value \in Nat /\ l.debt \in Nat /\ l.limit \in Nat
      /\ Len(l.woken) \in Nat /\ IsFiniteSet(H) /\ Cardinality(H) \in Nat
      /\ l.value + Len(l.woken) + Cardinality(H) = l.limit + l.debt
  BY FieldFacts DEF Sound
<1>2. /\ H \in SUBSET Tasks /\ NoneOverlooked(l)
      /\ Distinct(Queue(l)) /\ Avoids(Queue(l), H)
  BY DEF Sound
<1>3. Cardinality(K) = Cardinality(H) - 1 /\ K \in SUBSET Tasks
  BY <1>1, <1>2, FS_RemoveElement
<1>4. Avoids(Queue(l), K)
  BY <1>2 DEF Avoids
<1> HIDE DEF K
<1>40. /\ l.value \in Nat /\ l.debt \in Nat /\ l.limit \in Nat
       /\ Len(l.woken) \in Nat /\ Cardinality(H) \in Nat
       /\ l.value + Len(l.woken) + Cardinality(H) = l.limit + l.debt
       /\ Cardinality(K) \in Nat /\ Cardinality(H) = Cardinality(K) + 1
  <2>1. IsFiniteSet(K) /\ Cardinality(K) = Cardinality(H) - 1
    BY <1>1, FS_RemoveElement DEF K
  <2>2. Cardinality(K) \in Nat
    BY <2>1, FS_CardinalityType
  <2>3. Cardinality(H) = Cardinality(K) + 1
    <3>1. Cardinality(H) \in Nat
      BY <1>1
    <3> QED BY <2>1, <2>2, <3>1
  <2> QED BY <1>1, <2>2, <2>3
<1>41. /\ l.value + 1 + Len(l.woken) + Cardinality(K) = l.limit + l.debt
       /\ l.value + Len(l.woken) + Cardinality(K) = l.limit + (l.debt - 1)
  <2> DEFINE v == l.value  w == Len(l.woken)  h == Cardinality(H)
             k == Cardinality(K)  m == l.limit  d == l.debt
  <2>1. /\ v \in Nat /\ d \in Nat /\ m \in Nat /\ w \in Nat /\ h \in Nat /\ k \in Nat
        /\ v + w + h = m + d /\ h = k + 1
    BY <1>40
  <2>2. v + 1 + w + k = m + d /\ v + w + k = m + (d - 1)
    <3> HIDE DEF v, w, h, k, m, d
    <3> QED BY <2>1
  <2> QED BY <2>2
<1>5. CASE l.debt > 0
  <2> DEFINE p == [l EXCEPT !.debt = l.debt - 1]
  <2>1. Release(l) = p
    BY <1>5, Zenon DEF Release
  <2>2. IsUpdate(p, l, "debt", l.debt - 1)
    <3>1. l.debt - 1 \in Nat
      BY <1>1, <1>5
    <3> QED BY <1>1, <3>1, Updates, Zenon
  <2> HIDE DEF p
  <2>3. /\ p \in Limits /\ p.value = l.value /\ p.woken = l.woken
        /\ p.waiting = l.waiting /\ p.limit = l.limit /\ p.debt = l.debt - 1
    BY <2>2 DEF IsUpdate
  <2>4. Conserved(p, K)
    <3>1. /\ p.value = l.value /\ Len(p.woken) = Len(l.woken)
          /\ p.limit = l.limit /\ p.debt = l.debt - 1
      BY <2>3
    <3>2. p.value + Len(p.woken) + Cardinality(K) = p.limit + p.debt
      BY <1>41, <3>1
    <3> QED BY <3>2 DEF Conserved
  <2>5. NoneOverlooked(p) /\ Distinct(Queue(p)) /\ Avoids(Queue(p), K)
    BY <1>2, <1>4, <2>3 DEF NoneOverlooked, Queue
  <2> QED BY <1>3, <2>1, <2>3, <2>4, <2>5 DEF Sound, K
<1>6. CASE ~(l.debt > 0)
  <2>1. Release(l) = SemaphoreRelease(l, 1)
    BY <1>6, Zenon DEF Release
  <2>2. l.value + 1 + Len(l.woken) + Cardinality(K) = l.limit + l.debt
    BY <1>41
  <2>3. Sound(SemaphoreRelease(l, 1), K)
    BY <1>1, <1>2, <1>3, <1>4, <2>2, SemaphoreReleaseKeeps
  <2> QED BY <2>1, <2>3, Zenon DEF K
<1> QED BY <1>5, <1>6

\* Raising the limit pays debt first and frees the rest.
LEMMA RaiseKeeps ==
  ASSUME NEW l, NEW H, Sound(l, H), NEW n \in 0..MaxLimit, n > l.limit
  PROVE  Sound(RaiseLimit(l, n), H)
<1> DEFINE diff == n - l.limit
           cancel == Smaller(diff, l.debt)
           paid == [l EXCEPT !.debt = l.debt - cancel]
           moved == [paid EXCEPT !.limit = n]
<1>1. /\ l \in Limits /\ l.value \in Nat /\ l.debt \in Nat /\ l.limit \in Nat
      /\ Len(l.woken) \in Nat /\ Cardinality(H) \in Nat
      /\ l.value + Len(l.woken) + Cardinality(H) = l.limit + l.debt
  BY FieldFacts DEF Sound
<1>2. /\ H \in SUBSET Tasks /\ NoneOverlooked(l)
      /\ Distinct(Queue(l)) /\ Avoids(Queue(l), H)
  BY DEF Sound
<1>3. RaiseLimit(l, n) = SemaphoreRelease(moved, diff - cancel)
  BY Zenon DEF RaiseLimit
<1>4. /\ n \in Nat /\ diff \in Nat /\ cancel \in Nat
      /\ cancel <= diff /\ cancel <= l.debt
      /\ l.debt - cancel \in Nat /\ diff - cancel \in Nat
  <2>1. n \in Nat /\ diff \in Nat
    BY <1>1, MaxLimitAssumption
  <2> HIDE DEF diff
  <2>2. cancel \in Nat /\ cancel <= diff /\ cancel <= l.debt
    BY <1>1, <2>1 DEF Smaller
  <2> HIDE DEF cancel
  <2> QED BY <1>1, <2>1, <2>2
<1>5. IsUpdate(paid, l, "debt", l.debt - cancel)
  BY <1>1, <1>4, Updates, Zenon
<1> HIDE DEF cancel, paid
<1>6. /\ paid \in Limits /\ paid.value = l.value /\ paid.woken = l.woken
      /\ paid.waiting = l.waiting /\ paid.debt = l.debt - cancel
  BY <1>5 DEF IsUpdate
<1>7. IsUpdate(moved, paid, "limit", n)
  BY <1>6, Updates, Zenon
<1> HIDE DEF moved
<1>8. /\ moved \in Limits /\ moved.value = l.value /\ moved.woken = l.woken
      /\ moved.waiting = l.waiting /\ moved.limit = n /\ moved.debt = l.debt - cancel
  BY <1>6, <1>7 DEF IsUpdate
<1>9. moved.value + (diff - cancel) + Len(moved.woken) + Cardinality(H)
        = moved.limit + moved.debt
  <2>1. /\ moved.value = l.value /\ Len(moved.woken) = Len(l.woken)
        /\ moved.limit = n /\ moved.debt = l.debt - cancel
    BY <1>8
  <2>2. diff = n - l.limit
    OBVIOUS
  <2>3. /\ l.value \in Nat /\ l.debt \in Nat /\ l.limit \in Nat
        /\ Len(l.woken) \in Nat /\ Cardinality(H) \in Nat
        /\ l.value + Len(l.woken) + Cardinality(H) = l.limit + l.debt
        /\ n \in Nat /\ cancel \in Nat
    BY <1>1, <1>4
  <2> DEFINE v == l.value  w == Len(l.woken)  h == Cardinality(H)
             m == l.limit  d == l.debt
  <2>4. /\ v \in Nat /\ d \in Nat /\ m \in Nat /\ w \in Nat /\ h \in Nat
        /\ v + w + h = m + d /\ n \in Nat /\ cancel \in Nat /\ diff = n - m
    BY <2>2, <2>3
  <2>5. v + (diff - cancel) + w + h = n + (d - cancel)
    <3> HIDE DEF v, w, h, m, d, diff
    <3> QED BY <2>4
  <2> HIDE DEF diff
  <2> QED BY <2>1, <2>5
<1>10. NoneOverlooked(moved) /\ Distinct(Queue(moved)) /\ Avoids(Queue(moved), H)
  BY <1>2, <1>8 DEF NoneOverlooked, Queue
<1>11. Sound(SemaphoreRelease(moved, diff - cancel), H)
  <2> HIDE DEF diff
  <2> QED BY <1>2, <1>4, <1>8, <1>9, <1>10, SemaphoreReleaseKeeps
<1> QED BY <1>3, <1>11, Zenon

\* Lowering it drains free slots and books the rest as debt.
LEMMA LowerKeeps ==
  ASSUME NEW l, NEW H, Sound(l, H), NEW n \in 0..MaxLimit, n <= l.limit
  PROVE  Sound(LowerLimit(l, n), H)
<1> DEFINE diff == l.limit - n
           drain == IF Locked(l) THEN 0 ELSE Smaller(diff, l.value)
           drained == [l EXCEPT !.value = l.value - drain]
           owing == [drained EXCEPT !.debt = drained.debt + (diff - drain)]
           moved == [owing EXCEPT !.limit = n]
<1>1. /\ l \in Limits /\ l.value \in Nat /\ l.debt \in Nat /\ l.limit \in Nat
      /\ Len(l.woken) \in Nat /\ Cardinality(H) \in Nat
      /\ l.value + Len(l.woken) + Cardinality(H) = l.limit + l.debt
  BY FieldFacts DEF Sound
<1>2. /\ H \in SUBSET Tasks /\ NoneOverlooked(l)
      /\ Distinct(Queue(l)) /\ Avoids(Queue(l), H)
  BY DEF Sound
<1>3. LowerLimit(l, n) = moved
  BY Zenon DEF LowerLimit
<1>4. /\ n \in Nat /\ diff \in Nat /\ drain \in Nat
      /\ drain <= diff /\ drain <= l.value /\ l.value - drain \in Nat
      /\ Locked(l) => drain = 0
  <2>1. n \in Nat /\ diff \in Nat
    BY <1>1, MaxLimitAssumption
  <2> HIDE DEF diff
  <2>2. drain \in Nat /\ drain <= diff /\ drain <= l.value /\ (Locked(l) => drain = 0)
    BY <1>1, <2>1 DEF Smaller
  <2> HIDE DEF drain
  <2> QED BY <1>1, <2>1, <2>2
<1>5. IsUpdate(drained, l, "value", l.value - drain)
  BY <1>1, <1>4, Updates, Zenon
<1> HIDE DEF drain, drained
<1>6. /\ drained \in Limits /\ drained.value = l.value - drain
      /\ drained.woken = l.woken /\ drained.waiting = l.waiting
      /\ drained.debt = l.debt
  BY <1>5 DEF IsUpdate
<1>7. IsUpdate(owing, drained, "debt", drained.debt + (diff - drain))
  <2>1. drained.debt + (diff - drain) \in Nat
    <3>1. drained.debt \in Nat
      BY <1>1, <1>6
    <3>2. diff \in Nat /\ drain \in Nat /\ drain <= diff
      BY <1>4
    <3> HIDE DEF diff
    <3> QED BY <3>1, <3>2
  <2> QED BY <1>6, <2>1, Updates, Zenon
<1> HIDE DEF owing
<1>8. /\ owing \in Limits /\ owing.value = l.value - drain
      /\ owing.woken = l.woken /\ owing.waiting = l.waiting
      /\ owing.debt = l.debt + (diff - drain)
  BY <1>6, <1>7 DEF IsUpdate
<1>9. IsUpdate(moved, owing, "limit", n)
  BY <1>8, Updates, Zenon
<1> HIDE DEF moved
<1>10. /\ moved \in Limits /\ moved.value = l.value - drain
       /\ moved.woken = l.woken /\ moved.waiting = l.waiting
       /\ moved.limit = n /\ moved.debt = l.debt + (diff - drain)
  BY <1>8, <1>9 DEF IsUpdate
<1>11. Conserved(moved, H)
  <2>1. /\ moved.value = l.value - drain /\ Len(moved.woken) = Len(l.woken)
        /\ moved.limit = n /\ moved.debt = l.debt + (diff - drain)
    BY <1>10
  <2>2. diff = l.limit - n
    OBVIOUS
  <2>3. /\ l.value \in Nat /\ l.debt \in Nat /\ l.limit \in Nat
        /\ Len(l.woken) \in Nat /\ Cardinality(H) \in Nat
        /\ l.value + Len(l.woken) + Cardinality(H) = l.limit + l.debt
        /\ n \in Nat /\ drain \in Nat
    BY <1>1, <1>4
  <2> DEFINE v == l.value  w == Len(l.woken)  h == Cardinality(H)
             m == l.limit  d == l.debt
  <2>4. /\ v \in Nat /\ d \in Nat /\ m \in Nat /\ w \in Nat /\ h \in Nat
        /\ v + w + h = m + d /\ n \in Nat /\ drain \in Nat /\ diff = m - n
    BY <2>2, <2>3
  <2>5. (v - drain) + w + h = n + (d + (diff - drain))
    <3> HIDE DEF v, w, h, m, d, diff
    <3> QED BY <2>4
  <2>6. moved.value + Len(moved.woken) + Cardinality(H) = moved.limit + moved.debt
    <3> HIDE DEF diff
    <3> QED BY <2>1, <2>5
  <2> QED BY <2>6 DEF Conserved
<1>12. NoneOverlooked(moved)
  <2>1. CASE Locked(l)
    <3>1. moved.value = l.value
      BY <1>1, <1>4, <1>10, <2>1
    <3> QED BY <1>2, <1>10, <3>1 DEF NoneOverlooked
  <2>2. CASE ~Locked(l)
    BY <1>10, <2>2 DEF NoneOverlooked, Locked
  <2> QED BY <2>1, <2>2
<1>13. Distinct(Queue(moved)) /\ Avoids(Queue(moved), H)
  BY <1>2, <1>10 DEF Queue
<1>14. Sound(moved, H)
  BY <1>2, <1>10, <1>11, <1>12, <1>13 DEF Sound
<1> QED BY <1>3, <1>14, Zenon

-------------------------------------------------------------------------------
\* The inductive invariant.
IInv == Sound(sem, holding)

\* Every initial state is sound.
LEMMA InitSound == Init => IInv
<1> SUFFICES ASSUME NEW n \in 0..MaxLimit, sem = NewLimit(n), holding = {}
             PROVE  Sound(sem, holding)
  BY DEF Init, IInv
<1>1. /\ sem \in Limits /\ sem.value = n /\ sem.limit = n /\ sem.debt = 0
      /\ sem.woken = <<>> /\ sem.waiting = <<>>
  <2>1. n \in Nat
    BY MaxLimitAssumption
  <2> QED BY <2>1 DEF NewLimit, Limits
<1>2. Queue(sem) = <<>>
  BY <1>1 DEF Queue
<1>3. Conserved(sem, holding)
  <2>1. Len(sem.woken) = 0 /\ Cardinality(holding) = 0 /\ n \in Nat
    BY <1>1, FS_EmptySet, MaxLimitAssumption
  <2> QED BY <1>1, <2>1 DEF Conserved
<1>4. NoneOverlooked(sem) /\ Distinct(Queue(sem)) /\ Avoids(Queue(sem), holding)
  BY <1>1, <1>2 DEF NoneOverlooked, Distinct, Avoids
<1> QED BY <1>1, <1>3, <1>4 DEF Sound

\* Every step keeps the state sound, whichever action takes it.
LEMMA StepSound == IInv /\ [Next]_vars => IInv'
<1> SUFFICES ASSUME Sound(sem, holding), [Next]_vars
             PROVE  Sound(sem', holding')
  BY DEF IInv
<1>0. sem \in Limits /\ holding \in SUBSET Tasks
  BY DEF Sound
<1>1. ASSUME NEW t \in Tasks, AcquireNow(t)  PROVE Sound(sem', holding')
  <2>1. t \notin holding /\ ~Locked(sem)
    BY <1>1 DEF AcquireNow, Idle
  <2>2. Sound(TakeSlot(sem), holding \cup {t})
    BY <2>1, TakeKeeps
  <2> QED BY <1>1, <2>2, Zenon DEF AcquireNow
<1>2. ASSUME NEW t \in Tasks, AcquireWaits(t)  PROVE Sound(sem', holding')
  <2>1. t \notin holding /\ Locked(sem) /\ ~InSeq(sem.waiting, t) /\ ~InSeq(sem.woken, t)
    BY <1>2 DEF AcquireWaits, Idle, Parked, Woken
  <2>2. Sound(Park(sem, t), holding)
    BY <2>1, ParkKeeps DEF InSeq
  <2> QED BY <1>2, <2>2, Zenon DEF AcquireWaits
<1>3. ASSUME AcquireReturns  PROVE Sound(sem', holding')
  <2>1. Sound(Resume(sem), holding \cup {Head(sem.woken)})
    BY <1>3, ResumeKeeps DEF AcquireReturns
  <2> QED BY <1>3, <2>1, Zenon DEF AcquireReturns
<1>4. ASSUME NEW t \in Tasks, CancelAcquire(t)  PROVE Sound(sem', holding')
  <2>1. holding' = holding
    BY <1>4, Zenon DEF CancelAcquire
  <2>2. CASE \E i \in 1..Len(sem.waiting) : sem' = CancelWaiting(sem, i)
    BY <2>1, <2>2, CancelWaitingKeeps
  <2>3. CASE \E i \in 1..Len(sem.woken) : sem' = CancelWoken(sem, i)
    BY <2>1, <2>3, CancelWokenKeeps
  <2> QED BY <1>4, <2>2, <2>3, Zenon DEF CancelAcquire
<1>5. ASSUME NEW t \in Tasks, ReleaseSlot(t)  PROVE Sound(sem', holding')
  <2>1. Sound(Release(sem), holding \ {t})
    BY <1>5, ReleaseKeeps DEF ReleaseSlot
  <2> QED BY <1>5, <2>1, Zenon DEF ReleaseSlot
<1>6. ASSUME NEW n \in 0..MaxLimit, ChangeLimit(n)  PROVE Sound(sem', holding')
  <2>1. holding' = holding /\ sem' = SetLimit(sem, n)
    BY <1>6, Zenon DEF ChangeLimit
  <2>2. CASE n > sem.limit
    <3>1. Sound(RaiseLimit(sem, n), holding)
      BY <2>2, RaiseKeeps
    <3> QED BY <2>1, <2>2, <3>1, Zenon DEF SetLimit
  <2>3. CASE ~(n > sem.limit)
    <3>1. n <= sem.limit
      BY <1>0, <2>3, MaxLimitAssumption DEF Limits
    <3>2. Sound(LowerLimit(sem, n), holding)
      BY <3>1, LowerKeeps
    <3> QED BY <2>1, <2>3, <3>2, Zenon DEF SetLimit
  <2> QED BY <2>2, <2>3
<1>7. CASE UNCHANGED vars
  BY <1>7, Zenon DEF vars
<1> QED BY <1>1, <1>2, <1>3, <1>4, <1>5, <1>6, <1>7, Zenon DEF Next

\* Every reachable state is sound.
LEMMA AlwaysSound == Spec => []IInv
<1> QED BY InitSound, StepSound, PTL DEF Spec

\* The limit, its debt and both wait sets keep their types: in particular no
\* order of limit changes, releases and cancellations drives the semaphore's
\* counter below zero (concurrency.py decrements _value directly).
THEOREM TypeCorrect == Spec => []TypeOK
<1>1. IInv => TypeOK
  BY DEF IInv, Sound, Limits, TypeOK
<1> QED BY <1>1, AlwaysSound, PTL

\* Slots are neither created nor lost by set_limit, release or a cancelled
\* acquire: free, held and handed-over slots add up to the limit and the debt.
THEOREM SlotsConserved == Spec => []SlotConservation
<1>1. IInv => SlotConservation
  BY DEF IInv, Sound, Conserved, SlotConservation
<1> QED BY <1>1, AlwaysSound, PTL

\* A task is never left parked beside a free slot with nobody to wake it.
THEOREM NoWakeupLost == Spec => []NoLostWakeup
<1>1. IInv => NoLostWakeup
  BY DEF IInv, Sound, NoneOverlooked, NoLostWakeup
<1> QED BY <1>1, AlwaysSound, PTL
===============================================================================
