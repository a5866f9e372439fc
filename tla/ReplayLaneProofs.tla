--------------------------- MODULE ReplayLaneProofs ---------------------------
(***************************************************************************)
(* Theorems of ReplayLane, for every recording of any number of streams    *)
(* and turns, resumed at any instant: the history of the barrier is exact, *)
(* a turn is retained for a reason, the replay keeps the recorded order    *)
(* and sends no turn twice; every stream has the one turn under way it     *)
(* should have, through the handover to profiling, unless it was lost; and *)
(* which streams are lost.                                                 *)
(***************************************************************************)
EXTENDS ReplayLane, FiniteSetTheorems, TLAPS

(***************************************************************************)
(* The invariant.                                                          *)
(***************************************************************************)
\* Turns that were submitted or scheduled and have not come back.
Way == due \cup pending \cup issuing \cup wire

\* A stream has come to t: all its turns before t have returned, t has not.
Reached(t) == t \notin Returned /\ \A i \in 0 .. t[2] - 1 : <<t[1], i>> \in Returned

Traced == predecessors = [t \in Turns |-> InferPredecessors(recorded, t)]

\* What is under way is reached, and in one place only.
WayInOrder ==
  /\ \A t \in Way : Reached(t)
  /\ wire \subseteq sent
  /\ due \cap pending = {} /\ due \cap issuing = {} /\ pending \cap issuing = {}
  /\ (due \cup pending \cup issuing) \cap sent = {}

\* A suspended root has come to its join turn, which is nowhere yet.
RootWaits == suspended # NoTurn => /\ Reached(<<Root, suspended>>)
                                   /\ \A t \in Way : t[1] # Root

\* A subagent does nothing before it is started.
Started ==
  /\ gating \subseteq tracked /\ tracked \subseteq spawned
  /\ \A t \in sent \cup Way : t[1] \in Children => t[1] \in spawned

\* A noted turn has returned, and its stream goes on after it.
Notes ==
  /\ stage = "profiling" => handoff = {}
  /\ \A t \in handoff : ~IsFinal(t) /\ t \in Returned /\ Reached(After(t))

\* What was sent had its turn, and what is about to be has it.
InTurn == /\ \A t \in sent : RecordedBefore(t) \subseteq Returned
          /\ \A t \in issuing : predecessors[t] \subseteq completed

IInv == /\ TypeOK /\ Traced /\ WayInOrder /\ HistoryExact /\ RootWaits /\ Started
        /\ Notes /\ InTurn /\ RetainedWithReason

\* A stream that is not lost and has a turn left has it under way, or is the root
\* waiting for a child, or was refused in the drain and is noted for the handover.
Kept ==
  /\ \A t \in Turns : t[1] \in Going /\ Reached(t) =>
       \/ t \in Way
       \/ t[1] = Root /\ suspended # NoTurn
       \/ stage = "draining" /\ \E u \in handoff : u[1] = t[1]
  /\ suspended # NoTurn => Gates(suspended) # {}

\* What is lost does nothing any more and was not noted, and what came back in the
\* pressure stage was.
Lost ==
  /\ lost \subseteq {Root} \cup spawned
  /\ \A t \in Way \cup handoff : t[1] \notin lost
  /\ Root \in lost => suspended = NoTurn
  /\ stage # "profiling" =>
       \A t \in Turns : Reached(t) /\ t \notin resumed \cup First(Children)
                          => \E u \in handoff : u[1] = t[1]
  /\ \A t \in Turns : t[1] \in lost /\ Reached(t) =>
       t \in resumed \cup First(Children) \/ (t[1] = Root /\ lost \cap Children # {})

\* Tracked are unfinished subagents, and outside of the drain all that go on.
Tracked ==
  /\ \A c \in tracked : \E t \in Turns : t[1] = c /\ Reached(t)
  /\ stage # "draining" =>
       /\ tracked \cap lost = {}
       /\ \A t \in Turns : t[1] \in spawned \ lost /\ Reached(t) => t[1] \in tracked

NobodyLost == Kept /\ Lost /\ Tracked

-------------------------------------------------------------------------------
(***************************************************************************)
(* Recordings.                                                             *)
(***************************************************************************)
\* A turn is a stream and a position.
LEMMA TheTurns ==
  /\ \A t \in Turns : /\ t = <<t[1], t[2]>> /\ t[1] \in Streams /\ t[2] \in Nat
                      /\ NumTurns[t[1]] \in Nat /\ t[2] < NumTurns[t[1]]
  /\ \A s \in Streams, i \in Nat : i < NumTurns[s] => <<s, i>> \in Turns
  /\ \A c \in Children : <<c, 0>> \in Turns
  /\ <<Root, 0>> \in Turns /\ Root \in Streams /\ Children \subseteq Streams /\ Root \notin Children
  /\ \A s \in Streams : NumTurns[s] \in Nat \ {0}
  /\ \A i \in RootTurns : i \in Nat /\ i < NumTurns[Root] /\ <<Root, i>> \in Turns
<1>1. /\ Root \in Streams /\ Children \subseteq Streams /\ Root \notin Children
      /\ \A s \in Streams : NumTurns[s] \in Nat \ {0}
  BY StreamsAssumption, TurnsAssumption DEF Streams
<1>2. ASSUME NEW t \in Turns
      PROVE  /\ t = <<t[1], t[2]>> /\ t[1] \in Streams /\ t[2] \in Nat
             /\ NumTurns[t[1]] \in Nat /\ t[2] < NumTurns[t[1]]
  <2>1. PICK s \in Streams : t \in {s} \X (0 .. NumTurns[s] - 1)
    BY DEF Turns
  <2>2. t = <<t[1], t[2]>> /\ t[1] = s /\ t[2] \in 0 .. NumTurns[s] - 1
    BY <2>1
  <2> QED BY <1>1, <2>1, <2>2
<1>3. ASSUME NEW s \in Streams, NEW i \in Nat, i < NumTurns[s]
      PROVE  <<s, i>> \in Turns
  <2>1. i \in 0 .. NumTurns[s] - 1
    BY <1>1, <1>3
  <2>2. <<s, i>> \in {s} \X (0 .. NumTurns[s] - 1)
    BY <2>1
  <2> QED BY <2>2 DEF Turns
<1>4. \A s \in Streams : <<s, 0>> \in Turns
  BY <1>1, <1>3
<1>5. \A i \in RootTurns : i \in Nat /\ i < NumTurns[Root]
  BY <1>1 DEF RootTurns
<1>6. \A i \in RootTurns : <<Root, i>> \in Turns
  BY <1>1, <1>3, <1>5
<1> QED BY <1>1, <1>2, <1>3, <1>4, <1>5, <1>6

\* The turn after one that is not the last.
LEMMA TheNext ==
  ASSUME NEW t \in Turns
  PROVE  /\ After(t)[1] = t[1] /\ After(t)[2] = t[2] + 1
         /\ ~IsFinal(t) => After(t) \in Turns
<1>1. t[1] \in Streams /\ t[2] \in Nat /\ NumTurns[t[1]] \in Nat /\ t[2] < NumTurns[t[1]]
  BY TheTurns
<1>2. ~IsFinal(t) => t[2] + 1 \in Nat /\ t[2] + 1 < NumTurns[t[1]]
  BY <1>1 DEF IsFinal
<1>3. ~IsFinal(t) => <<t[1], t[2] + 1>> \in Turns
  BY <1>1, <1>2, TheTurns
<1> QED BY <1>3 DEF After

\* A finite set has no other subset as large as itself.
LEMMA AsLarge ==
  ASSUME NEW S, IsFiniteSet(S), NEW T \in SUBSET S, Cardinality(T) >= Cardinality(S)
  PROVE  T = S
<1>1. IsFiniteSet(T) /\ Cardinality(T) <= Cardinality(S)
  BY FS_Subset
<1>2. Cardinality(T) \in Nat /\ Cardinality(S) \in Nat
  BY <1>1, FS_CardinalityType
<1>3. Cardinality(S) = Cardinality(T)
  BY <1>1, <1>2
<1> QED BY <1>3, FS_Subset

\* A set of numbers that goes down to zero without a gap is an interval.
LEMMA DownClosed ==
  ASSUME NEW n \in Nat, NEW S \in SUBSET (0 .. n), \A i \in S : \A j \in 0 .. i : j \in S
  PROVE  Cardinality(S) \in Nat /\ S = 0 .. Cardinality(S) - 1
<1> DEFINE k == Cardinality(S)
<1>1. IsFiniteSet(0 .. n) /\ 0 \in Int
  BY FS_Interval
<1>2. IsFiniteSet(S) /\ k \in Nat
  BY <1>1, FS_Subset, FS_CardinalityType
<1>3. ASSUME NEW i \in S
      PROVE  i \in 0 .. k - 1
  <2>1. i \in Nat /\ 0 .. i \in SUBSET S
    BY <1>3
  <2>2. Cardinality(0 .. i) = i + 1
    BY <1>1, <2>1, FS_Interval
  <2>3. Cardinality(0 .. i) <= k
    BY <1>2, <2>1, FS_Subset
  <2> QED BY <1>2, <2>1, <2>2, <2>3
<1>4. IsFiniteSet(0 .. k - 1) /\ Cardinality(0 .. k - 1) = k
  <2>1. k - 1 \in Int
    BY <1>2
  <2>2. /\ IsFiniteSet(0 .. k - 1)
        /\ Cardinality(0 .. k - 1) = IF 0 > k - 1 THEN 0 ELSE k - 1 - 0 + 1
    BY <1>1, <2>1, FS_Interval
  <2> QED BY <1>2, <2>2
<1>5. S \in SUBSET (0 .. k - 1)
  BY <1>3
<1>6. Cardinality(S) >= Cardinality(0 .. k - 1)
  BY <1>2, <1>4
<1>7. S = 0 .. k - 1
  <2> DEFINE Q == 0 .. k - 1
  <2>1. IsFiniteSet(Q) /\ S \in SUBSET Q /\ Cardinality(S) >= Cardinality(Q)
    BY <1>4, <1>5, <1>6
  <2> HIDE DEF Q
  <2>2. S = Q
    BY <2>1, AsLarge
  <2> QED BY <2>2 DEF Q
<1> QED BY <1>2, <1>7

\* A bounded set of numbers has a largest one.
LEMMA HasLargest ==
  ASSUME NEW n \in Nat, NEW S \in SUBSET (0 .. n), S # {}
  PROVE  \E m \in S : \A x \in S : x <= m
<1> SUFFICES ASSUME \A m \in S : \E x \in S : ~(x <= m)
             PROVE  FALSE
  OBVIOUS
<1> DEFINE D == {k \in 0 .. n : \E x \in S : k < x}
<1>1. D \in SUBSET (0 .. n) /\ \A i \in D : \A j \in 0 .. i : j \in D
  OBVIOUS
<1>2. S \subseteq D
  OBVIOUS
<1> HIDE DEF D
<1>3. Cardinality(D) \in Nat /\ D = 0 .. Cardinality(D) - 1
  BY <1>1, DownClosed
<1>4. D # {}
  BY <1>2
<1>5. Cardinality(D) - 1 \in D
  BY <1>3, <1>4
<1>6. PICK x \in S : Cardinality(D) - 1 < x
  BY <1>5 DEF D
<1>7. x \in 0 .. Cardinality(D) - 1
  BY <1>2, <1>3
<1> QED BY <1>3, <1>6, <1>7

\* The turns of a stream that began before an instant are its first ones.
LEMMA ThePrefix ==
  ASSUME NEW rec \in Recordings, NEW s \in Instants, NEW str \in Streams
  PROVE  /\ NextTurn(rec, s, str) \in Nat /\ NextTurn(rec, s, str) <= NumTurns[str]
         /\ \A t \in Turns : t[1] = str => (rec.begin[t] < s <=> t[2] < NextTurn(rec, s, str))
<1> DEFINE N == NumTurns[str]
           P == {t \in Turns : t[1] = str /\ rec.begin[t] < s}
           I == {i \in 0 .. N - 1 : rec.begin[<<str, i>>] < s}
<1>1. N \in Nat \ {0} /\ N - 1 \in Nat
  BY TheTurns
<1>2. /\ rec.begin \in [Turns -> Instants] /\ Instants \subseteq Int /\ s \in Int
      /\ \A t, u \in Turns : t[1] = u[1] /\ t[2] < u[2] => rec.begin[t] <= rec.begin[u]
  BY DEF Recordings, Instants
<1>3. \A i \in 0 .. N - 1 : <<str, i>> \in Turns
  BY <1>1, TheTurns
<1>4. \A i \in I : \A j \in 0 .. i : j \in I
  <2> SUFFICES ASSUME NEW i \in I, NEW j \in 0 .. i
               PROVE  rec.begin[<<str, j>>] < s
    BY <1>1
  <2>1. i \in 0 .. N - 1 /\ j \in 0 .. N - 1 /\ rec.begin[<<str, i>>] < s
    BY <1>1
  <2>2. j < i => rec.begin[<<str, j>>] <= rec.begin[<<str, i>>]
    BY <1>2, <1>3, <2>1
  <2>3. rec.begin[<<str, i>>] \in Int /\ rec.begin[<<str, j>>] \in Int
    BY <1>2, <1>3, <2>1
  <2>4. i = j \/ j < i
    BY <2>1
  <2> QED BY <1>2, <2>1, <2>2, <2>3, <2>4
<1>5. Cardinality(I) \in Nat /\ I = 0 .. Cardinality(I) - 1
  <2>1. I \in SUBSET (0 .. N - 1)
    OBVIOUS
  <2> HIDE DEF I
  <2> QED BY <1>1, <1>4, <2>1, DownClosed
<1>6. P = {str} \X I
  <2>1. ASSUME NEW t \in P
        PROVE  t \in {str} \X I
    <3>1. t \in Turns /\ t[1] = str /\ rec.begin[t] < s
      OBVIOUS
    <3>2. t = <<t[1], t[2]>> /\ t[2] \in Nat /\ t[2] < N
      BY <3>1, TheTurns
    <3>3. t[2] \in I
      BY <1>1, <3>1, <3>2
    <3> QED BY <3>1, <3>2, <3>3
  <2>2. ASSUME NEW i \in I
        PROVE  <<str, i>> \in P
    BY <1>3
  <2> QED BY <2>1, <2>2
<1>7. Cardinality(P) = Cardinality(I)
  <2> HIDE DEF I, P
  <2>1. IsFiniteSet(I)
    <3> DEFINE k == Cardinality(I) - 1
    <3>1. k \in Int /\ 0 \in Int /\ I = 0 .. k
      BY <1>5
    <3> HIDE DEF k
    <3> QED BY <3>1, FS_Interval
  <2>2. IsFiniteSet({str}) /\ Cardinality({str}) = 1
    BY FS_Singleton
  <2>3. Cardinality({str} \X I) = Cardinality({str}) * Cardinality(I)
    BY <2>1, <2>2, FS_Product
  <2>4. Cardinality(P) = 1 * Cardinality(I)
    BY <1>6, <2>2, <2>3
  <2> QED BY <1>5, <2>4
<1>8. NextTurn(rec, s, str) = Cardinality(I)
  BY <1>7 DEF NextTurn
<1>9. ASSUME NEW t \in Turns, t[1] = str
      PROVE  rec.begin[t] < s <=> t[2] < Cardinality(I)
  <2>1. t = <<str, t[2]>> /\ t[2] \in 0 .. N - 1 /\ t[2] \in Nat
    BY <1>1, <1>9, TheTurns
  <2>2. rec.begin[t] < s <=> t[2] \in I
    BY <2>1
  <2> HIDE DEF I
  <2> QED BY <1>5, <2>1, <2>2
<1>10. Cardinality(I) <= N
  <2>1. \A i \in I : i < N
    BY <1>1
  <2> HIDE DEF I
  <2>2. ASSUME Cardinality(I) > N
        PROVE  FALSE
    <3>1. N \in I
      BY <1>1, <1>5, <2>2
    <3> QED BY <1>1, <2>1, <3>1
  <2> QED BY <1>1, <1>5, <2>2
<1> HIDE DEF I
<1> QED BY <1>5, <1>8, <1>9, <1>10

\* A request that is waited for, if only by the recorded order, has returned
\* once the turns the barrier waits for have: they cover the others.
LEMMA Covered ==
  ASSUME recorded \in Recordings, NEW H \in SUBSET Turns, NEW t \in Turns,
         \A u \in H : \A i \in 0 .. u[2] - 1 : <<u[1], i>> \in H,
         \A u \in H : RecordedBefore(u) \subseteq H,
         InferPredecessors(recorded, t) \subseteq H,
         NEW p \in EndedBy(recorded, t),
         \A q \in EndedBy(recorded, t) :
           q[1] = p[1] /\ q[2] < p[2] => recorded.finish[q] <= recorded.finish[p]
  PROVE  p \in H
<1> DEFINE b(q) == recorded.begin[q]
           f(q) == recorded.finish[q]
           E == EndedBy(recorded, t)
           F == Frontier(recorded, t)
<1>1. /\ LastInstant \in Nat /\ Instants = 0 .. LastInstant
      /\ \A q \in Turns : /\ b(q) \in Instants /\ f(q) \in Instants /\ b(q) \in Int /\ f(q) \in Int
                          /\ b(q) <= f(q)
      /\ \A q, r \in Turns : q[1] = r[1] /\ q[2] < r[2] => b(q) <= b(r)
  BY InstantsAssumption DEF Recordings, Instants
<1>2. /\ \A q \in Turns : q \in E <=> q[1] # t[1] /\ b(q) < b(t) /\ f(q) <= b(t)
      /\ E \subseteq Turns /\ F \subseteq E
      /\ \A q \in E : q \in F <=> EndsLast(recorded, q, E)
  BY DEF EndedBy, Frontier
<1>3. \A q \in F : \A r \in E : r[1] = q[1] => f(r) <= f(q) /\ (f(r) = f(q) => b(r) <= b(q))
  BY <1>1, <1>2 DEF EndsLast
<1>4. \A q \in F : q \in InferPredecessors(recorded, t) \/
                   \E r \in F : b(q) < b(r) /\ f(q) <= b(r)
  BY DEF InferPredecessors
<1> HIDE DEF b, f, E, F
<1>5. ASSUME NEW q \in F
      PROVE  q \in H
  <2> DEFINE After1(r) == b(q) < b(r) /\ f(q) <= b(r)
             S == {k \in Instants : \E r \in F : After1(r) /\ b(r) = k}
  <2>1. CASE q \in InferPredecessors(recorded, t)
    BY <2>1
  <2>2. CASE q \notin InferPredecessors(recorded, t)
    <3>1. S \in SUBSET (0 .. LastInstant) /\ S # {}
      <4>1. PICK r \in F : b(q) < b(r) /\ f(q) <= b(r)
        BY <1>4, <2>2
      <4>2. b(r) \in Instants
        BY <1>1, <1>2, <4>1
      <4> QED BY <1>1, <4>1, <4>2
    <3>2. PICK m \in S : \A x \in S : x <= m
      <4> HIDE DEF S
      <4> QED BY <1>1, <3>1, HasLargest
    <3>3. PICK r \in F : b(q) < b(r) /\ f(q) <= b(r) /\ b(r) = m
      BY <3>2
    <3>4. /\ q \in E /\ r \in E /\ q \in Turns /\ r \in Turns
          /\ b(q) \in Int /\ f(q) \in Int /\ b(r) \in Int /\ f(r) \in Int /\ b(r) <= f(r)
      BY <1>1, <1>2, <3>3
    <3>5. r \in InferPredecessors(recorded, t)
      <4> SUFFICES ASSUME NEW r2 \in F, b(r) < b(r2), f(r) <= b(r2)
                   PROVE  FALSE
        BY <1>4
      <4>1. b(r2) \in Int /\ b(r2) \in Instants
        BY <1>1, <1>2
      <4>2. b(q) < b(r2) /\ f(q) <= b(r2)
        BY <3>3, <3>4, <4>1
      <4>3. b(r2) \in S
        BY <4>1, <4>2
      <4> QED BY <3>2, <3>3, <3>4, <4>1, <4>3
    <3>6. q[1] # r[1]
      BY <1>3, <3>3, <3>4
    <3>7. /\ \A x \in Turns : x \in EndedBy(recorded, r) <=> x[1] # r[1] /\ b(x) < b(r) /\ f(x) <= b(r)
          /\ EndedBy(recorded, r) \subseteq Turns
      BY DEF EndedBy, b, f
    <3>8. \A x \in EndedBy(recorded, r) : x[1] = q[1] => f(x) <= f(q)
      <4> SUFFICES ASSUME NEW x \in EndedBy(recorded, r), x[1] = q[1]
                   PROVE  f(x) <= f(q)
        OBVIOUS
      <4>1. x \in Turns /\ b(x) < b(r) /\ f(x) <= b(r)
        BY <3>7
      <4>2. b(x) \in Int /\ f(x) \in Int /\ b(t) \in Int /\ b(r) < b(t) /\ q[1] # t[1]
        BY <1>1, <1>2, <3>4, <4>1
      <4>3. x \in E
        BY <1>2, <3>4, <4>1, <4>2
      <4> QED BY <1>3, <4>3
    <3>9. q \in EndedBy(recorded, r)
      BY <3>3, <3>4, <3>6, <3>7
    <3>10. q \in RecordedBefore(r)
      BY <3>8, <3>9 DEF RecordedBefore, f
    <3> QED BY <3>5, <3>10
  <2> QED BY <2>1, <2>2
<1>6. p \in E /\ p \in Turns /\ \A q \in E : q[1] = p[1] /\ q[2] < p[2] => f(q) <= f(p)
  BY <1>2 DEF E, f
<1>7. \E l \in F : l[1] = p[1] /\ p[2] <= l[2]
  <2> DEFINE S == {k \in Instants : \E r \in E : r[1] = p[1] /\ f(r) = k}
  <2>1. S \in SUBSET (0 .. LastInstant) /\ S # {}
    BY <1>1, <1>6
  <2>2. PICK m \in S : \A x \in S : x <= m
    <3> HIDE DEF S
    <3> QED BY <1>1, <2>1, HasLargest
  <2>3. \A r \in E : r[1] = p[1] => f(r) <= m
    BY <1>1, <1>2, <2>2
  <2> DEFINE N == NumTurns[p[1]]
             R == {i \in 0 .. N - 1 : \E r \in E : r[1] = p[1] /\ f(r) = m /\ r[2] = i}
  <2>4. /\ N \in Nat /\ N - 1 \in Nat
        /\ \A r \in E : r[1] = p[1] => r[2] \in 0 .. N - 1
    <3>1. p[2] \in Nat /\ N \in Nat /\ p[2] < N
      BY <1>6, TheTurns
    <3>2. \A r \in Turns : r[1] = p[1] => r[2] \in Nat /\ r[2] < N
      BY TheTurns
    <3> QED BY <1>2, <3>1, <3>2
  <2>5. R \in SUBSET (0 .. N - 1) /\ R # {}
    <3>1. PICK r \in E : r[1] = p[1] /\ f(r) = m
      BY <2>2
    <3> QED BY <2>4, <3>1
  <2>6. PICK l \in R : \A i \in R : i <= l
    <3> HIDE DEF R, N
    <3> QED BY <2>4, <2>5, HasLargest
  <2>7. PICK r \in E : r[1] = p[1] /\ f(r) = m /\ r[2] = l
    BY <2>6
  <2>8. \A q \in E : q[1] = p[1] /\ f(q) = m => q[2] <= r[2]
    BY <2>4, <2>6, <2>7
  <2>9. EndsLast(recorded, r, E)
    <3> SUFFICES ASSUME NEW q \in E, q[1] = r[1]
                 PROVE  \/ f(q) < f(r)
                        \/ f(q) = f(r) /\ b(q) < b(r)
                        \/ f(q) = f(r) /\ b(q) = b(r) /\ q[2] <= r[2]
      BY DEF EndsLast, f, b
    <3>1. q \in Turns /\ r \in Turns /\ b(q) \in Int /\ b(r) \in Int /\ f(q) \in Int /\ f(r) \in Int
      BY <1>1, <1>2, <2>7
    <3>2. f(q) <= f(r) /\ (f(q) = f(r) => q[2] <= r[2])
      BY <2>3, <2>7, <2>8
    <3>3. q[2] \in Nat /\ r[2] \in Nat
      BY <3>1, TheTurns
    <3>4. q[2] < r[2] => b(q) <= b(r)
      BY <1>1, <3>1
    <3>5. q[2] = r[2] => q = r
      <4>1. q = <<q[1], q[2]>> /\ r = <<r[1], r[2]>>
        BY <3>1, TheTurns
      <4> QED BY <4>1
    <3> QED BY <3>1, <3>2, <3>3, <3>4, <3>5
  <2>10. r \in F
    BY <1>2, <2>9
  <2>11. p[2] <= r[2]
    <3>1. r \in Turns /\ f(r) \in Int /\ f(p) \in Int /\ p[2] \in Nat /\ r[2] \in Nat
      BY <1>1, <1>2, <1>6, TheTurns
    <3>2. CASE r[2] < p[2]
      <4>1. f(r) <= f(p) /\ f(p) <= f(r)
        BY <1>6, <2>3, <2>7, <3>2
      <4>2. f(p) = m
        BY <2>7, <3>1, <4>1
      <4> QED BY <1>6, <2>8, <4>2
    <3> QED BY <3>1, <3>2
  <2> QED BY <2>7, <2>10, <2>11
<1>8. PICK l \in F : l[1] = p[1] /\ p[2] <= l[2]
  BY <1>7
<1>9. /\ l \in H /\ l \in Turns /\ p[2] \in Nat /\ l[2] \in Nat
      /\ p = <<p[1], p[2]>> /\ l = <<l[1], l[2]>>
  BY <1>2, <1>5, <1>6, <1>8, TheTurns
<1>10. CASE p[2] < l[2]
  <2>1. p[2] \in 0 .. l[2] - 1
    BY <1>9, <1>10
  <2>2. <<l[1], p[2]>> \in H
    BY <1>9, <2>1
  <2> QED BY <1>8, <1>9, <2>2
<1>11. CASE p[2] = l[2]
  BY <1>8, <1>9, <1>11
<1> QED BY <1>8, <1>9, <1>10, <1>11

-------------------------------------------------------------------------------
(***************************************************************************)
(* The invariant.                                                          *)
(***************************************************************************)
\* A stream has come to one turn only.
LEMMA Once ==
  ASSUME NEW t \in Turns, NEW u \in Turns, Reached(t), Reached(u), t[1] = u[1]
  PROVE  t = u
<1>1. /\ t = <<t[1], t[2]>> /\ u = <<u[1], u[2]>> /\ t[2] \in Nat /\ u[2] \in Nat
  BY TheTurns
<1>2. ASSUME t[2] < u[2]
      PROVE  FALSE
  <2>1. t[2] \in 0 .. u[2] - 1
    BY <1>1, <1>2
  <2>2. <<u[1], t[2]>> \in Returned
    BY <2>1 DEF Reached
  <2> QED BY <1>1, <2>2 DEF Reached
<1>3. ASSUME u[2] < t[2]
      PROVE  FALSE
  <2>1. u[2] \in 0 .. t[2] - 1
    BY <1>1, <1>3
  <2>2. <<t[1], u[2]>> \in Returned
    BY <2>1 DEF Reached
  <2> QED BY <1>1, <2>2 DEF Reached
<1>4. t[2] = u[2]
  BY <1>1, <1>2, <1>3
<1> QED BY <1>1, <1>4

\* No turn of the root is the mark of a root that is not suspended.
LEMMA NoTurnIsNone == \A i \in RootTurns : i # NoTurn
<1> SUFFICES ASSUME NEW i \in RootTurns, i = NoTurn
             PROVE  FALSE
  OBVIOUS
<1>1. i \in Nat
  BY TheTurns
<1>2. NoTurn \notin Nat
  BY DEF NoTurn
<1> QED BY <1>1, <1>2

\* The turns are turns.
LEMMA Kinds ==
  ASSUME TypeOK
  PROVE  /\ recorded \in Recordings /\ predecessors \in [Turns -> SUBSET Turns]
         /\ completed \subseteq Turns /\ pending \subseteq Turns /\ due \subseteq Turns
         /\ issuing \subseteq Turns /\ wire \subseteq Turns /\ sent \subseteq Turns
         /\ handoff \subseteq Turns /\ Way \subseteq Turns /\ Returned \subseteq Turns
         /\ spawned \subseteq Children /\ tracked \subseteq Children /\ gating \subseteq Children
         /\ stage \in {"pressure", "draining", "profiling"}
         /\ suspended \in RootTurns \cup {NoTurn}
         /\ \A i \in RootTurns : i # NoTurn
         /\ \A rec, t : InferPredecessors(rec, t) \subseteq Turns
<1>1. \A i \in RootTurns : i # NoTurn
  BY NoTurnIsNone
<1>2. \A rec, t : InferPredecessors(rec, t) \subseteq Turns
  BY DEF InferPredecessors, Frontier, EndedBy
<1> QED BY <1>1, <1>2 DEF TypeOK, Way, Returned

\* A lane resumes where the snapshot left it.
LEMMA Snapshot ==
  ASSUME NEW rec \in Recordings, NEW s \in Instants, recorded = rec,
         sent = PrefixesAt(rec, s), wire = {}
  PROVE  /\ Returned = sent /\ sent \subseteq Turns
         /\ \A str \in Streams, i \in Nat :
              NextTurn(rec, s, str) = i => Reached(<<str, i>>)
         /\ \A t \in Turns : Reached(t) => t[2] = NextTurn(rec, s, t[1])
         /\ Resumed(rec, s) \subseteq Turns
         /\ \A t \in Resumed(rec, s) : t[2] = NextTurn(rec, s, t[1]) /\ Reached(t)
         /\ \A t \in sent : \A i \in 0 .. t[2] - 1 : <<t[1], i>> \in sent
         /\ \A t \in sent : t[1] \in Children => ChildBegin(rec, t[1]) < s
         /\ \A t \in sent : RecordedBefore(t) \subseteq sent
<1> DEFINE n(str) == NextTurn(rec, s, str)
<1>1. Returned = sent /\ sent \subseteq Turns /\ \A t \in Turns : t \in sent <=> rec.begin[t] < s
  BY DEF Returned, PrefixesAt
<1>2. /\ \A str \in Streams : n(str) \in Nat /\ n(str) <= NumTurns[str]
      /\ \A t \in Turns : t \in sent <=> t[2] < n(t[1])
  <2>1. \A t \in Turns : t[1] \in Streams
    BY TheTurns
  <2> QED BY <1>1, <2>1, ThePrefix
<1> HIDE DEF n
<1>3. \A str \in Streams, i \in Nat : i < n(str) => <<str, i>> \in sent
  <2> SUFFICES ASSUME NEW str \in Streams, NEW i \in Nat, i < n(str)
               PROVE  <<str, i>> \in sent
    OBVIOUS
  <2>1. i < NumTurns[str]
    BY <1>2, TheTurns
  <2>2. <<str, i>> \in Turns
    BY <2>1, TheTurns
  <2> QED BY <1>2, <2>2
<1>4. \A str \in Streams : <<str, n(str)>> \notin sent
  <2> SUFFICES ASSUME NEW str \in Streams, <<str, n(str)>> \in sent
               PROVE  FALSE
    OBVIOUS
  <2>1. <<str, n(str)>> \in Turns /\ n(str) \in Nat
    BY <1>1, <1>2
  <2> QED BY <1>2, <2>1
<1>5. \A str \in Streams, i \in Nat : n(str) = i => Reached(<<str, i>>)
  BY <1>1, <1>2, <1>3, <1>4 DEF Reached
<1>6. ASSUME NEW t \in Turns, Reached(t)
      PROVE  t[2] = n(t[1])
  <2>1. t[1] \in Streams /\ t[2] \in Nat /\ n(t[1]) \in Nat
    BY <1>2, TheTurns
  <2>2. ~(t[2] < n(t[1]))
    BY <1>1, <1>2, <1>6 DEF Reached
  <2>3. ASSUME n(t[1]) < t[2]
        PROVE  FALSE
    <3>1. n(t[1]) \in 0 .. t[2] - 1
      BY <2>1, <2>3
    <3>2. <<t[1], n(t[1])>> \in sent
      BY <1>1, <1>6, <3>1 DEF Reached
    <3> QED BY <1>4, <2>1, <3>2
  <2> QED BY <2>1, <2>2, <2>3
<1>7. ASSUME NEW t \in Resumed(rec, s)
      PROVE  t \in Turns /\ t[2] = n(t[1]) /\ Reached(t)
  <2>1. CASE \E c \in LiveAt(rec, s) : t = <<c, n(c)>>
    <3>1. PICK c \in LiveAt(rec, s) : t = <<c, n(c)>>
      BY <2>1
    <3>2. c \in Children /\ n(c) < NumTurns[c] /\ c \in Streams
      BY TheTurns DEF LiveAt, n
    <3>3. t \in Turns
      BY <1>2, <3>1, <3>2, TheTurns
    <3> QED BY <1>2, <1>5, <3>1, <3>2, <3>3
  <2>2. CASE \E i \in {n(Root)} \cap RootTurns : t = <<Root, i>>
    BY <1>2, <1>5, <2>2, TheTurns
  <2> QED BY <2>1, <2>2 DEF Resumed, n
<1>8. ASSUME NEW t \in sent
      PROVE  /\ \A i \in 0 .. t[2] - 1 : <<t[1], i>> \in sent
             /\ t[1] \in Children => ChildBegin(rec, t[1]) < s
             /\ RecordedBefore(t) \subseteq sent
  <2>1. t \in Turns /\ t[1] \in Streams /\ t[2] \in Nat /\ t[2] < n(t[1]) /\ n(t[1]) \in Nat
    BY <1>1, <1>2, TheTurns
  <2>2. \A i \in 0 .. t[2] - 1 : <<t[1], i>> \in sent
    BY <1>3, <2>1
  <2>3. <<t[1], 0>> \in sent
    BY <1>3, <2>1
  <2>4. ChildBegin(rec, t[1]) < s
    BY <1>1, <2>3 DEF ChildBegin
  <2>5. ASSUME NEW p \in RecordedBefore(t)
        PROVE  p \in sent
    <3>1. CASE p \in EndedBy(recorded, t)
      <4>1. p \in Turns /\ rec.begin[p] < rec.begin[t] /\ rec.begin[t] < s
        BY <1>1, <2>1, <3>1 DEF EndedBy
      <4>2. rec.begin[p] \in Int /\ rec.begin[t] \in Int /\ s \in Int
        BY <2>1, <4>1 DEF Recordings, Instants
      <4> QED BY <1>1, <4>1, <4>2
    <3>2. CASE p \in Turns /\ After(p) = t
      <4>1. p[1] = t[1] /\ p[2] + 1 = t[2] /\ p[2] \in Nat
        BY <3>2, TheTurns, TheNext
      <4> QED BY <1>2, <2>1, <3>2, <4>1
    <3> QED BY <3>1, <3>2 DEF RecordedBefore
  <2> QED BY <2>2, <2>4, <2>5
<1> QED BY <1>1, <1>5, <1>6, <1>7, <1>8 DEF n

\* The invariant holds of the initial states.
LEMMA InitHolds == Init => IInv /\ NobodyLost
<1> SUFFICES ASSUME Init
             PROVE  IInv /\ NobodyLost
  OBVIOUS
<1>1. PICK rec \in Recordings, s \in Instants :
    /\ recorded = rec
    /\ predecessors = [t \in Turns |-> InferPredecessors(rec, t)]
    /\ resumed = Resumed(rec, s)
    /\ stage \in {"pressure", "profiling"} /\ lost = {}
    /\ completed = PrefixesAt(rec, s) /\ sent = PrefixesAt(rec, s)
    /\ due = Dispatchable(rec, s)
    /\ pending = {} /\ issuing = {} /\ wire = {} /\ handoff = {}
    /\ spawned = {c \in Children : ChildBegin(rec, c) < s} \cup LiveAt(rec, s)
    /\ tracked = LiveAt(rec, s)
    /\ gating = IF NextTurn(rec, s, Root) \in RootTurns
                THEN {c \in LiveAt(rec, s) : JoinedAt(rec, c) \in RootTurns}
                ELSE {}
    /\ suspended = IF WaitsAt(rec, s) /\ NextTurn(rec, s, Root) \in RootTurns
                   THEN NextTurn(rec, s, Root) ELSE NoTurn
  BY DEF Init
<1> DEFINE n(str) == NextTurn(rec, s, str)
<1>2. /\ Returned = sent /\ sent \subseteq Turns
      /\ \A str \in Streams, i \in Nat : n(str) = i => Reached(<<str, i>>)
      /\ \A t \in Turns : Reached(t) => t[2] = n(t[1])
      /\ Resumed(rec, s) \subseteq Turns
      /\ \A t \in Resumed(rec, s) : t[2] = n(t[1]) /\ Reached(t)
      /\ \A t \in sent : \A i \in 0 .. t[2] - 1 : <<t[1], i>> \in sent
      /\ \A t \in sent : t[1] \in Children => ChildBegin(rec, t[1]) < s
      /\ \A t \in sent : RecordedBefore(t) \subseteq sent
  BY <1>1, Snapshot
<1>3. /\ due \subseteq Resumed(rec, s) /\ Way = due
      /\ \A t \in Resumed(rec, s) : t \in due <=> t[1] # Root \/ ~WaitsAt(rec, s)
  BY <1>1 DEF Dispatchable, Way
<1>4. LiveAt(rec, s) \subseteq Children /\ Root \notin Children
  BY StreamsAssumption DEF LiveAt
<1>5. suspended # NoTurn => /\ suspended = n(Root) /\ n(Root) \in RootTurns /\ WaitsAt(rec, s)
  BY <1>1
<1>6. TypeOK
  <2>1. predecessors \in [Turns -> SUBSET Turns]
    BY <1>1 DEF InferPredecessors, Frontier, EndedBy
  <2>2. {resumed, completed, pending, due, issuing, wire, sent, handoff} \subseteq SUBSET Turns
    BY <1>1, <1>2, <1>3
  <2>3. {spawned, tracked, gating} \subseteq SUBSET Children
    BY <1>1, <1>4
  <2>4. suspended \in RootTurns \cup {NoTurn}
    BY <1>5
  <2>5. lost \subseteq Streams
    BY <1>1
  <2> QED BY <1>1, <2>1, <2>2, <2>3, <2>4, <2>5 DEF TypeOK
<1>7. Traced
  BY <1>1 DEF Traced
<1>8. WayInOrder
  BY <1>1, <1>2, <1>3 DEF WayInOrder, Reached
<1>9. HistoryExact
  BY <1>1, <1>2 DEF HistoryExact
<1>10. RootWaits
  <2> SUFFICES ASSUME suspended # NoTurn
               PROVE  Reached(<<Root, suspended>>) /\ \A t \in Way : t[1] # Root
    BY DEF RootWaits
  <2>1. Reached(<<Root, suspended>>)
    BY <1>2, <1>5, TheTurns
  <2> QED BY <1>3, <1>5, <2>1
<1>11. Started
  <2>1. \A t \in Resumed(rec, s) : t[1] \in Children => t[1] \in LiveAt(rec, s)
    BY <1>4 DEF Resumed
  <2>2. \A t \in sent : t[1] \in Children => t[1] \in spawned
    BY <1>1, <1>2
  <2>3. gating \subseteq tracked /\ tracked \subseteq spawned
    BY <1>1
  <2> QED BY <1>1, <1>3, <2>1, <2>2, <2>3 DEF Started
<1>12. Notes /\ InTurn /\ RetainedWithReason
  BY <1>1, <1>2 DEF Notes, InTurn, RetainedWithReason
<1>13. Kept
  <2>1. ASSUME NEW t \in Turns, t[1] \in Going, Reached(t)
        PROVE  t \in Way \/ (t[1] = Root /\ suspended # NoTurn)
    <3>1. /\ t[2] = n(t[1]) /\ t = <<t[1], t[2]>> /\ t[2] \in Nat
          /\ t[2] < NumTurns[t[1]] /\ NumTurns[t[1]] \in Nat
      BY <1>2, <2>1, TheTurns
    <3>2. CASE t[1] = Root
      <4>1. t[2] \in RootTurns
        BY <3>1, <3>2 DEF RootTurns
      <4>2. t \in Resumed(rec, s)
        BY <3>1, <3>2, <4>1 DEF Resumed
      <4>3. WaitsAt(rec, s) => suspended = n(Root) /\ n(Root) # NoTurn
        BY <1>1, <3>1, <3>2, <4>1, NoTurnIsNone
      <4> QED BY <1>3, <3>2, <4>2, <4>3
    <3>3. CASE t[1] \in spawned
      <4>1. t[1] \in LiveAt(rec, s)
        BY <1>1, <3>1, <3>3 DEF LiveAt
      <4>2. t \in Resumed(rec, s)
        BY <3>1, <4>1 DEF Resumed
      <4> QED BY <1>3, <1>4, <4>1, <4>2
    <3> QED BY <2>1, <3>2, <3>3 DEF Going
  <2>2. suspended # NoTurn => Gates(suspended) # {}
    <3> SUFFICES ASSUME suspended # NoTurn
                 PROVE  Gates(suspended) # {}
      OBVIOUS
    <3>1. PICK c \in LiveAt(rec, s) : JoinedAt(rec, c) = n(Root)
      BY <1>5 DEF WaitsAt
    <3> QED BY <1>1, <1>5, <3>1 DEF Gates
  <2> QED BY <2>1, <2>2 DEF Kept
<1>14. ASSUME NEW t \in Turns, Reached(t)
       PROVE  t \in resumed \cup First(Children)
  <2>1. /\ t[2] = n(t[1]) /\ t = <<t[1], t[2]>> /\ t[2] \in Nat /\ t[1] \in Streams
        /\ t[2] < NumTurns[t[1]] /\ NumTurns[t[1]] \in Nat
    BY <1>2, <1>14, TheTurns
  <2>2. CASE t[1] = Root
    <3>1. t[2] \in RootTurns
      BY <2>1, <2>2 DEF RootTurns
    <3> QED BY <1>1, <2>1, <2>2, <3>1 DEF Resumed
  <2>3. CASE t[1] \in Children /\ ChildBegin(rec, t[1]) < s
    <3>1. t[1] \in LiveAt(rec, s)
      BY <2>1, <2>3 DEF LiveAt
    <3> QED BY <1>1, <2>1, <3>1 DEF Resumed
  <2>4. CASE t[1] \in Children /\ ~(ChildBegin(rec, t[1]) < s)
    <3>1. t[2] = 0
      <4>1. <<t[1], 0>> \in Turns /\ ~(rec.begin[<<t[1], 0>>] < s)
        BY <2>4, TheTurns DEF ChildBegin
      <4>2. <<t[1], 0>> \notin sent
        BY <1>1, <4>1 DEF PrefixesAt
      <4>3. ASSUME t[2] # 0
            PROVE  FALSE
        <5>1. 0 \in 0 .. t[2] - 1
          BY <2>1, <4>3
        <5> QED BY <1>2, <1>14, <4>2, <5>1 DEF Reached
      <4> QED BY <4>3
    <3>2. t = <<t[1], 0>>
      BY <2>1, <3>1
    <3> QED BY <2>4, <3>2 DEF First
  <2> QED BY <2>1, <2>2, <2>3, <2>4 DEF Streams
<1>15. Lost
  BY <1>1, <1>14 DEF Lost
<1>16. Tracked
  <2>1. ASSUME NEW c \in tracked
        PROVE  \E t \in Turns : t[1] = c /\ Reached(t)
    <3>1. c \in LiveAt(rec, s)
      BY <1>1, <2>1
    <3>2. <<c, n(c)>> \in Resumed(rec, s)
      BY <3>1 DEF Resumed
    <3>3. <<c, n(c)>> \in Turns /\ Reached(<<c, n(c)>>) /\ <<c, n(c)>>[1] = c
      BY <1>2, <3>2
    <3> QED BY <3>3
  <2>2. ASSUME NEW t \in Turns, t[1] \in spawned, Reached(t)
        PROVE  t[1] \in tracked
    <3>1. t[2] = n(t[1]) /\ t[2] < NumTurns[t[1]]
      BY <1>2, <2>2, TheTurns
    <3> QED BY <1>1, <2>2, <3>1 DEF LiveAt
  <2>3. lost = {}
    BY <1>1
  <2> QED BY <2>1, <2>2, <2>3 DEF Tracked
<1> QED BY <1>6, <1>7, <1>8, <1>9, <1>10, <1>11, <1>12, <1>13, <1>15, <1>16 DEF IInv, NobodyLost

-------------------------------------------------------------------------------
(***************************************************************************)
(* The steps.                                                              *)
(***************************************************************************)
\* Where nothing returns, a stream stays where it has come to.
LEMMA Stays ==
  ASSUME Returned' = Returned
  PROVE  \A t : Reached(t)' <=> Reached(t)
BY DEF Reached

\* What the record demands of a turn stays what it is.
LEMMA SameRecord ==
  ASSUME recorded' = recorded
  PROVE  /\ \A t : RecordedBefore(t)' = RecordedBefore(t)
         /\ \A c : JoinedAt(recorded, c)' = JoinedAt(recorded, c)
         /\ \A rec, t : InferPredecessors(rec, t)' = InferPredecessors(rec, t)
BY DEF RecordedBefore

\* What is under way is nowhere else.
LEMMA Apart ==
  ASSUME IInv
  PROVE  /\ \A t \in Way : t \in Turns /\ Reached(t) /\ t \notin Returned
         /\ \A t \in due \cup pending \cup issuing : t \notin sent /\ t \notin wire
         /\ wire \subseteq sent /\ Returned \subseteq sent /\ sent = Returned \cup wire
         /\ completed = Returned
<1>1. WayInOrder /\ HistoryExact /\ Way \subseteq Turns
  BY Kinds DEF IInv
<1> QED BY <1>1 DEF WayInOrder, HistoryExact, Reached, Returned, Way

\* A turn comes back: its stream goes on to the turn after it, the others stay
\* where they have come to.
LEMMA Arrives ==
  ASSUME IInv, NEW t \in wire, wire' = wire \ {t}, sent' = sent
  PROVE  /\ Returned' = Returned \cup {t}
         /\ t \in Turns /\ t \notin Returned /\ Reached(t)
         /\ Reached(After(t))' /\ After(t) \notin Way /\ After(t) \notin sent
         /\ \A u : Reached(u) /\ u # t => Reached(u)'
         /\ \A u \in Turns : Reached(u)' => u = After(t) \/ (Reached(u) /\ u[1] # t[1])
<1>1. /\ t \in Turns /\ Reached(t) /\ t \notin Returned /\ t \in sent
      /\ \A u \in Way : Reached(u)
      /\ sent = Returned \cup wire
  BY Apart DEF Way
<1>2. Returned' = Returned \cup {t}
  BY <1>1 DEF Returned
<1>3. \A u \in Returned : u \in Turns /\ \A i \in 0 .. u[2] - 1 : <<u[1], i>> \in Returned
  BY Kinds DEF IInv, HistoryExact
<1>4. /\ t = <<t[1], t[2]>> /\ t[2] \in Nat
      /\ After(t) = <<t[1], t[2] + 1>> /\ After(t)[1] = t[1] /\ After(t)[2] = t[2] + 1
  BY <1>1, TheTurns DEF After
<1>5. \A u \in Returned : u[1] = t[1] => ~(t[2] < u[2])
  <2> SUFFICES ASSUME NEW u \in Returned, u[1] = t[1], t[2] < u[2]
               PROVE  FALSE
    OBVIOUS
  <2>1. u[2] \in Nat
    BY <1>3, TheTurns
  <2>2. t[2] \in 0 .. u[2] - 1
    BY <1>4, <2>1
  <2>3. <<u[1], t[2]>> \in Returned
    BY <1>3, <2>2
  <2> QED BY <1>1, <1>4, <2>3
<1>6. After(t) \notin Returned /\ After(t) # t
  BY <1>4, <1>5
<1>7. Reached(After(t))'
  <2>1. \A i \in 0 .. After(t)[2] - 1 : <<t[1], i>> \in Returned \cup {t}
    <3> SUFFICES ASSUME NEW i \in 0 .. t[2]
                 PROVE  <<t[1], i>> \in Returned \cup {t}
      BY <1>4
    <3>1. CASE i = t[2]
      BY <1>4, <3>1
    <3>2. CASE i # t[2]
      <4>1. i \in 0 .. t[2] - 1
        BY <1>4, <3>2
      <4> QED BY <1>1, <4>1 DEF Reached
    <3> QED BY <3>1, <3>2
  <2> QED BY <1>2, <1>4, <1>6, <2>1 DEF Reached
<1>8. After(t) \notin Way
  <2> SUFFICES ASSUME Reached(After(t))
               PROVE  FALSE
    BY <1>1
  <2>1. t[2] \in 0 .. After(t)[2] - 1
    BY <1>4
  <2> QED BY <1>1, <1>4, <2>1 DEF Reached
<1>9. After(t) \notin sent
  BY <1>1, <1>6, <1>8 DEF Way
<1>10. \A u : Reached(u) /\ u # t => Reached(u)'
  BY <1>2 DEF Reached
<1>11. ASSUME NEW u \in Turns, Reached(u)', u # After(t)
       PROVE  Reached(u) /\ u[1] # t[1]
  <2>1. /\ u = <<u[1], u[2]>> /\ u[2] \in Nat
        /\ u \notin Returned /\ u # t
        /\ \A i \in 0 .. u[2] - 1 : <<u[1], i>> \in Returned \cup {t}
    BY <1>2, <1>11, TheTurns DEF Reached
  <2>2. ASSUME u[1] = t[1]
        PROVE  FALSE
    <3>1. u[2] # t[2] /\ u[2] # t[2] + 1
      BY <1>4, <1>11, <2>1, <2>2
    <3>2. ASSUME u[2] < t[2]
          PROVE  FALSE
      <4>1. u[2] \in 0 .. t[2] - 1
        BY <1>4, <2>1, <3>2
      <4>2. <<t[1], u[2]>> \in Returned
        BY <1>1, <4>1 DEF Reached
      <4> QED BY <2>1, <2>2, <4>2
    <3>3. ASSUME t[2] + 1 < u[2]
          PROVE  FALSE
      <4>1. t[2] + 1 \in 0 .. u[2] - 1
        BY <1>4, <2>1, <3>3
      <4>2. After(t) \in Returned \cup {t}
        BY <1>4, <2>1, <2>2, <4>1
      <4> QED BY <1>6, <4>2
    <3> QED BY <1>4, <2>1, <3>1, <3>2, <3>3
  <2>3. \A i : <<u[1], i>> # t
    BY <1>4, <2>2
  <2> QED BY <2>1, <2>2, <2>3 DEF Reached
<1> QED BY <1>1, <1>2, <1>7, <1>8, <1>9, <1>10, <1>11

\* A return, and the turns it brings: ts go to the barrier, ds become due.  The
\* barrier, the order and the notes are as they should be after it.
LEMMA AfterReturn ==
  ASSUME IInv, NEW t \in wire, wire' = wire \ {t}, sent' = sent,
         UNCHANGED <<traceVars, stage>>,
         NEW ts \in SUBSET Turns, NEW ds \in SUBSET Turns, ts \cap ds = {},
         Complete(t, ts), due' = due \cup ds, NoteReturn(t),
         \A u \in ts \cup ds : u \notin Way /\ u \notin sent /\ Reached(u)'
  PROVE  /\ Way' = (Way \ {t}) \cup ts \cup ds
         /\ Traced' /\ WayInOrder' /\ HistoryExact' /\ InTurn' /\ RetainedWithReason' /\ Notes'
<1> DEFINE done == completed \cup {t}
           now == {u \in pending \cup ts : Ready(u, done) /\ ~Paused}
<1>1. /\ completed' = done /\ issuing' = issuing \cup now
      /\ pending' = (pending \cup ts) \ now
      /\ recorded' = recorded /\ predecessors' = predecessors /\ stage' = stage
  BY DEF Complete, traceVars
<1>2. /\ Returned' = Returned \cup {t} /\ t \in Turns /\ t \notin Returned /\ Reached(t)
      /\ Reached(After(t))'
      /\ \A u : Reached(u) /\ u # t => Reached(u)'
  BY Arrives
<1>3. /\ \A u \in Way : u \in Turns /\ Reached(u)
      /\ \A u \in due \cup pending \cup issuing : u \notin sent /\ u \notin wire
      /\ wire \subseteq sent /\ completed = Returned
  BY Apart
<1>4. now \subseteq pending \cup ts
  OBVIOUS
<1>5. Way' = (Way \ {t}) \cup ts \cup ds
  <2> HIDE DEF now
  <2> QED BY <1>1, <1>3, <1>4 DEF Way
<1>6. Traced'
  BY <1>1 DEF IInv, Traced
<1>7. WayInOrder'
  <2>1. \A u \in Way' : Reached(u)'
    BY <1>2, <1>3, <1>5
  <2>2. /\ due \cap pending = {} /\ due \cap issuing = {} /\ pending \cap issuing = {}
        /\ (due \cup pending \cup issuing) \cap sent = {}
    BY DEF IInv, WayInOrder
  <2>3. \A u \in ts \cup ds : u \notin due /\ u \notin pending /\ u \notin issuing /\ u \notin sent
    BY DEF Way
  <2> HIDE DEF now
  <2>4. /\ due' \cap pending' = {} /\ due' \cap issuing' = {} /\ pending' \cap issuing' = {}
        /\ (due' \cup pending' \cup issuing') \cap sent' = {}
    BY <1>1, <1>4, <2>2, <2>3
  <2>5. wire' \subseteq sent'
    BY <1>3
  <2> QED BY <2>1, <2>4, <2>5 DEF WayInOrder
<1>8. HistoryExact'
  <2>1. \A u \in Returned : \A i \in 0 .. u[2] - 1 : <<u[1], i>> \in Returned
    BY <1>3 DEF IInv, HistoryExact
  <2>2. \A i \in 0 .. t[2] - 1 : <<t[1], i>> \in Returned
    BY <1>2 DEF Reached
  <2>3. completed' = Returned'
    BY <1>1, <1>2, <1>3
  <2>4. \A u \in completed' : \A i \in 0 .. u[2] - 1 : <<u[1], i>> \in completed'
    BY <1>2, <2>1, <2>2, <2>3
  <2> QED BY <2>3, <2>4 DEF HistoryExact
<1>9. InTurn'
  <2>1. \A u \in sent' : RecordedBefore(u)' \subseteq Returned'
    <3>1. \A u : RecordedBefore(u)' = RecordedBefore(u)
      BY <1>1, SameRecord
    <3> QED BY <1>2, <3>1 DEF IInv, InTurn
  <2>2. \A u \in issuing' : predecessors'[u] \subseteq completed'
    BY <1>1 DEF IInv, InTurn, Ready
  <2> QED BY <2>1, <2>2 DEF InTurn
<1>10. RetainedWithReason'
  <2>1. \A u \in pending' : Paused \/ ~(predecessors[u] \subseteq done)
    BY <1>1 DEF Ready
  <2>2. Paused' <=> Paused
    BY <1>1 DEF Paused
  <2> QED BY <1>1, <2>1, <2>2 DEF RetainedWithReason
<1>11. Notes'
  <2>1. CASE stage = "profiling"
    <3>1. handoff' = {} /\ handoff = {}
      BY <2>1 DEF NoteReturn, IInv, Notes
    <3> QED BY <3>1 DEF Notes
  <2>2. CASE stage # "profiling"
    <3>1. handoff' = {u \in handoff : u[1] # t[1]} \cup {u \in {t} : ~IsFinal(u)}
      BY <2>2 DEF NoteReturn
    <3>2. \A u \in handoff : ~IsFinal(u) /\ u \in Returned /\ Reached(After(u))
      BY DEF IInv, Notes
    <3>3. ASSUME NEW u \in handoff, u[1] # t[1]
          PROVE  Reached(After(u))'
      <4>1. After(u) # t
        BY <3>3 DEF After
      <4> QED BY <1>2, <3>2, <4>1
    <3>4. \A u \in handoff' : ~IsFinal(u) /\ u \in Returned' /\ Reached(After(u))'
      BY <1>2, <3>1, <3>2, <3>3
    <3> QED BY <1>1, <2>2, <3>4 DEF Notes
  <2> QED BY <2>1, <2>2
<1> QED BY <1>5, <1>6, <1>7, <1>8, <1>9, <1>10, <1>11

\* A return of a subagent, described by the turns it brings.
LEMMA ChildBrings ==
  ASSUME IInv, NEW t \in Turns, ReturnOfChild(t)
  PROVE  \E ts \in SUBSET Turns, ds \in SUBSET Turns :
           /\ t \in wire /\ t[1] \in Children /\ wire' = wire \ {t} /\ sent' = sent
           /\ UNCHANGED <<traceVars, stage, lost>> /\ NoteReturn(t)
           /\ ts \cap ds = {} /\ Complete(t, ts) /\ due' = due \cup ds
           /\ \A u \in ts \cup ds : u \notin Way /\ u \notin sent /\ Reached(u)'
           /\ spawned' = spawned
           /\ \/ /\ ~IsFinal(t) /\ ts = {} /\ ds = {After(t)} /\ UNCHANGED joinVars
              \/ /\ IsFinal(t) /\ ds = {} /\ ChildDone(t[1]) /\ ts = JoinReleased(t[1])
                 /\ ts # {} => suspended \in RootTurns /\ ts = {<<Root, suspended>>}
<1>1. /\ t \in wire /\ t[1] \in Children /\ wire' = wire \ {t} /\ sent' = sent
      /\ UNCHANGED <<traceVars, stage, lost>> /\ NoteReturn(t)
  BY DEF ReturnOfChild
<1>2. CASE ~IsFinal(t) /\ Complete(t, {}) /\ due' = due \cup {After(t)} /\ UNCHANGED joinVars
  <2>1. After(t) \in Turns
    BY <1>2, TheNext
  <2>2. After(t) \notin Way /\ After(t) \notin sent /\ Reached(After(t))'
    BY <1>1, Arrives
  <2>3. spawned' = spawned
    BY <1>2 DEF joinVars
  <2> WITNESS {} \in SUBSET Turns
  <2>4. {After(t)} \in SUBSET Turns
    BY <2>1
  <2> WITNESS {After(t)} \in SUBSET Turns
  <2> QED BY <1>1, <1>2, <2>2, <2>3
<1>3. CASE IsFinal(t) /\ Complete(t, JoinReleased(t[1])) /\ ChildDone(t[1]) /\ UNCHANGED due
  <2> DEFINE ts == JoinReleased(t[1])
  <2>1. ts # {} => suspended \in RootTurns /\ ts = {<<Root, suspended>>}
    BY DEF JoinReleased
  <2>2. ts \in SUBSET Turns
    BY TheTurns DEF JoinReleased
  <2>3. ASSUME NEW u \in ts
        PROVE  u \notin Way /\ u \notin sent /\ Reached(u)'
    <3>1. suspended \in RootTurns /\ u = <<Root, suspended>>
      BY <2>1
    <3>2. Reached(u) /\ u \notin Way
      BY <3>1, NoTurnIsNone DEF IInv, RootWaits
    <3>3. u # t
      BY <1>1, <3>1, TheTurns
    <3>4. u \notin Returned
      BY <3>2 DEF Reached
    <3>5. Reached(u)'
      BY <1>1, <3>2, <3>3, Arrives
    <3>6. u \notin sent
      BY <3>2, <3>4, Apart DEF Way
    <3> QED BY <3>2, <3>5, <3>6
  <2>4. spawned' = spawned
    BY <1>3 DEF ChildDone
  <2>5. Complete(t, ts) /\ due' = due \cup {} /\ ts \cap {} = {}
    BY <1>3
  <2>6. ts = JoinReleased(t[1])
    OBVIOUS
  <2> HIDE DEF ts
  <2> WITNESS ts \in SUBSET Turns
  <2> WITNESS {} \in SUBSET Turns
  <2> QED BY <1>1, <1>3, <2>1, <2>3, <2>4, <2>5, <2>6
<1> QED BY <1>2, <1>3 DEF ReturnOfChild

\* Children that have not been started have done nothing, and start from their
\* first turn.
LEMMA Firsts ==
  ASSUME IInv, NEW cs \in SUBSET (Children \ spawned)
  PROVE  /\ First(cs) \in SUBSET Turns
         /\ \A u \in First(cs) : /\ u[1] \in cs /\ u[1] \in Children /\ u[1] # Root
                                 /\ u \notin Way /\ u \notin sent /\ Reached(u)
         /\ \A c \in cs : \E u \in First(cs) : u[1] = c
<1>1. \A u \in First(cs) : \E c \in cs : u = <<c, 0>>
  BY DEF First
<1>2. \A c \in cs : <<c, 0>> \in First(cs) /\ <<c, 0>> \in Turns
  BY TheTurns DEF First
<1>3. \A u \in First(cs) : u[1] \in cs /\ u[1] \in Children /\ u[1] \notin spawned /\ u[2] = 0
  BY <1>1
<1>4. \A u \in First(cs) : u \notin Way /\ u \notin sent
  BY <1>3 DEF IInv, Started
<1>5. \A u \in First(cs) : Reached(u)
  BY <1>3, <1>4 DEF Reached, Returned
<1>6. First(cs) \in SUBSET Turns
  BY <1>1, TheTurns
<1>7. \A u \in First(cs) : u[1] # Root
  BY <1>3, TheTurns
<1>8. \A c \in cs : \E u \in First(cs) : u[1] = c
  BY <1>2
<1> QED BY <1>3, <1>4, <1>5, <1>6, <1>7, <1>8

\* A return of the root, described by the turns it brings.
LEMMA RootBrings ==
  ASSUME IInv, NEW t \in Turns, ReturnOfRoot(t)
  PROVE  \E cs \in SUBSET (Children \ spawned), ds \in SUBSET Turns :
           /\ t \in wire /\ t[1] = Root /\ wire' = wire \ {t} /\ sent' = sent
           /\ UNCHANGED <<traceVars, stage, lost>> /\ NoteReturn(t)
           /\ Complete(t, {}) /\ Start(cs) /\ due' = due \cup ds
           /\ \A u \in ds : u \notin Way /\ u \notin sent /\ Reached(u)'
           /\ \/ /\ ~IsFinal(t) /\ suspended' = t[2] + 1 /\ ds = First(cs)
                 /\ \E c \in gating \cup cs : JoinedAt(recorded, c) = t[2] + 1
              \/ ~IsFinal(t) /\ suspended' = suspended /\ ds = First(cs) \cup {After(t)}
              \/ IsFinal(t) /\ suspended' = suspended /\ ds = First(cs)
<1> DEFINE cs == SpawnedBy(t) \ spawned
           G == {c \in gating \cup cs : JoinedAt(recorded, c) = t[2] + 1}
<1>1. /\ t \in wire /\ t[1] = Root /\ wire' = wire \ {t} /\ sent' = sent
      /\ UNCHANGED <<traceVars, stage, lost>> /\ NoteReturn(t)
      /\ Complete(t, {}) /\ Start(cs)
      /\ \/ /\ ~IsFinal(t) /\ G # {} /\ suspended' = t[2] + 1
            /\ due' = due \cup First(cs)
         \/ /\ ~IsFinal(t) /\ G = {} /\ suspended' = suspended
            /\ due' = due \cup (First(cs) \cup {After(t)})
         \/ /\ IsFinal(t) /\ suspended' = suspended
            /\ due' = due \cup First(cs)
  BY DEF ReturnOfRoot
<1>2. cs \in SUBSET (Children \ spawned)
  BY DEF SpawnedBy
<1>3. G # {} => \E c \in gating \cup cs : JoinedAt(recorded, c) = t[2] + 1
  OBVIOUS
<1> HIDE DEF cs, G
<1>4. /\ First(cs) \in SUBSET Turns
      /\ \A u \in First(cs) : u[1] # Root /\ u \notin Way /\ u \notin sent /\ Reached(u)
  BY <1>2, Firsts
<1>5. \A u \in First(cs) : Reached(u)'
  BY <1>1, <1>4, Arrives
<1>6. After(t) \notin Way /\ After(t) \notin sent /\ Reached(After(t))'
  BY <1>1, Arrives
<1>7. ~IsFinal(t) => First(cs) \cup {After(t)} \in SUBSET Turns
  BY <1>4, TheNext
<1>8. CASE ~IsFinal(t) /\ G = {} /\ suspended' = suspended
           /\ due' = due \cup (First(cs) \cup {After(t)})
  <2> DEFINE ds == First(cs) \cup {After(t)}
  <2>1. /\ ds \in SUBSET Turns /\ due' = due \cup ds
        /\ \A u \in ds : u \notin Way /\ u \notin sent /\ Reached(u)'
        /\ ds = First(cs) \cup {After(t)}
    BY <1>4, <1>5, <1>6, <1>7, <1>8
  <2>2. ds \in SUBSET Turns
    BY <2>1
  <2> HIDE DEF ds
  <2> WITNESS cs \in SUBSET (Children \ spawned)
  <2> WITNESS ds \in SUBSET Turns
  <2> QED BY <1>1, <1>8, <2>1
<1>9. CASE due' = due \cup First(cs) /\ \/ ~IsFinal(t) /\ G # {} /\ suspended' = t[2] + 1
                                        \/ IsFinal(t) /\ suspended' = suspended
  <2> DEFINE ds == First(cs)
  <2>1. /\ ds \in SUBSET Turns /\ due' = due \cup ds
        /\ \A u \in ds : u \notin Way /\ u \notin sent /\ Reached(u)'
        /\ ds = First(cs)
    BY <1>4, <1>5, <1>9
  <2>2. ds \in SUBSET Turns
    BY <2>1
  <2> HIDE DEF ds
  <2> WITNESS cs \in SUBSET (Children \ spawned)
  <2> WITNESS ds \in SUBSET Turns
  <2> QED BY <1>1, <1>3, <1>9, <2>1
<1> QED BY <1>1, <1>8, <1>9

\* What returns and what it brings are turns.
LEMMA ReturnTypes ==
  ASSUME TypeOK, NEW t \in Turns, wire' = wire \ {t}, sent' = sent, UNCHANGED <<traceVars, stage, lost>>,
         NEW ts \in SUBSET Turns, NEW ds \in SUBSET Turns,
         Complete(t, ts), due' = due \cup ds, NoteReturn(t),
         {spawned', tracked', gating'} \subseteq SUBSET Children,
         suspended' \in RootTurns \cup {NoTurn}
  PROVE  TypeOK'
<1> DEFINE now == {u \in pending \cup ts : Ready(u, completed \cup {t}) /\ ~Paused}
<1>1. /\ completed' = completed \cup {t} /\ issuing' = issuing \cup now
      /\ pending' = (pending \cup ts) \ now /\ now \subseteq pending \cup ts
      /\ recorded' = recorded /\ predecessors' = predecessors /\ stage' = stage
  BY DEF Complete, traceVars
<1> HIDE DEF now
<1>2. /\ completed \subseteq Turns /\ pending \subseteq Turns /\ due \subseteq Turns
      /\ issuing \subseteq Turns /\ wire \subseteq Turns /\ sent \subseteq Turns
      /\ handoff \subseteq Turns
  BY Kinds
<1>3. handoff' \subseteq Turns
  BY <1>2 DEF NoteReturn
<1>4. /\ completed' \subseteq Turns /\ pending' \subseteq Turns /\ due' \subseteq Turns
      /\ issuing' \subseteq Turns /\ wire' \subseteq Turns /\ sent' \subseteq Turns
  BY <1>1, <1>2
<1>5. {resumed', completed', pending', due', issuing', wire', sent', handoff'} \subseteq SUBSET Turns
  <2>1. resumed' = resumed /\ resumed \subseteq Turns
    BY DEF traceVars, TypeOK
  <2> QED BY <1>3, <1>4, <2>1
<1>6. recorded' \in Recordings /\ predecessors' \in [Turns -> SUBSET Turns]
      /\ stage' \in {"pressure", "draining", "profiling"} /\ lost' \subseteq Streams
  BY <1>1 DEF TypeOK
<1> QED BY <1>5, <1>6 DEF TypeOK

\* A subagent's return keeps the invariant.
LEMMA ChildSteps ==
  ASSUME IInv, NEW t \in Turns, ReturnOfChild(t)
  PROVE  IInv'
<1>1. PICK ts \in SUBSET Turns, ds \in SUBSET Turns :
           /\ t \in wire /\ t[1] \in Children /\ wire' = wire \ {t} /\ sent' = sent
           /\ UNCHANGED <<traceVars, stage, lost>> /\ NoteReturn(t)
           /\ ts \cap ds = {} /\ Complete(t, ts) /\ due' = due \cup ds
           /\ \A u \in ts \cup ds : u \notin Way /\ u \notin sent /\ Reached(u)'
           /\ spawned' = spawned
           /\ \/ /\ ~IsFinal(t) /\ ts = {} /\ ds = {After(t)} /\ UNCHANGED joinVars
              \/ /\ IsFinal(t) /\ ds = {} /\ ChildDone(t[1]) /\ ts = JoinReleased(t[1])
                 /\ ts # {} => suspended \in RootTurns /\ ts = {<<Root, suspended>>}
  BY ChildBrings
<1>2. /\ Way' = (Way \ {t}) \cup ts \cup ds
      /\ Traced' /\ WayInOrder' /\ HistoryExact' /\ InTurn' /\ RetainedWithReason' /\ Notes'
  BY <1>1, AfterReturn
<1>3. TypeOK /\ gating \subseteq tracked /\ tracked \subseteq spawned
  BY DEF IInv, Started
<1>4. /\ gating' \subseteq tracked' /\ tracked' \subseteq tracked
      /\ suspended' = suspended \/ suspended' = NoTurn
  BY <1>1, <1>3 DEF joinVars, ChildDone
<1>5. /\ spawned \subseteq Children /\ tracked \subseteq Children
      /\ suspended \in RootTurns \cup {NoTurn}
  BY <1>3, Kinds
<1>6. TypeOK'
  <2>1. {spawned', tracked', gating'} \subseteq SUBSET Children
    BY <1>1, <1>4, <1>5
  <2>2. suspended' \in RootTurns \cup {NoTurn}
    BY <1>4, <1>5
  <2> QED BY <1>1, <1>3, <2>1, <2>2, ReturnTypes
<1>7. RootWaits'
  <2> SUFFICES ASSUME suspended' # NoTurn
               PROVE  Reached(<<Root, suspended>>)' /\ \A u \in Way' : u[1] # Root
    BY DEF RootWaits
  <2>1. suspended' = suspended /\ suspended # NoTurn
    BY <1>4
  <2>2. Reached(<<Root, suspended>>) /\ \A u \in Way : u[1] # Root
    BY <2>1 DEF IInv, RootWaits
  <2>3. Reached(<<Root, suspended>>)'
    <3>1. <<Root, suspended>> # t
      BY <1>1, TheTurns
    <3>2. Reached(<<Root, suspended>>)'
      <4> DEFINE u == <<Root, suspended>>
      <4>1. Returned' = Returned \cup {t}
        BY <1>1, Arrives
      <4> QED BY <2>1, <2>2, <3>1, <4>1 DEF Reached
    <3> QED BY <3>2
  <2>4. ts = {}
    BY <1>1, <2>1 DEF ChildDone
  <2>5. \A u \in ds : u[1] = t[1]
    BY <1>1 DEF After
  <2>6. \A u \in Way' : u[1] # Root
    BY <1>1, <1>2, <2>2, <2>4, <2>5, TheTurns
  <2> QED BY <2>3, <2>6
<1>8. Started'
  <2>1. \A u \in ts : u[1] \notin Children
    BY <1>1, TheTurns
  <2>2. \A u \in ds : u[1] = t[1]
    BY <1>1 DEF After
  <2>3. \A u \in sent \cup Way : u[1] \in Children => u[1] \in spawned
    BY DEF IInv, Started
  <2>4. t \in Way
    BY <1>1 DEF Way
  <2>5. \A u \in sent' \cup Way' : u[1] \in Children => u[1] \in spawned'
    BY <1>1, <1>2, <2>1, <2>2, <2>3, <2>4
  <2>6. tracked' \subseteq spawned'
    BY <1>1, <1>3, <1>4
  <2> QED BY <1>4, <2>5, <2>6 DEF Started
<1> QED BY <1>2, <1>6, <1>7, <1>8 DEF IInv

\* A return of the root keeps the invariant.
LEMMA RootSteps ==
  ASSUME IInv, NEW t \in Turns, ReturnOfRoot(t)
  PROVE  IInv'
<1>1. PICK cs \in SUBSET (Children \ spawned), ds \in SUBSET Turns :
           /\ t \in wire /\ t[1] = Root /\ wire' = wire \ {t} /\ sent' = sent
           /\ UNCHANGED <<traceVars, stage, lost>> /\ NoteReturn(t)
           /\ Complete(t, {}) /\ Start(cs) /\ due' = due \cup ds
           /\ \A u \in ds : u \notin Way /\ u \notin sent /\ Reached(u)'
           /\ \/ /\ ~IsFinal(t) /\ suspended' = t[2] + 1 /\ ds = First(cs)
                 /\ \E c \in gating \cup cs : JoinedAt(recorded, c) = t[2] + 1
              \/ ~IsFinal(t) /\ suspended' = suspended /\ ds = First(cs) \cup {After(t)}
              \/ IsFinal(t) /\ suspended' = suspended /\ ds = First(cs)
  BY RootBrings
<1>2. /\ Way' = (Way \ {t}) \cup ds
      /\ Traced' /\ WayInOrder' /\ HistoryExact' /\ InTurn' /\ RetainedWithReason' /\ Notes'
  <2> DEFINE ts == {u \in Turns : FALSE}
  <2>1. ts \in SUBSET Turns /\ ts \cap ds = {} /\ ts = {}
    OBVIOUS
  <2>2. /\ Way' = (Way \ {t}) \cup ts \cup ds
        /\ Traced' /\ WayInOrder' /\ HistoryExact' /\ InTurn' /\ RetainedWithReason' /\ Notes'
    <3> HIDE DEF ts
    <3>1. Complete(t, ts)
      BY <1>1, <2>1
    <3> QED BY <1>1, <2>1, <3>1, AfterReturn
  <2> QED BY <2>1, <2>2
<1>3. TypeOK /\ gating \subseteq tracked /\ tracked \subseteq spawned
  BY DEF IInv, Started
<1>4. /\ spawned' = spawned \cup cs /\ tracked' = tracked \cup cs
      /\ gating' \subseteq gating \cup cs
  BY <1>1 DEF Start
<1>5. /\ spawned \subseteq Children /\ tracked \subseteq Children
      /\ suspended \in RootTurns \cup {NoTurn} /\ t \in Way /\ Reached(t)
  BY <1>1, <1>3, Kinds, Apart DEF Way
<1>6. suspended = NoTurn
  BY <1>1, <1>5 DEF IInv, RootWaits
<1>7. suspended' # NoTurn => ~IsFinal(t) /\ suspended' = t[2] + 1 /\ ds = First(cs)
  BY <1>1, <1>6
<1>8. ~IsFinal(t) => t[2] + 1 \in RootTurns /\ After(t) = <<Root, t[2] + 1>>
  BY <1>1, TheTurns DEF IsFinal, RootTurns, After
<1>9. TypeOK'
  <2>1. {spawned', tracked', gating'} \subseteq SUBSET Children
    BY <1>3, <1>4, <1>5
  <2>2. suspended' \in RootTurns \cup {NoTurn}
    BY <1>7, <1>8
  <2>3. {} \in SUBSET Turns
    OBVIOUS
  <2> QED BY <1>1, <1>3, <2>1, <2>2, <2>3, ReturnTypes
<1>10. \A u \in First(cs) : u[1] \in cs /\ u[1] \in Children /\ u[1] # Root
  BY Firsts
<1>11. RootWaits'
  <2> SUFFICES ASSUME suspended' # NoTurn
               PROVE  Reached(<<Root, suspended>>)' /\ \A u \in Way' : u[1] # Root
    BY DEF RootWaits
  <2>1. <<Root, suspended'>> = After(t) /\ ds = First(cs)
    BY <1>7, <1>8
  <2>2. Reached(<<Root, suspended>>)'
    <3>1. Reached(After(t))'
      BY <1>1, Arrives
    <3>2. t[2] + 1 = suspended'
      BY <1>7
    <3> QED BY <1>1, <2>1, <3>1, <3>2 DEF Reached, After
  <2>3. ASSUME NEW u \in Way', u[1] = Root
        PROVE  FALSE
    <3>1. u \in Way /\ u # t
      BY <1>2, <1>10, <2>1, <2>3
    <3>2. u \in Turns /\ Reached(u)
      BY <3>1, Apart
    <3> QED BY <1>1, <1>5, <2>3, <3>1, <3>2, Once
  <2> QED BY <2>2, <2>3
<1>12. Started'
  <2>1. \A u \in ds : u[1] \in Children => u[1] \in cs
    <3>1. After(t)[1] = Root
      BY <1>1 DEF After
    <3> QED BY <1>1, <1>10, <3>1, TheTurns
  <2>2. \A u \in sent \cup Way : u[1] \in Children => u[1] \in spawned
    BY DEF IInv, Started
  <2>3. \A u \in sent' \cup Way' : u[1] \in Children => u[1] \in spawned'
    BY <1>1, <1>2, <1>4, <2>1, <2>2
  <2>4. gating' \subseteq tracked' /\ tracked' \subseteq spawned'
    BY <1>3, <1>4
  <2> QED BY <2>3, <2>4 DEF Started
<1> QED BY <1>2, <1>9, <1>11, <1>12 DEF IInv

\* Nothing comes back and nothing more is known: what the barrier knows, the
\* notes and the root's wait stay as they are.
LEMMA NoReturn ==
  ASSUME IInv, Returned' = Returned, UNCHANGED <<traceVars, completed, handoff>>,
         stage' = stage
  PROVE  Traced' /\ HistoryExact' /\ Notes'
<1>1. \A t : Reached(t)' <=> Reached(t)
  BY Stays
<1>2. recorded' = recorded /\ predecessors' = predecessors
  BY DEF traceVars
<1>3. Traced'
  BY <1>2 DEF IInv, Traced
<1>4. HistoryExact'
  BY DEF IInv, HistoryExact
<1>5. Notes'
  <2>1. \A t \in handoff' : ~IsFinal(t) /\ t \in Returned' /\ Reached(After(t))'
    BY <1>1 DEF IInv, Notes
  <2>2. stage' = "profiling" => handoff' = {}
    BY DEF IInv, Notes
  <2> QED BY <2>1, <2>2 DEF Notes
<1> QED BY <1>3, <1>4, <1>5

\* A turn that is due goes to the barrier.
LEMMA DueSteps ==
  ASSUME IInv, NEW t \in Turns, SubmitDue(t)
  PROVE  IInv' /\ Returned' = Returned /\ Way' = Way
<1>1. /\ t \in due /\ due' = due \ {t}
      /\ UNCHANGED <<traceVars, stage, completed, wire, sent, handoff, joinVars, lost>>
      /\ recorded' = recorded /\ predecessors' = predecessors /\ resumed' = resumed
      /\ spawned' = spawned /\ tracked' = tracked /\ gating' = gating /\ suspended' = suspended
  BY DEF SubmitDue, traceVars, joinVars
<1> DEFINE now == {u \in {t} : Ready(u, completed) /\ ~Paused}
<1>2. /\ issuing' = issuing \cup now /\ pending' = pending \cup ({t} \ now)
      /\ now \subseteq {t}
  BY DEF SubmitDue, Submit
<1>3. \A u \in now : predecessors[u] \subseteq completed
  BY DEF Ready
<1>4. \A u \in {t} \ now : Paused \/ ~(predecessors[u] \subseteq completed)
  BY DEF Ready
<1> HIDE DEF now
<1>5. Returned' = Returned /\ Way' = Way
  BY <1>1, <1>2 DEF Returned, Way
<1>6. Traced' /\ HistoryExact' /\ Notes'
  BY <1>1, <1>5, NoReturn
<1>7. \A u : Reached(u)' <=> Reached(u)
  BY <1>5, Stays
<1>8. TypeOK'
  <2>1. /\ due \subseteq Turns /\ pending \subseteq Turns /\ issuing \subseteq Turns
    BY Kinds DEF IInv
  <2>2. due' \subseteq Turns /\ pending' \subseteq Turns /\ issuing' \subseteq Turns
    BY <1>1, <1>2, <2>1
  <2> QED BY <1>1, <2>2 DEF IInv, TypeOK
<1>9. WayInOrder'
  <2>1. /\ \A u \in Way : Reached(u)
        /\ wire \subseteq sent
        /\ due \cap pending = {} /\ due \cap issuing = {} /\ pending \cap issuing = {}
        /\ (due \cup pending \cup issuing) \cap sent = {}
    BY DEF IInv, WayInOrder
  <2>2. /\ due' \cap pending' = {} /\ due' \cap issuing' = {} /\ pending' \cap issuing' = {}
        /\ (due' \cup pending' \cup issuing') \cap sent' = {}
    BY <1>1, <1>2, <2>1
  <2> QED BY <1>1, <1>5, <1>7, <2>1, <2>2 DEF WayInOrder
<1>10. RootWaits'
  <2>1. Reached(<<Root, suspended>>)' <=> Reached(<<Root, suspended>>)
    BY <1>1, <1>5 DEF Reached
  <2> QED BY <1>1, <1>5, <2>1 DEF IInv, RootWaits
<1>11. Started'
  BY <1>1, <1>5 DEF IInv, Started
<1>12. InTurn'
  <2>1. \A u : RecordedBefore(u)' = RecordedBefore(u)
    BY <1>1, SameRecord
  <2>2. \A u \in sent' : RecordedBefore(u)' \subseteq Returned'
    BY <1>1, <1>5, <2>1 DEF IInv, InTurn
  <2>3. \A u \in issuing' : predecessors'[u] \subseteq completed'
    BY <1>1, <1>2, <1>3 DEF IInv, InTurn
  <2> QED BY <2>2, <2>3 DEF InTurn
<1>13. RetainedWithReason'
  BY <1>1, <1>2, <1>4 DEF IInv, RetainedWithReason, Paused
<1> QED BY <1>5, <1>6, <1>8, <1>9, <1>10, <1>11, <1>12, <1>13 DEF IInv

\* A turn that the barrier let through has its turn, by the whole record.
LEMMA HasItsTurn ==
  ASSUME IInv, NEW t \in issuing
  PROVE  RecordedBefore(t) \subseteq Returned
<1>1. /\ t \in Turns /\ Reached(t) /\ completed = Returned
  BY Apart DEF Way
<1>2. recorded \in Recordings /\ Returned \in SUBSET Turns
  BY Kinds DEF IInv
<1>3. /\ \A u \in Returned : \A i \in 0 .. u[2] - 1 : <<u[1], i>> \in Returned
      /\ \A u \in Returned : RecordedBefore(u) \subseteq Returned
  BY <1>1, Apart DEF IInv, HistoryExact, InTurn
<1>4. InferPredecessors(recorded, t) \subseteq Returned
  BY <1>1 DEF IInv, InTurn, Traced
<1>5. ASSUME NEW p \in EndedBy(recorded, t),
             \A q \in EndedBy(recorded, t) :
               q[1] = p[1] /\ q[2] < p[2] => recorded.finish[q] <= recorded.finish[p]
      PROVE  p \in Returned
  <2> DEFINE H == Returned
  <2>1. /\ H \in SUBSET Turns
        /\ \A u \in H : \A i \in 0 .. u[2] - 1 : <<u[1], i>> \in H
        /\ \A u \in H : RecordedBefore(u) \subseteq H
        /\ InferPredecessors(recorded, t) \subseteq H
    BY <1>2, <1>3, <1>4
  <2> HIDE DEF H
  <2>2. p \in H
    BY <1>1, <1>2, <1>5, <2>1, Covered
  <2> QED BY <2>2 DEF H
<1>6. ASSUME NEW p \in Turns, After(p) = t
      PROVE  p \in Returned
  <2>1. p = <<p[1], p[2]>> /\ p[2] \in Nat /\ t[1] = p[1] /\ t[2] = p[2] + 1
    BY <1>6, TheTurns, TheNext
  <2>2. p[2] \in 0 .. t[2] - 1
    BY <2>1
  <2>3. <<t[1], p[2]>> \in Returned
    BY <1>1, <2>2 DEF Reached
  <2> QED BY <2>1, <2>3
<1> QED BY <1>5, <1>6 DEF RecordedBefore

\* What sending a turn changes.
LEMMA Issued ==
  ASSUME IInv, NEW t \in Turns, Issue(t)
  PROVE  \E cs \in SUBSET (Children \ spawned) :
           /\ t \in issuing /\ issuing' = issuing \ {t}
           /\ wire' = wire \cup {t} /\ sent' = sent \cup {t}
           /\ Start(cs) /\ due' = due \cup First(cs)
           /\ UNCHANGED <<traceVars, stage, completed, pending, handoff, suspended, lost>>
           /\ Returned' = Returned /\ Way' = Way \cup First(cs)
<1> DEFINE cs == {c \in SpawnedBy(t) \ spawned : SpawnOverlaps(recorded, c)}
<1>1. cs \in SUBSET (Children \ spawned)
  BY DEF SpawnedBy
<1>2. /\ t \in issuing /\ issuing' = issuing \ {t}
      /\ wire' = wire \cup {t} /\ sent' = sent \cup {t}
      /\ Start(cs) /\ due' = due \cup First(cs)
      /\ UNCHANGED <<traceVars, stage, completed, pending, handoff, suspended, lost>>
  BY DEF Issue
<1> HIDE DEF cs
<1>3. t \notin sent
  BY <1>2, Apart
<1>4. Returned' = Returned
  BY <1>2, <1>3 DEF Returned
<1>5. Way' = Way \cup First(cs)
  BY <1>2 DEF Way
<1> WITNESS cs \in SUBSET (Children \ spawned)
<1> QED BY <1>2, <1>4, <1>5

\* Sending a turn keeps the invariant.
LEMMA IssueSteps ==
  ASSUME IInv, NEW t \in Turns, Issue(t)
  PROVE  IInv'
<1>1. PICK cs \in SUBSET (Children \ spawned) :
           /\ t \in issuing /\ issuing' = issuing \ {t}
           /\ wire' = wire \cup {t} /\ sent' = sent \cup {t}
           /\ Start(cs) /\ due' = due \cup First(cs)
           /\ UNCHANGED <<traceVars, stage, completed, pending, handoff, suspended, lost>>
           /\ Returned' = Returned /\ Way' = Way \cup First(cs)
  BY Issued
<1>2. recorded' = recorded /\ predecessors' = predecessors /\ resumed' = resumed
  BY <1>1 DEF traceVars
<1>3. /\ spawned' = spawned \cup cs /\ tracked' = tracked \cup cs
      /\ gating' \subseteq gating \cup cs
  BY <1>1 DEF Start
<1>4. /\ First(cs) \in SUBSET Turns
      /\ \A u \in First(cs) : /\ u[1] \in cs /\ u[1] \in Children /\ u[1] # Root
                              /\ u \notin Way /\ u \notin sent /\ Reached(u)
  BY Firsts
<1>5. \A u : Reached(u)' <=> Reached(u)
  BY <1>1, Stays
<1>6. Traced' /\ HistoryExact' /\ Notes'
  BY <1>1, NoReturn
<1>7. TypeOK'
  <2>1. /\ completed \subseteq Turns /\ pending \subseteq Turns /\ due \subseteq Turns
        /\ issuing \subseteq Turns /\ wire \subseteq Turns /\ sent \subseteq Turns
        /\ handoff \subseteq Turns
        /\ spawned \subseteq Children /\ tracked \subseteq Children /\ gating \subseteq Children
    BY Kinds DEF IInv
  <2>2. /\ due' \subseteq Turns /\ issuing' \subseteq Turns
        /\ wire' \subseteq Turns /\ sent' \subseteq Turns
        /\ spawned' \subseteq Children /\ tracked' \subseteq Children /\ gating' \subseteq Children
    BY <1>1, <1>3, <1>4, <2>1
  <2> QED BY <1>1, <1>2, <2>2 DEF IInv, TypeOK
<1>8. WayInOrder'
  <2>1. /\ \A u \in Way : Reached(u)
        /\ wire \subseteq sent
        /\ due \cap pending = {} /\ due \cap issuing = {} /\ pending \cap issuing = {}
        /\ (due \cup pending \cup issuing) \cap sent = {}
    BY DEF IInv, WayInOrder
  <2>2. \A u \in First(cs) : u \notin due /\ u \notin pending /\ u \notin issuing /\ u \notin sent
    BY <1>4 DEF Way
  <2>3. /\ due' \cap pending' = {} /\ due' \cap issuing' = {} /\ pending' \cap issuing' = {}
        /\ (due' \cup pending' \cup issuing') \cap sent' = {}
    BY <1>1, <2>1, <2>2
  <2>4. \A u \in Way' : Reached(u)'
    BY <1>1, <1>4, <1>5, <2>1
  <2>5. wire' \subseteq sent'
    BY <1>1, <2>1
  <2> QED BY <2>3, <2>4, <2>5 DEF WayInOrder
<1>9. RootWaits'
  <2>1. Reached(<<Root, suspended>>)' <=> Reached(<<Root, suspended>>)
    BY <1>1 DEF Reached
  <2> QED BY <1>1, <1>4, <2>1 DEF IInv, RootWaits
<1>10. Started'
  <2>1. t \in Way
    BY <1>1 DEF Way
  <2>2. \A u \in sent \cup Way : u[1] \in Children => u[1] \in spawned
    BY DEF IInv, Started
  <2>3. \A u \in sent' \cup Way' : u[1] \in Children => u[1] \in spawned'
    BY <1>1, <1>3, <1>4, <2>1, <2>2
  <2>4. gating' \subseteq tracked' /\ tracked' \subseteq spawned'
    <3>1. gating \subseteq tracked /\ tracked \subseteq spawned
      BY DEF IInv, Started
    <3> QED BY <1>3, <3>1
  <2> QED BY <2>3, <2>4 DEF Started
<1>11. InTurn'
  <2>1. \A u : RecordedBefore(u)' = RecordedBefore(u)
    BY <1>2, SameRecord
  <2>2. \A u \in sent : RecordedBefore(u) \subseteq Returned
    BY DEF IInv, InTurn
  <2>3. RecordedBefore(t) \subseteq Returned
    BY <1>1, HasItsTurn
  <2>4. \A u \in sent' : RecordedBefore(u)' \subseteq Returned'
    BY <1>1, <2>1, <2>2, <2>3
  <2>5. \A u \in issuing' : predecessors'[u] \subseteq completed'
    BY <1>1, <1>2 DEF IInv, InTurn
  <2> QED BY <2>4, <2>5 DEF InTurn
<1>12. RetainedWithReason'
  BY <1>1, <1>2 DEF IInv, RetainedWithReason, Paused
<1> QED BY <1>6, <1>7, <1>8, <1>9, <1>10, <1>11, <1>12 DEF IInv

\* What the refusal of a turn changes.
LEMMA Refused ==
  ASSUME IInv, NEW t \in Turns, Refuse(t)
  PROVE  \E ts \in SUBSET Turns :
           /\ stage = "draining" /\ t \in issuing /\ issuing' = issuing \ {t}
           /\ pending' = pending \cup ts
           /\ lost' = lost \cup ({t[1]} \ {u[1] : u \in handoff})
           /\ UNCHANGED <<traceVars, stage, completed, due, wire, sent, handoff>>
           /\ spawned' = spawned
           /\ Returned' = Returned /\ Way' = (Way \ {t}) \cup ts
           /\ \A u \in ts : u \notin Way /\ u \notin sent /\ Reached(u)
           /\ \/ ts = {} /\ UNCHANGED joinVars
              \/ /\ t[1] \in Children /\ ChildDone(t[1]) /\ ts = JoinReleased(t[1])
                 /\ ts # {} => suspended \in RootTurns /\ ts = {<<Root, suspended>>}
<1>1. /\ stage = "draining" /\ t \in issuing /\ issuing' = issuing \ {t}
      /\ lost' = lost \cup ({t[1]} \ {u[1] : u \in handoff})
      /\ UNCHANGED <<traceVars, stage, completed, due, wire, sent, handoff>>
  BY DEF Refuse
<1>2. Returned' = Returned
  BY <1>1 DEF Returned
<1>3. t \notin due /\ t \notin pending /\ t \notin wire
  <2>1. t \in Way
    BY <1>1 DEF Way
  <2> QED BY <1>1, Apart DEF IInv, WayInOrder
<1>4. CASE pending' = pending /\ UNCHANGED joinVars
  <2> DEFINE ts == {u \in Turns : FALSE}
  <2>1. ts = {}
    OBVIOUS
  <2>4. ts \in SUBSET Turns
    OBVIOUS
  <2> HIDE DEF ts
  <2>2. Way' = (Way \ {t}) \cup ts
    BY <1>1, <1>3, <1>4, <2>1 DEF Way
  <2>3. spawned' = spawned
    BY <1>4 DEF joinVars
  <2> WITNESS ts \in SUBSET Turns
  <2> QED BY <1>1, <1>2, <1>4, <2>1, <2>2, <2>3
<1>5. CASE /\ t[1] \in Children /\ pending' = pending \cup JoinReleased(t[1])
           /\ ChildDone(t[1])
  <2> DEFINE ts == JoinReleased(t[1])
  <2>1. ts # {} => suspended \in RootTurns /\ ts = {<<Root, suspended>>}
    BY DEF JoinReleased
  <2>2. ts \in SUBSET Turns
    BY TheTurns DEF JoinReleased
  <2>3. ASSUME NEW u \in ts
        PROVE  u \notin Way /\ u \notin sent /\ Reached(u)
    <3>1. suspended \in RootTurns /\ u = <<Root, suspended>>
      BY <2>1
    <3>2. Reached(u) /\ u \notin Way
      BY <3>1, NoTurnIsNone DEF IInv, RootWaits
    <3>3. u \notin Returned
      BY <3>2 DEF Reached
    <3> QED BY <3>2, <3>3, Apart DEF Way
  <2>4. spawned' = spawned
    BY <1>5 DEF ChildDone
  <2>5. ts = JoinReleased(t[1])
    OBVIOUS
  <2> HIDE DEF ts
  <2>6. Way' = (Way \ {t}) \cup ts
    <3>1. t \notin ts
      BY <1>1, <2>3 DEF Way
    <3> QED BY <1>1, <1>3, <1>5, <2>5, <3>1 DEF Way
  <2> WITNESS ts \in SUBSET Turns
  <2> QED BY <1>1, <1>2, <1>5, <2>1, <2>3, <2>4, <2>5, <2>6
<1> QED BY <1>4, <1>5 DEF Refuse

\* The refusal of a turn keeps the invariant.
LEMMA RefuseSteps ==
  ASSUME IInv, NEW t \in Turns, Refuse(t)
  PROVE  IInv'
<1>1. PICK ts \in SUBSET Turns :
           /\ stage = "draining" /\ t \in issuing /\ issuing' = issuing \ {t}
           /\ pending' = pending \cup ts
           /\ lost' = lost \cup ({t[1]} \ {u[1] : u \in handoff})
           /\ UNCHANGED <<traceVars, stage, completed, due, wire, sent, handoff>>
           /\ spawned' = spawned
           /\ Returned' = Returned /\ Way' = (Way \ {t}) \cup ts
           /\ \A u \in ts : u \notin Way /\ u \notin sent /\ Reached(u)
           /\ \/ ts = {} /\ UNCHANGED joinVars
              \/ /\ t[1] \in Children /\ ChildDone(t[1]) /\ ts = JoinReleased(t[1])
                 /\ ts # {} => suspended \in RootTurns /\ ts = {<<Root, suspended>>}
  BY Refused
<1>2. recorded' = recorded /\ predecessors' = predecessors /\ resumed' = resumed
  BY <1>1 DEF traceVars
<1>3. /\ tracked' \subseteq tracked /\ gating' \subseteq gating /\ gating' \subseteq tracked'
      /\ suspended' = suspended \/ suspended' = NoTurn
      /\ suspended' # NoTurn => ts = {} \/ JoinReleased(t[1]) = {}
  <2>1. gating \subseteq tracked
    BY DEF IInv, Started
  <2> QED BY <1>1, <2>1 DEF joinVars, ChildDone
<1>4. \A u : Reached(u)' <=> Reached(u)
  BY <1>1, Stays
<1>5. Traced' /\ HistoryExact' /\ Notes'
  BY <1>1, NoReturn
<1>6. TypeOK'
  <2>1. /\ pending \subseteq Turns /\ issuing \subseteq Turns
        /\ spawned \subseteq Children /\ tracked \subseteq Children /\ gating \subseteq Children
        /\ suspended \in RootTurns \cup {NoTurn}
    BY Kinds DEF IInv
  <2>2. lost' \subseteq Streams
    BY <1>1, TheTurns DEF IInv, TypeOK
  <2>3. /\ pending' \subseteq Turns /\ issuing' \subseteq Turns
        /\ tracked' \subseteq Children /\ gating' \subseteq Children
        /\ suspended' \in RootTurns \cup {NoTurn}
    BY <1>1, <1>3, <2>1
  <2> QED BY <1>1, <1>2, <2>2, <2>3 DEF IInv, TypeOK
<1>7. WayInOrder'
  <2>1. /\ \A u \in Way : Reached(u)
        /\ wire \subseteq sent
        /\ due \cap pending = {} /\ due \cap issuing = {} /\ pending \cap issuing = {}
        /\ (due \cup pending \cup issuing) \cap sent = {}
    BY DEF IInv, WayInOrder
  <2>2. \A u \in ts : u \notin due /\ u \notin issuing /\ u \notin sent
    BY <1>1 DEF Way
  <2>3. /\ due' \cap pending' = {} /\ due' \cap issuing' = {} /\ pending' \cap issuing' = {}
        /\ (due' \cup pending' \cup issuing') \cap sent' = {}
    BY <1>1, <2>1, <2>2
  <2>4. \A u \in Way' : Reached(u)'
    BY <1>1, <1>4, <2>1
  <2> QED BY <1>1, <2>1, <2>3, <2>4 DEF WayInOrder
<1>8. RootWaits'
  <2> SUFFICES ASSUME suspended' # NoTurn
               PROVE  Reached(<<Root, suspended>>)' /\ \A u \in Way' : u[1] # Root
    BY DEF RootWaits
  <2>1. suspended' = suspended /\ suspended # NoTurn /\ ts = {}
    BY <1>1, <1>3
  <2>2. Reached(<<Root, suspended>>) /\ \A u \in Way : u[1] # Root
    BY <2>1 DEF IInv, RootWaits
  <2>3. Reached(<<Root, suspended>>)'
    BY <1>1, <2>1, <2>2 DEF Reached
  <2> QED BY <1>1, <2>1, <2>2, <2>3
<1>9. Started'
  <2>1. \A u \in ts : u[1] \notin Children
    BY <1>1, TheTurns
  <2>2. \A u \in sent \cup Way : u[1] \in Children => u[1] \in spawned
    BY DEF IInv, Started
  <2>3. \A u \in sent' \cup Way' : u[1] \in Children => u[1] \in spawned'
    BY <1>1, <2>1, <2>2
  <2>4. tracked' \subseteq spawned'
    BY <1>1, <1>3 DEF IInv, Started
  <2> QED BY <1>3, <2>3, <2>4 DEF Started
<1>10. InTurn'
  <2>1. \A u : RecordedBefore(u)' = RecordedBefore(u)
    BY <1>2, SameRecord
  <2> QED BY <1>1, <1>2, <2>1 DEF IInv, InTurn
<1>11. RetainedWithReason'
  BY <1>1 DEF RetainedWithReason, Paused
<1> QED BY <1>5, <1>6, <1>7, <1>8, <1>9, <1>10, <1>11 DEF IInv

\* The end of the pressure stage keeps the invariant.
LEMMA EndSteps ==
  ASSUME IInv, EndPressure
  PROVE  IInv' /\ Returned' = Returned /\ Way' = Way
<1>1. /\ stage = "pressure" /\ stage' = "draining"
      /\ recorded' = recorded /\ predecessors' = predecessors
      /\ resumed' = resumed /\ lost' = lost
      /\ completed' = completed /\ handoff' = handoff
      /\ pending' = pending /\ due' = due /\ issuing' = issuing /\ wire' = wire /\ sent' = sent
      /\ spawned' = spawned /\ tracked' = tracked /\ gating' = gating /\ suspended' = suspended
  BY DEF EndPressure, traceVars, turnVars, joinVars
<1>2. Returned' = Returned /\ Way' = Way
  BY <1>1 DEF Returned, Way
<1>3. \A u : Reached(u)' <=> Reached(u)
  BY <1>2, Stays
<1>4. TypeOK'
  BY <1>1 DEF IInv, TypeOK
<1>5. Traced' /\ HistoryExact'
  BY <1>1, <1>2 DEF IInv, Traced, HistoryExact
<1>6. WayInOrder'
  BY <1>1, <1>2, <1>3 DEF IInv, WayInOrder
<1>7. RootWaits'
  <2>1. Reached(<<Root, suspended>>)' <=> Reached(<<Root, suspended>>)
    BY <1>1, <1>2 DEF Reached
  <2> QED BY <1>1, <1>2, <2>1 DEF IInv, RootWaits
<1>8. Started'
  BY <1>1, <1>2 DEF IInv, Started
<1>9. Notes'
  <2>1. \A t \in handoff' : ~IsFinal(t) /\ t \in Returned' /\ Reached(After(t))'
    BY <1>1, <1>2, <1>3 DEF IInv, Notes
  <2> QED BY <1>1, <2>1 DEF Notes
<1>10. InTurn'
  <2>1. \A u : RecordedBefore(u)' = RecordedBefore(u)
    BY <1>1, SameRecord
  <2> QED BY <1>1, <1>2, <2>1 DEF IInv, InTurn
<1>11. RetainedWithReason'
  BY <1>1 DEF RetainedWithReason, Paused
<1> QED BY <1>2, <1>4, <1>5, <1>6, <1>7, <1>8, <1>9, <1>10, <1>11 DEF IInv

\* What the handover goes on with are turns their streams have come to.
LEMMA HandedOver ==
  ASSUME IInv
  PROVE  /\ HandoverTurns \subseteq Turns
         /\ \A u \in HandoverTurns : Reached(u)
         /\ \A u \in HandoverTurns : u[1] \in Children => u[1] \in spawned
         /\ HandoverPrefixes = completed
<1>1. ASSUME NEW u \in HandoverTurns
      PROVE  /\ u \in Turns /\ Reached(u)
             /\ u[1] \in Children => u[1] \in spawned
  <2>1. CASE u \in pending
    BY <2>1, Apart DEF Way, IInv, Started
  <2>2. ASSUME NEW t \in handoff, u = After(t)
        PROVE  /\ u \in Turns /\ Reached(u)
               /\ u[1] \in Children => u[1] \in spawned
    <3>1. t \in Turns /\ ~IsFinal(t) /\ t \in Returned /\ Reached(After(t))
      BY Kinds DEF IInv, Notes
    <3>2. u \in Turns /\ u[1] = t[1]
      BY <2>2, <3>1, TheNext
    <3>3. t \in sent
      BY <3>1 DEF Returned
    <3> QED BY <2>2, <3>1, <3>2, <3>3 DEF IInv, Started
  <2> QED BY <2>1, <2>2 DEF HandoverTurns
<1>2. ASSUME NEW t \in Turns, NEW u \in HandoverTurns, u[1] = t[1], t[2] < u[2]
      PROVE  t \in completed
  <2>1. t = <<t[1], t[2]>> /\ t[2] \in Nat /\ u[2] \in Nat
    BY <1>1, TheTurns
  <2>2. t[2] \in 0 .. u[2] - 1
    BY <1>2, <2>1
  <2>3. <<u[1], t[2]>> \in Returned
    BY <1>1, <2>2 DEF Reached
  <2> QED BY <1>2, <2>1, <2>3, Apart
<1>3. HandoverPrefixes = completed
  BY <1>2 DEF HandoverPrefixes
<1> QED BY <1>1, <1>3

\* The handover keeps the invariant.
LEMMA HandoverSteps ==
  ASSUME IInv, Handover
  PROVE  IInv' /\ Returned' = Returned /\ sent' = sent
<1> DEFINE live == {t[1] : t \in HandoverTurns}
           waits == Root \in live /\ suspended # NoTurn /\ Gates(suspended) \cap live # {}
<1>1. /\ stage = "draining" /\ stage' = "profiling"
      /\ wire = {} /\ issuing = {} /\ wire' = {} /\ issuing' = {}
      /\ completed' = HandoverPrefixes
      /\ due' = {t \in HandoverTurns : t[1] = Root => suspended = NoTurn}
      /\ pending' = {} /\ handoff' = {}
      /\ tracked' = live \cap Children
      /\ gating' \subseteq gating \cap live
      /\ suspended' = IF waits THEN suspended ELSE NoTurn
      /\ recorded' = recorded /\ predecessors' = predecessors /\ resumed' = resumed
      /\ lost' \subseteq lost \cup {Root}
      /\ sent' = sent /\ spawned' = spawned
  BY DEF Handover, traceVars
<1>2. /\ HandoverTurns \subseteq Turns
      /\ \A u \in HandoverTurns : Reached(u)
      /\ \A u \in HandoverTurns : u[1] \in Children => u[1] \in spawned
      /\ completed' = completed
  BY <1>1, HandedOver
<1>3. /\ \A c \in live : c \in Children => c \in spawned
      /\ \A u \in due' : u \in HandoverTurns /\ (u[1] = Root => suspended = NoTurn)
  BY <1>1, <1>2
<1> HIDE DEF live, waits
<1>4. Returned' = Returned /\ Way' = due' /\ Returned = sent
  BY <1>1 DEF Returned, Way
<1>5. \A u : Reached(u)' <=> Reached(u)
  BY <1>4, Stays
<1>6. suspended' # NoTurn => suspended' = suspended
  BY <1>1
<1>7. TypeOK'
  <2>1. /\ completed \subseteq Turns /\ sent \subseteq Turns
        /\ spawned \subseteq Children /\ gating \subseteq Children
        /\ suspended \in RootTurns \cup {NoTurn}
    BY Kinds DEF IInv
  <2>5. resumed \subseteq Turns /\ lost' \subseteq Streams
    BY <1>1, TheTurns DEF IInv, TypeOK
  <2>2. {resumed', completed', pending', due', issuing', wire', sent', handoff'} \subseteq SUBSET Turns
    BY <1>1, <1>2, <1>3, <2>1, <2>5
  <2>3. {spawned', tracked', gating'} \subseteq SUBSET Children
    BY <1>1, <2>1
  <2>4. suspended' \in RootTurns \cup {NoTurn}
    BY <1>6, <2>1
  <2> QED BY <1>1, <2>2, <2>3, <2>4, <2>5 DEF IInv, TypeOK
<1>8. Traced' /\ HistoryExact'
  BY <1>1, <1>2, <1>4 DEF IInv, Traced, HistoryExact
<1>9. WayInOrder'
  <2>1. \A u \in Way' : Reached(u)'
    BY <1>2, <1>3, <1>4, <1>5
  <2>2. due' \cap sent' = {}
    BY <1>1, <1>2, <1>3, <1>4 DEF Reached
  <2> QED BY <1>1, <2>1, <2>2 DEF WayInOrder
<1>10. RootWaits'
  <2> SUFFICES ASSUME suspended' # NoTurn
               PROVE  Reached(<<Root, suspended>>)' /\ \A u \in Way' : u[1] # Root
    BY DEF RootWaits
  <2>1. suspended' = suspended /\ suspended # NoTurn
    BY <1>6
  <2>2. Reached(<<Root, suspended>>)
    BY <2>1 DEF IInv, RootWaits
  <2>3. Reached(<<Root, suspended>>)'
    BY <1>4, <2>1, <2>2 DEF Reached
  <2> QED BY <1>3, <1>4, <2>1, <2>3
<1>11. Started'
  <2>1. gating' \subseteq tracked' /\ tracked' \subseteq spawned'
    <3>1. gating \subseteq Children
      BY Kinds DEF IInv
    <3> QED BY <1>1, <1>3, <3>1
  <2>2. \A u \in sent' \cup Way' : u[1] \in Children => u[1] \in spawned'
    BY <1>1, <1>2, <1>3, <1>4 DEF IInv, Started
  <2> QED BY <2>1, <2>2 DEF Started
<1>12. Notes' /\ RetainedWithReason'
  BY <1>1 DEF Notes, RetainedWithReason
<1>13. InTurn'
  <2>1. \A u : RecordedBefore(u)' = RecordedBefore(u)
    BY <1>1, SameRecord
  <2> QED BY <1>1, <1>4, <2>1 DEF IInv, InTurn
<1> QED BY <1>1, <1>4, <1>7, <1>8, <1>9, <1>10, <1>11, <1>12, <1>13 DEF IInv

\* Where nothing changes, neither does the invariant.
LEMMA Stutters ==
  ASSUME IInv, UNCHANGED vars
  PROVE  IInv' /\ Returned' = Returned /\ Way' = Way
<1>1. /\ recorded' = recorded /\ predecessors' = predecessors
      /\ resumed' = resumed /\ lost' = lost
      /\ stage' = stage /\ completed' = completed /\ handoff' = handoff
      /\ pending' = pending /\ due' = due /\ issuing' = issuing /\ wire' = wire /\ sent' = sent
      /\ spawned' = spawned /\ tracked' = tracked /\ gating' = gating /\ suspended' = suspended
  BY DEF vars, traceVars, turnVars, joinVars
<1>2. Returned' = Returned /\ Way' = Way
  BY <1>1 DEF Returned, Way
<1>3. \A u : Reached(u)' <=> Reached(u)
  BY <1>2, Stays
<1>4. TypeOK'
  BY <1>1 DEF IInv, TypeOK
<1>5. Traced' /\ HistoryExact' /\ Notes'
  BY <1>1, <1>2, <1>3 DEF IInv, Traced, HistoryExact, Notes
<1>6. WayInOrder'
  BY <1>1, <1>2, <1>3 DEF IInv, WayInOrder
<1>7. RootWaits'
  <2>1. Reached(<<Root, suspended>>)' <=> Reached(<<Root, suspended>>)
    BY <1>1, <1>2 DEF Reached
  <2> QED BY <1>1, <1>2, <2>1 DEF IInv, RootWaits
<1>8. Started'
  BY <1>1, <1>2 DEF IInv, Started
<1>9. InTurn'
  <2>1. \A u : RecordedBefore(u)' = RecordedBefore(u)
    BY <1>1, SameRecord
  <2> QED BY <1>1, <1>2, <2>1 DEF IInv, InTurn
<1>10. RetainedWithReason'
  BY <1>1 DEF IInv, RetainedWithReason, Paused
<1> QED BY <1>2, <1>4, <1>5, <1>6, <1>7, <1>8, <1>9, <1>10 DEF IInv

\* Every step keeps the invariant.
LEMMA Steps == IInv /\ [Next]_vars => IInv'
<1> SUFFICES ASSUME IInv, [Next]_vars
             PROVE  IInv'
  OBVIOUS
<1>1. ASSUME NEW t \in Turns, SubmitDue(t)
      PROVE  IInv'
  BY <1>1, DueSteps
<1>2. ASSUME NEW t \in Turns, Issue(t)
      PROVE  IInv'
  BY <1>2, IssueSteps
<1>3. ASSUME NEW t \in Turns, ReturnOfChild(t)
      PROVE  IInv'
  BY <1>3, ChildSteps
<1>4. ASSUME NEW t \in Turns, ReturnOfRoot(t)
      PROVE  IInv'
  BY <1>4, RootSteps
<1>8. ASSUME NEW t \in Turns, Refuse(t)
      PROVE  IInv'
  BY <1>8, RefuseSteps
<1>5. CASE EndPressure
  BY <1>5, EndSteps
<1>6. CASE Handover
  BY <1>6, HandoverSteps
<1>7. CASE UNCHANGED vars
  BY <1>7, Stutters
<1> QED BY <1>1, <1>2, <1>3, <1>4, <1>5, <1>6, <1>7, <1>8 DEF Next, Step, Done

-------------------------------------------------------------------------------
(***************************************************************************)
(* Nobody is lost.                                                         *)
(***************************************************************************)
\* The child is gone: a root that goes on waiting has another one to wait for.
LEMMA ChildGone ==
  ASSUME IInv, NobodyLost, NEW c \in Children, ChildDone(c), recorded' = recorded
  PROVE  /\ tracked' = tracked \ {c} /\ spawned' = spawned
         /\ JoinReleased(c) # {} => suspended' = NoTurn
         /\ JoinReleased(c) = {} => suspended' = suspended
         /\ suspended' # NoTurn => suspended' = suspended /\ Gates(suspended)' # {}
<1>1. /\ tracked' = tracked \ {c} /\ gating' = gating \ {c} /\ spawned' = spawned
      /\ suspended' = IF JoinReleased(c) # {} THEN NoTurn ELSE suspended
  BY DEF ChildDone
<1>2. ASSUME suspended' # NoTurn
      PROVE  Gates(suspended)' # {}
  <2>1. JoinReleased(c) = {} /\ suspended' = suspended /\ suspended # NoTurn
    BY <1>1, <1>2
  <2>2. suspended \in RootTurns
    BY <2>1, Kinds DEF IInv
  <2>3. suspended \notin {j \in RootTurns : Gates(j) = {c}}
    BY <2>1, <2>2 DEF JoinReleased
  <2>4. Gates(suspended) # {c} /\ Gates(suspended) # {}
    BY <2>1, <2>2, <2>3 DEF NobodyLost, Kept
  <2>5. Gates(suspended)' = Gates(suspended) \ {c}
    BY <1>1, <2>1 DEF Gates
  <2> QED BY <2>4, <2>5
<1> QED BY <1>1, <1>2

\* What a return does to the notes and to what is lost.
LEMMA ReturnNoted ==
  ASSUME IInv, NobodyLost, NEW t \in wire, wire' = wire \ {t}, sent' = sent,
         UNCHANGED <<traceVars, stage, lost>>, NoteReturn(t)
  PROVE  /\ t \in Way /\ t[1] \notin lost /\ Reached(t) /\ t \in Turns
         /\ resumed' = resumed /\ recorded' = recorded /\ stage' = stage /\ lost' = lost
         /\ IsFinal(t) => After(t) \notin Turns
         /\ After(t)[1] = t[1] /\ (~IsFinal(t) => After(t) \in Turns /\ Reached(After(t))')
         /\ \A u \in Turns : Reached(u)' => u = After(t) \/ (Reached(u) /\ u[1] # t[1])
         /\ \A u \in Way : u # t => u[1] # t[1]
         /\ \A u : Reached(u) /\ u # t => Reached(u)'
         /\ \A u \in handoff : u[1] # t[1] => u \in handoff'
         /\ \A u \in handoff' : u[1] \notin lost
         /\ stage' # "profiling" =>
              \A u \in Turns : Reached(u)' /\ u \notin resumed \cup First(Children)
                                 => \E v \in handoff' : v[1] = u[1]
         /\ \A u \in Turns : u[1] \in lost' /\ Reached(u)' =>
              u \in resumed' \cup First(Children) \/ (u[1] = Root /\ lost' \cap Children # {})
<1>1. /\ t \in Way /\ t \in Turns /\ Reached(t) /\ \A u \in Way : u \in Turns /\ Reached(u)
  BY Apart DEF Way
<1>2. /\ \A u \in Way \cup handoff : u[1] \notin lost
      /\ stage # "profiling" =>
           \A u \in Turns : Reached(u) /\ u \notin resumed \cup First(Children)
                              => \E v \in handoff : v[1] = u[1]
      /\ \A u \in Turns : u[1] \in lost /\ Reached(u) =>
           u \in resumed \cup First(Children) \/ (u[1] = Root /\ lost \cap Children # {})
  BY DEF NobodyLost, Lost
<1>3. resumed' = resumed /\ recorded' = recorded /\ stage' = stage /\ lost' = lost
  BY DEF traceVars
<1>4. /\ \A u \in Turns : Reached(u)' => u = After(t) \/ (Reached(u) /\ u[1] # t[1])
      /\ Reached(After(t))' /\ \A u : Reached(u) /\ u # t => Reached(u)'
  BY Arrives
<1>5. /\ After(t)[1] = t[1] /\ After(t)[2] = t[2] + 1
      /\ ~IsFinal(t) => After(t) \in Turns
  BY <1>1, TheNext
<1>6. IsFinal(t) => After(t) \notin Turns
  <2> SUFFICES ASSUME IsFinal(t), After(t) \in Turns
               PROVE  FALSE
    OBVIOUS
  <2>1. t[2] = NumTurns[t[1]] - 1 /\ t[2] \in Nat /\ NumTurns[t[1]] \in Nat
    BY <1>1, TheTurns DEF IsFinal
  <2>2. t[2] + 1 < NumTurns[t[1]]
    BY <1>5, TheTurns
  <2> QED BY <2>1, <2>2
<1>7. \A u \in Way : u # t => u[1] # t[1]
  BY <1>1, Once
<1>8. /\ stage = "profiling" => handoff' = handoff
      /\ stage # "profiling" =>
           handoff' = {u \in handoff : u[1] # t[1]} \cup {u \in {t} : ~IsFinal(u)}
  BY DEF NoteReturn
<1>9. /\ \A u \in handoff : u[1] # t[1] => u \in handoff'
      /\ \A u \in handoff' : u[1] \notin lost
  BY <1>1, <1>2, <1>8
<1>10. ASSUME stage' # "profiling", NEW u \in Turns, Reached(u)',
              u \notin resumed \cup First(Children)
       PROVE  \E v \in handoff' : v[1] = u[1]
  <2>1. CASE u = After(t)
    <3>1. t \in handoff'
      BY <1>3, <1>6, <1>8, <1>10, <2>1
    <3> QED BY <1>5, <2>1, <3>1
  <2>2. CASE Reached(u) /\ u[1] # t[1]
    BY <1>2, <1>3, <1>9, <1>10, <2>2
  <2> QED BY <1>4, <1>10, <2>1, <2>2
<1>11. ASSUME NEW u \in Turns, u[1] \in lost', Reached(u)'
       PROVE  u \in resumed' \cup First(Children) \/ (u[1] = Root /\ lost' \cap Children # {})
  <2>1. u # After(t)
    BY <1>1, <1>2, <1>3, <1>5, <1>11
  <2>2. Reached(u)
    BY <1>4, <1>11, <2>1
  <2> QED BY <1>2, <1>3, <1>11, <2>2
<1> QED BY <1>1, <1>2, <1>3, <1>4, <1>5, <1>6, <1>7, <1>9, <1>10, <1>11

\* A subagent's return loses nobody.
LEMMA ChildLosesNobody ==
  ASSUME IInv, NobodyLost, NEW t \in Turns, ReturnOfChild(t)
  PROVE  NobodyLost'
<1>1. PICK ts \in SUBSET Turns, ds \in SUBSET Turns :
           /\ t \in wire /\ t[1] \in Children /\ wire' = wire \ {t} /\ sent' = sent
           /\ UNCHANGED <<traceVars, stage, lost>> /\ NoteReturn(t)
           /\ ts \cap ds = {} /\ Complete(t, ts) /\ due' = due \cup ds
           /\ \A u \in ts \cup ds : u \notin Way /\ u \notin sent /\ Reached(u)'
           /\ spawned' = spawned
           /\ \/ /\ ~IsFinal(t) /\ ts = {} /\ ds = {After(t)} /\ UNCHANGED joinVars
              \/ /\ IsFinal(t) /\ ds = {} /\ ChildDone(t[1]) /\ ts = JoinReleased(t[1])
                 /\ ts # {} => suspended \in RootTurns /\ ts = {<<Root, suspended>>}
  BY ChildBrings
<1>2. Way' = (Way \ {t}) \cup ts \cup ds
  BY <1>1, AfterReturn
<1>3. /\ t \in Way /\ t[1] \notin lost /\ Reached(t)
      /\ resumed' = resumed /\ recorded' = recorded /\ stage' = stage /\ lost' = lost
      /\ IsFinal(t) => After(t) \notin Turns
      /\ After(t)[1] = t[1] /\ (~IsFinal(t) => After(t) \in Turns /\ Reached(After(t))')
      /\ \A u \in Turns : Reached(u)' => u = After(t) \/ (Reached(u) /\ u[1] # t[1])
      /\ \A u \in Way : u # t => u[1] # t[1]
      /\ \A u : Reached(u) /\ u # t => Reached(u)'
      /\ \A u \in handoff : u[1] # t[1] => u \in handoff'
      /\ \A u \in handoff' : u[1] \notin lost
      /\ stage' # "profiling" =>
           \A u \in Turns : Reached(u)' /\ u \notin resumed \cup First(Children)
                              => \E v \in handoff' : v[1] = u[1]
      /\ \A u \in Turns : u[1] \in lost' /\ Reached(u)' =>
           u \in resumed' \cup First(Children) \/ (u[1] = Root /\ lost' \cap Children # {})
  BY <1>1, ReturnNoted
<1>4. /\ \A u \in Turns : u[1] \in Going /\ Reached(u) =>
           \/ u \in Way
           \/ u[1] = Root /\ suspended # NoTurn
           \/ stage = "draining" /\ \E v \in handoff : v[1] = u[1]
      /\ suspended # NoTurn => Gates(suspended) # {}
      /\ lost \subseteq {Root} \cup spawned /\ \A u \in Way : u[1] \notin lost
      /\ Root \in lost => suspended = NoTurn
      /\ \A c \in tracked : \E u \in Turns : u[1] = c /\ Reached(u)
      /\ stage # "draining" =>
           /\ tracked \cap lost = {}
           /\ \A u \in Turns : u[1] \in spawned \ lost /\ Reached(u) => u[1] \in tracked
  BY DEF NobodyLost, Kept, Lost, Tracked
<1>5. Root \notin Children /\ t[1] # Root /\ t[1] \in spawned
  BY <1>1, <1>3, TheTurns DEF IInv, Started
<1>6. /\ ts # {} => suspended' = NoTurn /\ suspended # NoTurn
      /\ ts = {} => suspended' = suspended
      /\ suspended' # NoTurn => Gates(suspended)' # {}
  <2>1. CASE ~IsFinal(t) /\ ts = {} /\ UNCHANGED joinVars
    <3>1. suspended' = suspended /\ gating' = gating
      BY <2>1 DEF joinVars
    <3>2. Gates(suspended)' = Gates(suspended)
      BY <1>3, <3>1 DEF Gates
    <3> QED BY <1>4, <2>1, <3>1, <3>2
  <2>2. CASE /\ ChildDone(t[1]) /\ ts = JoinReleased(t[1])
             /\ ts # {} => suspended \in RootTurns /\ ts = {<<Root, suspended>>}
    <3>1. ts # {} => suspended # NoTurn
      BY <2>2, NoTurnIsNone
    <3> QED BY <1>1, <1>3, <2>2, <3>1, ChildGone
  <2> QED BY <1>1, <2>1, <2>2
<1>7. /\ spawned' = spawned /\ Going' = Going
      /\ ~IsFinal(t) => tracked' = tracked
      /\ IsFinal(t) => tracked' = tracked \ {t[1]}
  BY <1>1, <1>3 DEF Going, joinVars, ChildDone
<1>8. ASSUME NEW u \in Turns, u[1] \in Going', Reached(u)'
      PROVE  \/ u \in Way'
             \/ u[1] = Root /\ suspended' # NoTurn
             \/ stage' = "draining" /\ \E v \in handoff' : v[1] = u[1]
  <2>1. CASE u = After(t)
    BY <1>1, <1>2, <1>3, <2>1
  <2>2. CASE Reached(u) /\ u[1] # t[1]
    <3>1. CASE u \in Way
      BY <1>2, <2>2, <3>1
    <3>2. CASE u[1] = Root /\ suspended # NoTurn
      <4>1. CASE ts = {}
        BY <1>6, <3>2, <4>1
      <4>2. CASE ts # {}
        <5> DEFINE v == <<Root, suspended>>
        <5>1. suspended \in RootTurns /\ ts = {v}
          BY <1>1, <4>2
        <5>2. Reached(v) /\ v \in Turns /\ v[1] = Root
          BY <3>2, <5>1, TheTurns DEF IInv, RootWaits
        <5> HIDE DEF v
        <5>3. u = v
          BY <2>2, <3>2, <5>2, Once
        <5> QED BY <1>2, <5>1, <5>3
      <4> QED BY <4>1, <4>2
    <3>3. CASE stage = "draining" /\ \E v \in handoff : v[1] = u[1]
      BY <1>3, <2>2, <3>3
    <3> QED BY <1>4, <1>7, <1>8, <2>2, <3>1, <3>2, <3>3
  <2> QED BY <1>3, <1>8, <2>1, <2>2
<1>9. Kept'
  BY <1>6, <1>8 DEF Kept
<1>10. Lost'
  <2>1. \A u \in ts : u[1] = Root
    BY <1>1
  <2>2. \A u \in Way' : u[1] \notin lost'
    <3>1. ts # {} => Root \notin lost
      BY <1>4, <1>6
    <3>2. \A u \in ds : u[1] = t[1]
      BY <1>1, <1>3
    <3> QED BY <1>2, <1>3, <1>4, <2>1, <3>1, <3>2
  <2>3. Root \in lost' => suspended' = NoTurn
    BY <1>3, <1>4, <1>6
  <2>4. lost' \subseteq {Root} \cup spawned'
    BY <1>3, <1>4, <1>7
  <2> QED BY <1>3, <2>2, <2>3, <2>4 DEF Lost
<1>11. Tracked'
  <2>1. ASSUME NEW c \in tracked'
        PROVE  \E u \in Turns : u[1] = c /\ Reached(u)'
    <3>1. c \in tracked
      BY <1>7, <2>1
    <3>2. CASE c = t[1]
      BY <1>3, <1>7, <2>1, <3>2
    <3>3. CASE c # t[1]
      BY <1>3, <1>4, <3>1, <3>3
    <3> QED BY <3>2, <3>3
  <2>2. ASSUME stage' # "draining", NEW u \in Turns, u[1] \in spawned' \ lost', Reached(u)'
        PROVE  u[1] \in tracked'
    <3>1. CASE u = After(t)
      BY <1>3, <1>4, <1>5, <1>7, <2>2, <3>1
    <3>2. CASE Reached(u) /\ u[1] # t[1]
      BY <1>3, <1>4, <1>7, <2>2, <3>2
    <3> QED BY <1>3, <2>2, <3>1, <3>2
  <2>3. stage' # "draining" => tracked' \cap lost' = {}
    BY <1>3, <1>4, <1>7
  <2> QED BY <2>1, <2>2, <2>3 DEF Tracked
<1> QED BY <1>9, <1>10, <1>11 DEF NobodyLost

\* A return of the root loses nobody.
LEMMA RootLosesNobody ==
  ASSUME IInv, NobodyLost, NEW t \in Turns, ReturnOfRoot(t)
  PROVE  NobodyLost'
<1>1. PICK cs \in SUBSET (Children \ spawned), ds \in SUBSET Turns :
           /\ t \in wire /\ t[1] = Root /\ wire' = wire \ {t} /\ sent' = sent
           /\ UNCHANGED <<traceVars, stage, lost>> /\ NoteReturn(t)
           /\ Complete(t, {}) /\ Start(cs) /\ due' = due \cup ds
           /\ \A u \in ds : u \notin Way /\ u \notin sent /\ Reached(u)'
           /\ \/ /\ ~IsFinal(t) /\ suspended' = t[2] + 1 /\ ds = First(cs)
                 /\ \E c \in gating \cup cs : JoinedAt(recorded, c) = t[2] + 1
              \/ ~IsFinal(t) /\ suspended' = suspended /\ ds = First(cs) \cup {After(t)}
              \/ IsFinal(t) /\ suspended' = suspended /\ ds = First(cs)
  BY RootBrings
<1>2. Way' = (Way \ {t}) \cup ds
  <2> DEFINE ts == {u \in Turns : FALSE}
  <2>1. ts \in SUBSET Turns /\ ts \cap ds = {} /\ ts = {}
    OBVIOUS
  <2>2. Way' = (Way \ {t}) \cup ts \cup ds
    <3> HIDE DEF ts
    <3>1. Complete(t, ts)
      BY <1>1, <2>1
    <3> QED BY <1>1, <2>1, <3>1, AfterReturn
  <2> QED BY <2>1, <2>2
<1>3. /\ t \in Way /\ t[1] \notin lost /\ Reached(t)
      /\ resumed' = resumed /\ recorded' = recorded /\ stage' = stage /\ lost' = lost
      /\ IsFinal(t) => After(t) \notin Turns
      /\ After(t)[1] = t[1] /\ (~IsFinal(t) => After(t) \in Turns /\ Reached(After(t))')
      /\ \A u \in Turns : Reached(u)' => u = After(t) \/ (Reached(u) /\ u[1] # t[1])
      /\ \A u \in Way : u # t => u[1] # t[1]
      /\ \A u : Reached(u) /\ u # t => Reached(u)'
      /\ \A u \in handoff : u[1] # t[1] => u \in handoff'
      /\ \A u \in handoff' : u[1] \notin lost
      /\ stage' # "profiling" =>
           \A u \in Turns : Reached(u)' /\ u \notin resumed \cup First(Children)
                              => \E v \in handoff' : v[1] = u[1]
      /\ \A u \in Turns : u[1] \in lost' /\ Reached(u)' =>
           u \in resumed' \cup First(Children) \/ (u[1] = Root /\ lost' \cap Children # {})
  BY <1>1, ReturnNoted
<1>4. /\ \A u \in Turns : u[1] \in Going /\ Reached(u) =>
           \/ u \in Way
           \/ u[1] = Root /\ suspended # NoTurn
           \/ stage = "draining" /\ \E v \in handoff : v[1] = u[1]
      /\ lost \subseteq {Root} \cup spawned /\ \A u \in Way : u[1] \notin lost
      /\ \A c \in tracked : \E u \in Turns : u[1] = c /\ Reached(u)
      /\ stage # "draining" =>
           /\ tracked \cap lost = {}
           /\ \A u \in Turns : u[1] \in spawned \ lost /\ Reached(u) => u[1] \in tracked
  BY DEF NobodyLost, Kept, Lost, Tracked
<1>5. /\ spawned' = spawned \cup cs /\ tracked' = tracked \cup cs
      /\ gating' = gating \cup {c \in cs : JoinedAt(recorded, c) \in RootTurns}
      /\ spawned \subseteq Children /\ tracked \subseteq Children /\ Root \notin Children
      /\ cs \cap lost = {}
  <2>1. spawned \subseteq Children /\ tracked \subseteq Children /\ Root \notin Children
    BY Kinds, TheTurns DEF IInv
  <2> QED BY <1>1, <1>4, <2>1 DEF Start
<1>6. /\ First(cs) \subseteq Turns
      /\ \A u \in First(cs) : u[1] \in cs /\ u[1] # Root /\ Reached(u)
      /\ \A c \in cs : \E u \in First(cs) : u[1] = c
  BY Firsts
<1>7. /\ First(cs) \subseteq ds
      /\ \A u \in ds : u \in First(cs) \/ (u = After(t) /\ ~IsFinal(t))
  BY <1>1
<1>8. suspended = NoTurn
  BY <1>1, <1>3 DEF IInv, RootWaits
<1>9. ASSUME NEW u \in Turns, u[1] \in Going', Reached(u)'
      PROVE  \/ u \in Way'
             \/ u[1] = Root /\ suspended' # NoTurn
             \/ stage' = "draining" /\ \E v \in handoff' : v[1] = u[1]
  <2>1. CASE u = After(t)
    <3>1. ~IsFinal(t) /\ u[1] = Root
      BY <1>1, <1>3, <1>9, <2>1
    <3>2. t[2] + 1 \in RootTurns
      BY <1>1, <3>1, TheTurns DEF IsFinal, RootTurns
    <3>3. suspended' = t[2] + 1 => suspended' # NoTurn
      BY <3>2, NoTurnIsNone
    <3> QED BY <1>1, <1>2, <2>1, <3>1, <3>3
  <2>2. CASE Reached(u) /\ u[1] # Root /\ u[1] \in spawned
    <3>1. u[1] \in Going
      BY <1>3, <1>9, <2>2 DEF Going
    <3> QED BY <1>1, <1>2, <1>3, <1>4, <2>2, <3>1
  <2>3. CASE Reached(u) /\ u[1] # Root /\ u[1] \in cs
    <3>1. PICK w \in First(cs) : w[1] = u[1]
      BY <1>6, <2>3
    <3>2. u = w
      BY <1>6, <1>9, <2>3, <3>1, Once
    <3> QED BY <1>2, <1>7, <3>1, <3>2
  <2> QED BY <1>1, <1>3, <1>5, <1>9, <2>1, <2>2, <2>3 DEF Going
<1>10. ASSUME suspended' # NoTurn
       PROVE  Gates(suspended)' # {}
  <2>1. ~IsFinal(t) /\ suspended' = t[2] + 1
    BY <1>1, <1>8, <1>10
  <2>2. PICK c \in gating \cup cs : JoinedAt(recorded, c) = t[2] + 1
    BY <1>1, <1>8, <1>10
  <2>3. t[2] + 1 \in RootTurns
    BY <1>1, <2>1, TheTurns DEF IsFinal, RootTurns
  <2>4. c \in gating'
    BY <1>5, <2>2, <2>3
  <2>5. c \in Gates(suspended)'
    BY <1>3, <2>1, <2>2, <2>4 DEF Gates
  <2> QED BY <2>5
<1>11. Kept'
  BY <1>9, <1>10 DEF Kept
<1>12. Lost'
  <2>1. \A u \in Way' : u[1] \notin lost'
    <3>1. \A u \in ds : u[1] \notin lost
      BY <1>3, <1>5, <1>6, <1>7
    <3> QED BY <1>2, <1>3, <1>4, <3>1
  <2>2. Root \notin lost' /\ lost' \subseteq {Root} \cup spawned'
    BY <1>1, <1>3, <1>4, <1>5
  <2> QED BY <1>3, <2>1, <2>2 DEF Lost
<1>13. Tracked'
  <2>1. ASSUME NEW c \in tracked'
        PROVE  \E u \in Turns : u[1] = c /\ Reached(u)'
    <3>1. CASE c \in tracked
      <4>1. c # Root
        BY <1>5, <3>1
      <4> QED BY <1>1, <1>3, <1>4, <3>1, <4>1
    <3>2. CASE c \in cs
      <4>1. PICK w \in First(cs) : w[1] = c
        BY <1>6, <3>2
      <4>2. Reached(w) /\ w[1] # Root /\ w \in Turns
        BY <1>6
      <4>3. Reached(w)'
        BY <1>1, <1>3, <4>2
      <4> QED BY <4>1, <4>2, <4>3
    <3> QED BY <1>5, <2>1, <3>1, <3>2
  <2>2. ASSUME stage' # "draining", NEW u \in Turns, u[1] \in spawned' \ lost', Reached(u)'
        PROVE  u[1] \in tracked'
    <3>1. u[1] # Root
      BY <1>5, <2>2
    <3>2. Reached(u)
      BY <1>1, <1>3, <2>2, <3>1
    <3> QED BY <1>3, <1>4, <1>5, <2>2, <3>2
  <2>3. stage' # "draining" => tracked' \cap lost' = {}
    BY <1>3, <1>4, <1>5
  <2> QED BY <2>1, <2>2, <2>3 DEF Tracked
<1> QED BY <1>11, <1>12, <1>13 DEF NobodyLost

\* Sending a turn loses nobody.
LEMMA IssueLosesNobody ==
  ASSUME IInv, NobodyLost, NEW t \in Turns, Issue(t)
  PROVE  NobodyLost'
<1>1. PICK cs \in SUBSET (Children \ spawned) :
           /\ t \in issuing /\ issuing' = issuing \ {t}
           /\ wire' = wire \cup {t} /\ sent' = sent \cup {t}
           /\ Start(cs) /\ due' = due \cup First(cs)
           /\ UNCHANGED <<traceVars, stage, completed, pending, handoff, suspended, lost>>
           /\ Returned' = Returned /\ Way' = Way \cup First(cs)
  BY Issued
<1>2. /\ recorded' = recorded /\ resumed' = resumed /\ gating \subseteq gating'
      /\ spawned' = spawned \cup cs /\ tracked' = tracked \cup cs
      /\ stage' = stage /\ handoff' = handoff /\ suspended' = suspended /\ lost' = lost
      /\ Way' = Way \cup First(cs)
  BY <1>1 DEF Start, traceVars
<1>3. /\ First(cs) \subseteq Turns
      /\ \A u \in First(cs) : u[1] \in cs /\ u[1] # Root /\ Reached(u)
      /\ \A c \in cs : \E u \in First(cs) : u[1] = c
  BY Firsts
<1>4. \A u : Reached(u)' <=> Reached(u)
  BY <1>1, Stays
<1>5. /\ \A u \in Turns : u[1] \in Going /\ Reached(u) =>
           \/ u \in Way
           \/ u[1] = Root /\ suspended # NoTurn
           \/ stage = "draining" /\ \E v \in handoff : v[1] = u[1]
      /\ suspended # NoTurn => Gates(suspended) # {}
      /\ lost \subseteq {Root} \cup spawned /\ \A u \in Way \cup handoff : u[1] \notin lost
      /\ Root \in lost => suspended = NoTurn
      /\ \A c \in tracked : \E u \in Turns : u[1] = c /\ Reached(u)
      /\ stage # "draining" =>
           /\ tracked \cap lost = {}
           /\ \A u \in Turns : u[1] \in spawned \ lost /\ Reached(u) => u[1] \in tracked
  BY DEF NobodyLost, Kept, Lost, Tracked
<1>6. Root \notin Children /\ cs \cap lost = {}
  BY <1>5, TheTurns
<1>7. Kept'
  <2>1. ASSUME NEW u \in Turns, u[1] \in Going', Reached(u)
        PROVE  \/ u \in Way'
               \/ u[1] = Root /\ suspended # NoTurn
               \/ stage = "draining" /\ \E v \in handoff : v[1] = u[1]
    <3>1. CASE u[1] \in Going
      BY <1>2, <1>5, <2>1, <3>1
    <3>2. CASE u[1] \in cs
      <4>1. PICK w \in First(cs) : w[1] = u[1]
        BY <1>3, <3>2
      <4>2. u = w
        BY <1>3, <2>1, <4>1, Once
      <4> QED BY <1>2, <4>1, <4>2
    <3> QED BY <1>2, <2>1, <3>1, <3>2 DEF Going
  <2>2. Gates(suspended) \subseteq Gates(suspended)'
    BY <1>2 DEF Gates
  <2> QED BY <1>2, <1>4, <1>5, <2>1, <2>2 DEF Kept
<1>8. Lost'
  <2>1. \A u \in Way' \cup handoff' : u[1] \notin lost'
    BY <1>2, <1>3, <1>5, <1>6
  <2>2. lost' \subseteq {Root} \cup spawned' /\ (Root \in lost' => suspended' = NoTurn)
    BY <1>2, <1>5
  <2> QED BY <1>2, <1>4, <2>1, <2>2 DEF NobodyLost, Lost
<1>9. Tracked'
  <2>1. ASSUME NEW c \in tracked'
        PROVE  \E u \in Turns : u[1] = c /\ Reached(u)'
    BY <1>2, <1>3, <1>4, <1>5
  <2>2. ASSUME stage' # "draining"
        PROVE  /\ tracked' \cap lost' = {}
               /\ \A u \in Turns : u[1] \in spawned' \ lost' /\ Reached(u)' => u[1] \in tracked'
    BY <1>2, <1>4, <1>5, <1>6, <2>2
  <2> QED BY <2>1, <2>2 DEF Tracked
<1> QED BY <1>7, <1>8, <1>9 DEF NobodyLost

\* The refusal of a turn loses its stream unless that was noted, and no other.
LEMMA RefuseLosesNobody ==
  ASSUME IInv, NobodyLost, NEW t \in Turns, Refuse(t)
  PROVE  NobodyLost'
<1>1. PICK ts \in SUBSET Turns :
           /\ stage = "draining" /\ t \in issuing /\ issuing' = issuing \ {t}
           /\ pending' = pending \cup ts
           /\ lost' = lost \cup ({t[1]} \ {u[1] : u \in handoff})
           /\ UNCHANGED <<traceVars, stage, completed, due, wire, sent, handoff>>
           /\ spawned' = spawned
           /\ Returned' = Returned /\ Way' = (Way \ {t}) \cup ts
           /\ \A u \in ts : u \notin Way /\ u \notin sent /\ Reached(u)
           /\ \/ ts = {} /\ UNCHANGED joinVars
              \/ /\ t[1] \in Children /\ ChildDone(t[1]) /\ ts = JoinReleased(t[1])
                 /\ ts # {} => suspended \in RootTurns /\ ts = {<<Root, suspended>>}
  BY Refused
<1>2. /\ recorded' = recorded /\ resumed' = resumed /\ stage' = "draining"
      /\ handoff' = handoff /\ lost \subseteq lost' /\ lost' \subseteq lost \cup {t[1]}
      /\ \A v \in handoff : v[1] \in lost' => v[1] \in lost
      /\ t[1] \in lost' \/ \E v \in handoff : v[1] = t[1]
  BY <1>1 DEF traceVars
<1>3. /\ \A u : Reached(u)' <=> Reached(u)
      /\ t \in Way /\ Reached(t) /\ \A u \in Way : u \in Turns /\ Reached(u)
      /\ Root \notin Children
  BY <1>1, Stays, Apart, TheTurns DEF Way
<1>4. \A u \in Turns : Reached(u) /\ u[1] = t[1] => u = t
  BY <1>3, Once
<1>5. /\ \A u \in Turns : u[1] \in Going /\ Reached(u) =>
           \/ u \in Way
           \/ u[1] = Root /\ suspended # NoTurn
           \/ \E v \in handoff : v[1] = u[1]
      /\ suspended # NoTurn => Gates(suspended) # {}
      /\ lost \subseteq {Root} \cup spawned /\ \A u \in Way \cup handoff : u[1] \notin lost
      /\ Root \in lost => suspended = NoTurn
      /\ \A u \in Turns : Reached(u) /\ u \notin resumed \cup First(Children)
                            => \E v \in handoff : v[1] = u[1]
      /\ \A u \in Turns : u[1] \in lost /\ Reached(u) =>
           u \in resumed \cup First(Children) \/ (u[1] = Root /\ lost \cap Children # {})
      /\ \A c \in tracked : \E u \in Turns : u[1] = c /\ Reached(u)
  BY <1>1 DEF NobodyLost, Kept, Lost, Tracked
<1>6. /\ ts # {} => suspended' = NoTurn /\ suspended # NoTurn
      /\ ts = {} => suspended' = suspended
      /\ suspended' # NoTurn => Gates(suspended)' # {}
      /\ tracked' \subseteq tracked
  <2>1. CASE ts = {} /\ UNCHANGED joinVars
    <3>1. suspended' = suspended /\ gating' = gating /\ tracked' = tracked
      BY <2>1 DEF joinVars
    <3>2. Gates(suspended)' = Gates(suspended)
      BY <1>2, <3>1 DEF Gates
    <3> QED BY <1>5, <2>1, <3>1, <3>2
  <2>2. CASE /\ t[1] \in Children /\ ChildDone(t[1]) /\ ts = JoinReleased(t[1])
             /\ ts # {} => suspended \in RootTurns /\ ts = {<<Root, suspended>>}
    <3>1. ts # {} => suspended # NoTurn
      BY <2>2, NoTurnIsNone
    <3> QED BY <1>2, <2>2, <3>1, ChildGone
  <2> QED BY <1>1, <2>1, <2>2
<1>7. Kept'
  <2> SUFFICES ASSUME NEW u \in Turns, u[1] \in Going', Reached(u)
               PROVE  \/ u \in Way'
                      \/ u[1] = Root /\ suspended' # NoTurn
                      \/ \E v \in handoff' : v[1] = u[1]
    BY <1>2, <1>3, <1>6 DEF Kept
  <2>1. u[1] \in Going /\ u[1] \notin lost'
    BY <1>1, <1>2 DEF Going
  <2>2. CASE u \in Way
    <3>1. CASE u = t
      BY <1>2, <2>1, <3>1
    <3> QED BY <1>1, <2>2, <3>1
  <2>3. CASE u[1] = Root /\ suspended # NoTurn
    <3>1. CASE ts # {}
      <4> DEFINE v == <<Root, suspended>>
      <4>1. suspended \in RootTurns /\ ts = {v}
        BY <1>1, <3>1
      <4>2. Reached(v) /\ v \in Turns /\ v[1] = Root
        BY <2>3, <4>1, TheTurns DEF IInv, RootWaits
      <4> HIDE DEF v
      <4>3. u = v
        BY <2>3, <4>2, Once
      <4> QED BY <1>1, <4>1, <4>3
    <3> QED BY <1>6, <2>3, <3>1
  <2>4. CASE \E v \in handoff : v[1] = u[1]
    BY <1>2, <2>4
  <2> QED BY <1>5, <2>1, <2>2, <2>3, <2>4
<1>8. Lost'
  <2>1. lost' \subseteq {Root} \cup spawned'
    <3>1. t[1] = Root \/ t[1] \in spawned
      BY <1>3, TheTurns DEF IInv, Started, Streams
    <3> QED BY <1>1, <1>2, <1>5, <3>1
  <2>2. ASSUME NEW u \in Way'
        PROVE  u[1] \notin lost'
    <3>1. CASE u \in Way /\ u # t
      <4>1. u[1] # t[1]
        BY <1>3, <1>4, <3>1
      <4> QED BY <1>2, <1>5, <3>1, <4>1
    <3>2. CASE u \in ts
      <4>1. u[1] = Root /\ t[1] # Root /\ Root \notin lost
        BY <1>1, <1>3, <1>5, <1>6, <3>2
      <4> QED BY <1>2, <4>1
    <3> QED BY <1>1, <3>1, <3>2
  <2>3. \A u \in handoff' : u[1] \notin lost'
    BY <1>2, <1>5
  <2>4. Root \in lost' => suspended' = NoTurn
    <3>1. t[1] = Root => suspended = NoTurn
      BY <1>3 DEF IInv, RootWaits
    <3> QED BY <1>2, <1>5, <1>6, <3>1
  <2>5. ASSUME NEW u \in Turns, u[1] \in lost', Reached(u)
        PROVE  u \in resumed \cup First(Children) \/ (u[1] = Root /\ lost' \cap Children # {})
    <3>1. CASE u[1] \in lost
      BY <1>2, <1>5, <2>5, <3>1
    <3>2. CASE u[1] \notin lost
      <4>1. u[1] = t[1] /\ \A v \in handoff : v[1] # u[1]
        BY <1>2, <2>5, <3>2
      <4> QED BY <1>5, <2>5, <4>1
    <3> QED BY <3>1, <3>2
  <2> QED BY <1>2, <1>3, <1>5, <2>1, <2>2, <2>3, <2>4, <2>5 DEF Lost
<1>9. Tracked'
  BY <1>2, <1>3, <1>5, <1>6 DEF Tracked
<1> QED BY <1>7, <1>8, <1>9 DEF NobodyLost

\* The handover loses a root whose children are lost or that was never noted, and
\* nobody else: what was under way at the end of the pressure stage is retained
\* by the barrier or was noted as it returned.
LEMMA HandoverLosesNobody ==
  ASSUME IInv, NobodyLost, Handover
  PROVE  NobodyLost'
<1> DEFINE live == {t[1] : t \in HandoverTurns}
           waits == Root \in live /\ suspended # NoTurn /\ Gates(suspended) \cap live # {}
<1>1. /\ stage = "draining" /\ stage' = "profiling"
      /\ wire = {} /\ issuing = {} /\ due = {} /\ wire' = {} /\ issuing' = {}
      /\ due' = {t \in HandoverTurns : t[1] = Root => suspended = NoTurn}
      /\ pending' = {} /\ handoff' = {}
      /\ tracked' = live \cap Children
      /\ gating' = IF Root \in live THEN gating \cap live ELSE {}
      /\ suspended' = IF waits THEN suspended ELSE NoTurn
      /\ lost' = lost \cup {r \in {Root} : suspended # NoTurn /\ ~waits}
      /\ recorded' = recorded /\ resumed' = resumed /\ sent' = sent /\ spawned' = spawned
  BY DEF Handover, traceVars
<1>2. \A c : c \in live <=> \E t \in HandoverTurns : t[1] = c
  OBVIOUS
<1>3. waits <=> Root \in live /\ suspended # NoTurn /\ Gates(suspended) \cap live # {}
  OBVIOUS
<1> HIDE DEF live, waits
<1>4. Way = pending /\ Way' = due' /\ Returned' = Returned /\ Root \notin Children
  BY <1>1, TheTurns DEF Way, Returned
<1>5. \A u : Reached(u)' <=> Reached(u)
  BY <1>4, Stays
<1>6. /\ HandoverTurns \subseteq Turns
      /\ \A u \in HandoverTurns : Reached(u)
      /\ \A u \in HandoverTurns : u[1] \in Children => u[1] \in spawned
      /\ pending \subseteq HandoverTurns
      /\ \A v \in handoff : \E u \in HandoverTurns : u[1] = v[1]
      /\ \A u \in HandoverTurns : u \in pending \/ \E v \in handoff : v[1] = u[1]
  <2>1. \A v \in handoff : After(v) \in HandoverTurns /\ After(v)[1] = v[1]
    BY DEF HandoverTurns, After
  <2>2. \A u \in HandoverTurns : u \in pending \/ \E v \in handoff : v[1] = u[1]
    BY DEF HandoverTurns, After
  <2> QED BY <2>1, <2>2, HandedOver DEF HandoverTurns
<1>7. /\ \A u \in Turns : u[1] \in Going /\ Reached(u) =>
           \/ u \in pending
           \/ u[1] = Root /\ suspended # NoTurn
           \/ \E v \in handoff : v[1] = u[1]
      /\ suspended # NoTurn => Gates(suspended) # {}
      /\ lost \subseteq {Root} \cup spawned /\ \A u \in pending \cup handoff : u[1] \notin lost
      /\ Root \in lost => suspended = NoTurn
      /\ \A u \in Turns : Reached(u) /\ u \notin resumed \cup First(Children)
                            => \E v \in handoff : v[1] = u[1]
      /\ \A u \in Turns : u[1] \in lost /\ Reached(u) =>
           u \in resumed \cup First(Children) \/ (u[1] = Root /\ lost \cap Children # {})
      /\ \A c \in tracked : \E u \in Turns : u[1] = c /\ Reached(u)
  BY <1>1, <1>4 DEF NobodyLost, Kept, Lost, Tracked
<1>8. \A u \in HandoverTurns : u[1] \notin lost
  BY <1>6, <1>7
<1>9. /\ lost \subseteq lost' /\ lost' \subseteq lost \cup {Root}
      /\ Root \in lost' => Root \in lost \/ (suspended # NoTurn /\ ~waits)
      /\ suspended # NoTurn => waits \/ Root \in lost'
  BY <1>1
<1>10. ASSUME NEW u \in Turns, u[1] \in Going, Reached(u)
       PROVE  u \in HandoverTurns \/ (u[1] = Root /\ suspended # NoTurn)
  <2>1. CASE \E v \in handoff : v[1] = u[1]
    <3>1. PICK w \in HandoverTurns : w[1] = u[1]
      BY <1>6, <2>1
    <3>2. w = u
      BY <1>6, <1>10, <3>1, Once
    <3> QED BY <3>1, <3>2
  <2> QED BY <1>6, <1>7, <1>10, <2>1
<1>11. Kept'
  <2>1. ASSUME NEW u \in Turns, u[1] \in Going', Reached(u)
        PROVE  u \in Way' \/ (u[1] = Root /\ suspended' # NoTurn)
    <3>1. u[1] \in Going /\ u[1] \notin lost'
      BY <1>1, <1>9, <2>1 DEF Going
    <3>2. CASE u[1] = Root /\ suspended # NoTurn
      BY <1>1, <1>9, <3>1, <3>2
    <3>3. CASE ~(u[1] = Root /\ suspended # NoTurn)
      <4>1. u \in HandoverTurns
        BY <1>10, <2>1, <3>1, <3>3
      <4> QED BY <1>1, <1>4, <3>3, <4>1
    <3> QED BY <3>2, <3>3
  <2>2. suspended' # NoTurn => Gates(suspended)' # {}
    <3> SUFFICES ASSUME suspended' # NoTurn
                 PROVE  Gates(suspended)' # {}
      OBVIOUS
    <3>1. waits /\ suspended' = suspended /\ Root \in live
      BY <1>1, <1>3
    <3>2. PICK c \in Gates(suspended) : c \in live
      BY <1>3, <3>1
    <3>3. c \in Gates(suspended)'
      BY <1>1, <3>1, <3>2 DEF Gates
    <3> QED BY <3>3
  <2> QED BY <1>5, <2>1, <2>2 DEF Kept
<1>12. Lost'
  <2>1. lost' \subseteq {Root} \cup spawned'
    BY <1>1, <1>7, <1>9
  <2>2. ASSUME NEW u \in Way' \cup handoff'
        PROVE  u[1] \notin lost'
    <3>1. u \in HandoverTurns /\ (u[1] = Root => suspended = NoTurn)
      BY <1>1, <1>4
    <3> QED BY <1>8, <1>9, <3>1
  <2>3. Root \in lost' => suspended' = NoTurn
    BY <1>1, <1>7, <1>9
  <2>4. ASSUME NEW u \in Turns, u[1] \in lost', Reached(u)
        PROVE  u \in resumed \cup First(Children) \/ (u[1] = Root /\ lost' \cap Children # {})
    <3>1. CASE u[1] \in lost
      BY <1>7, <1>9, <2>4, <3>1
    <3>2. CASE u[1] \notin lost
      <4>1. u[1] = Root /\ suspended # NoTurn /\ ~waits
        BY <1>9, <2>4, <3>2
      <4>2. CASE Root \notin live
        <5>1. \A v \in handoff : v[1] # u[1]
          BY <1>2, <1>6, <4>1, <4>2
        <5> QED BY <1>7, <2>4, <5>1
      <4>3. CASE Root \in live
        <5>1. PICK c \in Gates(suspended) : TRUE
          BY <1>7, <4>1
        <5>2. c \notin live /\ c \in gating
          BY <1>3, <4>1, <4>3, <5>1 DEF Gates
        <5>3. c \in tracked /\ c \in spawned /\ c \in Children
          BY <5>2, Kinds DEF IInv, Started
        <5>4. PICK w \in Turns : w[1] = c /\ Reached(w)
          BY <1>7, <5>3
        <5>5. c \in lost
          <6>1. w \notin HandoverTurns
            BY <1>2, <5>2, <5>4
          <6>2. c \notin Going
            BY <1>4, <1>10, <5>3, <5>4, <6>1
          <6> QED BY <5>3, <6>2 DEF Going
        <5> QED BY <1>9, <4>1, <5>3, <5>5
      <4> QED BY <4>2, <4>3
    <3> QED BY <3>1, <3>2
  <2> QED BY <1>1, <1>5, <2>1, <2>2, <2>3, <2>4 DEF Lost
<1>13. Tracked'
  <2>1. ASSUME NEW c \in tracked'
        PROVE  \E u \in Turns : u[1] = c /\ Reached(u)'
    BY <1>1, <1>2, <1>5, <1>6
  <2>2. tracked' \cap lost' = {}
    BY <1>1, <1>2, <1>4, <1>8, <1>9
  <2>3. ASSUME NEW u \in Turns, u[1] \in spawned' \ lost', Reached(u)'
        PROVE  u[1] \in tracked'
    <3>1. u[1] \in Going /\ u[1] \in Children /\ Reached(u)
      BY <1>1, <1>5, <1>9, <2>3, Kinds DEF IInv, Going
    <3>2. u \in HandoverTurns
      BY <1>4, <1>10, <3>1
    <3> QED BY <1>1, <1>2, <3>1, <3>2
  <2> QED BY <2>1, <2>2, <2>3 DEF Tracked
<1> QED BY <1>11, <1>12, <1>13 DEF NobodyLost

\* No step loses anybody that it does not own to have lost.
LEMMA StepsLoseNobody == IInv /\ NobodyLost /\ [Next]_vars => NobodyLost'
<1> SUFFICES ASSUME IInv, NobodyLost, [Next]_vars
             PROVE  NobodyLost'
  OBVIOUS
<1>1. ASSUME recorded' = recorded, resumed' = resumed, handoff' = handoff, spawned' = spawned,
             tracked' = tracked, gating' = gating, suspended' = suspended, lost' = lost,
             Returned' = Returned, Way' = Way,
             stage' = stage \/ (stage = "pressure" /\ stage' = "draining")
      PROVE  NobodyLost'
  <2>1. \A u : Reached(u)' <=> Reached(u)
    BY <1>1, Stays
  <2>2. Gates(suspended)' = Gates(suspended) /\ Going' = Going
    BY <1>1 DEF Gates, Going
  <2>3. Kept'
    BY <1>1, <2>1, <2>2 DEF NobodyLost, Kept
  <2>4. Lost'
    BY <1>1, <2>1 DEF NobodyLost, Lost
  <2>5. Tracked'
    BY <1>1, <2>1 DEF NobodyLost, Tracked
  <2> QED BY <2>3, <2>4, <2>5 DEF NobodyLost
<1>2. ASSUME NEW t \in Turns, SubmitDue(t)
      PROVE  NobodyLost'
  <2>1. Returned' = Returned /\ Way' = Way
    BY <1>2, DueSteps
  <2> QED BY <1>1, <1>2, <2>1 DEF SubmitDue, traceVars, joinVars
<1>3. ASSUME NEW t \in Turns, Issue(t)
      PROVE  NobodyLost'
  BY <1>3, IssueLosesNobody
<1>4. ASSUME NEW t \in Turns, Refuse(t)
      PROVE  NobodyLost'
  BY <1>4, RefuseLosesNobody
<1>5. ASSUME NEW t \in Turns, ReturnOfChild(t)
      PROVE  NobodyLost'
  BY <1>5, ChildLosesNobody
<1>6. ASSUME NEW t \in Turns, ReturnOfRoot(t)
      PROVE  NobodyLost'
  BY <1>6, RootLosesNobody
<1>7. CASE EndPressure
  <2>1. Returned' = Returned /\ Way' = Way
    BY <1>7, EndSteps
  <2> QED BY <1>1, <1>7, <2>1 DEF EndPressure, traceVars, joinVars
<1>8. CASE Handover
  BY <1>8, HandoverLosesNobody
<1>9. CASE UNCHANGED vars
  <2>1. Returned' = Returned /\ Way' = Way
    BY <1>9, Stutters
  <2> QED BY <1>1, <1>9, <2>1 DEF vars, traceVars, joinVars
<1> QED BY <1>2, <1>3, <1>4, <1>5, <1>6, <1>7, <1>8, <1>9 DEF Next, Step, Done

\* With nobody else lost, every stream has the one turn under way it should have.
LEMMA OneEach == IInv /\ NobodyLost => OneTurnEach /\ OnlyUnheardAreLost
<1> SUFFICES ASSUME IInv, NobodyLost
             PROVE  OneTurnEach /\ OnlyUnheardAreLost
  OBVIOUS
<1>1. /\ \A u \in Way : u \in Turns /\ Reached(u)
      /\ \A u \in due \cup pending \cup issuing : u \notin wire
  BY Apart
<1>2. \A str : NextOf(str) = {u \in Turns : u[1] = str /\ Reached(u)}
  <2> SUFFICES ASSUME NEW str, NEW u \in Turns, u[1] = str
               PROVE  /\ Reached(u) <=> /\ u \notin Returned
                                        /\ \A i \in 0 .. u[2] - 1 : <<str, i>> \in Returned
    BY DEF NextOf
  <2> QED BY DEF Reached
<1>3. \A str : Underway(str) = {u \in Way : u[1] = str}
  BY DEF Underway, Way
<1>4. /\ \A u \in Turns : u[1] \in Going /\ Reached(u) =>
           \/ u \in Way
           \/ u[1] = Root /\ suspended # NoTurn
           \/ stage = "draining" /\ \E v \in handoff : v[1] = u[1]
      /\ suspended # NoTurn => Gates(suspended) # {}
      /\ \A u \in Way : u[1] \notin lost
      /\ \A u \in Turns : u[1] \in lost /\ Reached(u) =>
           u \in resumed \cup First(Children) \/ (u[1] = Root /\ lost \cap Children # {})
      /\ \A c \in tracked : \E u \in Turns : u[1] = c /\ Reached(u)
      /\ stage # "draining" =>
           /\ tracked \cap lost = {}
           /\ \A u \in Turns : u[1] \in spawned \ lost /\ Reached(u) => u[1] \in tracked
  BY DEF NobodyLost, Kept, Lost, Tracked
<1>5. suspended # NoTurn => Waiting /\ Underway(Root) = {}
  <2> SUFFICES ASSUME suspended # NoTurn
               PROVE  Waiting /\ Underway(Root) = {}
    OBVIOUS
  <2>1. suspended \in RootTurns
    BY Kinds DEF IInv
  <2>2. Reached(<<Root, suspended>>) /\ \A u \in Way : u[1] # Root
    BY DEF IInv, RootWaits
  <2>3. <<Root, suspended>> \in NextOf(Root)
    BY <1>2, <2>1, <2>2, TheTurns
  <2> QED BY <1>3, <1>4, <2>2, <2>3 DEF Waiting
<1>6. Waiting <=> suspended # NoTurn
  BY <1>5 DEF Waiting
<1>7. \A str \in Streams \ Going : Underway(str) = {}
  <2>1. \A u \in Way : u[1] \in Going
    <3>1. \A u \in Way : u[1] \in Streams /\ (u[1] \in Children => u[1] \in spawned)
      BY <1>1, TheTurns DEF IInv, Started
    <3> QED BY <1>4, <3>1 DEF Going, Streams
  <2> QED BY <1>3, <2>1
<1>8. ASSUME NEW str \in Going \ {r \in {Root} : Waiting}
      PROVE  \/ Underway(str) = NextOf(str)
             \/ Underway(str) = {} /\ GoesOnAtHandover(str)
  <2>1. CASE NextOf(str) = {}
    BY <1>1, <1>2, <1>3, <2>1
  <2>2. CASE \E u \in Way : u[1] = str
    <3>1. PICK u \in Way : u[1] = str
      BY <2>2
    <3>2. \A v \in Turns : v[1] = str /\ Reached(v) => v = u
      BY <1>1, <3>1, Once
    <3>3. Underway(str) = {u} /\ NextOf(str) = {u}
      BY <1>1, <1>2, <1>3, <3>1, <3>2
    <3> QED BY <3>3
  <2>3. CASE NextOf(str) # {} /\ ~ \E u \in Way : u[1] = str
    <3>1. PICK u \in Turns : u[1] = str /\ Reached(u)
      BY <1>2, <2>3
    <3>2. stage = "draining" /\ \E v \in handoff : v[1] = u[1]
      BY <1>4, <1>6, <1>8, <2>3, <3>1
    <3>3. PICK v \in handoff : v[1] = str
      BY <3>1, <3>2
    <3>4. v \in Turns /\ ~IsFinal(v) /\ Reached(After(v))
      BY Kinds DEF IInv, Notes
    <3>5. After(v) \in Turns /\ After(v)[1] = str
      BY <3>3, <3>4, TheNext
    <3>6. NextOf(str) = {After(v)}
      <4> DEFINE w == After(v)
      <4>1. w \in Turns /\ w[1] = str /\ Reached(w)
        BY <3>4, <3>5
      <4> HIDE DEF w
      <4>2. NextOf(str) = {w}
        BY <1>2, <4>1, Once
      <4> QED BY <4>2 DEF w
    <3> QED BY <1>3, <2>3, <3>2, <3>3, <3>6 DEF GoesOnAtHandover
  <2> QED BY <2>1, <2>2, <2>3
<1>9. stage # "draining" => tracked = {c \in spawned \ lost : NextOf(c) # {}}
  <2> SUFFICES ASSUME stage # "draining"
               PROVE  tracked = {c \in spawned \ lost : NextOf(c) # {}}
    OBVIOUS
  <2>1. ASSUME NEW c \in tracked
        PROVE  c \in spawned \ lost /\ NextOf(c) # {}
    BY <1>2, <1>4, <2>1 DEF IInv, Started
  <2>2. ASSUME NEW c \in spawned \ lost, NextOf(c) # {}
        PROVE  c \in tracked
    BY <1>2, <1>4, <2>2
  <2> QED BY <2>1, <2>2
<1>10. \A a, b \in {due, pending, issuing, wire} : a = b \/ a \cap b = {}
  <2>1. due \cap pending = {} /\ due \cap issuing = {} /\ pending \cap issuing = {}
    BY DEF IInv, WayInOrder
  <2>2. due \cap wire = {} /\ pending \cap wire = {} /\ issuing \cap wire = {}
    BY <1>1
  <2> QED BY <2>1, <2>2
<1>11. OneTurnEach
  BY <1>5, <1>6, <1>7, <1>8, <1>9, <1>10 DEF OneTurnEach
<1>12. OnlyUnheardAreLost
  <2> SUFFICES ASSUME NEW str \in lost,
                      ~(str = Root /\ lost \cap Children # {}), NEW u \in NextOf(str)
               PROVE  u \in resumed \cup First(Children)
    BY DEF OnlyUnheardAreLost
  <2> QED BY <1>2, <1>4
<1> QED BY <1>11, <1>12

-------------------------------------------------------------------------------
(***************************************************************************)
(* The theorems.                                                           *)
(***************************************************************************)
\* The invariant holds of every lane.
THEOREM Invariance == Spec => []IInv
<1>1. Init => IInv
  BY InitHolds
<1>2. IInv /\ [Next]_vars => IInv'
  BY Steps
<1> QED BY <1>1, <1>2, PTL DEF Spec

\* The variables have their types.
THEOREM TypeCorrect == Spec => []TypeOK
<1>1. IInv => TypeOK
  BY DEF IInv
<1> QED BY <1>1, Invariance, PTL

\* What the barrier counts as completed is what has returned, and a prefix of
\* every stream, resumes and handovers included (ReplayBarrierCoordinator.complete,
\* completed_prefixes).
THEOREM HistoryKept == Spec => []HistoryExact
<1>1. IInv => HistoryExact
  BY DEF IInv
<1> QED BY <1>1, Invariance, PTL

\* The barrier retains no turn whose predecessors have all returned, unless the
\* drain of the pressure stage holds everything back.
THEOREM RetainedForReason == Spec => []RetainedWithReason
<1>1. IInv => RetainedWithReason
  BY DEF IInv
<1> QED BY <1>1, Invariance, PTL

\* The lane implements the recorded order: a turn goes out once, after the turn
\* before it on its stream and every request its recorded start had waited for,
\* though the barrier joins only the frontier of them.
THEOREM OrderImplemented == Spec => ImplementsOrder
<1>1. Init => Order!Init
  <2> SUFFICES ASSUME Init
               PROVE  Order!Init
    OBVIOUS
  <2>1. IInv /\ wire = {}
    BY InitHolds DEF Init
  <2>2. sent \in SUBSET Turns /\ Returned = sent
    BY <2>1, Kinds DEF IInv, Returned
  <2>3. [t \in Turns |-> RecordedBefore(t)] \in [Turns -> SUBSET Turns]
    BY DEF RecordedBefore, EndedBy
  <2> QED BY <2>2, <2>3 DEF Order!Init
<1>2. IInv /\ IInv' /\ [Next]_vars => [Order!Next]_(Order!vars)
  <2> SUFFICES ASSUME IInv, IInv', [Next]_vars
               PROVE  [Order!Next]_(Order!vars)
    OBVIOUS
  <2> DEFINE P == [t \in Turns |-> RecordedBefore(t)]
  <2>1. recorded' = recorded
    BY DEF Next, Step, Done, SubmitDue, Issue, Refuse, ReturnOfChild, ReturnOfRoot, EndPressure, Handover,
           vars, traceVars
  <2>2. P' = P
    <3>1. \A t : RecordedBefore(t)' = RecordedBefore(t)
      BY <2>1, SameRecord
    <3> QED BY <3>1
  <2>3. ASSUME sent' = sent, Returned' = Returned
        PROVE  [Order!Next]_(Order!vars)
    BY <2>2, <2>3 DEF Order!vars
  <2>4. ASSUME NEW t \in Turns, SubmitDue(t)
        PROVE  [Order!Next]_(Order!vars)
    <3>1. Returned' = Returned /\ sent' = sent
      BY <2>4, DueSteps DEF SubmitDue
    <3> QED BY <2>3, <3>1
  <2>5. ASSUME NEW t \in Turns, Issue(t)
        PROVE  [Order!Next]_(Order!vars)
    <3>1. t \in issuing /\ sent' = sent \cup {t} /\ Returned' = Returned
      BY <2>5, Issued
    <3>2. t \notin sent /\ RecordedBefore(t) \subseteq Returned
      BY <3>1, Apart, HasItsTurn
    <3>3. Order!Send(t)
      BY <2>2, <3>1, <3>2 DEF Order!Send
    <3> QED BY <3>3 DEF Order!Next
  <2>6. ASSUME NEW t \in Turns, t \in wire, wire' = wire \ {t}, sent' = sent
        PROVE  [Order!Next]_(Order!vars)
    <3>1. Returned' = Returned \cup {t} /\ t \notin Returned
      BY <2>6, Arrives
    <3>2. t \in sent
      BY <2>6, Apart
    <3>3. Order!Return(t)
      BY <2>2, <2>6, <3>1, <3>2 DEF Order!Return
    <3> QED BY <3>3 DEF Order!Next
  <2>7. ASSUME NEW t \in Turns, ReturnOfChild(t) \/ ReturnOfRoot(t)
        PROVE  [Order!Next]_(Order!vars)
    <3>1. t \in wire /\ wire' = wire \ {t} /\ sent' = sent
      BY <2>7 DEF ReturnOfChild, ReturnOfRoot
    <3> QED BY <2>6, <3>1
  <2>11. ASSUME NEW t \in Turns, Refuse(t)
        PROVE  [Order!Next]_(Order!vars)
    <3>1. Returned' = Returned /\ sent' = sent
      BY <2>11, Refused
    <3> QED BY <2>3, <3>1
  <2>8. CASE EndPressure
    <3>1. Returned' = Returned /\ sent' = sent
      BY <2>8, EndSteps DEF EndPressure, turnVars
    <3> QED BY <2>3, <3>1
  <2>9. CASE Handover
    <3>1. Returned' = Returned /\ sent' = sent
      BY <2>9, HandoverSteps
    <3> QED BY <2>3, <3>1
  <2>10. CASE UNCHANGED vars
    <3>1. Returned' = Returned /\ sent' = sent
      BY <2>10, Stutters DEF vars, turnVars
    <3> QED BY <2>3, <3>1
  <2> QED BY <2>4, <2>5, <2>7, <2>8, <2>9, <2>10, <2>11 DEF Next, Step, Done
<1>3. Spec => []IInv
  BY Invariance
<1> QED BY <1>1, <1>2, <1>3, PTL DEF Spec, ImplementsOrder, Order!Spec

\* Every stream that was started, is not finished and is not lost has exactly one
\* turn under way, the first that has not returned; only a root that waits for a
\* child has none, and a noted stream whose turn was refused in the drain.  And the
\* end of the pressure stage loses no stream that has returned a turn in it, except
\* a root that waits for a lost subagent (ReplayBarrierCoordinator,
\* observe_credit_return, _build_handoff_states, child_stopped).
THEOREM StreamsAreKept == Spec => []StreamsKept
<1>1. Init => IInv /\ NobodyLost
  BY InitHolds
<1>2. IInv /\ NobodyLost /\ [Next]_vars => IInv' /\ NobodyLost'
  BY Steps, StepsLoseNobody
<1>3. IInv /\ NobodyLost => StreamsKept
  BY OneEach DEF StreamsKept
<1> QED BY <1>1, <1>2, <1>3, PTL DEF Spec
===============================================================================
