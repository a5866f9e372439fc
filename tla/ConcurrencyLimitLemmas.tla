------------------------ MODULE ConcurrencyLimitLemmas ------------------------
(***************************************************************************)
(* What the operations of ConcurrencyLimit do to a limit, whoever uses it: *)
(* to its slots, and to the queue that the woken and the parked tasks form *)
(* in that order.  Waking tasks moves the border between the two without   *)
(* changing the queue.                                                     *)
(***************************************************************************)
EXTENDS ConcurrencyLimit, SequenceTheorems, TLAPS

\* Limits whose queues hold elements of T.
LimitsOf(T) == [value : Nat, waiting : Seq(T), woken : Seq(T), limit : Nat, debt : Nat]

Queue(l) == l.woken \o l.waiting

Distinct(s) == \A i, j \in 1..Len(s) : s[i] = s[j] => i = j
Avoids(s, S) == \A i \in 1..Len(s) : s[i] \notin S

-------------------------------------------------------------------------------
\* What waking does to a limit: slots move from free to woken one for one, the
\* queue stays, and either the slots or the waiters or the count n run out.
LEMMA WakeMovesBorder ==
  ASSUME NEW T, NEW l \in LimitsOf(T), NEW n \in Nat
  PROVE  /\ Wake(l, n) \in LimitsOf(T)
         /\ Wake(l, n).limit = l.limit /\ Wake(l, n).debt = l.debt
         /\ Wake(l, n).value + Len(Wake(l, n).woken) = l.value + Len(l.woken)
         /\ Queue(Wake(l, n)) = Queue(l)
         /\ \/ Wake(l, n).value = 0
            \/ Wake(l, n).waiting = <<>>
            \/ Len(Wake(l, n).woken) = Len(l.woken) + n
         /\ Len(Wake(l, n).woken) >= Len(l.woken)
<1> DEFINE k == Smaller(n, Smaller(l.value, Len(l.waiting)))
           w == Wake(l, n)
<1>1. /\ l.value \in Nat /\ l.waiting \in Seq(T) /\ l.woken \in Seq(T)
      /\ l.limit \in Nat /\ l.debt \in Nat
  BY DEF LimitsOf
<1>2. Len(l.waiting) \in Nat /\ Len(l.woken) \in Nat
  BY <1>1
<1>3. k \in Nat /\ k <= n /\ k <= l.value /\ k <= Len(l.waiting)
      /\ (k = n \/ k = l.value \/ k = Len(l.waiting))
  BY <1>1, <1>2 DEF Smaller
<1>4. w = [value |-> l.value - k,
           waiting |-> SubSeq(l.waiting, k + 1, Len(l.waiting)),
           woken |-> l.woken \o SubSeq(l.waiting, 1, k),
           limit |-> l.limit, debt |-> l.debt]
  <2>1. l = [value |-> l.value, waiting |-> l.waiting, woken |-> l.woken,
             limit |-> l.limit, debt |-> l.debt]
    BY DEF LimitsOf
  <2>2. w = [l EXCEPT !.value   = l.value - k,
                      !.waiting = SubSeq(l.waiting, k + 1, Len(l.waiting)),
                      !.woken   = l.woken \o SubSeq(l.waiting, 1, k)]
    BY <2>1, Zenon DEF Wake
  <2> HIDE DEF k, w
  <2> QED BY <2>1, <2>2
<1> HIDE DEF k, w
<1> DEFINE lw == Len(l.woken) lp == Len(l.waiting) ww == Len(w.woken)
<1>40. /\ w.value = l.value - k /\ w.limit = l.limit /\ w.debt = l.debt
       /\ w.waiting = SubSeq(l.waiting, k + 1, Len(l.waiting))
       /\ w.woken = l.woken \o SubSeq(l.waiting, 1, k)
  BY <1>4
<1>5. \A i \in 1..Len(l.waiting) : l.waiting[i] \in T
  BY <1>1, ElementOfSeq
<1>6. /\ SubSeq(l.waiting, 1, k) \in Seq(T)
      /\ Len(SubSeq(l.waiting, 1, k)) = k
  <2>1. \A i \in 1..k : l.waiting[i] \in T
    BY <1>2, <1>3, <1>5
  <2> QED BY <2>1, <1>3, SubSeqProperties
<1>7. /\ SubSeq(l.waiting, k + 1, Len(l.waiting)) \in Seq(T)
      /\ Len(SubSeq(l.waiting, k + 1, Len(l.waiting))) = Len(l.waiting) - k
  <2>1. \A i \in (k + 1)..Len(l.waiting) : l.waiting[i] \in T
    BY <1>2, <1>3, <1>5
  <2> QED BY <2>1, <1>2, <1>3, SubSeqProperties
<1>8. /\ w.woken \in Seq(T)
      /\ Len(w.woken) = Len(l.woken) + k
  BY <1>1, <1>4, <1>6, ConcatProperties
<1>9. Queue(w) = Queue(l)
  <2>1. SubSeq(l.waiting, 1, k) \o SubSeq(l.waiting, k + 1, Len(l.waiting))
          = SubSeq(l.waiting, 1, Len(l.waiting))
    <3>1. /\ 1 \in 1..(Len(l.waiting) + 1)
          /\ k \in (1 - 1)..Len(l.waiting)
          /\ Len(l.waiting) \in k..Len(l.waiting)
      BY <1>2, <1>3
    <3> QED BY <1>1, <3>1, ConcatAdjacentSubSeq, Zenon
  <2>2. SubSeq(l.waiting, 1, Len(l.waiting)) = l.waiting
    BY <1>1, SubSeqFull
  <2>3. (l.woken \o SubSeq(l.waiting, 1, k))
           \o SubSeq(l.waiting, k + 1, Len(l.waiting))
          = l.woken \o (SubSeq(l.waiting, 1, k)
                          \o SubSeq(l.waiting, k + 1, Len(l.waiting)))
    <3>1. \A a, b, c \in Seq(T) : (a \o b) \o c = a \o (b \o c)
      BY ConcatAssociative
    <3>2. /\ l.woken \in Seq(T) /\ SubSeq(l.waiting, 1, k) \in Seq(T)
          /\ SubSeq(l.waiting, k + 1, Len(l.waiting)) \in Seq(T)
      BY <1>1, <1>6, <1>7
    <3> HIDE DEF k
    <3> QED BY <3>1, <3>2, Zenon
  <2>4. Queue(w) = l.woken \o (SubSeq(l.waiting, 1, k)
                                \o SubSeq(l.waiting, k + 1, Len(l.waiting)))
    BY <1>40, <2>3, Zenon DEF Queue
  <2> QED BY <2>1, <2>2, <2>4, Zenon DEF Queue
<1>10. w \in LimitsOf(T)
  <2>1. /\ l.value - k \in Nat
        /\ l.woken \o SubSeq(l.waiting, 1, k) \in Seq(T)
    BY <1>1, <1>3, <1>4, <1>8
  <2> QED BY <1>1, <1>4, <1>7, <2>1 DEF LimitsOf
<1>11. w.value = 0 \/ w.waiting = <<>> \/ Len(w.woken) = Len(l.woken) + n
  <2>1. w.value = l.value - k /\ w.waiting \in Seq(T)
        /\ Len(w.waiting) = Len(l.waiting) - k
    BY <1>40, <1>7
  <2>2. Len(w.waiting) = 0 => w.waiting = <<>>
    BY <2>1, EmptySeq
  <2>3. w.value = 0 \/ Len(w.waiting) = 0 \/ ww = lw + n
    <3>1. /\ w.value = l.value - k /\ l.value \in Nat
          /\ ww = lw + k /\ lw \in Nat
          /\ Len(w.waiting) = lp - k /\ lp \in Nat
          /\ k = n \/ k = l.value \/ k = lp
      BY <1>1, <1>2, <1>3, <1>8, <2>1
    <3> HIDE DEF lw, lp, ww
    <3> QED BY <3>1, <1>3
  <2> QED BY <2>2, <2>3
<1>12. /\ w.limit = l.limit /\ w.debt = l.debt
       /\ w.value + Len(w.woken) = l.value + Len(l.woken)
       /\ Len(w.woken) >= Len(l.woken)
  <2>1. w.value + ww = l.value + lw /\ ww >= lw
    <3>1. w.value = l.value - k /\ l.value \in Nat
      BY <1>1, <1>40
    <3>2. ww = lw + k /\ lw \in Nat
      BY <1>2, <1>8
    <3> HIDE DEF lw, ww
    <3> QED BY <3>1, <3>2, <1>3
  <2> QED BY <1>40, <2>1
<1> QED BY <1>9, <1>10, <1>11, <1>12 DEF w

\* A sequence that reads another at increasing places, each place at most once,
\* has no repetition and no forbidden element that the other has not.
LEMMA Embedding ==
  ASSUME NEW S, NEW s \in Seq(S), NEW q \in Seq(S), NEW H,
         NEW f \in [1..Len(q) -> 1..Len(s)],
         \A i, j \in 1..Len(q) : f[i] = f[j] => i = j,
         \A i \in 1..Len(q) : q[i] = s[f[i]]
  PROVE  /\ Distinct(s) => Distinct(q)
         /\ Avoids(s, H) => Avoids(q, H)
<1>1. \A i \in 1..Len(q) : f[i] \in 1..Len(s)
  OBVIOUS
<1>2. ASSUME Distinct(s), NEW i \in 1..Len(q), NEW j \in 1..Len(q), q[i] = q[j]
      PROVE  i = j
  <2>1. s[f[i]] = s[f[j]]
    BY <1>2
  <2>2. f[i] = f[j]
    BY <1>1, <1>2, <2>1 DEF Distinct
  <2> QED BY <2>2
<1>3. ASSUME Avoids(s, H), NEW i \in 1..Len(q)
      PROVE  q[i] \notin H
  BY <1>1, <1>3 DEF Avoids
<1> QED BY <1>2, <1>3 DEF Distinct, Avoids

\* What taking the element at place i out of a sequence leaves.
LEMMA DropFacts ==
  ASSUME NEW S, NEW s \in Seq(S), NEW i \in 1..Len(s)
  PROVE  /\ DropAt(s, i) \in Seq(S)
         /\ Len(DropAt(s, i)) = Len(s) - 1
         /\ \A j \in 1..(Len(s) - 1) :
              DropAt(s, i)[j] = IF j < i THEN s[j] ELSE s[j + 1]
<1> DEFINE a == SubSeq(s, 1, i - 1)
           b == SubSeq(s, i + 1, Len(s))
<1>1. Len(s) \in Nat /\ i \in Nat /\ 1 <= i /\ i <= Len(s)
  OBVIOUS
<1>2. \A j \in 1..Len(s) : s[j] \in S
  BY ElementOfSeq
<1>3. /\ a \in Seq(S) /\ Len(a) = i - 1
      /\ \A j \in 1..(i - 1) : a[j] = s[j]
  <2>1. \A j \in 1..(i - 1) : s[j] \in S
    BY <1>1, <1>2
  <2>2. /\ a \in Seq(S) /\ Len(a) = IF 1 <= i - 1 THEN (i - 1) - 1 + 1 ELSE 0
        /\ \A j \in 1..((i - 1) - 1 + 1) : a[j] = s[1 + j - 1]
    BY <2>1, <1>1, SubSeqProperties
  <2> QED BY <1>1, <2>2
<1>4. /\ b \in Seq(S) /\ Len(b) = Len(s) - i
      /\ \A j \in 1..(Len(s) - i) : b[j] = s[i + j]
  <2>1. \A j \in (i + 1)..Len(s) : s[j] \in S
    BY <1>1, <1>2
  <2>2. /\ b \in Seq(S)
        /\ Len(b) = IF i + 1 <= Len(s) THEN Len(s) - (i + 1) + 1 ELSE 0
        /\ \A j \in 1..(Len(s) - (i + 1) + 1) : b[j] = s[i + 1 + j - 1]
    BY <2>1, <1>1, SubSeqProperties
  <2> QED BY <1>1, <2>2
<1> HIDE DEF a, b
<1>5. /\ a \o b \in Seq(S) /\ Len(a \o b) = Len(a) + Len(b)
      /\ \A j \in 1..(Len(a) + Len(b)) :
           (a \o b)[j] = IF j <= Len(a) THEN a[j] ELSE b[j - Len(a)]
  BY <1>3, <1>4, ConcatProperties
<1>6. Len(a) + Len(b) = Len(s) - 1
  BY <1>1, <1>3, <1>4
<1>7. ASSUME NEW j \in 1..(Len(s) - 1)
      PROVE  (a \o b)[j] = IF j < i THEN s[j] ELSE s[j + 1]
  <2>1. CASE j < i
    <3>1. j \in 1..(i - 1) /\ j <= Len(a) /\ j \in 1..(Len(a) + Len(b))
      BY <1>1, <1>3, <1>6, <2>1
    <3> QED BY <1>3, <1>5, <2>1, <3>1
  <2>2. CASE ~(j < i)
    <3>1. /\ j \in 1..(Len(a) + Len(b)) /\ ~(j <= Len(a))
          /\ j - Len(a) \in 1..(Len(s) - i) /\ i + (j - Len(a)) = j + 1
      BY <1>1, <1>3, <1>6, <2>2
    <3> QED BY <1>4, <1>5, <2>2, <3>1
  <2> QED BY <2>1, <2>2
<1> QED BY <1>5, <1>6, <1>7 DEF DropAt, a, b

\* So taking an element out keeps a sequence free of repetitions.
LEMMA DropKeeps ==
  ASSUME NEW S, NEW s \in Seq(S), NEW i \in 1..Len(s), NEW H
  PROVE  /\ Distinct(s) => Distinct(DropAt(s, i))
         /\ Avoids(s, H) => Avoids(DropAt(s, i), H)
<1> DEFINE q == DropAt(s, i)
           f == [j \in 1..Len(q) |-> IF j < i THEN j ELSE j + 1]
<1>1. /\ q \in Seq(S) /\ Len(q) = Len(s) - 1
      /\ \A j \in 1..(Len(s) - 1) : q[j] = IF j < i THEN s[j] ELSE s[j + 1]
  BY DropFacts, Zenon
<1> HIDE DEF q
<1>2. f \in [1..Len(q) -> 1..Len(s)]
  BY <1>1
<1>3. \A j, k \in 1..Len(q) : f[j] = f[k] => j = k
  BY <1>1
<1>4. \A j \in 1..Len(q) : q[j] = s[f[j]]
  BY <1>1
<1> HIDE DEF f
<1> QED BY <1>1, <1>2, <1>3, <1>4, Embedding DEF q

\* Taking an element out of either half of a concatenation.
LEMMA DropRight ==
  ASSUME NEW S, NEW a \in Seq(S), NEW b \in Seq(S), NEW i \in 1..Len(b)
  PROVE  /\ Len(a) + i \in 1..Len(a \o b)
         /\ a \o DropAt(b, i) = DropAt(a \o b, Len(a) + i)
<1> DEFINE c == a \o b
           d == DropAt(b, i)
           m == Len(a)
           n == Len(b)
<1>1. m \in Nat /\ n \in Nat /\ i \in 1..n
  OBVIOUS
<1>2. /\ c \in Seq(S) /\ Len(c) = m + n
      /\ \A j \in 1..(m + n) : c[j] = IF j <= m THEN a[j] ELSE b[j - m]
  BY ConcatProperties, Zenon
<1>3. /\ d \in Seq(S) /\ Len(d) = n - 1
      /\ \A j \in 1..(n - 1) : d[j] = IF j < i THEN b[j] ELSE b[j + 1]
  BY DropFacts, Zenon
<1> HIDE DEF c, d
<1>4. /\ a \o d \in Seq(S) /\ Len(a \o d) = m + Len(d)
      /\ \A j \in 1..(m + Len(d)) : (a \o d)[j] = IF j <= m THEN a[j] ELSE d[j - m]
  BY <1>3, ConcatProperties, Zenon
<1> HIDE DEF m, n
<1>5. m + i \in 1..Len(c)
  BY <1>1, <1>2
<1>6. /\ DropAt(c, m + i) \in Seq(S) /\ Len(DropAt(c, m + i)) = Len(c) - 1
      /\ \A j \in 1..(Len(c) - 1) :
           DropAt(c, m + i)[j] = IF j < m + i THEN c[j] ELSE c[j + 1]
  BY <1>2, <1>5, DropFacts, Zenon
<1>7. Len(a \o d) = Len(DropAt(c, m + i))
  <2>1. Len(a \o d) = m + Len(d) /\ Len(d) = n - 1
    BY <1>3, <1>4, Zenon
  <2>2. Len(DropAt(c, m + i)) = Len(c) - 1 /\ Len(c) = m + n
    BY <1>2, <1>6, Zenon
  <2> QED BY <1>1, <2>1, <2>2
<1>8. ASSUME NEW j \in 1..Len(a \o d)
      PROVE  (a \o d)[j] = DropAt(c, m + i)[j]
  <2>1. j \in 1..(m + n - 1) /\ j \in 1..(m + Len(d)) /\ j \in 1..(Len(c) - 1)
    BY <1>1, <1>2, <1>3, <1>4
  <2>2. CASE j <= m
    <3>1. j < m + i /\ j \in 1..(m + n)
      BY <1>1, <2>1, <2>2
    <3> QED BY <1>2, <1>4, <1>6, <2>1, <2>2, <3>1
  <2>3. CASE j > m /\ j < m + i
    <3>1. j - m \in 1..(n - 1) /\ j - m < i /\ j \in 1..(m + n) /\ ~(j <= m)
      BY <1>1, <2>1, <2>3
    <3> QED BY <1>2, <1>3, <1>4, <1>6, <2>1, <2>3, <3>1
  <2>4. CASE j > m /\ ~(j < m + i)
    <3>1. /\ j - m \in 1..(n - 1) /\ ~(j - m < i) /\ j + 1 \in 1..(m + n)
          /\ ~(j <= m) /\ ~(j + 1 <= m) /\ (j - m) + 1 = (j + 1) - m
      BY <1>1, <2>1, <2>4
    <3>2. (a \o d)[j] = d[j - m] /\ d[j - m] = b[(j - m) + 1]
      BY <1>3, <1>4, <2>1, <2>4, <3>1
    <3>3. DropAt(c, m + i)[j] = c[j + 1] /\ c[j + 1] = b[(j + 1) - m]
      BY <1>2, <1>6, <2>1, <2>4, <3>1
    <3> QED BY <3>1, <3>2, <3>3
  <2> QED BY <1>1, <2>1, <2>2, <2>3, <2>4
<1>9. a \o d = DropAt(c, m + i)
  BY <1>4, <1>6, <1>7, <1>8, SeqEqual, Zenon
<1> QED BY <1>5, <1>9 DEF c, d, m

\* Taking an element out of the first of two queues takes it out of both joined.
LEMMA DropLeft ==
  ASSUME NEW S, NEW a \in Seq(S), NEW b \in Seq(S), NEW i \in 1..Len(a)
  PROVE  /\ i \in 1..Len(a \o b)
         /\ DropAt(a, i) \o b = DropAt(a \o b, i)
<1> DEFINE c == a \o b
           d == DropAt(a, i)
           m == Len(a)
           n == Len(b)
<1>1. m \in Nat /\ n \in Nat /\ i \in 1..m
  OBVIOUS
<1>2. /\ c \in Seq(S) /\ Len(c) = m + n
      /\ \A j \in 1..(m + n) : c[j] = IF j <= m THEN a[j] ELSE b[j - m]
  BY ConcatProperties, Zenon
<1>3. /\ d \in Seq(S) /\ Len(d) = m - 1
      /\ \A j \in 1..(m - 1) : d[j] = IF j < i THEN a[j] ELSE a[j + 1]
  BY DropFacts, Zenon
<1> HIDE DEF c, d
<1>4. /\ d \o b \in Seq(S) /\ Len(d \o b) = Len(d) + n
      /\ \A j \in 1..(Len(d) + n) :
           (d \o b)[j] = IF j <= Len(d) THEN d[j] ELSE b[j - Len(d)]
  BY <1>3, ConcatProperties, Zenon
<1> HIDE DEF m, n
<1>5. i \in 1..Len(c)
  BY <1>1, <1>2
<1>6. /\ DropAt(c, i) \in Seq(S) /\ Len(DropAt(c, i)) = Len(c) - 1
      /\ \A j \in 1..(Len(c) - 1) : DropAt(c, i)[j] = IF j < i THEN c[j] ELSE c[j + 1]
  BY <1>2, <1>5, DropFacts, Zenon
<1>7. Len(d \o b) = Len(DropAt(c, i))
  <2>1. Len(d \o b) = Len(d) + n /\ Len(d) = m - 1
    BY <1>3, <1>4, Zenon
  <2>2. Len(DropAt(c, i)) = Len(c) - 1 /\ Len(c) = m + n
    BY <1>2, <1>6, Zenon
  <2> QED BY <1>1, <2>1, <2>2
<1>8. ASSUME NEW j \in 1..Len(d \o b)
      PROVE  (d \o b)[j] = DropAt(c, i)[j]
  <2>1. j \in 1..(m + n - 1) /\ j \in 1..(Len(d) + n) /\ j \in 1..(Len(c) - 1)
    BY <1>1, <1>2, <1>3, <1>4
  <2>2. CASE j < i
    <3>1. j <= Len(d) /\ j \in 1..(m - 1) /\ j \in 1..(m + n) /\ j <= m
      BY <1>1, <1>3, <2>1, <2>2
    <3> QED BY <1>2, <1>3, <1>4, <1>6, <2>1, <2>2, <3>1
  <2>3. CASE ~(j < i) /\ j <= m - 1
    <3>1. j <= Len(d) /\ j \in 1..(m - 1) /\ j + 1 \in 1..(m + n) /\ j + 1 <= m
      BY <1>1, <1>3, <2>1, <2>3
    <3> QED BY <1>2, <1>3, <1>4, <1>6, <2>1, <2>3, <3>1
  <2>4. CASE j > m - 1
    <3>1. /\ ~(j <= Len(d)) /\ ~(j < i) /\ j + 1 \in 1..(m + n) /\ ~(j + 1 <= m)
          /\ j - Len(d) = (j + 1) - m
      BY <1>1, <1>3, <2>1, <2>4
    <3> QED BY <1>2, <1>4, <1>6, <2>1, <2>4, <3>1
  <2> QED BY <1>1, <2>1, <2>2, <2>3, <2>4
<1>9. d \o b = DropAt(c, i)
  BY <1>4, <1>6, <1>7, <1>8, SeqEqual, Zenon
<1> QED BY <1>5, <1>9 DEF c, d

-------------------------------------------------------------------------------
(***************************************************************************)
(* The same for a limit that nobody changes: it has no debt, and what is   *)
(* neither free nor handed over is taken.  The tasks in its queue are all  *)
(* in S, each once.                                                        *)
(***************************************************************************)
Orderly(l, T, N, S) ==
  /\ l \in LimitsOf(T)
  /\ l.debt = 0 /\ l.limit = N
  /\ Distinct(Queue(l))
  /\ \A i \in 1..Len(Queue(l)) : Queue(l)[i] \in S

Taken(l) == l.limit - l.value - Len(l.woken)

\* m is the limit l with other slots and queues.
Becomes(m, l, T, value, woken, waiting) ==
  /\ m \in LimitsOf(T)
  /\ m.value = value /\ m.woken = woken /\ m.waiting = waiting
  /\ m.limit = l.limit /\ m.debt = l.debt

\* The parts of a limit and what their types say of the queue and the slots.
LEMMA LimitFields ==
  ASSUME NEW T, NEW l \in LimitsOf(T)
  PROVE  /\ l.value \in Nat /\ l.limit \in Nat /\ l.debt \in Nat
         /\ l.woken \in Seq(T) /\ Len(l.woken) \in Nat
         /\ l.waiting \in Seq(T) /\ Len(l.waiting) \in Nat
         /\ Queue(l) \in Seq(T) /\ Len(Queue(l)) \in Nat
         /\ Taken(l) \in Int /\ Taken(l) <= l.limit
         /\ Queue(l) = <<>> => l.woken = <<>> /\ l.waiting = <<>>
<1>1. /\ l.value \in Nat /\ l.limit \in Nat /\ l.debt \in Nat
      /\ l.woken \in Seq(T) /\ l.waiting \in Seq(T)
  BY DEF LimitsOf
<1>2. Len(l.woken) \in Nat /\ Len(l.waiting) \in Nat
  BY <1>1
<1>3. /\ Queue(l) \in Seq(T)
      /\ Len(Queue(l)) = Len(l.woken) + Len(l.waiting)
  BY <1>1, ConcatProperties DEF Queue
<1>4. Taken(l) \in Int /\ Taken(l) <= l.limit
  <2> DEFINE w == Len(l.woken) v == l.value n == l.limit
  <2>1. w \in Nat /\ v \in Nat /\ n \in Nat /\ Taken(l) = n - v - w
    BY <1>1, <1>2 DEF Taken
  <2> HIDE DEF w, v, n
  <2>2. Taken(l) \in Int /\ Taken(l) <= n
    BY <2>1
  <2> QED BY <2>2 DEF n
<1>5. Queue(l) = <<>> => l.woken = <<>> /\ l.waiting = <<>>
  <2>1. Queue(l) = <<>> => Len(l.woken) = 0 /\ Len(l.waiting) = 0
    <3> DEFINE a == Len(l.woken) b == Len(l.waiting) q == Len(Queue(l))
    <3>1. a \in Nat /\ b \in Nat /\ q = a + b /\ (Queue(l) = <<>> => q = 0)
      BY <1>2, <1>3, EmptySeq
    <3> HIDE DEF a, b, q
    <3>2. Queue(l) = <<>> => a = 0 /\ b = 0
      BY <3>1
    <3> QED BY <3>2 DEF a, b
  <2> QED BY <1>1, <2>1, EmptySeq
<1> QED BY <1>1, <1>2, <1>3, <1>4, <1>5, LenProperties

\* The updates the operations are made of, in one place.
LEMMA LimitUpdates ==
  ASSUME NEW T, NEW l \in LimitsOf(T)
  PROVE  /\ \A x \in Nat :
              Becomes([l EXCEPT !.value = x], l, T, x, l.woken, l.waiting)
         /\ \A x \in Seq(T) :
              Becomes([l EXCEPT !.waiting = x], l, T, l.value, l.woken, x)
         /\ \A x \in Seq(T) :
              Becomes([l EXCEPT !.woken = x], l, T, l.value, x, l.waiting)
<1>1. \A x \in Nat : Becomes([l EXCEPT !.value = x], l, T, x, l.woken, l.waiting)
  BY DEF LimitsOf, Becomes
<1>2. \A x \in Seq(T) : Becomes([l EXCEPT !.waiting = x], l, T, l.value, l.woken, x)
  BY DEF LimitsOf, Becomes
<1>3. \A x \in Seq(T) : Becomes([l EXCEPT !.woken = x], l, T, l.value, x, l.waiting)
  BY DEF LimitsOf, Becomes
<1> QED BY <1>1, <1>2, <1>3, Zenon

\* Waking takes nothing and moves nobody.
LEMMA WakeOrderly ==
  ASSUME NEW T, NEW N, NEW S, NEW l, Orderly(l, T, N, S), NEW n \in Nat
  PROVE  Orderly(Wake(l, n), T, N, S) /\ Taken(Wake(l, n)) = Taken(l)
<1> DEFINE w == Wake(l, n)
<1>1. l \in LimitsOf(T)
  BY DEF Orderly
<1>2. /\ w \in LimitsOf(T) /\ w.limit = l.limit /\ w.debt = l.debt
      /\ w.value + Len(w.woken) = l.value + Len(l.woken)
      /\ Queue(w) = Queue(l)
  BY <1>1, WakeMovesBorder, Zenon
<1> HIDE DEF w
<1>3. Taken(w) = Taken(l)
  <2> DEFINE a == Len(w.woken) b == Len(l.woken)
  <2>1. /\ a \in Nat /\ b \in Nat /\ w.value \in Nat /\ l.value \in Nat /\ l.limit \in Nat
        /\ w.value + a = l.value + b
        /\ Taken(w) = l.limit - w.value - a /\ Taken(l) = l.limit - l.value - b
    BY <1>1, <1>2, LimitFields DEF Taken
  <2> HIDE DEF a, b
  <2> QED BY <2>1
<1> QED BY <1>2, <1>3 DEF w, Orderly

\* A free slot is taken.
LEMMA TakeOrderly ==
  ASSUME NEW T, NEW N, NEW S, NEW l, Orderly(l, T, N, S), ~Locked(l)
  PROVE  Orderly(TakeSlot(l), T, N, S) /\ Taken(TakeSlot(l)) = Taken(l) + 1
<1> DEFINE p == TakeSlot(l)
<1>1. l \in LimitsOf(T)
  BY DEF Orderly
<1>2. l.value \in Nat /\ l.limit \in Nat /\ Len(l.woken) \in Nat
  BY <1>1, LimitFields
<1>3. l.value - 1 \in Nat
  BY <1>2 DEF Locked
<1>4. p = [l EXCEPT !.value = l.value - 1]
  BY Zenon DEF TakeSlot
<1>5. Becomes(p, l, T, l.value - 1, l.woken, l.waiting)
  BY <1>1, <1>3, <1>4, LimitUpdates, Zenon
<1> HIDE DEF p
<1>6. Queue(p) = Queue(l)
  BY <1>5 DEF Queue, Becomes
<1>7. Taken(p) = Taken(l) + 1
  <2> DEFINE w == Len(l.woken)
  <2>1. /\ Taken(p) = l.limit - (l.value - 1) - w
        /\ Taken(l) = l.limit - l.value - w /\ w \in Nat
    BY <1>2, <1>5 DEF Taken, Becomes
  <2> HIDE DEF w
  <2> QED BY <2>1, <1>2
<1> QED BY <1>5, <1>6, <1>7 DEF Orderly, Becomes, p

\* A task that is not in the queue parks at its end.
LEMMA ParkOrderly ==
  ASSUME NEW T, NEW N, NEW S, NEW l, Orderly(l, T, N, S), NEW t \in T, t \notin S
  PROVE  Orderly(Park(l, t), T, N, S \cup {t}) /\ Taken(Park(l, t)) = Taken(l)
<1> DEFINE p == Park(l, t)
           q == Append(l.waiting, t)
<1>1. l \in LimitsOf(T)
  BY DEF Orderly
<1>2. /\ l.woken \in Seq(T) /\ l.waiting \in Seq(T)
      /\ Queue(l) \in Seq(T) /\ Len(Queue(l)) \in Nat
  BY <1>1, LimitFields
<1>3. q \in Seq(T)
  BY <1>2, AppendProperties
<1>4. p = [l EXCEPT !.waiting = q]
  BY Zenon DEF Park
<1> HIDE DEF p, q
<1>5. Becomes(p, l, T, l.value, l.woken, q)
  BY <1>1, <1>3, <1>4, LimitUpdates, Zenon
<1>6. Queue(p) = Append(Queue(l), t)
  <2>1. q = l.waiting \o <<t>> /\ Append(Queue(l), t) = Queue(l) \o <<t>>
    BY <1>2, AppendIsConcat DEF q
  <2>2. <<t>> \in Seq(T)
    OBVIOUS
  <2>3. l.woken \in Seq(T) /\ l.waiting \in Seq(T)
    BY <1>2
  <2>4. (l.woken \o l.waiting) \o <<t>> = l.woken \o (l.waiting \o <<t>>)
    <3>1. \A a, b, c \in Seq(T) : (a \o b) \o c = a \o (b \o c)
      BY ConcatAssociative
    <3> QED BY <2>2, <2>3, <3>1, Zenon
  <2>5. Queue(p) = l.woken \o q
    BY <1>5 DEF Queue, Becomes
  <2> QED BY <2>1, <2>4, <2>5, Zenon DEF Queue
<1>7. /\ Len(Queue(p)) = Len(Queue(l)) + 1
      /\ \A i \in 1..Len(Queue(l)) : Queue(p)[i] = Queue(l)[i]
      /\ Queue(p)[Len(Queue(l)) + 1] = t
  BY <1>2, <1>6, AppendProperties
<1>8. \A i \in 1..Len(Queue(l)) : Queue(l)[i] \in S
  BY DEF Orderly
<1> DEFINE n == Len(Queue(l))
<1>9. \A i \in 1..Len(Queue(p)) : i \in 1..n \/ i = n + 1
  <2>1. n \in Nat /\ Len(Queue(p)) = n + 1
    BY <1>2, <1>7
  <2> HIDE DEF n
  <2> QED BY <2>1
<1>10. \A i \in 1..Len(Queue(p)) : Queue(p)[i] \in S \cup {t}
  BY <1>7, <1>8, <1>9
<1>11. Distinct(Queue(p))
  <2> SUFFICES ASSUME NEW i \in 1..Len(Queue(p)), NEW j \in 1..Len(Queue(p)),
                      Queue(p)[i] = Queue(p)[j]
               PROVE  i = j
    BY DEF Distinct
  <2>1. CASE i \in 1..n /\ j \in 1..n
    BY <2>1, <1>7 DEF Orderly, Distinct
  <2>2. CASE i = n + 1 /\ j \in 1..n
    BY <2>2, <1>7, <1>8
  <2>3. CASE i \in 1..n /\ j = n + 1
    BY <2>3, <1>7, <1>8
  <2> QED BY <2>1, <2>2, <2>3, <1>9
<1>12. Taken(p) = Taken(l)
  BY <1>5 DEF Taken, Becomes
<1> QED BY <1>5, <1>10, <1>11, <1>12 DEF Orderly, Becomes, p

\* The oldest woken task leaves the queue: it has taken its slot.
LEMMA ResumeOrderly ==
  ASSUME NEW T, NEW N, NEW S, NEW l, Orderly(l, T, N, S), l.woken # <<>>
  PROVE  /\ Head(l.woken) \in T \cap S
         /\ Orderly(Resume(l), T, N, S \ {Head(l.woken)})
         /\ Taken(Resume(l)) = Taken(l) + 1
<1> DEFINE t == Head(l.woken)
           q == DropAt(l.woken, 1)
           p == [l EXCEPT !.woken = q]
<1>1. l \in LimitsOf(T)
  BY DEF Orderly
<1>2. /\ l.value \in Nat /\ l.limit \in Nat
      /\ l.woken \in Seq(T) /\ l.waiting \in Seq(T) /\ Len(l.woken) \in Nat
      /\ Queue(l) \in Seq(T) /\ Len(Queue(l)) \in Nat
  BY <1>1, LimitFields
<1>3. /\ t \in T /\ t = l.woken[1] /\ 1 \in 1..Len(l.woken)
      /\ Tail(l.woken) = q
  <2>1. t \in T /\ t = l.woken[1] /\ 1 \in 1..Len(l.woken)
    BY <1>2, EmptySeq
  <2>2. Tail(l.woken) \in Seq(T) /\ Tail(l.woken) = SubSeq(l.woken, 2, Len(l.woken))
    BY <1>2, HeadTailProperties, TailIsSubSeq
  <2>3. SubSeq(l.woken, 1, 0) = <<>>
    BY SubSeqEmpty
  <2>4. <<>> \o Tail(l.woken) = Tail(l.woken)
    BY <2>2, ConcatEmptySeq
  <2>5. DropAt(l.woken, 1) = SubSeq(l.woken, 1, 0) \o SubSeq(l.woken, 2, Len(l.woken))
    <3>1. 1 - 1 = 0 /\ 1 + 1 = 2
      OBVIOUS
    <3> QED BY <3>1 DEF DropAt
  <2> QED BY <2>1, <2>2, <2>3, <2>4, <2>5, Zenon
<1>4. q \in Seq(T) /\ Len(q) = Len(l.woken) - 1
  BY <1>2, <1>3, DropFacts, Zenon
<1>5. Resume(l) = Wake(p, l.value)
  BY <1>3, Zenon DEF Resume
<1>6. q \o l.waiting = DropAt(Queue(l), 1) /\ 1 \in 1..Len(Queue(l))
  BY <1>2, <1>3, DropLeft, Zenon DEF Queue
<1>7. /\ Len(Queue(l)) = Len(l.woken) + Len(l.waiting)
      /\ Queue(l)[1] = t
  <2>1. /\ Len(l.woken \o l.waiting) = Len(l.woken) + Len(l.waiting)
        /\ \A j \in 1..(Len(l.woken) + Len(l.waiting)) :
             (l.woken \o l.waiting)[j]
               = IF j <= Len(l.woken) THEN l.woken[j] ELSE l.waiting[j - Len(l.woken)]
    BY <1>2, ConcatProperties, Zenon
  <2>2. 1 \in 1..(Len(l.woken) + Len(l.waiting)) /\ 1 <= Len(l.woken)
    <3> DEFINE a == Len(l.woken) b == Len(l.waiting)
    <3>1. a \in Nat /\ b \in Nat /\ 1 \in 1..a
      BY <1>1, <1>3, LimitFields
    <3> HIDE DEF a, b
    <3>2. 1 \in 1..(a + b) /\ 1 <= a
      BY <3>1
    <3> QED BY <3>2 DEF a, b
  <2> QED BY <1>3, <2>1, <2>2 DEF Queue
<1> HIDE DEF q
<1>8. Becomes(p, l, T, l.value, q, l.waiting)
  BY <1>1, <1>4, LimitUpdates, Zenon
<1> HIDE DEF p
<1>9. Queue(p) = DropAt(Queue(l), 1)
  BY <1>6, <1>8 DEF Queue, Becomes
<1>10. /\ Len(DropAt(Queue(l), 1)) = Len(Queue(l)) - 1
       /\ \A j \in 1..(Len(Queue(l)) - 1) :
            DropAt(Queue(l), 1)[j] = IF j < 1 THEN Queue(l)[j] ELSE Queue(l)[j + 1]
  BY <1>2, <1>6, DropFacts, Zenon
<1>11. ASSUME NEW j \in 1..Len(Queue(p))
       PROVE  Queue(p)[j] \in S \ {t}
  <2>1. /\ j \in 1..(Len(Queue(l)) - 1) /\ ~(j < 1)
        /\ j + 1 \in 1..Len(Queue(l)) /\ j + 1 # 1
    BY <1>2, <1>9, <1>10
  <2>2. Queue(p)[j] = Queue(l)[j + 1]
    BY <1>9, <1>10, <2>1
  <2>3. Queue(l)[j + 1] # Queue(l)[1]
    BY <1>6, <2>1 DEF Orderly, Distinct
  <2>4. Queue(l)[j + 1] \in S
    BY <2>1 DEF Orderly
  <2> QED BY <1>7, <2>2, <2>3, <2>4
<1>12. t \in S
  BY <1>6, <1>7 DEF Orderly
<1>13. Distinct(Queue(p))
  BY <1>2, <1>6, <1>9, DropKeeps DEF Orderly
<1>14. Orderly(p, T, N, S \ {t})
  BY <1>8, <1>11, <1>13 DEF Orderly, Becomes
<1>15. Taken(p) = Taken(l) + 1
  <2> DEFINE w == Len(l.woken)
  <2>1. /\ Taken(p) = l.limit - l.value - (w - 1)
        /\ Taken(l) = l.limit - l.value - w /\ w \in Nat
    BY <1>2, <1>4, <1>8 DEF Taken, Becomes
  <2> HIDE DEF w
  <2> QED BY <2>1, <1>2
<1>16. Orderly(Wake(p, l.value), T, N, S \ {t}) /\ Taken(Wake(p, l.value)) = Taken(p)
  BY <1>2, <1>14, WakeOrderly
<1> QED BY <1>3, <1>5, <1>12, <1>15, <1>16

\* n slots come back.
LEMMA SemaphoreReleaseOrderly ==
  ASSUME NEW T, NEW N, NEW S, NEW l, Orderly(l, T, N, S), NEW n \in Nat
  PROVE  /\ Orderly(SemaphoreRelease(l, n), T, N, S)
         /\ Taken(SemaphoreRelease(l, n)) = Taken(l) - n
<1> DEFINE p == [l EXCEPT !.value = l.value + n]
<1>1. l \in LimitsOf(T)
  BY DEF Orderly
<1>2. l.value \in Nat /\ l.value + n \in Nat /\ l.limit \in Nat /\ Len(l.woken) \in Nat
  BY <1>1, LimitFields
<1>3. SemaphoreRelease(l, n) = Wake(p, n)
  BY Zenon DEF SemaphoreRelease
<1>4. Becomes(p, l, T, l.value + n, l.woken, l.waiting)
  BY <1>1, <1>2, LimitUpdates, Zenon
<1> HIDE DEF p
<1>5. Orderly(p, T, N, S)
  BY <1>4 DEF Orderly, Becomes, Queue
<1>6. Taken(p) = Taken(l) - n
  <2> DEFINE w == Len(l.woken)
  <2>1. /\ Taken(p) = l.limit - (l.value + n) - w
        /\ Taken(l) = l.limit - l.value - w /\ w \in Nat
    BY <1>2, <1>4 DEF Taken, Becomes
  <2> HIDE DEF w
  <2> QED BY <2>1, <1>2
<1>7. Orderly(Wake(p, n), T, N, S) /\ Taken(Wake(p, n)) = Taken(p)
  BY <1>5, WakeOrderly
<1> QED BY <1>3, <1>6, <1>7

\* release() of a limit without debt gives one slot back.
LEMMA ReleaseOrderly ==
  ASSUME NEW T, NEW N, NEW S, NEW l, Orderly(l, T, N, S)
  PROVE  Orderly(Release(l), T, N, S) /\ Taken(Release(l)) = Taken(l) - 1
<1>1. Release(l) = SemaphoreRelease(l, 1)
  <2>1. ~(l.debt > 0)
    BY DEF Orderly
  <2> QED BY <2>1, Zenon DEF Release
<1>2. /\ Orderly(SemaphoreRelease(l, 1), T, N, S)
      /\ Taken(SemaphoreRelease(l, 1)) = Taken(l) - 1
  BY SemaphoreReleaseOrderly
<1> QED BY <1>1, <1>2

\* So do n of them, n slots.
LEMMA ReleaseManyOrderly ==
  ASSUME NEW T, NEW N, NEW S, NEW l, Orderly(l, T, N, S), NEW n \in Nat
  PROVE  Orderly(ReleaseMany(l, n), T, N, S) /\ Taken(ReleaseMany(l, n)) = Taken(l) - n
<1>1. l \in LimitsOf(T) /\ l.debt = 0
  BY DEF Orderly
<1>2. Smaller(n, l.debt) = 0
  BY <1>1 DEF Smaller
<1>3. [l EXCEPT !.debt = l.debt - 0] = l
  BY <1>1 DEF LimitsOf
<1>4. n - 0 = n
  OBVIOUS
<1>5. ReleaseMany(l, n) = SemaphoreRelease([l EXCEPT !.debt = l.debt - 0], n - 0)
  BY <1>2, Zenon DEF ReleaseMany
<1>6. ReleaseMany(l, n) = SemaphoreRelease(l, n)
  BY <1>3, <1>4, <1>5
<1>7. /\ Orderly(SemaphoreRelease(l, n), T, N, S)
      /\ Taken(SemaphoreRelease(l, n)) = Taken(l) - n
  BY SemaphoreReleaseOrderly
<1> QED BY <1>6, <1>7

\* Everybody in the queue is cancelled.
LEMMA CancelAllOrderly ==
  ASSUME NEW T, NEW N, NEW S, NEW l, Orderly(l, T, N, S)
  PROVE  Orderly(CancelAll(l), T, N, {}) /\ Taken(CancelAll(l)) = Taken(l)
<1> DEFINE v == l.value + Len(l.woken)
           a == [l EXCEPT !.value = v]
           b == [a EXCEPT !.waiting = <<>>]
           c == [b EXCEPT !.woken = <<>>]
<1>1. l \in LimitsOf(T)
  BY DEF Orderly
<1>2. l.value \in Nat /\ l.limit \in Nat /\ Len(l.woken) \in Nat /\ v \in Nat
  BY <1>1, LimitFields
<1>3. CancelAll(l) = c
  BY Zenon DEF CancelAll
<1>4. <<>> \in Seq(T) /\ Len(<<>>) = 0
  BY EmptySeq
<1> HIDE DEF v
<1>5. Becomes(a, l, T, v, l.woken, l.waiting)
  BY <1>1, <1>2, LimitUpdates, Zenon
<1> HIDE DEF a
<1>6. Becomes(b, a, T, a.value, a.woken, <<>>)
  <2>1. a \in LimitsOf(T)
    BY <1>5 DEF Becomes
  <2> QED BY <1>4, <2>1, LimitUpdates, Zenon
<1> HIDE DEF b
<1>7. Becomes(c, b, T, b.value, <<>>, b.waiting)
  <2>1. b \in LimitsOf(T)
    BY <1>6 DEF Becomes
  <2> QED BY <1>4, <2>1, LimitUpdates, Zenon
<1> HIDE DEF c
<1>8. Becomes(c, l, T, v, <<>>, <<>>)
  BY <1>5, <1>6, <1>7 DEF Becomes
<1>9. Queue(c) = <<>>
  BY <1>8, ConcatEmptySeq, <1>4 DEF Queue, Becomes
<1>10. \A i \in 1..Len(Queue(c)) : FALSE
  BY <1>4, <1>9
<1>11. Taken(c) = Taken(l)
  <2> DEFINE w == Len(l.woken)
  <2>1. /\ Taken(c) = l.limit - v - 0 /\ v = l.value + w
        /\ Taken(l) = l.limit - l.value - w /\ w \in Nat
    BY <1>2, <1>4, <1>8 DEF Taken, Becomes, v
  <2> HIDE DEF w
  <2> QED BY <2>1, <1>2
<1>12. Orderly(c, T, N, {})
  BY <1>8, <1>10 DEF Orderly, Becomes, Distinct
<1> QED BY <1>3, <1>11, <1>12

\* A task leaves the queue, which keeps its order.
LEMMA LeaveOrderly ==
  ASSUME NEW T, NEW N, NEW S, NEW l, Orderly(l, T, N, S),
         NEW i \in 1..Len(Queue(l)), NEW t, Queue(l)[i] = t,
         NEW m \in LimitsOf(T), m.limit = l.limit, m.debt = l.debt,
         Queue(m) = DropAt(Queue(l), i)
  PROVE  Orderly(m, T, N, S \ {t})
<1>1. Queue(l) \in Seq(T) /\ Len(Queue(l)) \in Nat
  BY LimitFields DEF Orderly
<1>2. /\ Len(Queue(m)) = Len(Queue(l)) - 1
      /\ \A j \in 1..(Len(Queue(l)) - 1) :
           Queue(m)[j] = IF j < i THEN Queue(l)[j] ELSE Queue(l)[j + 1]
  BY <1>1, DropFacts, Zenon
<1>3. ASSUME NEW j \in 1..Len(Queue(m))
      PROVE  Queue(m)[j] \in S \ {t}
  <2>1. \E k \in 1..Len(Queue(l)) : k # i /\ Queue(m)[j] = Queue(l)[k]
    <3>1. CASE j < i
      <4>1. j \in 1..Len(Queue(l)) /\ j # i /\ j \in 1..(Len(Queue(l)) - 1)
        BY <1>1, <1>2, <3>1
      <4> QED BY <1>2, <3>1, <4>1
    <3>2. CASE ~(j < i)
      <4>1. j + 1 \in 1..Len(Queue(l)) /\ j + 1 # i /\ j \in 1..(Len(Queue(l)) - 1)
        BY <1>1, <1>2, <3>2
      <4> QED BY <1>2, <3>2, <4>1
    <3> QED BY <3>1, <3>2
  <2> QED BY <2>1 DEF Orderly, Distinct
<1>4. Distinct(Queue(m))
  BY <1>1, DropKeeps DEF Orderly
<1> QED BY <1>3, <1>4 DEF Orderly

\* Where the tasks of either half stand in the queue.
LEMMA QueueHalves ==
  ASSUME NEW T, NEW l \in LimitsOf(T)
  PROVE  /\ \A i \in 1..Len(l.woken) :
              i \in 1..Len(Queue(l)) /\ Queue(l)[i] = l.woken[i]
         /\ \A i \in 1..Len(l.waiting) :
              /\ Len(l.woken) + i \in 1..Len(Queue(l))
              /\ Queue(l)[Len(l.woken) + i] = l.waiting[i]
         /\ \A j \in 1..Len(Queue(l)) :
              j \in 1..Len(l.woken) \/ \E i \in 1..Len(l.waiting) : j = Len(l.woken) + i
<1> DEFINE m == Len(l.woken)
           n == Len(l.waiting)
           q == Queue(l)
<1>1. m \in Nat /\ n \in Nat /\ l.woken \in Seq(T) /\ l.waiting \in Seq(T)
  BY LimitFields
<1>2. /\ Len(q) = m + n
      /\ \A j \in 1..(m + n) : q[j] = IF j <= m THEN l.woken[j] ELSE l.waiting[j - m]
  BY <1>1, ConcatProperties, Zenon DEF Queue
<1> HIDE DEF m, n, q
<1>3. ASSUME NEW i \in 1..m
      PROVE  i \in 1..Len(q) /\ q[i] = l.woken[i]
  BY <1>1, <1>2
<1>4. ASSUME NEW i \in 1..n
      PROVE  m + i \in 1..Len(q) /\ q[m + i] = l.waiting[i]
  <2>1. m + i \in 1..(m + n) /\ ~(m + i <= m) /\ (m + i) - m = i
    BY <1>1
  <2> QED BY <1>2, <2>1
<1>5. ASSUME NEW j \in 1..Len(q)
      PROVE  j \in 1..m \/ \E i \in 1..n : j = m + i
  <2>1. CASE ~(j <= m)
    <3>1. j - m \in 1..n /\ j = m + (j - m)
      BY <1>1, <1>2, <2>1
    <3> QED BY <3>1
  <2> QED BY <1>1, <1>2, <2>1
<1> QED BY <1>3, <1>4, <1>5 DEF m, n, q

\* One task is cancelled where it waits.
LEMMA CancelTaskOrderly ==
  ASSUME NEW T, NEW N, NEW S, NEW l, Orderly(l, T, N, S), NEW t
  PROVE  Orderly(CancelTask(l, t), T, N, S \ {t}) /\ Taken(CancelTask(l, t)) = Taken(l)
<1>1. l \in LimitsOf(T)
  BY DEF Orderly
<1>2. /\ l.value \in Nat /\ l.limit \in Nat
      /\ l.woken \in Seq(T) /\ l.waiting \in Seq(T)
      /\ Len(l.woken) \in Nat /\ Len(l.waiting) \in Nat
  BY <1>1, LimitFields
<1>4. ASSUME NEW i \in 1..Len(l.waiting), l.waiting[i] = t
      PROVE  /\ Orderly(CancelWaiting(l, i), T, N, S \ {t})
             /\ Taken(CancelWaiting(l, i)) = Taken(l)
  <2> DEFINE d == DropAt(l.waiting, i)
             p == [l EXCEPT !.waiting = d]
             k == Len(l.woken) + i
  <2>1. d \in Seq(T)
    BY <1>2, DropFacts, Zenon
  <2>2. CancelWaiting(l, i) = Wake(p, l.value)
    BY Zenon DEF CancelWaiting
  <2>3. l.woken \o d = DropAt(Queue(l), k) /\ k \in 1..Len(Queue(l))
    BY <1>2, DropRight, Zenon DEF Queue
  <2>4. Queue(l)[k] = t
    BY <1>1, <1>4, QueueHalves
  <2> HIDE DEF d, k
  <2>5. Becomes(p, l, T, l.value, l.woken, d)
    BY <1>1, <2>1, LimitUpdates, Zenon
  <2> HIDE DEF p
  <2>6. Queue(p) = DropAt(Queue(l), k)
    BY <2>3, <2>5 DEF Becomes, Queue
  <2>7. Orderly(p, T, N, S \ {t}) /\ Taken(p) = Taken(l)
    <3>1. p \in LimitsOf(T) /\ p.limit = l.limit /\ p.debt = l.debt
      BY <2>5 DEF Becomes
    <3>2. Orderly(p, T, N, S \ {t})
      BY <2>3, <2>4, <2>6, <3>1, LeaveOrderly
    <3> QED BY <2>5, <3>2 DEF Becomes, Taken
  <2> QED BY <1>2, <2>2, <2>7, WakeOrderly
<1>5. ASSUME NEW i \in 1..Len(l.woken), l.woken[i] = t
      PROVE  /\ Orderly(CancelWoken(l, i), T, N, S \ {t})
             /\ Taken(CancelWoken(l, i)) = Taken(l)
  <2> DEFINE d == DropAt(l.woken, i)
             g == [l EXCEPT !.woken = d]
             p == [g EXCEPT !.value = g.value + 1]
  <2>1. d \in Seq(T) /\ Len(d) = Len(l.woken) - 1
    BY <1>2, DropFacts, Zenon
  <2>2. CancelWoken(l, i) = Wake(p, l.value + 1)
    BY Zenon DEF CancelWoken
  <2>3. d \o l.waiting = DropAt(Queue(l), i) /\ i \in 1..Len(Queue(l))
    BY <1>2, DropLeft, Zenon DEF Queue
  <2>4. Queue(l)[i] = t
    BY <1>1, <1>5, QueueHalves
  <2> HIDE DEF d
  <2>5. Becomes(g, l, T, l.value, d, l.waiting)
    BY <1>1, <2>1, LimitUpdates, Zenon
  <2> HIDE DEF g
  <2>6. Becomes(p, g, T, g.value + 1, g.woken, g.waiting)
    <3>1. g \in LimitsOf(T) /\ g.value + 1 \in Nat
      BY <1>2, <2>5 DEF Becomes
    <3> QED BY <3>1, LimitUpdates, Zenon
  <2> HIDE DEF p
  <2>7. Becomes(p, l, T, l.value + 1, d, l.waiting)
    BY <2>5, <2>6 DEF Becomes
  <2>8. Queue(p) = DropAt(Queue(l), i)
    BY <2>3, <2>7 DEF Becomes, Queue
  <2>9. p \in LimitsOf(T) /\ p.limit = l.limit /\ p.debt = l.debt
    BY <2>7 DEF Becomes
  <2>10. Orderly(p, T, N, S \ {t})
    BY <2>3, <2>4, <2>8, <2>9, LeaveOrderly
  <2>11. Taken(p) = Taken(l)
    <3> DEFINE w == Len(l.woken) x == l.value n == l.limit
    <3>1. /\ Taken(p) = n - (x + 1) - (w - 1)
          /\ Taken(l) = n - x - w /\ w \in Nat /\ x \in Nat /\ n \in Nat
      BY <1>2, <2>1, <2>7 DEF Taken, Becomes
    <3> HIDE DEF w, x, n
    <3> QED BY <3>1
  <2> QED BY <1>2, <2>2, <2>10, <2>11, WakeOrderly
<1>6. CASE PlacesOf(t, l.waiting) # {}
  <2> DEFINE i == CHOOSE i \in PlacesOf(t, l.waiting) : TRUE
  <2>1. i \in 1..Len(l.waiting) /\ l.waiting[i] = t
    BY <1>6 DEF PlacesOf
  <2>2. CancelTask(l, t) = CancelWaiting(l, i)
    BY <1>6, Zenon DEF CancelTask
  <2> HIDE DEF i
  <2> QED BY <1>4, <2>1, <2>2
<1>7. CASE PlacesOf(t, l.waiting) = {} /\ PlacesOf(t, l.woken) # {}
  <2> DEFINE i == CHOOSE i \in PlacesOf(t, l.woken) : TRUE
  <2>1. i \in 1..Len(l.woken) /\ l.woken[i] = t
    BY <1>7 DEF PlacesOf
  <2>2. CancelTask(l, t) = CancelWoken(l, i)
    BY <1>7, Zenon DEF CancelTask
  <2> HIDE DEF i
  <2> QED BY <1>5, <2>1, <2>2
<1>8. CASE PlacesOf(t, l.waiting) = {} /\ PlacesOf(t, l.woken) = {}
  <2>1. CancelTask(l, t) = l
    BY <1>8, Zenon DEF CancelTask
  <2>2. ASSUME NEW j \in 1..Len(Queue(l))
        PROVE  Queue(l)[j] # t
    <3>1. CASE j \in 1..Len(l.woken)
      BY <1>1, <1>8, <3>1, QueueHalves DEF PlacesOf
    <3>2. ASSUME NEW i \in 1..Len(l.waiting), j = Len(l.woken) + i
          PROVE  Queue(l)[j] # t
      BY <1>1, <1>8, <3>2, QueueHalves DEF PlacesOf
    <3> QED BY <1>1, <3>1, <3>2, QueueHalves
  <2> QED BY <2>1, <2>2 DEF Orderly
<1> QED BY <1>6, <1>7, <1>8

\* Everybody but one task is cancelled.
LEMMA CancelAllButOrderly ==
  ASSUME NEW T, NEW N, NEW S, NEW l, Orderly(l, T, N, S), NEW t \in T
  PROVE  /\ Orderly(CancelAllBut(l, t), T, N, S \cap {t})
         /\ Taken(CancelAllBut(l, t)) = Taken(l)
<1> DEFINE kw == Kept(l.woken, t)
           kp == Kept(l.waiting, t)
           v == l.value + Len(l.woken) - Len(kw)
           a == [l EXCEPT !.value = v]
           b == [a EXCEPT !.waiting = Kept(a.waiting, t)]
           c == [b EXCEPT !.woken = Kept(b.woken, t)]
<1>1. l \in LimitsOf(T)
  BY DEF Orderly
<1>2. /\ l.value \in Nat /\ l.limit \in Nat
      /\ l.woken \in Seq(T) /\ l.waiting \in Seq(T)
      /\ Len(l.woken) \in Nat /\ Len(l.waiting) \in Nat
  BY <1>1, LimitFields
<1>4. CancelAllBut(l, t) = Wake(c, v)
  BY Zenon DEF CancelAllBut
<1>5. /\ <<t>> \in Seq(T) /\ Len(<<t>>) = 1 /\ <<t>>[1] = t
      /\ <<>> \in Seq(T) /\ Len(<<>>) = 0
  OBVIOUS
<1>6. /\ kw = IF PlacesOf(t, l.woken) # {} THEN <<t>> ELSE <<>>
      /\ kp = IF PlacesOf(t, l.waiting) # {} THEN <<t>> ELSE <<>>
  BY DEF Kept
<1>7. \A i \in PlacesOf(t, l.woken) : i \in 1..Len(Queue(l)) /\ Queue(l)[i] = t
  BY <1>1, QueueHalves DEF PlacesOf
<1>8. \A i \in PlacesOf(t, l.waiting) :
        Len(l.woken) + i \in 1..Len(Queue(l)) /\ Queue(l)[Len(l.woken) + i] = t
  BY <1>1, QueueHalves DEF PlacesOf
<1>9. PlacesOf(t, l.woken) = {} \/ PlacesOf(t, l.waiting) = {}
  <2> SUFFICES ASSUME NEW i \in PlacesOf(t, l.woken), NEW j \in PlacesOf(t, l.waiting)
               PROVE  FALSE
    OBVIOUS
  <2>1. i = Len(l.woken) + j
    BY <1>7, <1>8 DEF Orderly, Distinct
  <2>2. i \in 1..Len(l.woken) /\ j \in 1..Len(l.waiting)
    BY DEF PlacesOf
  <2> QED BY <1>2, <2>1, <2>2
<1>10. PlacesOf(t, l.woken) # {} \/ PlacesOf(t, l.waiting) # {} => t \in S
  BY <1>7, <1>8 DEF Orderly
<1>11. /\ kw \in Seq(T) /\ kp \in Seq(T) /\ Len(kw) \in 0..1
       /\ Len(kw) = 1 => PlacesOf(t, l.woken) # {}
  BY <1>5, <1>6
<1>12. v \in Nat
  <2>1. PlacesOf(t, l.woken) # {} => Len(l.woken) >= 1
    BY <1>2 DEF PlacesOf
  <2> DEFINE x == Len(l.woken) y == Len(kw) z == l.value
  <2>2. x \in Nat /\ z \in Nat /\ y \in 0..1 /\ (y = 1 => x >= 1) /\ v = z + x - y
    BY <1>2, <1>11, <2>1
  <2> HIDE DEF x, y, z, v
  <2> QED BY <2>2
<1> HIDE DEF v
<1>13. Becomes(a, l, T, v, l.woken, l.waiting)
  BY <1>1, <1>12, LimitUpdates, Zenon
<1> HIDE DEF a
<1>14. Becomes(b, a, T, a.value, a.woken, Kept(a.waiting, t))
  <2>1. a \in LimitsOf(T) /\ Kept(a.waiting, t) \in Seq(T)
    BY <1>11, <1>13 DEF Becomes
  <2> QED BY <2>1, LimitUpdates, Zenon
<1> HIDE DEF b
<1>15. Becomes(c, b, T, b.value, Kept(b.woken, t), b.waiting)
  <2>1. b \in LimitsOf(T) /\ Kept(b.woken, t) \in Seq(T)
    BY <1>11, <1>13, <1>14 DEF Becomes
  <2> QED BY <2>1, LimitUpdates, Zenon
<1> HIDE DEF c
<1>16. Becomes(c, l, T, v, kw, kp)
  BY <1>13, <1>14, <1>15 DEF Becomes
<1>17. Queue(c) = kw \o kp
  BY <1>16 DEF Queue, Becomes
<1>18. Queue(c) = <<>> \/ (Queue(c) = <<t>> /\ t \in S)
  BY <1>5, <1>6, <1>9, <1>10, <1>17, ConcatEmptySeq
<1>19. Distinct(Queue(c)) /\ \A i \in 1..Len(Queue(c)) : Queue(c)[i] \in S \cap {t}
  BY <1>5, <1>18 DEF Distinct
<1>20. Orderly(c, T, N, S \cap {t})
  BY <1>16, <1>19 DEF Orderly, Becomes
<1>21. Taken(c) = Taken(l)
  <2> DEFINE w == Len(l.woken) x == Len(kw)
  <2>1. /\ Taken(c) = l.limit - v - x /\ v = l.value + w - x
        /\ Taken(l) = l.limit - l.value - w /\ w \in Nat /\ x \in Nat
    BY <1>2, <1>11, <1>16 DEF Taken, Becomes, v
  <2> HIDE DEF w, x
  <2> QED BY <2>1, <1>2
<1> QED BY <1>4, <1>12, <1>20, <1>21, WakeOrderly

\* A new limit has an empty queue and nothing taken.
LEMMA NewLimitOrderly ==
  ASSUME NEW T, NEW N \in Nat
  PROVE  Orderly(NewLimit(N), T, N, {}) /\ Taken(NewLimit(N)) = 0
<1> DEFINE l == NewLimit(N)
<1>1. /\ l = [value |-> N, waiting |-> <<>>, woken |-> <<>>, limit |-> N, debt |-> 0]
      /\ <<>> \in Seq(T) /\ Len(<<>>) = 0
  BY EmptySeq DEF NewLimit
<1> HIDE DEF l
<1>2. l \in LimitsOf(T)
  BY <1>1 DEF LimitsOf
<1>3. Queue(l) = <<>>
  BY <1>1, ConcatEmptySeq DEF Queue
<1>4. \A i \in 1..Len(Queue(l)) : FALSE
  BY <1>1, <1>3
<1>5. Taken(l) = 0
  BY <1>1 DEF Taken
<1> QED BY <1>1, <1>2, <1>4, <1>5 DEF Orderly, Distinct, l

\* The queue may be known to lie in a larger set as well.
LEMMA OrderlyIn ==
  ASSUME NEW T, NEW N, NEW S, NEW R, NEW l, Orderly(l, T, N, S), S \subseteq R
  PROVE  Orderly(l, T, N, R)
BY DEF Orderly
===============================================================================
