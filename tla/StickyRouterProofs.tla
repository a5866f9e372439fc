-------------------------- MODULE StickyRouterProofs --------------------------
(***************************************************************************)
(* Theorems of StickyRouter, for every set of workers, roots and children  *)
(* and every number of turns: what the router counts is what is in flight, *)
(* its index and its sticky entries agree with it, the turns of a session  *)
(* stay together, forked children follow their parent, and an entry stands *)
(* for something that still goes on.                                       *)
(***************************************************************************)
EXTENDS StickyRouter, FiniteSetTheorems, WellFoundedInduction, TLAPS

\* A turn follows the plan, and a child is born when its parent's turn is back.
Progress ==
  /\ ForksAtTheEnd
  /\ \A s \in Sessions : turn[s] < turns[s]
  /\ \A r \in Roots : stage[r] # "new" /\ (stage[r] = "over" => IsFinalTurn(r))
  /\ \A c \in Children :
       stage[c] # "new" => \/ turn[branch[c].parent] > branch[c].after
                           \/ stage[branch[c].parent] = "over"

\* A session's home is the worker that got a credit of it.
Homes ==
  /\ \A s \in Sessions : home[s] # NoWorker => worker[home[s]] # "starting"
  /\ \A s \in Sessions : stage[s] = "wire" => home[s] # NoWorker
  /\ \A r \in Roots : home[r] = NoWorker <=> stage[r] = "ready" /\ turn[r] = 0

\* A root that was sent a turn and has not been sent its last.
Underway(r) ==
  \/ stage[r] = "ready" /\ turn[r] > 0
  \/ stage[r] = "wire" /\ ~IsFinalTurn(r)

\* Its entry stays, as nothing but its last turn marks it for removal.
EntriesOfRoots ==
  /\ \A r \in Roots :
       home[r] \in Up /\ Underway(r) => sticky[r] # NoEntry /\ sticky[r].worker = home[r]
  /\ \A r \in Roots :
       sticky[r] # NoEntry /\ sticky[r].finalSeen
         => stage[r] = "over" \/ (stage[r] = "wire" /\ IsFinalTurn(r))

NoneGone == \A w \in Workers : worker[w] # "gone"
LiveForks(k) == {c \in LiveChildren(k) : branch[c].mode = "fork"}
Entry(w, n, b) == [worker |-> w, refs |-> n, finalSeen |-> b]

\* While no worker has left: the entry of a root at each of its stages.
EntryAt(k) ==
  /\ stage[k] = "ready" /\ turn[k] = 0 => sticky[k] = NoEntry
  /\ Underway(k) => sticky[k] = Entry(home[k], 1, FALSE)
  /\ stage[k] = "wire" /\ IsFinalTurn(k) /\ HasForks(k) => sticky[k] = Entry(home[k], 0, TRUE)
  /\ stage[k] = "over" /\ LiveForks(k) # {}
       => sticky[k] = Entry(home[k], Cardinality(LiveForks(k)), TRUE)
  /\ stage[k] = "wire" /\ IsFinalTurn(k) /\ ~HasForks(k)
       => sticky[k] = NoEntry \/ Spawns(k) # {}
  /\ stage[k] = "over" /\ LiveForks(k) = {} => sticky[k] = NoEntry \/ Spawns(k) # {}

EntriesKept == NoneGone => \A k \in Roots : EntryAt(k)

IInv == /\ TypeOK /\ CreditsAccounted /\ LeastLoadIndexed /\ StickyAccounted
        /\ Progress /\ Homes /\ EntriesOfRoots /\ EntriesKept

-------------------------------------------------------------------------------
\* A set of numbers contains a least one: the least of the intervals 0..n.
LEMMA LeastOfLoads ==
  ASSUME NEW S \in SUBSET Nat, S # {}
  PROVE  \E n \in S : \A m \in S : n <= m
<1> DEFINE T == {0..n : n \in S}
<1>1. T \subseteq FiniteSubsetsOf(Nat) /\ T # {}
  <2>1. \A n \in Nat : IsFiniteSet(0..n) /\ 0..n \subseteq Nat
    BY FS_Interval
  <2> QED BY <2>1 DEF FiniteSubsetsOf
<1>2. PICK x \in T : \A y \in T : <<y, x>> \notin StrictSubsetOrdering(Nat)
  BY <1>1, FS_StrictSubsetOrderingWellFounded, WFMin
<1>3. PICK n \in S : x = 0..n
  OBVIOUS
<1>4. ASSUME NEW m \in S, m < n PROVE FALSE
  <2>1. 0..m \subseteq 0..n /\ 0..m # 0..n /\ n \in 0..n /\ n \notin 0..m
    BY <1>4
  <2>2. <<0..m, 0..n>> \in StrictSubsetOrdering(Nat)
    BY <2>1 DEF StrictSubsetOrdering
  <2> QED BY <1>2, <1>3, <2>2
<1> QED BY <1>4

-------------------------------------------------------------------------------
(***************************************************************************)
(* The two books a step may change: the entry of one key, with the worker  *)
(* it is charged to, and the credits in flight at one worker.              *)
(***************************************************************************)
EntryType == [worker : Workers, refs : Int, finalSeen : BOOLEAN]
LoadType == [inFlight : 0..MaxLoad, credits : SUBSET Sessions,
             sessions : Int, ids : SUBSET Roots]

SameSessions(v) == load'[v].sessions = load[v].sessions /\ load'[v].ids = load[v].ids
SameFlights(v) == load'[v].inFlight = load[v].inFlight /\ load'[v].credits = load[v].credits

\* The entry of k becomes e, for the same worker.
Changes(k, e) ==
  /\ \A v \in Workers : SameSessions(v)
  /\ \/ sticky[k] = NoEntry /\ e = NoEntry
     \/ sticky[k] # NoEntry /\ e \in EntryType /\ e.worker = sticky[k].worker

\* The entry e of k is created, for w.
Opened(k, e, w) ==
  /\ w \in Up /\ sticky[k] = NoEntry /\ e \in EntryType /\ e.worker = w
  /\ \A v \in Workers \ {w} : SameSessions(v)
  /\ load'[w].sessions = load[w].sessions + 1 /\ load'[w].ids = load[w].ids \cup {k}

\* The entry of k, of w, is taken away.
Closed(k, e, w) ==
  /\ w \in Up /\ sticky[k] # NoEntry /\ sticky[k].worker = w /\ e = NoEntry
  /\ \A v \in Workers \ {w} : SameSessions(v)
  /\ load'[w].sessions = load[w].sessions - 1 /\ load'[w].ids = load[w].ids \ {k}

Settles(k, e) ==
  /\ sticky' = [sticky EXCEPT ![k] = e]
  /\ Changes(k, e) \/ \E w \in Workers : Opened(k, e, w) \/ Closed(k, e, w)

\* Sessions are finitely many.
LEMMA FiniteSessions == IsFiniteSet(Sessions) /\ MaxLoad \in Nat
BY SetsAssumption, FS_Union, FS_CardinalityType DEF Sessions, MaxLoad

\* Whatever happens to one entry, the loads still agree with the entries.
LEMMA SettledAccounts ==
  ASSUME TypeOK, StickyAccounted, NEW k \in Roots, NEW e, Settles(k, e), worker' = worker
  PROVE  StickyAccounted' /\ sticky' \in [Roots -> EntryType \cup {NoEntry}]
<1>1. /\ sticky \in [Roots -> EntryType \cup {NoEntry}] /\ NoEntry \notin EntryType
      /\ sticky' = [sticky EXCEPT ![k] = e] /\ Up' = Up /\ Up \subseteq Workers
      /\ load \in [Workers -> LoadType]
  BY NoEntryAssumption DEF TypeOK, EntryType, LoadType, Settles, Up
<1>2. ASSUME NEW v \in Up
      PROVE  /\ load[v].ids = {r \in Roots : sticky[r] # NoEntry /\ sticky[r].worker = v}
             /\ load[v].sessions = Cardinality(load[v].ids)
             /\ IsFiniteSet(load[v].ids)
  <2>1. /\ load[v].ids = {r \in Roots : sticky[r] # NoEntry /\ sticky[r].worker = v}
        /\ load[v].sessions = Cardinality(load[v].ids)
    BY DEF StickyAccounted
  <2>2. load[v].ids \in SUBSET Roots
    BY <2>1
  <2> QED BY <2>1, <2>2, SetsAssumption, FS_Subset
<1>3. ASSUME e \in EntryType \cup {NoEntry}, e # NoEntry => e.worker \in Up,
             \A v \in Up : /\ load'[v].ids = {r \in Roots : sticky'[r] # NoEntry
                                                            /\ sticky'[r].worker = v}
                           /\ load'[v].sessions = Cardinality(load'[v].ids)
      PROVE  StickyAccounted' /\ sticky' \in [Roots -> EntryType \cup {NoEntry}]
  <2>1. \A r \in Roots : sticky'[r] # NoEntry => sticky'[r].worker \in Up
    BY <1>1, <1>3 DEF StickyAccounted
  <2>2. StickyAccounted'
    BY <1>1, <1>3, <2>1, Zenon DEF StickyAccounted
  <2> QED BY <1>1, <1>3, <2>2
<1>4. CASE Changes(k, e)
  <2>1. e \in EntryType \cup {NoEntry} /\ (e # NoEntry => e.worker \in Up)
    BY <1>1, <1>4 DEF Changes, StickyAccounted
  <2>2. ASSUME NEW v \in Up
        PROVE  /\ load'[v].ids = {r \in Roots : sticky'[r] # NoEntry
                                                            /\ sticky'[r].worker = v}
               /\ load'[v].sessions = Cardinality(load'[v].ids)
    <3>1. load'[v].sessions = load[v].sessions /\ load'[v].ids = load[v].ids
      BY <1>1, <1>4 DEF Changes, SameSessions
    <3>2. \A r \in Roots : sticky'[r] # NoEntry /\ sticky'[r].worker = v
                             <=> sticky[r] # NoEntry /\ sticky[r].worker = v
      BY <1>1, <1>4 DEF Changes
    <3> QED BY <1>2, <3>1, <3>2
  <2> QED BY <1>3, <2>1, <2>2
<1>5. ASSUME NEW w \in Workers, Opened(k, e, w)
      PROVE  StickyAccounted' /\ sticky' \in [Roots -> EntryType \cup {NoEntry}]
  <2>1. e \in EntryType /\ e.worker = w /\ w \in Up /\ sticky[k] = NoEntry
    BY <1>5 DEF Opened
  <2>2. ASSUME NEW v \in Up
        PROVE  /\ load'[v].ids = {r \in Roots : sticky'[r] # NoEntry
                                                            /\ sticky'[r].worker = v}
               /\ load'[v].sessions = Cardinality(load'[v].ids)
    <3>1. CASE v = w
      <4>1. /\ load'[v].sessions = load[v].sessions + 1
            /\ load'[v].ids = load[v].ids \cup {k} /\ k \notin load[v].ids
        BY <1>2, <1>5, <3>1 DEF Opened
      <4>2. Cardinality(load'[v].ids) = Cardinality(load[v].ids) + 1
        <5>1. IsFiniteSet(load[v].ids)
          BY <1>2
        <5>2. Cardinality(load[v].ids \cup {k}) = Cardinality(load[v].ids) + 1
          BY <4>1, <5>1, FS_AddElement
        <5> QED BY <4>1, <5>2
      <4>3. \A r \in Roots : sticky'[r] # NoEntry /\ sticky'[r].worker = v
                               <=> (sticky[r] # NoEntry /\ sticky[r].worker = v) \/ r = k
        BY <1>1, <2>1, <3>1
      <4>4. load'[v].ids = {r \in Roots : sticky'[r] # NoEntry /\ sticky'[r].worker = v}
        BY <1>2, <4>1, <4>3
      <4> QED BY <1>2, <4>1, <4>2, <4>4
    <3>2. CASE v # w
      <4>1. load'[v].sessions = load[v].sessions /\ load'[v].ids = load[v].ids
        BY <1>1, <1>5, <3>2 DEF Opened, SameSessions
      <4>2. \A r \in Roots : sticky'[r] # NoEntry /\ sticky'[r].worker = v
                               <=> sticky[r] # NoEntry /\ sticky[r].worker = v
        BY <1>1, <2>1, <3>2
      <4> QED BY <1>2, <4>1, <4>2
    <3> QED BY <3>1, <3>2
  <2> QED BY <1>3, <2>1, <2>2
<1>6. ASSUME NEW w \in Workers, Closed(k, e, w)
      PROVE  StickyAccounted' /\ sticky' \in [Roots -> EntryType \cup {NoEntry}]
  <2>1. e = NoEntry /\ w \in Up /\ sticky[k] # NoEntry /\ sticky[k].worker = w
    BY <1>6 DEF Closed
  <2>2. ASSUME NEW v \in Up
        PROVE  /\ load'[v].ids = {r \in Roots : sticky'[r] # NoEntry
                                                            /\ sticky'[r].worker = v}
               /\ load'[v].sessions = Cardinality(load'[v].ids)
    <3>1. CASE v = w
      <4>1. /\ load'[v].sessions = load[v].sessions - 1
            /\ load'[v].ids = load[v].ids \ {k} /\ k \in load[v].ids
        BY <1>2, <1>6, <3>1 DEF Closed
      <4>2. Cardinality(load'[v].ids) = Cardinality(load[v].ids) - 1
        <5>1. IsFiniteSet(load[v].ids)
          BY <1>2
        <5>2. Cardinality(load[v].ids \ {k}) = Cardinality(load[v].ids) - 1
          BY <4>1, <5>1, FS_RemoveElement
        <5> QED BY <4>1, <5>2
      <4>3. \A r \in Roots : sticky'[r] # NoEntry /\ sticky'[r].worker = v
                               <=> (sticky[r] # NoEntry /\ sticky[r].worker = v) /\ r # k
        BY <1>1, <2>1, <3>1
      <4>4. load'[v].ids = {r \in Roots : sticky'[r] # NoEntry /\ sticky'[r].worker = v}
        BY <1>2, <4>1, <4>3
      <4> QED BY <1>2, <4>1, <4>2, <4>4
    <3>2. CASE v # w
      <4>1. load'[v].sessions = load[v].sessions /\ load'[v].ids = load[v].ids
        BY <1>1, <1>6, <3>2 DEF Closed, SameSessions
      <4>2. \A r \in Roots : sticky'[r] # NoEntry /\ sticky'[r].worker = v
                               <=> sticky[r] # NoEntry /\ sticky[r].worker = v
        BY <1>1, <2>1, <3>2
      <4> QED BY <1>2, <4>1, <4>2
    <3> QED BY <3>1, <3>2
  <2> QED BY <1>3, <2>1, <2>2
<1> QED BY <1>4, <1>5, <1>6 DEF Settles

-------------------------------------------------------------------------------
\* The index after worker w went from load n to load m.
Indexed(w, n, m) ==
  /\ worker' = worker /\ w \in Up
  /\ n = load[w].inFlight /\ m \in 0..MaxLoad /\ m # n
  /\ load'[w].inFlight = m
  /\ \A v \in Workers \ {w} : load'[v].inFlight = load[v].inFlight
  /\ byLoad' = Move(w, n, m)

\* Every worker is again under its load.
LEMMA IndexMoved ==
  ASSUME TypeOK, LeastLoadIndexed, NEW w \in Workers, NEW n, NEW m, Indexed(w, n, m)
  PROVE  /\ byLoad' \in [0..MaxLoad -> SUBSET Workers]
         /\ \A i \in 0..MaxLoad : byLoad'[i] = {v \in Up : load'[v].inFlight = i}
         /\ byLoad'[n] = byLoad[n] \ {w} /\ byLoad'[m] = byLoad[m] \cup {w}
         /\ \A i \in 0..MaxLoad : i # n /\ i # m => byLoad'[i] = byLoad[i]
         /\ Up' = Up /\ Up \subseteq Workers /\ n \in 0..MaxLoad /\ minLoad \in 0..MaxLoad
<1>1. /\ byLoad \in [0..MaxLoad -> SUBSET Workers] /\ n \in 0..MaxLoad /\ m \in 0..MaxLoad
      /\ n = load[w].inFlight /\ m # n /\ w \in Up /\ minLoad \in 0..MaxLoad
      /\ byLoad' = [byLoad EXCEPT ![n] = byLoad[n] \ {w}, ![m] = byLoad[m] \cup {w}]
      /\ load'[w].inFlight = m
  BY DEF TypeOK, Indexed, Move
<1>2. Up' = Up /\ Up \subseteq Workers
  BY DEF Indexed, Up
<1>3. /\ byLoad'[n] = byLoad[n] \ {w} /\ byLoad'[m] = byLoad[m] \cup {w}
      /\ \A i \in 0..MaxLoad : i # n /\ i # m => byLoad'[i] = byLoad[i]
  BY <1>1
<1>4. byLoad' \in [0..MaxLoad -> SUBSET Workers]
  BY <1>1
<1>5. ASSUME NEW i \in 0..MaxLoad
      PROVE  byLoad'[i] = {v \in Up : load'[v].inFlight = i}
  <2>1. byLoad[i] = {v \in Up : load[v].inFlight = i}
    BY DEF LeastLoadIndexed
  <2>2. \A v \in Up \ {w} : load'[v].inFlight = load[v].inFlight
    BY <1>2 DEF Indexed
  <2> QED BY <1>1, <1>3, <2>1, <2>2
<1> QED BY <1>1, <1>2, <1>3, <1>4, <1>5

\* Send: the minimum rises when its last worker leaves it.
LEMMA IndexAfterSend ==
  ASSUME TypeOK, LeastLoadIndexed, NEW w \in Workers,
         Indexed(w, load[w].inFlight, load[w].inFlight + 1), minLoad' = MinAfterSent(w)
  PROVE  /\ LeastLoadIndexed'
         /\ byLoad' \in [0..MaxLoad -> SUBSET Workers] /\ minLoad' \in 0..MaxLoad
<1> DEFINE n == load[w].inFlight
<1>1. /\ byLoad' \in [0..MaxLoad -> SUBSET Workers]
      /\ \A i \in 0..MaxLoad : byLoad'[i] = {v \in Up : load'[v].inFlight = i}
      /\ byLoad'[n] = byLoad[n] \ {w} /\ byLoad'[n + 1] = byLoad[n + 1] \cup {w}
      /\ \A i \in 0..MaxLoad : i # n /\ i # n + 1 => byLoad'[i] = byLoad[i]
      /\ Up' = Up /\ Up \subseteq Workers /\ n \in 0..MaxLoad /\ minLoad \in 0..MaxLoad
  BY IndexMoved
<1>2. /\ w \in Up /\ n + 1 \in 0..MaxLoad /\ load'[w].inFlight = n + 1
      /\ \A v \in Up \ {w} : load'[v].inFlight = load[v].inFlight
  BY <1>1 DEF Indexed
<1>3. /\ \A i \in 0..MaxLoad : byLoad[i] = {v \in Up : load[v].inFlight = i}
      /\ byLoad[minLoad] # {} /\ \A v \in Up : minLoad <= load[v].inFlight
  BY <1>2 DEF LeastLoadIndexed
<1>4. \A v \in Up : load[v].inFlight \in 0..MaxLoad
  BY <1>1 DEF TypeOK
<1>5. minLoad' = IF n = minLoad /\ byLoad[minLoad] \subseteq {w} THEN minLoad + 1 ELSE minLoad
  BY DEF MinAfterSent
<1> HIDE DEF n
<1>6. ASSUME minLoad' \in 0..MaxLoad, byLoad'[minLoad'] # {},
             \A v \in Up : minLoad' <= load'[v].inFlight
      PROVE  LeastLoadIndexed'
  BY <1>1, <1>6, Zenon DEF LeastLoadIndexed
<1>7. CASE n = minLoad /\ byLoad[minLoad] \subseteq {w}
  <2>1. minLoad' = n + 1
    BY <1>5, <1>7
  <2>2. byLoad'[n + 1] # {}
    BY <1>1
  <2>3. \A v \in Up : minLoad' <= load'[v].inFlight
    <3>1. ASSUME NEW v \in Up, v # w PROVE n < load[v].inFlight
      BY <1>1, <1>3, <1>4, <1>7, <3>1
    <3> QED BY <1>1, <1>2, <1>4, <2>1, <3>1
  <2> QED BY <1>1, <1>2, <1>6, <2>1, <2>2, <2>3
<1>8. CASE ~(n = minLoad /\ byLoad[minLoad] \subseteq {w})
  <2>1. minLoad' = minLoad
    BY <1>5, <1>8
  <2>2. byLoad'[minLoad] # {}
    <3>1. CASE n = minLoad
      BY <1>1, <1>3, <1>8, <3>1
    <3>2. CASE n # minLoad
      BY <1>1, <1>3, <3>2
    <3> QED BY <3>1, <3>2
  <2>3. \A v \in Up : minLoad' <= load'[v].inFlight
    BY <1>1, <1>2, <1>3, <1>4, <2>1
  <2> QED BY <1>1, <1>6, <2>1, <2>2, <2>3
<1> QED BY <1>1, <1>7, <1>8, <1>2, <1>5

\* Return: the minimum follows a worker below it.
LEMMA IndexAfterReturn ==
  ASSUME TypeOK, LeastLoadIndexed, NEW w \in Workers,
         Indexed(w, load[w].inFlight, load[w].inFlight - 1), minLoad' = MinAfterReturned(w)
  PROVE  /\ LeastLoadIndexed'
         /\ byLoad' \in [0..MaxLoad -> SUBSET Workers] /\ minLoad' \in 0..MaxLoad
<1> DEFINE n == load[w].inFlight
<1>1. /\ byLoad' \in [0..MaxLoad -> SUBSET Workers]
      /\ \A i \in 0..MaxLoad : byLoad'[i] = {v \in Up : load'[v].inFlight = i}
      /\ byLoad'[n] = byLoad[n] \ {w} /\ byLoad'[n - 1] = byLoad[n - 1] \cup {w}
      /\ \A i \in 0..MaxLoad : i # n /\ i # n - 1 => byLoad'[i] = byLoad[i]
      /\ Up' = Up /\ Up \subseteq Workers /\ n \in 0..MaxLoad /\ minLoad \in 0..MaxLoad
  BY IndexMoved
<1>2. /\ w \in Up /\ n - 1 \in 0..MaxLoad /\ load'[w].inFlight = n - 1
      /\ \A v \in Up \ {w} : load'[v].inFlight = load[v].inFlight
  BY <1>1 DEF Indexed
<1>3. /\ byLoad[minLoad] # {} /\ \A v \in Up : minLoad <= load[v].inFlight
      /\ \A v \in byLoad[minLoad] : load[v].inFlight = minLoad
  BY <1>1, <1>2 DEF LeastLoadIndexed
<1>4. \A v \in Up : load[v].inFlight \in 0..MaxLoad
  BY <1>1 DEF TypeOK
<1>5. minLoad' = IF n - 1 < minLoad THEN n - 1 ELSE minLoad
  BY DEF MinAfterReturned
<1>6. w \in byLoad[minLoad] => n = minLoad
  BY <1>3
<1> HIDE DEF n
<1>7. byLoad'[minLoad'] # {}
  <2>1. CASE n - 1 < minLoad
    BY <1>1, <1>5, <2>1
  <2>2. CASE ~(n - 1 < minLoad)
    <3>1. minLoad' = minLoad /\ n # minLoad
      BY <1>1, <1>5, <2>2
    <3>2. byLoad[minLoad] \subseteq byLoad'[minLoad]
      BY <1>1, <3>1
    <3> QED BY <1>3, <3>1, <3>2
  <2> QED BY <2>1, <2>2
<1>8. \A v \in Up : minLoad' <= load'[v].inFlight
  BY <1>1, <1>2, <1>3, <1>4, <1>5
<1>9. minLoad' \in 0..MaxLoad
  BY <1>1, <1>2, <1>5
<1>10. LeastLoadIndexed'
  BY <1>1, <1>7, <1>8, Zenon DEF LeastLoadIndexed
<1> QED BY <1>1, <1>9, <1>10

-------------------------------------------------------------------------------
\* There is room at a worker for the credit of a session that has none in flight.
LEMMA RoomForOne ==
  ASSUME TypeOK, CreditsAccounted, NEW s \in Sessions, stage[s] # "wire", NEW w \in Up
  PROVE  load[w].inFlight + 1 \in 0..MaxLoad
<1>1. /\ load[w].credits = {x \in Sessions : stage[x] = "wire" /\ home[x] = w}
      /\ load[w].inFlight = Cardinality(load[w].credits)
  BY DEF CreditsAccounted
<1>2. load[w].credits \in SUBSET (Sessions \ {s})
  BY <1>1
<1>3. /\ IsFiniteSet(Sessions \ {s}) /\ Cardinality(Sessions \ {s}) = MaxLoad - 1
  BY FiniteSessions, FS_RemoveElement DEF MaxLoad
<1>4. IsFiniteSet(load[w].credits) /\ Cardinality(load[w].credits) <= MaxLoad - 1
  BY <1>2, <1>3, FS_Subset
<1>5. Cardinality(load[w].credits) \in Nat
  BY <1>4, FS_CardinalityType
<1> QED BY <1>1, <1>4, <1>5, FiniteSessions

\* Routing keys are roots, and the workers of entries are up.
LEMMA Keys ==
  ASSUME TypeOK, StickyAccounted
  PROVE  /\ \A s \in Sessions : RoutingKey(s) \in Roots
         /\ \A r \in Roots : sticky[r] # NoEntry
              => sticky[r] \in EntryType /\ sticky[r].worker \in Up
         /\ \A r \in Roots : HasStickyWorker(r) <=> sticky[r] # NoEntry
         /\ Up \subseteq Workers /\ NoEntry \notin EntryType
<1>1. \A s \in Sessions : RoutingKey(s) \in Roots
  BY DEF RoutingKey, Sessions, TypeOK
<1>2. \A r \in Roots : sticky[r] # NoEntry
              => sticky[r] \in EntryType /\ sticky[r].worker \in Up
  BY DEF TypeOK, StickyAccounted, EntryType
<1>3. \A r \in Roots : HasStickyWorker(r) <=> sticky[r] # NoEntry
  BY <1>2 DEF HasStickyWorker
<1> QED BY <1>1, <1>2, <1>3, NoEntryAssumption DEF Up, EntryType

\* Entries by their fields.
LEMMA EntryFields ==
  ASSUME NEW w \in Workers, NEW n \in Int, NEW b \in BOOLEAN
  PROVE  /\ Entry(w, n, b) \in EntryType /\ Entry(w, n, b) # NoEntry
         /\ Entry(w, n, b).worker = w /\ Entry(w, n, b).refs = n
         /\ Entry(w, n, b).finalSeen = b
<1>1. NoEntry \notin EntryType
  BY NoEntryAssumption DEF EntryType
<1> QED BY <1>1 DEF Entry, EntryType

\* What the updates of an entry make of it.
LEMMA EntryUpdates ==
  ASSUME NEW x \in EntryType, NEW n \in Int
  PROVE  /\ x = Entry(x.worker, x.refs, x.finalSeen) /\ x # NoEntry
         /\ x.worker \in Workers /\ x.refs \in Int /\ x.finalSeen \in BOOLEAN
         /\ [x EXCEPT !.refs = n] = Entry(x.worker, n, x.finalSeen)
         /\ [x EXCEPT !.refs = n, !.finalSeen = TRUE] = Entry(x.worker, n, TRUE)
<1>1. NoEntry \notin EntryType
  BY NoEntryAssumption DEF EntryType
<1>2. /\ x = Entry(x.worker, x.refs, x.finalSeen)
      /\ x.worker \in Workers /\ x.refs \in Int /\ x.finalSeen \in BOOLEAN
  BY DEF Entry, EntryType
<1>3. [x EXCEPT !.refs = n] = Entry(x.worker, n, x.finalSeen)
  BY DEF Entry, EntryType
<1>4. [x EXCEPT !.refs = n, !.finalSeen = TRUE] = Entry(x.worker, n, TRUE)
  <2> DEFINE y == [x EXCEPT !.refs = n, !.finalSeen = TRUE]
  <2>1. y.worker = x.worker /\ y.refs = n /\ y.finalSeen = TRUE
    BY DEF EntryType
  <2>2. y \in EntryType
    BY DEF EntryType
  <2> HIDE DEF y
  <2>3. y = [worker |-> y.worker, refs |-> y.refs, finalSeen |-> y.finalSeen]
    BY <2>2 DEF EntryType
  <2> QED BY <2>1, <2>3, Zenon DEF Entry, y
<1> QED BY <1>1, <1>2, <1>3, <1>4

\* The entry of the routing key after a send to w: created, kept, or marked and
\* perhaps removed with the owner's last turn.
EntrySent(s, w, e) ==
  LET k == RoutingKey(s)
      last == s \in Roots /\ IsFinalTurn(s)
  IN  \/ /\ sticky[k] # NoEntry /\ w = sticky[k].worker
         /\ \/ ~last /\ e = sticky[k]
            \/ last /\ sticky[k].refs <= 1 /\ ~HasForks(s) /\ e = NoEntry
            \/ /\ last /\ (sticky[k].refs > 1 \/ HasForks(s))
               /\ e = Entry(w, sticky[k].refs - 1, TRUE)
      \/ /\ sticky[k] = NoEntry /\ w \in byLoad[minLoad]
         /\ \/ ~NeedsEntry(s) /\ e = NoEntry
            \/ NeedsEntry(s) /\ ~last /\ e = Entry(w, 1, FALSE)
            \/ last /\ HasForks(s) /\ e = Entry(w, 0, TRUE)

\* Every send is such a one.
LEMMA SendEntries ==
  ASSUME TypeOK, LeastLoadIndexed, StickyAccounted,
         NEW s \in Sessions, NEW w \in Workers, SendCredit(s, w)
  PROVE  /\ w \in Up /\ EntrySent(s, w, EntryAfterSend(s, w))
         /\ EvictsAtOnce(s, w) => sticky[RoutingKey(s)] # NoEntry
         /\ Opens(s, w) <=> sticky[RoutingKey(s)] = NoEntry /\ NeedsEntry(s)
         /\ EvictsAtOnce(s, w) <=> /\ sticky[RoutingKey(s)] # NoEntry
                                   /\ EntryAfterSend(s, w) = NoEntry
<1> DEFINE k == RoutingKey(s)
           last == s \in Roots /\ IsFinalTurn(s)
           e0 == EntryAtSend(s, w)
           e == EntryAfterSend(s, w)
<1>1. /\ k \in Roots /\ (HasStickyWorker(k) <=> sticky[k] # NoEntry)
      /\ sticky[k] # NoEntry => sticky[k] \in EntryType /\ sticky[k].worker \in Up
      /\ NoEntry \notin EntryType
  BY Keys
<1>2. w \in Candidates(k) /\ minLoad \in 0..MaxLoad
  BY DEF SendCredit, TypeOK
<1>0. 0 \in Int /\ 1 \in Int
  OBVIOUS
<1>3. CASE sticky[k] # NoEntry
  <2>1. w = sticky[k].worker /\ w \in Up
    BY <1>1, <1>2, <1>3 DEF Candidates
  <2>2. e0 = sticky[k]
    BY <1>1, <1>3 DEF EntryAtSend
  <2>3. ~Opens(s, w) /\ (Closes(s, w) <=> last)
    BY <1>3, <2>2 DEF Opens, Closes
  <2>4. EvictsAtOnce(s, w) <=> last /\ sticky[k].refs <= 1 /\ ~HasForks(s)
    BY <2>2, <2>3 DEF EvictsAtOnce
  <2>5. sticky[k] = Entry(w, sticky[k].refs, sticky[k].finalSeen) /\ sticky[k].refs \in Int
    BY <1>1, <1>3, <2>1, <1>0, EntryUpdates
  <2>6. e = IF EvictsAtOnce(s, w) THEN NoEntry
            ELSE IF last THEN Entry(w, sticky[k].refs - 1, TRUE) ELSE sticky[k]
    <3>1. e = IF EvictsAtOnce(s, w) THEN NoEntry
              ELSE IF last THEN [e0 EXCEPT !.refs = e0.refs - 1, !.finalSeen = TRUE] ELSE e0
      BY <2>3 DEF EntryAfterSend
    <3>2. [sticky[k] EXCEPT !.refs = sticky[k].refs - 1, !.finalSeen = TRUE]
             = Entry(w, sticky[k].refs - 1, TRUE)
      BY <1>1, <1>3, <2>1, <2>5, sticky[k].refs - 1 \in Int, EntryUpdates
    <3> QED BY <2>2, <3>1, <3>2
  <2>7. Entry(w, sticky[k].refs - 1, TRUE) # NoEntry /\ sticky[k] # NoEntry
    <3>1. sticky[k].refs - 1 \in Int
      BY <2>5
    <3> QED BY <1>3, <3>1, EntryFields
  <2> HIDE DEF e, e0
  <2>8. EntrySent(s, w, e)
    <3>1. last => sticky[k].refs <= 1 \/ sticky[k].refs > 1
      BY <2>5
    <3> HIDE DEF last
    <3>2. \/ ~last /\ e = sticky[k]
          \/ last /\ sticky[k].refs <= 1 /\ ~HasForks(s) /\ e = NoEntry
          \/ /\ last /\ (sticky[k].refs > 1 \/ HasForks(s))
             /\ e = Entry(w, sticky[k].refs - 1, TRUE)
      BY <2>4, <2>6, <3>1
    <3> QED BY <1>3, <2>1, <3>2 DEF EntrySent, last
  <2>9. EvictsAtOnce(s, w) <=> e = NoEntry
    BY <1>3, <2>4, <2>6, <2>7
  <2> QED BY <1>3, <2>1, <2>3, <2>8, <2>9 DEF e
<1>4. CASE sticky[k] = NoEntry
  <2>1. w \in byLoad[minLoad] /\ w \in Up
    BY <1>1, <1>2, <1>4 DEF Candidates, LeastLoaded, LeastLoadIndexed
  <2>2. e0 = IF NeedsEntry(s) THEN Entry(w, 1, FALSE) ELSE NoEntry
    BY <1>1, <1>4 DEF EntryAtSend, Entry
  <2>3. Entry(w, 1, FALSE) # NoEntry /\ Entry(w, 0, TRUE) # NoEntry
    BY EntryFields, <1>0
  <2>4. Opens(s, w) <=> NeedsEntry(s)
    BY <1>4, <2>2, <2>3 DEF Opens
  <2>5. Closes(s, w) <=> last /\ NeedsEntry(s)
    BY <2>2, <2>3 DEF Closes
  <2>6. last /\ NeedsEntry(s) <=> last /\ HasForks(s)
    BY DEF NeedsEntry
  <2>7. ~EvictsAtOnce(s, w)
    BY <2>5, <2>6 DEF EvictsAtOnce
  <2>8. e = IF Closes(s, w) THEN [e0 EXCEPT !.refs = e0.refs - 1, !.finalSeen = TRUE] ELSE e0
    BY <2>7 DEF EntryAfterSend
  <2>9. NeedsEntry(s) => [e0 EXCEPT !.refs = e0.refs - 1, !.finalSeen = TRUE] = Entry(w, 0, TRUE)
    <3>1. CASE NeedsEntry(s)
      <4>1. e0 = Entry(w, 1, FALSE)
        BY <2>2, <3>1
      <4> HIDE DEF e0
      <4>2. e0 \in EntryType /\ e0.refs = 1 /\ e0.worker = w
        BY <4>1, <1>0, EntryFields
      <4>3. e0.refs - 1 = 0
        BY <4>2
      <4> QED BY <4>2, <4>3, <1>0, EntryUpdates
    <3> QED BY <3>1
  <2>10. e = IF ~NeedsEntry(s) THEN NoEntry
             ELSE IF last THEN Entry(w, 0, TRUE) ELSE Entry(w, 1, FALSE)
    BY <2>2, <2>5, <2>8, <2>9
  <2> HIDE DEF e, e0
  <2>11. EntrySent(s, w, e)
    BY <1>4, <2>1, <2>6, <2>10 DEF EntrySent
  <2> QED BY <1>4, <2>1, <2>4, <2>7, <2>11 DEF e
<1> QED BY <1>3, <1>4

\* A send, as the two books see it.
LEMMA SendSteps ==
  ASSUME TypeOK, CreditsAccounted, LeastLoadIndexed, StickyAccounted,
         NEW s \in Sessions, NEW w \in Workers, SendCredit(s, w)
  PROVE  /\ Indexed(w, load[w].inFlight, load[w].inFlight + 1)
         /\ load' \in [Workers -> LoadType]
         /\ load'[w].credits = load[w].credits \cup {s}
         /\ \A v \in Workers \ {w} : load'[v] = load[v]
         /\ Settles(RoutingKey(s), EntryAfterSend(s, w))
<1> DEFINE k == RoutingKey(s)
           l == load[w]
           e == EntryAfterSend(s, w)
           opened == IF Opens(s, w) THEN WithSession(l, k) ELSE l
           kept == IF EvictsAtOnce(s, w) THEN WithoutSession(opened, k) ELSE opened
           new == LoadAfterSend(s, w)
<1>1. /\ w \in Up /\ EntrySent(s, w, e)
      /\ EvictsAtOnce(s, w) => sticky[k] # NoEntry
      /\ Opens(s, w) <=> sticky[k] = NoEntry /\ NeedsEntry(s)
      /\ EvictsAtOnce(s, w) <=> sticky[k] # NoEntry /\ e = NoEntry
  BY SendEntries
<1>2. /\ k \in Roots /\ l \in LoadType /\ load \in [Workers -> LoadType]
  BY Keys DEF TypeOK, LoadType
<1>3. stage[s] # "wire" /\ worker' = worker /\ load' = [load EXCEPT ![w] = new]
      /\ sticky' = [sticky EXCEPT ![k] = e] /\ byLoad' = Move(w, l.inFlight, l.inFlight + 1)
  BY DEF SendCredit
<1>4. l.inFlight + 1 \in 0..MaxLoad
  BY <1>1, <1>3, RoomForOne
<1>5. new = [kept EXCEPT !.inFlight = kept.inFlight + 1, !.credits = kept.credits \cup {s}]
  BY DEF LoadAfterSend
<1>6. /\ l.sessions \in Int /\ l.ids \in SUBSET Roots /\ l.credits \in SUBSET Sessions
      /\ l.inFlight \in 0..MaxLoad
  BY <1>2 DEF LoadType
<1>7. /\ kept \in LoadType /\ kept.inFlight = l.inFlight /\ kept.credits = l.credits
      /\ Opens(s, w) => kept.sessions = l.sessions + 1 /\ kept.ids = l.ids \cup {k}
      /\ EvictsAtOnce(s, w) => kept.sessions = l.sessions - 1 /\ kept.ids = l.ids \ {k}
      /\ ~Opens(s, w) /\ ~EvictsAtOnce(s, w)
           => kept.sessions = l.sessions /\ kept.ids = l.ids
  <2>1. CASE Opens(s, w)
    <3>1. kept = [l EXCEPT !.sessions = l.sessions + 1, !.ids = l.ids \cup {k}]
      BY <1>1, <2>1 DEF WithSession
    <3> HIDE DEF l, kept, k
    <3>0. l.sessions + 1 \in Int /\ l.ids \cup {k} \in SUBSET Roots
      BY <1>2, <1>6
    <3>2. /\ kept \in LoadType /\ kept.inFlight = l.inFlight /\ kept.credits = l.credits
          /\ kept.sessions = l.sessions + 1 /\ kept.ids = l.ids \cup {k}
      BY <1>2, <1>6, <3>0, <3>1 DEF LoadType
    <3> QED BY <1>1, <2>1, <3>2 DEF k
  <2>2. CASE EvictsAtOnce(s, w)
    <3>1. kept = [l EXCEPT !.sessions = l.sessions - 1, !.ids = l.ids \ {k}]
      BY <1>1, <2>2 DEF WithoutSession
    <3> HIDE DEF l, kept, k
    <3>0. l.sessions - 1 \in Int /\ l.ids \ {k} \in SUBSET Roots
      BY <1>6
    <3>2. /\ kept \in LoadType /\ kept.inFlight = l.inFlight /\ kept.credits = l.credits
          /\ kept.sessions = l.sessions - 1 /\ kept.ids = l.ids \ {k}
      BY <1>2, <1>6, <3>0, <3>1 DEF LoadType
    <3> QED BY <1>1, <2>2, <3>2 DEF k
  <2>3. CASE ~Opens(s, w) /\ ~EvictsAtOnce(s, w)
    BY <1>2, <2>3
  <2> QED BY <2>1, <2>2, <2>3
<1> HIDE DEF kept, new, l, e
<1>8. /\ new \in LoadType /\ new.inFlight = l.inFlight + 1 /\ new.credits = l.credits \cup {s}
      /\ new.sessions = kept.sessions /\ new.ids = kept.ids
  BY <1>4, <1>5, <1>6, <1>7 DEF LoadType
<1>9. /\ load' \in [Workers -> LoadType] /\ load'[w] = new
      /\ \A v \in Workers \ {w} : load'[v] = load[v]
  BY <1>2, <1>3, <1>8
<1>10. Indexed(w, l.inFlight, l.inFlight + 1)
  <2>1. l.inFlight + 1 # l.inFlight
    BY <1>6
  <2> QED BY <1>1, <1>3, <1>4, <1>8, <1>9, <2>1 DEF Indexed, l
<1>11. Settles(k, e)
  <2>1. \A v \in Workers \ {w} : SameSessions(v)
    BY <1>9 DEF SameSessions
  <2>2. CASE Opens(s, w)
    <3>1. \/ e = Entry(w, 1, FALSE)
          \/ e = Entry(w, 0, TRUE)
      BY <1>1, <2>2 DEF EntrySent
    <3>2. e \in EntryType /\ e.worker = w
      <4>1. 0 \in Int /\ 1 \in Int
        OBVIOUS
      <4>2. /\ Entry(w, 1, FALSE) \in EntryType /\ Entry(w, 0, TRUE) \in EntryType
            /\ Entry(w, 1, FALSE).worker = w /\ Entry(w, 0, TRUE).worker = w
        BY <4>1, EntryFields
      <4> QED BY <3>1, <4>2
    <3>3. load'[w].sessions = load[w].sessions + 1 /\ load'[w].ids = load[w].ids \cup {k}
      BY <1>7, <1>8, <1>9, <2>2 DEF l
    <3>4. Opened(k, e, w)
      BY <1>1, <2>1, <2>2, <3>2, <3>3 DEF Opened
    <3> QED BY <1>3, <3>4 DEF Settles
  <2>3. CASE EvictsAtOnce(s, w)
    <3>1. load'[w].sessions = load[w].sessions - 1 /\ load'[w].ids = load[w].ids \ {k}
      BY <1>7, <1>8, <1>9, <2>3 DEF l
    <3>2. sticky[k].worker = w /\ sticky[k] # NoEntry /\ e = NoEntry
      BY <1>1, <2>3 DEF EntrySent
    <3>3. Closed(k, e, w)
      BY <1>1, <2>1, <3>1, <3>2 DEF Closed
    <3> QED BY <1>3, <3>3 DEF Settles
  <2>4. CASE ~Opens(s, w) /\ ~EvictsAtOnce(s, w)
    <3>1. load'[w].sessions = load[w].sessions /\ load'[w].ids = load[w].ids
      BY <1>7, <1>8, <1>9, <2>4 DEF l
    <3>2. \A v \in Workers : SameSessions(v)
      BY <2>1, <3>1 DEF SameSessions
    <3>3. \/ sticky[k] = NoEntry /\ e = NoEntry
          \/ sticky[k] # NoEntry /\ e \in EntryType /\ e.worker = sticky[k].worker
      <4>1. CASE sticky[k] = NoEntry
        <5>1. ~NeedsEntry(s)
          BY <1>1, <2>4, <4>1
        <5>2. HasForks(s) => NeedsEntry(s)
          BY DEF NeedsEntry
        <5>3. e = NoEntry
          BY <1>1, <4>1, <5>1, <5>2 DEF EntrySent
        <5> QED BY <4>1, <5>3
      <4>2. CASE sticky[k] # NoEntry
        <5>1. sticky[k] \in EntryType
          BY <1>2, <4>2, Keys
        <5>2. w = sticky[k].worker /\ (e = sticky[k] \/ e = Entry(w, sticky[k].refs - 1, TRUE))
          BY <1>1, <2>4, <4>2 DEF EntrySent
        <5>3. sticky[k].refs - 1 \in Int /\ TRUE \in BOOLEAN
          BY <5>1 DEF EntryType
        <5>4. /\ Entry(w, sticky[k].refs - 1, TRUE) \in EntryType
              /\ Entry(w, sticky[k].refs - 1, TRUE).worker = w
          BY <5>3, EntryFields
        <5> QED BY <4>2, <5>1, <5>2, <5>4
      <4> QED BY <4>1, <4>2
    <3> QED BY <1>3, <3>2, <3>3 DEF Settles, Changes
  <2> QED BY <2>2, <2>3, <2>4
<1> QED BY <1>8, <1>9, <1>10, <1>11 DEF l, e

-------------------------------------------------------------------------------
\* The entry of k when one more child of it is over.
EntryLessOne(k, e) ==
  \/ sticky[k] = NoEntry /\ e = NoEntry
  \/ /\ sticky[k] # NoEntry
     /\ sticky[k].refs <= 1 /\ sticky[k].finalSeen
     /\ e = NoEntry
  \/ /\ sticky[k] # NoEntry
     /\ ~(sticky[k].refs <= 1 /\ sticky[k].finalSeen)
     /\ e = Entry(sticky[k].worker, sticky[k].refs - 1, sticky[k].finalSeen)

ChildOver(c, e) ==
  IF branch[c].mode = "fork" THEN EntryLessOne(branch[c].parent, e)
                             ELSE e = sticky[branch[c].parent]

\* A child that is over gives its reservation back, at most its entry goes.
LEMMA ReleaseSteps ==
  ASSUME TypeOK, StickyAccounted, NEW c \in Children,
         NEW loads \in [Workers -> LoadType],
         \A v \in Workers : loads[v].sessions = load[v].sessions /\ loads[v].ids = load[v].ids,
         ReleaseRouting(c, loads)
  PROVE  /\ load' \in [Workers -> LoadType]
         /\ \A v \in Workers : /\ load'[v].inFlight = loads[v].inFlight
                               /\ load'[v].credits = loads[v].credits
         /\ branch[c].parent \in Roots
         /\ \E e : Settles(branch[c].parent, e) /\ ChildOver(c, e)
<1> DEFINE k == branch[c].parent
<1>1. k \in Roots /\ sticky \in [Roots -> EntryType \cup {NoEntry}]
  BY DEF TypeOK, EntryType
<1> HIDE DEF k
<1>2. CASE branch[c].mode # "fork"
  <2>1. load' = loads /\ sticky' = sticky
    BY <1>2 DEF ReleaseRouting
  <2>2. sticky' = [sticky EXCEPT ![k] = sticky[k]]
    BY <1>1, <2>1
  <2>3. Changes(k, sticky[k])
    BY <1>1, <2>1 DEF Changes, SameSessions
  <2> QED BY <1>1, <1>2, <2>1, <2>2, <2>3 DEF Settles, ChildOver, k
<1>3. CASE branch[c].mode = "fork"
  <2> DEFINE e == EntryReleased(k)
             w == sticky[k].worker
  <2>1. sticky' = [sticky EXCEPT ![k] = e] /\ load' = LoadsReleased(loads, k)
    BY <1>3 DEF ReleaseRouting, k
  <2>2. CASE sticky[k] = NoEntry
    <3>1. e = NoEntry /\ load' = loads
      BY <2>1, <2>2 DEF EntryReleased, LoadsReleased, EvictsAtRelease
    <3>2. Changes(k, e) /\ EntryLessOne(k, e)
      BY <2>2, <3>1 DEF Changes, SameSessions, EntryLessOne
    <3> QED BY <1>1, <1>3, <2>1, <3>1, <3>2 DEF Settles, ChildOver, k
  <2>3. CASE sticky[k] # NoEntry /\ ~EvictsAtRelease(k)
    <3>1. /\ sticky[k] \in EntryType /\ e = [sticky[k] EXCEPT !.refs = sticky[k].refs - 1]
          /\ load' = loads
      BY <1>1, <2>1, <2>3 DEF EntryReleased, LoadsReleased
    <3>2. sticky[k].refs - 1 \in Int /\ sticky[k].worker \in Workers
          /\ sticky[k].finalSeen \in BOOLEAN
      BY <3>1 DEF EntryType
    <3>3. e = Entry(w, sticky[k].refs - 1, sticky[k].finalSeen)
      BY <3>1, <3>2, EntryUpdates
    <3>4. e \in EntryType /\ e.worker = w
      <4> HIDE DEF e
      <4> QED BY <3>2, <3>3, EntryFields
    <3> HIDE DEF e
    <3>5. Changes(k, e)
      BY <2>3, <3>1, <3>4 DEF Changes, SameSessions
    <3>6. EntryLessOne(k, e)
      BY <2>3, <3>3 DEF EvictsAtRelease, EntryLessOne
    <3> QED BY <1>1, <1>3, <2>1, <3>1, <3>5, <3>6 DEF Settles, ChildOver, k
  <2>4. CASE sticky[k] # NoEntry /\ EvictsAtRelease(k)
    <3>1. w \in Up /\ w \in Workers
      BY <1>1, <2>4, Keys
    <3>2. e = NoEntry /\ load' = [loads EXCEPT ![w] = WithoutSession(loads[w], k)]
      BY <2>1, <2>4, <3>1 DEF EntryReleased, LoadsReleased
    <3>3. loads[w] \in LoadType /\ loads[w].sessions \in Int /\ loads[w].ids \in SUBSET Roots
      BY <3>1 DEF LoadType
    <3>4. loads[w].sessions - 1 \in Int /\ loads[w].ids \ {k} \in SUBSET Roots
      BY <3>3
    <3> DEFINE u == WithoutSession(loads[w], k)
    <3>5. u = [loads[w] EXCEPT !.sessions = loads[w].sessions - 1, !.ids = loads[w].ids \ {k}]
      BY DEF WithoutSession
    <3> HIDE DEF u, w, e
    <3>6. /\ u \in LoadType /\ u.inFlight = loads[w].inFlight /\ u.credits = loads[w].credits
          /\ u.sessions = loads[w].sessions - 1 /\ u.ids = loads[w].ids \ {k}
      BY <3>3, <3>4, <3>5 DEF LoadType
    <3>7. /\ load' \in [Workers -> LoadType] /\ load'[w] = u
          /\ \A v \in Workers \ {w} : load'[v] = loads[v]
      <4>1. load' = [loads EXCEPT ![w] = u]
        BY <3>2 DEF u
      <4> QED BY <3>1, <3>6, <4>1
    <3>8. \A v \in Workers : /\ load'[v].inFlight = loads[v].inFlight
                             /\ load'[v].credits = loads[v].credits
      BY <3>6, <3>7
    <3>9. Closed(k, e, w)
      BY <2>4, <3>1, <3>2, <3>6, <3>7 DEF Closed, SameSessions, w
    <3>10. EntryLessOne(k, e)
      BY <2>4, <3>2 DEF EvictsAtRelease, EntryLessOne
    <3> QED BY <1>1, <1>3, <2>1, <3>1, <3>7, <3>8, <3>9, <3>10 DEF Settles, ChildOver, k, e
  <2> QED BY <2>2, <2>3, <2>4
<1> QED BY <1>2, <1>3

\* A credit in flight at a worker is counted there.
LEMMA CountedInFlight ==
  ASSUME TypeOK, CreditsAccounted, NEW s \in Sessions, stage[s] = "wire", home[s] \in Up
  PROVE  load[home[s]].inFlight - 1 \in 0..MaxLoad
<1> DEFINE w == home[s]
<1>1. /\ load[w].credits = {x \in Sessions : stage[x] = "wire" /\ home[x] = w}
      /\ load[w].inFlight = Cardinality(load[w].credits)
      /\ load[w].inFlight \in 0..MaxLoad
  <2>1. w \in Workers
    BY DEF Up
  <2> QED BY <2>1 DEF CreditsAccounted, TypeOK
<1>2. s \in load[w].credits /\ load[w].credits \in SUBSET Sessions
  BY <1>1
<1>3. IsFiniteSet(load[w].credits)
  BY <1>2, FiniteSessions, FS_Subset
<1>4. Cardinality(load[w].credits) # 0
  BY <1>2, <1>3, FS_EmptySet
<1> HIDE DEF w
<1>5. load[w].inFlight - 1 \in 0..MaxLoad
  BY <1>1, <1>4, FiniteSessions
<1> QED BY <1>5 DEF w

\* The entry of the routing key after a return: a root's last turn registers the
\* children it forked, and a child's last one releases it.
EntryReturned(s, e) ==
  LET k == RoutingKey(s)
  IN  IF s \in Roots
        THEN \/ sticky[k] = NoEntry /\ e = NoEntry
             \/ /\ sticky[k] # NoEntry
                /\ e = Entry(sticky[k].worker, sticky[k].refs + Cardinality(Forks(s)),
                             sticky[k].finalSeen)
        ELSE IF IsFinalTurn(s) THEN ChildOver(s, e) ELSE e = sticky[k]

\* The load of the worker that returned the credit, if it is still there.
FlightEnds(s) ==
  IF home[s] \in Up
    THEN /\ Indexed(home[s], load[home[s]].inFlight, load[home[s]].inFlight - 1)
         /\ minLoad' = MinAfterReturned(home[s])
         /\ load'[home[s]].credits = load[home[s]].credits \ {s}
         /\ \A v \in Workers \ {home[s]} : SameFlights(v)
    ELSE UNCHANGED indexVars /\ \A v \in Workers : SameFlights(v)

\* A return, as the two books see it.
LEMMA ReturnedSteps ==
  ASSUME TypeOK, CreditsAccounted, LeastLoadIndexed, StickyAccounted,
         NEW s \in Sessions, CreditReturned(s)
  PROVE  /\ load' \in [Workers -> LoadType] /\ FlightEnds(s)
         /\ RoutingKey(s) \in Roots
         /\ \E e : Settles(RoutingKey(s), e) /\ EntryReturned(s, e)
<1> DEFINE loads == LoadsReturned(s)
           k == RoutingKey(s)
<1>1. /\ load \in [Workers -> LoadType] /\ k \in Roots /\ worker' = worker
      /\ stage[s] = "wire" /\ Roots \cap Children = {}
      /\ sticky \in [Roots -> EntryType \cup {NoEntry}]
      /\ IF home[s] \in Up
           THEN /\ byLoad' = Move(home[s], load[home[s]].inFlight, load[home[s]].inFlight - 1)
                /\ minLoad' = MinAfterReturned(home[s])
           ELSE UNCHANGED indexVars
  BY Keys, SetsAssumption DEF TypeOK, LoadType, EntryType, CreditReturned
<1>2. /\ loads \in [Workers -> LoadType]
      /\ \A v \in Workers : loads[v].sessions = load[v].sessions /\ loads[v].ids = load[v].ids
      /\ IF home[s] \in Up
           THEN /\ loads[home[s]].inFlight = load[home[s]].inFlight - 1
                /\ loads[home[s]].credits = load[home[s]].credits \ {s}
                /\ \A v \in Workers \ {home[s]} : loads[v] = load[v]
           ELSE loads = load
  <2>1. CASE home[s] \notin Up
    <3>1. loads = load
      BY <2>1 DEF LoadsReturned
    <3> QED BY <1>1, <2>1, <3>1
  <2>2. CASE home[s] \in Up
    <3> DEFINE w == home[s]
               l == load[w]
               u == [l EXCEPT !.inFlight = l.inFlight - 1, !.credits = l.credits \ {s}]
    <3>1. /\ w \in Workers /\ l \in LoadType /\ l.inFlight - 1 \in 0..MaxLoad
          /\ l.credits \ {s} \in SUBSET Sessions
      BY <1>1, <2>2, CountedInFlight DEF Up, LoadType
    <3>2. loads = [load EXCEPT ![w] = u]
      BY <1>1, <2>2, <3>1 DEF LoadsReturned
    <3> HIDE DEF l
    <3>3. /\ u \in LoadType /\ u.inFlight = l.inFlight - 1 /\ u.credits = l.credits \ {s}
          /\ u.sessions = l.sessions /\ u.ids = l.ids
      BY <3>1 DEF LoadType
    <3> HIDE DEF u
    <3>4. /\ loads \in [Workers -> LoadType] /\ loads[w] = u
          /\ \A v \in Workers \ {w} : loads[v] = load[v]
      BY <1>1, <3>1, <3>2, <3>3
    <3> HIDE DEF loads
    <3> QED BY <2>2, <3>3, <3>4 DEF l
  <2> QED BY <2>1, <2>2
<1>3. ASSUME \A v \in Workers : load'[v].inFlight = loads[v].inFlight
                                /\ load'[v].credits = loads[v].credits
      PROVE  FlightEnds(s)
  <2> HIDE DEF loads
  <2>1. CASE home[s] \notin Up
    BY <1>1, <1>2, <1>3, <2>1 DEF FlightEnds, SameFlights
  <2>2. CASE home[s] \in Up
    <3> DEFINE w == home[s]
               n == load[w].inFlight
    <3>1. /\ w \in Workers /\ n - 1 \in 0..MaxLoad /\ n \in 0..MaxLoad
      BY <1>1, <2>2, CountedInFlight DEF Up, LoadType
    <3>2. n - 1 # n
      BY <3>1
    <3>3. /\ load'[w].inFlight = n - 1 /\ load'[w].credits = load[w].credits \ {s}
          /\ \A v \in Workers \ {w} : SameFlights(v)
      BY <1>2, <1>3, <2>2, <3>1 DEF SameFlights
    <3>4. Indexed(w, n, n - 1)
      BY <1>1, <2>2, <3>1, <3>2, <3>3 DEF Indexed, SameFlights
    <3> QED BY <1>1, <2>2, <3>3, <3>4 DEF FlightEnds
  <2> QED BY <2>1, <2>2
<1>4. ASSUME load' = loads, \A v \in Workers : loads[v].sessions = load[v].sessions
                                               /\ loads[v].ids = load[v].ids
      PROVE  \A v \in Workers : SameSessions(v)
  <2> HIDE DEF loads
  <2> QED BY <1>4 DEF SameSessions
<1>5. CASE s \in Roots
  <2>1. load' = loads /\ RegisterForks(s) /\ k = s /\ s \notin Children
    BY <1>1, <1>5 DEF CreditReturned, RoutingKey
  <2>2. \A v \in Workers : SameSessions(v)
    BY <1>2, <1>4, <2>1
  <2>3. load' \in [Workers -> LoadType] /\ FlightEnds(s)
    BY <1>2, <1>3, <2>1
  <2>4. CASE sticky[s] = NoEntry
    <3>1. sticky' = sticky
      BY <2>4, <2>1 DEF RegisterForks
    <3>2. sticky' = [sticky EXCEPT ![k] = NoEntry] /\ Changes(k, NoEntry)
      BY <1>1, <2>1, <2>2, <2>4, <3>1 DEF Changes
    <3>3. EntryReturned(s, NoEntry)
      BY <1>5, <2>1, <2>4 DEF EntryReturned
    <3> QED BY <1>1, <2>3, <3>2, <3>3 DEF Settles
  <2>5. CASE sticky[s] # NoEntry
    <3> DEFINE n == sticky[s].refs + Cardinality(Forks(s))
               w == sticky[s].worker
               b == sticky[s].finalSeen
               e == Entry(w, n, b)
    <3>1. Cardinality(Forks(s)) \in Nat
      <4>1. IsFiniteSet(Forks(s))
        BY SetsAssumption, FS_Subset DEF Forks
      <4> QED BY <4>1, FS_CardinalityType
    <3>2. sticky[s] \in EntryType /\ n \in Int /\ w \in Workers /\ b \in BOOLEAN
      BY <1>1, <1>5, <2>5, <3>1 DEF EntryType
    <3>3. sticky' = [sticky EXCEPT ![s] = [sticky[s] EXCEPT !.refs = n]]
      BY <2>1, <2>5 DEF RegisterForks
    <3>4. [sticky[s] EXCEPT !.refs = n] = e /\ e \in EntryType /\ e.worker = w
      <4>1. e \in EntryType /\ e.worker = w
        <5> HIDE DEF n, w, b
        <5> QED BY <3>2, EntryFields
      <4>2. [sticky[s] EXCEPT !.refs = n] = e
        <5> HIDE DEF n
        <5> QED BY <3>2, EntryUpdates
      <4> QED BY <4>1, <4>2
    <3>5. sticky' = [sticky EXCEPT ![k] = e]
      BY <2>1, <3>3, <3>4
    <3>6. EntryReturned(s, e)
      BY <1>5, <2>1, <2>5 DEF EntryReturned
    <3>7. Changes(k, e)
      <4> HIDE DEF e
      <4> QED BY <2>1, <2>2, <2>5, <3>4 DEF Changes
    <3> QED BY <1>1, <2>3, <3>5, <3>6, <3>7 DEF Settles
  <2> QED BY <2>4, <2>5
<1>6. CASE s \in Children /\ ~IsFinalTurn(s)
  <2>1. load' = loads /\ sticky' = sticky /\ s \notin Roots
    BY <1>1, <1>6 DEF CreditReturned
  <2>2. \A v \in Workers : SameSessions(v)
    BY <1>2, <1>4, <2>1
  <2>3. load' \in [Workers -> LoadType] /\ FlightEnds(s)
    BY <1>2, <1>3, <2>1
  <2>4. sticky' = [sticky EXCEPT ![k] = sticky[k]] /\ Changes(k, sticky[k])
    BY <1>1, <2>1, <2>2 DEF Changes
  <2>5. EntryReturned(s, sticky[k])
    BY <1>6, <2>1 DEF EntryReturned
  <2> QED BY <1>1, <2>3, <2>4, <2>5 DEF Settles
<1>7. CASE s \in Children /\ IsFinalTurn(s)
  <2>1. ReleaseRouting(s, loads) /\ s \notin Roots /\ k = branch[s].parent
    BY <1>1, <1>7 DEF CreditReturned, RoutingKey
  <2>2. /\ load' \in [Workers -> LoadType]
        /\ \A v \in Workers : /\ load'[v].inFlight = loads[v].inFlight
                              /\ load'[v].credits = loads[v].credits
        /\ \E e : Settles(branch[s].parent, e) /\ ChildOver(s, e)
    BY <1>2, <1>7, <2>1, ReleaseSteps
  <2>3. FlightEnds(s)
    BY <1>3, <2>2
  <2> HIDE DEF k
  <2>4. \A e : ChildOver(s, e) => EntryReturned(s, e)
    BY <1>7, <2>1 DEF EntryReturned
  <2> QED BY <1>1, <2>1, <2>2, <2>3, <2>4 DEF k
<1> QED BY <1>5, <1>6, <1>7 DEF Sessions

-------------------------------------------------------------------------------
(***************************************************************************)
(* The invariant, part by part.                                            *)
(***************************************************************************)
\* The children that a returned turn branches into were not born before.
LEMMA BranchesAreNew ==
  ASSUME TypeOK, Progress, NEW s \in Sessions, stage[s] = "wire"
  PROVE  \A c \in Branches(s) : c \in Children /\ c # s /\ s \in Roots /\ stage[c] = "new"
<1>1. ASSUME NEW c \in Branches(s)
      PROVE  c \in Children /\ s \in Roots /\ stage[c] = "new"
  <2>1. c \in Children /\ branch[c].parent = s /\ branch[c].after = turn[s]
    BY DEF Branches
  <2>2. turn[s] \in Int /\ s \in Roots
    BY <2>1 DEF TypeOK
  <2>3. ~(turn[s] > turn[s])
    BY <2>2
  <2> QED BY <2>1, <2>2, <2>3 DEF Progress
<1>2. \A c \in Branches(s) : c # s
  BY <1>1, SetsAssumption
<1> QED BY <1>1, <1>2

\* What a return does to the sessions.
LEMMA ReturnedStages ==
  ASSUME TypeOK, Progress, NEW s \in Sessions, CreditReturned(s)
  PROVE  /\ stage[s] = "wire" /\ home' = home /\ worker' = worker /\ UNCHANGED planVars
         /\ stage'[s] = IF IsFinalTurn(s) THEN "over" ELSE "ready"
         /\ \A x \in Sessions : x # s /\ stage'[x] # stage[x]
                                 => x \in Branches(s) /\ stage[x] = "new" /\ stage'[x] = "ready"
         /\ \A x \in Branches(s) : stage'[x] = "ready"
         /\ \A x \in Sessions : x # s => turn'[x] = turn[x]
         /\ turn'[s] = IF IsFinalTurn(s) THEN turn[s] ELSE turn[s] + 1
<1>1. /\ stage[s] = "wire" /\ home' = home /\ worker' = worker /\ UNCHANGED planVars
      /\ stage' = [x \in Sessions |->
                 IF x = s THEN (IF IsFinalTurn(s) THEN "over" ELSE "ready")
                 ELSE IF x \in Branches(s) THEN "ready" ELSE stage[x]]
      /\ turn' = IF IsFinalTurn(s) THEN turn ELSE [turn EXCEPT ![s] = turn[s] + 1]
  BY DEF CreditReturned
<1>2. \A c \in Branches(s) : c \in Children /\ c # s /\ stage[c] = "new"
  BY <1>1, BranchesAreNew
<1>3. turn \in [Sessions -> 0..(NumTurns - 1)]
  BY DEF TypeOK
<1>4. /\ stage'[s] = IF IsFinalTurn(s) THEN "over" ELSE "ready"
      /\ \A x \in Branches(s) : stage'[x] = "ready"
      /\ \A x \in Sessions : x # s /\ stage'[x] # stage[x]
                                 => x \in Branches(s) /\ stage[x] = "new" /\ stage'[x] = "ready"
  BY <1>1, <1>2 DEF Sessions
<1>5. /\ \A x \in Sessions : x # s => turn'[x] = turn[x]
      /\ turn'[s] = IF IsFinalTurn(s) THEN turn[s] ELSE turn[s] + 1
  BY <1>1, <1>3
<1> QED BY <1>1, <1>4, <1>5

InFlightAt(w) == {s \in Sessions : stage[s] = "wire" /\ home[s] = w}

\* The credits counted at a worker are those in flight there.
LEMMA KeepsCredits ==
  ASSUME IInv, [Next]_vars
  PROVE  CreditsAccounted'
<1>1. /\ TypeOK /\ CreditsAccounted /\ LeastLoadIndexed /\ StickyAccounted /\ Progress /\ Homes
      /\ Up \subseteq Workers
  BY DEF IInv, Up
<1>2. ASSUME NEW w \in Up
      PROVE  /\ load[w].credits = InFlightAt(w) /\ load[w].inFlight = Cardinality(load[w].credits)
             /\ IsFiniteSet(load[w].credits)
  <2>1. load[w].credits = InFlightAt(w) /\ load[w].inFlight = Cardinality(load[w].credits)
    BY <1>1 DEF CreditsAccounted, InFlightAt
  <2>2. InFlightAt(w) \in SUBSET Sessions
    BY DEF InFlightAt
  <2> QED BY <2>1, <2>2, FiniteSessions, FS_Subset
<1>3. ASSUME \A w \in Up' : /\ load'[w].credits = InFlightAt(w)'
                            /\ load'[w].inFlight = Cardinality(load'[w].credits)
      PROVE  CreditsAccounted'
  BY <1>3, Zenon DEF CreditsAccounted, InFlightAt
<1>4. ASSUME NEW w \in Up, SameFlights(w), InFlightAt(w)' = InFlightAt(w)
      PROVE  /\ load'[w].credits = InFlightAt(w)'
             /\ load'[w].inFlight = Cardinality(load'[w].credits)
  BY <1>2, <1>4 DEF SameFlights
<1>5. ASSUME NEW s \in Sessions, NEW w \in Workers, SendCredit(s, w)
      PROVE  CreditsAccounted'
  <2>1. /\ stage[s] = "ready" /\ worker' = worker
        /\ stage' = [stage EXCEPT ![s] = "wire"] /\ home' = [home EXCEPT ![s] = w]
    BY <1>5 DEF SendCredit
  <2>2. /\ w \in Up /\ load'[w].inFlight = load[w].inFlight + 1
        /\ load'[w].credits = load[w].credits \cup {s}
        /\ \A v \in Workers \ {w} : load'[v] = load[v]
    BY <1>1, <1>5, SendSteps DEF Indexed
  <2>3. Up' = Up
    BY <2>1 DEF Up
  <2>4. stage \in [Sessions -> {"new", "ready", "wire", "over"}]
        /\ home \in [Sessions -> Workers \cup {NoWorker}]
    BY <1>1 DEF TypeOK
  <2>5. ASSUME NEW v \in Up
        PROVE  /\ load'[v].credits = InFlightAt(v)'
               /\ load'[v].inFlight = Cardinality(load'[v].credits)
    <3>1. CASE v = w
      <4>1. InFlightAt(w)' = InFlightAt(w) \cup {s} /\ s \notin InFlightAt(w)
        BY <2>1, <2>4 DEF InFlightAt
      <4>2. load'[w].credits = InFlightAt(w)' /\ s \notin load[w].credits
        BY <1>2, <2>2, <4>1
      <4>3. Cardinality(load'[w].credits) = Cardinality(load[w].credits) + 1
        <5>1. IsFiniteSet(load[w].credits) /\ load'[w].credits = load[w].credits \cup {s}
          BY <1>2, <2>2
        <5>2. s \notin load[w].credits
          BY <4>2
        <5>3. Cardinality(load[w].credits \cup {s}) = Cardinality(load[w].credits) + 1
          BY <5>1, <5>2, FS_AddElement, ZenonT(30)
        <5> QED BY <5>1, <5>3, ZenonT(30)
      <4> QED BY <1>2, <2>2, <3>1, <4>2, <4>3
    <3>2. CASE v # w
      <4>1. InFlightAt(v)' = InFlightAt(v)
        BY <2>1, <2>4, <3>2 DEF InFlightAt
      <4>2. SameFlights(v)
        BY <1>1, <2>2, <3>2 DEF SameFlights
      <4> QED BY <1>4, <4>1, <4>2
    <3> QED BY <3>1, <3>2
  <2> QED BY <1>3, <2>3, <2>5
<1>6. ASSUME NEW s \in Sessions, CreditReturned(s)
      PROVE  CreditsAccounted'
  <2>1. /\ FlightEnds(s) /\ stage[s] = "wire" /\ home' = home /\ stage'[s] # "wire"
        /\ \A x \in Sessions : x # s => (stage'[x] = "wire" <=> stage[x] = "wire")
        /\ worker' = worker
    BY <1>1, <1>6, ReturnedSteps, ReturnedStages
  <2>2. Up' = Up
    BY <2>1 DEF Up
  <2>3. ASSUME NEW v \in Up
        PROVE  /\ load'[v].credits = InFlightAt(v)'
               /\ load'[v].inFlight = Cardinality(load'[v].credits)
    <3>1. CASE v = home[s]
      <4>1. /\ load'[v].inFlight = load[v].inFlight - 1
            /\ load'[v].credits = load[v].credits \ {s}
        BY <2>1, <3>1 DEF FlightEnds, Indexed
      <4>2. InFlightAt(v)' = InFlightAt(v) \ {s} /\ s \in InFlightAt(v)
        BY <2>1, <3>1 DEF InFlightAt
      <4>3. load'[v].credits = InFlightAt(v)' /\ s \in load[v].credits
        BY <1>2, <4>1, <4>2
      <4>4. Cardinality(load'[v].credits) = Cardinality(load[v].credits) - 1
        <5>1. IsFiniteSet(load[v].credits) /\ load'[v].credits = load[v].credits \ {s}
          BY <1>2, <4>1
        <5>2. Cardinality(load[v].credits \ {s}) = Cardinality(load[v].credits) - 1
          BY <4>3, <5>1, FS_RemoveElement, ZenonT(30)
        <5> QED BY <5>1, <5>2, ZenonT(30)
      <4> QED BY <1>2, <4>1, <4>3, <4>4
    <3>2. CASE v # home[s]
      <4>1. SameFlights(v)
        BY <1>1, <2>1, <3>2 DEF FlightEnds
      <4>2. InFlightAt(v)' = InFlightAt(v)
        BY <2>1, <3>2 DEF InFlightAt
      <4> QED BY <1>4, <4>1, <4>2
    <3> QED BY <3>1, <3>2
  <2> QED BY <1>3, <2>2, <2>3
<1>7. ASSUME NEW c \in Children, ChildStopped(c)
      PROVE  CreditsAccounted'
  <2>1. /\ stage[c] = "ready" /\ stage' = [stage EXCEPT ![c] = "over"] /\ home' = home
        /\ worker' = worker /\ ReleaseRouting(c, load)
    BY <1>7 DEF ChildStopped
  <2>2. \A v \in Workers : SameFlights(v)
    <3>1. load \in [Workers -> LoadType]
      BY <1>1 DEF TypeOK, LoadType
    <3> QED BY <1>1, <2>1, <3>1, ReleaseSteps DEF SameFlights
  <2>3. \A v \in Up : InFlightAt(v)' = InFlightAt(v)
    <3>1. stage \in [Sessions -> {"new", "ready", "wire", "over"}] /\ c \in Sessions
      BY <1>1 DEF TypeOK, Sessions
    <3> QED BY <2>1, <3>1 DEF InFlightAt
  <2>4. Up' = Up
    BY <2>1 DEF Up
  <2> QED BY <1>1, <1>3, <1>4, <2>2, <2>3, <2>4
<1>8. ASSUME NEW w \in Workers, WorkerReady(w)
      PROVE  CreditsAccounted'
  <2>1. /\ worker[w] = "starting" /\ worker' = [worker EXCEPT ![w] = "up"]
        /\ load' = [load EXCEPT ![w] = NewLoad] /\ stage' = stage /\ home' = home
    BY <1>8 DEF WorkerReady, sessionVars
  <2>2. Up' = Up \cup {w} /\ w \notin Up
    BY <1>1, <2>1 DEF Up, TypeOK
  <2>3. /\ load'[w].credits = {} /\ load'[w].inFlight = 0
        /\ \A v \in Workers \ {w} : load'[v] = load[v]
    BY <1>1, <2>1 DEF TypeOK, NewLoad
  <2>4. \A v \in Workers : InFlightAt(v)' = InFlightAt(v)
    BY <2>1 DEF InFlightAt
  <2>5. InFlightAt(w) = {}
    BY <1>1, <2>1, NoWorkerAssumption DEF Homes, InFlightAt
  <2>6. ASSUME NEW v \in Up'
        PROVE  /\ load'[v].credits = InFlightAt(v)'
               /\ load'[v].inFlight = Cardinality(load'[v].credits)
    <3>1. CASE v = w
      BY <2>3, <2>4, <2>5, <3>1, FS_EmptySet
    <3>2. CASE v # w
      <4>1. v \in Up /\ SameFlights(v)
        BY <1>1, <2>2, <2>3, <3>2 DEF SameFlights
      <4> QED BY <1>1, <1>4, <2>4, <4>1
    <3> QED BY <3>1, <3>2
  <2> QED BY <1>3, <2>6
<1>9. ASSUME NEW w \in Workers, WorkerShutdown(w)
      PROVE  CreditsAccounted'
  <2>1. /\ worker' = [worker EXCEPT ![w] = "gone"]
        /\ load' = [load EXCEPT ![w] = NewLoad] /\ stage' = stage /\ home' = home
    BY <1>9 DEF WorkerShutdown, sessionVars
  <2>2. Up' = Up \ {w}
    BY <1>1, <2>1 DEF Up, TypeOK
  <2>3. \A v \in Workers \ {w} : SameFlights(v)
    BY <1>1, <2>1 DEF TypeOK, SameFlights
  <2>4. \A v \in Workers : InFlightAt(v)' = InFlightAt(v)
    BY <2>1 DEF InFlightAt
  <2> QED BY <1>1, <1>3, <1>4, <2>2, <2>3, <2>4
<1>10. CASE UNCHANGED vars
  BY <1>1, <1>10 DEF vars, sessionVars, CreditsAccounted, Up
<1> QED BY <1>5, <1>6, <1>7, <1>8, <1>9, <1>10 DEF Next

IndexTyped == byLoad \in [0..MaxLoad -> SUBSET Workers] /\ minLoad \in 0..MaxLoad

\* The index and the minimum agree with the loads.
LEMMA KeepsIndex ==
  ASSUME IInv, [Next]_vars
  PROVE  LeastLoadIndexed' /\ IndexTyped'
<1>1. /\ TypeOK /\ CreditsAccounted /\ LeastLoadIndexed /\ StickyAccounted /\ Progress /\ Homes
      /\ Up \subseteq Workers /\ IndexTyped
  BY DEF IInv, Up, TypeOK, IndexTyped
<1>2. MaxLoad \in Nat /\ \A w \in Workers : load[w].inFlight \in 0..MaxLoad
  BY <1>1, FiniteSessions DEF TypeOK
<1>3. ASSUME UNCHANGED indexVars, Up' = Up, \A w \in Workers : SameFlights(w)
      PROVE  LeastLoadIndexed' /\ IndexTyped'
  <2>1. \A w \in Up : load'[w].inFlight = load[w].inFlight
    BY <1>1, <1>3 DEF SameFlights
  <2>2. LeastLoadIndexed'
    BY <1>1, <1>3, <2>1 DEF LeastLoadIndexed, indexVars
  <2> QED BY <1>1, <1>3, <2>2 DEF IndexTyped, indexVars
<1>4. ASSUME NEW s \in Sessions, NEW w \in Workers, SendCredit(s, w)
      PROVE  LeastLoadIndexed' /\ IndexTyped'
  <2>1. Indexed(w, load[w].inFlight, load[w].inFlight + 1) /\ minLoad' = MinAfterSent(w)
    BY <1>1, <1>4, SendSteps DEF SendCredit
  <2> QED BY <1>1, <2>1, IndexAfterSend DEF IndexTyped
<1>5. ASSUME NEW s \in Sessions, CreditReturned(s)
      PROVE  LeastLoadIndexed' /\ IndexTyped'
  <2>1. FlightEnds(s) /\ worker' = worker
    BY <1>1, <1>5, ReturnedSteps DEF CreditReturned
  <2>2. CASE home[s] \in Up
    <3>1. /\ Indexed(home[s], load[home[s]].inFlight, load[home[s]].inFlight - 1)
          /\ minLoad' = MinAfterReturned(home[s]) /\ home[s] \in Workers
      BY <1>1, <2>1, <2>2 DEF FlightEnds
    <3> QED BY <1>1, <3>1, IndexAfterReturn DEF IndexTyped
  <2>3. CASE home[s] \notin Up
    BY <1>3, <2>1, <2>3 DEF FlightEnds, Up
  <2> QED BY <2>2, <2>3
<1>6. ASSUME NEW c \in Children, ChildStopped(c)
      PROVE  LeastLoadIndexed' /\ IndexTyped'
  <2>1. load \in [Workers -> LoadType] /\ ReleaseRouting(c, load) /\ worker' = worker
        /\ UNCHANGED indexVars
    BY <1>1, <1>6 DEF TypeOK, LoadType, ChildStopped
  <2>2. \A v \in Workers : SameFlights(v)
    BY <1>1, <2>1, ReleaseSteps DEF SameFlights
  <2> QED BY <1>3, <2>1, <2>2 DEF Up
<1>7. ASSUME NEW w \in Workers, WorkerReady(w)
      PROVE  LeastLoadIndexed' /\ IndexTyped'
  <2>1. /\ worker[w] = "starting" /\ worker' = [worker EXCEPT ![w] = "up"]
        /\ load' = [load EXCEPT ![w] = NewLoad] /\ minLoad' = 0
        /\ byLoad' = [byLoad EXCEPT ![0] = byLoad[0] \cup {w}]
    BY <1>7 DEF WorkerReady
  <2>2. Up' = Up \cup {w} /\ w \notin Up
    BY <1>1, <2>1 DEF Up, TypeOK
  <2>3. /\ load'[w].inFlight = 0 /\ \A v \in Workers \ {w} : load'[v] = load[v]
    BY <1>1, <2>1 DEF TypeOK, NewLoad
  <2>4. /\ byLoad' \in [0..MaxLoad -> SUBSET Workers] /\ byLoad'[0] = byLoad[0] \cup {w}
        /\ \A n \in 0..MaxLoad : n # 0 => byLoad'[n] = byLoad[n]
    BY <1>1, <1>2, <2>1 DEF IndexTyped
  <2>5. \A n \in 0..MaxLoad : byLoad'[n] = {v \in Up' : load'[v].inFlight = n}
    <3>1. TAKE n \in 0..MaxLoad
    <3>2. byLoad[n] = {v \in Up : load[v].inFlight = n}
      BY <1>1 DEF LeastLoadIndexed
    <3>3. {v \in Up' : load'[v].inFlight = n}
             = IF n = 0 THEN byLoad[n] \cup {w} ELSE byLoad[n]
      BY <1>1, <2>2, <2>3, <3>2
    <3> QED BY <1>2, <2>4, <3>3
  <2>6. \A v \in Up' : minLoad' <= load'[v].inFlight
    <3>1. \A v \in Up' : load'[v].inFlight \in 0..MaxLoad
      BY <1>1, <1>2, <2>2, <2>3
    <3> QED BY <1>2, <2>1, <3>1
  <2>7. byLoad'[minLoad'] # {} /\ minLoad' \in 0..MaxLoad
    BY <1>2, <2>1, <2>4
  <2>8. LeastLoadIndexed'
    BY <2>5, <2>6, <2>7, Zenon DEF LeastLoadIndexed
  <2> QED BY <2>4, <2>7, <2>8 DEF IndexTyped
<1>8. ASSUME NEW w \in Workers, WorkerShutdown(w)
      PROVE  LeastLoadIndexed' /\ IndexTyped'
  <2> DEFINE n0 == load[w].inFlight
             rest == Up \ {w}
  <2>1. /\ w \in Up /\ worker' = [worker EXCEPT ![w] = "gone"]
        /\ load' = [load EXCEPT ![w] = NewLoad]
        /\ byLoad' = [byLoad EXCEPT ![n0] = byLoad[n0] \ {w}]
        /\ minLoad' = IF n0 = minLoad /\ byLoad[minLoad] \subseteq {w}
                        THEN LowestLoad(rest) ELSE minLoad
    BY <1>8 DEF WorkerShutdown, Up
  <2>2. Up' = rest
    BY <1>1, <2>1 DEF Up, TypeOK
  <2>3. \A v \in rest : load'[v] = load[v]
    BY <1>1, <2>1 DEF TypeOK
  <2>4. /\ byLoad' \in [0..MaxLoad -> SUBSET Workers] /\ byLoad'[n0] = byLoad[n0] \ {w}
        /\ \A n \in 0..MaxLoad : n # n0 => byLoad'[n] = byLoad[n]
    BY <1>1, <1>2, <2>1 DEF IndexTyped
  <2>5. \A n \in 0..MaxLoad : byLoad'[n] = {v \in rest : load'[v].inFlight = n}
    <3>1. TAKE n \in 0..MaxLoad
    <3>2. byLoad[n] = {v \in Up : load[v].inFlight = n}
      BY <1>1 DEF LeastLoadIndexed
    <3>3. {v \in rest : load'[v].inFlight = n} = byLoad[n] \ {w}
      BY <2>3, <3>2
    <3>4. n # n0 => w \notin byLoad[n]
      BY <3>2
    <3> QED BY <2>4, <3>3, <3>4
  <2>6. CASE rest = {}
    <3>1. minLoad' \in 0..MaxLoad
      <4>1. LowestLoad(rest) = 0
        BY <2>6 DEF LowestLoad
      <4> QED BY <1>1, <1>2, <2>1, <4>1 DEF IndexTyped
    <3>2. LeastLoadIndexed'
      BY <2>2, <2>5, <2>6, <3>1, Zenon DEF LeastLoadIndexed
    <3> QED BY <2>4, <3>1, <3>2 DEF IndexTyped
  <2>7. CASE rest # {}
    <3> DEFINE least == LowestLoad(rest)
    <3>1. /\ least \in 0..MaxLoad /\ \E v \in rest : load[v].inFlight = least
          /\ \A v \in rest : least <= load[v].inFlight
      <4> DEFINE S == {load[v].inFlight : v \in rest}
      <4>1. S \in SUBSET Nat /\ S # {} /\ \A n \in S : n \in 0..MaxLoad
        BY <1>1, <1>2, <2>7
      <4>2. PICK n \in S : \A m \in S : n <= m
        BY <4>1, LeastOfLoads
      <4>3. n \in 0..MaxLoad /\ (\E v \in rest : load[v].inFlight = n)
            /\ \A v \in rest : n <= load[v].inFlight
        BY <4>1, <4>2
      <4>4. least = CHOOSE i \in 0..MaxLoad : /\ \E v \in rest : load[v].inFlight = i
                                              /\ \A v \in rest : i <= load[v].inFlight
        BY <2>7 DEF LowestLoad
      <4> HIDE DEF least
      <4> QED BY <4>3, <4>4, Zenon
    <3>2. /\ byLoad[minLoad] # {} /\ minLoad \in 0..MaxLoad
          /\ \A v \in rest : minLoad <= load[v].inFlight
          /\ \A v \in byLoad[minLoad] : v \in Up /\ load[v].inFlight = minLoad
      BY <1>1, <2>1 DEF LeastLoadIndexed, IndexTyped
    <3> HIDE DEF least
    <3>3. /\ minLoad' \in 0..MaxLoad /\ \E v \in rest : load'[v].inFlight = minLoad'
          /\ \A v \in rest : minLoad' <= load'[v].inFlight
      <4>1. CASE n0 = minLoad /\ byLoad[minLoad] \subseteq {w}
        BY <2>1, <2>3, <3>1, <4>1 DEF least
      <4>2. CASE ~(n0 = minLoad /\ byLoad[minLoad] \subseteq {w})
        <5>1. minLoad' = minLoad
          BY <2>1, <4>2
        <5>2. \E v \in byLoad[minLoad] : v # w
          BY <3>2, <4>2
        <5> QED BY <2>3, <3>2, <5>1, <5>2
      <4> QED BY <4>1, <4>2
    <3>4. byLoad'[minLoad'] # {}
      BY <2>5, <3>3
    <3>5. LeastLoadIndexed'
      BY <2>2, <2>5, <3>3, <3>4, Zenon DEF LeastLoadIndexed
    <3> QED BY <2>4, <3>3, <3>5 DEF IndexTyped
  <2> QED BY <2>6, <2>7
<1>9. CASE UNCHANGED vars
  BY <1>3, <1>9 DEF vars, Up, SameFlights
<1> QED BY <1>4, <1>5, <1>6, <1>7, <1>8, <1>9 DEF Next

\* The entries and the workers' charges agree.
LEMMA KeepsSticky ==
  ASSUME IInv, [Next]_vars
  PROVE  StickyAccounted' /\ sticky' \in [Roots -> EntryType \cup {NoEntry}]
<1>1. /\ TypeOK /\ CreditsAccounted /\ LeastLoadIndexed /\ StickyAccounted
      /\ Up \subseteq Workers /\ sticky \in [Roots -> EntryType \cup {NoEntry}]
  BY DEF IInv, Up, TypeOK, EntryType
<1>2. ASSUME worker' = worker, \E k \in Roots : \E e : Settles(k, e)
      PROVE  StickyAccounted' /\ sticky' \in [Roots -> EntryType \cup {NoEntry}]
  BY <1>1, <1>2, SettledAccounts
<1>3. ASSUME NEW s \in Sessions, NEW w \in Workers, SendCredit(s, w)
      PROVE  StickyAccounted' /\ sticky' \in [Roots -> EntryType \cup {NoEntry}]
  <2>1. RoutingKey(s) \in Roots /\ Settles(RoutingKey(s), EntryAfterSend(s, w))
    BY <1>1, <1>3, SendSteps, Keys
  <2>2. worker' = worker
    BY <1>3 DEF SendCredit
  <2> QED BY <1>2, <2>1, <2>2
<1>4. ASSUME NEW s \in Sessions, CreditReturned(s)
      PROVE  StickyAccounted' /\ sticky' \in [Roots -> EntryType \cup {NoEntry}]
  <2>1. RoutingKey(s) \in Roots /\ \E e : Settles(RoutingKey(s), e)
    BY <1>1, <1>4, ReturnedSteps
  <2>2. worker' = worker
    BY <1>4 DEF CreditReturned
  <2> QED BY <1>2, <2>1, <2>2
<1>5. ASSUME NEW c \in Children, ChildStopped(c)
      PROVE  StickyAccounted' /\ sticky' \in [Roots -> EntryType \cup {NoEntry}]
  <2>1. load \in [Workers -> LoadType] /\ ReleaseRouting(c, load) /\ worker' = worker
    BY <1>1, <1>5 DEF TypeOK, LoadType, ChildStopped
  <2>2. branch[c].parent \in Roots /\ \E e : Settles(branch[c].parent, e)
    BY <1>1, <2>1, ReleaseSteps
  <2> QED BY <1>2, <2>1, <2>2
<1>6. ASSUME NEW w \in Workers, WorkerReady(w)
      PROVE  StickyAccounted' /\ sticky' \in [Roots -> EntryType \cup {NoEntry}]
  <2>1. /\ worker[w] = "starting" /\ worker' = [worker EXCEPT ![w] = "up"]
        /\ load' = [load EXCEPT ![w] = NewLoad] /\ sticky' = sticky
    BY <1>6 DEF WorkerReady
  <2>2. Up' = Up \cup {w} /\ w \notin Up
    BY <1>1, <2>1 DEF Up, TypeOK
  <2>3. /\ load'[w].ids = {} /\ load'[w].sessions = 0
        /\ \A v \in Workers \ {w} : load'[v] = load[v]
    BY <1>1, <2>1 DEF TypeOK, NewLoad
  <2>4. ASSUME NEW v \in Up'
        PROVE  /\ load'[v].ids = {k \in Roots : sticky'[k] # NoEntry /\ sticky'[k].worker = v}
               /\ load'[v].sessions = Cardinality(load'[v].ids)
    <3>1. CASE v = w
      <4>1. {k \in Roots : sticky'[k] # NoEntry /\ sticky'[k].worker = v} = {}
        BY <1>1, <2>1, <2>2, <3>1 DEF StickyAccounted
      <4> QED BY <2>3, <3>1, <4>1, FS_EmptySet
    <3>2. CASE v # w
      <4>1. v \in Up /\ load'[v] = load[v]
        BY <1>1, <2>2, <2>3, <3>2
      <4> QED BY <1>1, <2>1, <4>1 DEF StickyAccounted
    <3> QED BY <3>1, <3>2
  <2>5. \A k \in Roots : sticky'[k] # NoEntry => sticky'[k].worker \in Up'
    BY <1>1, <2>1, <2>2 DEF StickyAccounted
  <2>6. StickyAccounted'
    BY <2>4, <2>5, Zenon DEF StickyAccounted
  <2> QED BY <1>1, <2>1, <2>6
<1>7. ASSUME NEW w \in Workers, WorkerShutdown(w)
      PROVE  StickyAccounted' /\ sticky' \in [Roots -> EntryType \cup {NoEntry}]
  <2>1. /\ worker' = [worker EXCEPT ![w] = "gone"] /\ w \in Up
        /\ load' = [load EXCEPT ![w] = NewLoad]
        /\ sticky' = [k \in Roots |-> IF k \in load[w].ids THEN NoEntry ELSE sticky[k]]
    BY <1>7 DEF WorkerShutdown, Up
  <2>2. Up' = Up \ {w}
    BY <1>1, <2>1 DEF Up, TypeOK
  <2>3. \A v \in Workers \ {w} : load'[v] = load[v]
    BY <1>1, <2>1 DEF TypeOK
  <2>4. load[w].ids = {k \in Roots : sticky[k] # NoEntry /\ sticky[k].worker = w}
    BY <1>1, <2>1 DEF StickyAccounted
  <2>5. \A k \in Roots : sticky'[k] # NoEntry
                           => sticky'[k] = sticky[k] /\ sticky[k].worker # w
    BY <2>1, <2>4
  <2>6. \A k \in Roots : sticky[k] # NoEntry /\ sticky[k].worker # w => sticky'[k] = sticky[k]
    BY <2>1, <2>4
  <2>7. ASSUME NEW v \in Up'
        PROVE  /\ load'[v].ids = {k \in Roots : sticky'[k] # NoEntry /\ sticky'[k].worker = v}
               /\ load'[v].sessions = Cardinality(load'[v].ids)
    <3>1. v \in Up /\ v # w /\ load'[v] = load[v]
      BY <1>1, <2>2, <2>3
    <3>2. /\ load[v].ids = {k \in Roots : sticky[k] # NoEntry /\ sticky[k].worker = v}
          /\ load[v].sessions = Cardinality(load[v].ids)
      BY <1>1, <3>1 DEF StickyAccounted
    <3>3. \A k \in Roots : sticky'[k] # NoEntry /\ sticky'[k].worker = v
                             <=> sticky[k] # NoEntry /\ sticky[k].worker = v
      BY <2>5, <2>6, <3>1
    <3> QED BY <3>1, <3>2, <3>3
  <2>8. \A k \in Roots : sticky'[k] # NoEntry => sticky'[k].worker \in Up'
    BY <1>1, <2>2, <2>5 DEF StickyAccounted
  <2>9. StickyAccounted'
    BY <2>7, <2>8, Zenon DEF StickyAccounted
  <2> QED BY <1>1, <2>1, <2>9
<1>8. CASE UNCHANGED vars
  BY <1>1, <1>8 DEF vars, StickyAccounted, Up
<1> QED BY <1>3, <1>4, <1>5, <1>6, <1>7, <1>8 DEF Next

\* What the environment does to a session's turns and its home.
LEMMA KeepsTypes ==
  ASSUME IInv, [Next]_vars
  PROVE  TypeOK'
<1>1. /\ TypeOK /\ CreditsAccounted /\ LeastLoadIndexed /\ StickyAccounted /\ Progress
      /\ load \in [Workers -> LoadType] /\ MaxLoad \in Nat /\ NumTurns \in Nat
  BY FiniteSessions, TurnsAssumption DEF IInv, TypeOK, LoadType
<1>2. ASSUME UNCHANGED planVars, stage' \in [Sessions -> {"new", "ready", "wire", "over"}],
             turn' \in [Sessions -> 0..(NumTurns - 1)],
             home' \in [Sessions -> Workers \cup {NoWorker}],
             worker' \in [Workers -> {"starting", "up", "gone"}],
             load' \in [Workers -> LoadType]
      PROVE  TypeOK'
  <2>1. IndexTyped' /\ sticky' \in [Roots -> EntryType \cup {NoEntry}]
    BY KeepsIndex, KeepsSticky
  <2> QED BY <1>1, <1>2, <2>1 DEF TypeOK, planVars, IndexTyped, LoadType, EntryType
<1>3. /\ stage \in [Sessions -> {"new", "ready", "wire", "over"}]
      /\ turn \in [Sessions -> 0..(NumTurns - 1)] /\ turns \in [Sessions -> 1..NumTurns]
      /\ home \in [Sessions -> Workers \cup {NoWorker}]
      /\ worker \in [Workers -> {"starting", "up", "gone"}]
  BY <1>1 DEF TypeOK
<1>4. ASSUME NEW s \in Sessions, NEW w \in Workers, SendCredit(s, w)
      PROVE  TypeOK'
  <2>1. load' \in [Workers -> LoadType]
    BY <1>1, <1>4, SendSteps
  <2>2. /\ stage' = [stage EXCEPT ![s] = "wire"] /\ home' = [home EXCEPT ![s] = w]
        /\ UNCHANGED planVars /\ turn' = turn /\ worker' = worker
    BY <1>4 DEF SendCredit
  <2> QED BY <1>2, <1>3, <2>1, <2>2
<1>5. ASSUME NEW s \in Sessions, CreditReturned(s)
      PROVE  TypeOK'
  <2>1. load' \in [Workers -> LoadType]
    BY <1>1, <1>5, ReturnedSteps
  <2>2. /\ stage' = [x \in Sessions |->
                 IF x = s THEN (IF IsFinalTurn(s) THEN "over" ELSE "ready")
                 ELSE IF x \in Branches(s) THEN "ready" ELSE stage[x]]
        /\ turn' = IF IsFinalTurn(s) THEN turn ELSE [turn EXCEPT ![s] = turn[s] + 1]
        /\ UNCHANGED planVars /\ home' = home /\ worker' = worker
    BY <1>5 DEF CreditReturned
  <2>3. stage' \in [Sessions -> {"new", "ready", "wire", "over"}]
    BY <1>3, <2>2
  <2>4. ~IsFinalTurn(s) => turn[s] + 1 \in 0..(NumTurns - 1)
    <3>1. turn[s] < turns[s] /\ turn[s] \in 0..(NumTurns - 1) /\ turns[s] \in 1..NumTurns
      BY <1>1, <1>3 DEF Progress
    <3> QED BY <1>1, <3>1 DEF IsFinalTurn
  <2>5. turn' \in [Sessions -> 0..(NumTurns - 1)]
    BY <1>3, <2>2, <2>4
  <2> QED BY <1>2, <1>3, <2>1, <2>2, <2>3, <2>5
<1>6. ASSUME NEW c \in Children, ChildStopped(c)
      PROVE  TypeOK'
  <2>1. ReleaseRouting(c, load) /\ UNCHANGED <<planVars, turn, home, worker>>
        /\ stage' = [stage EXCEPT ![c] = "over"]
    BY <1>6 DEF ChildStopped
  <2>2. load' \in [Workers -> LoadType]
    BY <1>1, <2>1, ReleaseSteps
  <2> QED BY <1>2, <1>3, <2>1, <2>2
<1>7. NewLoad \in LoadType
  BY <1>1 DEF NewLoad, LoadType
<1>8. ASSUME NEW w \in Workers, WorkerReady(w) \/ WorkerShutdown(w)
      PROVE  TypeOK'
  <2>1. /\ UNCHANGED <<planVars, stage, turn, home>>
        /\ worker' = [worker EXCEPT ![w] = "up"] \/ worker' = [worker EXCEPT ![w] = "gone"]
        /\ load' = [load EXCEPT ![w] = NewLoad]
    BY <1>8 DEF WorkerReady, WorkerShutdown, sessionVars
  <2> QED BY <1>1, <1>2, <1>3, <1>7, <2>1
<1>9. CASE UNCHANGED vars
  BY <1>1, <1>2, <1>3, <1>9 DEF vars, sessionVars
<1> QED BY <1>4, <1>5, <1>6, <1>8, <1>9 DEF Next

\* Turns and births.
LEMMA KeepsProgress ==
  ASSUME IInv, [Next]_vars
  PROVE  Progress'
<1>1. TypeOK /\ Progress /\ Roots \cap Children = {}
  BY SetsAssumption DEF IInv
<1>2. /\ stage \in [Sessions -> {"new", "ready", "wire", "over"}]
      /\ \A x \in Sessions : turn[x] \in Nat /\ turns[x] \in Nat
      /\ \A c \in Children : /\ branch[c].parent \in Roots /\ branch[c].parent \in Sessions
                             /\ c \in Sessions /\ branch[c].after \in Nat
      /\ Roots \subseteq Sessions
  BY <1>1 DEF TypeOK, Sessions
<1>3. ASSUME UNCHANGED <<planVars, turn>>,
             \A x \in Sessions : /\ stage'[x] = "new" <=> stage[x] = "new"
                                 /\ x \in Roots => (stage'[x] = "over" <=> stage[x] = "over")
      PROVE  Progress'
  BY <1>1, <1>2, <1>3 DEF Progress, ForksAtTheEnd, IsFinalTurn, planVars
<1>4. ASSUME NEW s \in Sessions, NEW w \in Workers, SendCredit(s, w)
      PROVE  Progress'
  <2>1. /\ UNCHANGED <<planVars, turn>> /\ stage' = [stage EXCEPT ![s] = "wire"]
        /\ stage[s] = "ready"
    BY <1>4 DEF SendCredit
  <2> QED BY <1>2, <1>3, <2>1
<1>5. ASSUME NEW c \in Children, ChildStopped(c)
      PROVE  Progress'
  <2>1. /\ UNCHANGED <<planVars, turn>> /\ stage' = [stage EXCEPT ![c] = "over"]
        /\ stage[c] = "ready" /\ c \notin Roots
    BY <1>1, <1>5 DEF ChildStopped
  <2> QED BY <1>2, <1>3, <2>1
<1>6. ASSUME NEW s \in Sessions, CreditReturned(s)
      PROVE  Progress'
  <2>1. /\ stage[s] = "wire" /\ UNCHANGED planVars
        /\ stage'[s] = IF IsFinalTurn(s) THEN "over" ELSE "ready"
        /\ \A x \in Sessions : x # s /\ stage'[x] # stage[x]
                                => x \in Branches(s) /\ stage[x] = "new" /\ stage'[x] = "ready"
        /\ \A x \in Sessions : x # s => turn'[x] = turn[x]
        /\ turn'[s] = IF IsFinalTurn(s) THEN turn[s] ELSE turn[s] + 1
    BY <1>1, <1>6, ReturnedStages
  <2>2. UNCHANGED <<turns, branch>> /\ ForksAtTheEnd'
    BY <1>1, <2>1 DEF planVars, Progress, ForksAtTheEnd
  <2>3. \A x \in Sessions : turn'[x] < turns'[x]
    <3>1. turn'[s] < turns[s]
      BY <1>1, <1>2, <2>1 DEF Progress, IsFinalTurn
    <3> QED BY <1>1, <2>1, <2>2, <3>1 DEF Progress
  <2>4. ASSUME NEW r \in Roots
        PROVE  stage'[r] # "new" /\ (stage'[r] = "over" => IsFinalTurn(r)')
    <3>1. CASE r = s
      BY <1>2, <2>1, <2>2, <3>1 DEF IsFinalTurn
    <3>2. CASE r # s
      <4>1. r \notin Branches(s)
        BY <1>1 DEF Branches
      <4>2. stage'[r] = stage[r] /\ turn'[r] = turn[r]
        BY <1>2, <2>1, <3>2, <4>1
      <4> QED BY <1>1, <2>2, <4>2 DEF Progress, IsFinalTurn
    <3> QED BY <3>1, <3>2
  <2>5. ASSUME NEW c \in Children, stage'[c] # "new"
        PROVE  \/ turn'[branch'[c].parent] > branch'[c].after
               \/ stage'[branch'[c].parent] = "over"
    <3> DEFINE p == branch[c].parent
    <3>1. p \in Sessions /\ p \in Roots /\ c \in Sessions /\ turn[p] \in Nat
          /\ branch[c].after \in Nat
      BY <1>2
    <3>2. CASE stage[c] # "new"
      <4>1. turn[p] > branch[c].after \/ stage[p] = "over"
        BY <1>1, <3>2 DEF Progress
      <4>2. turn'[p] >= turn[p]
        BY <2>1, <3>1
      <4>3. stage[p] = "over" => stage'[p] = "over"
        BY <2>1, <3>1
      <4>4. turn'[p] \in Nat
        BY <2>1, <3>1
      <4> HIDE DEF p
      <4>5. turn'[p] > branch[c].after \/ stage'[p] = "over"
        BY <3>1, <4>1, <4>2, <4>3, <4>4
      <4> QED BY <2>2, <4>5 DEF p
    <3>3. CASE stage[c] = "new"
      <4>1. c \in Branches(s)
        BY <2>1, <2>5, <3>1, <3>3
      <4>2. p = s /\ branch[c].after = turn[s]
        BY <4>1 DEF Branches
      <4> QED BY <2>1, <2>2, <3>1, <4>2
    <3> QED BY <3>2, <3>3
  <2> QED BY <2>2, <2>3, <2>4, <2>5 DEF Progress
<1>7. ASSUME NEW w \in Workers, WorkerReady(w) \/ WorkerShutdown(w)
      PROVE  Progress'
  BY <1>3, <1>7 DEF WorkerReady, WorkerShutdown, sessionVars
<1>8. CASE UNCHANGED vars
  BY <1>3, <1>8 DEF vars, sessionVars
<1> QED BY <1>4, <1>5, <1>6, <1>7, <1>8 DEF Next

\* Homes.
LEMMA KeepsHomes ==
  ASSUME IInv, [Next]_vars
  PROVE  Homes'
<1>1. TypeOK /\ Progress /\ Homes /\ LeastLoadIndexed /\ StickyAccounted
      /\ Roots \cap Children = {} /\ CreditsAccounted
  BY SetsAssumption DEF IInv
<1>2. /\ stage \in [Sessions -> {"new", "ready", "wire", "over"}]
      /\ home \in [Sessions -> Workers \cup {NoWorker}] /\ NoWorker \notin Workers
      /\ worker \in [Workers -> {"starting", "up", "gone"}]
      /\ \A x \in Sessions : turn[x] \in Nat
      /\ Roots \subseteq Sessions /\ Children \subseteq Sessions
  BY <1>1, NoWorkerAssumption DEF TypeOK, Sessions
<1>3. ASSUME NEW s \in Sessions, NEW w \in Workers, SendCredit(s, w)
      PROVE  Homes'
  <2>1. /\ stage' = [stage EXCEPT ![s] = "wire"] /\ home' = [home EXCEPT ![s] = w]
        /\ turn' = turn /\ worker' = worker /\ worker[w] = "up"
    <3>1. w \in Up
      BY <1>1, <1>3, SendSteps DEF Indexed
    <3> QED BY <1>3, <3>1 DEF SendCredit, Up
  <2> QED BY <1>1, <1>2, <2>1 DEF Homes
<1>4. ASSUME NEW s \in Sessions, CreditReturned(s)
      PROVE  Homes'
  <2>1. /\ stage[s] = "wire" /\ home' = home /\ worker' = worker
        /\ stage'[s] = IF IsFinalTurn(s) THEN "over" ELSE "ready"
        /\ \A x \in Sessions : x # s /\ stage'[x] # stage[x]
                                => x \in Branches(s) /\ stage[x] = "new" /\ stage'[x] = "ready"
        /\ \A x \in Sessions : x # s => turn'[x] = turn[x]
        /\ turn'[s] = IF IsFinalTurn(s) THEN turn[s] ELSE turn[s] + 1
    BY <1>1, <1>4, ReturnedStages
  <2>2. \A x \in Sessions : stage'[x] = "wire" => home'[x] # NoWorker
    BY <1>1, <2>1 DEF Homes
  <2>3. ASSUME NEW r \in Roots
        PROVE  home'[r] = NoWorker <=> stage'[r] = "ready" /\ turn'[r] = 0
    <3>1. CASE r = s
      <4>1. home[s] # NoWorker
        BY <1>1, <2>1 DEF Homes
      <4>2. stage'[s] = "ready" => turn'[s] # 0
        BY <1>2, <2>1
      <4> QED BY <2>1, <3>1, <4>1, <4>2
    <3>2. CASE r # s
      <4>1. r \notin Branches(s)
        BY <1>1 DEF Branches
      <4>2. stage'[r] = stage[r] /\ turn'[r] = turn[r]
        BY <1>2, <2>1, <3>2, <4>1
      <4> QED BY <1>1, <2>1, <4>2 DEF Homes
    <3> QED BY <3>1, <3>2
  <2> QED BY <1>1, <2>1, <2>2, <2>3 DEF Homes
<1>5. ASSUME NEW c \in Children, ChildStopped(c)
      PROVE  Homes'
  <2>1. /\ stage' = [stage EXCEPT ![c] = "over"] /\ UNCHANGED <<turn, home, worker>>
        /\ c \notin Roots
    BY <1>1, <1>5 DEF ChildStopped
  <2> QED BY <1>1, <1>2, <2>1 DEF Homes
<1>6. ASSUME NEW w \in Workers, WorkerReady(w) \/ WorkerShutdown(w)
      PROVE  Homes'
  <2>1. /\ worker' = [worker EXCEPT ![w] = "up"] \/ worker' = [worker EXCEPT ![w] = "gone"]
        /\ UNCHANGED <<stage, turn, home>>
    BY <1>6 DEF WorkerReady, WorkerShutdown, sessionVars
  <2> QED BY <1>1, <1>2, <2>1 DEF Homes
<1>7. CASE UNCHANGED vars
  BY <1>1, <1>7 DEF vars, sessionVars, Homes
<1> QED BY <1>3, <1>4, <1>5, <1>6, <1>7 DEF Next

\* A child's return or stop never removes an entry that is not marked, and keeps
\* its worker and its mark.
LEMMA UnmarkedStays ==
  ASSUME TypeOK, NEW c \in Children, NEW e, ChildOver(c, e),
         sticky[branch[c].parent] # NoEntry
  PROVE  LET x == sticky[branch[c].parent]
         IN  /\ ~x.finalSeen => e # NoEntry
             /\ e # NoEntry => e.worker = x.worker /\ (e.finalSeen <=> x.finalSeen)
<1> DEFINE x == sticky[branch[c].parent]
<1>1. x \in EntryType
  BY DEF TypeOK, EntryType
<1>2. x.refs - 1 \in Int /\ x.worker \in Workers /\ x.finalSeen \in BOOLEAN /\ x # NoEntry
  BY <1>1 DEF EntryType
<1>3. \/ e = x
      \/ x.finalSeen /\ e = NoEntry
      \/ e = Entry(x.worker, x.refs - 1, x.finalSeen)
  BY DEF ChildOver, EntryLessOne
<1> HIDE DEF x
<1>4. /\ Entry(x.worker, x.refs - 1, x.finalSeen) # NoEntry
      /\ Entry(x.worker, x.refs - 1, x.finalSeen).worker = x.worker
      /\ Entry(x.worker, x.refs - 1, x.finalSeen).finalSeen = x.finalSeen
  BY <1>2, EntryFields
<1>5. CASE e = x
  BY <1>2, <1>5 DEF x
<1>6. CASE x.finalSeen /\ e = NoEntry
  BY <1>6 DEF x
<1>7. CASE e = Entry(x.worker, x.refs - 1, x.finalSeen)
  BY <1>4, <1>7 DEF x
<1> QED BY <1>3, <1>5, <1>6, <1>7

\* What the entries of one root say of it.
RootEntry(r) ==
  /\ home[r] \in Up /\ Underway(r) => sticky[r] # NoEntry /\ sticky[r].worker = home[r]
  /\ sticky[r] # NoEntry /\ sticky[r].finalSeen
       => stage[r] = "over" \/ (stage[r] = "wire" /\ IsFinalTurn(r))

\* The entry of a root that is under way stays, and is not marked.
LEMMA KeepsEntriesOfRoots ==
  ASSUME IInv, [Next]_vars
  PROVE  EntriesOfRoots'
<1>1. /\ TypeOK /\ Progress /\ Homes /\ LeastLoadIndexed /\ StickyAccounted
      /\ Roots \cap Children = {} /\ CreditsAccounted /\ \A r \in Roots : RootEntry(r)
  BY SetsAssumption DEF IInv, EntriesOfRoots, RootEntry
<1>2. /\ stage \in [Sessions -> {"new", "ready", "wire", "over"}]
      /\ home \in [Sessions -> Workers \cup {NoWorker}]
      /\ worker \in [Workers -> {"starting", "up", "gone"}]
      /\ sticky \in [Roots -> EntryType \cup {NoEntry}]
      /\ \A x \in Sessions : turn[x] \in Nat /\ RoutingKey(x) \in Roots
      /\ Roots \subseteq Sessions /\ Children \subseteq Sessions
      /\ \A r \in Roots : RoutingKey(r) = r
  BY <1>1, Keys DEF TypeOK, Sessions, EntryType, RoutingKey
<1>3. ASSUME \A r \in Roots : RootEntry(r)'
      PROVE  EntriesOfRoots'
  BY <1>3, Zenon DEF EntriesOfRoots, RootEntry
<1>4. ASSUME NEW r \in Roots, stage'[r] = stage[r], turn'[r] = turn[r], turns' = turns,
             home'[r] = home[r], Up' = Up,
             \/ sticky'[r] = sticky[r]
             \/ /\ sticky[r] # NoEntry /\ (~sticky[r].finalSeen => sticky'[r] # NoEntry)
                /\ sticky'[r] # NoEntry => /\ sticky'[r].worker = sticky[r].worker
                                           /\ sticky'[r].finalSeen <=> sticky[r].finalSeen
             \/ sticky[r] = NoEntry /\ sticky'[r] # NoEntry /\ ~sticky'[r].finalSeen
      PROVE  RootEntry(r)'
  <2>1. (Underway(r)' <=> Underway(r)) /\ (IsFinalTurn(r)' <=> IsFinalTurn(r))
    BY <1>4 DEF Underway, IsFinalTurn
  <2>2. Underway(r) => ~(stage[r] = "over" \/ (stage[r] = "wire" /\ IsFinalTurn(r)))
    BY DEF Underway
  <2>3. RootEntry(r)
    BY <1>1
  <2> QED BY <1>4, <2>1, <2>2, <2>3 DEF RootEntry
<1>5. ASSUME NEW s \in Sessions, NEW w \in Workers, SendCredit(s, w)
      PROVE  EntriesOfRoots'
  <2> DEFINE k == RoutingKey(s)
             e == EntryAfterSend(s, w)
  <2>1. /\ stage[s] = "ready" /\ stage' = [stage EXCEPT ![s] = "wire"]
        /\ home' = [home EXCEPT ![s] = w] /\ UNCHANGED <<turns, turn, worker>>
        /\ sticky' = [sticky EXCEPT ![k] = e] /\ EntrySent(s, w, e) /\ w \in Up
    BY <1>1, <1>5, SendEntries DEF SendCredit, planVars
  <2> HIDE DEF e
  <2>2. Up' = Up
    BY <2>1 DEF Up
  <2>3. /\ Entry(w, 1, FALSE) # NoEntry /\ Entry(w, 1, FALSE).worker = w
        /\ ~Entry(w, 1, FALSE).finalSeen
        /\ Entry(w, 0, TRUE) # NoEntry
    <3>1. 0 \in Int /\ 1 \in Int
      OBVIOUS
    <3> QED BY <3>1, EntryFields
  <2>4. ASSUME NEW r \in Roots, r # s
        PROVE  RootEntry(r)'
    <3>1. stage'[r] = stage[r] /\ turn'[r] = turn[r] /\ turns' = turns /\ home'[r] = home[r]
      BY <1>2, <2>1, <2>4
    <3>2. CASE r # k
      BY <1>2, <1>4, <2>1, <2>2, <3>1, <3>2
    <3>3. CASE r = k
      <4>1. s \notin Roots /\ sticky'[r] = e
        BY <1>2, <2>1, <2>4, <3>3
      <4>2. \/ sticky[r] # NoEntry /\ e = sticky[r]
            \/ sticky[r] = NoEntry /\ (e = NoEntry \/ e = Entry(w, 1, FALSE))
        BY <2>1, <3>3, <4>1 DEF EntrySent
      <4> QED BY <1>4, <2>2, <2>3, <3>1, <4>1, <4>2
    <3> QED BY <3>2, <3>3
  <2>5. ASSUME s \in Roots
        PROVE  RootEntry(s)'
    <3>1. k = s /\ sticky'[s] = e /\ home'[s] = w /\ stage'[s] = "wire"
          /\ (IsFinalTurn(s)' <=> IsFinalTurn(s))
      BY <1>2, <2>1, <2>5 DEF IsFinalTurn
    <3>2. CASE IsFinalTurn(s)
      BY <3>1, <3>2 DEF RootEntry, Underway
    <3>3. CASE ~IsFinalTurn(s)
      <4>1. NeedsEntry(s) /\ (sticky[s] # NoEntry => ~sticky[s].finalSeen)
        BY <1>1, <2>1, <2>5, <3>3 DEF NeedsEntry, RootEntry
      <4>2. \/ sticky[s] # NoEntry /\ w = sticky[s].worker /\ e = sticky[s]
            \/ e = Entry(w, 1, FALSE)
        BY <2>1, <3>1, <3>3, <4>1 DEF EntrySent
      <4>3. e # NoEntry /\ e.worker = w /\ ~e.finalSeen
        BY <2>3, <4>1, <4>2
      <4> QED BY <3>1, <4>3 DEF RootEntry
    <3> QED BY <3>2, <3>3
  <2> QED BY <1>3, <2>4, <2>5
<1>6. ASSUME NEW s \in Sessions, CreditReturned(s)
      PROVE  EntriesOfRoots'
  <2> DEFINE k == RoutingKey(s)
  <2>1. PICK e : Settles(k, e) /\ EntryReturned(s, e)
    BY <1>1, <1>6, ReturnedSteps
  <2>2. /\ stage[s] = "wire" /\ home' = home /\ worker' = worker /\ turns' = turns
        /\ stage'[s] = IF IsFinalTurn(s) THEN "over" ELSE "ready"
        /\ \A x \in Sessions : x # s /\ stage'[x] # stage[x] => x \in Branches(s)
        /\ \A x \in Sessions : x # s => turn'[x] = turn[x]
        /\ turn'[s] = IF IsFinalTurn(s) THEN turn[s] ELSE turn[s] + 1
        /\ sticky' = [sticky EXCEPT ![k] = e]
    BY <1>1, <1>6, <2>1, ReturnedStages DEF planVars, Settles
  <2>3. Up' = Up
    BY <2>2 DEF Up
  <2>4. ASSUME NEW r \in Roots, r # s
        PROVE  RootEntry(r)'
    <3>1. r \notin Branches(s)
      BY <1>1 DEF Branches
    <3>2. stage'[r] = stage[r] /\ turn'[r] = turn[r] /\ home'[r] = home[r]
      BY <1>2, <2>2, <2>4, <3>1
    <3>3. CASE r # k
      BY <1>2, <1>4, <2>2, <2>3, <3>2, <3>3
    <3>4. CASE r = k
      <4>1. s \notin Roots /\ s \in Children /\ sticky'[r] = e /\ k = branch[s].parent
        BY <1>2, <2>2, <2>4, <3>4 DEF Sessions, RoutingKey
      <4>2. CASE ~IsFinalTurn(s)
        <5>1. e = sticky[r]
          BY <2>1, <3>4, <4>1, <4>2 DEF EntryReturned
        <5> QED BY <1>4, <2>2, <2>3, <3>2, <4>1, <5>1
      <4>3. CASE IsFinalTurn(s)
        <5>1. ChildOver(s, e)
          BY <2>1, <4>1, <4>3 DEF EntryReturned
        <5>2. CASE sticky[r] = NoEntry
          <6>1. e = NoEntry
            BY <3>4, <4>1, <5>1, <5>2 DEF ChildOver, EntryLessOne
          <6> QED BY <1>4, <2>2, <2>3, <3>2, <4>1, <5>2, <6>1
        <5>3. CASE sticky[r] # NoEntry
          <6> HIDE DEF k
          <6>1. /\ ~sticky[r].finalSeen => e # NoEntry
                /\ e # NoEntry => e.worker = sticky[r].worker
                                  /\ (e.finalSeen <=> sticky[r].finalSeen)
            BY <1>1, <3>4, <4>1, <5>1, <5>3, UnmarkedStays
          <6> QED BY <1>4, <2>2, <2>3, <3>2, <4>1, <5>3, <6>1
        <5> QED BY <5>2, <5>3
      <4> QED BY <4>2, <4>3
    <3> QED BY <3>3, <3>4
  <2>5. ASSUME s \in Roots
        PROVE  RootEntry(s)'
    <3>1. k = s /\ sticky'[s] = e /\ home'[s] = home[s] /\ RootEntry(s)
      BY <1>1, <1>2, <2>2, <2>5
    <3>2. CASE sticky[s] = NoEntry
      <4>1. e = NoEntry
        BY <2>1, <2>5, <3>1, <3>2 DEF EntryReturned
      <4>2. ~(home[s] \in Up /\ Underway(s))
        BY <3>1, <3>2 DEF RootEntry
      <4>3. Underway(s)' => Underway(s)
        BY <2>2 DEF Underway
      <4> QED BY <2>3, <3>1, <4>1, <4>2, <4>3 DEF RootEntry
    <3>3. CASE sticky[s] # NoEntry
      <4> DEFINE x == sticky[s]
                 n == x.refs + Cardinality(Forks(s))
      <4>1. x \in EntryType /\ n \in Int
        <5>1. IsFiniteSet(Forks(s))
          BY SetsAssumption, FS_Subset DEF Forks
        <5>2. Cardinality(Forks(s)) \in Nat
          BY <5>1, FS_CardinalityType
        <5> QED BY <1>2, <2>5, <3>3, <5>2 DEF EntryType
      <4>2. e = Entry(x.worker, n, x.finalSeen)
        BY <2>1, <2>5, <3>1, <3>3 DEF EntryReturned
      <4>3. x.worker \in Workers /\ x.finalSeen \in BOOLEAN
        BY <4>1 DEF EntryType
      <4> HIDE DEF n, x
      <4>4. e # NoEntry /\ e.worker = x.worker /\ e.finalSeen = x.finalSeen
        BY <4>1, <4>2, <4>3, EntryFields
      <4>5. CASE IsFinalTurn(s)
        BY <2>2, <4>5 DEF RootEntry, Underway
      <4>6. CASE ~IsFinalTurn(s)
        <5>1. Underway(s) /\ ~x.finalSeen
          BY <2>2, <3>1, <3>3, <4>6 DEF RootEntry, Underway, x
        <5> QED BY <2>3, <3>1, <4>4, <5>1 DEF RootEntry, x
      <4> QED BY <4>5, <4>6
    <3> QED BY <3>2, <3>3
  <2> QED BY <1>3, <2>4, <2>5
<1>7. ASSUME NEW c \in Children, ChildStopped(c)
      PROVE  EntriesOfRoots'
  <2> DEFINE k == branch[c].parent
  <2>1. /\ stage' = [stage EXCEPT ![c] = "over"] /\ UNCHANGED <<turns, turn, home, worker>>
        /\ c \notin Roots /\ ReleaseRouting(c, load) /\ load \in [Workers -> LoadType]
    BY <1>1, <1>7 DEF ChildStopped, planVars, TypeOK, LoadType
  <2>2. PICK e : Settles(k, e) /\ ChildOver(c, e)
    BY <1>1, <2>1, ReleaseSteps
  <2>3. Up' = Up /\ sticky' = [sticky EXCEPT ![k] = e]
    BY <2>1, <2>2 DEF Up, Settles
  <2>4. ASSUME NEW r \in Roots
        PROVE  RootEntry(r)'
    <3>1. stage'[r] = stage[r] /\ turn'[r] = turn[r] /\ home'[r] = home[r]
      BY <1>2, <2>1
    <3>2. CASE r # k
      BY <1>2, <1>4, <2>1, <2>3, <3>1, <3>2
    <3>3. CASE r = k
      <4>1. sticky'[r] = e
        BY <1>2, <2>3, <3>3
      <4>2. CASE sticky[r] = NoEntry
        <5>1. e = NoEntry
          BY <2>2, <3>3, <4>2 DEF ChildOver, EntryLessOne
        <5> QED BY <1>4, <2>1, <2>3, <3>1, <4>1, <4>2, <5>1
      <4>3. CASE sticky[r] # NoEntry
        <5>1. /\ ~sticky[r].finalSeen => e # NoEntry
              /\ e # NoEntry => e.worker = sticky[r].worker
                                /\ (e.finalSeen <=> sticky[r].finalSeen)
          BY <1>1, <2>2, <3>3, <4>3, UnmarkedStays
        <5> HIDE DEF k
        <5> QED BY <1>4, <2>1, <2>3, <3>1, <4>1, <4>3, <5>1
      <4> QED BY <4>2, <4>3
    <3> QED BY <3>2, <3>3
  <2> QED BY <1>3, <2>4
<1>8. ASSUME NEW w \in Workers, WorkerReady(w)
      PROVE  EntriesOfRoots'
  <2>1. /\ worker[w] = "starting" /\ worker' = [worker EXCEPT ![w] = "up"]
        /\ UNCHANGED <<stage, turn, home, sticky, turns>>
    BY <1>8 DEF WorkerReady, sessionVars, planVars
  <2>2. Up' \subseteq Up \cup {w}
    BY <1>2, <2>1 DEF Up
  <2>3. ASSUME NEW r \in Roots
        PROVE  RootEntry(r)'
    <3>1. r \in Sessions /\ w # NoWorker
      BY <1>2, NoWorkerAssumption
    <3>2. home[r] # w
      BY <1>1, <2>1, <3>1 DEF Homes
    <3>3. home'[r] \in Up' => home[r] \in Up
      BY <2>1, <2>2, <3>2
    <3> QED BY <1>1, <2>1, <3>3 DEF RootEntry, Underway, IsFinalTurn
  <2> QED BY <1>3, <2>3
<1>9. ASSUME NEW w \in Workers, WorkerShutdown(w)
      PROVE  EntriesOfRoots'
  <2>1. /\ worker' = [worker EXCEPT ![w] = "gone"] /\ w \in Up
        /\ sticky' = [k \in Roots |-> IF k \in load[w].ids THEN NoEntry ELSE sticky[k]]
        /\ UNCHANGED <<stage, turn, home, turns>>
    BY <1>9 DEF WorkerShutdown, Up, sessionVars, planVars
  <2>2. Up' = Up \ {w}
    BY <1>2, <2>1 DEF Up
  <2>3. load[w].ids = {k \in Roots : sticky[k] # NoEntry /\ sticky[k].worker = w}
    BY <1>1, <2>1 DEF StickyAccounted
  <2>4. ASSUME NEW r \in Roots
        PROVE  RootEntry(r)'
    <3>1. sticky'[r] # NoEntry => sticky'[r] = sticky[r]
      BY <2>1
    <3>2. sticky[r] # NoEntry /\ sticky[r].worker # w => sticky'[r] = sticky[r]
      BY <2>1, <2>3
    <3>3. RootEntry(r)
      BY <1>1
    <3>4. (Underway(r)' <=> Underway(r)) /\ (IsFinalTurn(r)' <=> IsFinalTurn(r))
      BY <2>1 DEF Underway, IsFinalTurn
    <3> QED BY <2>1, <2>2, <3>1, <3>2, <3>3, <3>4 DEF RootEntry
  <2> QED BY <1>3, <2>4
<1>10. CASE UNCHANGED vars
  BY <1>1, <1>3, <1>10 DEF vars, sessionVars, planVars, RootEntry, Underway, IsFinalTurn, Up
<1> QED BY <1>5, <1>6, <1>7, <1>8, <1>9, <1>10 DEF Next

-------------------------------------------------------------------------------
\* The forked children of a root that are alive.
LEMMA LiveForksAre ==
  ASSUME NEW r
  PROVE  LiveForks(r) = {c \in Children : /\ branch[c].parent = r /\ branch[c].mode = "fork"
                                          /\ stage[c] \in {"ready", "wire"}}
BY DEF LiveForks, LiveChildren

\* A forked child is born with its parent's end, and every fork is on the last turn.
LEMMA ForksFollow ==
  ASSUME TypeOK, Progress, NEW c \in Children, branch[c].mode = "fork"
  PROVE  /\ stage[c] # "new" => stage[branch[c].parent] = "over"
         /\ branch[c].after = turn[branch[c].parent] <=> IsFinalTurn(branch[c].parent)
<1> DEFINE p == branch[c].parent
<1>1. p \in Sessions /\ turn[p] \in Int /\ turns[p] \in Int
  BY DEF TypeOK, Sessions
<1>2. branch[c].after = turns[p] - 1 /\ turn[p] < turns[p]
  BY <1>1 DEF Progress, ForksAtTheEnd
<1>3. ~(turn[p] > branch[c].after)
  <2> HIDE DEF p
  <2> QED BY <1>1, <1>2
<1> QED BY <1>2, <1>3 DEF Progress, IsFinalTurn

\* The forks of a root are all on its last turn.
LEMMA ForksOf ==
  ASSUME TypeOK, Progress, NEW r \in Roots
  PROVE  /\ Forks(r) = IF IsFinalTurn(r)
                         THEN {c \in Children : branch[c].parent = r /\ branch[c].mode = "fork"}
                         ELSE {}
         /\ IsFiniteSet(Forks(r)) /\ Cardinality(Forks(r)) \in Nat
<1>1. IsFiniteSet(Forks(r))
  BY SetsAssumption, FS_Subset DEF Forks
<1>2. Cardinality(Forks(r)) \in Nat
  BY <1>1, FS_CardinalityType
<1>3. \A c \in Children : branch[c].mode = "fork" /\ branch[c].parent = r
          => (branch[c].after = turn[r] <=> IsFinalTurn(r))
  BY ForksFollow
<1> QED BY <1>1, <1>2, <1>3 DEF Forks

\* Nothing of a root changes: neither does what its entry should be.
LEMMA EntryAtSame ==
  ASSUME NEW r \in Roots, UNCHANGED planVars, stage'[r] = stage[r], turn'[r] = turn[r],
         home'[r] = home[r], sticky'[r] = sticky[r], LiveForks(r)' = LiveForks(r), EntryAt(r)
  PROVE  EntryAt(r)'
<1>1. /\ (Underway(r)' <=> Underway(r)) /\ (IsFinalTurn(r)' <=> IsFinalTurn(r))
      /\ (HasForks(r)' <=> HasForks(r)) /\ Spawns(r)' = Spawns(r)
  BY DEF Underway, IsFinalTurn, HasForks, Forks, Spawns, planVars
<1> QED BY <1>1, Zenon DEF EntryAt

\* One child of a root is over: the entry counts the forked ones that are left.
LEMMA EntryAfterChild ==
  ASSUME TypeOK, Progress, Homes, NEW c \in Children, NEW r \in Roots, r = branch[c].parent,
         EntryAt(r), stage[c] \in {"ready", "wire"}, ChildOver(c, sticky'[r]),
         UNCHANGED planVars, stage'[r] = stage[r], turn'[r] = turn[r], home'[r] = home[r],
         LiveForks(r)' = LiveForks(r) \ {c}
  PROVE  EntryAt(r)'
<1>1. CASE branch[c].mode # "fork"
  <2>1. LiveForks(r)' = LiveForks(r) /\ sticky'[r] = sticky[r]
    BY <1>1, LiveForksAre DEF ChildOver
  <2> QED BY <2>1, EntryAtSame
<1>2. CASE branch[c].mode = "fork"
  <2> DEFINE n == Cardinality(LiveForks(r))
             h == home[r]
  <2>1. stage[r] = "over" /\ c \in LiveForks(r)
    BY <1>2, ForksFollow, LiveForksAre
  <2>2. sticky[r] = Entry(h, n, TRUE) /\ EntryLessOne(r, sticky'[r])
    BY <1>2, <2>1 DEF EntryAt, ChildOver
  <2>3. IsFiniteSet(LiveForks(r))
    BY SetsAssumption, FS_Subset, LiveForksAre
  <2>4. n \in Nat /\ n # 0 /\ Cardinality(LiveForks(r)') = n - 1
    BY <2>1, <2>3, FS_CardinalityType, FS_EmptySet, FS_RemoveElement
  <2>5. LiveForks(r)' = {} <=> n = 1
    <3>1. IsFiniteSet(LiveForks(r)')
      BY <2>3, FS_Subset
    <3>2. LiveForks(r)' = {} <=> Cardinality(LiveForks(r)') = 0
      BY <3>1, FS_EmptySet
    <3> HIDE DEF n
    <3> QED BY <2>4, <3>2
  <2>6. h \in Workers /\ n \in Int /\ TRUE \in BOOLEAN
    BY <2>1, <2>4 DEF Homes, TypeOK, Sessions
  <2> HIDE DEF n, h
  <2>7. /\ sticky[r] # NoEntry /\ sticky[r].worker = h /\ sticky[r].refs = n
        /\ sticky[r].finalSeen = TRUE
    <3>1. /\ Entry(h, n, TRUE) # NoEntry /\ Entry(h, n, TRUE).worker = h
          /\ Entry(h, n, TRUE).refs = n /\ Entry(h, n, TRUE).finalSeen = TRUE
      BY <2>6, EntryFields, ZenonT(30)
    <3>2. sticky[r] = Entry(h, n, TRUE)
      BY <2>2
    <3> QED BY <3>1, <3>2, Zenon
  <2>8. sticky'[r] = IF n = 1 THEN NoEntry ELSE Entry(h, n - 1, TRUE)
    <3>1. IF n <= 1 THEN sticky'[r] = NoEntry ELSE sticky'[r] = Entry(h, n - 1, TRUE)
      BY <2>2, <2>7 DEF EntryLessOne
    <3>2. n <= 1 <=> n = 1
      BY <2>4
    <3> QED BY <3>1, <3>2, Zenon
  <2>9. stage'[r] = "over" /\ home'[r] = h
    BY <2>1 DEF h
  <2> QED BY <2>4, <2>5, <2>8, <2>9 DEF EntryAt, Underway
<1> QED BY <1>1, <1>2

\* A send creates the entry, finds it, or ends the owner's reservation.
LEMMA SentEntries ==
  ASSUME IInv, NoneGone, NEW s \in Sessions, NEW w \in Workers, SendCredit(s, w),
         NEW r \in Roots
  PROVE  EntryAt(r)'
<1> DEFINE k == RoutingKey(s)
           e == EntryAfterSend(s, w)
<1>1. /\ TypeOK /\ Progress /\ Homes /\ EntryAt(r) /\ Roots \cap Children = {}
      /\ LeastLoadIndexed /\ StickyAccounted
  BY SetsAssumption DEF IInv, EntriesKept
<1>2. /\ stage \in [Sessions -> {"new", "ready", "wire", "over"}]
      /\ home \in [Sessions -> Workers \cup {NoWorker}]
      /\ sticky \in [Roots -> EntryType \cup {NoEntry}]
      /\ r \in Sessions /\ Children \subseteq Sessions /\ turn[r] \in Nat
  BY <1>1 DEF TypeOK, EntryType, Sessions
<1>3. /\ stage[s] = "ready" /\ stage' = [stage EXCEPT ![s] = "wire"]
      /\ home' = [home EXCEPT ![s] = w] /\ UNCHANGED <<planVars, turn, worker>>
      /\ sticky' = [sticky EXCEPT ![k] = e] /\ EntrySent(s, w, e) /\ w \in Up
  BY <1>1, SendEntries DEF SendCredit
<1> HIDE DEF e
<1>4. LiveForks(r)' = LiveForks(r)
  BY <1>2, <1>3 DEF LiveForks, LiveChildren, planVars
<1>5. CASE r # k
  <2>1. r # s
    BY <1>1, <1>5 DEF RoutingKey
  <2> QED BY <1>1, <1>2, <1>3, <1>4, <1>5, <2>1, EntryAtSame
<1>6. CASE r = k /\ r # s
  <2>1. s \in Children /\ branch[s].parent = r /\ s \notin Roots
    BY <1>1, <1>6 DEF RoutingKey, Sessions
  <2>2. stage'[r] = stage[r] /\ home'[r] = home[r] /\ turn'[r] = turn[r] /\ sticky'[r] = e
    BY <1>2, <1>3, <1>6
  <2>3. CASE sticky[r] # NoEntry \/ e = NoEntry
    <3>1. e = sticky[r]
      BY <1>3, <1>6, <2>1, <2>3 DEF EntrySent
    <3> QED BY <1>1, <1>3, <1>4, <2>2, <3>1, EntryAtSame
  <2>4. CASE sticky[r] = NoEntry /\ e # NoEntry
    <3>1. ~(stage[r] = "ready" /\ turn[r] = 0)
      <4>1. turn[r] > branch[s].after \/ stage[r] = "over"
        BY <1>1, <1>3, <2>1 DEF Progress
      <4>2. branch[s].after \in Nat
        BY <1>1, <2>1 DEF TypeOK
      <4> QED BY <4>1, <4>2
    <3>2. ~Underway(r) /\ ~(stage[r] = "wire" /\ IsFinalTurn(r) /\ HasForks(r))
          /\ ~(stage[r] = "over" /\ LiveForks(r) # {})
      <4>0. 0 \in Int /\ 1 \in Int /\ Cardinality(LiveForks(r)) \in Int
        <5>1. IsFiniteSet(LiveForks(r))
          BY SetsAssumption, FS_Subset, LiveForksAre
        <5> QED BY <5>1, FS_CardinalityType
      <4>1. home[r] # NoWorker
        BY <1>1, <3>1 DEF Homes
      <4>2. home[r] \in Workers
        BY <1>2, <4>1
      <4>3. /\ Entry(home[r], 1, FALSE) # NoEntry /\ Entry(home[r], 0, TRUE) # NoEntry
            /\ Entry(home[r], Cardinality(LiveForks(r)), TRUE) # NoEntry
        BY <4>0, <4>2, EntryFields
      <4> QED BY <1>1, <2>4, <4>3 DEF EntryAt
    <3>3. Spawns(r) # {}
      <4>1. CASE branch[s].mode = "fork"
        <5>1. s \in LiveForks(r)
          BY <1>3, <2>1, <4>1, LiveForksAre
        <5>2. stage[r] = "over"
          BY <1>1, <1>3, <2>1, <4>1, ForksFollow
        <5> QED BY <3>2, <5>1, <5>2
      <4>2. CASE branch[s].mode # "fork"
        <5>1. branch[s].mode = "spawn"
          BY <1>1, <2>1, <4>2, ModesAssumption DEF TypeOK
        <5> QED BY <2>1, <5>1 DEF Spawns
      <4> QED BY <4>1, <4>2
    <3>4. (Underway(r)' <=> Underway(r)) /\ (IsFinalTurn(r)' <=> IsFinalTurn(r))
          /\ (HasForks(r)' <=> HasForks(r)) /\ Spawns(r)' = Spawns(r)
      BY <1>3, <2>2 DEF Underway, IsFinalTurn, HasForks, Forks, Spawns, planVars
    <3> QED BY <1>4, <2>2, <3>1, <3>2, <3>3, <3>4, Zenon DEF EntryAt
  <2> QED BY <2>3, <2>4
<1>7. CASE r = s
  <2>1. k = r /\ sticky'[r] = e /\ stage'[r] = "wire" /\ home'[r] = w /\ r \in Roots
        /\ (IsFinalTurn(r)' <=> IsFinalTurn(r)) /\ (HasForks(r)' <=> HasForks(r))
    BY <1>1, <1>2, <1>3, <1>7 DEF RoutingKey, IsFinalTurn, HasForks, Forks, planVars
  <2>2. \/ sticky[r] = NoEntry
        \/ sticky[r] # NoEntry /\ w = home[r] /\ sticky[r] = Entry(w, 1, FALSE)
           /\ sticky[r].refs = 1
    <3>1. CASE turn[r] = 0
      BY <1>1, <1>3, <1>7, <3>1 DEF EntryAt
    <3>2. CASE turn[r] > 0
      <4>0. 1 \in Int
        OBVIOUS
      <4>1. sticky[r] = Entry(home[r], 1, FALSE)
        BY <1>1, <1>3, <1>7, <3>2 DEF EntryAt, Underway
      <4>2. home[r] # NoWorker
        BY <1>1, <3>2 DEF Homes
      <4>3. home[r] \in Workers
        BY <1>2, <4>2
      <4>4. sticky[r] # NoEntry /\ sticky[r].worker = home[r] /\ sticky[r].refs = 1
        <5> DEFINE h == home[r]
        <5>1. /\ Entry(h, 1, FALSE) # NoEntry /\ Entry(h, 1, FALSE).worker = h
              /\ Entry(h, 1, FALSE).refs = 1
          BY <4>0, <4>3, EntryFields
        <5> QED BY <4>1, <5>1, Zenon
      <4>5. w = home[r]
        BY <1>3, <2>1, <4>4, <1>7 DEF EntrySent
      <4> QED BY <4>1, <4>4, <4>5
    <3>3. turn[r] = 0 \/ turn[r] > 0
      BY <1>2
    <3> QED BY <3>1, <3>2, <3>3
  <2>3. CASE ~IsFinalTurn(r)
    <3>1. NeedsEntry(r)
      BY <2>3 DEF NeedsEntry
    <3>2. e = Entry(w, 1, FALSE)
      BY <1>3, <1>7, <2>1, <2>2, <2>3, <3>1 DEF EntrySent
    <3> QED BY <2>1, <2>3, <3>2 DEF EntryAt
  <2>4. CASE IsFinalTurn(r) /\ HasForks(r)
    <3>1. sticky[r].refs = 1 => sticky[r].refs - 1 = 0
      OBVIOUS
    <3>2. NeedsEntry(r)
      BY <2>4 DEF NeedsEntry
    <3>3. e = Entry(w, 0, TRUE)
      BY <1>3, <1>7, <2>1, <2>2, <2>4, <3>1, <3>2 DEF EntrySent
    <3> QED BY <2>1, <2>4, <3>3 DEF EntryAt, Underway
  <2>5. CASE IsFinalTurn(r) /\ ~HasForks(r)
    <3>1. sticky[r].refs = 1 => ~(sticky[r].refs > 1)
      OBVIOUS
    <3>2. ~NeedsEntry(r)
      BY <2>5 DEF NeedsEntry
    <3>3. e = NoEntry
      BY <1>3, <1>7, <2>1, <2>2, <2>5, <3>1, <3>2 DEF EntrySent
    <3> QED BY <2>1, <2>5, <3>3 DEF EntryAt, Underway
  <2> QED BY <2>3, <2>4, <2>5
<1> QED BY <1>5, <1>6, <1>7

\* A return ends a turn: the forks of a last turn are registered, and a child
\* that is over gives its reservation back.
LEMMA ReturnedEntries ==
  ASSUME IInv, NoneGone, NEW s \in Sessions, CreditReturned(s), NEW r \in Roots
  PROVE  EntryAt(r)'
<1> DEFINE k == RoutingKey(s)
<1>1. /\ TypeOK /\ Progress /\ Homes /\ EntryAt(r) /\ Roots \cap Children = {}
      /\ LeastLoadIndexed /\ StickyAccounted /\ CreditsAccounted
  BY SetsAssumption DEF IInv, EntriesKept
<1>2. /\ stage \in [Sessions -> {"new", "ready", "wire", "over"}]
      /\ home \in [Sessions -> Workers \cup {NoWorker}]
      /\ sticky \in [Roots -> EntryType \cup {NoEntry}]
      /\ r \in Sessions /\ Children \subseteq Sessions /\ turn[r] \in Nat
      /\ r \notin Branches(s) /\ k \in Roots
  <2>1. k \in Roots
    BY <1>1, Keys
  <2>2. r \notin Branches(s)
    BY <1>1 DEF Branches
  <2> QED BY <1>1, <2>1, <2>2 DEF TypeOK, EntryType, Sessions
<1>3. PICK e : Settles(k, e) /\ EntryReturned(s, e)
  BY <1>1, ReturnedSteps
<1>4. /\ stage[s] = "wire" /\ home' = home /\ worker' = worker /\ UNCHANGED planVars
      /\ stage'[s] = IF IsFinalTurn(s) THEN "over" ELSE "ready"
      /\ \A x \in Sessions : x # s /\ stage'[x] # stage[x]
                                => x \in Branches(s) /\ stage[x] = "new" /\ stage'[x] = "ready"
      /\ \A x \in Branches(s) : stage'[x] = "ready"
      /\ \A x \in Sessions : x # s => turn'[x] = turn[x]
      /\ turn'[s] = IF IsFinalTurn(s) THEN turn[s] ELSE turn[s] + 1
      /\ sticky' = [sticky EXCEPT ![k] = e] /\ branch' = branch /\ turns' = turns
  BY <1>1, <1>3, ReturnedStages DEF planVars, Settles
<1>5. LiveForks(r)' = {c \in Children : /\ branch[c].parent = r /\ branch[c].mode = "fork"
                                        /\ stage'[c] \in {"ready", "wire"}}
  BY <1>4 DEF LiveForks, LiveChildren
<1>6. CASE r # s
  <2>1. stage'[r] = stage[r] /\ turn'[r] = turn[r] /\ home'[r] = home[r]
    BY <1>2, <1>4, <1>6
  <2>2. \A c \in Children : branch[c].parent = r /\ c # s => stage'[c] = stage[c]
    BY <1>2, <1>4, <1>6 DEF Branches
  <2>3. CASE r # k
    <3>1. s \notin Children \/ branch[s].parent # r
      BY <2>3 DEF RoutingKey
    <3>2. LiveForks(r)' = LiveForks(r)
      BY <1>5, <2>2, <3>1, LiveForksAre
    <3>3. sticky'[r] = sticky[r]
      BY <1>2, <1>4, <2>3
    <3> QED BY <1>1, <1>4, <2>1, <3>2, <3>3, EntryAtSame
  <2>4. CASE r = k
    <3>1. s \in Children /\ branch[s].parent = r /\ s \notin Roots /\ sticky'[r] = e
      BY <1>1, <1>2, <1>4, <1>6, <2>4 DEF RoutingKey, Sessions
    <3>2. CASE ~IsFinalTurn(s)
      <4>1. e = sticky[r]
        BY <1>3, <2>4, <3>1, <3>2 DEF EntryReturned
      <4>2. stage'[s] = "ready"
        BY <1>4, <3>2
      <4>3. LiveForks(r)' = LiveForks(r)
        BY <1>4, <1>5, <2>2, <4>2, LiveForksAre
      <4> QED BY <1>1, <1>4, <2>1, <3>1, <4>1, <4>3, EntryAtSame
    <3>3. CASE IsFinalTurn(s)
      <4>1. ChildOver(s, sticky'[r])
        BY <1>3, <3>1, <3>3 DEF EntryReturned
      <4>2. stage'[s] = "over"
        BY <1>4, <3>3
      <4>3. LiveForks(r)' = LiveForks(r) \ {s}
        BY <1>5, <2>2, <4>2, LiveForksAre
      <4>4. stage[s] \in {"ready", "wire"} /\ r = branch[s].parent
        BY <1>4, <3>1
      <4> QED BY <1>1, <1>4, <2>1, <3>1, <4>1, <4>3, <4>4, EntryAfterChild
    <3> QED BY <3>2, <3>3
  <2> QED BY <2>3, <2>4
<1>7. CASE r = s
  <2> DEFINE n == Cardinality(Forks(r))
             h == home[r]
  <2>1. /\ k = r /\ sticky'[r] = e /\ home'[r] = h /\ stage[r] = "wire"
        /\ stage'[r] = IF IsFinalTurn(r) THEN "over" ELSE "ready"
        /\ turn'[r] = IF IsFinalTurn(r) THEN turn[r] ELSE turn[r] + 1
    BY <1>1, <1>2, <1>4, <1>7 DEF RoutingKey
  <2>2. h \in Workers
    BY <1>1, <1>2, <2>1 DEF Homes
  <2>3. \/ sticky[r] = NoEntry /\ e = NoEntry
        \/ /\ sticky[r] # NoEntry
           /\ e = Entry(sticky[r].worker, sticky[r].refs + n, sticky[r].finalSeen)
    BY <1>3, <1>7, <2>1 DEF EntryReturned
  <2>4. n \in Nat
    BY <1>1, ForksOf
  <2>5. CASE ~IsFinalTurn(r)
    <3>1. n = 0
      BY <1>1, <2>5, ForksOf, FS_EmptySet
    <3>2. sticky[r] = Entry(h, 1, FALSE)
      BY <1>1, <2>1, <2>5 DEF EntryAt, Underway
    <3>3. 1 \in Int
      OBVIOUS
    <3>4. /\ Entry(h, 1, FALSE) # NoEntry /\ Entry(h, 1, FALSE).worker = h
          /\ Entry(h, 1, FALSE).refs = 1 /\ Entry(h, 1, FALSE).finalSeen = FALSE
      BY <2>2, <3>3, EntryFields
    <3> HIDE DEF n, h
    <3>5. e = Entry(h, 1 + n, FALSE)
      BY <2>3, <3>2, <3>4, Zenon
    <3>6. 1 + n = 1
      BY <3>1
    <3>7. sticky'[r] = Entry(h, 1, FALSE)
      BY <2>1, <3>5, <3>6, Zenon
    <3>8. stage'[r] = "ready" /\ turn'[r] # 0
      BY <1>2, <2>1, <2>5
    <3> QED BY <2>1, <3>7, <3>8 DEF EntryAt
  <2>6. CASE IsFinalTurn(r)
    <3>1. /\ stage'[r] = "over"
          /\ Forks(r) = {c \in Children : branch[c].parent = r /\ branch[c].mode = "fork"}
      BY <1>1, <2>1, <2>6, ForksOf
    <3>2. Forks(r) \subseteq Branches(r)
      BY DEF Forks, Branches
    <3>3. LiveForks(r)' = Forks(r)
      BY <1>4, <1>5, <1>7, <3>1, <3>2
    <3>4. CASE HasForks(r)
      <4>1. sticky[r] = Entry(h, 0, TRUE)
        BY <1>1, <2>1, <2>6, <3>4 DEF EntryAt
      <4>2. 0 \in Int
        OBVIOUS
      <4>3. /\ Entry(h, 0, TRUE) # NoEntry /\ Entry(h, 0, TRUE).worker = h
            /\ Entry(h, 0, TRUE).refs = 0 /\ Entry(h, 0, TRUE).finalSeen = TRUE
        BY <2>2, <4>2, EntryFields
      <4>4. Cardinality(LiveForks(r)') = n
        BY <3>3
      <4> HIDE DEF n, h
      <4>5. e = Entry(h, 0 + n, TRUE)
        BY <2>3, <4>1, <4>3, Zenon
      <4>6. 0 + n = n
        BY <2>4
      <4>7. sticky'[r] = Entry(home'[r], Cardinality(LiveForks(r)'), TRUE)
        BY <2>1, <4>4, <4>5, <4>6, Zenon
      <4>8. LiveForks(r)' # {}
        BY <3>3, <3>4 DEF HasForks
      <4> QED BY <3>1, <4>7, <4>8 DEF EntryAt, Underway
    <3>5. CASE ~HasForks(r)
      <4>1. sticky[r] = NoEntry \/ Spawns(r) # {}
        BY <1>1, <2>1, <2>6, <3>5 DEF EntryAt
      <4>2. Spawns(r)' = Spawns(r)
        BY <1>4 DEF Spawns
      <4>3. sticky'[r] = NoEntry \/ Spawns(r)' # {}
        BY <2>1, <2>3, <4>1, <4>2
      <4>4. LiveForks(r)' = {}
        BY <3>3, <3>5 DEF HasForks
      <4> QED BY <3>1, <4>3, <4>4 DEF EntryAt, Underway
    <3> QED BY <3>4, <3>5
  <2> QED BY <2>5, <2>6
<1> QED BY <1>6, <1>7

\* While no worker has left, the entries are those the sessions call for.
LEMMA KeepsEntries ==
  ASSUME IInv, [Next]_vars
  PROVE  EntriesKept'
<1>1. /\ TypeOK /\ Progress /\ Homes /\ StickyAccounted /\ EntriesKept
      /\ Roots \cap Children = {}
  BY SetsAssumption DEF IInv
<1>2. /\ stage \in [Sessions -> {"new", "ready", "wire", "over"}]
      /\ sticky \in [Roots -> EntryType \cup {NoEntry}]
      /\ worker \in [Workers -> {"starting", "up", "gone"}]
      /\ Roots \subseteq Sessions /\ Children \subseteq Sessions
  BY <1>1 DEF TypeOK, EntryType, Sessions
<1>3. ASSUME NEW s \in Sessions, NEW w \in Workers, SendCredit(s, w)
      PROVE  EntriesKept'
  <2>1. NoneGone' => NoneGone
    BY <1>3 DEF SendCredit, NoneGone
  <2>2. NoneGone => \A r \in Roots : EntryAt(r)'
    BY <1>3, SentEntries
  <2> QED BY <2>1, <2>2 DEF EntriesKept
<1>4. ASSUME NEW s \in Sessions, CreditReturned(s)
      PROVE  EntriesKept'
  <2>1. NoneGone' => NoneGone
    BY <1>4 DEF CreditReturned, NoneGone
  <2>2. NoneGone => \A r \in Roots : EntryAt(r)'
    BY <1>4, ReturnedEntries
  <2> QED BY <2>1, <2>2 DEF EntriesKept
<1>5. ASSUME NEW c \in Children, ChildStopped(c)
      PROVE  EntriesKept'
  <2> DEFINE k == branch[c].parent
  <2>1. /\ stage' = [stage EXCEPT ![c] = "over"] /\ UNCHANGED <<planVars, turn, home, worker>>
        /\ c \notin Roots /\ ReleaseRouting(c, load) /\ load \in [Workers -> LoadType]
        /\ stage[c] = "ready"
    BY <1>1, <1>5 DEF ChildStopped, TypeOK, LoadType
  <2>2. PICK e : Settles(k, e) /\ ChildOver(c, e)
    BY <1>1, <2>1, ReleaseSteps
  <2>3. sticky' = [sticky EXCEPT ![k] = e] /\ (NoneGone' => NoneGone)
    BY <2>1, <2>2 DEF Settles, NoneGone
  <2>4. ASSUME NoneGone, NEW r \in Roots
        PROVE  EntryAt(r)'
    <3>1. stage'[r] = stage[r] /\ turn'[r] = turn[r] /\ home'[r] = home[r] /\ EntryAt(r)
      BY <1>1, <1>2, <2>1, <2>4 DEF EntriesKept
    <3>2. LiveForks(r)' = {x \in Children : /\ branch[x].parent = r /\ branch[x].mode = "fork"
                                            /\ stage'[x] \in {"ready", "wire"}}
      BY <2>1 DEF LiveForks, LiveChildren, planVars
    <3>3. LiveForks(r)' = LiveForks(r) \ {c}
      BY <1>2, <2>1, <3>2, LiveForksAre
    <3>4. CASE r # k
      <4>1. LiveForks(r)' = LiveForks(r)
        BY <3>3, <3>4, LiveForksAre
      <4>2. sticky'[r] = sticky[r]
        BY <1>2, <2>3, <3>4
      <4> QED BY <2>1, <3>1, <4>1, <4>2, EntryAtSame
    <3>5. CASE r = k
      <4>1. ChildOver(c, sticky'[r]) /\ r = branch[c].parent /\ stage[c] \in {"ready", "wire"}
        BY <1>2, <2>1, <2>2, <2>3, <3>5
      <4> HIDE DEF k
      <4> QED BY <1>1, <2>1, <3>1, <3>3, <4>1, EntryAfterChild
    <3> QED BY <3>4, <3>5
  <2> QED BY <2>3, <2>4 DEF EntriesKept
<1>6. ASSUME NEW w \in Workers, WorkerReady(w)
      PROVE  EntriesKept'
  <2>1. UNCHANGED <<planVars, stage, turn, home, sticky>>
    BY <1>6 DEF WorkerReady, sessionVars
  <2>2. NoneGone' => NoneGone
    BY <1>2, <1>6 DEF WorkerReady, NoneGone
  <2>3. ASSUME NoneGone, NEW r \in Roots
        PROVE  EntryAt(r)'
    <3>1. LiveForks(r)' = LiveForks(r) /\ EntryAt(r)
      BY <1>1, <2>1, <2>3 DEF LiveForks, LiveChildren, planVars, EntriesKept
    <3> QED BY <2>1, <3>1, EntryAtSame
  <2> QED BY <2>2, <2>3 DEF EntriesKept
<1>7. ASSUME NEW w \in Workers, WorkerShutdown(w)
      PROVE  EntriesKept'
  <2>1. worker'[w] = "gone"
    BY <1>2, <1>7 DEF WorkerShutdown
  <2> QED BY <2>1 DEF EntriesKept, NoneGone
<1>8. CASE UNCHANGED vars
  <2>1. UNCHANGED <<planVars, stage, turn, home, sticky, worker>>
    BY <1>8 DEF sessionVars, vars
  <2>2. NoneGone' => NoneGone
    BY <2>1 DEF NoneGone
  <2>3. ASSUME NoneGone, NEW r \in Roots
        PROVE  EntryAt(r)'
    <3>1. LiveForks(r)' = LiveForks(r) /\ EntryAt(r)
      BY <1>1, <2>1, <2>3 DEF LiveForks, LiveChildren, planVars, EntriesKept
    <3> QED BY <2>1, <3>1, EntryAtSame
  <2> QED BY <2>2, <2>3 DEF EntriesKept
<1> QED BY <1>3, <1>4, <1>5, <1>6, <1>7, <1>8 DEF Next

-------------------------------------------------------------------------------
\* Nothing is sent, counted or stuck at the start.
LEMMA InitHolds == Init => IInv
<1> SUFFICES ASSUME Init PROVE IInv
  OBVIOUS
<1>1. /\ turns \in [Sessions -> 1..NumTurns]
      /\ branch \in [Children -> [parent : Roots, after : 0..(NumTurns - 1), mode : Modes]]
      /\ ForksAtTheEnd
      /\ stage = [s \in Sessions |-> IF s \in Roots THEN "ready" ELSE "new"]
      /\ turn = [s \in Sessions |-> 0] /\ home = [s \in Sessions |-> NoWorker]
      /\ worker = [w \in Workers |-> "starting"] /\ load = [w \in Workers |-> NewLoad]
      /\ byLoad = [n \in 0..MaxLoad |-> {}] /\ minLoad = 0
      /\ sticky = [r \in Roots |-> NoEntry]
  BY DEF Init
<1>2. Up = {} /\ Roots \subseteq Sessions /\ Children \subseteq Sessions
  BY <1>1 DEF Up, Sessions
<1>3. MaxLoad \in Nat /\ 0 \in 0..MaxLoad
  BY FiniteSessions
<1>4. TypeOK
  <2>1. NewLoad \in LoadType
    BY <1>3 DEF NewLoad, LoadType
  <2>2. load \in [Workers -> LoadType]
    BY <1>1, <2>1
  <2>3. /\ turn \in [Sessions -> 0..(NumTurns - 1)]
        /\ byLoad \in [0..MaxLoad -> SUBSET Workers] /\ minLoad \in 0..MaxLoad
    BY <1>1, <1>3, TurnsAssumption
  <2>4. /\ stage \in [Sessions -> {"new", "ready", "wire", "over"}]
        /\ home \in [Sessions -> Workers \cup {NoWorker}]
        /\ worker \in [Workers -> {"starting", "up", "gone"}]
        /\ sticky \in [Roots -> [worker : Workers, refs : Int, finalSeen : BOOLEAN]
                            \cup {NoEntry}]
    BY <1>1
  <2> QED BY <1>1, <2>2, <2>3, <2>4 DEF TypeOK, LoadType
<1>5. CreditsAccounted
  BY <1>2 DEF CreditsAccounted
<1>6. LeastLoadIndexed
  BY <1>1, <1>2 DEF LeastLoadIndexed
<1>7. StickyAccounted
  BY <1>1, <1>2 DEF StickyAccounted
<1>8. Progress
  <2>1. \A s \in Sessions : turn[s] < turns[s]
    BY <1>1
  <2>2. \A c \in Children : stage[c] = "new"
    BY <1>1, <1>2, SetsAssumption
  <2> QED BY <1>1, <1>2, <2>1, <2>2 DEF Progress
<1>9. Homes
  BY <1>1, <1>2 DEF Homes
<1>10. \A r \in Roots : ~Underway(r) /\ sticky[r] = NoEntry /\ stage[r] = "ready"
  BY <1>1, <1>2 DEF Underway
<1>11. EntriesOfRoots
  BY <1>10 DEF EntriesOfRoots
<1>12. EntriesKept
  BY <1>10 DEF EntriesKept, EntryAt
<1> QED BY <1>4, <1>5, <1>6, <1>7, <1>8, <1>9, <1>11, <1>12 DEF IInv

\* The invariant holds in every reachable state.
THEOREM Invariance == Spec => []IInv
<1>1. IInv /\ [Next]_vars => IInv'
  <2> SUFFICES ASSUME IInv, [Next]_vars PROVE IInv'
    OBVIOUS
  <2>1. TypeOK' /\ CreditsAccounted' /\ LeastLoadIndexed' /\ StickyAccounted'
    BY KeepsTypes, KeepsCredits, KeepsIndex, KeepsSticky
  <2>2. Progress' /\ Homes' /\ EntriesOfRoots' /\ EntriesKept'
    BY KeepsProgress, KeepsHomes, KeepsEntriesOfRoots, KeepsEntries
  <2> QED BY <2>1, <2>2, Zenon DEF IInv
<1> QED BY InitHolds, <1>1, PTL DEF Spec

-------------------------------------------------------------------------------
\* Every variable has its type; the cached minimum is a load a worker can have.
THEOREM TypeCorrect == Spec => []TypeOK
<1>1. IInv => TypeOK
  BY DEF IInv
<1> QED BY Invariance, <1>1, PTL

\* What the router counts in flight at a worker that is up is what is in flight
\* there: sent by send_credit and not yet returned.
THEOREM CreditsAgree == Spec => []CreditsAccounted
<1>1. IInv => CreditsAccounted
  BY DEF IInv
<1> QED BY Invariance, <1>1, PTL

\* The index by load and the cached minimum agree with the loads, whatever sends,
\* returns, arrivals and departures came before: a new session goes to a worker
\* with the fewest credits, and while one is up there is one to choose.
THEOREM LeastLoad == Spec => []LeastLoadIndexed
<1>1. IInv => LeastLoadIndexed
  BY DEF IInv
<1> QED BY Invariance, <1>1, PTL

\* active_sessions and active_session_ids of every worker are the entries stuck
\* to it, and every entry is stuck to a worker that is up.
THEOREM StickyAgree == Spec => []StickyAccounted
<1>1. IInv => StickyAccounted
  BY DEF IInv
<1> QED BY Invariance, <1>1, PTL

\* RootsKeepWorker: all turns of a root go to the worker of its first while that
\* is up.
THEOREM RootTurnsTogether == Spec => RootsKeepWorker
<1> DEFINE A == \A r \in Roots : KeepsWorker(r)
<1>1. ASSUME IInv, [Next]_vars, NEW r \in Roots, Sends(r), turn[r] > 0, home[r] \in Up
      PROVE  home'[r] = home[r]
  <2>1. /\ TypeOK /\ LeastLoadIndexed /\ StickyAccounted /\ Progress /\ EntriesOfRoots
        /\ stage[r] = "ready" /\ stage'[r] = "wire" /\ r \in Sessions /\ Roots \cap Children = {}
    BY <1>1, SetsAssumption DEF IInv, Sends, Sessions
  <2>2. sticky[r] # NoEntry /\ sticky[r].worker = home[r]
    BY <1>1, <2>1 DEF EntriesOfRoots, Underway
  <2>3. home \in [Sessions -> Workers \cup {NoWorker}]
        /\ stage \in [Sessions -> {"new", "ready", "wire", "over"}]
    BY <2>1 DEF TypeOK
  <2>4. ASSUME NEW s \in Sessions, NEW w \in Workers, SendCredit(s, w)
        PROVE  home'[r] = home[r]
    <3>1. home' = [home EXCEPT ![s] = w] /\ EntrySent(s, w, EntryAfterSend(s, w))
      BY <2>1, <2>4, SendEntries DEF SendCredit
    <3>2. CASE s = r
      <4>1. RoutingKey(r) = r
        BY <2>1 DEF RoutingKey
      <4>2. w = sticky[r].worker
        BY <2>2, <3>1, <3>2, <4>1 DEF EntrySent
      <4> QED BY <2>1, <2>2, <2>3, <3>1, <3>2, <4>2
    <3>3. CASE s # r
      BY <2>1, <2>3, <3>1, <3>3
    <3> QED BY <3>2, <3>3
  <2>5. CASE ~\E s \in Sessions, w \in Workers : SendCredit(s, w)
    <3>1. home' = home
      BY <1>1, <2>5 DEF Next, CreditReturned, ChildStopped, WorkerReady, WorkerShutdown,
                        vars, sessionVars
    <3> QED BY <3>1
  <2> QED BY <2>4, <2>5
<1>2. IInv /\ [Next]_vars => [A]_vars
  BY <1>1 DEF KeepsWorker
<1> QED BY Invariance, <1>2, PTL DEF Spec, RootsKeepWorker

\* A forked child goes to its parent's worker while no worker has left, even
\* though its parent has ended and its last turn took its own reservation off.
THEOREM ForkedFollow == Spec => ForkedChildrenFollow
<1> DEFINE A == \A c \in Children :
       (Sends(c) /\ branch[c].mode = "fork" /\ \A w \in Workers : worker[w] # "gone")
         => home'[c] = home[branch[c].parent]
<1>1. ASSUME IInv, [Next]_vars, NEW c \in Children, Sends(c), branch[c].mode = "fork",
             \A w \in Workers : worker[w] # "gone"
      PROVE  home'[c] = home[branch[c].parent]
  <2> DEFINE p == branch[c].parent
             n == Cardinality(LiveForks(p))
             h == home[p]
  <2>1. /\ TypeOK /\ LeastLoadIndexed /\ StickyAccounted /\ Progress /\ Homes
        /\ stage[c] = "ready" /\ stage'[c] = "wire" /\ c \in Sessions /\ NoneGone
        /\ EntriesKept /\ Roots \cap Children = {}
    BY <1>1, SetsAssumption DEF IInv, Sends, Sessions, NoneGone
  <2>2. /\ home \in [Sessions -> Workers \cup {NoWorker}] /\ p \in Roots /\ p \in Sessions
        /\ stage \in [Sessions -> {"new", "ready", "wire", "over"}]
    BY <2>1 DEF TypeOK, Sessions
  <2>3. stage[p] = "over" /\ c \in LiveForks(p)
    BY <1>1, <2>1, ForksFollow, LiveForksAre
  <2>4. sticky[p] = Entry(h, n, TRUE)
    BY <2>1, <2>2, <2>3 DEF EntriesKept, EntryAt
  <2>5. h \in Workers
    BY <2>1, <2>2, <2>3 DEF Homes
  <2>6. n \in Int /\ TRUE \in BOOLEAN
    <3>1. IsFiniteSet(LiveForks(p))
      BY SetsAssumption, FS_Subset, LiveForksAre
    <3> QED BY <3>1, FS_CardinalityType
  <2> HIDE DEF n, h
  <2>7. Entry(h, n, TRUE) # NoEntry /\ Entry(h, n, TRUE).worker = h
    BY <2>5, <2>6, EntryFields
  <2>8. sticky[p] # NoEntry /\ sticky[p].worker = h
    BY <2>4, <2>7, Zenon
  <2>9. ASSUME NEW s \in Sessions, NEW w \in Workers, SendCredit(s, w)
        PROVE  home'[c] = h
    <3>1. /\ home' = [home EXCEPT ![s] = w] /\ EntrySent(s, w, EntryAfterSend(s, w))
          /\ stage' = [stage EXCEPT ![s] = "wire"]
      BY <2>1, <2>9, SendEntries DEF SendCredit
    <3>2. s = c
      BY <2>1, <2>2, <3>1
    <3>3. RoutingKey(c) = p
      BY DEF RoutingKey
    <3>4. w = h
      BY <2>8, <3>1, <3>2, <3>3 DEF EntrySent
    <3> QED BY <2>1, <2>2, <3>1, <3>2, <3>4
  <2>10. CASE ~\E s \in Sessions, w \in Workers : SendCredit(s, w)
    <3>1. CASE UNCHANGED vars
      BY <2>1, <3>1 DEF vars, sessionVars
    <3>2. ASSUME NEW s \in Sessions, CreditReturned(s)
          PROVE  FALSE
      BY <2>1, <3>2 DEF CreditReturned
    <3>3. ASSUME NEW d \in Children, ChildStopped(d)
          PROVE  FALSE
      BY <2>1, <2>2, <3>3 DEF ChildStopped
    <3>4. ASSUME NEW w \in Workers, WorkerReady(w) \/ WorkerShutdown(w)
          PROVE  FALSE
      BY <2>1, <3>4 DEF WorkerReady, WorkerShutdown, sessionVars
    <3> QED BY <1>1, <2>10, <3>1, <3>2, <3>3, <3>4 DEF Next
  <2> QED BY <2>9, <2>10 DEF h
<1>2. IInv /\ [Next]_vars => [A]_vars
  BY <1>1
<1> QED BY Invariance, <1>2, PTL DEF Spec, ForkedChildrenFollow

\* While no worker has left, an entry stands for a session with turns left, or
\* with children alive, about to be forked, or spawned.
THEOREM EntriesStandForWork == Spec => []EntriesJustified
<1>1. ASSUME IInv, NoneGone, NEW k \in Roots, sticky[k] # NoEntry,
             stage[k] # "ready", ~(stage[k] = "wire" /\ (~IsFinalTurn(k) \/ HasForks(k)))
      PROVE  LiveChildren(k) # {} \/ Spawns(k) # {}
  <2>1. EntryAt(k) /\ stage[k] \in {"wire", "over"}
    BY <1>1 DEF IInv, EntriesKept, Progress, TypeOK, Sessions
  <2>2. LiveForks(k) # {} => LiveChildren(k) # {}
    BY DEF LiveForks
  <2> QED BY <1>1, <2>1, <2>2 DEF EntryAt
<1>2. IInv => EntriesJustified
  BY <1>1 DEF EntriesJustified, NoneGone
<1> QED BY Invariance, <1>2, PTL
===============================================================================
