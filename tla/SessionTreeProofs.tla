---------------------------- MODULE SessionTreeProofs ----------------------------
(***************************************************************************)
(* Theorems of SessionTree, for any number of lanes, roots and children:   *)
(* a session slot is taken exactly while its tree is open; what the        *)
(* registry counts is what is there and what ended before its tree was     *)
(* open; and a tree without a root to come has work unless it counts a     *)
(* child that ended too early.                                             *)
(*                                                                         *)
(* Every step but the stop and the teardown touches one tree, so a step is *)
(* described by what it leaves of that tree (x), of the descendants        *)
(* buffered for it (b) and of its root's stage (st).                       *)
(***************************************************************************)
EXTENDS SessionTree, FiniteSetTheorems, TLAPS

(***************************************************************************)
(* The invariant.                                                          *)
(***************************************************************************)
Trees == [pending : BOOLEAN, outstanding : Nat]
Before == {"fresh", "starting", "unstarted"}      \* a tree not opened yet
Ended == {"absent", "finished"}                   \* a root not pending any more
Starting == {r \in Roots : root[r] = "starting"}
Kids(r) == {c \in Children : parent[c] = r}

Outstanding(x) == IF x = NoTree THEN 0 ELSE x.outstanding

\* A tree's root is pending until its last turn, or until it is gone.
Pends(x, st) == x.pending <=> st \notin Ended

\* What a tree must be, given its root's stage: open while its root is pending,
\* and never kept once it has drained.
Fits(x, st) ==
  /\ x # NoTree => st \notin Before /\ Pends(x, st) /\ ~Drained(x)
  /\ st \notin Before \cup Ended => x # NoTree

\* The slots a tree holds, and the lanes it and its root stand for.
Held(x, st) == IF x # NoTree /\ st # "refused" THEN 1 ELSE 0
Laned(x, st) == (IF st = "starting" THEN 1 ELSE 0) + (IF x # NoTree THEN 1 ELSE 0)

\* No more descendants are counted than were born.
Counted == \A r \in Roots : buffered[r] + Outstanding(trees[r]) <= Cardinality(Kids(r))

\* A root has children only once it is drawn.
Born == \A r \in Roots : Kids(r) # {} => root[r] # "fresh"

Staged == IF phase = "over" THEN Open = {} ELSE \A r \in Roots : Fits(trees[r], root[r])

\* Every lane is unseeded, scheduled to start again, or stands behind one root.
Lanes == unseeded + recycles + Cardinality(Starting) + Cardinality(Open) <= NumLanes

IInv == TypeOK /\ Counted /\ Born /\ Staged /\ Lanes /\ SlotsMatchTrees

\* The children of r the registry has not accounted.
Owed(r) == {c \in Children : parent[c] = r /\ child[c] # "done"}

\* The registry is exact: n descendants are buffered for a tree that is not open,
\* or outstanding in it.
Exact(x, b, n) == IF x = NoTree THEN b = n ELSE b = 0 /\ x.outstanding = n

AllExact == phase # "over" =>
              \A r \in Roots : Exact(trees[r], buffered[r], Cardinality(Owed(r)))

\* Descendants are buffered only for a tree not opened yet.
Buffering == \A r \in Roots : buffered[r] # 0 => root[r] \in Before

Books == AllExact /\ Buffering

-------------------------------------------------------------------------------
(***************************************************************************)
(* Numbers.                                                                *)
(***************************************************************************)
\* The size of a set of roots, with one root more or less.
LEMMA Sizes ==
  ASSUME NEW S \in SUBSET Roots
  PROVE  /\ IsFiniteSet(S) /\ Cardinality(S) \in Nat
         /\ \A r \in Roots : r \notin S => Cardinality(S \cup {r}) = Cardinality(S) + 1
         /\ \A r \in S : Cardinality(S \ {r}) = Cardinality(S) - 1
<1>1. IsFiniteSet(S) /\ Cardinality(S) \in Nat
  BY SetsAssumption, FS_Subset, FS_CardinalityType
<1>2. \A r \in Roots : r \notin S => Cardinality(S \cup {r}) = Cardinality(S) + 1
  BY <1>1, FS_AddElement
<1>3. \A r \in S : Cardinality(S \ {r}) = Cardinality(S) - 1
  BY <1>1, FS_RemoveElement
<1> QED BY <1>1, <1>2, <1>3

\* The size of a set of children, with some more that are not in it.
LEMMA ChildSizes ==
  ASSUME NEW S \in SUBSET Children
  PROVE  /\ IsFiniteSet(S) /\ Cardinality(S) \in Nat
         /\ Cardinality(S) <= Cardinality(Children) /\ Cardinality(Children) \in Nat
         /\ Cardinality(S) = 0 <=> S = {}
         /\ \A T \in SUBSET Children :
              S \cap T = {} => Cardinality(S \cup T) = Cardinality(S) + Cardinality(T)
         /\ \A c \in S : Cardinality(S \ {c}) = Cardinality(S) - 1
<1>1. IsFiniteSet(S) /\ Cardinality(S) \in Nat /\ Cardinality(S) <= Cardinality(Children)
      /\ Cardinality(Children) \in Nat
  BY SetsAssumption, FS_Subset, FS_CardinalityType
<1>2. Cardinality(S) = 0 <=> S = {}
  BY <1>1, FS_EmptySet
<1>3. ASSUME NEW T \in SUBSET Children, S \cap T = {}
      PROVE  Cardinality(S \cup T) = Cardinality(S) + Cardinality(T)
  <2>1. IsFiniteSet(T) /\ Cardinality(T) \in Nat
    BY SetsAssumption, FS_Subset, FS_CardinalityType
  <2>2. Cardinality(S \cup T) = Cardinality(S) + Cardinality(T) - Cardinality(S \cap T)
    BY <1>1, <2>1, FS_Union
  <2>3. Cardinality(S \cap T) = 0
    BY <1>3, FS_EmptySet
  <2> QED BY <1>1, <2>1, <2>2, <2>3
<1>4. \A c \in S : Cardinality(S \ {c}) = Cardinality(S) - 1
  BY <1>1, FS_RemoveElement
<1> QED BY <1>1, <1>2, <1>3, <1>4

\* Four lanes' counts that fit, and what is left of them when two of them change
\* with the lanes that one root stands for.
LEMMA LanesFit ==
  ASSUME NEW n \in Nat, NEW u \in Nat, NEW c \in Nat, NEW s \in Nat, NEW o \in Nat,
         u + c + s + o <= n
  PROVE  u \in 0..n /\ c \in 0..n /\ o <= n
OBVIOUS

\* The lanes add up to what they did when one root's share moves between the counts.
LEMMA LanesKept ==
  ASSUME NEW n \in Nat, NEW u \in Nat, NEW c \in Nat, NEW s \in Nat, NEW o \in Nat,
         NEW u1 \in Nat, NEW c1 \in Nat, NEW s1 \in Nat, NEW o1 \in Nat,
         NEW l \in Nat, NEW l1 \in Nat,
         u + c + s + o <= n, o1 + s1 + l = o + s + l1, u1 + c1 + l1 <= u + c + l
  PROVE  u1 + c1 + s1 + o1 <= n
OBVIOUS

\* The free slots make way for what one root's tree holds.
LEMMA SlotsKept ==
  ASSUME NEW n \in Nat, NEW f \in Nat, NEW f1 \in Int, NEW k \in Nat, NEW k1 \in Nat,
         NEW h \in Nat, NEW h1 \in Nat,
         f = n - k, k1 + h = k + h1, f1 + h1 = f + h
  PROVE  f1 = n - k1
OBVIOUS

\* A set of roots changes at one root at most.
LEMMA OneMore ==
  ASSUME NEW S \in SUBSET Roots, NEW T \in SUBSET Roots, NEW r \in Roots,
         \A q \in Roots \ {r} : q \in S <=> q \in T
  PROVE  Cardinality(T) + (IF r \in S THEN 1 ELSE 0)
           = Cardinality(S) + (IF r \in T THEN 1 ELSE 0)
<1>1. Cardinality(S) \in Nat /\ Cardinality(T) \in Nat
  BY Sizes
<1>2. CASE r \in S <=> r \in T
  <2>1. S = T
    BY <1>2
  <2> QED BY <1>1, <1>2, <2>1
<1>3. CASE r \in S /\ r \notin T
  <2>1. T = S \ {r}
    BY <1>3
  <2>2. Cardinality(S \ {r}) = Cardinality(S) - 1
    BY <1>3, Sizes
  <2> QED BY <1>1, <1>3, <2>1, <2>2
<1>4. CASE r \notin S /\ r \in T
  <2>1. T = S \cup {r}
    BY <1>4
  <2>2. Cardinality(S \cup {r}) = Cardinality(S) + 1
    BY <1>4, Sizes
  <2> QED BY <1>1, <1>4, <2>1, <2>2
<1> QED BY <1>2, <1>3, <1>4

\* The types of what the registry does not keep.
OtherTypes ==
  /\ left \in [Roots -> 0..MaxTurns]
  /\ child \in [Children -> {"unborn", "seeded", "spawned", "wire", "ending", "done", "forgotten"}]
  /\ parent \in [Children -> Roots \cup {NoRoot}]
  /\ gating \subseteq Children
  /\ \A c \in Children : child[c] = "unborn" <=> parent[c] = NoRoot

\* A step touches the tree of r only, and leaves x of it, b descendants buffered
\* for it, and its root at the stage st.
Touches(r, x, b, st) ==
  /\ phase # "over" /\ phase' = phase
  /\ trees' = [trees EXCEPT ![r] = x]
  /\ buffered' = [buffered EXCEPT ![r] = b]
  /\ root' = [root EXCEPT ![r] = st]
  /\ \A q \in Roots \ {r} : Kids(q)' = Kids(q) /\ Owed(q)' = Owed(q)

\* What such a step must do to keep the invariant: the tree fits its root, the
\* slot it holds is accounted for, and no lane is added.
Keeps(r, x, b, st) ==
  /\ Touches(r, x, b, st) /\ OtherTypes' /\ Fits(x, st)
  /\ b + Outstanding(x) <= Cardinality(Kids(r)')
  /\ Kids(r)' # {} => st # "fresh"
  /\ free' \in Int /\ free' + Held(x, st) = free + Held(trees[r], root[r])
  /\ unseeded' \in Nat /\ recycles' \in Nat
  /\ unseeded' + recycles' + Laned(x, st) <= unseeded + recycles + Laned(trees[r], root[r])

\* What it must do to keep the registry exact.
Agrees(r, x, b, st) ==
  /\ Exact(x, b, Cardinality(Owed(r)')) /\ (b # 0 => st \in Before)

-------------------------------------------------------------------------------
(***************************************************************************)
(* What the invariant says of one tree.                                    *)
(***************************************************************************)
\* The types, by variable.
LEMMA Kinds ==
  ASSUME TypeOK
  PROVE  /\ OtherTypes
         /\ unseeded \in Nat /\ recycles \in Nat /\ NumLanes \in Nat /\ free \in Nat
         /\ \A r \in Roots : /\ trees[r] \in Trees \cup {NoTree}
                             /\ buffered[r] \in Nat /\ root[r] \in RootStages
                             /\ left[r] \in 0..MaxTurns
                             /\ Outstanding(trees[r]) \in Nat
         /\ NoTree \notin Trees /\ NoRoot \notin Roots
         /\ Open \in SUBSET Roots /\ TurnedAway \in SUBSET Roots /\ Starting \in SUBSET Roots
         /\ Open \ TurnedAway \in SUBSET Roots
         /\ \A r : Kids(r) \in SUBSET Children /\ Owed(r) \in SUBSET Children
         /\ \A r \in Roots : Owed(r) \subseteq Kids(r)
         /\ \A r \in Roots : r \in Open <=> trees[r] # NoTree
<1>1. Cardinality(Children) \in Nat
  BY SetsAssumption, FS_CardinalityType
<1>2. \A r \in Roots : trees[r] \in Trees \cup {NoTree} /\ buffered[r] \in Nat
  <2> SUFFICES ASSUME NEW r \in Roots
               PROVE  trees[r] \in Trees \cup {NoTree} /\ buffered[r] \in Nat
    OBVIOUS
  <2>1. /\ trees[r] \in [pending : BOOLEAN, outstanding : 0..Cardinality(Children)] \cup {NoTree}
        /\ buffered[r] \in 0..Cardinality(Children)
    BY DEF TypeOK
  <2>2. 0..Cardinality(Children) \subseteq Nat
    BY <1>1
  <2> QED BY <2>1, <2>2 DEF Trees
<1>3. \A r \in Roots : Outstanding(trees[r]) \in Nat
  BY <1>2 DEF Outstanding, Trees
<1>4. NoTree \notin Trees /\ NoRoot \notin Roots
  BY NoTreeAssumption, SetsAssumption DEF Trees
<1>5. unseeded \in Nat /\ recycles \in Nat /\ NumLanes \in Nat /\ free \in Nat
  BY NumbersAssumption DEF TypeOK
<1>6. OtherTypes
  BY DEF TypeOK, OtherTypes
<1>7. \A r \in Roots : root[r] \in RootStages /\ left[r] \in 0..MaxTurns
  BY DEF TypeOK
<1>8. /\ Open \in SUBSET Roots /\ TurnedAway \in SUBSET Roots /\ Starting \in SUBSET Roots
      /\ Open \ TurnedAway \in SUBSET Roots
      /\ \A r : Kids(r) \in SUBSET Children /\ Owed(r) \in SUBSET Children
      /\ \A r \in Roots : Owed(r) \subseteq Kids(r)
      /\ \A r \in Roots : r \in Open <=> trees[r] # NoTree
  BY DEF Open, TurnedAway, Starting, Kids, Owed
<1> QED BY <1>2, <1>3, <1>4, <1>5, <1>6, <1>7, <1>8

\* A step that touches one tree keeps the invariant if that tree fits its root
\* after it, the slot it holds is accounted for and no lane is added.
LEMMA OneTree ==
  ASSUME IInv, NEW r \in Roots, NEW x \in Trees \cup {NoTree}, NEW b \in Nat,
         NEW st \in RootStages, Keeps(r, x, b, st)
  PROVE  IInv'
<1>0. /\ Touches(r, x, b, st) /\ OtherTypes' /\ Fits(x, st)
      /\ b + Outstanding(x) <= Cardinality(Kids(r)')
      /\ Kids(r)' # {} => st # "fresh"
      /\ free' \in Int /\ free' + Held(x, st) = free + Held(trees[r], root[r])
      /\ unseeded' \in Nat /\ recycles' \in Nat
      /\ unseeded' + recycles' + Laned(x, st) <= unseeded + recycles + Laned(trees[r], root[r])
  BY DEF Keeps
<1>1. TypeOK
  BY DEF IInv
<1>2. /\ phase # "over" /\ phase' = phase /\ phase \in {"open", "stopped", "over"}
      /\ trees' = [q \in Roots |-> IF q = r THEN x ELSE trees[q]]
      /\ buffered' = [q \in Roots |-> IF q = r THEN b ELSE buffered[q]]
      /\ root' = [q \in Roots |-> IF q = r THEN st ELSE root[q]]
      /\ \A q \in Roots \ {r} : Kids(q)' = Kids(q)
  BY <1>0, <1>1 DEF Touches, TypeOK
<1>3. /\ \A q \in Roots \ {r} : trees'[q] = trees[q] /\ buffered'[q] = buffered[q]
                                /\ root'[q] = root[q]
      /\ trees'[r] = x /\ buffered'[r] = b /\ root'[r] = st
  BY <1>2
<1>4. /\ unseeded \in Nat /\ recycles \in Nat /\ NumLanes \in Nat /\ free \in Nat
      /\ \A q \in Roots : /\ trees[q] \in Trees \cup {NoTree}
                          /\ buffered[q] \in Nat /\ root[q] \in RootStages
      /\ NoTree \notin Trees
      /\ Open \in SUBSET Roots /\ TurnedAway \in SUBSET Roots /\ Starting \in SUBSET Roots
      /\ Open \ TurnedAway \in SUBSET Roots
      /\ \A q \in Roots : q \in Open <=> trees[q] # NoTree
  BY <1>1, Kinds
<1>5. \A q \in Roots : q \in Open' <=> trees'[q] # NoTree
  BY DEF Open
<1>6. Open' \in SUBSET Roots /\ Starting' \in SUBSET Roots /\ (Open \ TurnedAway)' \in SUBSET Roots
  BY DEF Open, Starting, TurnedAway
<1>7. \A q \in Roots : Fits(trees'[q], root'[q])
  BY <1>0, <1>2, <1>3 DEF IInv, Staged
<1>8. Staged'
  BY <1>2, <1>7 DEF Staged
<1>9. ASSUME NEW q \in Roots
      PROVE  buffered'[q] + Outstanding(trees'[q]) <= Cardinality(Kids(q)')
  BY <1>0, <1>2, <1>3 DEF IInv, Counted
<1>10. Counted'
  <2>1. \A q \in Roots : Outstanding(trees[q])' = Outstanding(trees'[q])
    BY DEF Outstanding
  <2>2. \A q \in Roots : Cardinality(Kids(q))' = Cardinality(Kids(q)')
    OBVIOUS
  <2> QED BY <1>9, <2>1 DEF Counted
<1>11. Born'
  BY <1>0, <1>2, <1>3 DEF IInv, Born
<1>12. Cardinality(Open') + (IF r \in Open THEN 1 ELSE 0)
         = Cardinality(Open) + (IF r \in Open' THEN 1 ELSE 0)
  <2>1. \A q \in Roots \ {r} : q \in Open <=> q \in Open'
    BY <1>3, <1>4, <1>5
  <2> QED BY <1>4, <1>6, <2>1, OneMore
<1>13. Cardinality(Starting') + (IF r \in Starting THEN 1 ELSE 0)
         = Cardinality(Starting) + (IF r \in Starting' THEN 1 ELSE 0)
  <2>1. \A q \in Roots \ {r} : q \in Starting <=> q \in Starting'
    BY <1>3 DEF Starting
  <2> QED BY <1>4, <1>6, <2>1, OneMore
<1>14. Cardinality((Open \ TurnedAway)') + (IF r \in Open \ TurnedAway THEN 1 ELSE 0)
         = Cardinality(Open \ TurnedAway) + (IF r \in (Open \ TurnedAway)' THEN 1 ELSE 0)
  <2> DEFINE S == Open \ TurnedAway
             T == (Open \ TurnedAway)'
  <2>1. \A q \in Roots \ {r} : q \in S <=> q \in T
    BY <1>3, <1>4, <1>5 DEF TurnedAway
  <2>2. S \in SUBSET Roots /\ T \in SUBSET Roots
    BY <1>4, <1>6
  <2> HIDE DEF S, T
  <2>3. Cardinality(T) + (IF r \in S THEN 1 ELSE 0)
          = Cardinality(S) + (IF r \in T THEN 1 ELSE 0)
    BY <2>1, <2>2, OneMore
  <2> QED BY <2>3 DEF S, T
<1>15. /\ r \in Open <=> trees[r] # NoTree
       /\ r \in Open' <=> x # NoTree
       /\ r \in Starting <=> root[r] = "starting"
       /\ r \in Starting' <=> st = "starting"
       /\ r \in Open \ TurnedAway <=> trees[r] # NoTree /\ root[r] # "refused"
       /\ r \in (Open \ TurnedAway)' <=> x # NoTree /\ st # "refused"
  BY <1>3, <1>4, <1>5 DEF Starting, TurnedAway
<1>16. /\ Cardinality(Open) \in Nat /\ Cardinality(Open') \in Nat
       /\ Cardinality(Starting) \in Nat /\ Cardinality(Starting') \in Nat
       /\ Cardinality(Open \ TurnedAway) \in Nat /\ Cardinality((Open \ TurnedAway)') \in Nat
  BY <1>4, <1>6, Sizes
<1>17. unseeded' + recycles' + Cardinality(Starting') + Cardinality(Open') <= NumLanes
  <2> DEFINE o == Cardinality(Open) o1 == Cardinality(Open')
             s == Cardinality(Starting) s1 == Cardinality(Starting')
  <2>1. unseeded + recycles + s + o <= NumLanes
    BY DEF IInv, Lanes
  <2>2. /\ o1 + (IF trees[r] # NoTree THEN 1 ELSE 0) = o + (IF x # NoTree THEN 1 ELSE 0)
        /\ s1 + (IF root[r] = "starting" THEN 1 ELSE 0) = s + (IF st = "starting" THEN 1 ELSE 0)
        /\ o \in Nat /\ o1 \in Nat /\ s \in Nat /\ s1 \in Nat
    BY <1>12, <1>13, <1>15, <1>16
  <2> DEFINE l == Laned(trees[r], root[r]) l1 == Laned(x, st)
  <2>3. o1 + s1 + l = o + s + l1 /\ l \in Nat /\ l1 \in Nat
    <3> HIDE DEF o, o1, s, s1
    <3> QED BY <2>2 DEF Laned
  <2>4. unseeded' + recycles' + l1 <= unseeded + recycles + l
    BY <1>0
  <2> HIDE DEF o, o1, s, s1, l, l1
  <2>5. /\ unseeded \in Nat /\ recycles \in Nat /\ unseeded' \in Nat /\ recycles' \in Nat
        /\ NumLanes \in Nat /\ o \in Nat /\ o1 \in Nat /\ s \in Nat /\ s1 \in Nat
    BY <1>0, <1>4, <2>2
  <2> DEFINE u == unseeded c == recycles u1 == unseeded' c1 == recycles'
  <2>6. /\ u + c + s + o <= NumLanes /\ o1 + s1 + l = o + s + l1 /\ u1 + c1 + l1 <= u + c + l
        /\ l \in Nat /\ l1 \in Nat /\ o \in Nat /\ o1 \in Nat /\ s \in Nat /\ s1 \in Nat
        /\ u \in Nat /\ c \in Nat /\ u1 \in Nat /\ c1 \in Nat /\ NumLanes \in Nat
    BY <2>1, <2>3, <2>4, <2>5
  <2> HIDE DEF u, c, u1, c1
  <2>7. u1 + c1 + s1 + o1 <= NumLanes
    BY <2>6, LanesKept
  <2> QED BY <2>7 DEF s1, o1, u1, c1
<1>18. Lanes'
  BY <1>17 DEF Lanes
<1>19. free' = NumLanes - Cardinality((Open \ TurnedAway)')
  <2> DEFINE k == Cardinality(Open \ TurnedAway) k1 == Cardinality((Open \ TurnedAway)')
  <2>1. free = NumLanes - k
    BY <1>2, <1>4, <1>16 DEF IInv, SlotsMatchTrees
  <2>2. k1 + Held(trees[r], root[r]) = k + Held(x, st)
    BY <1>14, <1>15 DEF Held
  <2>3. k \in Nat /\ k1 \in Nat /\ Held(trees[r], root[r]) \in Nat /\ Held(x, st) \in Nat
    BY <1>16 DEF Held
  <2> DEFINE h == Held(trees[r], root[r]) h1 == Held(x, st) f == free f1 == free'
  <2>4. /\ k1 + h = k + h1 /\ k \in Nat /\ k1 \in Nat /\ h \in Nat /\ h1 \in Nat
        /\ f1 \in Int /\ f1 + h1 = f + h /\ f \in Nat /\ NumLanes \in Nat /\ f = NumLanes - k
    BY <1>0, <1>4, <2>1, <2>2, <2>3
  <2> HIDE DEF k, k1, h, h1, f, f1
  <2>5. f1 = NumLanes - k1
    BY <2>4, SlotsKept
  <2> QED BY <2>5 DEF f1, k1
<1>20. SlotsMatchTrees'
  BY <1>2, <1>4, <1>16, <1>19 DEF SlotsMatchTrees
<1>21. TypeOK'
  <2>1. free' \in Nat
    <3>1. Cardinality((Open \ TurnedAway)') <= Cardinality(Open')
      <4>1. (Open \ TurnedAway)' \in SUBSET Open' /\ IsFiniteSet(Open')
        BY <1>6, Sizes
      <4> QED BY <4>1, FS_Subset
    <3>2. Cardinality(Open') <= NumLanes
      <4> DEFINE s1 == Cardinality(Starting') o1 == Cardinality(Open')
      <4>1. /\ unseeded' \in Nat /\ recycles' \in Nat /\ s1 \in Nat /\ o1 \in Nat
            /\ NumLanes \in Nat /\ unseeded' + recycles' + s1 + o1 <= NumLanes
        BY <1>0, <1>4, <1>16, <1>17
      <4> HIDE DEF s1, o1
      <4>2. o1 <= NumLanes
        BY <4>1, LanesFit
      <4> QED BY <4>2 DEF o1
    <3> QED BY <1>0, <1>4, <1>16, <1>19, <3>1, <3>2
  <2>2. unseeded' \in 0..NumLanes /\ recycles' \in 0..NumLanes
    BY <1>0, <1>4, <1>16, <1>17
  <2>3. \A q \in Roots : /\ trees'[q] \in Trees \cup {NoTree} /\ buffered'[q] \in Nat
                         /\ root'[q] \in RootStages
    BY <1>3, <1>4
  <2>4. ASSUME NEW q \in Roots
        PROVE  /\ buffered'[q] \in 0..Cardinality(Children)
               /\ trees'[q] \in [pending : BOOLEAN, outstanding : 0..Cardinality(Children)]
                                  \cup {NoTree}
    <3>1. Kids(q)' \in SUBSET Children
      BY DEF Kids
    <3>2. /\ Cardinality(Kids(q)') <= Cardinality(Children)
          /\ Cardinality(Kids(q)') \in Nat /\ Cardinality(Children) \in Nat
      BY <3>1, ChildSizes
    <3>3. Outstanding(trees'[q]) \in Nat /\ buffered'[q] \in Nat
      BY <2>3 DEF Outstanding, Trees
    <3>4. Outstanding(trees'[q]) \in 0..Cardinality(Children)
          /\ buffered'[q] \in 0..Cardinality(Children)
      BY <1>9, <3>2, <3>3
    <3>5. CASE trees'[q] = NoTree
      BY <3>4, <3>5
    <3>6. CASE trees'[q] # NoTree
      <4>1. trees'[q] \in Trees /\ trees'[q].outstanding \in 0..Cardinality(Children)
        BY <2>3, <3>4, <3>6 DEF Outstanding
      <4> QED BY <3>4, <4>1 DEF Trees
    <3> QED BY <3>5, <3>6
  <2>5. /\ trees' \in [Roots -> [pending : BOOLEAN, outstanding : 0..Cardinality(Children)]
                                   \cup {NoTree}]
        /\ buffered' \in [Roots -> 0..Cardinality(Children)]
        /\ root' \in [Roots -> RootStages]
    <3>1. DOMAIN trees' = Roots /\ DOMAIN buffered' = Roots /\ DOMAIN root' = Roots
          /\ trees' = [q \in Roots |-> trees'[q]]
          /\ buffered' = [q \in Roots |-> buffered'[q]]
          /\ root' = [q \in Roots |-> root'[q]]
      BY <1>2
    <3> QED BY <2>3, <2>4, <3>1
  <2> QED BY <1>0, <1>2, <2>1, <2>2, <2>5 DEF TypeOK, OtherTypes
<1> QED BY <1>8, <1>10, <1>11, <1>18, <1>20, <1>21 DEF IInv

-------------------------------------------------------------------------------
(***************************************************************************)
(* The registry's operations.                                              *)
(***************************************************************************)
\* What is left of a tree that becomes t, and of one that loses a descendant.
Settled(t) == IF Drained(t) THEN NoTree ELSE t
AfterDone(x) == IF x = NoTree THEN NoTree ELSE Settled(WithoutDescendant(x))

\* The lanes a tree and its root stand for, in the four cases.
LEMMA LaneCount ==
  ASSUME NEW x, NEW st
  PROVE  /\ st # "starting" /\ x = NoTree => Laned(x, st) = 0
         /\ st # "starting" /\ x # NoTree => Laned(x, st) = 1
         /\ st = "starting" /\ x = NoTree => Laned(x, st) = 1
         /\ Laned(x, st) \in Nat
<1> DEFINE a == IF st = "starting" THEN 1 ELSE 0
           b == IF x # NoTree THEN 1 ELSE 0
<1>1. Laned(x, st) = a + b
  BY DEF Laned
<1>2. (st # "starting" => a = 0) /\ (st = "starting" => a = 1) /\ a \in Nat
  OBVIOUS
<1>3. (x = NoTree => b = 0) /\ (x # NoTree => b = 1) /\ b \in Nat
  OBVIOUS
<1> HIDE DEF a, b
<1> QED BY <1>1, <1>2, <1>3

\* An open tree becomes t: its slot goes back and its lane starts again exactly
\* when it has drained.
LEMMA Settling ==
  ASSUME IInv, phase # "over", NEW r \in Open, NEW t \in Trees, NEW st \in RootStages,
         st \notin Before, Pends(t, st),
         st # root[r] => "refused" \notin {st, root[r]}, Settle(r, t)
  PROVE  /\ trees' = [trees EXCEPT ![r] = Settled(t)]
         /\ Settled(t) \in Trees \cup {NoTree} /\ Fits(Settled(t), st)
         /\ free' \in Int /\ free' + Held(Settled(t), st) = free + Held(trees[r], root[r])
         /\ recycles' \in Nat
         /\ recycles' + Laned(Settled(t), st) = recycles + Laned(trees[r], root[r])
<1>1. /\ TypeOK /\ r \in Roots /\ trees[r] # NoTree /\ Fits(trees[r], root[r])
      /\ free \in Nat /\ recycles \in Nat /\ NoTree \notin Trees
  <2>1. TypeOK
    BY DEF IInv
  <2> QED BY <2>1, Kinds DEF Open, IInv, Staged
<1>2. t # NoTree
  BY <1>1
<1>3. root[r] # "starting" /\ st # "starting"
  BY <1>1 DEF Fits, Before
<1>4. CASE Drained(t)
  <2>1. /\ Settled(t) = NoTree
        /\ trees' = [trees EXCEPT ![r] = NoTree] /\ free' = free + 1 /\ recycles' = recycles + 1
    BY <1>4 DEF Settle, Settled
  <2>2. st \in Ended
    BY <1>4 DEF Drained, Pends
  <2>3. st # "refused" /\ root[r] # "refused"
    BY <2>2 DEF Ended
  <2>4. Fits(NoTree, st)
    BY <2>2 DEF Fits
  <2>5. Held(NoTree, st) = 0 /\ Held(trees[r], root[r]) = 1
    BY <1>1, <2>3 DEF Held
  <2>6. Laned(NoTree, st) = 0 /\ Laned(trees[r], root[r]) = 1
    BY <1>1, <1>3, LaneCount
  <2>7. Settled(t) \in Trees \cup {NoTree} /\ Fits(Settled(t), st)
    BY <2>1, <2>4
  <2>8. free' \in Int /\ free' + Held(Settled(t), st) = free + Held(trees[r], root[r])
    <3> DEFINE h == Held(Settled(t), st) h0 == Held(trees[r], root[r])
    <3>1. h = 0 /\ h0 = 1
      BY <2>1, <2>5
    <3>2. free' = free + 1 /\ free \in Nat
      BY <1>1, <2>1
    <3> HIDE DEF h, h0
    <3>3. free' \in Int /\ free' + h = free + h0
      BY <3>1, <3>2
    <3> QED BY <3>3 DEF h, h0
  <2>9. recycles' \in Nat
        /\ recycles' + Laned(Settled(t), st) = recycles + Laned(trees[r], root[r])
    <3> DEFINE h == Laned(Settled(t), st) h0 == Laned(trees[r], root[r])
    <3>1. h = 0 /\ h0 = 1
      BY <2>1, <2>6
    <3>2. recycles' = recycles + 1 /\ recycles \in Nat
      BY <1>1, <2>1
    <3> HIDE DEF h, h0
    <3>3. recycles' \in Nat /\ recycles' + h = recycles + h0
      BY <3>1, <3>2
    <3> QED BY <3>3 DEF h, h0
  <2> QED BY <2>1, <2>7, <2>8, <2>9
<1>5. CASE ~Drained(t)
  <2>1. /\ Settled(t) = t
        /\ trees' = [trees EXCEPT ![r] = t] /\ free' = free /\ recycles' = recycles
    BY <1>5 DEF Settle, Settled
  <2>2. Fits(t, st)
    BY <1>2, <1>5 DEF Fits
  <2>3. Held(t, st) = Held(trees[r], root[r])
    BY <1>1, <1>2 DEF Held
  <2>4. Laned(t, st) = 1 /\ Laned(trees[r], root[r]) = 1
    BY <1>1, <1>2, <1>3, LaneCount
  <2>5. Settled(t) \in Trees \cup {NoTree} /\ Fits(Settled(t), st)
    BY <2>1, <2>2
  <2>6. free' \in Int /\ free' + Held(Settled(t), st) = free + Held(trees[r], root[r])
    <3> DEFINE h == Held(Settled(t), st) h0 == Held(trees[r], root[r])
    <3>1. h = h0
      BY <2>1, <2>3
    <3>2. free' = free /\ free \in Nat
      BY <1>1, <2>1
    <3> HIDE DEF h, h0
    <3>3. free' \in Int /\ free' + h = free + h0
      BY <3>1, <3>2
    <3> QED BY <3>3 DEF h, h0
  <2>7. recycles' \in Nat
        /\ recycles' + Laned(Settled(t), st) = recycles + Laned(trees[r], root[r])
    BY <1>1, <2>1, <2>4
  <2> QED BY <2>1, <2>5, <2>6, <2>7
<1> QED BY <1>4, <1>5

\* A tree with a descendant less.
LEMMA OneLess ==
  ASSUME NEW t \in Trees
  PROVE  /\ WithoutDescendant(t) \in Trees
         /\ WithoutDescendant(t).pending = t.pending
         /\ WithoutDescendant(t).outstanding
              = IF t.outstanding > 0 THEN t.outstanding - 1 ELSE t.outstanding
         /\ WithoutDescendant(t).outstanding <= t.outstanding
<1> DEFINE n == IF t.outstanding > 0 THEN t.outstanding - 1 ELSE t.outstanding
<1>1. t.outstanding \in Nat /\ t.pending \in BOOLEAN /\ n \in Nat /\ n <= t.outstanding
  BY DEF Trees
<1>2. WithoutDescendant(t) = [t EXCEPT !.outstanding = n]
  BY DEF WithoutDescendant
<1> HIDE DEF n
<1>3. [t EXCEPT !.outstanding = n] = [pending |-> t.pending, outstanding |-> n]
  BY DEF Trees
<1>4. [pending |-> t.pending, outstanding |-> n] \in Trees
  BY <1>1 DEF Trees
<1>5. WithoutDescendant(t).pending = t.pending /\ WithoutDescendant(t).outstanding = n
  BY <1>2, <1>3
<1> QED BY <1>1, <1>2, <1>3, <1>4, <1>5 DEF n

\* A descendant of r is done, and its root stays where it is or leaves its join.
LEMMA DoneMoves ==
  ASSUME IInv, phase # "over", NEW r \in Roots, NEW st \in RootStages,
         st = root[r] \/ (root[r] = "gated" /\ st = "joining"), OnDescendantDone(r)
  PROVE  /\ trees' = [trees EXCEPT ![r] = AfterDone(trees[r])]
         /\ AfterDone(trees[r]) \in Trees \cup {NoTree} /\ Fits(AfterDone(trees[r]), st)
         /\ Outstanding(AfterDone(trees[r])) \in Nat
         /\ Outstanding(AfterDone(trees[r])) <= Outstanding(trees[r])
         /\ free' \in Int
         /\ free' + Held(AfterDone(trees[r]), st) = free + Held(trees[r], root[r])
         /\ recycles' \in Nat
         /\ recycles' + Laned(AfterDone(trees[r]), st) = recycles + Laned(trees[r], root[r])
<1>1. /\ TypeOK /\ Fits(trees[r], root[r])
      /\ free \in Nat /\ recycles \in Nat /\ NoTree \notin Trees
      /\ trees[r] \in Trees \cup {NoTree} /\ Outstanding(trees[r]) \in Nat
      /\ r \in Open <=> trees[r] # NoTree
  <2>1. TypeOK
    BY DEF IInv
  <2> QED BY <2>1, Kinds DEF IInv, Staged
<1>2. CASE r \in Open
  <2> DEFINE t == WithoutDescendant(trees[r])
  <2>1. trees[r] \in Trees /\ trees[r] # NoTree
    BY <1>1, <1>2
  <2>2. /\ t \in Trees /\ t.pending = trees[r].pending
        /\ t.outstanding <= trees[r].outstanding
    BY <2>1, OneLess
  <2>3. AfterDone(trees[r]) = Settled(t) /\ Settle(r, t)
    BY <1>2, <2>1 DEF AfterDone, OnDescendantDone
  <2> HIDE DEF t
  <2>4. /\ st \notin Before
        /\ st # root[r] => "refused" \notin {st, root[r]}
        /\ st \in Ended <=> root[r] \in Ended
    BY <1>1, <2>1 DEF Fits, Before, Ended
  <2>5. Pends(trees[r], root[r])
    BY <1>1, <2>1 DEF Fits
  <2>6. Pends(t, st)
    BY <2>2, <2>4, <2>5 DEF Pends
  <2>7. /\ trees' = [trees EXCEPT ![r] = Settled(t)]
        /\ Settled(t) \in Trees \cup {NoTree} /\ Fits(Settled(t), st)
        /\ free' \in Int /\ free' + Held(Settled(t), st) = free + Held(trees[r], root[r])
        /\ recycles' \in Nat
        /\ recycles' + Laned(Settled(t), st) = recycles + Laned(trees[r], root[r])
    BY <1>2, <2>2, <2>3, <2>4, <2>6, Settling
  <2>8. Outstanding(Settled(t)) \in Nat /\ Outstanding(Settled(t)) <= Outstanding(trees[r])
    BY <1>1, <2>1, <2>2 DEF Outstanding, Settled, Trees
  <2> QED BY <2>3, <2>7, <2>8
<1>3. CASE r \notin Open
  <2>1. trees[r] = NoTree /\ AfterDone(trees[r]) = NoTree
    BY <1>1, <1>3 DEF AfterDone
  <2>2. trees' = trees /\ free' = free /\ recycles' = recycles
    BY <1>3 DEF OnDescendantDone
  <2>3. trees' = [trees EXCEPT ![r] = NoTree]
    BY <1>1, <2>1, <2>2 DEF TypeOK
  <2>4. root[r] # "gated"
    BY <1>1, <2>1 DEF Fits, Before, Ended
  <2>5. st = root[r]
    BY <2>4
  <2>6. Outstanding(NoTree) = 0
    BY DEF Outstanding
  <2>7. free' \in Int /\ free' + Held(NoTree, st) = free + Held(trees[r], root[r])
    BY <1>1, <2>1, <2>2, <2>5
  <2>8. recycles' \in Nat /\ recycles' + Laned(NoTree, st) = recycles + Laned(trees[r], root[r])
    BY <1>1, <2>1, <2>2, <2>5
  <2>9. Fits(NoTree, st)
    BY <1>1, <2>1, <2>5
  <2> QED BY <2>1, <2>3, <2>6, <2>7, <2>8, <2>9
<1> QED BY <1>2, <1>3

\* New children of r: they are its own, and live.
LEMMA Adopted ==
  ASSUME TypeOK, NEW r \in Roots, NEW new \in SUBSET Unborn, NEW joined \in SUBSET new,
         NEW stage \in {"seeded", "spawned"}, Adopt(r, new, joined, stage)
  PROVE  /\ child' \in [Children -> {"unborn", "seeded", "spawned", "wire", "ending", "done", "forgotten"}]
         /\ parent' \in [Children -> Roots \cup {NoRoot}] /\ gating' \subseteq Children
         /\ \A c \in Children : child'[c] = "unborn" <=> parent'[c] = NoRoot
         /\ \A q \in Roots \ {r} : Kids(q)' = Kids(q) /\ Owed(q)' = Owed(q)
         /\ new \in SUBSET Children /\ Cardinality(new) \in Nat
         /\ Cardinality(Kids(r)') = Cardinality(Kids(r)) + Cardinality(new)
         /\ Cardinality(Owed(r)') = Cardinality(Owed(r)) + Cardinality(new)
         /\ Kids(r)' = Kids(r) \cup new
         /\ \A c \in Children : IF c \in new THEN child'[c] = stage /\ parent'[c] = r
                                             ELSE child'[c] = child[c] /\ parent'[c] = parent[c]
<1>1. /\ child \in [Children -> {"unborn", "seeded", "spawned", "wire", "ending", "done", "forgotten"}]
      /\ parent \in [Children -> Roots \cup {NoRoot}] /\ gating \subseteq Children
      /\ \A c \in Children : child[c] = "unborn" <=> parent[c] = NoRoot
      /\ NoRoot \notin Roots
      /\ Kids(r) \in SUBSET Children /\ Owed(r) \in SUBSET Children
  BY Kinds DEF TypeOK
<1>2. /\ child' = [c \in Children |-> IF c \in new THEN stage ELSE child[c]]
      /\ parent' = [c \in Children |-> IF c \in new THEN r ELSE parent[c]]
      /\ gating' = gating \cup joined
  BY DEF Adopt
<1>3. new \in SUBSET Children /\ \A c \in new : child[c] = "unborn" /\ parent[c] = NoRoot
  BY <1>1 DEF Unborn
<1>4. \A c \in Children : IF c \in new THEN child'[c] = stage /\ parent'[c] = r
                                       ELSE child'[c] = child[c] /\ parent'[c] = parent[c]
  BY <1>2
<1>5. /\ child' \in [Children -> {"unborn", "seeded", "spawned", "wire", "ending", "done", "forgotten"}]
      /\ parent' \in [Children -> Roots \cup {NoRoot}] /\ gating' \subseteq Children
  BY <1>1, <1>2, <1>3
<1>6. \A c \in Children : child'[c] = "unborn" <=> parent'[c] = NoRoot
  BY <1>1, <1>4
<1>7. \A q \in Roots \ {r} : Kids(q)' = Kids(q) /\ Owed(q)' = Owed(q)
  BY <1>1, <1>3, <1>4 DEF Kids, Owed
<1>8. Kids(r)' = Kids(r) \cup new /\ Kids(r) \cap new = {}
  BY <1>1, <1>3, <1>4 DEF Kids
<1>9. Owed(r)' = Owed(r) \cup new /\ Owed(r) \cap new = {}
  BY <1>1, <1>3, <1>4 DEF Owed
<1>10. /\ Cardinality(new) \in Nat
       /\ Cardinality(Kids(r) \cup new) = Cardinality(Kids(r)) + Cardinality(new)
       /\ Cardinality(Owed(r) \cup new) = Cardinality(Owed(r)) + Cardinality(new)
  BY <1>1, <1>3, <1>8, <1>9, ChildSizes
<1> QED BY <1>3, <1>4, <1>5, <1>6, <1>7, <1>8, <1>9, <1>10

\* A child moves on, to its end or not.
LEMMA ChildMoves ==
  ASSUME TypeOK, NEW c \in Children, child[c] # "unborn", child[c] # "done",
         NEW s \in {"wire", "ending", "done", "forgotten"},
         child' = [child EXCEPT ![c] = s], parent' = parent, left' = left, gating' \subseteq gating
  PROVE  /\ parent[c] \in Roots /\ OtherTypes'
         /\ \A q : Kids(q)' = Kids(q)
         /\ \A q : q # parent[c] => Owed(q)' = Owed(q)
         /\ c \in Owed(parent[c]) /\ Cardinality(Owed(parent[c])) \in Nat \ {0}
         /\ Cardinality(Owed(parent[c])')
              = IF s = "done" THEN Cardinality(Owed(parent[c])) - 1
                              ELSE Cardinality(Owed(parent[c]))
         /\ \A d \in Children : d # c => child'[d] = child[d]
         /\ child'[c] = s
<1>1. /\ left \in [Roots -> 0..MaxTurns]
      /\ child \in [Children -> {"unborn", "seeded", "spawned", "wire", "ending", "done", "forgotten"}]
      /\ parent \in [Children -> Roots \cup {NoRoot}] /\ gating \subseteq Children
      /\ \A d \in Children : child[d] = "unborn" <=> parent[d] = NoRoot
  BY DEF TypeOK
<1>2. parent[c] \in Roots
  BY <1>1
<1>3. child'[c] = s /\ \A d \in Children : d # c => child'[d] = child[d]
  BY <1>1
<1>4. OtherTypes'
  <2>1. child' \in [Children -> {"unborn", "seeded", "spawned", "wire", "ending", "done", "forgotten"}]
    BY <1>1
  <2>2. \A d \in Children : child'[d] = "unborn" <=> parent'[d] = NoRoot
    BY <1>1, <1>2, <1>3
  <2>3. gating' \subseteq Children
    BY <1>1
  <2> QED BY <1>1, <2>1, <2>2, <2>3 DEF OtherTypes
<1>5. \A q : Kids(q)' = Kids(q)
  BY DEF Kids
<1>6. \A q : q # parent[c] => Owed(q)' = Owed(q)
  BY <1>3 DEF Owed
<1>7. c \in Owed(parent[c]) /\ Owed(parent[c]) \in SUBSET Children
  BY DEF Owed
<1>8. Owed(parent[c])' = IF s = "done" THEN Owed(parent[c]) \ {c} ELSE Owed(parent[c])
  <2> DEFINE p == parent[c]
  <2>1. parent' = parent
    OBVIOUS
  <2>2. Owed(parent[c])' = {d \in Children : parent[d] = p /\ child'[d] # "done"}
    BY DEF Owed
  <2>3. Owed(parent[c]) = {d \in Children : parent[d] = p /\ child[d] # "done"}
    BY DEF Owed
  <2> QED BY <1>3, <2>2, <2>3
<1>9. /\ Cardinality(Owed(parent[c])) \in Nat
      /\ Cardinality(Owed(parent[c])) # 0
      /\ Cardinality(Owed(parent[c]) \ {c}) = Cardinality(Owed(parent[c])) - 1
  BY <1>7, ChildSizes
<1> QED BY <1>2, <1>3, <1>4, <1>5, <1>6, <1>7, <1>8, <1>9

\* A step that touches one tree keeps the books if that tree is exact after it.
LEMMA OneTreeExact ==
  ASSUME IInv, Books, NEW r \in Roots, NEW x, NEW b, NEW st,
         Touches(r, x, b, st), Agrees(r, x, b, st), OtherTypes'
  PROVE  Books'
<1>1. TypeOK
  BY DEF IInv
<1>2. /\ phase # "over" /\ phase' = phase
      /\ \A q \in Roots \ {r} : trees'[q] = trees[q] /\ buffered'[q] = buffered[q]
                                /\ root'[q] = root[q] /\ Owed(q)' = Owed(q)
      /\ trees'[r] = x /\ buffered'[r] = b /\ root'[r] = st
  BY <1>1 DEF Touches, TypeOK
<1>3. /\ Exact(x, b, Cardinality(Owed(r)')) /\ (b # 0 => st \in Before)
  BY DEF Agrees
<1>4. AllExact'
  <2>1. ASSUME NEW q \in Roots
        PROVE  Exact(trees'[q], buffered'[q], Cardinality(Owed(q)'))
    <3>1. CASE q = r
      BY <1>2, <1>3, <3>1
    <3>2. CASE q # r
      <4>1. Exact(trees[q], buffered[q], Cardinality(Owed(q)))
        BY <1>2 DEF Books, AllExact
      <4> QED BY <1>2, <3>2, <4>1
    <3> QED BY <3>1, <3>2
  <2> QED BY <2>1 DEF AllExact, Exact
<1>5. Buffering'
  BY <1>2, <1>3 DEF Books, Buffering
<1> QED BY <1>4, <1>5 DEF Books

\* A step of r's tree that keeps the invariant, and the books.
Moved(r) ==
  \E x \in Trees \cup {NoTree}, b \in Nat, st \in RootStages :
    Keeps(r, x, b, st) /\ (Books => Agrees(r, x, b, st))

\* Such a step keeps the invariant, and the books.
LEMMA MovedKeeps ==
  ASSUME IInv, NEW r \in Roots, Moved(r)
  PROVE  IInv' /\ (Books => Books')
<1>1. PICK x \in Trees \cup {NoTree}, b \in Nat, st \in RootStages :
        Keeps(r, x, b, st) /\ (Books => Agrees(r, x, b, st))
  BY DEF Moved
<1>2. IInv'
  BY <1>1, OneTree
<1>3. Touches(r, x, b, st) /\ OtherTypes'
  BY <1>1 DEF Keeps
<1>4. ASSUME Books PROVE Books'
  BY <1>1, <1>3, <1>4, OneTreeExact
<1> QED BY <1>2, <1>4

\* What the invariant says of r while the phase goes on.
LEMMA Here ==
  ASSUME IInv, phase # "over", NEW r \in Roots
  PROVE  /\ TypeOK /\ OtherTypes /\ Fits(trees[r], root[r])
         /\ free \in Nat /\ unseeded \in Nat /\ recycles \in Nat
         /\ trees[r] \in Trees \cup {NoTree} /\ NoTree \notin Trees
         /\ buffered[r] \in Nat /\ root[r] \in RootStages /\ Outstanding(trees[r]) \in Nat
         /\ buffered[r] + Outstanding(trees[r]) <= Cardinality(Kids(r))
         /\ Cardinality(Kids(r)) \in Nat /\ Cardinality(Owed(r)) \in Nat
         /\ r \in Open <=> trees[r] # NoTree
         /\ Kids(r) # {} => root[r] # "fresh"
         /\ \A x : trees[r] = x => trees = [trees EXCEPT ![r] = x]
         /\ \A b : buffered[r] = b => buffered = [buffered EXCEPT ![r] = b]
         /\ \A st : root[r] = st => root = [root EXCEPT ![r] = st]
<1>1. TypeOK /\ Fits(trees[r], root[r])
  BY DEF IInv, Staged
<1>2. /\ OtherTypes /\ free \in Nat /\ unseeded \in Nat /\ recycles \in Nat
      /\ trees[r] \in Trees \cup {NoTree} /\ NoTree \notin Trees
      /\ buffered[r] \in Nat /\ root[r] \in RootStages /\ Outstanding(trees[r]) \in Nat
      /\ r \in Open <=> trees[r] # NoTree
  BY <1>1, Kinds
<1>3. /\ buffered[r] + Outstanding(trees[r]) <= Cardinality(Kids(r))
      /\ Kids(r) # {} => root[r] # "fresh"
  BY DEF IInv, Counted, Born
<1>4. Cardinality(Kids(r)) \in Nat /\ Cardinality(Owed(r)) \in Nat
  <2>1. Kids(r) \in SUBSET Children /\ Owed(r) \in SUBSET Children
    BY <1>1, Kinds
  <2> QED BY <2>1, ChildSizes
<1>5. /\ \A x : trees[r] = x => trees = [trees EXCEPT ![r] = x]
      /\ \A b : buffered[r] = b => buffered = [buffered EXCEPT ![r] = b]
      /\ \A st : root[r] = st => root = [root EXCEPT ![r] = st]
  BY <1>1 DEF TypeOK
<1> QED BY <1>1, <1>2, <1>3, <1>4, <1>5

\* The slots a tree holds, in the three cases.
LEMMA SlotCount ==
  ASSUME NEW x, NEW st
  PROVE  /\ x = NoTree \/ st = "refused" => Held(x, st) = 0
         /\ x # NoTree /\ st # "refused" => Held(x, st) = 1
BY DEF Held

-------------------------------------------------------------------------------
(***************************************************************************)
(* The steps.                                                              *)
(***************************************************************************)
\* A lane resumes its snapshot.
LEMMA ResumeSnapshotMoves ==
  ASSUME IInv, NEW r \in Roots, ResumeSnapshot(r)
  PROVE  Moved(r)
<1>1. /\ phase = "open" /\ phase' = phase /\ unseeded > 0 /\ root[r] = "fresh"
      /\ unseeded' = unseeded - 1 /\ recycles' = recycles
  BY DEF ResumeSnapshot, DrawnNext
<1>2. PICK new \in SUBSET Unborn, n \in 0..MaxTurns : \E joined \in SUBSET new :
        /\ Adopt(r, new, joined, "seeded")
        /\ left' = [left EXCEPT ![r] = n]
        /\ SeedRoot(r, new, joined) \/ SeedLane(r, new, joined)
  BY DEF ResumeSnapshot
<1>3. PICK joined \in SUBSET new :
        /\ Adopt(r, new, joined, "seeded")
        /\ left' = [left EXCEPT ![r] = n]
        /\ SeedRoot(r, new, joined) \/ SeedLane(r, new, joined)
  BY <1>2
<1> DEFINE k == Cardinality(new)
<1>4. /\ TypeOK /\ OtherTypes /\ Fits(trees[r], root[r])
      /\ free \in Nat /\ unseeded \in Nat /\ recycles \in Nat /\ NoTree \notin Trees
      /\ buffered[r] \in Nat /\ Outstanding(trees[r]) \in Nat
      /\ buffered[r] + Outstanding(trees[r]) <= Cardinality(Kids(r))
      /\ r \in Open <=> trees[r] # NoTree
      /\ Kids(r) = {} /\ trees = [trees EXCEPT ![r] = trees[r]]
      /\ \A b : buffered[r] = b => buffered = [buffered EXCEPT ![r] = b]
  BY <1>1, Here
<1>5. trees[r] = NoTree /\ r \notin Open
  BY <1>1, <1>4 DEF Fits, Before
<1>6. /\ Cardinality(Kids(r)) = 0 /\ Cardinality(Owed(r)) = 0 /\ buffered[r] = 0
  <2>1. Owed(r) = {}
    BY <1>4, Kinds
  <2> QED BY <1>4, <2>1, FS_EmptySet
<1>7. /\ child' \in [Children -> {"unborn", "seeded", "spawned", "wire", "ending", "done", "forgotten"}]
      /\ parent' \in [Children -> Roots \cup {NoRoot}] /\ gating' \subseteq Children
      /\ \A c \in Children : child'[c] = "unborn" <=> parent'[c] = NoRoot
      /\ \A q \in Roots \ {r} : Kids(q)' = Kids(q) /\ Owed(q)' = Owed(q)
      /\ new \in SUBSET Children /\ k \in Nat
      /\ Cardinality(Kids(r)') = k /\ Cardinality(Owed(r)') = k
      /\ \A c \in Children : IF c \in new THEN child'[c] = "seeded" /\ parent'[c] = r
                                          ELSE child'[c] = child[c] /\ parent'[c] = parent[c]
  <2>1. "seeded" \in {"seeded", "spawned"} /\ TypeOK /\ Adopt(r, new, joined, "seeded")
    BY <1>3, <1>4
  <2>2. /\ child' \in [Children -> {"unborn", "seeded", "spawned", "wire", "ending", "done", "forgotten"}]
        /\ parent' \in [Children -> Roots \cup {NoRoot}] /\ gating' \subseteq Children
        /\ \A c \in Children : child'[c] = "unborn" <=> parent'[c] = NoRoot
        /\ \A q \in Roots \ {r} : Kids(q)' = Kids(q) /\ Owed(q)' = Owed(q)
        /\ new \in SUBSET Children /\ k \in Nat
        /\ Cardinality(Kids(r)') = Cardinality(Kids(r)) + k
        /\ Cardinality(Owed(r)') = Cardinality(Owed(r)) + k
        /\ \A c \in Children : IF c \in new THEN child'[c] = "seeded" /\ parent'[c] = r
                                            ELSE child'[c] = child[c] /\ parent'[c] = parent[c]
    BY <2>1, Adopted, Zenon
  <2>3. Cardinality(Kids(r)') = 0 + k /\ Cardinality(Owed(r)') = 0 + k /\ k \in Nat
    BY <1>6, <2>2
  <2> HIDE DEF k
  <2>4. Cardinality(Kids(r)') = k /\ Cardinality(Owed(r)') = k
    BY <2>3
  <2> QED BY <2>2, <2>4
<1>8. OtherTypes'
  <2>1. left' \in [Roots -> 0..MaxTurns]
    BY <1>3, <1>4 DEF OtherTypes
  <2> QED BY <1>7, <2>1 DEF OtherTypes
<1> HIDE DEF k
<1>10. ASSUME SeedRoot(r, new, joined) PROVE Moved(r)
  <2>1. /\ buffered' = [buffered EXCEPT ![r] = @ + k] /\ trees' = trees
        /\ root' = [root EXCEPT ![r] = "starting"] /\ free' = free
    BY <1>5, <1>10 DEF SeedRoot, RegisterDescendants, k
  <2>2. buffered' = [buffered EXCEPT ![r] = k]
    <3>1. buffered[r] + k = k
      BY <1>6, <1>7
    <3> QED BY <2>1, <3>1
  <2>3. Touches(r, NoTree, k, "starting")
    BY <1>1, <1>4, <1>5, <1>7, <2>1, <2>2 DEF Touches
  <2>4. Fits(NoTree, "starting") /\ Outstanding(NoTree) = 0
    BY DEF Fits, Before, Ended, Outstanding
  <2>5. Held(NoTree, "starting") = 0 /\ Held(trees[r], root[r]) = 0
    BY <1>5, SlotCount
  <2>6. Laned(NoTree, "starting") = 1 /\ Laned(trees[r], root[r]) = 0
    BY <1>1, <1>5, LaneCount
  <2>7. free' \in Int /\ free' + Held(NoTree, "starting") = free + Held(trees[r], root[r])
    BY <1>4, <2>1, <2>5
  <2>8. /\ unseeded' \in Nat /\ recycles' \in Nat
        /\ unseeded' + recycles' + Laned(NoTree, "starting")
             <= unseeded + recycles + Laned(trees[r], root[r])
    <3>1. unseeded' \in Nat /\ recycles' \in Nat /\ unseeded' + recycles' + 1 <= unseeded + recycles + 0
      BY <1>1, <1>4
    <3> QED BY <2>6, <3>1
  <2>9. k + Outstanding(NoTree) <= Cardinality(Kids(r)')
    BY <1>7, <2>4
  <2>10. Keeps(r, NoTree, k, "starting")
    BY <1>8, <2>3, <2>4, <2>7, <2>8, <2>9 DEF Keeps
  <2>11. Agrees(r, NoTree, k, "starting")
    BY <1>1, <1>7 DEF Agrees, Exact, Before
  <2>12. NoTree \in Trees \cup {NoTree} /\ k \in Nat /\ "starting" \in RootStages
    BY <1>7 DEF RootStages
  <2> QED BY <2>10, <2>11, <2>12 DEF Moved
<1>11. ASSUME SeedLane(r, new, joined) PROVE Moved(r)
  <2> DEFINE x == [pending |-> joined # {}, outstanding |-> k]
             st == IF joined # {} THEN "gated" ELSE "absent"
  <2>1. /\ new # {} /\ free > 0 /\ free' = free - 1
        /\ root' = [root EXCEPT ![r] = st] /\ buffered' = buffered
        /\ trees' = [trees EXCEPT ![r] = NewTree(joined # {}, buffered[r] + k)]
    BY <1>11 DEF SeedLane, k
  <2>2. NewTree(joined # {}, buffered[r] + k) = x
    <3>1. buffered[r] + k = k
      BY <1>6, <1>7
    <3> QED BY <3>1 DEF NewTree
  <2>3. trees' = [trees EXCEPT ![r] = x] /\ buffered' = [buffered EXCEPT ![r] = 0]
    BY <1>4, <1>6, <2>1, <2>2
  <2>4. k # 0
    BY <1>7, <2>1, ChildSizes DEF k
  <2>5. x \in Trees /\ x # NoTree /\ x.outstanding = k /\ x.pending = (joined # {})
    <3>1. (joined # {}) \in BOOLEAN
      OBVIOUS
    <3>2. x \in Trees
      BY <1>7, <3>1 DEF Trees
    <3> QED BY <1>4, <3>2
  <2>6. /\ st \in RootStages /\ (joined # {} => st = "gated") /\ (joined = {} => st = "absent")
        /\ st \notin Before /\ st # "refused" /\ st # "starting" /\ st # "fresh"
        /\ st \notin {"overflowed", "truncated"} /\ st # "unstarted"
    BY DEF RootStages, Before
  <2>7. Pends(x, st)
    BY <2>5, <2>6 DEF Pends, Ended
  <2>8. ~Drained(x)
    BY <1>7, <2>4, <2>5 DEF Drained
  <2> HIDE DEF x, st
  <2>9. Fits(x, st) /\ Outstanding(x) = k
    BY <2>5, <2>6, <2>7, <2>8 DEF Fits, Outstanding
  <2>10. Touches(r, x, 0, st)
    BY <1>1, <1>7, <2>1, <2>3 DEF Touches
  <2>11. Held(x, st) = 1 /\ Held(trees[r], root[r]) = 0
    BY <1>5, <2>5, <2>6, SlotCount
  <2>12. Laned(x, st) = 1 /\ Laned(trees[r], root[r]) = 0
    BY <1>1, <1>5, <2>5, <2>6, LaneCount
  <2>13. free' \in Int /\ free' + Held(x, st) = free + Held(trees[r], root[r])
    BY <1>4, <2>1, <2>11
  <2>14. /\ unseeded' \in Nat /\ recycles' \in Nat
         /\ unseeded' + recycles' + Laned(x, st) <= unseeded + recycles + Laned(trees[r], root[r])
    <3>1. unseeded' \in Nat /\ recycles' \in Nat /\ unseeded' + recycles' + 1 <= unseeded + recycles + 0
      BY <1>1, <1>4
    <3> QED BY <2>12, <3>1
  <2>15. 0 + Outstanding(x) <= Cardinality(Kids(r)')
    BY <1>7, <2>9
  <2>16. Keeps(r, x, 0, st)
    BY <1>8, <2>6, <2>9, <2>10, <2>13, <2>14, <2>15 DEF Keeps
  <2>17. Agrees(r, x, 0, st)
    BY <1>7, <2>5, <2>6 DEF Agrees, Exact
  <2>18. x \in Trees \cup {NoTree} /\ 0 \in Nat
    BY <2>5
  <2> QED BY <2>6, <2>16, <2>17, <2>18 DEF Moved
<1> QED BY <1>3, <1>10, <1>11

\* Nothing about the children changes.
LEMMA SameChildren ==
  ASSUME TypeOK, UNCHANGED <<child, bornVars>>, left' \in [Roots -> 0..MaxTurns]
  PROVE  /\ OtherTypes' /\ \A q : Kids(q)' = Kids(q) /\ Owed(q)' = Owed(q)
<1>1. child' = child /\ parent' = parent /\ gating' = gating
  BY DEF bornVars
<1>2. OtherTypes'
  BY <1>1 DEF TypeOK, OtherTypes
<1>3. \A q : Kids(q)' = Kids(q) /\ Owed(q)' = Owed(q)
  BY <1>1 DEF Kids, Owed
<1> QED BY <1>1, <1>2, <1>3

\* A freed lane draws its next root, or leaves it.
LEMMA RecycleLaneMoves ==
  ASSUME IInv, NEW r \in Roots, RecycleLane(r)
  PROVE  Moved(r)
<1>1. /\ phase # "over" /\ phase' = phase /\ recycles > 0 /\ root[r] = "fresh"
      /\ recycles' = recycles - 1 /\ unseeded' = unseeded
      /\ free' = free /\ trees' = trees /\ buffered' = buffered /\ UNCHANGED <<child, bornVars>>
  BY DEF RecycleLane, DrawnNext
<1>2. /\ TypeOK /\ OtherTypes /\ Fits(trees[r], root[r])
      /\ free \in Nat /\ unseeded \in Nat /\ recycles \in Nat /\ NoTree \notin Trees
      /\ buffered[r] \in Nat /\ Outstanding(trees[r]) \in Nat
      /\ buffered[r] + Outstanding(trees[r]) <= Cardinality(Kids(r))
      /\ Kids(r) = {} /\ \A x : trees[r] = x => trees = [trees EXCEPT ![r] = x]
      /\ \A b : buffered[r] = b => buffered = [buffered EXCEPT ![r] = b]
      /\ \A st : root[r] = st => root = [root EXCEPT ![r] = st]
  BY <1>1, Here
<1>3. trees[r] = NoTree
  BY <1>1, <1>2 DEF Fits, Before
<1>4. PICK st \in {"fresh", "starting"} :
        root' = [root EXCEPT ![r] = st] /\ left' \in [Roots -> 0..MaxTurns]
  <2>1. CASE phase = "open"
    <3>1. PICK n \in 1..MaxTurns : root' = [root EXCEPT ![r] = "starting"]
                                   /\ left' = [left EXCEPT ![r] = n]
      BY <2>1 DEF RecycleLane
    <3>2. left' \in [Roots -> 0..MaxTurns]
      BY <1>2, <3>1 DEF OtherTypes
    <3> QED BY <3>1, <3>2
  <2>2. CASE phase # "open"
    <3>1. root' = root /\ left' = left
      BY <2>2 DEF RecycleLane, rootVars
    <3> QED BY <1>1, <1>2, <3>1 DEF OtherTypes
  <2> QED BY <2>1, <2>2
<1>5. /\ OtherTypes' /\ \A q : Kids(q)' = Kids(q) /\ Owed(q)' = Owed(q)
  BY <1>1, <1>2, <1>4, SameChildren
<1>6. Touches(r, NoTree, buffered[r], st)
  BY <1>1, <1>2, <1>3, <1>4, <1>5 DEF Touches
<1>7. Fits(NoTree, st) /\ Outstanding(NoTree) = 0 /\ Outstanding(trees[r]) = 0
  BY <1>3 DEF Fits, Before, Ended, Outstanding
<1>8. free' \in Int /\ free' + Held(NoTree, st) = free + Held(trees[r], root[r])
  <2>1. Held(NoTree, st) = 0 /\ Held(trees[r], root[r]) = 0
    BY <1>3, SlotCount
  <2> QED BY <1>1, <1>2, <2>1
<1>9. /\ unseeded' \in Nat /\ recycles' \in Nat
      /\ unseeded' + recycles' + Laned(NoTree, st)
           <= unseeded + recycles + Laned(trees[r], root[r])
  <2>1. Laned(NoTree, st) \in {0, 1} /\ Laned(trees[r], root[r]) = 0
    BY <1>1, <1>3, LaneCount
  <2>2. /\ unseeded' \in Nat /\ recycles' \in Nat /\ unseeded' = unseeded
        /\ recycles' = recycles - 1
    BY <1>1, <1>2
  <2>3. CASE Laned(NoTree, st) = 0
    BY <1>1, <1>2, <2>1, <2>2, <2>3
  <2>4. CASE Laned(NoTree, st) = 1
    BY <1>1, <1>2, <2>1, <2>2, <2>4
  <2> QED BY <2>1, <2>3, <2>4
<1>10. buffered[r] + Outstanding(NoTree) <= Cardinality(Kids(r)') /\ Kids(r)' = {}
  BY <1>2, <1>5, <1>7
<1>11. Keeps(r, NoTree, buffered[r], st)
  BY <1>5, <1>6, <1>7, <1>8, <1>9, <1>10 DEF Keeps
<1>12. ASSUME Books PROVE Agrees(r, NoTree, buffered[r], st)
  <2>1. Exact(trees[r], buffered[r], Cardinality(Owed(r)))
    BY <1>1, <1>12 DEF Books, AllExact
  <2>2. st \in Before /\ root[r] \in Before /\ st # "unstarted"
    BY <1>1 DEF Before
  <2> QED BY <1>3, <1>5, <2>1, <2>2 DEF Agrees, Exact
<1>13. NoTree \in Trees \cup {NoTree} /\ buffered[r] \in Nat /\ st \in RootStages
  BY <1>2 DEF RootStages
<1> QED BY <1>11, <1>12, <1>13 DEF Moved

\* A root's first turn opens its tree.
LEMMA StartRootMoves ==
  ASSUME IInv, NEW r \in Roots, StartRoot(r)
  PROVE  Moved(r)
<1> DEFINE x == [pending |-> TRUE, outstanding |-> buffered[r]]
           st == "opening"
<1>1. /\ phase # "over" /\ phase' = phase /\ root[r] = "starting"
      /\ free > 0 /\ free' = free - 1 /\ unseeded' = unseeded /\ recycles' = recycles
      /\ trees' = [trees EXCEPT ![r] = x] /\ buffered' = [buffered EXCEPT ![r] = 0]
      /\ root' = [root EXCEPT ![r] = st] /\ left' = left /\ UNCHANGED <<child, bornVars>>
  BY DEF StartRoot, OpenTree, RootMoves, NewTree
<1>2. /\ TypeOK /\ OtherTypes /\ Fits(trees[r], root[r])
      /\ free \in Nat /\ unseeded \in Nat /\ recycles \in Nat /\ NoTree \notin Trees
      /\ buffered[r] \in Nat /\ Outstanding(trees[r]) \in Nat
      /\ buffered[r] + Outstanding(trees[r]) <= Cardinality(Kids(r))
  BY <1>1, Here
<1>3. trees[r] = NoTree /\ Outstanding(trees[r]) = 0
  BY <1>1, <1>2 DEF Fits, Before, Outstanding
<1>4. /\ OtherTypes' /\ \A q : Kids(q)' = Kids(q) /\ Owed(q)' = Owed(q)
  BY <1>1, <1>2, SameChildren DEF OtherTypes
<1>5. /\ x \in Trees /\ x # NoTree /\ x.outstanding = buffered[r] /\ x.pending
      /\ st \in RootStages /\ st \notin Before /\ st \notin Ended
      /\ st \notin {"refused", "starting", "fresh", "overflowed", "truncated", "unstarted"}
  <2>1. x \in Trees /\ x.outstanding = buffered[r] /\ x.pending
    BY <1>2 DEF Trees
  <2>2. x # NoTree
    BY <1>2, <2>1
  <2>3. /\ st \in RootStages /\ st \notin Before /\ st \notin Ended
        /\ st \notin {"refused", "starting", "fresh", "overflowed", "truncated", "unstarted"}
    BY DEF RootStages, Before, Ended
  <2> QED BY <2>1, <2>2, <2>3
<1> HIDE DEF x, st
<1>6. Touches(r, x, 0, st)
  BY <1>1, <1>4 DEF Touches
<1>7. Fits(x, st) /\ Outstanding(x) = buffered[r]
  BY <1>5 DEF Fits, Pends, Drained, Outstanding
<1>8. free' \in Int /\ free' + Held(x, st) = free + Held(trees[r], root[r])
  <2>1. Held(x, st) = 1 /\ Held(trees[r], root[r]) = 0
    BY <1>3, <1>5, SlotCount
  <2> QED BY <1>1, <1>2, <2>1
<1>9. /\ unseeded' \in Nat /\ recycles' \in Nat
      /\ unseeded' + recycles' + Laned(x, st) <= unseeded + recycles + Laned(trees[r], root[r])
  <2>1. Laned(x, st) = 1 /\ Laned(trees[r], root[r]) = 1
    BY <1>1, <1>3, <1>5, LaneCount
  <2> QED BY <1>1, <1>2, <2>1
<1>10. 0 + Outstanding(x) <= Cardinality(Kids(r)')
  BY <1>2, <1>3, <1>4, <1>7
<1>11. Keeps(r, x, 0, st)
  BY <1>4, <1>5, <1>6, <1>7, <1>8, <1>9, <1>10 DEF Keeps
<1>12. ASSUME Books PROVE Agrees(r, x, 0, st)
  <2>1. Exact(trees[r], buffered[r], Cardinality(Owed(r)))
    BY <1>1, <1>12 DEF Books, AllExact
  <2> QED BY <1>3, <1>4, <1>5, <2>1 DEF Agrees, Exact
<1>13. x \in Trees \cup {NoTree} /\ 0 \in Nat
  BY <1>5
<1> QED BY <1>5, <1>11, <1>12, <1>13 DEF Moved

\* The branches of a turn of r, whose tree is open, start children.
LEMMA SpawnMoves ==
  ASSUME IInv, phase # "over", phase' = phase, NEW r \in Roots, NEW st \in RootStages,
         root[r] \notin Before \cup Ended \cup {"refused"},
         st \notin Before \cup Ended \cup {"refused", "truncated"},
         root' = [root EXCEPT ![r] = st], Spawn(r), UNCHANGED <<laneVars, free, left>>
  PROVE  Moved(r)
<1>1. PICK new \in SUBSET Unborn : \E joined \in SUBSET new :
        Adopt(r, new, joined, "spawned") /\ RegisterDescendants(r, Cardinality(new))
  BY DEF Spawn
<1>2. PICK joined \in SUBSET new :
        Adopt(r, new, joined, "spawned") /\ RegisterDescendants(r, Cardinality(new))
  BY <1>1
<1> DEFINE k == Cardinality(new)
           t == trees[r]
           x == [pending |-> t.pending, outstanding |-> t.outstanding + k]
<1>3. /\ TypeOK /\ OtherTypes /\ Fits(trees[r], root[r])
      /\ free \in Nat /\ unseeded \in Nat /\ recycles \in Nat /\ NoTree \notin Trees
      /\ trees[r] \in Trees \cup {NoTree} /\ r \in Open <=> trees[r] # NoTree
      /\ buffered[r] \in Nat /\ Outstanding(trees[r]) \in Nat
      /\ buffered[r] + Outstanding(trees[r]) <= Cardinality(Kids(r))
      /\ Cardinality(Kids(r)) \in Nat /\ Cardinality(Owed(r)) \in Nat
      /\ \A b : buffered[r] = b => buffered = [buffered EXCEPT ![r] = b]
  BY Here
<1>4. /\ trees[r] # NoTree /\ t \in Trees /\ r \in Open /\ Outstanding(trees[r]) = t.outstanding
      /\ t.pending \in BOOLEAN /\ t.outstanding \in Nat
  BY <1>3 DEF Fits, Outstanding, Trees
<1>5. /\ child' \in [Children -> {"unborn", "seeded", "spawned", "wire", "ending", "done", "forgotten"}]
      /\ parent' \in [Children -> Roots \cup {NoRoot}] /\ gating' \subseteq Children
      /\ \A c \in Children : child'[c] = "unborn" <=> parent'[c] = NoRoot
      /\ \A q \in Roots \ {r} : Kids(q)' = Kids(q) /\ Owed(q)' = Owed(q)
      /\ new \in SUBSET Children /\ k \in Nat
      /\ Cardinality(Kids(r)') = Cardinality(Kids(r)) + k
      /\ Cardinality(Owed(r)') = Cardinality(Owed(r)) + k
      /\ \A c \in Children : IF c \in new THEN child'[c] = "spawned" /\ parent'[c] = r
                                          ELSE child'[c] = child[c] /\ parent'[c] = parent[c]
  <2>1. "spawned" \in {"seeded", "spawned"} /\ TypeOK /\ Adopt(r, new, joined, "spawned")
    BY <1>2, <1>3
  <2> QED BY <2>1, Adopted, Zenon
<1>6. OtherTypes'
  BY <1>3, <1>5 DEF OtherTypes
<1>7. trees' = [trees EXCEPT ![r] = x] /\ buffered' = [buffered EXCEPT ![r] = buffered[r]]
  <2>1. trees' = [trees EXCEPT ![r].outstanding = @ + k] /\ buffered' = buffered
    BY <1>2, <1>4 DEF RegisterDescendants
  <2>2. trees' = [trees EXCEPT ![r] = [t EXCEPT !.outstanding = t.outstanding + k]]
    BY <2>1
  <2>3. [t EXCEPT !.outstanding = t.outstanding + k] = x
    BY <1>4 DEF Trees
  <2> QED BY <1>3, <2>1, <2>2, <2>3
<1> HIDE DEF k
<1>8. x \in Trees /\ x # NoTree /\ x.outstanding = t.outstanding + k /\ x.pending = t.pending
  <2>1. t.outstanding + k \in Nat
    BY <1>4, <1>5
  <2>2. x \in Trees
    BY <1>4, <2>1 DEF Trees
  <2> QED BY <1>3, <2>2
<1> HIDE DEF x
<1>9. Touches(r, x, buffered[r], st)
  BY <1>5, <1>7 DEF Touches
<1>10. Fits(x, st) /\ Outstanding(x) = t.outstanding + k
  <2>1. t.pending
    BY <1>3, <1>4 DEF Fits, Pends
  <2> QED BY <1>8, <2>1 DEF Fits, Pends, Drained, Outstanding
<1>11. free' \in Int /\ free' + Held(x, st) = free + Held(trees[r], root[r])
  <2>1. Held(x, st) = 1 /\ Held(trees[r], root[r]) = 1
    BY <1>4, <1>8, SlotCount
  <2>2. free' = free
    OBVIOUS
  <2> QED BY <1>3, <2>1, <2>2
<1>12. /\ unseeded' \in Nat /\ recycles' \in Nat
       /\ unseeded' + recycles' + Laned(x, st) <= unseeded + recycles + Laned(trees[r], root[r])
  <2>1. Laned(x, st) = 1 /\ Laned(trees[r], root[r]) = 1
    BY <1>4, <1>8, LaneCount DEF Before
  <2>2. unseeded' = unseeded /\ recycles' = recycles
    BY DEF laneVars
  <2> QED BY <1>3, <2>1, <2>2
<1>13. buffered[r] + Outstanding(x) <= Cardinality(Kids(r)')
  <2>1. Cardinality(Kids(r)') = Cardinality(Kids(r)) + k /\ k \in Nat
    BY <1>5
  <2>2. /\ buffered[r] + t.outstanding <= Cardinality(Kids(r)) /\ buffered[r] \in Nat
        /\ t.outstanding \in Nat /\ Cardinality(Kids(r)) \in Nat
    BY <1>3, <1>4
  <2> HIDE DEF t
  <2> QED BY <1>10, <2>1, <2>2
<1>14. st \notin {"fresh", "truncated", "unstarted"}
  BY DEF Before
<1>15. Keeps(r, x, buffered[r], st)
  BY <1>6, <1>9, <1>10, <1>11, <1>12, <1>13, <1>14 DEF Keeps
<1>16. ASSUME Books PROVE Agrees(r, x, buffered[r], st)
  <2>1. Exact(trees[r], buffered[r], Cardinality(Owed(r)))
    BY <1>16 DEF Books, AllExact
  <2>2. buffered[r] = 0 /\ x.outstanding = Cardinality(Owed(r)')
    BY <1>4, <1>5, <1>8, <2>1 DEF Exact
  <2> QED BY <1>8, <2>2 DEF Agrees, Exact
<1>17. x \in Trees \cup {NoTree} /\ buffered[r] \in Nat
  BY <1>3, <1>8
<1> QED BY <1>15, <1>16, <1>17 DEF Moved

\* A turn is sent, or returns.
LEMMA SendTurnMoves ==
  ASSUME IInv, NEW r \in Roots, SendTurn(r)
  PROVE  Moved(r)
<1>1. /\ phase = "open" /\ phase' = phase /\ root[r] \in {"opening", "sending", "joining"}
      /\ root' = [root EXCEPT ![r] = "wire"] /\ Spawn(r) /\ UNCHANGED <<laneVars, free, left>>
  BY DEF SendTurn
<1>2. /\ "wire" \in RootStages /\ phase # "over"
      /\ root[r] \notin Before \cup Ended \cup {"refused"}
      /\ "wire" \notin Before \cup Ended \cup {"refused", "truncated"} /\ "wire" # "overflowed"
  BY <1>1 DEF RootStages, Before, Ended
<1> QED BY <1>1, <1>2, SpawnMoves

\* A root's turn returns: its branches start, and nothing else of its tree moves.
LEMMA RootReturnsMoves ==
  ASSUME IInv, NEW r \in Roots, RootReturns(r)
  PROVE  Moved(r)
<1>1. /\ phase # "over" /\ phase' = phase /\ root[r] = "wire"
      /\ Spawn(r) /\ UNCHANGED <<laneVars, free, left>>
  BY DEF RootReturns
<1>2. PICK st \in {"returned", "overflowed"} :
        root' = [root EXCEPT ![r] = st]
  BY DEF RootReturns
<1>3. /\ st \in RootStages /\ root[r] \notin Before \cup Ended \cup {"refused"}
      /\ st \notin Before \cup Ended \cup {"refused", "truncated"}
  BY <1>1 DEF RootStages, Before, Ended
<1> QED BY <1>1, <1>2, <1>3, SpawnMoves

\* The stop refuses a turn of r: a first turn gives its slot back.
LEMMA RefuseTurnMoves ==
  ASSUME IInv, NEW r \in Roots, RefuseTurn(r)
  PROVE  Moved(r)
<1>1. /\ phase = "stopped" /\ phase # "over" /\ recycles' = recycles /\ left' = left
      /\ trees' = trees /\ buffered' = buffered
  BY DEF RefuseTurn
<1>2. PICK st \in {"unstarted", "refused", "stalled"} :
        /\ RootMoves(r, st)
        /\ \/ root[r] = "starting" /\ st = "unstarted" /\ free' = free
           \/ root[r] = "opening" /\ st = "refused" /\ free' = free + 1
           \/ root[r] \in {"sending", "joining"} /\ st = "stalled" /\ free' = free
  BY DEF RefuseTurn
<1>3. /\ root' = [root EXCEPT ![r] = st] /\ phase' = phase /\ unseeded' = unseeded
      /\ UNCHANGED <<child, bornVars>>
  BY <1>2 DEF RootMoves
<1>4. /\ TypeOK /\ OtherTypes /\ Fits(trees[r], root[r])
      /\ free \in Nat /\ unseeded \in Nat /\ recycles \in Nat
      /\ trees[r] \in Trees \cup {NoTree} /\ buffered[r] \in Nat
      /\ buffered[r] + Outstanding(trees[r]) <= Cardinality(Kids(r))
      /\ \A x : trees[r] = x => trees = [trees EXCEPT ![r] = x]
      /\ \A b : buffered[r] = b => buffered = [buffered EXCEPT ![r] = b]
  BY <1>1, Here
<1>5. /\ OtherTypes' /\ \A q : Kids(q)' = Kids(q) /\ Owed(q)' = Owed(q)
  BY <1>1, <1>3, <1>4, SameChildren DEF OtherTypes
<1>6. IF st = "unstarted" THEN trees[r] = NoTree /\ root[r] = "starting"
                          ELSE trees[r] # NoTree /\ root[r] \notin Before \cup Ended \cup {"refused"}
  BY <1>2, <1>4 DEF Fits, Before, Ended
<1>7. Fits(trees[r], st)
  BY <1>4, <1>6 DEF Fits, Pends, Drained, Before, Ended
<1>8. Touches(r, trees[r], buffered[r], st)
  BY <1>1, <1>3, <1>4, <1>5 DEF Touches
<1>9. free' \in Int /\ free' + Held(trees[r], st) = free + Held(trees[r], root[r])
  <2>1. CASE st = "unstarted"
    <3>1. Held(trees[r], st) = 0 /\ Held(trees[r], root[r]) = 0 /\ free' = free
      BY <1>2, <1>6, <2>1, SlotCount
    <3> QED BY <1>4, <3>1
  <2>2. CASE st = "refused"
    <3>1. Held(trees[r], st) = 0 /\ Held(trees[r], root[r]) = 1 /\ free' = free + 1
      BY <1>2, <1>6, <2>2, SlotCount
    <3> QED BY <1>4, <3>1
  <2>3. CASE st = "stalled"
    <3>1. Held(trees[r], st) = 1 /\ Held(trees[r], root[r]) = 1 /\ free' = free
      BY <1>2, <1>6, <2>3, SlotCount
    <3> QED BY <1>4, <3>1
  <2> QED BY <2>1, <2>2, <2>3
<1>10. /\ unseeded' \in Nat /\ recycles' \in Nat
       /\ unseeded' + recycles' + Laned(trees[r], st)
            <= unseeded + recycles + Laned(trees[r], root[r])
  <2>1. CASE st = "unstarted"
    <3>1. Laned(trees[r], st) = 0 /\ Laned(trees[r], root[r]) = 1
      BY <1>6, <2>1, LaneCount
    <3> QED BY <1>1, <1>3, <1>4, <3>1
  <2>2. CASE st # "unstarted"
    <3>1. Laned(trees[r], st) = 1 /\ Laned(trees[r], root[r]) = 1
      BY <1>6, <2>2, LaneCount DEF Before
    <3> QED BY <1>1, <1>3, <1>4, <3>1
  <2> QED BY <2>1, <2>2
<1>11. buffered[r] + Outstanding(trees[r]) <= Cardinality(Kids(r)')
  BY <1>4, <1>5
<1>12. Keeps(r, trees[r], buffered[r], st)
  BY <1>5, <1>7, <1>8, <1>9, <1>10, <1>11 DEF Keeps
<1>13. ASSUME Books PROVE Agrees(r, trees[r], buffered[r], st)
  <2>1. Exact(trees[r], buffered[r], Cardinality(Owed(r)))
    BY <1>1, <1>13 DEF Books, AllExact
  <2>2. buffered[r] # 0 => root[r] \in Before
    BY <1>13 DEF Books, Buffering
  <2>3. /\ st \in Before => root[r] \in Before
        /\ buffered[r] # 0 => st \in Before
    BY <1>6, <2>2 DEF Before
  <2> QED BY <1>1, <1>5, <2>1, <2>3 DEF Agrees
<1>14. st \in RootStages
  BY DEF RootStages
<1> QED BY <1>4, <1>12, <1>13, <1>14 DEF Moved

\* A lane that moves between its tree and the recycles stays one lane.
LEMMA LanesSame ==
  ASSUME IInv, phase # "over", unseeded' = unseeded, recycles' \in Nat, NEW x, NEW st, NEW r \in Roots,
         recycles' + Laned(x, st) = recycles + Laned(trees[r], root[r])
  PROVE  /\ unseeded' \in Nat
         /\ unseeded' + recycles' + Laned(x, st) <= unseeded + recycles + Laned(trees[r], root[r])
<1> DEFINE u == unseeded c == recycles c1 == recycles'
           l == Laned(trees[r], root[r]) l1 == Laned(x, st)
<1>1. u \in Nat /\ c \in Nat /\ c1 \in Nat
  BY Here
<1>2. l \in Nat /\ l1 \in Nat
  BY LaneCount
<1>3. c1 + l1 = c + l
  OBVIOUS
<1> HIDE DEF u, c, c1, l, l1
<1>4. u + c1 + l1 <= u + c + l
  BY <1>1, <1>2, <1>3
<1> QED BY <1>1, <1>4 DEF u, c, c1, l, l1

\* The rest of a turn's return: the root ends, or goes on as it may.
LEMMA RootResumesMoves ==
  ASSUME IInv, NEW r \in Roots, RootResumes(r)
  PROVE  Moved(r)
<1>1. /\ phase # "over" /\ root[r] \in {"returned", "overflowed"}
      /\ left' = [left EXCEPT ![r] = @ - 1] /\ buffered' = buffered
  BY DEF RootResumes
<1>2. /\ TypeOK /\ OtherTypes /\ Fits(trees[r], root[r])
      /\ free \in Nat /\ unseeded \in Nat /\ recycles \in Nat /\ NoTree \notin Trees
      /\ trees[r] \in Trees \cup {NoTree} /\ buffered[r] \in Nat /\ Outstanding(trees[r]) \in Nat
      /\ buffered[r] + Outstanding(trees[r]) <= Cardinality(Kids(r))
      /\ Cardinality(Kids(r)) \in Nat
      /\ r \in Open <=> trees[r] # NoTree
      /\ \A x : trees[r] = x => trees = [trees EXCEPT ![r] = x]
      /\ \A b : buffered[r] = b => buffered = [buffered EXCEPT ![r] = b]
  BY <1>1, Here
<1>3. /\ trees[r] # NoTree /\ trees[r] \in Trees /\ r \in Open
      /\ root[r] \notin Before \cup Ended \cup {"refused", "starting"}
  BY <1>1, <1>2 DEF Fits, Before, Ended
<1>4. ASSUME NEW st, RootMoves(r, st), left[r] > 0
      PROVE  /\ root' = [root EXCEPT ![r] = st] /\ phase' = phase /\ unseeded' = unseeded
             /\ OtherTypes' /\ \A q : Kids(q)' = Kids(q) /\ Owed(q)' = Owed(q)
  <2>1. /\ root' = [root EXCEPT ![r] = st] /\ phase' = phase /\ unseeded' = unseeded
        /\ UNCHANGED <<child, bornVars>>
    BY <1>4 DEF RootMoves
  <2>2. left' \in [Roots -> 0..MaxTurns]
    <3>1. left[r] \in 0..MaxTurns /\ left \in [Roots -> 0..MaxTurns] /\ MaxTurns \in Nat
      BY <1>2, NumbersAssumption DEF OtherTypes
    <3>2. left[r] - 1 \in 0..MaxTurns
      BY <1>4, <3>1
    <3> QED BY <1>1, <3>1, <3>2
  <2> QED BY <1>2, <2>1, <2>2, SameChildren
<1>5. ASSUME Books
      PROVE  buffered[r] = 0 /\ trees[r].outstanding = Cardinality(Owed(r))
  BY <1>1, <1>3, <1>5 DEF Books, AllExact, Exact
<1>6. CASE left[r] = 1 /\ RootMoves(r, "finished") /\ OnRootTerminal(r)
  <2> DEFINE t == [trees[r] EXCEPT !.pending = FALSE]
             x == Settled(t)
             st == "finished"
  <2>1. /\ root' = [root EXCEPT ![r] = st] /\ phase' = phase /\ unseeded' = unseeded
        /\ OtherTypes' /\ \A q : Kids(q)' = Kids(q) /\ Owed(q)' = Owed(q)
    BY <1>4, <1>6
  <2>2. /\ t \in Trees /\ ~t.pending /\ t.outstanding = trees[r].outstanding
        /\ t.outstanding \in Nat
    BY <1>3 DEF Trees
  <2>3. /\ st \in RootStages /\ st \notin Before /\ st \in Ended
        /\ st \notin {"refused", "fresh", "overflowed", "truncated", "unstarted"}
        /\ "refused" \notin {st, root[r]}
    BY <1>3 DEF RootStages, Before, Ended
  <2>4. Settle(r, t)
    BY <1>3, <1>6 DEF OnRootTerminal
  <2> HIDE DEF t, st
  <2>5. Pends(t, st)
    BY <2>2, <2>3 DEF Pends
  <2>6. /\ trees' = [trees EXCEPT ![r] = x] /\ x \in Trees \cup {NoTree} /\ Fits(x, st)
        /\ free' \in Int /\ free' + Held(x, st) = free + Held(trees[r], root[r])
        /\ recycles' \in Nat
        /\ recycles' + Laned(x, st) = recycles + Laned(trees[r], root[r])
    BY <1>1, <1>3, <2>2, <2>3, <2>4, <2>5, Settling
  <2>7. Outstanding(x) \in Nat /\ Outstanding(x) <= Outstanding(trees[r])
    BY <1>3, <2>2 DEF Outstanding, Settled
  <2>8. Drained(t) => t.outstanding = 0 /\ x = NoTree
    BY <2>2 DEF Drained, Settled
  <2>9. ~Drained(t) => x = t
    BY DEF Settled
  <2> HIDE DEF x
  <2>10. Touches(r, x, buffered[r], st)
    BY <1>1, <1>2, <2>1, <2>6 DEF Touches
  <2>11. /\ unseeded' \in Nat /\ recycles' \in Nat
         /\ unseeded' + recycles' + Laned(x, st) <= unseeded + recycles + Laned(trees[r], root[r])
    BY <1>1, <2>1, <2>6, LanesSame
  <2>12. buffered[r] + Outstanding(x) <= Cardinality(Kids(r)')
    BY <1>2, <2>1, <2>7
  <2>13. Keeps(r, x, buffered[r], st)
    BY <2>1, <2>3, <2>6, <2>10, <2>11, <2>12 DEF Keeps
  <2>14. ASSUME Books PROVE Agrees(r, x, buffered[r], st)
    <3>1. Exact(x, buffered[r], Cardinality(Owed(r)')) /\ buffered[r] = 0
      <4>1. buffered[r] = 0 /\ t.outstanding = Cardinality(Owed(r)')
        BY <1>5, <2>1, <2>2, <2>14
      <4>2. t # NoTree
        BY <1>2, <2>2
      <4> QED BY <2>8, <2>9, <4>1, <4>2 DEF Exact
    <3> QED BY <2>1, <2>3, <3>1 DEF Agrees
  <2> QED BY <1>2, <2>3, <2>6, <2>13, <2>14 DEF Moved
<1>7. CASE left[r] > 1 /\ RootMoves(r, NextStage(r)) /\ UNCHANGED <<recycles, free, trees>>
  <2> DEFINE st == NextStage(r)
             x == trees[r]
  <2>1. st \in {"gated", "stalled", "truncated", "sending"}
    BY DEF NextStage
  <2> HIDE DEF st
  <2>2. /\ root' = [root EXCEPT ![r] = st] /\ phase' = phase /\ unseeded' = unseeded
        /\ OtherTypes' /\ \A q : Kids(q)' = Kids(q) /\ Owed(q)' = Owed(q)
    <3>1. RootMoves(r, st) /\ left[r] > 0
      <4>1. left[r] \in Int
        BY <1>2, NumbersAssumption DEF OtherTypes
      <4> QED BY <1>7, <4>1 DEF st
    <3> QED BY <1>4, <3>1
  <2>3. /\ st \in RootStages /\ st \notin Before \cup Ended
        /\ st \notin {"refused", "fresh", "starting", "overflowed", "unstarted"}
    BY <2>1 DEF RootStages, Before, Ended
  <2>4. Fits(x, st)
    BY <1>2, <1>3, <2>3 DEF Fits, Pends, Drained
  <2>5. Touches(r, x, buffered[r], st)
    BY <1>1, <1>2, <1>7, <2>2 DEF Touches
  <2>6. free' \in Int /\ free' + Held(x, st) = free + Held(trees[r], root[r])
    <3>1. Held(x, st) = 1 /\ Held(trees[r], root[r]) = 1
      BY <1>3, <2>3, SlotCount
    <3> QED BY <1>2, <1>7, <3>1
  <2>7. /\ unseeded' \in Nat /\ recycles' \in Nat
        /\ unseeded' + recycles' + Laned(x, st) <= unseeded + recycles + Laned(trees[r], root[r])
    <3>1. Laned(x, st) = 1 /\ Laned(trees[r], root[r]) = 1
      BY <1>3, <2>3, LaneCount
    <3> QED BY <1>2, <1>7, <2>2, <3>1
  <2>8. buffered[r] + Outstanding(x) <= Cardinality(Kids(r)')
    BY <1>2, <2>2
  <2>9. Keeps(r, x, buffered[r], st)
    BY <2>1, <2>2, <2>3, <2>4, <2>5, <2>6, <2>7, <2>8 DEF Keeps
  <2>10. ASSUME Books PROVE Agrees(r, x, buffered[r], st)
    BY <1>3, <1>5, <2>2, <2>3, <2>10 DEF Agrees, Exact
  <2> QED BY <1>2, <2>3, <2>9, <2>10 DEF Moved
<1> QED BY <1>6, <1>7 DEF RootResumes

\* A child is dispatched.
LEMMA DispatchChildMoves ==
  ASSUME IInv, NEW c \in Children, DispatchChild(c)
  PROVE  \E r \in Roots : Moved(r)
<1>0. PICK r \in Roots : r = parent[c]
  BY DEF DispatchChild, IInv, TypeOK
<1> DEFINE x == trees[r]
           st == root[r]
<1>1. /\ phase = "open" /\ phase # "over" /\ phase' = phase
      /\ child[c] \in {"seeded", "spawned"} /\ child[c] # "unborn" /\ child[c] # "done"
      /\ child' = [child EXCEPT ![c] = "wire"] /\ parent' = parent /\ left' = left
      /\ gating' \subseteq gating
      /\ unseeded' = unseeded /\ recycles' = recycles /\ free' = free
      /\ trees' = trees /\ buffered' = buffered /\ root' = root
  BY DEF DispatchChild, laneVars, rootVars, bornVars
<1>2. TypeOK
  BY DEF IInv
<1>3. /\ r \in Roots /\ OtherTypes'
      /\ \A q : Kids(q)' = Kids(q)
      /\ \A q : q # parent[c] => Owed(q)' = Owed(q)
      /\ Cardinality(Owed(parent[c])') = Cardinality(Owed(parent[c]))
      /\ \A d \in Children : d # c => child'[d] = child[d]
  BY <1>0, <1>1, <1>2, ChildMoves
<1>4. Cardinality(Owed(r)') = Cardinality(Owed(r))
  <2>1. Owed(r)' = Owed(parent[c])'
    BY <1>0, <1>1 DEF Owed
  <2> QED BY <1>0, <1>3, <2>1
<1>5. c \in Kids(r)
  BY <1>0 DEF Kids
<1>6. /\ OtherTypes /\ Fits(trees[r], root[r])
      /\ free \in Nat /\ unseeded \in Nat /\ recycles \in Nat
      /\ trees[r] \in Trees \cup {NoTree} /\ buffered[r] \in Nat /\ root[r] \in RootStages
      /\ buffered[r] + Outstanding(trees[r]) <= Cardinality(Kids(r))
      /\ Kids(r) # {} => root[r] # "fresh"
      /\ \A y : trees[r] = y => trees = [trees EXCEPT ![r] = y]
      /\ \A b : buffered[r] = b => buffered = [buffered EXCEPT ![r] = b]
      /\ \A s : root[r] = s => root = [root EXCEPT ![r] = s]
  BY <1>1, <1>3, Here
<1>7. Touches(r, x, buffered[r], st)
  <2>1. \A q \in Roots \ {r} : Kids(q)' = Kids(q) /\ Owed(q)' = Owed(q)
    BY <1>0, <1>3
  <2> QED BY <1>1, <1>6, <2>1 DEF Touches
<1>8. free' + Held(x, st) = free + Held(trees[r], root[r]) /\ free' \in Int
  BY <1>1, <1>6
<1>9. /\ unseeded' \in Nat /\ recycles' \in Nat
      /\ unseeded' + recycles' + Laned(x, st) <= unseeded + recycles + Laned(trees[r], root[r])
  BY <1>1, <1>3, <1>6, LanesSame
<1>10. buffered[r] + Outstanding(x) <= Cardinality(Kids(r)') /\ (Kids(r)' # {} => st # "fresh")
  <2>1. Kids(r)' = Kids(r)
    BY <1>3
  <2> QED BY <1>6, <2>1
<1>11. Keeps(r, x, buffered[r], st)
  BY <1>3, <1>6, <1>7, <1>8, <1>9, <1>10 DEF Keeps
<1>12. ASSUME Books PROVE Agrees(r, x, buffered[r], st)
  <2>1. Exact(x, buffered[r], Cardinality(Owed(r)'))
    BY <1>1, <1>3, <1>4, <1>12 DEF Books, AllExact
  <2>2. buffered[r] # 0 => st \in Before
    BY <1>3, <1>12 DEF Books, Buffering
  <2> QED BY <2>1, <2>2 DEF Agrees
<1> QED BY <1>3, <1>6, <1>11, <1>12 DEF Moved

\* A child of r ends and is accounted, or forgotten: its root stays where it is, or leaves the
\* join that the child was the last to block.
LEMMA DoneAccounted ==
  ASSUME IInv, phase # "over", phase' = phase, NEW c \in Children, NEW st \in RootStages,
         child[c] # "unborn", child[c] # "done", Account(c),
         st = root[parent[c]] \/ (root[parent[c]] = "gated" /\ st = "joining"),
         parent[c] \in Roots => root' = [root EXCEPT ![parent[c]] = st],
         gating' \subseteq gating, UNCHANGED <<unseeded, buffered, left, parent>>
  PROVE  \E r \in Roots : Moved(r)
<1>0. PICK r \in Roots : r = parent[c]
  BY DEF IInv, TypeOK
<1> DEFINE x == AfterDone(trees[r])
           s == IF r \in Open THEN "done" ELSE "forgotten"
<1>1. TypeOK /\ parent' = parent /\ left' = left /\ unseeded' = unseeded /\ buffered' = buffered
  BY DEF IInv
<1>2. /\ r \in Roots /\ OtherTypes'
      /\ \A q : Kids(q)' = Kids(q)
      /\ \A q : q # parent[c] => Owed(q)' = Owed(q)
      /\ Cardinality(Owed(r)) \in Nat \ {0}
      /\ Cardinality(Owed(parent[c])')
           = IF s = "done" THEN Cardinality(Owed(parent[c])) - 1
                           ELSE Cardinality(Owed(parent[c]))
  <2>1. s \in {"wire", "ending", "done", "forgotten"} /\ child' = [child EXCEPT ![c] = s]
    BY <1>0 DEF Account
  <2> HIDE DEF s
  <2> QED BY <1>0, <1>1, <2>1, ChildMoves
<1>3. Cardinality(Owed(r)') = IF r \in Open THEN Cardinality(Owed(r)) - 1
                                            ELSE Cardinality(Owed(r))
  <2>1. Owed(r)' = Owed(parent[c])'
    BY <1>0, <1>1 DEF Owed
  <2> QED BY <1>0, <1>2, <2>1
<1> HIDE DEF s
<1>4. /\ st = root[r] \/ (root[r] = "gated" /\ st = "joining")
      /\ root' = [root EXCEPT ![r] = st] /\ OnDescendantDone(r)
  BY <1>0 DEF Account
<1>5. c \in Kids(r)
  BY <1>0 DEF Kids
<1>6. \A q \in Roots \ {r} : Kids(q)' = Kids(q) /\ Owed(q)' = Owed(q)
  BY <1>0, <1>2
<1>8. /\ OtherTypes /\ Fits(trees[r], root[r]) /\ NoTree \notin Trees
      /\ free \in Nat /\ unseeded \in Nat /\ recycles \in Nat
      /\ trees[r] \in Trees \cup {NoTree} /\ buffered[r] \in Nat
      /\ buffered[r] + Outstanding(trees[r]) <= Cardinality(Kids(r))
      /\ Outstanding(trees[r]) \in Nat /\ Cardinality(Kids(r)) \in Nat
      /\ Kids(r) # {} => root[r] # "fresh"
      /\ \A b : buffered[r] = b => buffered = [buffered EXCEPT ![r] = b]
  BY <1>2, Here
<1>9. /\ trees' = [trees EXCEPT ![r] = x] /\ x \in Trees \cup {NoTree} /\ Fits(x, st)
      /\ Outstanding(x) \in Nat /\ Outstanding(x) <= Outstanding(trees[r])
      /\ free' \in Int /\ free' + Held(x, st) = free + Held(trees[r], root[r])
      /\ recycles' \in Nat
      /\ recycles' + Laned(x, st) = recycles + Laned(trees[r], root[r])
  BY <1>2, <1>4, DoneMoves
<1>10. Touches(r, x, buffered[r], st)
  BY <1>1, <1>4, <1>6, <1>8, <1>9 DEF Touches
<1>11. ASSUME Books PROVE Exact(x, buffered[r], Cardinality(Owed(r)'))
  <2>1. Exact(trees[r], buffered[r], Cardinality(Owed(r)))
    BY <1>2, <1>11 DEF Books, AllExact
  <2>2. CASE trees[r] # NoTree
    <3>1. /\ trees[r] \in Trees /\ trees[r].outstanding = Cardinality(Owed(r))
          /\ buffered[r] = 0 /\ r \in Open
      BY <1>2, <1>8, <2>1, <2>2 DEF Exact, Open
    <3> DEFINE t == WithoutDescendant(trees[r])
    <3>2. t \in Trees /\ t.outstanding = Cardinality(Owed(r)')
      <4>1. /\ t \in Trees
            /\ t.outstanding = IF trees[r].outstanding > 0 THEN trees[r].outstanding - 1
                                                           ELSE trees[r].outstanding
        BY <3>1, OneLess
      <4> QED BY <1>2, <1>3, <3>1, <4>1
    <3>3. x = Settled(t)
      BY <2>2 DEF AfterDone
    <3> HIDE DEF t, x
    <3>4. t.outstanding \in Nat /\ t # NoTree
      BY <1>8, <3>2 DEF Trees
    <3>5. CASE Drained(t)
      BY <3>1, <3>2, <3>3, <3>4, <3>5 DEF Drained, Settled, Exact
    <3>6. CASE ~Drained(t)
      BY <3>1, <3>2, <3>3, <3>4, <3>6 DEF Settled, Exact
    <3> QED BY <3>5, <3>6
  <2>3. CASE trees[r] = NoTree
    <3>1. r \notin Open /\ x = NoTree
      BY <2>3 DEF AfterDone, Open
    <3> QED BY <1>3, <2>1, <2>3, <3>1 DEF Exact
  <2> QED BY <2>2, <2>3
<1> HIDE DEF x
<1>12. /\ unseeded' \in Nat
       /\ unseeded' + recycles' + Laned(x, st) <= unseeded + recycles + Laned(trees[r], root[r])
  BY <1>1, <1>2, <1>9, LanesSame
<1>13. /\ buffered[r] + Outstanding(x) <= Cardinality(Kids(r)')
       /\ Kids(r)' # {} => st # "fresh"
  <2>1. Kids(r)' = Kids(r)
    BY <1>2
  <2>2. buffered[r] + Outstanding(x) <= Cardinality(Kids(r))
    BY <1>8, <1>9
  <2>3. Kids(r) # {} => st # "fresh"
    BY <1>4, <1>8
  <2> QED BY <2>1, <2>2, <2>3
<1>14. Keeps(r, x, buffered[r], st)
  BY <1>2, <1>9, <1>10, <1>12, <1>13 DEF Keeps
<1>15. ASSUME Books PROVE Agrees(r, x, buffered[r], st)
  <2>1. buffered[r] # 0 => root[r] \in Before
    BY <1>2, <1>15 DEF Books, Buffering
  <2>2. buffered[r] # 0 => st \in Before
    BY <1>4, <2>1 DEF Before
  <2> QED BY <1>11, <1>15, <2>2 DEF Agrees
<1> QED BY <1>2, <1>8, <1>9, <1>14, <1>15 DEF Moved

\* A child ends, and releases its root's join or not.
LEMMA ChildEndsMoves ==
  ASSUME IInv, NEW c \in Children, ChildEnds(c)
  PROVE  \E r \in Roots : Moved(r)
<1>1. /\ phase # "over" /\ phase' = phase /\ child[c] = "wire"
      /\ UNCHANGED <<unseeded, buffered, left, parent>> /\ gating' \subseteq gating
  BY DEF ChildEnds
<1>2. TypeOK
  BY DEF IInv
<1>3. CASE ReleasesJoin(c)
  <2>0. PICK r \in Roots : r = parent[c]
    BY <1>1, <1>2 DEF TypeOK
  <2> DEFINE x == trees[r]
             st == "joining"
  <2>1. /\ root[r] = "gated" /\ root' = [root EXCEPT ![r] = st]
        /\ child' = [child EXCEPT ![c] = "ending"] /\ parent' = parent /\ left' = left
        /\ unseeded' = unseeded /\ recycles' = recycles /\ free' = free /\ trees' = trees
        /\ buffered' = buffered
    BY <1>1, <1>3, <2>0 DEF ChildEnds, ReleasesJoin
  <2>2. /\ r \in Roots /\ OtherTypes'
        /\ \A q : Kids(q)' = Kids(q)
        /\ \A q : q # parent[c] => Owed(q)' = Owed(q)
        /\ Cardinality(Owed(parent[c])') = Cardinality(Owed(parent[c]))
        /\ \A d \in Children : d # c => child'[d] = child[d]
    BY <1>1, <1>2, <2>0, <2>1, ChildMoves
  <2>3. Cardinality(Owed(r)') = Cardinality(Owed(r))
    <3>1. Owed(r)' = Owed(parent[c])'
      BY <2>0, <2>1 DEF Owed
    <3> QED BY <2>0, <2>2, <3>1
  <2>4. \A q \in Roots \ {r} : Kids(q)' = Kids(q) /\ Owed(q)' = Owed(q)
    BY <2>0, <2>2
  <2>5. /\ OtherTypes /\ Fits(trees[r], root[r])
        /\ free \in Nat /\ unseeded \in Nat /\ recycles \in Nat
        /\ trees[r] \in Trees \cup {NoTree} /\ buffered[r] \in Nat
        /\ buffered[r] + Outstanding(trees[r]) <= Cardinality(Kids(r))
        /\ \A y : trees[r] = y => trees = [trees EXCEPT ![r] = y]
        /\ \A b : buffered[r] = b => buffered = [buffered EXCEPT ![r] = b]
    BY <1>1, <2>2, Here
  <2>6. /\ st \in RootStages /\ st \notin Before \cup Ended /\ root[r] \notin Before \cup Ended
        /\ st \notin {"refused", "starting", "fresh", "overflowed", "truncated", "unstarted"}
        /\ root[r] \notin {"refused", "starting"}
    BY <2>1 DEF RootStages, Before, Ended
  <2> HIDE DEF st, x
  <2>7. x = trees[r] /\ trees[r] # NoTree /\ Fits(x, st)
    BY <2>5, <2>6 DEF Fits, Pends, Drained, x
  <2>8. Touches(r, x, buffered[r], st)
    BY <1>1, <2>1, <2>4, <2>5, <2>7 DEF Touches
  <2>9. free' + Held(x, st) = free + Held(trees[r], root[r]) /\ free' \in Int
    <3>1. Held(x, st) = 1 /\ Held(trees[r], root[r]) = 1
      BY <2>6, <2>7, SlotCount
    <3> QED BY <2>1, <2>5, <3>1
  <2>10. /\ unseeded' \in Nat /\ recycles' \in Nat
         /\ unseeded' + recycles' + Laned(x, st) <= unseeded + recycles + Laned(trees[r], root[r])
    <3>1. Laned(x, st) = 1 /\ Laned(trees[r], root[r]) = 1
      BY <2>6, <2>7, LaneCount
    <3> QED BY <2>1, <2>5, <3>1
  <2>11. buffered[r] + Outstanding(x) <= Cardinality(Kids(r)')
    <3>1. Kids(r)' = Kids(r)
      BY <2>2
    <3> QED BY <2>5, <2>7, <3>1
  <2>12. Keeps(r, x, buffered[r], st)
    BY <2>2, <2>6, <2>7, <2>8, <2>9, <2>10, <2>11 DEF Keeps
  <2>13. ASSUME Books PROVE Agrees(r, x, buffered[r], st)
    <3>1. Exact(x, buffered[r], Cardinality(Owed(r)'))
      BY <1>1, <2>2, <2>3, <2>7, <2>13 DEF Books, AllExact
    <3>2. buffered[r] = 0
      BY <2>2, <2>6, <2>13 DEF Books, Buffering
    <3> QED BY <3>1, <3>2 DEF Agrees
  <2> QED BY <2>2, <2>5, <2>6, <2>7, <2>12, <2>13 DEF Moved
<1>4. CASE ~ReleasesJoin(c)
  <2>1. Account(c) /\ root' = root
    BY <1>4 DEF ChildEnds
  <2>2. parent[c] \in Roots /\ root[parent[c]] \in RootStages
        /\ root' = [root EXCEPT ![parent[c]] = root[parent[c]]]
    BY <1>1, <1>2, <2>1 DEF TypeOK
  <2> QED BY <1>1, <2>1, <2>2, DoneAccounted
<1> QED BY <1>3, <1>4

\* The child that released a join is accounted once its turn is issued.
LEMMA JoinIssuedMoves ==
  ASSUME IInv, NEW c \in Children, JoinIssued(c)
  PROVE  \E r \in Roots : Moved(r)
<1>1. /\ phase # "over" /\ phase' = phase /\ child[c] = "ending"
      /\ Account(c) /\ root' = root
      /\ UNCHANGED <<unseeded, buffered, left, parent>> /\ gating' \subseteq gating
  BY DEF JoinIssued, rootVars, bornVars
<1>2. parent[c] \in Roots /\ root[parent[c]] \in RootStages
      /\ root' = [root EXCEPT ![parent[c]] = root[parent[c]]]
  BY <1>1 DEF IInv, TypeOK
<1> QED BY <1>1, <1>2, DoneAccounted

\* A spawned child is taken back.
LEMMA RollBackChildMoves ==
  ASSUME IInv, NEW c \in Children, RollBackChild(c)
  PROVE  \E r \in Roots : Moved(r)
<1>1. /\ phase # "over" /\ phase' = phase /\ child[c] = "spawned" /\ Account(c)
      /\ UNCHANGED <<unseeded, buffered, left, parent>> /\ gating' \subseteq gating
  BY DEF RollBackChild
<1>2. parent[c] \in Roots /\ root \in [Roots -> RootStages]
  BY <1>1 DEF IInv, TypeOK
<1>3. PICK st \in RootStages :
        /\ st = root[parent[c]] \/ (root[parent[c]] = "gated" /\ st = "joining")
        /\ root' = [root EXCEPT ![parent[c]] = st]
  <2>1. CASE ReleasesJoin(c)
    <3>1. root[parent[c]] = "gated" /\ root' = [root EXCEPT ![parent[c]] = "joining"]
      BY <2>1 DEF RollBackChild, ReleasesJoin
    <3>2. "joining" \in RootStages
      BY DEF RootStages
    <3> QED BY <3>1, <3>2
  <2>2. CASE ~ReleasesJoin(c)
    <3>1. root' = root
      BY <2>2 DEF RollBackChild
    <3> QED BY <1>2, <3>1
  <2> QED BY <2>1, <2>2
<1> QED BY <1>1, <1>3, DoneAccounted

\* The stop and the end of the phase.
LEMMA StopKeeps ==
  ASSUME IInv, Stop
  PROVE  IInv' /\ (Books => Books')
<1>1. /\ phase = "open" /\ phase' = "stopped" /\ unseeded' = unseeded /\ recycles' = recycles
      /\ free' = free /\ trees' = trees /\ buffered' = buffered /\ root' = root /\ left' = left
      /\ child' = child /\ parent' = parent /\ gating' = gating
  BY DEF Stop, laneVars, rootVars, bornVars
<1>2. TypeOK'
  BY <1>1 DEF IInv, TypeOK
<1>3. Counted' /\ Born' /\ Lanes'
  BY <1>1 DEF IInv, Counted, Born, Lanes, Kids, Starting, Open
<1>4. Staged'
  BY <1>1 DEF IInv, Staged
<1>5. SlotsMatchTrees'
  <2>1. Open' = Open /\ TurnedAway' = TurnedAway
    BY <1>1 DEF Open, TurnedAway
  <2> QED BY <1>1, <2>1 DEF IInv, SlotsMatchTrees
<1>6. ASSUME Books PROVE Books'
  <2>1. \A r \in Roots : Owed(r)' = Owed(r)
    BY <1>1 DEF Owed
  <2>2. AllExact'
    BY <1>1, <1>6, <2>1 DEF Books, AllExact
  <2> QED BY <1>1, <1>6, <2>2 DEF Books, Buffering
<1> QED BY <1>2, <1>3, <1>4, <1>5, <1>6 DEF IInv

\* release_all gives back the slots of the trees still open: one too many for each
\* root turned away, whose tree is open and whose slot is not taken.
LEMMA TeardownKeeps ==
  ASSUME IInv, Teardown
  PROVE  IInv' /\ (Books => Books')
<1>1. /\ phase = "stopped" /\ phase' = "over" /\ unseeded' = unseeded /\ recycles' = recycles
      /\ free' = free + Cardinality(Open) /\ trees' = [r \in Roots |-> NoTree]
      /\ buffered' = buffered /\ root' = root /\ left' = left
      /\ child' = child /\ parent' = parent /\ gating' = gating
  BY DEF Teardown, laneVars, rootVars, bornVars
<1>2. TypeOK /\ Staged
  BY DEF IInv
<1>3. Open \in SUBSET Roots /\ TurnedAway \in SUBSET Roots /\ TurnedAway \subseteq Open
      /\ free \in Nat /\ NumLanes \in Nat
  <2>1. \A r \in Roots : Fits(trees[r], root[r])
    BY <1>1, <1>2 DEF Staged
  <2>2. TurnedAway \subseteq Open
    BY <2>1 DEF TurnedAway, Open, Fits, Before, Ended
  <2> QED BY <1>2, <2>2, Kinds
<1>4. Open' = {} /\ TurnedAway' = TurnedAway /\ Starting' = Starting
      /\ \A r : Kids(r)' = Kids(r) /\ Owed(r)' = Owed(r)
  BY <1>1 DEF Open, TurnedAway, Starting, Kids, Owed
<1>5. Cardinality(Open) = Cardinality(Open \ TurnedAway) + Cardinality(TurnedAway)
      /\ Cardinality(Open) \in Nat /\ Cardinality(TurnedAway) \in Nat
      /\ Cardinality(Open \ TurnedAway) \in Nat /\ Cardinality({}) = 0
  <2>1. IsFiniteSet(Open) /\ IsFiniteSet(TurnedAway) /\ IsFiniteSet(Open \ TurnedAway)
    BY <1>3, Sizes, FS_Difference
  <2>2. Open = (Open \ TurnedAway) \cup TurnedAway /\ (Open \ TurnedAway) \cap TurnedAway = {}
    BY <1>3
  <2>3. Cardinality((Open \ TurnedAway) \cup TurnedAway)
          = Cardinality(Open \ TurnedAway) + Cardinality(TurnedAway)
            - Cardinality((Open \ TurnedAway) \cap TurnedAway)
    BY <2>1, FS_Union
  <2>4. Cardinality(Open) \in Nat /\ Cardinality(TurnedAway) \in Nat
        /\ Cardinality(Open \ TurnedAway) \in Nat /\ Cardinality({}) = 0
    BY <2>1, FS_CardinalityType, FS_EmptySet
  <2>5. Cardinality((Open \ TurnedAway) \cup TurnedAway) = Cardinality(Open)
        /\ Cardinality((Open \ TurnedAway) \cap TurnedAway) = 0
    BY <2>2, <2>4
  <2> DEFINE a == Cardinality(Open \ TurnedAway) b == Cardinality(TurnedAway)
             o == Cardinality(Open)
  <2>6. o = a + b - 0 /\ a \in Nat /\ b \in Nat
    BY <2>3, <2>4, <2>5
  <2> HIDE DEF a, b, o
  <2>7. o = a + b
    BY <2>6
  <2> QED BY <2>4, <2>7 DEF a, b, o
<1>6. free = NumLanes - Cardinality(Open \ TurnedAway)
  BY <1>1, <1>3, <1>5 DEF IInv, SlotsMatchTrees
<1>7. free' = NumLanes - Cardinality({}) + Cardinality(TurnedAway) /\ free' \in Nat
  BY <1>1, <1>3, <1>5, <1>6
<1>8. SlotsMatchTrees'
  <2>1. Open' \ TurnedAway' = {}
    BY <1>4
  <2> QED BY <1>1, <1>4, <1>7, <2>1 DEF SlotsMatchTrees
<1>9. TypeOK'
  BY <1>1, <1>2, <1>7 DEF TypeOK
<1>10. Counted'
  <2>1. ASSUME NEW r \in Roots PROVE buffered[r] + 0 <= Cardinality(Kids(r))
    <3>1. /\ buffered[r] + Outstanding(trees[r]) <= Cardinality(Kids(r))
          /\ buffered[r] \in Nat /\ Outstanding(trees[r]) \in Nat /\ Cardinality(Kids(r)) \in Nat
      BY <1>1, Here
    <3> QED BY <3>1
  <2>2. \A r \in Roots : Outstanding(trees[r])' = 0
    BY <1>1 DEF Outstanding
  <2>3. \A r \in Roots : Cardinality(Kids(r))' = Cardinality(Kids(r))
    BY <1>4
  <2> QED BY <1>1, <2>1, <2>2, <2>3 DEF Counted
<1>11. Born' /\ Staged'
  BY <1>1, <1>4 DEF IInv, Born, Staged
<1>12. Lanes'
  <2> DEFINE o == Cardinality(Open) s == Cardinality(Starting)
  <2>1. unseeded + recycles + s + o <= NumLanes
    BY DEF IInv, Lanes
  <2>2. /\ unseeded \in Nat /\ recycles \in Nat /\ s \in Nat /\ o \in Nat /\ NumLanes \in Nat
    BY <1>2, <1>5, Kinds, Sizes
  <2> HIDE DEF o, s
  <2>3. unseeded + recycles + s + 0 <= NumLanes
    BY <2>1, <2>2
  <2> QED BY <1>1, <1>4, <1>5, <2>3 DEF Lanes, s
<1>13. ASSUME Books PROVE Books'
  BY <1>1, <1>13 DEF Books, AllExact, Buffering
<1> QED BY <1>8, <1>9, <1>10, <1>11, <1>12, <1>13 DEF IInv

-------------------------------------------------------------------------------
(***************************************************************************)
(* The theorems.                                                           *)
(***************************************************************************)
\* The invariant holds at the start.
LEMMA Initially ==
  ASSUME Init
  PROVE  IInv /\ Books
<1>1. /\ phase = "open" /\ unseeded = NumLanes /\ recycles = 0 /\ free = NumLanes
      /\ trees = [r \in Roots |-> NoTree] /\ buffered = [r \in Roots |-> 0]
      /\ root = [r \in Roots |-> "fresh"] /\ left = [r \in Roots |-> 0]
      /\ child = [c \in Children |-> "unborn"] /\ parent = [c \in Children |-> NoRoot]
      /\ gating = {}
  BY DEF Init
<1>2. NumLanes \in Nat /\ MaxTurns \in Nat /\ NoRoot \notin Roots /\ Cardinality(Children) \in Nat
  BY NumbersAssumption, SetsAssumption, FS_CardinalityType
<1>3. Open = {} /\ Starting = {} /\ TurnedAway = {} /\ Cardinality({}) = 0
  BY <1>1, FS_EmptySet DEF Open, Starting, TurnedAway
<1>4. \A r \in Roots : Kids(r) = {} /\ Owed(r) = {}
  BY <1>1, <1>2 DEF Kids, Owed
<1>5. TypeOK
  <2>1. 0 \in 0..Cardinality(Children) /\ 0 \in 0..MaxTurns /\ 0 \in 0..NumLanes
        /\ NumLanes \in 0..NumLanes
    BY <1>2
  <2>2. /\ trees \in [Roots -> [pending : BOOLEAN, outstanding : 0..Cardinality(Children)]
                                 \cup {NoTree}]
        /\ buffered \in [Roots -> 0..Cardinality(Children)]
        /\ left \in [Roots -> 0..MaxTurns]
    BY <1>1, <2>1
  <2>3. root \in [Roots -> RootStages]
    BY <1>1 DEF RootStages
  <2>4. /\ child \in [Children -> {"unborn", "seeded", "spawned", "wire", "ending", "done", "forgotten"}]
        /\ parent \in [Children -> Roots \cup {NoRoot}]
        /\ \A c \in Children : child[c] = "unborn" <=> parent[c] = NoRoot
    BY <1>1
  <2> QED BY <1>1, <1>2, <2>1, <2>2, <2>3, <2>4 DEF TypeOK
<1>6. Counted
  <2>1. \A r \in Roots : buffered[r] = 0 /\ Outstanding(trees[r]) = 0
                         /\ Cardinality(Kids(r)) = 0
    BY <1>1, <1>3, <1>4 DEF Outstanding
  <2> QED BY <2>1 DEF Counted
<1>7. Born
  BY <1>1, <1>4 DEF Born
<1>8. Staged
  BY <1>1 DEF Staged, Fits, Before
<1>9. Lanes /\ SlotsMatchTrees
  <2>1. Open \ TurnedAway = {}
    BY <1>3
  <2> QED BY <1>1, <1>2, <1>3, <2>1 DEF Lanes, SlotsMatchTrees
<1>10. Books
  <2>1. AllExact
    BY <1>1, <1>3, <1>4 DEF AllExact, Exact
  <2> QED BY <1>1, <2>1 DEF Books, Buffering
<1> QED BY <1>5, <1>6, <1>7, <1>8, <1>9, <1>10 DEF IInv

\* Every step keeps the invariant, and the books.
LEMMA Steps ==
  ASSUME IInv, [Next]_vars
  PROVE  IInv' /\ (Books => Books')
<1>1. ASSUME NEW r \in Roots, RootSteps(r)
      PROVE  IInv' /\ (Books => Books')
  <2>1. Moved(r)
    BY <1>1, ResumeSnapshotMoves, RecycleLaneMoves, StartRootMoves, SendTurnMoves,
       RefuseTurnMoves, RootReturnsMoves, RootResumesMoves DEF RootSteps
  <2> QED BY <2>1, MovedKeeps
<1>2. ASSUME NEW c \in Children, ChildSteps(c)
      PROVE  IInv' /\ (Books => Books')
  <2>1. \E r \in Roots : Moved(r)
    BY <1>2, DispatchChildMoves, ChildEndsMoves, JoinIssuedMoves, RollBackChildMoves
       DEF ChildSteps
  <2> QED BY <2>1, MovedKeeps
<1>3. CASE Stop
  BY <1>3, StopKeeps
<1>4. CASE Teardown
  BY <1>4, TeardownKeeps
<1>5. CASE UNCHANGED vars
  <2>1. /\ phase' = phase /\ unseeded' = unseeded /\ recycles' = recycles
        /\ free' = free /\ trees' = trees /\ buffered' = buffered /\ root' = root /\ left' = left
        /\ child' = child /\ parent' = parent /\ gating' = gating
    BY <1>5 DEF vars, laneVars, rootVars, bornVars
  <2>2. /\ Open' = Open /\ TurnedAway' = TurnedAway /\ Starting' = Starting
        /\ \A r : Kids(r)' = Kids(r) /\ Owed(r)' = Owed(r)
    BY <2>1 DEF Open, TurnedAway, Starting, Kids, Owed
  <2>3. TypeOK' /\ Counted' /\ Born' /\ Staged' /\ Lanes' /\ SlotsMatchTrees'
    <3>1. TypeOK'
      BY <2>1 DEF IInv, TypeOK
    <3>2. \A r \in Roots : Outstanding(trees[r])' = Outstanding(trees[r])
      BY <2>1 DEF Outstanding
    <3>3. Counted' /\ Born'
      BY <2>1, <2>2, <3>2 DEF IInv, Counted, Born
    <3>4. Staged'
      BY <2>1, <2>2 DEF IInv, Staged
    <3>5. Lanes' /\ SlotsMatchTrees'
      BY <2>1, <2>2 DEF IInv, Lanes, SlotsMatchTrees
    <3> QED BY <3>1, <3>3, <3>4, <3>5
  <2>4. ASSUME Books PROVE Books'
    BY <2>1, <2>2, <2>4 DEF Books, AllExact, Buffering
  <2> QED BY <2>3, <2>4 DEF IInv
<1> QED BY <1>1, <1>2, <1>3, <1>4, <1>5 DEF Next, Progress

\* The inductive invariant, for every value of the constants.
THEOREM Invariance == Spec => []IInv
<1>1. Init => IInv
  BY Initially
<1>2. IInv /\ [Next]_vars => IInv'
  BY Steps
<1> QED BY <1>1, <1>2, PTL DEF Spec

\* The types of SessionTree's variables, and a child belongs to a root exactly once
\* it is born.
THEOREM TypeCorrect == Spec => []TypeOK
<1>1. IInv => TypeOK
  BY DEF IInv
<1> QED BY <1>1, Invariance, PTL

\* on_root_terminal, on_descendant_done and release_all free a slot exactly with
\* the tree they close, but for a root turned away at its first turn.
THEOREM SlotsAgree == Spec => []SlotsMatchTrees
<1>1. IInv => SlotsMatchTrees
  BY DEF IInv
<1> QED BY <1>1, Invariance, PTL

\* The registry's books are kept: what it has counted and not accounted is owed, and
\* descendants are buffered only for a root whose first turn has no slot yet.
THEOREM BooksKept == Spec => [](IInv /\ Books)
<1>1. Init => IInv /\ Books
  BY Initially
<1>2. IInv /\ Books /\ [Next]_vars => (IInv /\ Books)'
  BY Steps
<1> QED BY <1>1, <1>2, PTL DEF Spec

\* The children the registry has not accounted are those at work or to come and those
\* it forgot.
LEMMA OwedParts ==
  ASSUME TypeOK, NEW r \in Roots
  PROVE  /\ Cardinality(Owed(r)) = Cardinality(Live(r)) + Cardinality(Forgotten(r))
         /\ Owed(r) = Live(r) \cup Forgotten(r)
<1>1. /\ Owed(r) = Live(r) \cup Forgotten(r) /\ Live(r) \cap Forgotten(r) = {}
      /\ Live(r) \in SUBSET Children /\ Forgotten(r) \in SUBSET Children
  BY DEF Owed, Live, Forgotten
<1> QED BY <1>1, ChildSizes

\* What register_descendants has counted and on_descendant_done has not accounted is
\* what is there and what ended before its root's tree was open: no tree drains
\* while a subagent of it is at work, in whatever order the streams of a snapshot
\* come due.
THEOREM OutstandingAgrees == Spec => []OutstandingExact
<1>1. IInv /\ Books => OutstandingExact
  <2> SUFFICES ASSUME IInv, Books, phase # "over", NEW r \in Roots
               PROVE  LET n == Cardinality(Live(r)) + Cardinality(Forgotten(r))
                      IN  /\ r \in Open => trees[r].outstanding = n
                          /\ r \notin Open => buffered[r] = n
    BY DEF OutstandingExact
  <2>1. Exact(trees[r], buffered[r], Cardinality(Owed(r)))
    BY DEF Books, AllExact
  <2>2. Cardinality(Owed(r)) = Cardinality(Live(r)) + Cardinality(Forgotten(r))
    BY OwedParts DEF IInv
  <2> QED BY <2>1, <2>2 DEF Exact, Open
<1> QED BY <1>1, BooksKept, PTL

\* While the phase sends, a tree without a root to come has a subagent at work, or
\* counts one that ended before its tree was open: _maybe_release closes the others
\* with their last subagent.
THEOREM WorkInEveryOpenTree == Spec => []OpenTreesHaveWork
<1>1. IInv /\ Books => OpenTreesHaveWork
  <2> SUFFICES ASSUME IInv, Books, phase = "open", NEW r \in Open,
                      root[r] \in {"absent", "finished"}, Forgotten(r) = {}
               PROVE  Live(r) # {}
    BY DEF OpenTreesHaveWork
  <2>1. r \in Roots /\ trees[r] # NoTree
    BY DEF Open
  <2>2. root[r] \in Ended
    BY DEF Ended
  <2>3. /\ Fits(trees[r], root[r]) /\ trees[r] \in Trees \cup {NoTree}
        /\ Cardinality(Owed(r)) \in Nat
    BY <2>1, Here
  <2>4. trees[r].outstanding = Cardinality(Owed(r))
    BY <2>1 DEF Books, AllExact, Exact
  <2>5. Cardinality(Owed(r)) # 0
    BY <2>1, <2>2, <2>3, <2>4 DEF Fits, Pends, Drained
  <2>6. Owed(r) = Live(r)
    BY <2>1, OwedParts DEF IInv
  <2> QED BY <2>5, <2>6, FS_EmptySet
<1> QED BY <1>1, BooksKept, PTL
===============================================================================
