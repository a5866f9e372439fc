--------------------------- MODULE BranchJoinsProofs ---------------------------
(***************************************************************************)
(* Theorems of BranchJoins, for every plan, any number of turns, branches  *)
(* and children: a pending join waits for exactly the children that are    *)
(* left of its branches; a suspended parent has a child left that will     *)
(* release it; and the books implement the contract of the joins, whatever *)
(* was refused, stopped or late.                                           *)
(***************************************************************************)
EXTENDS BranchJoins, FiniteSetTheorems, TLAPS

(***************************************************************************)
(* The invariant.                                                          *)
(***************************************************************************)
Unsent == {"issuing", "due", "dropped"}      \* the current turn has not gone out
Kids(b) == plan.kids[b]
Left == tracked \cup finishing
Pending == future \cup ({active} \ {NoGate})

\* The branches that were started.
Begun ==
  {b \in Branches :
     \/ plan.spawn[b] < turn
     \/ /\ plan.spawn[b] = turn
        /\ IF b \in plan.overlap THEN parent \notin Unsent /\ ~overlapDue
                                 ELSE parent \in {"spawning", "suspended", "over"}}

\* A child is tracked from its start to its end.
Tracking == /\ tracked = {c \in Children : child[c] \notin {"none", "over"}}
            /\ \A c \in finishing : child[c] = "over"

\* The parent's phase, the lock and the join it is suspended on agree.
Course ==
  /\ parent = "suspended" <=> active # NoGate
  /\ active # NoGate => active = turn + 1
  /\ parent = "spawning" <=> holder = "intercept"
  /\ overlapDue => parent \in {"wire", "returned"}

\* Children are of branches that were started, and a join knows of each such
\* branch it waits for and of no other.
Born == \A c \in Children : child[c] # "none" => \E b \in Begun : c \in Kids(b)
Registered == \A g \in Gates : join[g].registered = Begun \cap Prereqs(g)
Fresh == \A g \in Gates, b \in Branches \ Begun :
           join[g].expected[b] = 0 /\ join[g].completed[b] = {}

\* Only children that are over have reported.
Heard == \A g \in Gates, b \in Branches :
           join[g].completed[b] \subseteq {c \in Kids(b) : child[c] = "over"}

\* The join j waits for exactly the children left of b.
LeftOf(j, L, b) == {c \in L : c \in Kids(b) /\ c \notin j.completed[b]}
Exact(j, L, b) ==
  j.expected[b] - Cardinality(j.completed[b]) = Cardinality(LeftOf(j, L, b))

Exactly == \A g \in Pending : \A b \in Prereqs(g) : Exact(join[g], Left, b)
Counted == descendants = Cardinality(Left)

\* A join that is not pending was never expected, or waits for nobody.
Gone(j, g, T) ==
  /\ j.registered \in {{}, Prereqs(g)}
  /\ \A b \in Prereqs(g) : Kids(b) \cap T = {}
Forgotten == \A g \in Gates \ Pending : Gone(join[g], g, tracked)

\* No join that waits for nobody is kept, but while branches are being started.
Unsatisfied ==
  /\ active # NoGate => ~Satisfied(join[active], active)
  /\ holder \in {"none", "late"} => \A g \in future : ~Satisfied(join[g], g)

\* The turn to be sent joins nobody who is running.
Clear == parent \in Unsent => \A b \in Prereqs(turn) : Kids(b) \cap tracked = {}

IInv == /\ TypeOK /\ Tracking /\ Course /\ Born /\ Registered /\ Fresh /\ Heard
        /\ Exactly /\ Counted /\ Forgotten /\ Unsatisfied /\ Clear

-------------------------------------------------------------------------------
(***************************************************************************)
(* Sets of children, and the plan.                                         *)
(***************************************************************************)
\* The sizes of sets of children.
LEMMA Sizes ==
  ASSUME NEW S \in SUBSET Children
  PROVE  /\ IsFiniteSet(S) /\ Cardinality(S) \in Nat
         /\ Cardinality(S) = 0 <=> S = {}
         /\ \A T \in SUBSET Children :
              S \cap T = {} => Cardinality(S \cup T) = Cardinality(S) + Cardinality(T)
         /\ \A T \in SUBSET S : /\ Cardinality(S \ T) = Cardinality(S) - Cardinality(T)
                                /\ Cardinality(T) \in Nat /\ Cardinality(T) <= Cardinality(S)
         /\ \A c \in S : Cardinality(S \ {c}) = Cardinality(S) - 1
         /\ \A c \in Children : c \notin S => Cardinality(S \cup {c}) = Cardinality(S) + 1
<1>1. \A T \in SUBSET Children : IsFiniteSet(T) /\ Cardinality(T) \in Nat
  BY ChildrenAssumption, FS_Subset, FS_CardinalityType
<1>2. Cardinality(S) = 0 <=> S = {}
  BY <1>1, FS_EmptySet
<1>3. ASSUME NEW A \in SUBSET Children, NEW T \in SUBSET Children, A \cap T = {}
      PROVE  Cardinality(A \cup T) = Cardinality(A) + Cardinality(T)
  <2>1. Cardinality(A \cup T) = Cardinality(A) + Cardinality(T) - Cardinality(A \cap T)
    BY <1>1, FS_Union
  <2>2. Cardinality(A \cap T) = 0
    BY <1>3, FS_EmptySet
  <2>3. Cardinality(A) \in Nat /\ Cardinality(T) \in Nat
    BY <1>1
  <2> DEFINE a == Cardinality(A) t == Cardinality(T)
  <2>4. Cardinality(A \cup T) = a + t - 0 /\ a \in Nat /\ t \in Nat
    BY <2>1, <2>2, <2>3
  <2> HIDE DEF a, t
  <2>5. Cardinality(A \cup T) = a + t
    BY <2>4
  <2> QED BY <2>5 DEF a, t
<1>4. ASSUME NEW T \in SUBSET S
      PROVE  /\ Cardinality(S \ T) = Cardinality(S) - Cardinality(T)
             /\ Cardinality(T) \in Nat /\ Cardinality(T) <= Cardinality(S)
  <2>1. S = (S \ T) \cup T /\ (S \ T) \cap T = {} /\ S \ T \in SUBSET Children
        /\ T \in SUBSET Children
    OBVIOUS
  <2>2. Cardinality((S \ T) \cup T) = Cardinality(S \ T) + Cardinality(T)
    BY <1>3, <2>1
  <2>3. Cardinality(S \ T) \in Nat /\ Cardinality(T) \in Nat
    BY <1>1, <2>1
  <2>4. Cardinality(S) = Cardinality(S \ T) + Cardinality(T)
    BY <2>1, <2>2
  <2> QED BY <2>3, <2>4
<1>5. \A c \in S : Cardinality(S \ {c}) = Cardinality(S) - 1
  BY <1>1, FS_RemoveElement
<1>6. \A c \in Children : c \notin S => Cardinality(S \cup {c}) = Cardinality(S) + 1
  BY <1>1, FS_AddElement
<1> QED BY <1>1, <1>2, <1>3, <1>4, <1>5, <1>6

\* The plan is one of Plans: each branch has a turn, joins and children of its own.
LEMMA Planned ==
  ASSUME TypeOK
  PROVE  /\ plan.spawn \in [Branches -> 0 .. NumTurns - 1]
         /\ plan.gates \in [Branches -> SUBSET Gates]
         /\ \A b \in Branches : plan.spawn[b] \in Nat
         /\ \A b \in Branches : Kids(b) \in SUBSET Children
         /\ plan.overlap \subseteq Branches
         /\ plan.late \subseteq Children /\ plan.broken \subseteq Children
         /\ \A b \in Branches : \A g \in plan.gates[b] : g > plan.spawn[b]
         /\ \A a, b \in Branches : a = b \/ Kids(a) \cap Kids(b) = {}
         /\ \A b \in Branches : \A c \in Kids(b) : BranchOf(c) = b /\ GatesOf(c) = plan.gates[b]
         /\ \A g : Prereqs(g) = {b \in Branches : g \in plan.gates[b]}
<1>1. plan \in Plans
  BY DEF TypeOK
<1>2. /\ plan.spawn \in [Branches -> 0 .. NumTurns - 1]
      /\ plan.gates \in [Branches -> SUBSET Gates]
      /\ plan.kids \in [Branches -> SUBSET Children]
      /\ plan.overlap \subseteq Branches
      /\ {plan.late, plan.broken, plan.held} \subseteq SUBSET Children
      /\ \A b \in Branches : \A g \in plan.gates[b] : g > plan.spawn[b]
      /\ \A a, b \in Branches : a = b \/ plan.kids[a] \cap plan.kids[b] = {}
  BY <1>1, PlansAssumption
<1>3. \A b \in Branches : Kids(b) \in SUBSET Children
  BY <1>2 DEF Kids
<1>4. \A a, b \in Branches : a = b \/ Kids(a) \cap Kids(b) = {}
  BY <1>2 DEF Kids
<1>5. ASSUME NEW b \in Branches, NEW c \in Kids(b)
      PROVE  BranchOf(c) = b /\ GatesOf(c) = plan.gates[b]
  <2>1. \A a \in Branches : c \in plan.kids[a] <=> a = b
    BY <1>4, <1>5 DEF Kids
  <2>2. BranchOf(c) = b
    BY <2>1 DEF BranchOf
  <2> QED BY <2>2 DEF GatesOf
<1>6. plan.late \subseteq Children /\ plan.broken \subseteq Children
  BY <1>2
<1>7. \A b \in Branches : plan.spawn[b] \in Nat
  <2>1. 0 .. NumTurns - 1 \subseteq Nat
    BY TurnsAssumption
  <2> QED BY <1>2, <2>1
<1> QED BY <1>2, <1>3, <1>4, <1>5, <1>6, <1>7 DEF Prereqs

\* The types, by variable.
LEMMA Kinds ==
  ASSUME TypeOK
  PROVE  /\ turn \in 0 .. Last /\ turn \in Nat /\ Last \in Nat /\ NumTurns \in Nat \ {0}
         /\ Last = NumTurns - 1 /\ Gates = 1 .. Last /\ NoGate \notin Gates /\ Gates \subseteq Nat
         /\ future \in SUBSET Gates /\ active \in Gates \cup {NoGate} /\ Pending \in SUBSET Gates
         /\ tracked \in SUBSET Children /\ finishing \in SUBSET Children
         /\ Left \in SUBSET Children /\ gather \in SUBSET Children
         /\ descendants \in Nat
         /\ \A g \in Gates : /\ join[g] = [expected |-> join[g].expected,
                                           completed |-> join[g].completed,
                                           registered |-> join[g].registered]
                             /\ join[g].expected \in [Branches -> Nat]
                             /\ join[g].completed \in [Branches -> SUBSET Children]
                             /\ join[g].registered \in SUBSET Branches
<1>1. NumTurns \in Nat \ {0} /\ Last = NumTurns - 1 /\ Last \in Nat /\ Gates = 1 .. Last
  BY TurnsAssumption DEF Last, Gates
<1>2. NoGate \notin Gates /\ Gates \subseteq Nat
  BY <1>1 DEF NoGate
<1>3. turn \in 0 .. Last /\ turn \in Nat
  BY <1>1 DEF TypeOK
<1>4. /\ future \in SUBSET Gates /\ active \in Gates \cup {NoGate}
      /\ tracked \in SUBSET Children /\ finishing \in SUBSET Children /\ gather \in SUBSET Children
      /\ descendants \in Nat
  BY DEF TypeOK
<1>5. Pending \in SUBSET Gates /\ Left \in SUBSET Children
  BY <1>4 DEF Pending, Left
<1>6. \A g \in Gates : join[g] \in [expected : [Branches -> Nat],
                                    completed : [Branches -> SUBSET Children],
                                    registered : SUBSET Branches]
  BY DEF TypeOK
<1> QED BY <1>1, <1>2, <1>3, <1>4, <1>5, <1>6

-------------------------------------------------------------------------------
(***************************************************************************)
(* One join.                                                               *)
(***************************************************************************)
\* A join's books.
Kept(j, g) == /\ j.expected \in [Branches -> Nat]
              /\ j.completed \in [Branches -> SUBSET Children]
              /\ j.registered \subseteq Prereqs(g)

\* A satisfied join waits for nobody: it may be forgotten.
LEMMA Satisfying ==
  ASSUME NEW g, NEW j, Kept(j, g), NEW L \in SUBSET Children, NEW T \in SUBSET L,
         \A b \in Prereqs(g) : Exact(j, L, b), Satisfied(j, g),
         \A b \in Branches : j.completed[b] \cap T = {}
  PROVE  Gone(j, g, T)
<1>1. ASSUME NEW b \in Prereqs(g) PROVE b \in j.registered /\ Kids(b) \cap T = {}
  <2>1. b \in Branches /\ IsDone(j, b) /\ Exact(j, L, b)
    BY DEF Prereqs, Satisfied
  <2>2. /\ LeftOf(j, L, b) \in SUBSET Children /\ j.completed[b] \in SUBSET Children
        /\ j.expected[b] \in Nat
    BY <2>1 DEF LeftOf, Kept
  <2>3. /\ Cardinality(LeftOf(j, L, b)) \in Nat /\ Cardinality(j.completed[b]) \in Nat
        /\ Cardinality(LeftOf(j, L, b)) = 0 => LeftOf(j, L, b) = {}
    BY <2>2, Sizes
  <2>4. LeftOf(j, L, b) = {}
    BY <2>1, <2>2, <2>3 DEF Exact, IsDone
  <2> QED BY <2>1, <2>4 DEF LeftOf, IsDone
<1>2. j.registered = Prereqs(g)
  BY <1>1 DEF Kept
<1> QED BY <1>1, <1>2 DEF Gone

\* A join that is not satisfied, and knows of all its branches, waits for a child.
LEMMA Lacking ==
  ASSUME NEW g, NEW j, Kept(j, g), NEW L \in SUBSET Children,
         \A b \in Prereqs(g) : Exact(j, L, b), ~Satisfied(j, g), j.registered = Prereqs(g)
  PROVE  \E b \in Prereqs(g) : LeftOf(j, L, b) # {}
<1>1. PICK b \in Prereqs(g) : ~IsDone(j, b)
  BY DEF Satisfied
<1>2. b \in Branches /\ Exact(j, L, b)
  BY DEF Prereqs
<1>3. /\ LeftOf(j, L, b) \in SUBSET Children /\ j.completed[b] \in SUBSET Children
      /\ j.expected[b] \in Nat
  BY <1>2 DEF LeftOf, Kept
<1>4. /\ Cardinality(LeftOf(j, L, b)) \in Nat /\ Cardinality(j.completed[b]) \in Nat
      /\ LeftOf(j, L, b) = {} => Cardinality(LeftOf(j, L, b)) = 0
  BY <1>3, Sizes
<1>5. LeftOf(j, L, b) # {}
  BY <1>1, <1>2, <1>3, <1>4 DEF Exact, IsDone
<1> QED BY <1>5

\* A child of b reports to a join that waits for it.
LEMMA Reporting ==
  ASSUME TypeOK, NEW g \in Gates, NEW j, Kept(j, g),
         j = [expected |-> j.expected, completed |-> j.completed, registered |-> j.registered],
         NEW L \in SUBSET Children, NEW a \in Branches, NEW c \in Kids(a), c \in L,
         c \notin j.completed[a], g \in GatesOf(c)
  PROVE  /\ Kept(Report(j, g, {c}), g)
         /\ Report(j, g, {c}) = [expected |-> Report(j, g, {c}).expected,
                                 completed |-> Report(j, g, {c}).completed,
                                 registered |-> Report(j, g, {c}).registered]
         /\ Report(j, g, {c}).expected = j.expected
         /\ Report(j, g, {c}).registered = j.registered
         /\ \A b \in Branches : Report(j, g, {c}).completed[b]
                                  = IF b = a THEN j.completed[b] \cup {c} ELSE j.completed[b]
         /\ (\A b \in Prereqs(g) : Exact(j, L, b))
              => \A b \in Prereqs(g) : Exact(Report(j, g, {c}), L \ {c}, b)
<1> DEFINE r == Report(j, g, {c})
           cm == [b \in Branches |-> j.completed[b] \cup {d \in {c} : d \in plan.kids[b]}]
<1>1. \A b \in Branches : c \in Kids(b) <=> b = a
  BY Planned
<1>2. r = [j EXCEPT !.completed = cm]
  BY DEF Report
<1>3. r = [expected |-> j.expected, completed |-> cm, registered |-> j.registered]
  BY <1>2
<1> HIDE DEF r, cm
<1>4. r.expected = j.expected /\ r.completed = cm /\ r.registered = j.registered
  BY <1>3
<1>5. \A b \in Branches : r.completed[b] = IF b = a THEN j.completed[b] \cup {c} ELSE j.completed[b]
  <2> SUFFICES ASSUME NEW b \in Branches
               PROVE  cm[b] = IF b = a THEN j.completed[b] \cup {c} ELSE j.completed[b]
    BY <1>4
  <2>1. cm[b] = j.completed[b] \cup {d \in {c} : d \in plan.kids[b]}
    BY DEF cm
  <2> QED BY <1>1, <2>1 DEF Kids
<1>6. c \in Children
  BY Planned
<1>7. cm \in [Branches -> SUBSET Children]
  BY <1>6 DEF Kept, cm
<1>8. Kept(r, g)
  BY <1>4, <1>7 DEF Kept
<1>9. ASSUME NEW b \in Prereqs(g), Exact(j, L, b) PROVE Exact(r, L \ {c}, b)
  <2>1. b \in Branches
    BY DEF Prereqs
  <2>2. CASE b = a
    <3>1. r.completed[b] = j.completed[b] \cup {c} /\ j.completed[b] \in SUBSET Children
      BY <1>5, <2>1, <2>2 DEF Kept
    <3>2. /\ LeftOf(r, L \ {c}, b) = LeftOf(j, L, b) \ {c} /\ c \in LeftOf(j, L, b)
          /\ LeftOf(j, L, b) \in SUBSET Children
      BY <2>2, <3>1 DEF LeftOf
    <3>3. /\ Cardinality(LeftOf(j, L, b) \ {c}) = Cardinality(LeftOf(j, L, b)) - 1
          /\ Cardinality(LeftOf(j, L, b)) \in Nat
      BY <3>2, Sizes
    <3>4. /\ Cardinality(j.completed[b] \cup {c}) = Cardinality(j.completed[b]) + 1
          /\ Cardinality(j.completed[b]) \in Nat
      BY <1>6, <2>2, <3>1, Sizes
    <3>5. j.expected[b] \in Nat
      BY <2>1 DEF Kept
    <3> DEFINE e == j.expected[b] m == Cardinality(j.completed[b]) l == Cardinality(LeftOf(j, L, b))
    <3>6. e \in Nat /\ m \in Nat /\ l \in Nat /\ e - m = l
      BY <1>9, <3>3, <3>4, <3>5 DEF Exact
    <3> HIDE DEF e, m, l
    <3>7. e - (m + 1) = l - 1
      BY <3>6
    <3> QED BY <1>4, <3>1, <3>2, <3>3, <3>4, <3>7 DEF Exact, e, m, l
  <2>3. CASE b # a
    <3>1. r.completed[b] = j.completed[b] /\ c \notin Kids(b)
      BY <1>1, <1>5, <2>1, <2>3
    <3>2. LeftOf(r, L \ {c}, b) = LeftOf(j, L, b)
      BY <3>1 DEF LeftOf
    <3> QED BY <1>4, <1>9, <3>1, <3>2 DEF Exact
  <2> QED BY <2>2, <2>3
<1> QED BY <1>3, <1>4, <1>5, <1>8, <1>9 DEF r

\* A child that a join does not wait for, or that has reported, makes no difference.
LEMMA NotWaited ==
  ASSUME TypeOK, NEW g \in Gates, NEW j, NEW L, NEW a \in Branches, NEW c \in Kids(a),
         g \notin GatesOf(c) \/ c \in j.completed[a], NEW b \in Prereqs(g), Exact(j, L, b)
  PROVE  Exact(j, L \ {c}, b)
<1>1. b \in Branches /\ g \in plan.gates[b]
  BY DEF Prereqs
<1>2. c \in Kids(b) => a = b /\ GatesOf(c) = plan.gates[b]
  BY <1>1, Planned
<1>3. LeftOf(j, L \ {c}, b) = LeftOf(j, L, b)
  BY <1>1, <1>2 DEF LeftOf
<1> QED BY <1>3 DEF Exact

\* What the invariant says of a join.
LEMMA JoinFacts ==
  ASSUME IInv, NEW g \in Gates
  PROVE  /\ Kept(join[g], g)
         /\ join[g] = [expected |-> join[g].expected, completed |-> join[g].completed,
                       registered |-> join[g].registered]
         /\ join[g].registered = Begun \cap Prereqs(g)
         /\ \A b \in Branches : join[g].completed[b] \cap tracked = {}
         /\ g \in Pending => \A b \in Prereqs(g) : Exact(join[g], Left, b)
         /\ g \notin Pending => Gone(join[g], g, tracked)
<1>1. TypeOK /\ Tracking /\ Registered /\ Heard /\ Exactly /\ Forgotten
  BY DEF IInv
<1>2. /\ join[g] = [expected |-> join[g].expected, completed |-> join[g].completed,
                    registered |-> join[g].registered]
      /\ join[g].expected \in [Branches -> Nat] /\ join[g].completed \in [Branches -> SUBSET Children]
  BY <1>1, Kinds
<1>3. join[g].registered = Begun \cap Prereqs(g)
  BY <1>1 DEF Registered
<1>4. \A b \in Branches : join[g].completed[b] \cap tracked = {}
  BY <1>1 DEF Tracking, Heard
<1> QED BY <1>1, <1>2, <1>3, <1>4 DEF Kept, Exactly, Forgotten

-------------------------------------------------------------------------------
(***************************************************************************)
(* Steps.                                                                  *)
(***************************************************************************)
\* The invariant after a step, in terms of the plan before it: they are the same.
LEMMA Assemble ==
  ASSUME plan' = plan, TypeOK', Tracking', Course',
         \A c \in Children : child'[c] # "none" => \E b \in Begun' : c \in Kids(b),
         \A g \in Gates : join'[g].registered = Begun' \cap Prereqs(g),
         \A g \in Gates, b \in Branches \ Begun' :
           join'[g].expected[b] = 0 /\ join'[g].completed[b] = {},
         \A g \in Gates, b \in Branches :
           join'[g].completed[b] \subseteq {c \in Kids(b) : child'[c] = "over"},
         \A g \in Pending' : \A b \in Prereqs(g) : Exact(join'[g], Left', b),
         descendants' = Cardinality(Left'),
         \A g \in Gates \ Pending' : Gone(join'[g], g, tracked'),
         active' # NoGate => ~Satisfied(join'[active'], active'),
         holder' \in {"none", "late"} => \A g \in future' : ~Satisfied(join'[g], g),
         parent' \in Unsent => \A b \in Prereqs(turn') : Kids(b) \cap tracked' = {}
  PROVE  IInv'
<1>1. Born' /\ Registered' /\ Fresh' /\ Heard'
  BY DEF Born, Registered, Fresh, Heard, Kids, Prereqs
<1>2. Exactly'
  BY DEF Exactly, Exact, LeftOf, Kids, Prereqs
<1>3. Counted' /\ Clear'
  BY DEF Counted, Clear, Kids, Prereqs
<1>4. Forgotten'
  BY DEF Forgotten, Gone, Kids, Prereqs
<1>5. Unsatisfied'
  BY DEF Unsatisfied, Satisfied, IsDone, Prereqs
<1> QED BY <1>1, <1>2, <1>3, <1>4, <1>5 DEF IInv

\* A step that leaves the books, and starts or ends no child, keeps the invariant.
LEMMA Quiet ==
  ASSUME IInv, plan' = plan, UNCHANGED joinVars, turn' = turn, TypeOK', Course', Begun' = Begun,
         \A c \in Children : child'[c] = "none" <=> child[c] = "none",
         \A c \in Children : child'[c] = "over" <=> child[c] = "over",
         holder' \in {"none", "late"} => holder \in {"none", "late"},
         parent' \in Unsent => parent \in Unsent
  PROVE  IInv'
<1>1. /\ future' = future /\ active' = active /\ join' = join /\ tracked' = tracked
      /\ descendants' = descendants /\ finishing' = finishing
  BY DEF joinVars
<1>2. Left' = Left /\ Pending' = Pending
  BY <1>1 DEF Left, Pending
<1>3. /\ TypeOK /\ Tracking /\ Born /\ Registered /\ Fresh /\ Heard /\ Exactly /\ Counted
      /\ Forgotten /\ Unsatisfied /\ Clear
  BY DEF IInv
<1>4. Tracking'
  <2>1. finishing \in SUBSET Children
    BY <1>3, Kinds
  <2> QED BY <1>1, <1>3, <2>1 DEF Tracking
<1>5. \A c \in Children : child'[c] # "none" => \E b \in Begun' : c \in Kids(b)
  BY <1>3 DEF Born
<1>6. \A g \in Gates, b \in Branches :
        join'[g].completed[b] \subseteq {c \in Kids(b) : child'[c] = "over"}
  <2>1. \A b \in Branches : Kids(b) \in SUBSET Children
    BY <1>3, Planned
  <2> QED BY <1>1, <1>3, <2>1 DEF Heard
<1>7. /\ \A g \in Gates : join'[g].registered = Begun' \cap Prereqs(g)
      /\ \A g \in Gates, b \in Branches \ Begun' :
           join'[g].expected[b] = 0 /\ join'[g].completed[b] = {}
  BY <1>1, <1>3 DEF Registered, Fresh
<1>8. /\ \A g \in Pending' : \A b \in Prereqs(g) : Exact(join'[g], Left', b)
      /\ descendants' = Cardinality(Left')
      /\ \A g \in Gates \ Pending' : Gone(join'[g], g, tracked')
  BY <1>1, <1>2, <1>3 DEF Exactly, Counted, Forgotten
<1>9. /\ active' # NoGate => ~Satisfied(join'[active'], active')
      /\ holder' \in {"none", "late"} => \A g \in future' : ~Satisfied(join'[g], g)
      /\ parent' \in Unsent => \A b \in Prereqs(turn') : Kids(b) \cap tracked' = {}
  BY <1>1, <1>3 DEF Unsatisfied, Clear
<1> QED BY <1>4, <1>5, <1>6, <1>7, <1>8, <1>9, Assemble

\* Once a turn's branches are started, those of all turns up to it are.
LEMMA AllBegun ==
  ASSUME TypeOK, ~overlapDue,
         \/ parent \in {"spawning", "suspended", "over"}
         \/ /\ parent = "returned"
            /\ \A b \in Branches \ plan.overlap : plan.spawn[b] # turn
  PROVE  /\ Begun = {b \in Branches : plan.spawn[b] < turn + 1}
         /\ \A b \in Branches : plan.spawn[b] < turn + 1
                                <=> plan.spawn[b] < turn \/ plan.spawn[b] = turn
<1>1. turn \in Nat /\ \A b \in Branches : plan.spawn[b] \in Nat
  BY Kinds, Planned
<1>2. \A b \in Branches : plan.spawn[b] < turn + 1 <=> plan.spawn[b] < turn \/ plan.spawn[b] = turn
  BY <1>1
<1>3. parent \notin Unsent
  BY DEF Unsent
<1> QED BY <1>2, <1>3 DEF Begun

\* A join turn goes out: the parent is at the next turn, and no other branch starts.
LEMMA DispatchMoves ==
  ASSUME IInv, active # NoGate, DispatchJoin(active), active' = NoGate, plan' = plan,
         overlapDue' = overlapDue, holder' \in {holder, "none"}
  PROVE  /\ turn' = turn + 1 /\ turn' \in 0 .. Last /\ turn' = active
         /\ parent' \in {"issuing", "dropped"} /\ parent' \in ParentStates /\ parent' \in Unsent
         /\ holder # "intercept" /\ ~overlapDue
         /\ Begun' = Begun /\ Course' /\ Prereqs(active) \subseteq Begun
<1>1. TypeOK /\ Course
  BY DEF IInv
<1>2. parent = "suspended" /\ active = turn + 1 /\ holder # "intercept" /\ ~overlapDue
  BY <1>1 DEF Course
<1>3. /\ turn \in Nat /\ active \in Gates /\ Gates = 1 .. Last /\ Last \in Nat
      /\ \A b \in Branches : plan.spawn[b] \in Nat
  BY <1>1, Kinds, Planned
<1>4. turn' = active /\ parent' \in {"issuing", "dropped"}
  BY DEF DispatchJoin
<1>5. turn' = turn + 1 /\ turn' \in 0 .. Last
  BY <1>2, <1>3, <1>4
<1>6. parent' \in ParentStates /\ parent' \in Unsent
      /\ parent' \notin {"spawning", "suspended", "over", "wire", "returned"}
  BY <1>4 DEF ParentStates, Unsent
<1>7. Begun = {b \in Branches : plan.spawn[b] < turn + 1}
  BY <1>1, <1>2, AllBegun
<1>8. Begun' = {b \in Branches : plan.spawn[b] < turn + 1}
  <2>1. Begun' = {b \in Branches : plan.spawn[b] < turn'}
    BY <1>6 DEF Begun
  <2> QED BY <1>5, <2>1
<1>9. Course'
  BY <1>2, <1>6 DEF Course
<1>10. Prereqs(active) \subseteq Begun
  <2> SUFFICES ASSUME NEW b \in Prereqs(active) PROVE plan.spawn[b] < turn + 1
    BY <1>7 DEF Prereqs
  <2>1. b \in Branches /\ active > plan.spawn[b]
    BY <1>1, Planned
  <2> QED BY <1>2, <1>3, <2>1
<1> QED BY <1>2, <1>4, <1>5, <1>6, <1>7, <1>8, <1>9, <1>10

\* The types of what the books do not keep.
OtherTypes ==
  /\ {capped, sendingOver, overlapDue} \subseteq BOOLEAN
  /\ child \in [Children -> ChildStates]
  /\ childTurn \in [Children -> 0 .. ChildTurns - 1]
  /\ gather \in SUBSET Children
  /\ holder \in {"none", "issue", "intercept", "late"}

\* A child reports to the joins in marked; a satisfied one is forgotten, and the
\* parent goes on if it was suspended on it.
LEMMA ReportStep ==
  ASSUME IInv, OtherTypes', plan' = plan, UNCHANGED lockVars,
         NEW a \in Branches, NEW c \in Kids(a), c \in Left,
         NEW marked \in SUBSET (GatesOf(c) \cap Pending),
         \A g \in marked : c \notin join[g].completed[a],
         Tracking', tracked' \subseteq tracked, finishing' \subseteq Children,
         \A d \in Children : child'[d] = "none" <=> child[d] = "none",
         \A d \in Children : child[d] = "over" => child'[d] = "over", child'[c] = "over",
         join' = [g \in Gates |-> IF g \in marked THEN Report(join[g], g, {c}) ELSE join[g]],
         future' = {g \in future : g \notin marked \/ ~Satisfied(join'[g], g)},
         Left' \in {Left, Left \ {c}},
         \A g \in marked : Left' = Left \ {c} \/ Satisfied(join'[g], g),
         \A g \in (GatesOf(c) \cap Pending) \ marked : Left' = Left \/ c \in join[g].completed[a],
         descendants' = Cardinality(Left'),
         \/ /\ active' = active /\ UNCHANGED parentVars
            /\ ~(active \in marked /\ Satisfied(join'[active], active))
         \/ /\ active \in marked /\ Satisfied(join'[active], active)
            /\ active' = NoGate /\ DispatchJoin(active)
  PROVE  IInv'
<1>1. /\ TypeOK /\ Tracking /\ Course /\ Born /\ Registered /\ Fresh /\ Heard
      /\ Unsatisfied /\ Clear
  BY DEF IInv
<1>2. /\ future \in SUBSET Gates /\ active \in Gates \cup {NoGate} /\ Pending \in SUBSET Gates
      /\ Left \in SUBSET Children /\ NoGate \notin Gates /\ tracked \in SUBSET Children
      /\ turn \in 0 .. Last /\ c \in Children
      /\ \A b \in Branches : Kids(b) \in SUBSET Children
      /\ \A b \in Branches : c \in Kids(b) => b = a
  BY <1>1, Kinds, Planned
<1>3. holder' = holder /\ gather' = gather /\ overlapDue' = overlapDue
  BY DEF lockVars
<1>4. ASSUME NEW g \in Gates
      PROVE  /\ Kept(join[g], g)
             /\ join[g] = [expected |-> join[g].expected, completed |-> join[g].completed,
                           registered |-> join[g].registered]
             /\ join[g].registered = Begun \cap Prereqs(g)
             /\ g \in Pending => \A b \in Prereqs(g) : Exact(join[g], Left, b)
             /\ g \notin Pending => Gone(join[g], g, tracked)
  BY JoinFacts
<1>5. \A g \in Gates : join'[g] = IF g \in marked THEN Report(join[g], g, {c}) ELSE join[g]
  OBVIOUS
<1>6. ASSUME NEW g \in marked
      PROVE  /\ g \in Gates /\ Kept(join'[g], g)
             /\ join'[g] = [expected |-> join'[g].expected, completed |-> join'[g].completed,
                            registered |-> join'[g].registered]
             /\ join'[g].expected = join[g].expected
             /\ join'[g].registered = join[g].registered
             /\ \A b \in Branches : join'[g].completed[b]
                  = IF b = a THEN join[g].completed[b] \cup {c} ELSE join[g].completed[b]
             /\ \A b \in Prereqs(g) : Exact(join'[g], Left \ {c}, b)
  <2> DEFINE j == join[g]
  <2>1. g \in Gates /\ g \in Pending /\ g \in GatesOf(c) /\ join'[g] = Report(j, g, {c})
    BY <1>2, <1>5
  <2>2. /\ Kept(j, g) /\ c \notin j.completed[a]
        /\ j = [expected |-> j.expected, completed |-> j.completed, registered |-> j.registered]
        /\ \A b \in Prereqs(g) : Exact(j, Left, b)
    BY <1>4, <2>1
  <2> HIDE DEF j
  <2>3. /\ Kept(Report(j, g, {c}), g)
        /\ Report(j, g, {c}) = [expected |-> Report(j, g, {c}).expected,
                                completed |-> Report(j, g, {c}).completed,
                                registered |-> Report(j, g, {c}).registered]
        /\ Report(j, g, {c}).expected = j.expected
        /\ Report(j, g, {c}).registered = j.registered
        /\ \A b \in Branches : Report(j, g, {c}).completed[b]
                                 = IF b = a THEN j.completed[b] \cup {c} ELSE j.completed[b]
        /\ \A b \in Prereqs(g) : Exact(Report(j, g, {c}), Left \ {c}, b)
    <3>1. TypeOK /\ Left \in SUBSET Children /\ g \in GatesOf(c) /\ g \in Gates
      BY <1>1, <1>2, <2>1
    <3>2. c \in Left /\ c \in Kids(a) /\ a \in Branches
      OBVIOUS
    <3>3. Kept(j, g) /\ c \notin j.completed[a]
          /\ j = [expected |-> j.expected, completed |-> j.completed, registered |-> j.registered]
      BY <2>2
    <3>4. /\ Kept(Report(j, g, {c}), g)
          /\ Report(j, g, {c}) = [expected |-> Report(j, g, {c}).expected,
                                  completed |-> Report(j, g, {c}).completed,
                                  registered |-> Report(j, g, {c}).registered]
          /\ Report(j, g, {c}).expected = j.expected
          /\ Report(j, g, {c}).registered = j.registered
          /\ \A b \in Branches : Report(j, g, {c}).completed[b]
                                   = IF b = a THEN j.completed[b] \cup {c} ELSE j.completed[b]
          /\ (\A b \in Prereqs(g) : Exact(j, Left, b))
               => \A b \in Prereqs(g) : Exact(Report(j, g, {c}), Left \ {c}, b)
      BY <3>1, <3>2, <3>3, Reporting
    <3> QED BY <2>2, <3>4
  <2> QED BY <2>1, <2>3 DEF j
<1>7. ASSUME NEW g \in Gates, g \notin marked PROVE join'[g] = join[g]
  BY <1>5, <1>7
<1>8. \A g \in Gates : join'[g].registered = Begun \cap Prereqs(g) /\ Kept(join'[g], g)
  BY <1>4, <1>6, <1>7
<1>9. Begun' = Begun /\ Course' /\ turn' \in 0 .. Last /\ parent' \in ParentStates
  <2>1. CASE active' = active /\ UNCHANGED parentVars
    BY <1>1, <1>3, <2>1 DEF parentVars, Begun, Course, TypeOK
  <2>2. CASE active \in marked /\ active' = NoGate /\ DispatchJoin(active)
    <3>1. active # NoGate
      BY <1>2, <2>2
    <3> QED BY <1>3, <2>2, <3>1, DispatchMoves
  <2> QED BY <2>1, <2>2
<1>10. ASSUME NEW g \in Gates, NEW b \in Branches
       PROVE  join'[g].completed[b] \subseteq {d \in Kids(b) : child'[d] = "over"}
  <2>1. join[g].completed[b] \subseteq {d \in Kids(b) : child'[d] = "over"}
    BY <1>1, <1>2 DEF Heard
  <2>2. CASE g \in marked
    <3>1. join'[g].completed[b] = IF b = a THEN join[g].completed[b] \cup {c} ELSE join[g].completed[b]
      BY <1>6, <2>2
    <3> QED BY <2>1, <3>1
  <2>3. CASE g \notin marked
    <3>1. join'[g] = join[g]
      BY <1>7, <2>3
    <3> QED BY <2>1, <3>1
  <2> QED BY <2>2, <2>3
<1>11. c \notin tracked' /\ tracked' \in SUBSET (Left \ {c})
       /\ \A g \in Gates, b \in Branches : join'[g].completed[b] \cap tracked' = {}
  <2>1. \A d \in tracked' : child'[d] # "over"
    BY DEF Tracking
  <2>2. c \notin tracked' /\ tracked' \in SUBSET (Left \ {c})
    BY <2>1 DEF Left
  <2>3. ASSUME NEW g \in Gates, NEW b \in Branches
        PROVE  join'[g].completed[b] \cap tracked' = {}
    <3>1. join'[g].completed[b] \subseteq {d \in Kids(b) : child'[d] = "over"}
      BY <1>10
    <3> QED BY <2>1, <3>1
  <2> QED BY <2>2, <2>3
<1>12. ASSUME NEW g \in marked, Satisfied(join'[g], g) PROVE Gone(join'[g], g, tracked')
  <2>1. Left \ {c} \in SUBSET Children
    BY <1>2
  <2> DEFINE j == join'[g]
             T == tracked'
  <2>2. /\ Kept(j, g) /\ Satisfied(j, g) /\ T \in SUBSET (Left \ {c})
        /\ \A b \in Prereqs(g) : Exact(j, Left \ {c}, b)
        /\ \A b \in Branches : j.completed[b] \cap T = {}
    BY <1>6, <1>11, <1>12
  <2> HIDE DEF j, T
  <2>3. Gone(j, g, T)
    BY <2>1, <2>2, Satisfying
  <2> QED BY <2>3 DEF j, T
<1>13. /\ Pending' \subseteq Pending
       /\ \A g \in Pending' : g \in marked => ~Satisfied(join'[g], g)
       /\ \A g \in Pending \ Pending' : g \in marked /\ Satisfied(join'[g], g)
  BY <1>2 DEF Pending
<1>14. ASSUME NEW g \in Pending', NEW b \in Prereqs(g) PROVE Exact(join'[g], Left', b)
  <2>1. g \in Gates /\ g \in Pending
    BY <1>2, <1>13
  <2>2. CASE g \in marked
    <3>1. Left' = Left \ {c}
      BY <1>13, <2>2
    <3>2. Exact(join'[g], Left \ {c}, b)
      BY <1>6, <2>2
    <3> QED BY <3>1, <3>2
  <2>3. CASE g \notin marked
    <3> DEFINE j == join[g]
    <3>1. Exact(j, Left, b) /\ join'[g] = j
      BY <1>4, <1>7, <2>1, <2>3
    <3>2. CASE Left' = Left
      BY <3>1, <3>2
    <3>3. CASE Left' # Left
      <4>1. Left' = Left \ {c}
        BY <3>3
      <4>2. g \notin GatesOf(c) \/ c \in j.completed[a]
        BY <2>1, <2>3, <3>3
      <4> HIDE DEF j
      <4>3. Exact(j, Left \ {c}, b)
        BY <1>1, <2>1, <3>1, <4>2, NotWaited
      <4> QED BY <3>1, <4>1, <4>3
    <3> QED BY <3>2, <3>3
  <2> QED BY <2>2, <2>3
<1>15. ASSUME NEW g \in Gates \ Pending' PROVE Gone(join'[g], g, tracked')
  <2>1. CASE g \in Pending
    <3>1. g \in marked /\ Satisfied(join'[g], g)
      BY <1>13, <2>1
    <3> QED BY <1>12, <3>1
  <2>2. CASE g \notin Pending
    <3>1. Gone(join[g], g, tracked) /\ join'[g] = join[g]
      BY <1>4, <1>7, <2>2
    <3> QED BY <3>1 DEF Gone
  <2> QED BY <2>1, <2>2
<1>16. active' # NoGate => ~Satisfied(join'[active'], active')
  <2> SUFFICES ASSUME active' # NoGate PROVE ~Satisfied(join'[active'], active')
    OBVIOUS
  <2>1. active' = active /\ active \in Gates /\ (active \in marked => ~Satisfied(join'[active], active))
    BY <1>2
  <2>2. active \notin marked => join'[active] = join[active]
    BY <1>7, <2>1
  <2>3. ~Satisfied(join[active], active)
    BY <1>1, <2>1 DEF Unsatisfied
  <2> QED BY <2>1, <2>2, <2>3
<1>17. holder' \in {"none", "late"} => \A g \in future' : ~Satisfied(join'[g], g)
  <2> SUFFICES ASSUME holder' \in {"none", "late"}, NEW g \in future'
               PROVE  ~Satisfied(join'[g], g)
    OBVIOUS
  <2>1. g \in future /\ g \in Gates /\ (g \in marked => ~Satisfied(join'[g], g))
    BY <1>2
  <2>2. g \notin marked => join'[g] = join[g]
    BY <1>7, <2>1
  <2>3. ~Satisfied(join[g], g)
    BY <1>1, <1>3, <2>1 DEF Unsatisfied
  <2> QED BY <2>1, <2>2, <2>3
<1>18. ASSUME parent' \in Unsent, NEW b \in Prereqs(turn') PROVE Kids(b) \cap tracked' = {}
  <2>1. CASE active' = active /\ UNCHANGED parentVars
    <3>1. parent' = parent /\ turn' = turn
      BY <2>1 DEF parentVars
    <3> QED BY <1>1, <1>18, <3>1 DEF Clear
  <2>2. CASE active \in marked /\ Satisfied(join'[active], active) /\ DispatchJoin(active)
    <3>1. turn' = active /\ Gone(join'[active], active, tracked')
      BY <1>12, <2>2 DEF DispatchJoin
    <3> QED BY <3>1 DEF Gone
  <2> QED BY <2>1, <2>2
<1>19. TypeOK'
  <2>1. join' \in [Gates -> [expected : [Branches -> Nat], completed : [Branches -> SUBSET Children],
                             registered : SUBSET Branches]]
    <3>1. ASSUME NEW g \in Gates
          PROVE  join'[g] \in [expected : [Branches -> Nat],
                               completed : [Branches -> SUBSET Children],
                               registered : SUBSET Branches]
      <4>1. /\ join'[g] = [expected |-> join'[g].expected, completed |-> join'[g].completed,
                           registered |-> join'[g].registered]
        BY <1>4, <1>6, <1>7
      <4>2. Kept(join'[g], g) /\ Prereqs(g) \subseteq Branches
        BY <1>8 DEF Prereqs
      <4> QED BY <4>1, <4>2 DEF Kept
    <3>2. join' = [g \in Gates |-> join'[g]]
      OBVIOUS
    <3> QED BY <3>1, <3>2
  <2>2. future' \subseteq Gates /\ active' \in Gates \cup {NoGate}
    BY <1>2
  <2>3. Left' \in SUBSET Children /\ tracked' \in SUBSET Children
    BY <1>2
  <2>4. descendants' \in Nat
    <3> DEFINE L == Left'
    <3>1. L \in SUBSET Children /\ descendants' = Cardinality(L)
      BY <2>3
    <3> HIDE DEF L
    <3> QED BY <3>1, Sizes
  <2>5. plan' \in Plans
    BY <1>1 DEF TypeOK
  <2> QED BY <1>9, <2>1, <2>2, <2>3, <2>4, <2>5 DEF TypeOK, OtherTypes
<1>20. \A d \in Children : child'[d] # "none" => \E b \in Begun' : d \in Kids(b)
  BY <1>1, <1>9 DEF Born
<1>21. \A g \in Gates, b \in Branches \ Begun' :
         join'[g].expected[b] = 0 /\ join'[g].completed[b] = {}
  <2> SUFFICES ASSUME NEW g \in Gates, NEW b \in Branches \ Begun
               PROVE  join'[g].expected[b] = 0 /\ join'[g].completed[b] = {}
    BY <1>9
  <2>1. join[g].expected[b] = 0 /\ join[g].completed[b] = {}
    BY <1>1 DEF Fresh
  <2>2. a \in Begun
    <3>1. child[c] # "none"
      BY <1>2
    <3> QED BY <1>1, <1>2, <3>1 DEF Born, Begun
  <2>3. b # a
    BY <2>2
  <2>4. CASE g \in marked
    <3>1. /\ join'[g].expected = join[g].expected
          /\ join'[g].completed[b] = join[g].completed[b]
      BY <1>6, <2>3, <2>4
    <3> QED BY <2>1, <3>1
  <2>5. CASE g \notin marked
    BY <1>7, <2>1, <2>5
  <2> QED BY <2>4, <2>5
<1> QED BY <1>8, <1>9, <1>10, <1>14, <1>15, <1>16, <1>17, <1>18, <1>19, <1>20, <1>21, Assemble

\* A child is done, and reports to the joins that wait for it.
LEMMA ChildDoneStep ==
  ASSUME IInv, NEW c \in Children, child[c] \notin {"none", "over"}, ChildDone(c),
         child' = [child EXCEPT ![c] = "over"], OtherTypes', plan' = plan, UNCHANGED lockVars
  PROVE  IInv'
<1>1. TypeOK /\ Tracking /\ Born /\ Heard /\ Counted
  BY DEF IInv
<1>2. PICK a \in Branches : c \in Kids(a)
  BY <1>1 DEF Born, Begun
<1>3. /\ NoGate \notin Gates /\ GatesOf(c) \in SUBSET Gates /\ future \in SUBSET Gates
      /\ active \in Gates \cup {NoGate} /\ Left \in SUBSET Children
      /\ tracked \in SUBSET Children /\ finishing \in SUBSET Children
      /\ child \in [Children -> ChildStates]
  BY <1>1, <1>2, Kinds, Planned DEF TypeOK
<1>4. c \in tracked /\ c \notin finishing /\ c \in Left
  BY <1>1 DEF Tracking, Left
<1>5. child'[c] = "over" /\ \A d \in Children : d # c => child'[d] = child[d]
  BY <1>3
<1>6. \A g \in Gates : c \notin join[g].completed[a]
  BY <1>1 DEF Heard
<1> DEFINE mine == GatesOf(c) \cap (future \cup {active})
           firing == {g \in mine \cap {active} : Satisfied(Report(join[g], g, {c}), g)}
           marked == IF firing = {} THEN mine ELSE firing
<1>7. mine = GatesOf(c) \cap Pending
  BY <1>3 DEF Pending
<1>8. marked \in SUBSET (GatesOf(c) \cap Pending) /\ marked \in SUBSET Gates
  BY <1>3, <1>7
<1>9. /\ tracked' = tracked \ {c}
      /\ join' = [g \in Gates |-> IF g \in marked THEN Report(join[g], g, {c}) ELSE join[g]]
      /\ future' = {g \in future : g \notin marked \/ ~Satisfied(join'[g], g)}
      /\ IF firing = {}
         THEN /\ descendants' = descendants - 1
              /\ UNCHANGED <<active, finishing, parentVars>>
         ELSE /\ active' = NoGate /\ finishing' = finishing \cup {c}
              /\ DispatchJoin(active) /\ descendants' = descendants
  BY DEF ChildDone
<1>10. \A g \in marked : join'[g] = Report(join[g], g, {c})
  BY <1>8, <1>9
<1>11. Tracking' /\ tracked' \subseteq tracked /\ finishing' \subseteq Children
  <2>1. finishing' \subseteq finishing \cup {c}
    BY <1>9
  <2>2. tracked' = {d \in Children : child'[d] \notin {"none", "over"}}
    BY <1>1, <1>5, <1>9 DEF Tracking
  <2>3. \A d \in finishing' : child'[d] = "over"
    BY <1>1, <1>3, <1>5, <2>1 DEF Tracking
  <2> QED BY <1>3, <1>9, <2>1, <2>2, <2>3 DEF Tracking
<1>12. /\ \A d \in Children : child'[d] = "none" <=> child[d] = "none"
       /\ \A d \in Children : child[d] = "over" => child'[d] = "over"
  BY <1>5
<1> HIDE DEF marked, mine
<1>13. CASE firing = {}
  <2>1. Left' = Left \ {c}
    BY <1>4, <1>9, <1>13 DEF Left
  <2>2. descendants' = Cardinality(Left')
    <3>1. Cardinality(Left \ {c}) = Cardinality(Left) - 1
      BY <1>3, <1>4, Sizes
    <3> QED BY <1>1, <1>9, <1>13, <2>1, <3>1 DEF Counted
  <2>3. active' = active /\ UNCHANGED parentVars
    BY <1>9, <1>13
  <2>4. ~(active \in marked /\ Satisfied(join'[active], active))
    <3> SUFFICES ASSUME active \in marked, Satisfied(join'[active], active) PROVE FALSE
      OBVIOUS
    <3>1. active \in mine /\ Satisfied(Report(join[active], active, {c}), active)
      BY <1>7, <1>8, <1>10
    <3>2. active \in firing
      BY <3>1
    <3> QED BY <1>13, <3>2
  <2>5. (GatesOf(c) \cap Pending) \ marked = {}
    BY <1>7, <1>13 DEF marked
  <2> HIDE DEF firing
  <2>6. \A g \in marked : c \notin join[g].completed[a]
    BY <1>6, <1>8
  <2> QED BY <1>2, <1>4, <1>5, <1>8, <1>9, <1>11, <1>12, <2>1, <2>2, <2>3, <2>4, <2>5, <2>6, ReportStep
<1>14. CASE firing # {}
  <2>1. firing = {active} /\ marked = {active}
        /\ Satisfied(Report(join[active], active, {c}), active)
    BY <1>14 DEF marked
  <2>2. active \in marked /\ Satisfied(join'[active], active)
    BY <1>10, <2>1
  <2>3. active' = NoGate /\ DispatchJoin(active)
    BY <1>9, <1>14
  <2>4. Left' = Left
    BY <1>4, <1>9, <1>14 DEF Left
  <2>5. descendants' = Cardinality(Left')
    BY <1>1, <1>9, <1>14, <2>4 DEF Counted
  <2>6. \A g \in marked : Satisfied(join'[g], g) /\ c \notin join[g].completed[a]
    BY <1>6, <1>8, <2>1, <2>2
  <2> HIDE DEF firing
  <2> QED BY <1>2, <1>4, <1>5, <1>8, <1>9, <1>11, <1>12, <2>2, <2>3, <2>4, <2>5, <2>6, ReportStep
<1> QED BY <1>13, <1>14

\* The rest of a child's report, after the join turn it released went out.
LEMMA FinishDoneStep ==
  ASSUME IInv, NEW c \in Children, FinishDone(c)
  PROVE  IInv'
<1>1. TypeOK /\ Tracking /\ Born /\ Heard /\ Counted
  BY DEF IInv
<1>2. c \in finishing /\ child[c] = "over" /\ c \notin tracked /\ c \in Left
  BY <1>1 DEF FinishDone, Tracking, Left
<1>3. PICK a \in Branches : c \in Kids(a)
  BY <1>1, <1>2 DEF Born, Begun
<1>4. /\ NoGate \notin Gates /\ GatesOf(c) \in SUBSET Gates /\ future \in SUBSET Gates
      /\ active \in Gates \cup {NoGate} /\ Left \in SUBSET Children
      /\ tracked \in SUBSET Children /\ finishing \in SUBSET Children /\ BranchOf(c) = a
  BY <1>1, <1>3, Kinds, Planned
<1> DEFINE marked == {g \in GatesOf(c) \cap (future \cup {active}) :
                        c \notin join[g].completed[BranchOf(c)]}
           firing == {g \in marked \cap {active} : Satisfied(join'[g], g)}
<1>5. /\ plan' = plan /\ child' = child /\ tracked' = tracked /\ finishing' = finishing \ {c}
      /\ UNCHANGED lockVars /\ UNCHANGED stopVars /\ UNCHANGED childVars
      /\ descendants' = descendants - 1
      /\ join' = [g \in Gates |-> IF g \in marked THEN Report(join[g], g, {c}) ELSE join[g]]
      /\ future' = {g \in future : g \notin marked \/ ~Satisfied(join'[g], g)}
      /\ \/ firing = {} /\ UNCHANGED <<active, parentVars>>
         \/ firing # {} /\ active' = NoGate /\ DispatchJoin(active)
  BY DEF FinishDone, childVars
<1>6. /\ marked \in SUBSET (GatesOf(c) \cap Pending)
      /\ \A g \in marked : c \notin join[g].completed[a]
      /\ \A g \in (GatesOf(c) \cap Pending) \ marked : c \in join[g].completed[a]
  BY <1>4 DEF Pending
<1> HIDE DEF marked
<1>7. Left' = Left \ {c}
  BY <1>2, <1>5 DEF Left
<1>8. descendants' = Cardinality(Left')
  <2>1. Cardinality(Left \ {c}) = Cardinality(Left) - 1
    BY <1>2, <1>4, Sizes
  <2> QED BY <1>1, <1>5, <1>7, <2>1 DEF Counted
<1>9. Tracking' /\ tracked' \subseteq tracked /\ finishing' \subseteq Children
  BY <1>1, <1>4, <1>5 DEF Tracking
<1>10. OtherTypes'
  BY <1>1, <1>5 DEF OtherTypes, TypeOK, lockVars, stopVars, childVars
<1>11. \/ /\ active' = active /\ UNCHANGED parentVars
          /\ ~(active \in marked /\ Satisfied(join'[active], active))
       \/ /\ active \in marked /\ Satisfied(join'[active], active)
          /\ active' = NoGate /\ DispatchJoin(active)
  <2>1. CASE firing = {} /\ UNCHANGED <<active, parentVars>>
    <3>1. ~(active \in marked /\ Satisfied(join'[active], active))
      BY <2>1
    <3> QED BY <2>1, <3>1
  <2>2. CASE firing # {} /\ active' = NoGate /\ DispatchJoin(active)
    <3>1. active \in marked /\ Satisfied(join'[active], active)
      BY <2>2
    <3> QED BY <2>2, <3>1
  <2> QED BY <1>5, <2>1, <2>2
<1> HIDE DEF firing
<1>12. /\ \A d \in Children : child'[d] = "none" <=> child[d] = "none"
       /\ \A d \in Children : child[d] = "over" => child'[d] = "over"
       /\ child'[c] = "over"
  BY <1>2, <1>5
<1> QED BY <1>2, <1>3, <1>5, <1>6, <1>7, <1>8, <1>9, <1>10, <1>11, <1>12, ReportStep

\* The branches in bs are started: their children were not, and the joins of a branch
\* that was not pending expected none.
LEMMA SpawnStep ==
  ASSUME IInv, NEW bs \in SUBSET Branches, bs \cap Begun = {}, Begun' = Begun \cup bs,
         Spawn(bs), active = NoGate, plan' = plan, turn' = turn, OtherTypes', Course',
         parent' \in ParentStates \ Unsent, holder' \in {"issue", "intercept"}
  PROVE  IInv'
<1> DEFINE kids(b) == plan.kids[b] \ plan.broken
           started == UNION {kids(b) : b \in bs}
           mine(g) == {b \in bs : g \in plan.gates[b]}
<1>1. /\ TypeOK /\ Tracking /\ Course /\ Born /\ Registered /\ Fresh /\ Heard
      /\ Exactly /\ Counted /\ Forgotten
  BY DEF IInv
<1>2. /\ future \in SUBSET Gates /\ active \in Gates \cup {NoGate} /\ Pending \in SUBSET Gates
      /\ Left \in SUBSET Children /\ NoGate \notin Gates
      /\ tracked \in SUBSET Children /\ finishing \in SUBSET Children
      /\ turn \in 0 .. Last
      /\ child \in [Children -> ChildStates]
      /\ plan.gates \in [Branches -> SUBSET Gates]
      /\ \A b \in Branches : Kids(b) \in SUBSET Children
      /\ \A a, b \in Branches : a = b \/ Kids(a) \cap Kids(b) = {}
  BY <1>1, Kinds, Planned DEF TypeOK
<1>3. \A c : c \in started <=> \E b \in bs : c \in Kids(b) \ plan.broken
  BY DEF Kids
<1>4. /\ active' = active /\ finishing' = finishing /\ childTurn' = childTurn
      /\ future' = future \cup UNION {plan.gates[b] : b \in bs}
      /\ tracked' = tracked \cup started
      /\ descendants' = descendants + Cardinality(started)
      /\ gather' = started \ plan.late
      /\ child' = [c \in Children |-> IF c \in started \cap plan.late THEN "late"
                                      ELSE IF c \in started THEN "dispatching"
                                      ELSE child[c]]
  BY DEF Spawn
<1>5. join' = [g \in Gates |->
        [join[g] EXCEPT
           !.expected = [b \in Branches |-> @[b] + IF b \in mine(g) THEN Cardinality(kids(b)) ELSE 0],
           !.registered = @ \cup mine(g)]]
  BY DEF Spawn
<1>6. started \in SUBSET Children
  BY <1>2, <1>3
<1> HIDE DEF started
<1>7. \A b \in Branches : b \notin Begun =>
        \A c \in Kids(b) : c \in Children /\ child[c] = "none" /\ c \notin Left
  <2> SUFFICES ASSUME NEW b \in Branches, b \notin Begun, NEW c \in Kids(b)
               PROVE  c \in Children /\ child[c] = "none" /\ c \notin Left
    OBVIOUS
  <2>1. c \in Children
    BY <1>2
  <2>2. child[c] = "none"
    <3> SUFFICES ASSUME child[c] # "none" PROVE FALSE
      OBVIOUS
    <3>1. PICK a \in Begun : c \in Kids(a)
      BY <1>1, <2>1 DEF Born
    <3>2. a = b
      BY <1>2, <3>1 DEF Begun
    <3> QED BY <3>1, <3>2
  <2> QED BY <1>1, <2>1, <2>2 DEF Tracking, Left
<1>8. \A c \in started : child[c] = "none" /\ c \notin Left
  BY <1>3, <1>7
<1>9. /\ \A c \in started : child'[c] \in {"late", "dispatching"}
      /\ \A c \in Children \ started : child'[c] = child[c]
  BY <1>4, <1>6
<1>10. Tracking'
  <2>1. tracked' = {c \in Children : child'[c] \notin {"none", "over"}}
    <3> SUFFICES ASSUME NEW c \in Children
                 PROVE  c \in tracked' <=> child'[c] \notin {"none", "over"}
      BY <1>2, <1>4, <1>6
    <3>1. c \in tracked <=> child[c] \notin {"none", "over"}
      BY <1>1 DEF Tracking
    <3> QED BY <1>4, <1>9, <3>1
  <2>2. \A c \in finishing' : child'[c] = "over"
    <3> SUFFICES ASSUME NEW c \in finishing PROVE child'[c] = "over"
      BY <1>4
    <3>1. c \in Children /\ child[c] = "over" /\ c \notin started
      BY <1>1, <1>2, <1>8 DEF Tracking, Left
    <3> QED BY <1>9, <3>1
  <2> QED BY <2>1, <2>2 DEF Tracking
<1>11. Left' = Left \cup started /\ Left \cap started = {}
  BY <1>4, <1>8 DEF Left
<1>12. descendants' = Cardinality(Left')
  <2>1. Cardinality(Left \cup started) = Cardinality(Left) + Cardinality(started)
    BY <1>2, <1>6, <1>11, Sizes
  <2> QED BY <1>1, <1>4, <1>11, <2>1 DEF Counted
<1>13. Pending = future /\ Pending' = future'
  BY <1>4 DEF Pending
<1>14. future' \in SUBSET Gates
  BY <1>2, <1>4
<1>15. ASSUME NEW g \in Gates
       PROVE  /\ join'[g] = [expected |-> join'[g].expected, completed |-> join'[g].completed,
                             registered |-> join'[g].registered]
              /\ join'[g].registered = join[g].registered \cup mine(g)
              /\ join'[g].completed = join[g].completed
              /\ join'[g].expected \in [Branches -> Nat]
              /\ \A b \in bs : g \in plan.gates[b] =>
                   join'[g].expected[b] = join[g].expected[b] + Cardinality(Kids(b) \ plan.broken)
              /\ \A b \in Branches : b \notin bs \/ g \notin plan.gates[b] =>
                   join'[g].expected[b] = join[g].expected[b]
  <2> DEFINE j == join[g]
             e == [b \in Branches |-> j.expected[b] + IF b \in mine(g) THEN Cardinality(kids(b)) ELSE 0]
             r == j.registered \cup mine(g)
  <2>1. join'[g] = [j EXCEPT !.expected = e, !.registered = r]
    BY <1>5
  <2>2. /\ j = [expected |-> j.expected, completed |-> j.completed, registered |-> j.registered]
        /\ j.expected \in [Branches -> Nat]
    BY <1>1, Kinds
  <2>3. \A b \in Branches : Cardinality(Kids(b) \ plan.broken) \in Nat
    <3> SUFFICES ASSUME NEW b \in Branches PROVE Cardinality(Kids(b) \ plan.broken) \in Nat
      OBVIOUS
    <3>1. Kids(b) \ plan.broken \in SUBSET Children
      BY <1>2
    <3> QED BY <3>1, Sizes
  <2>4. \A b \in Branches : e[b] = j.expected[b] + IF b \in mine(g) THEN Cardinality(Kids(b) \ plan.broken) ELSE 0
    BY DEF Kids
  <2>5. \A b \in Branches : b \in mine(g) <=> b \in bs /\ g \in plan.gates[b]
    OBVIOUS
  <2>6. e \in [Branches -> Nat]
    <3> SUFFICES ASSUME NEW b \in Branches
                 PROVE  j.expected[b] + (IF b \in mine(g) THEN Cardinality(kids(b)) ELSE 0) \in Nat
      OBVIOUS
    <3>1. Cardinality(kids(b)) \in Nat
      BY <2>3 DEF Kids
    <3>2. j.expected[b] \in Nat
      BY <2>2
    <3> HIDE DEF j, kids, mine
    <3> QED BY <3>1, <3>2
  <2> HIDE DEF j, e, r
  <2>7. join'[g] = [expected |-> e, completed |-> j.completed, registered |-> r]
    BY <2>1, <2>2
  <2>8. join'[g].expected = e /\ join'[g].completed = j.completed /\ join'[g].registered = r
    BY <2>7
  <2>9. ASSUME NEW b \in Branches, b \notin bs \/ g \notin plan.gates[b]
        PROVE  join'[g].expected[b] = j.expected[b]
    <3>1. j.expected[b] \in Nat /\ b \notin mine(g)
      BY <2>2, <2>9
    <3>2. e[b] = j.expected[b] + 0
      BY <2>4, <3>1
    <3> QED BY <2>8, <3>1, <3>2
  <2>10. ASSUME NEW b \in bs, g \in plan.gates[b]
         PROVE  join'[g].expected[b] = j.expected[b] + Cardinality(Kids(b) \ plan.broken)
    <3>1. b \in mine(g) /\ b \in Branches
      BY <2>10
    <3> QED BY <2>4, <2>8, <3>1
  <2>11. join'[g].registered = join[g].registered \cup mine(g)
    BY <2>8 DEF r, j
  <2>12. join'[g].completed = join[g].completed
    BY <2>8 DEF j
  <2>13. join'[g] = [expected |-> join'[g].expected, completed |-> join'[g].completed,
                     registered |-> join'[g].registered]
    BY <2>7, <2>8
  <2> QED BY <2>6, <2>8, <2>9, <2>10, <2>11, <2>12, <2>13 DEF j
<1>16. TypeOK'
  <2>1. join' \in [Gates -> [expected : [Branches -> Nat], completed : [Branches -> SUBSET Children],
                             registered : SUBSET Branches]]
    <3>1. ASSUME NEW g \in Gates
          PROVE  join'[g] \in [expected : [Branches -> Nat],
                               completed : [Branches -> SUBSET Children],
                               registered : SUBSET Branches]
      <4>1. join[g].completed \in [Branches -> SUBSET Children] /\ join[g].registered \in SUBSET Branches
        BY <1>1, Kinds
      <4>2. mine(g) \in SUBSET Branches
        OBVIOUS
      <4>3. /\ join'[g] = [expected |-> join'[g].expected, completed |-> join'[g].completed,
                           registered |-> join'[g].registered]
            /\ join'[g].expected \in [Branches -> Nat]
        BY <1>15
      <4>4. join'[g].completed \in [Branches -> SUBSET Children] /\ join'[g].registered \in SUBSET Branches
        <5>1. join'[g].registered = join[g].registered \cup mine(g)
              /\ join'[g].completed = join[g].completed
          BY <1>15
        <5> HIDE DEF mine
        <5> QED BY <4>1, <4>2, <5>1
      <4> QED BY <4>3, <4>4
    <3>2. join' = [g \in Gates |-> join'[g]]
      BY <1>5
    <3> QED BY <3>1, <3>2
  <2>2. future' \subseteq Gates /\ active' \in Gates \cup {NoGate}
    BY <1>2, <1>4, <1>14
  <2>3. tracked' \in SUBSET Children /\ finishing' \in SUBSET Children /\ Left' \in SUBSET Children
    BY <1>2, <1>4, <1>6, <1>11
  <2>4. descendants' \in Nat
    <3> DEFINE L == Left'
    <3>1. L \in SUBSET Children /\ descendants' = Cardinality(L)
      BY <1>12, <2>3
    <3> HIDE DEF L
    <3> QED BY <3>1, Sizes
  <2>5. plan' \in Plans /\ turn' \in 0 .. Last /\ parent' \in ParentStates
    BY <1>1 DEF TypeOK
  <2> QED BY <2>1, <2>2, <2>3, <2>4, <2>5 DEF TypeOK, OtherTypes
<1>17. \A c \in Children : child'[c] # "none" => \E b \in Begun' : c \in Kids(b)
  <2> SUFFICES ASSUME NEW c \in Children, child'[c] # "none" PROVE \E b \in Begun' : c \in Kids(b)
    OBVIOUS
  <2>1. CASE c \in started
    BY <1>3, <2>1
  <2>2. CASE c \notin started
    <3>1. child[c] # "none"
      BY <1>9, <2>2
    <3>2. \E b \in Begun : c \in Kids(b)
      BY <1>1, <3>1 DEF Born
    <3> QED BY <3>2
  <2> QED BY <2>1, <2>2
<1>18. \A g \in Gates : join'[g].registered = Begun' \cap Prereqs(g)
  <2> SUFFICES ASSUME NEW g \in Gates PROVE join'[g].registered = Begun' \cap Prereqs(g)
    OBVIOUS
  <2>1. join[g].registered = Begun \cap Prereqs(g) /\ join'[g].registered = join[g].registered \cup mine(g)
    BY <1>1, <1>15 DEF Registered
  <2>2. mine(g) = bs \cap Prereqs(g)
    BY DEF Prereqs
  <2> QED BY <2>1, <2>2
<1>19. \A g \in Gates, b \in Branches \ Begun' :
         join'[g].expected[b] = 0 /\ join'[g].completed[b] = {}
  <2> SUFFICES ASSUME NEW g \in Gates, NEW b \in Branches, b \notin Begun, b \notin bs
               PROVE  join'[g].expected[b] = 0 /\ join'[g].completed[b] = {}
    OBVIOUS
  <2>1. join[g].expected[b] = 0 /\ join[g].completed[b] = {}
    BY <1>1 DEF Fresh
  <2> QED BY <1>15, <2>1
<1>20. \A g \in Gates, b \in Branches :
         join'[g].completed[b] \subseteq {c \in Kids(b) : child'[c] = "over"}
  <2> SUFFICES ASSUME NEW g \in Gates, NEW b \in Branches, NEW c \in join[g].completed[b]
               PROVE  c \in Kids(b) /\ child'[c] = "over"
    <3>1. \A g \in Gates : join'[g].completed = join[g].completed
      BY <1>15
    <3> QED BY <3>1
  <2>1. c \in Kids(b) /\ c \in Children /\ child[c] = "over"
    BY <1>1, <1>2 DEF Heard
  <2>2. c \notin started
    BY <1>8, <2>1
  <2> QED BY <1>9, <2>1, <2>2
<1>21. ASSUME NEW g \in Pending', NEW b \in Prereqs(g) PROVE g \in Pending \/ b \notin Begun
  <2> SUFFICES ASSUME g \notin Pending PROVE b \notin Begun
    OBVIOUS
  <2>1. g \in Gates /\ \E a \in bs : g \in plan.gates[a]
    BY <1>4, <1>13, <1>14
  <2>2. PICK a \in bs : g \in plan.gates[a]
    BY <2>1
  <2>3. a \in Prereqs(g) /\ a \notin Begun
    BY <2>2 DEF Prereqs
  <2>4. join[g].registered = Begun \cap Prereqs(g) /\ join[g].registered \in {{}, Prereqs(g)}
    BY <1>1, <2>1 DEF Registered, Forgotten, Gone
  <2> QED BY <2>3, <2>4
<1>22. ASSUME NEW g \in Pending', NEW b \in Prereqs(g) PROVE Exact(join'[g], Left', b)
  <2>1. g \in Gates /\ b \in Branches /\ g \in plan.gates[b]
    BY <1>13, <1>14 DEF Prereqs
  <2>2. join'[g].completed[b] = join[g].completed[b]
    BY <1>15, <2>1
  <2>3. CASE b \in bs
    <3>1. b \notin Begun
      BY <2>3
    <3>2. join[g].expected[b] = 0 /\ join[g].completed[b] = {}
      BY <1>1, <2>1, <3>1 DEF Fresh
    <3>3. join'[g].expected[b] = 0 + Cardinality(Kids(b) \ plan.broken)
      BY <1>15, <2>1, <2>3, <3>2
    <3>4. LeftOf(join'[g], Left', b) = Kids(b) \ plan.broken
      <4>1. \A c \in started : c \in Kids(b) => c \notin plan.broken
        BY <1>3
      <4>2. \A c \in Kids(b) : c \notin Left
        BY <1>7, <2>1, <3>1
      <4>3. \A c \in Kids(b) : c \notin plan.broken => c \in started
        BY <1>3, <2>3
      <4> QED BY <1>11, <2>2, <3>2, <4>1, <4>2, <4>3 DEF LeftOf
    <3>5. Cardinality(Kids(b) \ plan.broken) \in Nat /\ Cardinality({}) = 0
      <4>1. Kids(b) \ plan.broken \in SUBSET Children
        BY <1>2, <2>1
      <4> QED BY <4>1, Sizes, FS_EmptySet
    <3> DEFINE n == Cardinality(Kids(b) \ plan.broken)
    <3>6. n \in Nat /\ join'[g].expected[b] = 0 + n /\ Cardinality(LeftOf(join'[g], Left', b)) = n
          /\ Cardinality(join'[g].completed[b]) = 0
      BY <2>2, <3>2, <3>3, <3>4, <3>5
    <3> HIDE DEF n
    <3>7. join'[g].expected[b] - Cardinality(join'[g].completed[b]) = n
      BY <3>6
    <3> QED BY <3>6, <3>7 DEF Exact
  <2>4. CASE b \notin bs
    <3>1. join'[g].expected[b] = join[g].expected[b]
      BY <1>15, <2>1, <2>4
    <3>2. LeftOf(join'[g], Left', b) = LeftOf(join[g], Left, b)
      <4>1. \A c \in started : c \notin Kids(b)
        BY <1>2, <1>3, <2>1, <2>4
      <4> QED BY <1>11, <2>2, <4>1 DEF LeftOf
    <3>3. Exact(join[g], Left, b)
      <4>1. CASE g \in Pending
        BY <1>1, <4>1 DEF Exactly
      <4>2. CASE b \notin Begun
        <5>1. join[g].expected[b] = 0 /\ join[g].completed[b] = {}
          BY <1>1, <2>1, <4>2 DEF Fresh
        <5>2. LeftOf(join[g], Left, b) = {}
          BY <1>7, <2>1, <4>2 DEF LeftOf
        <5>3. Cardinality({}) = 0
          BY FS_EmptySet
        <5> QED BY <5>1, <5>2, <5>3 DEF Exact
      <4> QED BY <1>21, <4>1, <4>2
    <3> QED BY <2>2, <3>1, <3>2, <3>3 DEF Exact
  <2> QED BY <2>3, <2>4
<1>23. ASSUME NEW g \in Gates \ Pending' PROVE Gone(join'[g], g, tracked')
  <2>1. g \notin Pending
    BY <1>4, <1>13
  <2>2. \A b \in bs : g \notin plan.gates[b]
    BY <1>4, <1>13
  <2>3. Gone(join[g], g, tracked)
    BY <1>1, <2>1 DEF Forgotten
  <2>4. join'[g].registered = join[g].registered
    <3>1. mine(g) = {}
      BY <2>2
    <3>2. join'[g].registered = join[g].registered \cup mine(g)
      BY <1>15
    <3> QED BY <3>1, <3>2
  <2>5. \A b \in Prereqs(g) : Kids(b) \cap started = {}
    <3> SUFFICES ASSUME NEW b \in Prereqs(g), NEW c \in Kids(b), c \in started PROVE FALSE
      OBVIOUS
    <3>1. b \in Branches /\ b \notin bs
      BY <2>2 DEF Prereqs
    <3> QED BY <1>2, <1>3, <3>1
  <2> QED BY <1>4, <2>3, <2>4, <2>5 DEF Gone
<1>24. active' = NoGate /\ holder' \notin {"none", "late"} /\ parent' \notin Unsent
  BY <1>4
<1> HIDE DEF mine
<1> QED BY <1>10, <1>12, <1>16, <1>17, <1>18, <1>19, <1>20, <1>22, <1>23, <1>24, Assemble

\* What a start leaves of the other types.
LEMMA SpawnTypes ==
  ASSUME TypeOK, NEW bs \in SUBSET Branches, Spawn(bs), UNCHANGED stopVars,
         overlapDue' \in BOOLEAN, holder' \in {"issue", "intercept"}
  PROVE  OtherTypes'
<1> DEFINE started == UNION {plan.kids[b] \ plan.broken : b \in bs}
<1>1. /\ gather' = started \ plan.late /\ childTurn' = childTurn
      /\ child' = [c \in Children |-> IF c \in started \cap plan.late THEN "late"
                                      ELSE IF c \in started THEN "dispatching"
                                      ELSE child[c]]
  BY DEF Spawn
<1>2. \A b \in Branches : Kids(b) \in SUBSET Children
  BY Planned
<1>3. started \in SUBSET Children
  <2> SUFFICES ASSUME NEW b \in bs PROVE plan.kids[b] \subseteq Children
    OBVIOUS
  <2> QED BY <1>2 DEF Kids
<1> HIDE DEF started
<1>4. gather' \in SUBSET Children
  BY <1>1, <1>3
<1>5. child' \in [Children -> ChildStates]
  BY <1>1 DEF TypeOK, ChildStates
<1> QED BY <1>1, <1>4, <1>5 DEF OtherTypes, TypeOK, stopVars

\* The branches that overlap a turn are started once it goes out.
LEMMA SpawnOverlappingStep ==
  ASSUME IInv, SpawnOverlapping
  PROVE  IInv'
<1> DEFINE bs == {b \in plan.overlap : plan.spawn[b] = turn}
<1>1. TypeOK /\ Course
  BY DEF IInv
<1>2. /\ overlapDue /\ holder = "none" /\ holder' = "issue" /\ overlapDue' = FALSE
      /\ Spawn(bs) /\ plan' = plan /\ UNCHANGED stopVars /\ turn' = turn /\ parent' = parent
  BY DEF SpawnOverlapping, parentVars
<1>3. parent \in {"wire", "returned"} /\ active = NoGate
  BY <1>1, <1>2 DEF Course
<1>4. bs \in SUBSET Branches /\ \A b \in Branches : plan.spawn[b] \in Nat
  BY <1>1, Planned
<1>5. parent \notin Unsent /\ parent \in ParentStates \ Unsent
      /\ parent \notin {"spawning", "suspended", "over"}
  BY <1>3 DEF Unsent, ParentStates
<1>6. turn \in Nat
  BY <1>1, Kinds
<1>7. bs \cap Begun = {}
  <2>1. \A b \in bs : b \in plan.overlap /\ plan.spawn[b] = turn
    OBVIOUS
  <2>2. ~(turn < turn)
    BY <1>6
  <2> QED BY <1>2, <2>1, <2>2 DEF Begun
<1>8. Begun' = Begun \cup bs
  <2> SUFFICES ASSUME NEW b \in Branches PROVE b \in Begun' <=> b \in Begun \/ b \in bs
    BY <1>4 DEF Begun
  <2>1. b \in Begun <=> plan.spawn[b] < turn
    BY <1>2, <1>5 DEF Begun
  <2>2. b \in Begun' <=> plan.spawn[b] < turn \/ (plan.spawn[b] = turn /\ b \in plan.overlap)
    BY <1>2, <1>5 DEF Begun
  <2> QED BY <2>1, <2>2
<1> HIDE DEF bs
<1>9. OtherTypes'
  BY <1>1, <1>2, <1>4, SpawnTypes
<1>10. Course'
  <2>1. active' = active
    BY <1>2 DEF Spawn
  <2> QED BY <1>1, <1>2, <1>3, <2>1 DEF Course
<1> QED BY <1>2, <1>3, <1>4, <1>5, <1>7, <1>8, <1>9, <1>10, SpawnStep

\* A returned turn's own branches are started.
LEMMA InterceptSpawnStep ==
  ASSUME IInv, parent = "returned", ~overlapDue, parent' = "spawning", holder' = "intercept",
         Spawn({b \in Branches \ plan.overlap : plan.spawn[b] = turn}),
         turn' = turn, overlapDue' = overlapDue, plan' = plan, UNCHANGED stopVars
  PROVE  IInv'
<1> DEFINE bs == {b \in Branches \ plan.overlap : plan.spawn[b] = turn}
<1>1. TypeOK /\ Course
  BY DEF IInv
<1>2. active = NoGate
  BY <1>1 DEF Course
<1>3. bs \in SUBSET Branches /\ turn \in Nat /\ \A b \in Branches : plan.spawn[b] \in Nat
  BY <1>1, Kinds, Planned
<1>4. parent' \in ParentStates \ Unsent /\ parent \notin Unsent
  BY DEF ParentStates, Unsent
<1>5. /\ \A b \in Branches : b \in Begun <=>
           plan.spawn[b] < turn \/ (plan.spawn[b] = turn /\ b \in plan.overlap)
      /\ \A b \in Branches : b \in Begun' <=> plan.spawn[b] < turn \/ plan.spawn[b] = turn
  BY <1>4 DEF Begun
<1>6. bs \cap Begun = {}
  <2>1. \A b \in bs : b \notin plan.overlap /\ ~(plan.spawn[b] < turn)
    BY <1>3
  <2> QED BY <1>5, <2>1
<1>7. Begun' = Begun \cup bs
  <2> SUFFICES ASSUME NEW b \in Branches PROVE b \in Begun' <=> b \in Begun \/ b \in bs
    BY DEF Begun
  <2> QED BY <1>5
<1> HIDE DEF bs
<1>8. Spawn(bs)
  BY DEF bs
<1>9. OtherTypes'
  <2>1. overlapDue' \in BOOLEAN
    BY <1>1 DEF TypeOK
  <2> QED BY <1>1, <1>3, <1>8, <2>1, SpawnTypes
<1>10. Course'
  <2>1. active' = active
    BY <1>8 DEF Spawn
  <2> QED BY <1>2, <2>1 DEF Course
<1> QED BY <1>2, <1>3, <1>4, <1>6, <1>7, <1>8, <1>9, <1>10, SpawnStep

\* The look-ahead to the next turn: F are the joins that are pending.  The parent
\* waits if the next turn's is one of them, else it goes on.
LEMMA LookAheadStep ==
  ASSUME IInv, plan' = plan, active = NoGate, ~overlapDue, overlapDue' = overlapDue,
         \/ parent = "spawning"
         \/ /\ parent = "returned"
            /\ \A b \in Branches \ plan.overlap : plan.spawn[b] # turn,
         OtherTypes', Tracking', holder' = "none",
         join' \in [Gates -> [expected : [Branches -> Nat], completed : [Branches -> SUBSET Children],
                              registered : SUBSET Branches]],
         tracked' \subseteq Children, finishing' \subseteq Children, Left' \in SUBSET Children,
         descendants' = Cardinality(Left'),
         \A c \in Children : child'[c] # "none" => \E b \in Begun : c \in Kids(b),
         \A g \in Gates : join'[g].registered = Begun \cap Prereqs(g),
         \A g \in Gates, b \in Branches \ Begun :
           join'[g].expected[b] = 0 /\ join'[g].completed[b] = {},
         \A g \in Gates, b \in Branches :
           join'[g].completed[b] \subseteq {c \in Kids(b) : child'[c] = "over"},
         NEW F \in SUBSET Gates,
         \A g \in F : \A b \in Prereqs(g) : Exact(join'[g], Left', b),
         \A g \in Gates \ F : Gone(join'[g], g, tracked'),
         \A g \in F : ~Satisfied(join'[g], g),
         \/ /\ turn + 1 \in F /\ active' = turn + 1 /\ future' = F \ {turn + 1}
            /\ parent' = "suspended" /\ turn' = turn
         \/ /\ turn + 1 \notin F /\ active' = active /\ future' = F /\ Continue
  PROVE  IInv'
<1>1. TypeOK
  BY DEF IInv
<1>2. /\ turn \in 0 .. Last /\ turn \in Nat /\ Last \in Nat /\ Gates = 1 .. Last /\ NoGate \notin Gates
      /\ \A b \in Branches : plan.spawn[b] \in Nat
  BY <1>1, Kinds, Planned
<1>3. /\ Begun = {b \in Branches : plan.spawn[b] < turn + 1}
      /\ \A b \in Branches : plan.spawn[b] < turn + 1
                             <=> plan.spawn[b] < turn \/ plan.spawn[b] = turn
  BY <1>1, AllBegun
<1>4. descendants' \in Nat
  <2> DEFINE L == Left'
  <2>1. L \in SUBSET Children /\ descendants' = Cardinality(L)
    OBVIOUS
  <2> HIDE DEF L
  <2> QED BY <2>1, Sizes
<1>5. plan' \in Plans
  BY <1>1 DEF TypeOK
<1>6. CASE /\ turn + 1 \in F /\ active' = turn + 1 /\ future' = F \ {turn + 1}
           /\ parent' = "suspended" /\ turn' = turn
  <2>1. parent' \notin Unsent /\ parent' \in ParentStates
    BY <1>6 DEF Unsent, ParentStates
  <2>2. overlapDue' = FALSE
    BY <1>1 DEF TypeOK
  <2>3. Begun' = Begun
    <3>1. Begun' = {b \in Branches : plan.spawn[b] < turn \/ plan.spawn[b] = turn}
      BY <1>6, <2>1, <2>2 DEF Begun
    <3> QED BY <1>3, <3>1
  <2>4. turn + 1 \in Gates /\ turn + 1 # NoGate
    BY <1>2, <1>6
  <2>5. Course'
    BY <1>6, <2>2, <2>4 DEF Course
  <2>6. Pending' = F
    BY <1>6, <2>4 DEF Pending
  <2>7. TypeOK'
    BY <1>2, <1>4, <1>5, <1>6, <2>1, <2>4 DEF TypeOK, OtherTypes
  <2>8. active' # NoGate => ~Satisfied(join'[active'], active')
    <3>1. ~Satisfied(join'[turn + 1], turn + 1)
      BY <1>6
    <3> QED BY <1>6, <3>1
  <2>9. \A g \in future' : ~Satisfied(join'[g], g)
    BY <1>6
  <2> QED BY <2>1, <2>3, <2>5, <2>6, <2>7, <2>8, <2>9, Assemble
<1>7. CASE turn + 1 \notin F /\ active' = active /\ future' = F /\ Continue
  <2>1. Pending' = F
    BY <1>7 DEF Pending
  <2>2. overlapDue' = FALSE
    BY <1>1 DEF TypeOK
  <2>3. CASE turn = Last /\ parent' = "over" /\ turn' = turn
    <3>1. parent' \notin Unsent /\ parent' \in ParentStates
      BY <2>3 DEF Unsent, ParentStates
    <3>2. Begun' = Begun
      <4>1. Begun' = {b \in Branches : plan.spawn[b] < turn \/ plan.spawn[b] = turn}
        BY <2>2, <2>3, <3>1 DEF Begun
      <4> QED BY <1>3, <4>1
    <3>3. Course'
      BY <1>7, <2>2, <2>3 DEF Course
    <3>4. TypeOK'
      BY <1>2, <1>4, <1>5, <1>7, <2>3, <3>1 DEF TypeOK, OtherTypes
    <3>5. active' = NoGate /\ \A g \in future' : ~Satisfied(join'[g], g)
      BY <1>7
    <3> QED BY <2>1, <3>1, <3>2, <3>3, <3>4, <3>5, Assemble
  <2>4. CASE turn # Last /\ turn' = turn + 1 /\ parent' \in {"due", "issuing", "dropped"}
    <3>1. parent' \in Unsent /\ parent' \in ParentStates
          /\ parent' \notin {"spawning", "suspended", "over"}
      BY <2>4 DEF Unsent, ParentStates
    <3>2. turn' \in Gates /\ turn' \in 0 .. Last /\ turn' \notin F
      BY <1>2, <1>7, <2>4
    <3>3. Begun' = Begun
      <4>1. Begun' = {b \in Branches : plan.spawn[b] < turn'}
        BY <3>1 DEF Begun
      <4> QED BY <1>3, <2>4, <4>1
    <3>4. Course'
      BY <1>7, <2>2, <3>1 DEF Course
    <3>5. TypeOK'
      BY <1>2, <1>4, <1>5, <1>7, <3>1, <3>2 DEF TypeOK, OtherTypes
    <3>6. active' = NoGate /\ \A g \in future' : ~Satisfied(join'[g], g)
      BY <1>7
    <3>7. \A b \in Prereqs(turn') : Kids(b) \cap tracked' = {}
      <4>1. Gone(join'[turn'], turn', tracked')
        BY <3>2
      <4> QED BY <4>1 DEF Gone
    <3> QED BY <2>1, <3>3, <3>4, <3>5, <3>6, <3>7, Assemble
  <2>5. Continue => \/ turn = Last /\ parent' = "over" /\ turn' = turn
                    \/ turn # Last /\ turn' = turn + 1 /\ parent' \in {"due", "issuing", "dropped"}
    BY DEF Continue
  <2> QED BY <1>7, <2>3, <2>4, <2>5
<1> QED BY <1>6, <1>7

\* A returned turn is looked at, under the lock.
LEMMA InterceptStep ==
  ASSUME IInv, Intercept
  PROVE  IInv'
<1> DEFINE bs == {b \in Branches \ plan.overlap : plan.spawn[b] = turn}
<1>1. parent = "returned" /\ holder = "none" /\ ~overlapDue /\ plan' = plan /\ UNCHANGED stopVars
  BY DEF Intercept
<1>2. CASE /\ bs # {} /\ parent' = "spawning" /\ holder' = "intercept" /\ Spawn(bs)
           /\ UNCHANGED <<turn, overlapDue>>
  <2>1. turn' = turn /\ overlapDue' = overlapDue
    BY <1>2
  <2> QED BY <1>1, <1>2, <2>1, InterceptSpawnStep
<1>3. CASE /\ bs = {} /\ MaybeSuspend(future, join)
           /\ UNCHANGED <<childVars, join, tracked, descendants, finishing, lockVars>>
  <2>1. /\ TypeOK /\ Tracking /\ Course /\ Born /\ Registered /\ Fresh /\ Heard
        /\ Exactly /\ Counted /\ Forgotten /\ Unsatisfied
    BY DEF IInv
  <2>2. /\ child' = child /\ childTurn' = childTurn /\ join' = join /\ tracked' = tracked
        /\ descendants' = descendants /\ finishing' = finishing
        /\ holder' = "none" /\ gather' = gather /\ overlapDue' = overlapDue
    BY <1>1, <1>3 DEF childVars, lockVars
  <2>3. active = NoGate /\ Pending = future /\ Left' = Left
    BY <1>1, <2>1, <2>2 DEF Course, Pending, Left
  <2>4. \A b \in Branches \ plan.overlap : plan.spawn[b] # turn
    BY <1>3
  <2>5. OtherTypes'
    BY <1>1, <2>1, <2>2 DEF OtherTypes, TypeOK, stopVars
  <2>6. Tracking'
    <3>1. \A c \in Children : child'[c] = child[c]
      BY <2>2
    <3> QED BY <2>1, <2>2 DEF Tracking
  <2>7. /\ join' \in [Gates -> [expected : [Branches -> Nat], completed : [Branches -> SUBSET Children],
                              registered : SUBSET Branches]]
        /\ tracked' \subseteq Children /\ finishing' \subseteq Children /\ Left' \in SUBSET Children
        /\ future \in SUBSET Gates
        /\ descendants' = Cardinality(Left')
    BY <2>1, <2>2, <2>3, Kinds DEF TypeOK, Counted
  <2>8. /\ \A c \in Children : child'[c] # "none" => \E b \in Begun : c \in Kids(b)
        /\ \A g \in Gates : join'[g].registered = Begun \cap Prereqs(g)
        /\ \A g \in Gates, b \in Branches \ Begun :
             join'[g].expected[b] = 0 /\ join'[g].completed[b] = {}
        /\ \A g \in Gates, b \in Branches :
             join'[g].completed[b] \subseteq {c \in Kids(b) : child'[c] = "over"}
    BY <2>1, <2>2 DEF Born, Registered, Fresh, Heard
  <2>9. /\ \A g \in future : \A b \in Prereqs(g) : Exact(join'[g], Left', b)
        /\ \A g \in Gates \ future : Gone(join'[g], g, tracked')
        /\ \A g \in future : ~Satisfied(join'[g], g)
    BY <1>1, <2>1, <2>2, <2>3 DEF Exactly, Forgotten, Unsatisfied
  <2>10. \/ /\ turn + 1 \in future /\ active' = turn + 1 /\ future' = future \ {turn + 1}
            /\ parent' = "suspended" /\ turn' = turn
         \/ /\ turn + 1 \notin future /\ active' = active /\ future' = future /\ Continue
    <3>1. \A g \in future : ~Satisfied(join[g], g)
      BY <2>2, <2>9
    <3>2. \/ /\ turn + 1 \in future /\ active' = turn + 1 /\ future' = future \ {turn + 1}
             /\ parent' = "suspended" /\ turn' = turn
          \/ /\ turn + 1 \notin future /\ active' = active /\ future' = future \ {turn + 1}
             /\ Continue
      BY <1>3, <3>1 DEF MaybeSuspend
    <3> QED BY <3>2
  <2> QED BY <1>1, <2>2, <2>3, <2>4, <2>5, <2>6, <2>7, <2>8, <2>9, <2>10, LookAheadStep
<1> QED BY <1>2, <1>3 DEF Intercept

\* The children in cs are rolled back: each join that counted them waits for exactly
\* the others, and the heard ones are never more than the expected ones.
LEMMA RollingBack ==
  ASSUME TypeOK, NEW g \in Gates, NEW L \in SUBSET Children, NEW cs \in SUBSET L,
         Kept(join[g], g),
         join[g] = [expected |-> join[g].expected, completed |-> join[g].completed,
                    registered |-> join[g].registered],
         \A b \in Branches : join[g].completed[b] \cap cs = {}
  PROVE  /\ RollBack(cs)[g] = [expected |-> RollBack(cs)[g].expected,
                               completed |-> RollBack(cs)[g].completed,
                               registered |-> RollBack(cs)[g].registered]
         /\ Kept(RollBack(cs)[g], g)
         /\ RollBack(cs)[g].completed = join[g].completed
         /\ RollBack(cs)[g].registered = join[g].registered
         /\ \A b \in Branches : cs \cap Kids(b) = {} => RollBack(cs)[g].expected[b] = join[g].expected[b]
         /\ \A b \in Prereqs(g) : Exact(join[g], L, b) => Exact(RollBack(cs)[g], L \ cs, b)
<1> DEFINE j == join[g]
           r == RollBack(cs)[g]
           lost(b) == IF g \in plan.gates[b] THEN Cardinality(cs \cap plan.kids[b]) ELSE 0
           heard(b) == Cardinality(join[g].completed[b])
           e == [b \in Branches |-> IF lost(b) = 0 THEN j.expected[b]
                                    ELSE IF j.expected[b] - lost(b) > heard(b)
                                         THEN j.expected[b] - lost(b) ELSE heard(b)]
<1>1. r = [j EXCEPT !.expected = e]
  BY DEF RollBack
<1>2. j.expected \in [Branches -> Nat] /\ j.completed \in [Branches -> SUBSET Children]
      /\ \A b \in Branches : Kids(b) \in SUBSET Children
  BY Planned DEF Kept
<1>3. \A b \in Branches : lost(b) \in Nat /\ heard(b) \in Nat /\ j.expected[b] \in Nat
      /\ (lost(b) = 0 \/ lost(b) = Cardinality(cs \cap Kids(b)))
      /\ (g \in plan.gates[b] => lost(b) = Cardinality(cs \cap Kids(b)))
      /\ (cs \cap Kids(b) = {} => lost(b) = 0)
  <2> SUFFICES ASSUME NEW b \in Branches
               PROVE  /\ lost(b) \in Nat /\ heard(b) \in Nat /\ j.expected[b] \in Nat
                      /\ (lost(b) = 0 \/ lost(b) = Cardinality(cs \cap Kids(b)))
                      /\ (g \in plan.gates[b] => lost(b) = Cardinality(cs \cap Kids(b)))
                      /\ (cs \cap Kids(b) = {} => lost(b) = 0)
    OBVIOUS
  <2>1. cs \cap Kids(b) \in SUBSET Children /\ join[g].completed[b] \in SUBSET Children
    BY <1>2
  <2>2. Cardinality(cs \cap Kids(b)) \in Nat /\ heard(b) \in Nat
        /\ (cs \cap Kids(b) = {} => Cardinality(cs \cap Kids(b)) = 0)
    BY <2>1, Sizes
  <2> QED BY <1>2, <2>2 DEF Kids
<1> HIDE DEF lost, heard
<1>4. /\ e \in [Branches -> Nat]
      /\ \A b \in Branches : e[b] = IF lost(b) = 0 THEN j.expected[b]
                                    ELSE IF j.expected[b] - lost(b) > heard(b)
                                         THEN j.expected[b] - lost(b) ELSE heard(b)
  <2> SUFFICES ASSUME NEW b \in Branches
               PROVE  (IF lost(b) = 0 THEN j.expected[b]
                       ELSE IF j.expected[b] - lost(b) > heard(b)
                            THEN j.expected[b] - lost(b) ELSE heard(b)) \in Nat
    OBVIOUS
  <2>1. lost(b) \in Nat /\ heard(b) \in Nat /\ j.expected[b] \in Nat
    BY <1>3
  <2> HIDE DEF j
  <2> QED BY <2>1
<1> HIDE DEF j, r, e
<1>5. r = [expected |-> e, completed |-> j.completed, registered |-> j.registered]
  <2>1. j = [expected |-> j.expected, completed |-> j.completed, registered |-> j.registered]
    BY DEF j
  <2> QED BY <1>1, <2>1
<1>6. r.expected = e /\ r.completed = j.completed /\ r.registered = j.registered
  BY <1>5
<1>7. ASSUME NEW b \in Prereqs(g), Exact(j, L, b) PROVE Exact(r, L \ cs, b)
  <2>1. b \in Branches /\ g \in plan.gates[b]
    BY DEF Prereqs
  <2>2. LeftOf(r, L \ cs, b) = LeftOf(j, L, b) \ (cs \cap Kids(b))
    BY <1>6 DEF LeftOf
  <2>3. LeftOf(j, L, b) \in SUBSET Children /\ cs \cap Kids(b) \in SUBSET LeftOf(j, L, b)
    BY <2>1 DEF LeftOf, j
  <2> DEFINE l == Cardinality(LeftOf(j, L, b))
             k == Cardinality(cs \cap Kids(b))
             m == Cardinality(j.completed[b])
             n == j.expected[b]
  <2>4. Cardinality(LeftOf(r, L \ cs, b)) = l - k /\ k \in Nat /\ k <= l /\ l \in Nat
    <3> DEFINE A == LeftOf(j, L, b)
               B == cs \cap Kids(b)
    <3>1. A \in SUBSET Children /\ B \in SUBSET A
      BY <2>3
    <3> HIDE DEF A, B
    <3>2. /\ Cardinality(A \ B) = Cardinality(A) - Cardinality(B)
          /\ Cardinality(B) \in Nat /\ Cardinality(B) <= Cardinality(A) /\ Cardinality(A) \in Nat
      BY <3>1, Sizes
    <3> QED BY <2>2, <3>2 DEF A, B
  <2>5. n - m = l /\ n \in Nat /\ m \in Nat
    BY <1>3, <1>7, <2>1 DEF Exact, heard, j
  <2>6. r.expected[b] = IF k = 0 THEN n ELSE IF n - k > m THEN n - k ELSE m
    <3>1. lost(b) = k /\ heard(b) = m
      BY <1>3, <2>1 DEF heard, j
    <3> QED BY <1>4, <1>6, <2>1, <3>1
  <2>7. Exact(r, L \ cs, b) <=> r.expected[b] - m = l - k
    BY <1>6, <2>4 DEF Exact
  <2> HIDE DEF l, k, m, n
  <2>8. r.expected[b] - m = l - k
    BY <2>4, <2>5, <2>6
  <2> QED BY <2>7, <2>8
<1>8. ASSUME NEW b \in Branches, cs \cap Kids(b) = {} PROVE r.expected[b] = j.expected[b]
  BY <1>3, <1>4, <1>6, <1>8
<1>9. Kept(r, g)
  BY <1>2, <1>4, <1>6 DEF Kept, j
<1> QED BY <1>5, <1>6, <1>7, <1>8, <1>9 DEF r, j

\* The first turns of a gather are settled.
LEMMA SettleStep ==
  ASSUME IInv, Settle
  PROVE  IInv'
<1> DEFINE failed == {c \in gather : child[c] = "refused"}
           after == RollBack(failed)
           ends == holder # "late" \/ failed # {}
           left == {g \in future : ~(ends /\ Satisfied(after[g], g))}
           fires == ends /\ ActiveDrained(after)
<1>1. /\ TypeOK /\ Tracking /\ Course /\ Born /\ Registered /\ Fresh /\ Heard
      /\ Exactly /\ Counted /\ Forgotten /\ Unsatisfied /\ Clear
  BY DEF IInv
<1>2. /\ holder # "none" /\ holder' = "none" /\ gather' = {} /\ join' = after
      /\ tracked' = tracked \ failed
      /\ descendants' = descendants - Cardinality(failed)
      /\ child' = [c \in Children |-> IF c \in failed THEN "over" ELSE child[c]]
      /\ plan' = plan /\ UNCHANGED stopVars /\ childTurn' = childTurn /\ finishing' = finishing
      /\ overlapDue' = overlapDue
      /\ \/ holder = "intercept" /\ MaybeSuspend(left, after)
         \/ /\ holder # "intercept" /\ fires /\ active' = NoGate /\ future' = left
            /\ DispatchJoin(active)
         \/ /\ holder # "intercept" /\ ~fires /\ future' = left
            /\ active' = active /\ turn' = turn /\ parent' = parent
  BY DEF Settle, parentVars
<1>3. /\ turn \in 0 .. Last /\ future \in SUBSET Gates /\ active \in Gates \cup {NoGate}
      /\ NoGate \notin Gates
      /\ Pending \in SUBSET Gates /\ Left \in SUBSET Children /\ gather \in SUBSET Children
      /\ tracked \in SUBSET Children /\ finishing \in SUBSET Children
      /\ child \in [Children -> ChildStates] /\ parent \in ParentStates
      /\ \A b \in Branches : Kids(b) \in SUBSET Children
  BY <1>1, Kinds, Planned DEF TypeOK
<1>4. failed \in SUBSET Children /\ \A c \in failed : child[c] = "refused"
  BY <1>3
<1>5. failed = {} \/ ends
  OBVIOUS
<1>6. holder \in {"intercept", "issue"} => ends
  OBVIOUS
<1>7. left \in SUBSET future /\ \A g \in left : ends => ~Satisfied(after[g], g)
  OBVIOUS
<1>8. \A g \in future \ left : ends /\ Satisfied(after[g], g)
  OBVIOUS
<1>9. fires <=> ends /\ active # NoGate /\ Satisfied(after[active], active)
  BY DEF ActiveDrained
<1>10. ~ends => holder = "late" /\ left = future
  OBVIOUS
<1> HIDE DEF failed, left, ends, fires
<1>11. failed \in SUBSET tracked /\ failed \in SUBSET Left /\ failed \cap finishing = {}
  BY <1>1, <1>3, <1>4 DEF Tracking, Left
<1>12. /\ \A c \in failed : child'[c] = "over" /\ c \in Children
       /\ \A c \in Children \ failed : child'[c] = child[c]
  BY <1>2, <1>4
<1>13. Left' = Left \ failed /\ Left' \in SUBSET Children /\ tracked' \in SUBSET Left'
  BY <1>2, <1>3, <1>11 DEF Left
<1>14. descendants' = Cardinality(Left')
  <2>1. Cardinality(Left \ failed) = Cardinality(Left) - Cardinality(failed)
    BY <1>3, <1>11, Sizes
  <2> QED BY <1>1, <1>2, <1>13, <2>1 DEF Counted
<1>15. Tracking'
  <2>1. \A c \in Children : c \in tracked' <=> child'[c] \notin {"none", "over"}
    BY <1>1, <1>2, <1>12 DEF Tracking
  <2>2. \A c \in finishing' : child'[c] = "over"
    BY <1>1, <1>2, <1>3, <1>11, <1>12 DEF Tracking
  <2> QED BY <1>2, <1>3, <2>1, <2>2 DEF Tracking
<1>16. OtherTypes'
  <2>1. child' \in [Children -> ChildStates]
    BY <1>2, <1>3 DEF ChildStates
  <2> QED BY <1>1, <1>2, <2>1 DEF OtherTypes, TypeOK, stopVars
<1>17. ASSUME NEW g \in Gates
       PROVE  /\ Kept(join[g], g)
              /\ join[g] = [expected |-> join[g].expected, completed |-> join[g].completed,
                            registered |-> join[g].registered]
              /\ join[g].registered = Begun \cap Prereqs(g)
              /\ \A b \in Branches : join[g].completed[b] \cap failed = {}
              /\ g \in Pending => \A b \in Prereqs(g) : Exact(join[g], Left, b)
              /\ g \notin Pending => Gone(join[g], g, tracked)
  <2>1. \A b \in Branches : join[g].completed[b] \cap tracked = {}
    BY JoinFacts
  <2> QED BY <1>11, <2>1, JoinFacts
<1>18. ASSUME NEW g \in Gates
       PROVE  /\ join'[g] = [expected |-> join'[g].expected, completed |-> join'[g].completed,
                             registered |-> join'[g].registered]
              /\ Kept(join'[g], g)
              /\ join'[g].completed = join[g].completed
              /\ join'[g].registered = join[g].registered
              /\ \A b \in Branches : failed \cap Kids(b) = {}
                                       => join'[g].expected[b] = join[g].expected[b]
              /\ \A b \in Prereqs(g) : Exact(join[g], Left, b) => Exact(join'[g], Left', b)
  <2> DEFINE L == Left
             r == RollBack(failed)
  <2>1. /\ TypeOK /\ L \in SUBSET Children /\ failed \in SUBSET L /\ Kept(join[g], g)
        /\ join[g] = [expected |-> join[g].expected, completed |-> join[g].completed,
                      registered |-> join[g].registered]
        /\ \A b \in Branches : join[g].completed[b] \cap failed = {}
    BY <1>1, <1>3, <1>11, <1>17
  <2>2. join' = r /\ Left' = L \ failed
    BY <1>2, <1>13
  <2> HIDE DEF L
  <2>3. /\ r[g] = [expected |-> r[g].expected, completed |-> r[g].completed,
                   registered |-> r[g].registered]
        /\ Kept(r[g], g)
        /\ r[g].completed = join[g].completed /\ r[g].registered = join[g].registered
        /\ \A b \in Branches : failed \cap Kids(b) = {} => r[g].expected[b] = join[g].expected[b]
        /\ \A b \in Prereqs(g) : Exact(join[g], L, b) => Exact(r[g], L \ failed, b)
    BY <2>1, RollingBack
  <2> HIDE DEF r
  <2> QED BY <2>2, <2>3 DEF L
<1>19. join' \in [Gates -> [expected : [Branches -> Nat], completed : [Branches -> SUBSET Children],
                            registered : SUBSET Branches]]
  <2>1. ASSUME NEW g \in Gates
        PROVE  join'[g] \in [expected : [Branches -> Nat],
                             completed : [Branches -> SUBSET Children],
                             registered : SUBSET Branches]
    <3>1. /\ join'[g] = [expected |-> join'[g].expected, completed |-> join'[g].completed,
                         registered |-> join'[g].registered]
          /\ Kept(join'[g], g)
      BY <1>18
    <3>2. Prereqs(g) \subseteq Branches
      BY DEF Prereqs
    <3> QED BY <3>1, <3>2 DEF Kept
  <2>2. join' = [g \in Gates |-> join'[g]]
    BY <1>2 DEF RollBack
  <2> QED BY <2>1, <2>2
<1>20. \A c \in Children : child'[c] # "none" => \E b \in Begun : c \in Kids(b)
  <2>1. \A c \in Children : child'[c] # "none" => child[c] # "none"
    BY <1>4, <1>12
  <2> QED BY <1>1, <2>1 DEF Born
<1>21. \A g \in Gates : join'[g].registered = Begun \cap Prereqs(g)
  BY <1>17, <1>18
<1>22. \A g \in Gates, b \in Branches \ Begun :
         join'[g].expected[b] = 0 /\ join'[g].completed[b] = {}
  <2> SUFFICES ASSUME NEW g \in Gates, NEW b \in Branches, b \notin Begun
               PROVE  join'[g].expected[b] = 0 /\ join'[g].completed[b] = {}
    OBVIOUS
  <2>1. join[g].expected[b] = 0 /\ join[g].completed[b] = {}
    BY <1>1 DEF Fresh
  <2>2. failed \cap Kids(b) = {}
    <3> SUFFICES ASSUME NEW c \in failed, c \in Kids(b) PROVE FALSE
      OBVIOUS
    <3>1. c \in Children /\ child[c] # "none"
      BY <1>4
    <3>2. PICK a \in Begun : c \in Kids(a)
      BY <1>1, <3>1 DEF Born
    <3>3. a = b
      BY <1>1, <3>2, Planned DEF Begun
    <3> QED BY <3>2, <3>3
  <2> QED BY <1>18, <2>1, <2>2
<1>23. \A g \in Gates, b \in Branches :
         join'[g].completed[b] \subseteq {c \in Kids(b) : child'[c] = "over"}
  <2> SUFFICES ASSUME NEW g \in Gates, NEW b \in Branches, NEW c \in join[g].completed[b]
               PROVE  c \in Kids(b) /\ child'[c] = "over"
    <3>1. \A g \in Gates : join'[g].completed = join[g].completed
      BY <1>18
    <3> QED BY <3>1
  <2>1. c \in Kids(b) /\ child[c] = "over" /\ c \in Children
    BY <1>1, <1>3 DEF Heard
  <2> QED BY <1>12, <2>1
<1>24. \A g \in Pending : \A b \in Prereqs(g) : Exact(join'[g], Left', b)
  BY <1>3, <1>17, <1>18
<1>25. ASSUME NEW g \in Pending, Satisfied(join'[g], g) PROVE Gone(join'[g], g, tracked')
  <2>1. g \in Gates /\ \A b \in Prereqs(g) : Exact(join'[g], Left', b)
    BY <1>3, <1>24
  <2>2. \A b \in Branches : join'[g].completed[b] \cap tracked' = {}
    <3>1. \A c \in tracked' : child'[c] # "over"
      BY <1>15 DEF Tracking
    <3>2. \A b \in Branches : join'[g].completed[b] \subseteq {c \in Kids(b) : child'[c] = "over"}
      BY <1>23, <2>1
    <3> QED BY <3>1, <3>2
  <2>3. Kept(join'[g], g)
    BY <1>18, <2>1
  <2> DEFINE j == join'[g]
             L == Left'
             T == tracked'
  <2>4. /\ Kept(j, g) /\ Satisfied(j, g) /\ L \in SUBSET Children /\ T \in SUBSET L
        /\ \A b \in Prereqs(g) : Exact(j, L, b)
        /\ \A b \in Branches : j.completed[b] \cap T = {}
    BY <1>13, <1>25, <2>1, <2>2, <2>3
  <2> HIDE DEF j, L, T
  <2>5. Gone(j, g, T)
    BY <2>4, Satisfying
  <2> QED BY <2>5 DEF j, T
<1>26. ASSUME NEW g \in Gates \ Pending PROVE Gone(join'[g], g, tracked')
  <2>1. Gone(join[g], g, tracked) /\ join'[g].registered = join[g].registered
    BY <1>17, <1>18
  <2> QED BY <1>2, <2>1 DEF Gone
<1>27. failed = {} => \A g \in Gates : Satisfied(join'[g], g) => Satisfied(join[g], g)
  <2> SUFFICES ASSUME failed = {}, NEW g \in Gates, Satisfied(join'[g], g) PROVE Satisfied(join[g], g)
    OBVIOUS
  <2>1. /\ join'[g].completed = join[g].completed /\ join'[g].registered = join[g].registered
        /\ \A b \in Branches : join'[g].expected[b] = join[g].expected[b]
    BY <1>18
  <2> QED BY <2>1 DEF Satisfied, IsDone, Prereqs
<1>28. \A g \in left : g \in Gates /\ ~Satisfied(join'[g], g)
  <2> SUFFICES ASSUME NEW g \in left PROVE g \in Gates /\ ~Satisfied(join'[g], g)
    OBVIOUS
  <2>1. g \in future /\ g \in Gates
    BY <1>3, <1>7
  <2>2. CASE ends
    BY <1>2, <1>7, <2>1, <2>2
  <2>3. CASE ~ends
    <3>1. failed = {} /\ ~Satisfied(join[g], g)
      BY <1>1, <1>5, <1>10, <2>1, <2>3 DEF Unsatisfied
    <3> QED BY <1>27, <2>1, <3>1
  <2> QED BY <2>2, <2>3
<1>29. \A g \in future \ left : ends /\ Satisfied(join'[g], g)
  BY <1>2, <1>8
<1> HIDE DEF after
<1>30. ASSUME holder = "intercept" /\ MaybeSuspend(left, after) PROVE IInv'
  <2>1. active = NoGate /\ parent = "spawning" /\ ~overlapDue
    BY <1>1, <1>30 DEF Course
  <2>2. Pending = future
    BY <2>1 DEF Pending
  <2>3. /\ \A g \in left : \A b \in Prereqs(g) : Exact(join'[g], Left', b)
        /\ left \in SUBSET Gates
    BY <1>3, <1>7, <1>24, <2>2
  <2>4. \A g \in Gates \ left : Gone(join'[g], g, tracked')
    BY <1>25, <1>26, <1>29, <2>2
  <2>5. \A g \in left : ~Satisfied(after[g], g)
    BY <1>2, <1>28
  <2>6. \/ /\ turn + 1 \in left /\ active' = turn + 1 /\ future' = left \ {turn + 1}
           /\ parent' = "suspended" /\ turn' = turn
        \/ /\ turn + 1 \notin left /\ active' = active /\ future' = left /\ Continue
    <3>1. \/ /\ turn + 1 \in left /\ active' = turn + 1 /\ future' = left \ {turn + 1}
             /\ parent' = "suspended" /\ turn' = turn
          \/ /\ turn + 1 \notin left /\ active' = active /\ future' = left \ {turn + 1}
             /\ Continue
      BY <1>30, <2>5 DEF MaybeSuspend
    <3> QED BY <3>1
  <2>7. /\ tracked' \subseteq Children /\ finishing' \subseteq Children
    BY <1>2, <1>3
  <2> QED BY <1>2, <1>13, <1>14, <1>15, <1>16, <1>19, <1>20, <1>21, <1>22, <1>23, <1>28,
             <2>1, <2>3, <2>4, <2>6, <2>7, LookAheadStep
<1>31. descendants' \in Nat /\ tracked' \in SUBSET Children /\ finishing' \in SUBSET Children
       /\ plan' \in Plans
  <2> DEFINE L == Left'
  <2>1. L \in SUBSET Children /\ descendants' = Cardinality(L)
    BY <1>13, <1>14
  <2> HIDE DEF L
  <2>2. descendants' \in Nat
    BY <2>1, Sizes
  <2> QED BY <1>1, <1>2, <1>3, <2>2 DEF TypeOK
<1>32. ASSUME holder # "intercept", fires, active' = NoGate, future' = left, DispatchJoin(active)
       PROVE  IInv'
  <2>1. active # NoGate /\ active \in Gates /\ active \in Pending /\ Satisfied(join'[active], active)
    BY <1>2, <1>3, <1>9, <1>32 DEF Pending
  <2>2. /\ turn' \in 0 .. Last /\ turn' = active /\ parent' \in ParentStates
        /\ Begun' = Begun /\ Course'
    BY <1>2, <1>32, <2>1, DispatchMoves
  <2>3. Pending' = left /\ left \in SUBSET Pending /\ left \in SUBSET Gates
    BY <1>3, <1>7, <1>32 DEF Pending
  <2>4. \A g \in Gates \ Pending' : Gone(join'[g], g, tracked')
    <3> SUFFICES ASSUME NEW g \in Gates, g \notin left PROVE Gone(join'[g], g, tracked')
      BY <2>3
    <3>1. CASE g \notin Pending
      BY <1>26, <3>1
    <3>2. CASE g \in Pending
      <4>1. Satisfied(join'[g], g)
        BY <1>29, <2>1, <3>2 DEF Pending
      <4> QED BY <1>25, <3>2, <4>1
    <3> QED BY <3>1, <3>2
  <2>5. \A b \in Prereqs(turn') : Kids(b) \cap tracked' = {}
    <3>1. Gone(join'[active], active, tracked')
      BY <1>25, <2>1
    <3> QED BY <2>2, <3>1 DEF Gone
  <2>6. TypeOK'
    BY <1>3, <1>16, <1>19, <1>31, <1>32, <2>2, <2>3 DEF TypeOK, OtherTypes
  <2>7. /\ \A g \in Pending' : \A b \in Prereqs(g) : Exact(join'[g], Left', b)
        /\ \A g \in future' : ~Satisfied(join'[g], g)
    BY <1>24, <1>28, <1>32, <2>3
  <2> QED BY <1>2, <1>14, <1>15, <1>20, <1>21, <1>22, <1>23, <1>32, <2>2, <2>4, <2>5, <2>6, <2>7, Assemble
<1>33. ASSUME holder # "intercept", ~fires, future' = left,
              active' = active, turn' = turn, parent' = parent
       PROVE  IInv'
  <2>1. Begun' = Begun
    BY <1>2, <1>33 DEF Begun
  <2>2. Course'
    BY <1>1, <1>2, <1>33 DEF Course
  <2>3. /\ Pending' \in SUBSET Pending /\ Pending' \in SUBSET Gates
        /\ \A g \in Pending \ Pending' : g \in future \ left
    BY <1>3, <1>7, <1>33 DEF Pending
  <2>4. \A g \in Gates \ Pending' : Gone(join'[g], g, tracked')
    BY <1>25, <1>26, <1>29, <2>3
  <2>5. TypeOK'
    BY <1>1, <1>3, <1>7, <1>16, <1>19, <1>31, <1>33 DEF TypeOK, OtherTypes
  <2>6. active' # NoGate => ~Satisfied(join'[active'], active')
    <3> SUFFICES ASSUME active # NoGate PROVE ~Satisfied(join'[active], active)
      BY <1>33
    <3>1. CASE ends
      BY <1>2, <1>9, <1>33, <3>1
    <3>2. CASE ~ends
      <4>1. failed = {} /\ ~Satisfied(join[active], active) /\ active \in Gates
        BY <1>1, <1>3, <1>5, <3>2 DEF Unsatisfied
      <4> QED BY <1>27, <4>1
    <3> QED BY <3>1, <3>2
  <2>7. /\ \A g \in Pending' : \A b \in Prereqs(g) : Exact(join'[g], Left', b)
        /\ \A g \in future' : ~Satisfied(join'[g], g)
    BY <1>24, <1>28, <1>33, <2>3
  <2>8. parent' \in Unsent => \A b \in Prereqs(turn') : Kids(b) \cap tracked' = {}
    <3> SUFFICES ASSUME parent \in Unsent, NEW b \in Prereqs(turn) PROVE Kids(b) \cap tracked' = {}
      BY <1>33
    <3>1. Kids(b) \cap tracked = {}
      BY <1>1 DEF Clear
    <3> QED BY <1>2, <3>1
  <2> QED BY <1>2, <1>14, <1>15, <1>20, <1>21, <1>22, <1>23, <2>1, <2>2, <2>4, <2>5, <2>6, <2>7, <2>8, Assemble
<1> QED BY <1>2, <1>30, <1>32, <1>33

\* Turns go out, come back, wait or are dropped, and no child starts or ends.
LEMMA QuietStep ==
  ASSUME IInv, plan' = plan, UNCHANGED joinVars, turn' = turn, OtherTypes',
         \A c \in Children : child'[c] = "none" <=> child[c] = "none",
         \A c \in Children : child'[c] = "over" <=> child[c] = "over",
         holder' = holder \/ (holder = "none" /\ holder' = "late"),
         \/ parent' = parent /\ overlapDue' = overlapDue
         \/ parent \in Unsent /\ parent' \in Unsent /\ overlapDue' = overlapDue
         \/ parent = "wire" /\ parent' = "returned" /\ overlapDue' = overlapDue
         \/ /\ parent = "issuing" /\ parent' = "wire"
            /\ overlapDue' = (\E b \in plan.overlap : plan.spawn[b] = turn)
  PROVE  IInv'
<1>1. TypeOK /\ Course
  BY DEF IInv
<1>2. parent' \in ParentStates
  BY <1>1 DEF TypeOK, ParentStates, Unsent
<1>3. TypeOK'
  BY <1>1, <1>2 DEF TypeOK, OtherTypes, joinVars
<1>4. active' = active
  BY DEF joinVars
<1>5. Course'
  <2>1. (parent = "suspended" <=> parent' = "suspended") /\ (parent = "spawning" <=> parent' = "spawning")
    BY DEF Unsent
  <2>2. holder' = "intercept" <=> holder = "intercept"
    OBVIOUS
  <2>3. overlapDue' => parent' \in {"wire", "returned"}
    BY <1>1, Zenon DEF Course, Unsent
  <2> QED BY <1>1, <1>4, <2>1, <2>2, <2>3 DEF Course
<1>6. Begun' = Begun
  <2>1. CASE parent' = parent /\ overlapDue' = overlapDue
    BY <2>1 DEF Begun
  <2>2. CASE parent \in Unsent /\ parent' \in Unsent
    <3>1. parent \notin {"spawning", "suspended", "over"} /\ parent' \notin {"spawning", "suspended", "over"}
      BY <2>2 DEF Unsent
    <3> QED BY <2>2, <3>1 DEF Begun
  <2>3. CASE parent = "wire" /\ parent' = "returned" /\ overlapDue' = overlapDue
    <3>1. "wire" \notin Unsent /\ "returned" \notin Unsent
      BY DEF Unsent
    <3> QED BY <2>3, <3>1 DEF Begun
  <2>4. CASE /\ parent = "issuing" /\ parent' = "wire"
             /\ overlapDue' = (\E b \in plan.overlap : plan.spawn[b] = turn)
    <3>1. "issuing" \in Unsent /\ "wire" \notin Unsent
      BY DEF Unsent
    <3>2. \A b \in Branches : b \in Begun <=> plan.spawn[b] < turn
      BY <2>4, <3>1 DEF Begun
    <3>3. \A b \in Branches : b \in Begun' <=> plan.spawn[b] < turn
      <4>1. ASSUME NEW b \in Branches
            PROVE  b \in Begun' <=> \/ plan.spawn[b] < turn
                                    \/ plan.spawn[b] = turn /\ b \in plan.overlap /\ ~overlapDue'
        BY <2>4, <3>1 DEF Begun
      <4>2. \A b \in plan.overlap : plan.spawn[b] = turn => overlapDue'
        BY <2>4
      <4> QED BY <4>1, <4>2
    <3> QED BY <3>2, <3>3 DEF Begun
  <2> QED BY <2>1, <2>2, <2>3, <2>4
<1>7. parent' \in Unsent => parent \in Unsent
  BY DEF Unsent
<1>8. holder' \in {"none", "late"} => holder \in {"none", "late"}
  OBVIOUS
<1> QED BY <1>3, <1>5, <1>6, <1>7, <1>8, Quiet

\* The current turn of a child goes on.
LEMMA QuietChild ==
  ASSUME IInv, plan' = plan, UNCHANGED joinVars, UNCHANGED parentVars, UNCHANGED stopVars,
         overlapDue' = overlapDue, gather' \in SUBSET Children,
         holder' = holder \/ (holder = "none" /\ holder' = "late"),
         childTurn' \in [Children -> 0 .. ChildTurns - 1],
         NEW c \in Children, child[c] \notin {"none", "over"},
         NEW s \in ChildStates \ {"none", "over"}, child' = [child EXCEPT ![c] = s]
  PROVE  IInv'
<1>1. TypeOK
  BY DEF IInv
<1>2. child \in [Children -> ChildStates]
  BY <1>1 DEF TypeOK
<1>3. /\ child' \in [Children -> ChildStates]
      /\ \A d \in Children : child'[d] = "none" <=> child[d] = "none"
      /\ \A d \in Children : child'[d] = "over" <=> child[d] = "over"
  BY <1>2
<1>4. OtherTypes'
  BY <1>1, <1>3 DEF OtherTypes, TypeOK, stopVars
<1>5. turn' = turn /\ parent' = parent
  BY DEF parentVars
<1> QED BY <1>3, <1>4, <1>5, QuietStep

\* A child's current turn goes on, and nothing else happens.
LEMMA MoveChildStep ==
  ASSUME IInv, NEW c \in Children, child[c] \notin {"none", "over"},
         NEW s \in ChildStates \ {"none", "over"}, MoveChild(c, s)
  PROVE  IInv'
<1>1. TypeOK
  BY DEF IInv
<1>2. /\ plan' = plan /\ UNCHANGED joinVars /\ UNCHANGED parentVars /\ UNCHANGED stopVars
      /\ overlapDue' = overlapDue /\ gather' = gather /\ holder' = holder /\ childTurn' = childTurn
      /\ child' = [child EXCEPT ![c] = s]
  BY DEF MoveChild, lockVars
<1>3. gather' \in SUBSET Children /\ childTurn' \in [Children -> 0 .. ChildTurns - 1]
  BY <1>1, <1>2 DEF TypeOK
<1> QED BY <1>2, <1>3, QuietChild

\* A child ends, and says so.
LEMMA StopStep ==
  ASSUME IInv, NEW c \in Children, child[c] \notin {"none", "over"}, ChildDone(c),
         child' = [child EXCEPT ![c] = "over"], plan' = plan, UNCHANGED stopVars,
         childTurn' = childTurn, UNCHANGED lockVars
  PROVE  IInv'
<1>1. TypeOK
  BY DEF IInv
<1>2. child' \in [Children -> ChildStates]
  BY <1>1 DEF TypeOK, ChildStates
<1>3. OtherTypes'
  BY <1>1, <1>2 DEF OtherTypes, TypeOK, stopVars, lockVars
<1> QED BY <1>3, ChildDoneStep

\* The steps of children.
LEMMA ChildSteps ==
  ASSUME IInv, NEW c \in Children,
         \/ WakeLate(c) \/ DispatchFirst(c) \/ FinishDone(c)
         \/ ReturnChild(c) \/ WakeChild(c) \/ RetainChild(c) \/ ReleaseChild(c)
         \/ IssueChild(c) \/ RefuseChild(c) \/ StopRetained(c)
  PROVE  IInv'
<1>1. TypeOK
  BY DEF IInv
<1>2. {"dispatching", "wire", "retained", "refused", "due", "issuing", "released", "stranded"}
        \subseteq ChildStates \ {"none", "over"}
  BY DEF ChildStates
<1>3. CASE WakeLate(c)
  <2>1. /\ child[c] = "late" /\ holder = "none" /\ holder' = "late" /\ gather' = {c}
        /\ child' = [child EXCEPT ![c] = "dispatching"] /\ childTurn' = childTurn
        /\ plan' = plan /\ UNCHANGED stopVars /\ UNCHANGED parentVars /\ UNCHANGED joinVars
        /\ overlapDue' = overlapDue
    BY <1>3 DEF WakeLate
  <2>2. gather' \in SUBSET Children /\ childTurn' \in [Children -> 0 .. ChildTurns - 1]
    BY <1>1, <2>1 DEF TypeOK
  <2> DEFINE s == "dispatching"
  <2>3. s \in ChildStates \ {"none", "over"} /\ child[c] \notin {"none", "over"}
        /\ child' = [child EXCEPT ![c] = s]
    BY <1>2, <2>1
  <2> HIDE DEF s
  <2> QED BY <2>1, <2>2, <2>3, QuietChild
<1>4. ASSUME NEW s \in ChildStates \ {"none", "over"}, MoveChild(c, s),
             child[c] \notin {"none", "over"}
      PROVE  IInv'
  BY <1>4, MoveChildStep
<1>5. CASE DispatchFirst(c)
  BY <1>2, <1>4, <1>5 DEF DispatchFirst
<1>6. CASE FinishDone(c)
  BY <1>6, FinishDoneStep
<1>7. CASE ReturnChild(c)
  <2>1. CASE /\ child[c] = "wire" /\ child' = [child EXCEPT ![c] = "over"] /\ ChildDone(c)
             /\ UNCHANGED <<plan, stopVars, childTurn, lockVars>>
    <3>1. child[c] \notin {"none", "over"} /\ plan' = plan /\ UNCHANGED stopVars
          /\ childTurn' = childTurn /\ UNCHANGED lockVars
      BY <2>1
    <3> QED BY <2>1, <3>1, StopStep
  <2>2. ASSUME child[c] = "wire", childTurn[c] < ChildTurns - 1,
               NEW s \in {"due", "issuing"}, child' = [child EXCEPT ![c] = s],
               childTurn' = [childTurn EXCEPT ![c] = @ + 1],
               UNCHANGED <<plan, stopVars, parentVars, joinVars, lockVars>>
        PROVE  IInv'
    <3>1. childTurn \in [Children -> 0 .. ChildTurns - 1] /\ ChildTurns \in Nat \ {0}
      BY <1>1, TurnsAssumption DEF TypeOK
    <3>2. childTurn[c] + 1 \in 0 .. ChildTurns - 1
      BY <2>2, <3>1
    <3>3. childTurn' \in [Children -> 0 .. ChildTurns - 1]
      BY <2>2, <3>1, <3>2
    <3>4. s \in ChildStates \ {"none", "over"} /\ child[c] \notin {"none", "over"}
      BY <1>2, <2>2
    <3>5. /\ plan' = plan /\ UNCHANGED joinVars /\ UNCHANGED parentVars /\ UNCHANGED stopVars
          /\ overlapDue' = overlapDue /\ gather' = gather /\ holder' = holder
      BY <2>2 DEF lockVars
    <3>6. gather' \in SUBSET Children
      BY <1>1, <3>5 DEF TypeOK
    <3> QED BY <2>2, <3>3, <3>4, <3>5, <3>6, QuietChild
  <2> QED BY <1>7, <2>1, <2>2 DEF ReturnChild
<1>8. CASE WakeChild(c) \/ RetainChild(c) \/ ReleaseChild(c) \/ IssueChild(c)
  BY <1>2, <1>4, <1>8 DEF WakeChild, RetainChild, ReleaseChild, IssueChild
<1>9. ASSUME Stop(c), child[c] \notin {"none", "over"} PROVE IInv'
  <2>1. /\ child' = [child EXCEPT ![c] = "over"] /\ ChildDone(c) /\ plan' = plan
        /\ UNCHANGED stopVars /\ childTurn' = childTurn /\ UNCHANGED lockVars
    BY <1>9 DEF Stop
  <2> QED BY <1>9, <2>1, StopStep
<1>10. CASE RefuseChild(c)
  <2>1. child[c] \notin {"none", "over"} /\ (Stop(c) \/ MoveChild(c, "stranded"))
    BY <1>10 DEF RefuseChild
  <2> QED BY <1>2, <1>4, <1>9, <2>1
<1>11. CASE StopRetained(c)
  BY <1>9, <1>11 DEF StopRetained
<1> QED BY <1>3, <1>5, <1>6, <1>7, <1>8, <1>10, <1>11

\* The parent's turn goes out, is refused, comes back, or is due.
LEMMA ParentSteps ==
  ASSUME IInv, IssueParent \/ RefuseParent \/ ReturnParent \/ WakeParent
  PROVE  IInv'
<1>1. TypeOK
  BY DEF IInv
<1>2. /\ plan' = plan /\ UNCHANGED joinVars /\ UNCHANGED stopVars /\ turn' = turn
      /\ child' = child /\ childTurn' = childTurn /\ holder' = holder /\ gather' = gather
      /\ \/ parent \in Unsent /\ parent' \in Unsent /\ overlapDue' = overlapDue
         \/ parent = "wire" /\ parent' = "returned" /\ overlapDue' = overlapDue
         \/ /\ parent = "issuing" /\ parent' = "wire"
            /\ overlapDue' = (\E b \in plan.overlap : plan.spawn[b] = turn)
  BY DEF IssueParent, RefuseParent, ReturnParent, WakeParent, lockVars, childVars, Unsent
<1>3. overlapDue' \in BOOLEAN
  BY <1>1, <1>2 DEF TypeOK
<1>4. OtherTypes'
  BY <1>1, <1>2, <1>3 DEF OtherTypes, TypeOK, stopVars
<1>5. /\ \A c \in Children : child'[c] = "none" <=> child[c] = "none"
      /\ \A c \in Children : child'[c] = "over" <=> child[c] = "over"
  BY <1>2
<1> QED BY <1>2, <1>4, <1>5, QuietStep

\* The phase stops sending.
LEMMA StopSteps ==
  ASSUME IInv, SendingComplete \/ Cap \/ UNCHANGED vars
  PROVE  IInv'
<1>1. TypeOK
  BY DEF IInv
<1>2. child \in [Children -> ChildStates]
  BY <1>1 DEF TypeOK
<1>3. CASE SendingComplete
  <2>1. /\ plan' = plan /\ capped' = capped /\ sendingOver' = TRUE /\ turn' = turn
        /\ childTurn' = childTurn /\ UNCHANGED joinVars
        /\ holder' = holder /\ gather' = gather /\ overlapDue' = overlapDue
        /\ parent' = IF parent = "due" THEN "dropped" ELSE parent
    BY <1>3 DEF SendingComplete, lockVars
  <2>2. \A c \in Children : child'[c] = CASE child[c] \in {"due", "released"} -> "stranded"
                                          [] child[c] = "retained" -> "stopping"
                                          [] OTHER -> child[c]
    BY <1>3 DEF SendingComplete
  <2>3. ASSUME NEW c \in Children
        PROVE  /\ child'[c] \in ChildStates
               /\ child'[c] = "none" <=> child[c] = "none"
               /\ child'[c] = "over" <=> child[c] = "over"
    <3>1. \/ child[c] \in {"due", "released"} /\ child'[c] = "stranded"
          \/ child[c] = "retained" /\ child'[c] = "stopping"
          \/ child'[c] = child[c]
      BY <2>2
    <3> QED BY <1>2, <3>1 DEF ChildStates
  <2>4. child' \in [Children -> ChildStates]
    <3>1. child' = [c \in Children |-> child'[c]]
      BY <1>3 DEF SendingComplete
    <3> QED BY <2>3, <3>1
  <2>5. OtherTypes'
    BY <1>1, <2>1, <2>4 DEF OtherTypes, TypeOK
  <2>6. \/ parent' = parent /\ overlapDue' = overlapDue
        \/ parent \in Unsent /\ parent' \in Unsent /\ overlapDue' = overlapDue
    BY <2>1 DEF Unsent
  <2> QED BY <2>1, <2>3, <2>5, <2>6, QuietStep
<1>4. CASE Cap \/ UNCHANGED vars
  <2>1. /\ plan' = plan /\ capped' \in {capped, TRUE} /\ sendingOver' = sendingOver /\ turn' = turn
        /\ parent' = parent /\ child' = child /\ childTurn' = childTurn /\ UNCHANGED joinVars
        /\ holder' = holder /\ gather' = gather /\ overlapDue' = overlapDue
    BY <1>4 DEF Cap, vars, parentVars, childVars, stopVars, lockVars
  <2>2. OtherTypes'
    BY <1>1, <2>1 DEF OtherTypes, TypeOK
  <2>3. /\ \A c \in Children : child'[c] = "none" <=> child[c] = "none"
        /\ \A c \in Children : child'[c] = "over" <=> child[c] = "over"
    BY <2>1
  <2> QED BY <2>1, <2>2, <2>3, QuietStep
<1> QED BY <1>3, <1>4

\* Every step keeps the invariant.
LEMMA Steps == IInv /\ [Next]_vars => IInv'
<1> SUFFICES ASSUME IInv, [Next]_vars PROVE IInv'
  OBVIOUS
<1>1. CASE \E c \in Children :
             \/ WakeLate(c) \/ DispatchFirst(c) \/ FinishDone(c)
             \/ ReturnChild(c) \/ WakeChild(c) \/ RetainChild(c) \/ ReleaseChild(c)
             \/ IssueChild(c) \/ RefuseChild(c) \/ StopRetained(c)
  BY <1>1, ChildSteps
<1>2. CASE IssueParent \/ RefuseParent \/ ReturnParent \/ WakeParent
  BY <1>2, ParentSteps
<1>3. CASE SpawnOverlapping
  BY <1>3, SpawnOverlappingStep
<1>4. CASE Intercept
  BY <1>4, InterceptStep
<1>5. CASE Settle
  BY <1>5, SettleStep
<1>6. CASE SendingComplete \/ Cap \/ UNCHANGED vars
  BY <1>6, StopSteps
<1> QED BY <1>1, <1>2, <1>3, <1>4, <1>5, <1>6 DEF Next, Step, Done

\* The invariant holds at the start.
LEMMA InitHolds == Init => IInv
<1> SUFFICES ASSUME Init PROVE IInv
  OBVIOUS
<1>1. /\ plan \in Plans /\ capped = FALSE /\ sendingOver = FALSE
      /\ turn = 0 /\ parent = "issuing"
      /\ child = [c \in Children |-> "none"] /\ childTurn = [c \in Children |-> 0]
      /\ future = {} /\ active = NoGate
      /\ tracked = {} /\ descendants = 0 /\ finishing = {}
      /\ holder = "none" /\ gather = {} /\ overlapDue = FALSE
  BY DEF Init
<1>2. \A g \in Gates : join[g] = [expected   |-> [b \in Branches |-> 0],
                                  completed  |-> [b \in Branches |-> {}],
                                  registered |-> {}]
  BY DEF Init
<1>3. \A g \in Gates : /\ join[g].registered = {}
                       /\ \A b \in Branches : join[g].expected[b] = 0 /\ join[g].completed[b] = {}
  BY <1>2
<1>4. TypeOK
  <2>1. 0 \in 0 .. Last /\ 0 \in 0 .. ChildTurns - 1
    BY TurnsAssumption DEF Last
  <2>2. join \in [Gates -> [expected : [Branches -> Nat], completed : [Branches -> SUBSET Children],
                            registered : SUBSET Branches]]
    BY DEF Init
  <2> QED BY <1>1, <2>1, <2>2 DEF TypeOK, ParentStates, ChildStates
<1>5. Begun = {}
  <2>1. "issuing" \in Unsent /\ \A b \in Branches : plan.spawn[b] \in Nat
    BY <1>4, Planned DEF Unsent
  <2>2. \A b \in Branches : ~(plan.spawn[b] < 0)
    BY <2>1
  <2> QED BY <1>1, <2>1, <2>2 DEF Begun
<1>6. Pending = {} /\ Left = {}
  BY <1>1 DEF Pending, Left
<1>7. Tracking /\ Course /\ Born
  BY <1>1 DEF Tracking, Course, Born
<1>8. Registered /\ Fresh /\ Heard
  BY <1>3, <1>5 DEF Registered, Fresh, Heard
<1>9. Exactly /\ Counted /\ Forgotten /\ Unsatisfied /\ Clear
  <2>1. Cardinality({}) = 0
    BY FS_EmptySet
  <2> QED BY <1>1, <1>3, <1>6, <2>1 DEF Exactly, Counted, Forgotten, Gone, Unsatisfied, Clear
<1> QED BY <1>4, <1>7, <1>8, <1>9 DEF IInv

-------------------------------------------------------------------------------
(***************************************************************************)
(* The theorems.                                                           *)
(***************************************************************************)
\* The invariant, in every reachable state.
THEOREM Invariance == Spec => []IInv
<1>1. Init => IInv
  BY InitHolds
<1>2. IInv /\ [Next]_vars => IInv'
  BY Steps
<1> QED BY <1>1, <1>2, PTL DEF Spec

\* The variables have their types.
THEOREM TypeCorrect == Spec => []TypeOK
<1>1. IInv => TypeOK
  BY DEF IInv
<1> QED BY <1>1, Invariance, PTL

\* A pending join waits for exactly the children left of its branches, and the
\* parent's count agrees, whichever of the returns, the refusals, the rollbacks and
\* the delayed starts came first (_handle_child_done, _rollback_failed_first_turn).
THEOREM JoinsAgree == Spec => []JoinsExact
<1>1. IInv => JoinsExact
  <2> SUFFICES ASSUME IInv PROVE JoinsExact
    OBVIOUS
  <2>1. Exactly /\ Counted
    BY DEF IInv
  <2>2. \A g : \A b : Waiting(g, b) = LeftOf(join[g], Left, b)
    BY DEF Waiting, LeftOf, Left, Kids
  <2> QED BY <2>1, <2>2 DEF JoinsExact, Exactly, Exact, Counted, Pending, Left
<1> QED BY <1>1, Invariance, PTL

\* A suspended parent has a join, and a child is left whose end will release it.
THEOREM SuspensionsWoken == Spec => []SuspensionHasWaker
<1>1. IInv => SuspensionHasWaker
  <2> SUFFICES ASSUME IInv PROVE SuspensionHasWaker
    OBVIOUS
  <2>1. TypeOK /\ Tracking /\ Course /\ Registered /\ Exactly /\ Unsatisfied
    BY DEF IInv
  <2>2. ASSUME active # NoGate PROVE \E b \in Prereqs(active) : Waiting(active, b) # {}
    <3>1. parent = "suspended" /\ active = turn + 1 /\ ~overlapDue
      BY <2>1, <2>2 DEF Course
    <3>2. /\ turn \in Nat /\ active \in Gates /\ active \in Pending /\ Left \in SUBSET Children
          /\ \A b \in Branches : plan.spawn[b] \in Nat
          /\ \A b \in Branches : \A g \in plan.gates[b] : g > plan.spawn[b]
      BY <2>1, <2>2, Kinds, Planned DEF Pending
    <3>3. Begun = {b \in Branches : plan.spawn[b] < turn + 1}
      BY <2>1, <3>1, AllBegun
    <3>4. Prereqs(active) \subseteq Begun
      <4> SUFFICES ASSUME NEW b \in Prereqs(active) PROVE plan.spawn[b] < turn + 1
        BY <3>3 DEF Prereqs
      <4>1. b \in Branches /\ active > plan.spawn[b]
        BY <3>2 DEF Prereqs
      <4> QED BY <3>1, <3>2, <4>1
    <3>5. /\ Kept(join[active], active) /\ join[active].registered = Prereqs(active)
          /\ \A b \in Prereqs(active) : Exact(join[active], Left, b)
      BY <3>2, <3>4, JoinFacts
    <3>6. ~Satisfied(join[active], active)
      BY <2>1, <2>2 DEF Unsatisfied
    <3>7. \E b \in Prereqs(active) : LeftOf(join[active], Left, b) # {}
      BY <3>2, <3>5, <3>6, Lacking
    <3> QED BY <3>7 DEF Waiting, LeftOf, Left, Kids
  <2>3. \A c \in tracked : child[c] \notin {"none", "over"}
    BY <2>1 DEF Tracking
  <2>4. holder = "none" => \A g \in future : ~Satisfied(join[g], g)
    BY <2>1 DEF Unsatisfied
  <2>5. parent = "suspended" <=> active # NoGate
    BY <2>1 DEF Course
  <2> QED BY <2>2, <2>3, <2>4, <2>5 DEF SuspensionHasWaker
<1> QED BY <1>1, Invariance, PTL

-------------------------------------------------------------------------------
(***************************************************************************)
(* The contract.                                                           *)
(***************************************************************************)
Gated == [t \in 0 .. Last |-> UNION {plan.kids[b] : b \in {a \in Branches : t \in plan.gates[a]}}]
Started == {c \in Children : child[c] # "none"}
Running == {c \in Children : child[c] \notin {"none", "over"}}

\* No turn goes out where the parent goes on, waits, or is released.
LEMMA SentKept ==
  ASSUME IInv,
         \/ turn' = turn /\ (parent' \in Unsent <=> parent \in Unsent)
         \/ active # NoGate /\ DispatchJoin(active)
         \/ /\ parent \in {"returned", "spawning"}
            /\ (parent' = "suspended" /\ turn' = turn) \/ Continue
  PROVE  TurnsSent' = TurnsSent
<1>1. TypeOK /\ Course
  BY DEF IInv
<1>2. turn \in Nat
  BY <1>1, Kinds
<1>3. /\ TurnsSent = turn + (IF parent \in Unsent THEN 0 ELSE 1)
      /\ TurnsSent' = turn' + (IF parent' \in Unsent THEN 0 ELSE 1)
  BY DEF TurnsSent, Unsent
<1>4. CASE turn' = turn /\ (parent' \in Unsent <=> parent \in Unsent)
  BY <1>3, <1>4
<1>5. CASE active # NoGate /\ DispatchJoin(active)
  <2>1. parent \notin Unsent /\ turn' = turn + 1 /\ parent' \in Unsent
    BY <1>1, <1>5 DEF Course, DispatchJoin, Unsent
  <2> QED BY <1>2, <1>3, <2>1
<1>6. CASE /\ parent \in {"returned", "spawning"}
           /\ (parent' = "suspended" /\ turn' = turn) \/ Continue
  <2>1. /\ parent \notin Unsent
        /\ \/ turn' = turn /\ parent' \notin Unsent
           \/ turn' = turn + 1 /\ parent' \in Unsent
    BY <1>6 DEF Continue, Unsent
  <2> QED BY <1>2, <1>3, <2>1
<1> QED BY <1>4, <1>5, <1>6

\* A child that is done has left the tracked ones, and no turn goes out.
LEMMA DoneMoves ==
  ASSUME IInv, NEW c \in Children, child[c] \notin {"none", "over"}, ChildDone(c),
         child' = [child EXCEPT ![c] = "over"]
  PROVE  Running' = Running \ {c} /\ Started' = Started /\ TurnsSent' = TurnsSent
<1>1. TypeOK /\ Born
  BY DEF IInv
<1>2. PICK a \in Branches : c \in Kids(a)
  BY <1>1 DEF Born, Begun
<1>3. /\ NoGate \notin Gates /\ GatesOf(c) \in SUBSET Gates
      /\ child \in [Children -> ChildStates]
  BY <1>1, <1>2, Kinds, Planned DEF TypeOK
<1>4. Running' = Running \ {c} /\ Started' = Started
  BY <1>3 DEF Running, Started
<1>5. \/ turn' = turn /\ parent' = parent
      \/ active \in GatesOf(c) /\ DispatchJoin(active)
  BY DEF ChildDone, parentVars
<1>6. TurnsSent' = TurnsSent
  BY <1>3, <1>5, SentKept
<1> QED BY <1>4, <1>6

\* What a start does to the contract.
LEMMA StartMoves ==
  ASSUME IInv, NEW bs \in SUBSET Branches, bs \cap Begun = {}, Spawn(bs), plan' = plan,
         \A b \in bs : plan.spawn[b] = turn, turn' = turn, parent \notin Unsent, parent' \notin Unsent
  PROVE  \E cs \in SUBSET Children : Contract!Start(cs)
<1>1. TypeOK /\ Born
  BY DEF IInv
<1> DEFINE kids == UNION {plan.kids[b] \ plan.broken : b \in bs}
<1>0. PICK cs : cs = kids
  OBVIOUS
<1>2. /\ turn \in Nat /\ Last \in Nat
      /\ \A b \in Branches : Kids(b) \in SUBSET Children
      /\ \A a, b \in Branches : a = b \/ Kids(a) \cap Kids(b) = {}
      /\ \A b \in Branches : \A g \in plan.gates[b] : g > plan.spawn[b]
  BY <1>1, Kinds, Planned
<1>3. \A c \in cs : \E b \in bs : c \in Kids(b)
  BY <1>0 DEF Kids
<1>4. child' = [c \in Children |-> IF c \in cs \cap plan.late THEN "late"
                                   ELSE IF c \in cs THEN "dispatching"
                                   ELSE child[c]]
  BY <1>0 DEF Spawn
<1> HIDE DEF kids
<1>5. cs \in SUBSET Children
  BY <1>2, <1>3
<1>6. ASSUME NEW c \in cs PROVE child[c] = "none"
  <2> SUFFICES ASSUME child[c] # "none" PROVE FALSE
    OBVIOUS
  <2>1. PICK b \in bs : c \in Kids(b)
    BY <1>3
  <2>2. PICK a \in Begun : c \in Kids(a)
    BY <1>1, <1>5 DEF Born
  <2>3. a = b
    BY <1>2, <2>1, <2>2 DEF Begun
  <2> QED BY <2>1, <2>2, <2>3
<1>7. Started' = Started \cup cs /\ Running' = Running \cup cs /\ cs \cap Started = {}
  <2>1. \A c \in Children : /\ c \in cs => child'[c] \in {"late", "dispatching"}
                            /\ c \notin cs => child'[c] = child[c]
    BY <1>4
  <2> QED BY <1>5, <1>6, <2>1 DEF Started, Running
<1>8. TurnsSent = turn + 1 /\ TurnsSent' = TurnsSent
  <2>1. TurnsSent' = TurnsSent
    BY SentKept
  <2> QED BY <2>1 DEF TurnsSent, Unsent
<1>9. Gated' = Gated
  BY DEF Gated
<1>10. \A t \in 0 .. TurnsSent - 1 : Gated[t] \cap cs = {}
  <2> SUFFICES ASSUME NEW t \in 0 .. TurnsSent - 1, NEW c \in Gated[t], c \in cs PROVE FALSE
    OBVIOUS
  <2>1. t \in 0 .. Last /\ t \in Nat /\ t <= turn
    <3>1. turn \in 0 .. Last
      BY <1>1, Kinds
    <3> QED BY <1>2, <1>8, <3>1
  <2>2. PICK a \in Branches : t \in plan.gates[a] /\ c \in Kids(a)
    BY <2>1 DEF Gated, Kids
  <2>3. PICK b \in bs : c \in Kids(b)
    BY <1>3
  <2>4. a = b
    BY <1>2, <2>2, <2>3
  <2>5. t > turn
    BY <1>2, <2>2, <2>3, <2>4
  <2> QED BY <1>2, <2>1, <2>5
<1>11. Contract!Start(cs)
  BY <1>7, <1>8, <1>9, <1>10, Zenon DEF Contract!Start, Gated, Started, Running
<1> QED BY <1>5, <1>11

\* A turn goes out, and no child it joins is running.
LEMMA SendMoves ==
  ASSUME IInv, IssueParent
  PROVE  Contract!Send
<1>1. TypeOK /\ Tracking /\ Clear
  BY DEF IInv
<1>2. /\ turn \in 0 .. Last /\ turn \in Nat /\ Last \in Nat /\ NumTurns \in Nat \ {0}
      /\ Last = NumTurns - 1
  BY <1>1, Kinds
<1>3. parent = "issuing" /\ parent' = "wire" /\ turn' = turn /\ plan' = plan /\ child' = child
  BY DEF IssueParent, childVars
<1>4. TurnsSent = turn + 0 /\ TurnsSent' = turn + 1
  BY <1>3 DEF TurnsSent
<1>5. TurnsSent = turn /\ TurnsSent' = TurnsSent + 1 /\ TurnsSent < NumTurns
  BY <1>2, <1>4
<1>6. Gated[turn] \cap Running = {}
  <2> SUFFICES ASSUME NEW c \in Gated[turn], c \in Running PROVE FALSE
    OBVIOUS
  <2>1. PICK b \in Branches : turn \in plan.gates[b] /\ c \in Kids(b)
    BY <1>2 DEF Gated, Kids
  <2>2. b \in Prereqs(turn) /\ c \in tracked
    BY <1>1, <2>1 DEF Prereqs, Tracking, Running
  <2> QED BY <1>1, <1>3, <2>1, <2>2 DEF Clear, Unsent
<1>7. Gated[TurnsSent] \cap Running = {}
  BY <1>5, <1>6
<1>8. Gated' = Gated /\ Started' = Started /\ Running' = Running
  BY <1>3 DEF Gated, Started, Running
<1> QED BY <1>5, <1>7, <1>8, Zenon DEF Contract!Send, Gated, Started, Running

\* Every step is one of the contract's, or none of its business.
LEMMA ContractSteps ==
  ASSUME IInv, [Next]_vars
  PROVE  [Contract!Next]_(Contract!vars)
<1>1. TypeOK /\ Tracking /\ Course
  BY DEF IInv
<1>2. plan' = plan
  BY DEF Next, Step, Done, IssueParent, RefuseParent, ReturnParent, SpawnOverlapping, Intercept,
         WakeParent, Settle, WakeLate, DispatchFirst, MoveChild, FinishDone, ReturnChild, WakeChild,
         RetainChild, ReleaseChild, IssueChild, RefuseChild, Stop, StopRetained, SendingComplete,
         Cap, vars
<1>3. Gated' = Gated
  BY <1>2 DEF Gated
<1>4. child \in [Children -> ChildStates] /\ gather \in SUBSET Children
  BY <1>1 DEF TypeOK
<1>5. ASSUME TurnsSent' = TurnsSent, Started' = Started, Running' = Running
      PROVE  [Contract!Next]_(Contract!vars)
  BY <1>3, <1>5 DEF Contract!vars, Gated, Started, Running
<1>6. ASSUME TurnsSent' = TurnsSent, Started' = Started,
             NEW cs \in SUBSET Running, Running' = Running \ cs
      PROVE  [Contract!Next]_(Contract!vars)
  <2>1. Contract!Finish(cs)
    BY <1>3, <1>6, Zenon DEF Contract!Finish, Gated, Started, Running
  <2>2. cs \in SUBSET Children
    BY DEF Running
  <2> QED BY <2>1, <2>2 DEF Contract!Next
<1>7. ASSUME turn' = turn, parent' \in Unsent <=> parent \in Unsent,
             \A c \in Children : child'[c] = "none" <=> child[c] = "none",
             \A c \in Children : child'[c] = "over" <=> child[c] = "over"
      PROVE  [Contract!Next]_(Contract!vars)
  <2>1. Started' = Started /\ Running' = Running
    BY <1>7 DEF Started, Running
  <2>2. TurnsSent' = TurnsSent
    BY <1>7, SentKept
  <2> QED BY <1>5, <2>1, <2>2
<1>8. ASSUME NEW c \in Children, child[c] \notin {"none", "over"},
             NEW s \in ChildStates \ {"none", "over"}, child' = [child EXCEPT ![c] = s],
             UNCHANGED parentVars
      PROVE  [Contract!Next]_(Contract!vars)
  <2>1. /\ \A d \in Children : child'[d] = "none" <=> child[d] = "none"
        /\ \A d \in Children : child'[d] = "over" <=> child[d] = "over"
    BY <1>4, <1>8
  <2> QED BY <1>7, <1>8, <2>1 DEF parentVars
<1>9. ASSUME NEW c \in Children, child[c] \notin {"none", "over"}, ChildDone(c),
             child' = [child EXCEPT ![c] = "over"]
      PROVE  [Contract!Next]_(Contract!vars)
  <2>1. Running' = Running \ {c} /\ Started' = Started /\ TurnsSent' = TurnsSent
    BY <1>9, DoneMoves
  <2>2. {c} \in SUBSET Running
    BY <1>9 DEF Running
  <2> QED BY <1>6, <2>1, <2>2
<1>10. {"dispatching", "wire", "retained", "refused", "due", "issuing", "released", "stranded"}
         \subseteq ChildStates \ {"none", "over"}
  BY DEF ChildStates
<1>11. CASE IssueParent
  BY <1>11, SendMoves DEF Contract!Next
<1>12. CASE RefuseParent \/ ReturnParent \/ WakeParent \/ Cap \/ UNCHANGED vars
  <2>1. turn' = turn /\ child' = child /\ (parent' \in Unsent <=> parent \in Unsent)
    BY <1>12 DEF RefuseParent, ReturnParent, WakeParent, Cap, vars, childVars, parentVars, Unsent
  <2> QED BY <1>7, <2>1
<1>13. CASE SpawnOverlapping
  <2> DEFINE bs == {b \in plan.overlap : plan.spawn[b] = turn}
  <2>1. overlapDue /\ Spawn(bs) /\ turn' = turn /\ parent' = parent
    BY <1>13 DEF SpawnOverlapping, parentVars
  <2>2. parent \notin Unsent
    BY <1>1, <2>1 DEF Course, Unsent
  <2>3. bs \in SUBSET Branches /\ turn \in Nat
    BY <1>1, Kinds, Planned
  <2>4. bs \cap Begun = {}
    <3>1. ~(turn < turn)
      BY <2>3
    <3>2. \A b \in bs : b \in plan.overlap /\ plan.spawn[b] = turn
      OBVIOUS
    <3> QED BY <2>1, <3>1, <3>2 DEF Begun
  <2>5. \A b \in bs : plan.spawn[b] = turn
    OBVIOUS
  <2>6. PICK B : B = bs
    OBVIOUS
  <2> HIDE DEF bs
  <2>7. \E cs \in SUBSET Children : Contract!Start(cs)
    <3>1. /\ B \in SUBSET Branches /\ B \cap Begun = {} /\ Spawn(B)
          /\ \A b \in B : plan.spawn[b] = turn
      <4>1. Spawn(B)
        BY <2>1, <2>6 DEF Spawn
      <4> QED BY <2>3, <2>4, <2>5, <2>6, <4>1
    <3>2. parent' \notin Unsent
      BY <2>1, <2>2
    <3> QED BY <1>2, <2>1, <2>2, <3>1, <3>2, StartMoves
  <2> QED BY <2>7 DEF Contract!Next
<1>14. CASE Intercept
  <2> DEFINE bs == {b \in Branches \ plan.overlap : plan.spawn[b] = turn}
  <2>1. parent = "returned" /\ parent \notin Unsent
    BY <1>14 DEF Intercept, Unsent
  <2>2. CASE parent' = "spawning" /\ Spawn(bs) /\ turn' = turn
    <3>1. bs \in SUBSET Branches /\ turn \in Nat
      BY <1>1, Kinds
    <3>2. \A b \in bs : plan.spawn[b] = turn /\ b \notin plan.overlap
      OBVIOUS
    <3>3. bs \cap Begun = {}
      <4>1. ~(turn < turn)
        BY <3>1
      <4> QED BY <2>1, <3>2, <4>1 DEF Begun
    <3>4. PICK B : B = bs
      OBVIOUS
    <3> HIDE DEF bs
    <3>5. Spawn(B)
      BY <2>2, <3>4 DEF Spawn
    <3>6. B \in SUBSET Branches /\ B \cap Begun = {} /\ \A b \in B : plan.spawn[b] = turn
      BY <3>1, <3>2, <3>3, <3>4
    <3>7. parent' \notin Unsent
      BY <2>2 DEF Unsent
    <3>8. \E cs \in SUBSET Children : Contract!Start(cs)
      BY <1>2, <2>1, <2>2, <3>5, <3>6, <3>7, StartMoves
    <3> QED BY <3>8 DEF Contract!Next
  <2>3. CASE MaybeSuspend(future, join) /\ UNCHANGED childVars
    <3>1. (parent' = "suspended" /\ turn' = turn) \/ Continue
      BY <2>3 DEF MaybeSuspend
    <3>2. TurnsSent' = TurnsSent
      BY <2>1, <3>1, SentKept
    <3>3. Started' = Started /\ Running' = Running
      BY <2>3 DEF Started, Running, childVars
    <3> QED BY <1>5, <3>2, <3>3
  <2> QED BY <1>14, <2>2, <2>3 DEF Intercept
<1>15. CASE Settle
  <2>1. PICK cs : cs = {c \in gather : child[c] = "refused"}
    OBVIOUS
  <2>2. child' = [c \in Children |-> IF c \in cs THEN "over" ELSE child[c]]
    BY <1>15, <2>1 DEF Settle
  <2>3. cs \in SUBSET Children /\ \A c \in cs : child[c] = "refused"
    BY <1>4, <2>1
  <2>4. cs \in SUBSET Running /\ Started' = Started /\ Running' = Running \ cs
    <3>1. \A c \in Children : child'[c] = IF c \in cs THEN "over" ELSE child[c]
      BY <2>2
    <3> QED BY <2>3, <3>1 DEF Running, Started
  <2>5. TurnsSent' = TurnsSent
    <3>1. \/ /\ holder = "intercept"
             /\ (parent' = "suspended" /\ turn' = turn) \/ Continue
          \/ active # NoGate /\ DispatchJoin(active)
          \/ turn' = turn /\ parent' = parent
      BY <1>15 DEF Settle, ActiveDrained, MaybeSuspend, parentVars
    <3>2. holder = "intercept" => parent = "spawning"
      BY <1>1 DEF Course
    <3> QED BY <3>1, <3>2, SentKept
  <2> QED BY <1>6, <2>4, <2>5
<1>16. ASSUME NEW c \in Children, FinishDone(c)
       PROVE  [Contract!Next]_(Contract!vars)
  <2>1. c \in finishing /\ child' = child
    BY <1>16 DEF FinishDone, childVars
  <2>2. TurnsSent' = TurnsSent
    <3>1. PICK a \in Branches : c \in Kids(a)
      <4>1. c \in Children /\ child[c] # "none" /\ Born
        BY <1>1, <2>1 DEF Tracking, IInv
      <4> QED BY <4>1 DEF Born, Begun
    <3>2. GatesOf(c) \in SUBSET Gates /\ NoGate \notin Gates
      BY <1>1, <3>1, Kinds, Planned
    <3>3. \/ turn' = turn /\ parent' = parent
          \/ active \in GatesOf(c) /\ DispatchJoin(active)
      BY <1>16 DEF FinishDone, parentVars
    <3> QED BY <3>2, <3>3, SentKept
  <2>3. Started' = Started /\ Running' = Running
    BY <2>1 DEF Started, Running
  <2> QED BY <1>5, <2>2, <2>3
<1>17. ASSUME NEW c \in Children, NEW s \in ChildStates \ {"none", "over"}, MoveChild(c, s),
              child[c] \notin {"none", "over"}
       PROVE  [Contract!Next]_(Contract!vars)
  <2>1. child' = [child EXCEPT ![c] = s] /\ UNCHANGED parentVars
    BY <1>17 DEF MoveChild
  <2> QED BY <1>8, <1>17, <2>1
<1>18. ASSUME NEW c \in Children, Stop(c), child[c] \notin {"none", "over"}
       PROVE  [Contract!Next]_(Contract!vars)
  BY <1>9, <1>18 DEF Stop
<1>19. ASSUME NEW c \in Children,
              WakeLate(c) \/ DispatchFirst(c) \/ WakeChild(c) \/ RetainChild(c) \/ ReleaseChild(c)
                \/ IssueChild(c)
       PROVE  [Contract!Next]_(Contract!vars)
  <2>1. CASE WakeLate(c)
    <3>1. child[c] \notin {"none", "over"} /\ child' = [child EXCEPT ![c] = "dispatching"]
          /\ UNCHANGED parentVars
      BY <2>1 DEF WakeLate
    <3> QED BY <1>8, <1>10, <3>1
  <2> QED BY <1>10, <1>17, <1>19, <2>1 DEF DispatchFirst, WakeChild, RetainChild, ReleaseChild, IssueChild
<1>20. ASSUME NEW c \in Children, ReturnChild(c)
       PROVE  [Contract!Next]_(Contract!vars)
  <2>1. /\ child[c] \notin {"none", "over"}
        /\ \/ child' = [child EXCEPT ![c] = "over"] /\ ChildDone(c)
           \/ (\E s \in {"due", "issuing"} : child' = [child EXCEPT ![c] = s]) /\ UNCHANGED parentVars
    BY <1>20 DEF ReturnChild
  <2> QED BY <1>8, <1>9, <1>10, <2>1
<1>21. ASSUME NEW c \in Children, RefuseChild(c) \/ StopRetained(c)
       PROVE  [Contract!Next]_(Contract!vars)
  <2>1. child[c] \notin {"none", "over"} /\ (Stop(c) \/ MoveChild(c, "stranded"))
    BY <1>21 DEF RefuseChild, StopRetained
  <2> QED BY <1>10, <1>17, <1>18, <2>1
<1>22. CASE SendingComplete
  <2>1. turn' = turn /\ parent' = IF parent = "due" THEN "dropped" ELSE parent
    BY <1>22 DEF SendingComplete
  <2>2. \A c \in Children : child'[c] = CASE child[c] \in {"due", "released"} -> "stranded"
                                          [] child[c] = "retained" -> "stopping"
                                          [] OTHER -> child[c]
    BY <1>22 DEF SendingComplete
  <2>3. ASSUME NEW c \in Children
        PROVE  /\ child'[c] = "none" <=> child[c] = "none"
               /\ child'[c] = "over" <=> child[c] = "over"
    <3>1. \/ child[c] \in {"due", "released"} /\ child'[c] = "stranded"
          \/ child[c] = "retained" /\ child'[c] = "stopping"
          \/ child'[c] = child[c]
      BY <2>2
    <3> QED BY <3>1
  <2>4. parent' \in Unsent <=> parent \in Unsent
    BY <2>1 DEF Unsent
  <2> QED BY <1>7, <2>1, <2>3, <2>4
<1> QED BY <1>11, <1>12, <1>13, <1>14, <1>15, <1>16, <1>19, <1>20, <1>21, <1>22 DEF Next, Step, Done

\* The joins keep the contract: a turn that joins branches goes out when none of their
\* children is running, no child is started for a turn that went out, and each turn
\* goes out once, after the one before it.
THEOREM ContractImplemented == Spec => ImplementsContract
<1>1. Init => Contract!Init
  <2> SUFFICES ASSUME Init PROVE Contract!Init
    OBVIOUS
  <2>1. TypeOK
    BY InitHolds DEF IInv
  <2>2. turn = 0 /\ parent = "issuing" /\ child = [c \in Children |-> "none"]
    BY DEF Init
  <2>3. TurnsSent = 0 /\ Started = {} /\ Running = {}
    BY <2>2 DEF TurnsSent, Started, Running
  <2>4. Gated \in [0 .. NumTurns - 1 -> SUBSET Children]
    <3>1. \A b \in Branches : plan.kids[b] \subseteq Children
      BY <2>1, Planned DEF Kids
    <3>2. \A t \in 0 .. Last : UNION {plan.kids[b] : b \in {a \in Branches : t \in plan.gates[a]}}
                                 \in SUBSET Children
      BY <3>1
    <3> QED BY <3>2 DEF Gated, Last
  <2> QED BY <2>3, <2>4 DEF Contract!Init, Gated, Started, Running
<1>2. IInv /\ [Next]_vars => [Contract!Next]_(Contract!vars)
  BY ContractSteps
<1> QED BY <1>1, <1>2, Invariance, PTL DEF Spec, ImplementsContract, Contract!Spec
===============================================================================
