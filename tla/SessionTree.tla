----------------------------- MODULE SessionTree -----------------------------
(***************************************************************************)
(* SessionTreeRegistry (aiperf/timing/session_tree.py) and the parts of    *)
(* the issuer, the branch orchestrator, the callback handler, the runner   *)
(* and the agentic-replay strategy that drive it in a profiling phase.     *)
(*                                                                         *)
(* A session tree is a root conversation and the subagents it spawned.     *)
(* One session slot belongs to the whole tree; the registry gives it back  *)
(* when the root has sent its last turn and every descendant has ended,    *)
(* and the freed lane starts a fresh root.  At the start of the phase each *)
(* lane resumes a snapshot: a root that goes on, a root that waits for     *)
(* children at a join, or only the children a finished root left behind.   *)
(*                                                                         *)
(* Handlers suspend where the code awaits a slot: between the children's   *)
(* registration and the root's terminal, and between a join's release and  *)
(* its last child's account.  Whether a prefill slot is free is left open. *)
(*                                                                         *)
(* Left out: a phase bounded by a number of conversations (its roots may   *)
(* not start while they may still go on), ramps of the session limit, a    *)
(* stop in the middle of the seeding loop, fail-fast, and the turns of a   *)
(* child, which is dispatched and ends.  Nobody but a root spawns: the     *)
(* orchestrator refuses nested branches.                                   *)
(***************************************************************************)
EXTENDS Integers, FiniteSets

CONSTANTS Roots, Children,
          NumLanes,        \* --concurrency: lanes and session slots
          MaxTurns,        \* the most turns a root has left
          NoTree, NoRoot

ASSUME SetsAssumption == /\ IsFiniteSet(Roots) /\ IsFiniteSet(Children)
                         /\ NoRoot \notin Roots
ASSUME NumbersAssumption == NumLanes \in Nat \ {0} /\ MaxTurns \in Nat \ {0}
ASSUME NoTreeAssumption == NoTree \notin [pending : BOOLEAN, outstanding : Nat]

VARIABLES
  phase,      \* open, stopped (no turn may be sent) or over
  unseeded,   \* lanes whose snapshot has not been resumed yet
  recycles,   \* freed lanes whose next root is scheduled
  free,       \* session slots nobody holds
  trees,      \* _trees: of each root, its open tree
  buffered,   \* _pending_descendants
  root,       \* where each root stands
  left,       \* turns a root still has to return
  child,      \* where each child stands
  parent,     \* the root of a child
  gating      \* the children a join waits for

laneVars == <<unseeded, recycles>>
rootVars == <<root, left>>
bornVars == <<parent, gating>>
vars == <<phase, laneVars, free, trees, buffered, rootVars, child, bornVars>>

Open == {r \in Roots : trees[r] # NoTree}
Unborn == {c \in Children : child[c] = "unborn"}

\* The children a join of r still waits for; those at work or to come; and those
\* that ended before the tree of r was open.
Blocking(r) == {c \in gating : parent[c] = r}
Live(r) == {c \in Children : parent[c] = r /\ child[c] \notin {"done", "forgotten"}}
Forgotten(r) == {c \in Children : parent[c] = r /\ child[c] = "forgotten"}

Init ==
  /\ phase = "open"
  /\ unseeded = NumLanes /\ recycles = 0 /\ free = NumLanes
  /\ trees = [r \in Roots |-> NoTree]
  /\ buffered = [r \in Roots |-> 0]
  /\ root = [r \in Roots |-> "fresh"]
  /\ left = [r \in Roots |-> 0]
  /\ child = [c \in Children |-> "unborn"]
  /\ parent = [c \in Children |-> NoRoot]
  /\ gating = {}

-------------------------------------------------------------------------------
\* The registry.  Slips of one definition each are kept beside it.

NewTreeUnaware(isPending, n) == [pending |-> isPending, outstanding |-> 0]
NewTree(isPending, n) == [pending |-> isPending, outstanding |-> n]

DrainedAtRoot(t) == ~t.pending
Drained(t) == ~t.pending /\ t.outstanding <= 0

\* The tree of r becomes t; once drained it closes, its slot is freed and its
\* lane is scheduled to start again.
SettleKeepingTree(r, t) ==
  IF Drained(t)
  THEN trees' = [trees EXCEPT ![r] = t] /\ free' = free + 1 /\ recycles' = recycles + 1
  ELSE trees' = [trees EXCEPT ![r] = t] /\ UNCHANGED <<free, recycles>>

Settle(r, t) ==
  IF Drained(t)
  THEN trees' = [trees EXCEPT ![r] = NoTree] /\ free' = free + 1 /\ recycles' = recycles + 1
  ELSE trees' = [trees EXCEPT ![r] = t] /\ UNCHANGED <<free, recycles>>

WithoutDescendant(t) ==
  [t EXCEPT !.outstanding = IF @ > 0 THEN @ - 1 ELSE @]

OnDescendantDoneUnsettled(r) ==          \* the last descendant releases nothing
  /\ trees' = [trees EXCEPT ![r] = IF @ = NoTree THEN @ ELSE WithoutDescendant(@)]
  /\ UNCHANGED <<free, recycles>>

OnDescendantDone(r) ==
  IF r \in Open THEN Settle(r, WithoutDescendant(trees[r]))
                ELSE UNCHANGED <<trees, free, recycles>>

\* A child that has ended is accounted.  In a tree that is not open the registry
\* counts it among the late events and forgets it: it stays buffered.
Account(c) ==
  /\ child' = [child EXCEPT ![c] = IF parent[c] \in Open THEN "done" ELSE "forgotten"]
  /\ OnDescendantDone(parent[c])

OnRootTerminalAlone(r) ==                \* only a root without descendants ends
  IF r \in Open /\ trees[r].outstanding = 0
  THEN Settle(r, [trees[r] EXCEPT !.pending = FALSE])
  ELSE UNCHANGED <<trees, free, recycles>>

OnRootTerminal(r) ==
  IF r \in Open THEN Settle(r, [trees[r] EXCEPT !.pending = FALSE])
                ELSE UNCHANGED <<trees, free, recycles>>

RegisterDescendants(r, n) ==
  IF r \in Open
  THEN /\ trees' = [trees EXCEPT ![r].outstanding = @ + n]
       /\ UNCHANGED buffered
  ELSE /\ buffered' = [buffered EXCEPT ![r] = @ + n]
       /\ UNCHANGED trees

\* A slot is taken and the tree of r opened with the descendants buffered.
OpenTree(r) ==
  /\ free > 0 /\ free' = free - 1
  /\ trees' = [trees EXCEPT ![r] = NewTree(TRUE, buffered[r])]
  /\ buffered' = [buffered EXCEPT ![r] = 0]

\* Roots are drawn one after the other, in a fixed order.
DrawnNext(r) == root[r] = "fresh" /\ r = CHOOSE s \in Roots : root[s] = "fresh"

-------------------------------------------------------------------------------
\* The start of the phase: each lane resumes its snapshot.

AdoptUnrecorded(r, new, joined, stage) ==   \* _child_root is not written
  /\ child' = [c \in Children |-> IF c \in new THEN stage ELSE child[c]]
  /\ gating' = gating \cup joined
  /\ UNCHANGED parent

Adopt(r, new, joined, stage) ==
  /\ child' = [c \in Children |-> IF c \in new THEN stage ELSE child[c]]
  /\ parent' = [c \in Children |-> IF c \in new THEN r ELSE parent[c]]
  /\ gating' = gating \cup joined

\* The root goes on: its turn is scheduled, its children are due on their own.
SeedRoot(r, new, joined) ==
  /\ left'[r] > IF joined # {} THEN 1 ELSE 0
  /\ RegisterDescendants(r, Cardinality(new))
  /\ root' = [root EXCEPT ![r] = "starting"]
  /\ UNCHANGED free

\* The root waits at a join or is gone: the lane takes the slot itself.
SeedLane(r, new, joined) ==
  /\ new # {} /\ (left'[r] > 0 <=> joined # {})
  /\ free > 0 /\ free' = free - 1
  /\ root' = [root EXCEPT ![r] = IF joined # {} THEN "gated" ELSE "absent"]
  /\ trees' = [trees EXCEPT ![r] = NewTree(joined # {}, buffered[r] + Cardinality(new))]
  /\ UNCHANGED buffered

ResumeSnapshot(r) ==
  /\ phase = "open" /\ unseeded > 0 /\ DrawnNext(r)
  /\ unseeded' = unseeded - 1
  /\ \E new \in SUBSET Unborn, n \in 0..MaxTurns :
       \E joined \in SUBSET new :
         /\ Adopt(r, new, joined, "seeded")
         /\ left' = [left EXCEPT ![r] = n]
         /\ SeedRoot(r, new, joined) \/ SeedLane(r, new, joined)
  /\ UNCHANGED <<phase, recycles>>

\* A freed lane draws its next root, unless the phase has stopped.
RecycleLane(r) ==
  /\ phase # "over" /\ recycles > 0 /\ DrawnNext(r)
  /\ recycles' = recycles - 1
  /\ IF phase = "open"
     THEN \E n \in 1..MaxTurns : /\ root' = [root EXCEPT ![r] = "starting"]
                           /\ left' = [left EXCEPT ![r] = n]
     ELSE UNCHANGED rootVars
  /\ UNCHANGED <<phase, unseeded, free, trees, buffered, child, bornVars>>

-------------------------------------------------------------------------------
\* Roots.

RootMoves(r, stage) ==
  /\ root' = [root EXCEPT ![r] = stage]
  /\ UNCHANGED <<phase, unseeded, child, bornVars>>

\* issue_credit of a session's first turn: the slot, the tree, then the prefill
\* slot, for which the turn may have to wait (or need not).
StartRoot(r) ==
  /\ phase = "open" /\ root[r] = "starting"
  /\ OpenTree(r)
  /\ RootMoves(r, "opening")
  /\ UNCHANGED <<recycles, left>>

\* Branches of the turn start children; only a root that goes on can join them.
Spawn(r) ==
  \E new \in SUBSET Unborn :
    \E joined \in SUBSET new :
      /\ joined # {} => left[r] > 1
      /\ Adopt(r, new, joined, "spawned")
      /\ RegisterDescendants(r, Cardinality(new))

\* Sent; branches recorded as overlapping their turn start with it.
SendTurn(r) ==
  /\ phase = "open" /\ root[r] \in {"opening", "sending", "joining"}
  /\ root' = [root EXCEPT ![r] = "wire"]
  /\ Spawn(r)
  /\ UNCHANGED <<phase, laneVars, free, left>>

\* The stop refuses a turn that waits.  A first turn gives its session slot
\* back; the tree it has opened stays in the registry.
RefuseTurn(r) ==
  /\ phase = "stopped"
  /\ \/ /\ root[r] = "starting" /\ RootMoves(r, "unstarted")
        /\ UNCHANGED free
     \/ /\ root[r] = "opening" /\ RootMoves(r, "refused")
        /\ free' = free + 1
     \/ /\ root[r] \in {"sending", "joining"} /\ RootMoves(r, "stalled")
        /\ UNCHANGED free
  /\ UNCHANGED <<recycles, left, trees, buffered>>

\* A turn returns.  The orchestrator starts its remaining children, then
\* suspends until they are dispatched.
RootReturns(r) ==
  /\ phase # "over" /\ root[r] = "wire"
  /\ \/ root' = [root EXCEPT ![r] = "returned"]
     \/ left[r] > 1 /\ root' = [root EXCEPT ![r] = "overflowed"]
  /\ Spawn(r)
  /\ UNCHANGED <<phase, laneVars, free, left>>

NextStage(r) ==
  CASE Blocking(r) # {}        -> "gated"
    [] phase # "open"          -> "stalled"
    [] root[r] = "overflowed"  -> "truncated"
    [] OTHER                   -> "sending"

\* The rest of on_credit_return: after its last turn the root is terminal, else
\* it waits at its join, goes on, or is given up.
RootResumes(r) ==
  /\ phase # "over" /\ root[r] \in {"returned", "overflowed"}
  /\ left' = [left EXCEPT ![r] = @ - 1]
  /\ \/ /\ left[r] = 1
        /\ RootMoves(r, "finished")
        /\ OnRootTerminal(r)
     \/ /\ left[r] > 1
        /\ RootMoves(r, NextStage(r))
        /\ UNCHANGED <<recycles, free, trees>>
  /\ UNCHANGED buffered

-------------------------------------------------------------------------------
\* Children.

\* A snapshot's child is due at its own time, before its root or after it.
DispatchChild(c) ==
  /\ phase = "open" /\ child[c] \in {"seeded", "spawned"}
  /\ child' = [child EXCEPT ![c] = "wire"]
  /\ UNCHANGED <<phase, laneVars, free, trees, buffered, rootVars, bornVars>>

\* The join is released by the last child it waits for.
ReleasesJoin(c) == root[parent[c]] = "gated" /\ Blocking(parent[c]) = {c}

\* A child ends: its last turn returned, in error or not, or it was stopped.
\* The child that releases a join is accounted when the join turn is issued.
ChildEnds(c) ==
  /\ phase # "over" /\ child[c] = "wire"
  /\ IF ReleasesJoin(c)
     THEN /\ child' = [child EXCEPT ![c] = "ending"]
          /\ root' = [root EXCEPT ![parent[c]] = "joining"]
          /\ UNCHANGED <<recycles, free, trees>>
     ELSE Account(c) /\ UNCHANGED root
  /\ gating' = gating \ {c}
  /\ UNCHANGED <<phase, unseeded, buffered, left, parent>>

JoinIssued(c) ==
  /\ phase # "over" /\ child[c] = "ending" /\ root[parent[c]] # "joining"
  /\ Account(c)
  /\ UNCHANGED <<phase, unseeded, buffered, rootVars, bornVars>>

\* The stop refuses a spawned child's first turn: it is taken back, and a join
\* it was the last to block is released.
RollBackChild(c) ==
  /\ phase = "stopped" /\ child[c] = "spawned"
  /\ root' = IF ReleasesJoin(c) THEN [root EXCEPT ![parent[c]] = "joining"] ELSE root
  /\ Account(c)
  /\ gating' = gating \ {c}
  /\ UNCHANGED <<phase, unseeded, buffered, left, parent>>

-------------------------------------------------------------------------------
Stop ==
  /\ phase = "open" /\ phase' = "stopped"
  /\ UNCHANGED <<laneVars, free, trees, buffered, rootVars, child, bornVars>>

\* The phase's tasks are cancelled and release_all closes the open trees.
Teardown ==
  /\ phase = "stopped" /\ phase' = "over"
  /\ free' = free + Cardinality(Open)
  /\ trees' = [r \in Roots |-> NoTree]
  /\ UNCHANGED <<laneVars, buffered, rootVars, child, bornVars>>

RootSteps(r) ==
  \/ ResumeSnapshot(r) \/ RecycleLane(r) \/ StartRoot(r) \/ SendTurn(r)
  \/ RefuseTurn(r) \/ RootReturns(r) \/ RootResumes(r)
ChildSteps(c) ==
  DispatchChild(c) \/ ChildEnds(c) \/ JoinIssued(c) \/ RollBackChild(c)
Progress == (\E r \in Roots : RootSteps(r)) \/ (\E c \in Children : ChildSteps(c)) \/ Teardown
Next == Progress \/ Stop

\* The event loop runs, workers answer, and scheduled turns come due; nobody
\* has to stop the phase.  Every step uses up a turn, a child or a root, so
\* fairness of their disjunction is fairness of each.
Spec == Init /\ [][Next]_vars /\ WF_vars(Progress)

-------------------------------------------------------------------------------
RootStages ==
  {"fresh", "absent", "starting", "opening", "wire", "returned", "overflowed", "sending",
   "gated", "joining", "finished", "unstarted", "refused", "stalled", "truncated"}

\* Types, and a child belongs to a root exactly once it is born.
TypeOK ==
  /\ phase \in {"open", "stopped", "over"}
  /\ unseeded \in 0..NumLanes /\ recycles \in 0..NumLanes
  /\ free \in Nat
  /\ trees \in [Roots -> [pending : BOOLEAN, outstanding : 0..Cardinality(Children)] \cup {NoTree}]
  /\ buffered \in [Roots -> 0..Cardinality(Children)]
  /\ root \in [Roots -> RootStages]
  /\ left \in [Roots -> 0..MaxTurns]
  /\ child \in [Children -> {"unborn", "seeded", "spawned", "wire", "ending", "done",
                          "forgotten"}]
  /\ parent \in [Children -> Roots \cup {NoRoot}]
  /\ gating \subseteq Children
  /\ \A c \in Children : child[c] = "unborn" <=> parent[c] = NoRoot

TurnedAway == {r \in Roots : root[r] = "refused"}

\* One slot per open tree: a slot is taken exactly while its tree is open.  The
\* exception is a root the stop turned away at its first turn: it has given its
\* slot back, its tree stays open, and teardown gives the slot back again.
SlotsMatchTrees ==
  free = NumLanes - Cardinality(Open \ TurnedAway)
         + IF phase = "over" THEN Cardinality(TurnedAway) ELSE 0

\* What the registry counts, outstanding in an open tree or buffered for one not
\* opened yet, are the live descendants and those of a snapshot that ended before
\* their root's tree opened, one each: register_descendants counted them and
\* on_descendant_done did not.  So no tree drains while a subagent of it is at work.
OutstandingExact ==
  phase # "over" =>
    \A r \in Roots :
      LET counted == Cardinality(Live(r)) + Cardinality(Forgotten(r))
      IN  /\ r \in Open => trees[r].outstanding = counted
          /\ r \notin Open => buffered[r] = counted

\* A tree without a root to come closes with its last subagent (_maybe_release),
\* unless one of them was forgotten: while the phase sends, it has work.
OpenTreesHaveWork ==
  phase = "open" =>
    \A r \in Open : root[r] \in {"absent", "finished"} /\ Forgotten(r) = {} => Live(r) # {}

\* Every open tree is closed, by its drain or by the end of the phase.  Until the
\* stop, two kinds may stay: those whose root was given up on an overflow, and
\* those that count a forgotten child.
EveryTreeCloses ==
  \A r \in Roots :
    r \in Open ~> \/ r \notin Open
                  \/ phase = "open" /\ (root[r] = "truncated" \/ Forgotten(r) # {})

\* "Account the root's terminal turn returning (or root cancel/truncate)"
\* (session_tree.py): a truncated root is terminal, and its tree releases its slot
\* with its last descendant.  One given up on an overflow that is not its last turn
\* is never declared so, and its tree holds its slot.
TruncatedRootsRelease ==
  phase = "open" => \A r \in Open : root[r] = "truncated" => Live(r) # {}
===============================================================================
