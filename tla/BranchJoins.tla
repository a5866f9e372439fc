----------------------------- MODULE BranchJoins -----------------------------
(***************************************************************************)
(* BranchOrchestrator (aiperf/timing/branch_orchestrator.py) at work for   *)
(* one parent conversation: a returned turn, or one that goes out, starts  *)
(* the children of the branches declared on it; a later turn may have to   *)
(* wait for some of them; and the phase may stop sending at any moment.    *)
(*                                                                         *)
(* A child is tracked from its start until it is done: its last turn came  *)
(* back, its first turn was refused (it is rolled back), or a later one    *)
(* was (it is stopped).  Each join counts the children expected of every   *)
(* branch it waits for, and remembers those that reported.                 *)
(*                                                                         *)
(* Whether a prefill slot is free is the choice of the environment: other  *)
(* sessions compete for the slots.  Left out: the sticky routing and the   *)
(* session tree of the children (StickyRouter, SessionTree), snapshots     *)
(* (ReplayLane), pre-session branches, AIPERF_DAG_FAIL_FAST, and a send    *)
(* that raises.                                                            *)
(***************************************************************************)
EXTENDS Integers, FiniteSets

CONSTANTS Branches, Children,
          NumTurns,    \* turns of the parent
          ChildTurns,  \* turns of a child
          Plans        \* the conversations: see PlansAssumption

Gates == 1 .. NumTurns - 1

\* kind: the agentic replay, or a strategy without a replay barrier.  A branch
\* is declared on a turn, has its children, and is joined by some later turns;
\* the overlapping ones start when the turn goes out.  A late child has its
\* recorded offset to wait for; a broken one cannot be started; the turns of a
\* held one wait for other streams at the replay's barrier.
ASSUME ChildrenAssumption == IsFiniteSet(Children)
ASSUME TurnsAssumption == {NumTurns, ChildTurns} \subseteq Nat \ {0}
ASSUME PlansAssumption ==
  \A p \in Plans :
    /\ p.kind \in {"replay", "rate"}
    /\ p.spawn \in [Branches -> 0 .. NumTurns - 1]
    /\ p.gates \in [Branches -> SUBSET Gates]
    /\ p.kids \in [Branches -> SUBSET Children]
    /\ p.overlap \subseteq Branches
    /\ {p.late, p.broken, p.held} \subseteq SUBSET Children
    /\ \A b \in Branches : \A g \in p.gates[b] : g > p.spawn[b]
    /\ \A a, b \in Branches : a = b \/ p.kids[a] \cap p.kids[b] = {}
    /\ p.kind = "rate" => p.overlap = {} /\ p.held = {}

VARIABLES
  plan,
  capped,      \* the request cap, the duration or a cancel: nothing may be sent
  sendingOver, \* is_sending_complete, and its teardown of what was scheduled
  turn,        \* the parent's current turn
  parent,      \* where it is, see ParentStates
  child,       \* where the current turn of each child is, see ChildStates
  childTurn,
  future,      \* _future_joins: the gates with a join nobody waits for yet
  active,      \* _active_joins: the gate the parent is suspended on, or NoGate
  join,        \* of each gate: expected, completed and registered, by branch
  tracked,     \* _child_to_join
  descendants, \* _descendant_counts
  finishing,   \* done children whose report waited for a join turn to go out
  holder,      \* who holds the parent's lock
  gather,      \* the children whose first turn the holder is dispatching
  overlapDue   \* the turn that went out still has to start its branches

parentVars == <<turn, parent>>
childVars == <<child, childTurn>>
stopVars == <<capped, sendingOver>>
joinVars == <<future, active, join, tracked, descendants, finishing>>
lockVars == <<holder, gather, overlapDue>>
vars == <<plan, stopVars, parentVars, childVars, joinVars, lockVars>>

NoGate == 0
ParentStates == {"issuing", "wire", "returned", "spawning", "due", "suspended",
                 "over", "dropped"}
ChildStates == {"none", "late", "dispatching", "refused", "retained", "released",
                "issuing", "wire", "due", "stopping", "stranded", "over"}

Last == NumTurns - 1
Replay == plan.kind = "replay"
BranchOf(c) == CHOOSE b \in Branches : c \in plan.kids[b]
GatesOf(c) == plan.gates[BranchOf(c)]
Prereqs(g) == {b \in Branches : g \in plan.gates[b]}

CanSendAnyTurn == ~capped /\ ~sendingOver
CanSendChildTurn == ~capped

Init ==
  /\ plan \in Plans
  /\ capped = FALSE /\ sendingOver = FALSE
  /\ turn = 0 /\ parent = "issuing"
  /\ child = [c \in Children |-> "none"] /\ childTurn = [c \in Children |-> 0]
  /\ future = {} /\ active = NoGate
  /\ join = [g \in Gates |-> [expected   |-> [b \in Branches |-> 0],
                              completed  |-> [b \in Branches |-> {}],
                              registered |-> {}]]
  /\ tracked = {} /\ descendants = 0 /\ finishing = {}
  /\ holder = "none" /\ gather = {} /\ overlapDue = FALSE

-------------------------------------------------------------------------------
\* PrereqState.is_done and PendingBranchJoin.is_satisfied.
IsDone(j, b) == b \in j.registered /\ Cardinality(j.completed[b]) >= j.expected[b]
Satisfied(j, g) == \A b \in Prereqs(g) : IsDone(j, b)

\* dispatch_join_turn: the replay submits the turn as any other; elsewhere it
\* goes out now or not at all.
DispatchJoin(g) ==
  /\ turn' = g
  /\ parent' \in IF Replay THEN {"issuing"} ELSE {"issuing", "dropped"}

\* The children in cs report to gate g; the slip counts a report as a child
\* less to wait for as well.
ReportTwice(j, g, cs) ==
  [j EXCEPT !.completed = [b \in Branches |-> @[b] \cup {c \in cs : c \in plan.kids[b]}],
            !.expected = [b \in Branches |->
                            IF cs \cap plan.kids[b] = {} THEN @[b] ELSE @[b] - 1]]
Report(j, g, cs) ==
  [j EXCEPT !.completed = [b \in Branches |-> @[b] \cup {c \in cs : c \in plan.kids[b]}]]

\* _handle_child_done, up to the first join turn it releases; a satisfied join
\* nobody waits for is forgotten.
ChildDone(c) ==
  LET mine == GatesOf(c) \cap (future \cup {active})
      firing == {g \in mine \cap {active} : Satisfied(Report(join[g], g, {c}), g)}
      marked == IF firing = {} THEN mine ELSE firing
      after == [g \in Gates |-> IF g \in marked THEN Report(join[g], g, {c}) ELSE join[g]]
  IN  /\ tracked' = tracked \ {c}
      /\ join' = after
      /\ future' = {g \in future : g \notin marked \/ ~Satisfied(after[g], g)}
      /\ IF firing = {}
         THEN /\ descendants' = descendants - 1
              /\ UNCHANGED <<active, finishing, parentVars>>
         ELSE /\ active' = NoGate
              /\ finishing' = finishing \cup {c}
              /\ DispatchJoin(active)
              /\ UNCHANGED descendants

\* The rest of it, for the later joins of a branch that has several.  The slip
\* takes the first join for the only one.
FinishDoneQuietly(c) ==
  /\ c \in finishing /\ finishing' = finishing \ {c}
  /\ descendants' = descendants - 1
  /\ UNCHANGED <<plan, stopVars, childVars, tracked, future, active, join,
                 parentVars, lockVars>>

FinishDone(c) ==
  LET mine == {g \in GatesOf(c) \cap (future \cup {active}) :
                 c \notin join[g].completed[BranchOf(c)]}
      after == [g \in Gates |-> IF g \in mine THEN Report(join[g], g, {c}) ELSE join[g]]
      firing == {g \in mine \cap {active} : Satisfied(after[g], g)}
  IN  /\ c \in finishing /\ finishing' = finishing \ {c}
      /\ join' = after
      /\ future' = {g \in future : g \notin mine \/ ~Satisfied(after[g], g)}
      /\ descendants' = descendants - 1
      /\ \/ firing = {} /\ UNCHANGED <<active, parentVars>>
         \/ firing # {} /\ active' = NoGate /\ DispatchJoin(active)
      /\ UNCHANGED <<plan, stopVars, childVars, tracked, lockVars>>

-------------------------------------------------------------------------------
\* The parent's turn goes out, and comes back.

IssueParent ==
  /\ parent = "issuing" /\ CanSendAnyTurn
  /\ parent' = "wire"
  /\ overlapDue' = (\E b \in plan.overlap : plan.spawn[b] = turn)
  /\ UNCHANGED <<plan, stopVars, turn, childVars, joinVars, holder, gather>>

RefuseParent ==
  /\ parent = "issuing" /\ ~CanSendAnyTurn
  /\ parent' = "dropped"
  /\ UNCHANGED <<plan, stopVars, turn, childVars, joinVars, lockVars>>

ReturnParent ==
  /\ parent = "wire" /\ parent' = "returned"
  /\ UNCHANGED <<plan, stopVars, turn, childVars, joinVars, lockVars>>

\* _spawn_children_and_register_gates, before its first await: every child is
\* counted before any is dispatched.
Spawn(bs) ==
  LET kids(b) == plan.kids[b] \ plan.broken
      started == UNION {kids(b) : b \in bs}
  IN  /\ join' = [g \in Gates |->
           LET mine == {b \in bs : g \in plan.gates[b]}
           IN  [join[g] EXCEPT
                  !.expected = [b \in Branches |->
                                  @[b] + IF b \in mine THEN Cardinality(kids(b)) ELSE 0],
                  !.registered = @ \cup mine]]
      /\ future' = future \cup UNION {plan.gates[b] : b \in bs}
      /\ tracked' = tracked \cup started
      /\ descendants' = descendants + Cardinality(started)
      /\ gather' = started \ plan.late
      /\ child' = [c \in Children |-> IF c \in started \cap plan.late THEN "late"
                                      ELSE IF c \in started THEN "dispatching"
                                      ELSE child[c]]
      /\ UNCHANGED <<active, finishing, childTurn>>

\* on_credit_issued.
SpawnOverlapping ==
  /\ overlapDue /\ holder = "none"
  /\ holder' = "issue" /\ overlapDue' = FALSE
  /\ Spawn({b \in plan.overlap : plan.spawn[b] = turn})
  /\ UNCHANGED <<plan, stopVars, parentVars>>

\* The parent goes on with its next turn, if it may; a dropped turn is not sent.
\* The slip does not look whether there is a next turn.
ContinueAlways ==
  /\ turn' = turn + 1
  /\ parent' \in IF CanSendAnyTurn THEN {"due", "issuing"} ELSE {"dropped"}

Continue ==
  \/ turn = Last /\ parent' = "over" /\ UNCHANGED turn
  \/ /\ turn # Last /\ turn' = turn + 1
     /\ parent' \in IF CanSendAnyTurn THEN {"due", "issuing"} ELSE {"dropped"}

\* _maybe_suspend_parent: is there a join at the next turn that is not satisfied?
MaybeSuspend(fut, jn) ==
  LET next == turn + 1
      waits == next \in fut /\ ~Satisfied(jn[next], next)
  IN  \/ /\ waits
         /\ active' = next /\ future' = fut \ {next}
         /\ parent' = "suspended" /\ UNCHANGED turn
      \/ /\ ~waits
         /\ future' = fut \ {next} /\ UNCHANGED active
         /\ Continue

\* intercept: under the lock, start what is not started yet and look ahead.
Intercept ==
  LET bs == {b \in Branches \ plan.overlap : plan.spawn[b] = turn}
  IN  /\ parent = "returned" /\ holder = "none" /\ ~overlapDue
      /\ \/ /\ bs # {}
            /\ parent' = "spawning" /\ holder' = "intercept"
            /\ Spawn(bs)
            /\ UNCHANGED <<turn, overlapDue>>
         \/ /\ bs = {}
            /\ MaybeSuspend(future, join)
            /\ UNCHANGED <<childVars, join, tracked, descendants, finishing, lockVars>>
      /\ UNCHANGED <<plan, stopVars>>

\* The delay to the parent's next turn has passed.
WakeParent ==
  /\ parent = "due" /\ parent' = "issuing"
  /\ UNCHANGED <<plan, stopVars, turn, childVars, joinVars, lockVars>>

-------------------------------------------------------------------------------
\* First turns of children.

MoveChild(c, s) ==
  /\ child' = [child EXCEPT ![c] = s]
  /\ UNCHANGED <<plan, stopVars, parentVars, childTurn, joinVars, lockVars>>

\* A late child's offset has passed and its task has the lock.
WakeLate(c) ==
  /\ child[c] = "late" /\ holder = "none"
  /\ holder' = "late" /\ gather' = {c}
  /\ child' = [child EXCEPT ![c] = "dispatching"]
  /\ UNCHANGED <<plan, stopVars, parentVars, childTurn, joinVars, overlapDue>>

\* A first turn goes out, is retained by the replay barrier, or is refused.
DispatchFirst(c) ==
  /\ child[c] = "dispatching"
  /\ \/ CanSendChildTurn /\ MoveChild(c, "wire")
     \/ c \in plan.held /\ ~sendingOver /\ MoveChild(c, "retained")
     \/ ~CanSendChildTurn /\ MoveChild(c, "refused")

\* _rollback_failed_first_turn for the refused children; the slip forgets the
\* joins they were counted into.
RollBackTracking(cs) == join
RollBack(cs) ==
  [g \in Gates |-> [join[g] EXCEPT !.expected = [b \in Branches |->
     LET lost == IF g \in plan.gates[b] THEN Cardinality(cs \cap plan.kids[b]) ELSE 0
         heard == Cardinality(join[g].completed[b])
     IN  IF lost = 0 THEN @[b] ELSE IF @[b] - lost > heard THEN @[b] - lost ELSE heard]]]

\* The join the parent is suspended on waits for nobody any more.  The slip looks
\* at the joins to come only.
ActiveDrainedIgnored(after) == FALSE
ActiveDrained(after) == active # NoGate /\ Satisfied(after[active], active)

\* Every first turn of the gather is settled: the refused children are rolled
\* back, joins that wait for nobody are forgotten or, where the parent is
\* suspended on one, dispatched, and the lock is handed back.
Settle ==
  LET failed == {c \in gather : child[c] = "refused"}
      after == RollBack(failed)
      ends == holder # "late" \/ failed # {}
      left == {g \in future : ~(ends /\ Satisfied(after[g], g))}
      fires == ends /\ ActiveDrained(after)
  IN  /\ holder # "none" /\ \A c \in gather : child[c] # "dispatching"
      /\ holder' = "none" /\ gather' = {}
      /\ join' = after
      /\ tracked' = tracked \ failed
      /\ descendants' = descendants - Cardinality(failed)
      /\ child' = [c \in Children |-> IF c \in failed THEN "over" ELSE child[c]]
      /\ \/ holder = "intercept" /\ MaybeSuspend(left, after)
         \/ /\ holder # "intercept" /\ fires
            /\ active' = NoGate /\ future' = left
            /\ DispatchJoin(active)
         \/ /\ holder # "intercept" /\ ~fires
            /\ future' = left
            /\ UNCHANGED <<active, parentVars>>
      /\ UNCHANGED <<plan, stopVars, childTurn, finishing, overlapDue>>

-------------------------------------------------------------------------------
\* Later turns of children.

\* A child's turn comes back.
ReturnChild(c) ==
  /\ child[c] = "wire"
  /\ \/ /\ childTurn[c] = ChildTurns - 1 \/ ~CanSendChildTurn
        /\ child' = [child EXCEPT ![c] = "over"]
        /\ ChildDone(c)
        /\ UNCHANGED <<plan, stopVars, childTurn, lockVars>>
     \/ /\ childTurn[c] < ChildTurns - 1 /\ CanSendChildTurn
        /\ \E s \in {"due", "issuing"} : child' = [child EXCEPT ![c] = s]
        /\ childTurn' = [childTurn EXCEPT ![c] = @ + 1]
        /\ UNCHANGED <<plan, stopVars, parentVars, joinVars, lockVars>>

WakeChild(c) == child[c] = "due" /\ MoveChild(c, "issuing")

\* The barrier keeps the turn, and lets it go in a task of its own.
RetainChild(c) == child[c] = "issuing" /\ c \in plan.held /\ ~sendingOver /\ MoveChild(c, "retained")
ReleaseChild(c) == child[c] = "retained" /\ MoveChild(c, "released")

IssueChild(c) ==
  /\ child[c] \in {"issuing", "released"} /\ CanSendChildTurn
  /\ MoveChild(c, "wire")

\* on_child_stopped, for a refused continuation.  The slip does not report it.
StopSilently(c) == MoveChild(c, "over")
Stop(c) ==
  /\ child' = [child EXCEPT ![c] = "over"]
  /\ ChildDone(c)
  /\ UNCHANGED <<plan, stopVars, childTurn, lockVars>>

\* A continuation is refused: the replay's chokepoint and its barrier report
\* it, the other strategies drop it.
RefuseChild(c) ==
  /\ child[c] \in {"issuing", "released"} /\ ~CanSendChildTurn
  /\ IF Replay THEN Stop(c) ELSE MoveChild(c, "stranded")

\* The barrier's teardown reports what it had retained.
StopRetained(c) == child[c] = "stopping" /\ Stop(c)

-------------------------------------------------------------------------------
\* The phase stops sending.

Cap ==
  /\ ~capped /\ capped' = TRUE
  /\ UNCHANGED <<plan, sendingOver, parentVars, childVars, joinVars, lockVars>>

\* _wait_for_sending_complete: nothing may be sent any more, or the root plan is
\* sent.  What is scheduled is closed, and the barrier is torn down with the
\* tasks it had released.
SendingComplete ==
  /\ ~sendingOver
  /\ capped \/ (turn = Last /\ parent \in {"wire", "returned", "spawning", "over"})
  /\ sendingOver' = TRUE
  /\ parent' = IF parent = "due" THEN "dropped" ELSE parent
  /\ child' = [c \in Children |-> CASE child[c] \in {"due", "released"} -> "stranded"
                                    [] child[c] = "retained" -> "stopping"
                                    [] OTHER -> child[c]]
  /\ UNCHANGED <<plan, capped, turn, childTurn, joinVars, lockVars>>

Step ==
  \/ IssueParent \/ RefuseParent \/ ReturnParent \/ SpawnOverlapping
  \/ Intercept \/ WakeParent \/ Settle
  \/ \E c \in Children :
       \/ WakeLate(c) \/ DispatchFirst(c) \/ FinishDone(c)
       \/ ReturnChild(c) \/ WakeChild(c) \/ RetainChild(c) \/ ReleaseChild(c)
       \/ IssueChild(c) \/ RefuseChild(c) \/ StopRetained(c)
  \/ SendingComplete

Over == parent \in {"over", "dropped", "suspended"}
          /\ \A c \in Children : child[c] \in {"none", "over", "stranded"}
Done == Over /\ UNCHANGED vars

Next == Step \/ Cap \/ Done

\* Slots come free, requests return, delays pass and the barrier's predecessors
\* return: whatever has begun goes on.  Nothing forces the phase to stop.
Fairness == WF_vars(Step)

Spec == Init /\ [][Next]_vars /\ Fairness

-------------------------------------------------------------------------------
\* Types of the variables.
TypeOK ==
  /\ plan \in Plans
  /\ {capped, sendingOver, overlapDue} \subseteq BOOLEAN
  /\ turn \in 0 .. Last /\ parent \in ParentStates
  /\ child \in [Children -> ChildStates]
  /\ childTurn \in [Children -> 0 .. ChildTurns - 1]
  /\ future \subseteq Gates /\ active \in Gates \cup {NoGate}
  /\ join \in [Gates -> [expected   : [Branches -> Nat],
                         completed  : [Branches -> SUBSET Children],
                         registered : SUBSET Branches]]
  /\ {tracked, finishing, gather} \subseteq SUBSET Children
  /\ descendants \in Nat
  /\ holder \in {"none", "issue", "intercept", "late"}

\* What a pending join still waits for is exactly the tracked children of its
\* branches: none is counted twice or forgotten, whichever of the returns, the
\* refusals, the rollbacks and the delayed starts came first; and the parent's
\* descendant count agrees.
Waiting(g, b) == {c \in tracked \cup finishing :
                    /\ c \in plan.kids[b]
                    /\ c \notin join[g].completed[b]}

JoinsExact ==
  /\ \A g \in future \cup ({active} \ {NoGate}) : \A b \in Prereqs(g) :
       join[g].expected[b] - Cardinality(join[g].completed[b])
         = Cardinality(Waiting(g, b) )
  /\ descendants = Cardinality(tracked \cup finishing)

\* A suspended parent has a join, and a child is left whose end will release it:
\* every tracked child has its current turn somewhere, so that its end will be
\* heard of, but for those whose turn the teardown or the strategy dropped.  No
\* join that waits for nobody is kept once the lock is free.
SuspensionHasWaker ==
  /\ parent = "suspended" <=> active # NoGate
  /\ active # NoGate =>
       \E b \in Prereqs(active) : Waiting(active, b) # {}
  /\ \A c \in tracked : child[c] \notin {"none", "over"}
  /\ holder = "none" => \A g \in future : ~Satisfied(join[g], g)

\* A turn that joins branches goes out when none of their children is running,
\* whatever was refused, stopped or late, and no turn goes out twice.
TurnsSent == turn + (IF parent \in {"issuing", "due", "dropped"} THEN 0 ELSE 1)
Contract == INSTANCE JoinContract WITH
  gating <- [t \in 0 .. Last |-> UNION {plan.kids[b] : b \in {a \in Branches : t \in plan.gates[a]}}],
  sent <- TurnsSent,
  started <- {c \in Children : child[c] # "none"},
  running <- {c \in Children : child[c] \notin {"none", "over"}}

ImplementsContract == Contract!Spec

\* A suspended parent goes on in the end, or its join turn is refused; unless the
\* turn of a child was dropped where nobody was told.
SuspensionEnds ==
  parent = "suspended" ~> (parent # "suspended" \/ \E c \in Children : child[c] = "stranded")

\* has_pending_branch_work: the phase is not complete while it holds.
HasPendingBranchWork ==
  active # NoGate \/ future # {} \/ tracked # {} \/ descendants > 0

\* Once nothing is under way, no branch work is pending: the phase can end.
DrainedWhenOver == Over => ~HasPendingBranchWork
=============================================================================
