----------------------------- MODULE StickyRouter -----------------------------
(***************************************************************************)
(* StickyCreditRouter (aiperf/credit/sticky_router.py): which worker gets  *)
(* a credit.  The turns of a session and of the children its turns branch  *)
(* into share one sticky entry, and follow it to one worker for as long as *)
(* it lasts; a session without an entry goes to a worker with the fewest   *)
(* credits in flight, found through a cached index.                        *)
(*                                                                         *)
(* Every method runs to its end without suspending, so each is one step.   *)
(* The sessions are the environment: a root sends its turns one by one,    *)
(* a returned turn may branch into children, which the orchestrator        *)
(* registers with the router, and every child ends or is stopped.  A root  *)
(* may go on at once or only after its children, as a background branch or *)
(* a join would have it.                                                   *)
(*                                                                         *)
(* Left out: the messages' order within one worker's connection beyond one *)
(* credit per session, and cancel_all_credits, which only asks the workers *)
(* to return early.  Ties between workers of equal load and equal number   *)
(* of sessions are broken by history in the code, by choice here.          *)
(***************************************************************************)
EXTENDS Integers, FiniteSets

CONSTANTS Workers, Roots, Children,
          NumTurns,    \* the most turns a session has
          Modes,       \* the branch modes of the dataset: "fork", "spawn"
          NoEntry, NoWorker

ASSUME SetsAssumption == /\ IsFiniteSet(Workers) /\ IsFiniteSet(Roots)
                         /\ IsFiniteSet(Children) /\ Roots \cap Children = {}
ASSUME TurnsAssumption == NumTurns \in Nat \ {0}
ASSUME ModesAssumption == Modes \subseteq {"fork", "spawn"}
ASSUME NoWorkerAssumption == NoWorker \notin Workers
ASSUME NoEntryAssumption ==
  NoEntry \notin [worker : Workers, refs : Int, finalSeen : BOOLEAN]

Sessions == Roots \cup Children
MaxLoad == Cardinality(Sessions)

VARIABLES
  turns,      \* how many turns each session has
  branch,     \* of each child: its parent, the turn it starts after, its mode
  stage,      \* new, ready, wire or over
  turn,       \* the turn a session sends next or has on the wire
  home,       \* the worker that got the session's last credit
  worker,     \* starting, up or gone
  load,       \* _workers: what the router knows of each worker
  byLoad,     \* _workers_by_load
  minLoad,    \* _min_load
  sticky      \* _sticky_sessions: an entry per routing key

planVars == <<turns, branch>>
sessionVars == <<stage, turn, home>>
indexVars == <<byLoad, minLoad>>
vars == <<planVars, sessionVars, worker, load, indexVars, sticky>>

-------------------------------------------------------------------------------
Up == {w \in Workers : worker[w] = "up"}

\* parent_correlation_id or x_correlation_id, whatever the branch mode.
RoutingKey(s) == IF s \in Children THEN branch[s].parent ELSE s
IsFinalTurn(s) == turn[s] = turns[s] - 1
Forks(s) == {c \in Children : branch[c].parent = s /\ branch[c].after = turn[s]
                              /\ branch[c].mode = "fork"}
Branches(s) == {c \in Children : branch[c].parent = s /\ branch[c].after = turn[s]}
HasForks(s) == Forks(s) # {}

\* The loader rejects a fork on a turn that is not its session's last.
ForksAtTheEnd ==
  \A c \in Children :
    branch[c].mode = "fork" => branch[c].after = turns[branch[c].parent] - 1

NewLoad == [inFlight |-> 0, credits |-> {}, sessions |-> 0, ids |-> {}]

Init ==
  /\ turns \in [Sessions -> 1..NumTurns]
  /\ branch \in [Children -> [parent : Roots, after : 0..(NumTurns - 1), mode : Modes]]
  /\ ForksAtTheEnd
  /\ stage = [s \in Sessions |-> IF s \in Roots THEN "ready" ELSE "new"]
  /\ turn = [s \in Sessions |-> 0]
  /\ home = [s \in Sessions |-> NoWorker]
  /\ worker = [w \in Workers |-> "starting"]
  /\ load = [w \in Workers |-> NewLoad]
  /\ byLoad = [n \in 0..MaxLoad |-> {}]
  /\ minLoad = 0
  /\ sticky = [r \in Roots |-> NoEntry]

-------------------------------------------------------------------------------
\* The index moves worker w from one load to another.
Move(w, old, new) ==
  [byLoad EXCEPT ![old] = @ \ {w}, ![new] = @ \cup {w}]

\* Slips of one definition each are kept beside it: the runs' properties must
\* tell the code from the slip.
\* _track_credit_sent: the minimum rises when its last worker leaves it.
MinAfterSentKept(w) == minLoad
MinAfterSent(w) ==
  IF load[w].inFlight = minLoad /\ byLoad[minLoad] \subseteq {w}
    THEN minLoad + 1 ELSE minLoad

\* _track_credit_returned: the minimum follows a worker below it.
MinAfterReturnedLowered(w) == minLoad - 1    \* as if w had been at the minimum
MinAfterReturned(w) ==
  IF load[w].inFlight - 1 < minLoad THEN load[w].inFlight - 1 ELSE minLoad

\* active_sessions and active_session_ids of worker w, when the entry of key k
\* is created for it or taken away.
WithSession(l, k) == [l EXCEPT !.sessions = @ + 1, !.ids = @ \cup {k}]
WithoutSessionIdKept(l, k) == [l EXCEPT !.sessions = @ - 1]
WithoutSession(l, k) == [l EXCEPT !.sessions = @ - 1, !.ids = @ \ {k}]

\* The sticky worker while it is up, else one of the least loaded.
LeastLoaded ==
  {w \in byLoad[minLoad] :
     \A v \in byLoad[minLoad] : load[w].sessions <= load[v].sessions}
HasStickyWorker(k) == sticky[k] # NoEntry /\ sticky[k].worker \in Up
Candidates(k) == IF HasStickyWorker(k) THEN {sticky[k].worker} ELSE LeastLoaded

\* A session that has more to send, here or in forked children, gets an entry.
NeedsEntryForTurnsOnly(s) == ~IsFinalTurn(s)
NeedsEntry(s) == ~IsFinalTurn(s) \/ HasForks(s)

EntryAtSend(s, w) ==
  LET k == RoutingKey(s)
  IN  IF HasStickyWorker(k) \/ ~NeedsEntry(s) THEN sticky[k]
      ELSE IF sticky[k] = NoEntry THEN [worker |-> w, refs |-> 1, finalSeen |-> FALSE]
      ELSE [sticky[k] EXCEPT !.worker = w]

Opens(s, w) == EntryAtSend(s, w) # sticky[RoutingKey(s)]

\* The owner's final turn takes its own reservation off the entry.
ClosesAnyTurn(s, w) == s \in Roots /\ EntryAtSend(s, w) # NoEntry
Closes(s, w) == IsFinalTurn(s) /\ s \in Roots /\ EntryAtSend(s, w) # NoEntry
EvictsAtOnce(s, w) ==
  Closes(s, w) /\ EntryAtSend(s, w).refs <= 1 /\ ~HasForks(s)

EntryAfterSend(s, w) ==
  LET entry == EntryAtSend(s, w)
  IN  IF EvictsAtOnce(s, w) THEN NoEntry
      ELSE IF Closes(s, w) THEN [entry EXCEPT !.refs = @ - 1, !.finalSeen = TRUE]
      ELSE entry

LoadAfterSend(s, w) ==
  LET k      == RoutingKey(s)
      opened == IF Opens(s, w) THEN WithSession(load[w], k) ELSE load[w]
      kept   == IF EvictsAtOnce(s, w) THEN WithoutSession(opened, k) ELSE opened
  IN  [kept EXCEPT !.inFlight = @ + 1, !.credits = @ \cup {s}]

\* send_credit.
SendCredit(s, w) ==
  /\ stage[s] = "ready"
  /\ Up # {} /\ w \in Candidates(RoutingKey(s))
  /\ sticky' = [sticky EXCEPT ![RoutingKey(s)] = EntryAfterSend(s, w)]
  /\ load' = [load EXCEPT ![w] = LoadAfterSend(s, w)]
  /\ byLoad' = Move(w, load[w].inFlight, load[w].inFlight + 1)
  /\ minLoad' = MinAfterSent(w)
  /\ stage' = [stage EXCEPT ![s] = "wire"]
  /\ home' = [home EXCEPT ![s] = w]
  /\ UNCHANGED <<planVars, turn, worker>>

-------------------------------------------------------------------------------
\* release_child_routing, of the entries and the loads as they are by then.
EvictsNever(k) == FALSE
EvictsAtRelease(k) ==
  sticky[k] # NoEntry /\ sticky[k].refs <= 1 /\ sticky[k].finalSeen

EntryReleased(k) ==
  IF EvictsAtRelease(k) THEN NoEntry
  ELSE IF sticky[k] # NoEntry THEN [sticky[k] EXCEPT !.refs = @ - 1]
  ELSE NoEntry

LoadsReleased(loads, k) ==
  IF EvictsAtRelease(k) /\ sticky[k].worker \in Up
    THEN [loads EXCEPT ![sticky[k].worker] = WithoutSession(@, k)] ELSE loads

\* A child is over: only a forked one had been registered.
ReleaseRouting(c, loads) ==
  LET k == branch[c].parent
  IN  IF branch[c].mode = "fork"
        THEN /\ sticky' = [sticky EXCEPT ![k] = EntryReleased(k)]
             /\ load' = LoadsReleased(loads, k)
        ELSE load' = loads /\ UNCHANGED sticky

\* register_child_routing, once for each forked child of the returned turn.
RegisterForks(s) ==
  sticky' = IF sticky[s] = NoEntry THEN sticky
            ELSE [sticky EXCEPT ![s].refs = @ + Cardinality(Forks(s))]

LoadsReturnedIdKept(s) ==
  IF home[s] \in Up THEN [load EXCEPT ![home[s]].inFlight = @ - 1] ELSE load
LoadsReturned(s) ==
  IF home[s] \in Up
    THEN [load EXCEPT ![home[s]].inFlight = @ - 1, ![home[s]].credits = @ \ {s}]
    ELSE load

\* _handle_router_message on a CreditReturn: the load, then the session: a root
\* branches before it goes on, a child that is over is released.
CreditReturned(s) ==
  /\ stage[s] = "wire"
  /\ IF home[s] \in Up
       THEN /\ byLoad' = Move(home[s], load[home[s]].inFlight, load[home[s]].inFlight - 1)
            /\ minLoad' = MinAfterReturned(home[s])
       ELSE UNCHANGED indexVars
  /\ stage' = [x \in Sessions |->
                 IF x = s THEN (IF IsFinalTurn(s) THEN "over" ELSE "ready")
                 ELSE IF x \in Branches(s) THEN "ready" ELSE stage[x]]
  /\ turn' = IF IsFinalTurn(s) THEN turn ELSE [turn EXCEPT ![s] = @ + 1]
  /\ \/ s \in Roots /\ load' = LoadsReturned(s) /\ RegisterForks(s)
     \/ /\ s \in Children /\ ~IsFinalTurn(s)
        /\ load' = LoadsReturned(s) /\ UNCHANGED sticky
     \/ s \in Children /\ IsFinalTurn(s) /\ ReleaseRouting(s, LoadsReturned(s))
  /\ UNCHANGED <<planVars, home, worker>>

\* A stop condition keeps a child from sending: rollback, or on_child_stopped.
ChildStopped(c) ==
  /\ stage[c] = "ready"
  /\ stage' = [stage EXCEPT ![c] = "over"]
  /\ ReleaseRouting(c, load)
  /\ UNCHANGED <<planVars, turn, home, worker, indexVars>>

-------------------------------------------------------------------------------
\* _register_worker.
WorkerReady(w) ==
  /\ worker[w] = "starting"
  /\ worker' = [worker EXCEPT ![w] = "up"]
  /\ load' = [load EXCEPT ![w] = NewLoad]
  /\ byLoad' = [byLoad EXCEPT ![0] = @ \cup {w}]
  /\ minLoad' = 0
  /\ UNCHANGED <<planVars, sessionVars, sticky>>

LowestLoad(ws) ==
  IF ws = {} THEN 0
  ELSE CHOOSE n \in 0..MaxLoad : /\ \E w \in ws : load[w].inFlight = n
                                 /\ \A w \in ws : n <= load[w].inFlight

\* _unregister_worker: its sessions are forgotten; what it has in flight may
\* still come back, or never.
WorkerShutdown(w) ==
  /\ worker[w] = "up"
  /\ worker' = [worker EXCEPT ![w] = "gone"]
  /\ load' = [load EXCEPT ![w] = NewLoad]
  /\ byLoad' = [byLoad EXCEPT ![load[w].inFlight] = @ \ {w}]
  /\ minLoad' = IF load[w].inFlight = minLoad /\ byLoad[minLoad] \subseteq {w}
                  THEN LowestLoad(Up \ {w}) ELSE minLoad
  /\ sticky' = [k \in Roots |-> IF k \in load[w].ids THEN NoEntry ELSE sticky[k]]
  /\ UNCHANGED <<planVars, sessionVars>>

Next ==
  \/ \E s \in Sessions : \/ \E w \in Workers : SendCredit(s, w)
                         \/ CreditReturned(s)
  \/ \E c \in Children : ChildStopped(c)
  \/ \E w \in Workers : WorkerReady(w) \/ WorkerShutdown(w)

Spec == Init /\ [][Next]_vars

-------------------------------------------------------------------------------
\* Types; in particular the cached minimum load is a natural number.
TypeOK ==
  /\ turns \in [Sessions -> 1..NumTurns]
  /\ branch \in [Children -> [parent : Roots, after : 0..(NumTurns - 1), mode : Modes]]
  /\ stage \in [Sessions -> {"new", "ready", "wire", "over"}]
  /\ turn \in [Sessions -> 0..(NumTurns - 1)]
  /\ home \in [Sessions -> Workers \cup {NoWorker}]
  /\ worker \in [Workers -> {"starting", "up", "gone"}]
  /\ load \in [Workers -> [inFlight : 0..MaxLoad, credits : SUBSET Sessions,
                           sessions : Int, ids : SUBSET Roots]]
  /\ byLoad \in [0..MaxLoad -> SUBSET Workers]
  /\ minLoad \in 0..MaxLoad
  /\ sticky \in [Roots -> [worker : Workers, refs : Int, finalSeen : BOOLEAN]
                            \cup {NoEntry}]

\* What the router counts in flight at a worker is what is in flight there, so
\* that a cancellation names every one of its credits and no other.
CreditsAccounted ==
  \A w \in Up :
    /\ load[w].credits = {s \in Sessions : stage[s] = "wire" /\ home[s] = w}
    /\ load[w].inFlight = Cardinality(load[w].credits)

\* The cached index and the cached minimum agree with the loads after every
\* send, return, arrival and departure: "least loaded" is what it says, and
\* there is always a worker to choose.
LeastLoadIndexed ==
  /\ \A n \in 0..MaxLoad : byLoad[n] = {w \in Up : load[w].inFlight = n}
  /\ Up # {} => byLoad[minLoad] # {}
  /\ \A w \in Up : minLoad <= load[w].inFlight

\* The sessions a worker is charged with are those stuck to it, and no session
\* is stuck to a worker that is not there.
StickyAccounted ==
  /\ \A w \in Up :
       /\ load[w].ids = {k \in Roots : sticky[k] # NoEntry /\ sticky[k].worker = w}
       /\ load[w].sessions = Cardinality(load[w].ids)
  /\ \A k \in Roots : sticky[k] # NoEntry => sticky[k].worker \in Up

Sends(s) == stage[s] = "ready" /\ stage'[s] = "wire"

\* All turns of a root go to the worker of its first turn while it is there,
\* whatever its children, other sessions and other workers do.  The code's
\* docstring says so of any session, but a spawned child has no reservation of its
\* own: its parent's final turn takes the entry away between two of its turns.
KeepsWorker(r) ==
  (Sends(r) /\ turn[r] > 0 /\ home[r] \in Up) => home'[r] = home[r]

RootsKeepWorker == [][\A r \in Roots : KeepsWorker(r)]_vars

\* A forked child continues its parent's context, which only the parent's worker
\* has: while no worker has left, it goes there, even after the parent's end.
ForkedChildrenFollow ==
  [][\A c \in Children :
       (Sends(c) /\ branch[c].mode = "fork" /\ \A w \in Workers : worker[w] # "gone")
         => home'[c] = home[branch[c].parent]]_vars

LiveChildren(k) == {c \in Children : branch[c].parent = k
                                     /\ stage[c] \in {"ready", "wire"}}

Spawns(k) == {c \in Children : branch[c].parent = k /\ branch[c].mode = "spawn"}

\* "Sticky sessions are only created when more than 1 turn exists, and are
\* removed when SENDING the final turn": while no worker has left, an entry
\* stands for a session with turns left, or with children alive or about to be
\* forked.  (A spawned child that outlives its parent is routed by the parent's
\* key but never released, and a forked one recreates an entry that a worker
\* took with it, so either may leave an entry for ever.)
EntriesJustified ==
  (\A w \in Workers : worker[w] # "gone") =>
    \A k \in Roots : sticky[k] # NoEntry =>
      \/ stage[k] = "ready"
      \/ stage[k] = "wire" /\ (~IsFinalTurn(k) \/ HasForks(k))
      \/ LiveChildren(k) # {}
      \/ Spawns(k) # {}
===============================================================================
