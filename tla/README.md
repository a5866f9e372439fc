# Formal models of AIPerf's credit system and of how a run ends

This directory models the part of the repository that decides whether a
benchmark run is *correct* rather than merely fast: the credit system of
AIPerf (`src/utils/aiperf/src/aiperf/{timing,credit}`), which decides which
request is sent when, to which worker, under which limits and in which order,
and when a phase is over; and the path from a credit to the exported results
(`workers`, `records`, `controller`), which decides when the run is. It holds
TLA+ modules, TLC configurations, TLAPS proofs, and `PROJECT.json`, the index
that ties every definition to its source lines.

Paths below are relative to `src/utils/aiperf/src/aiperf/` unless they start
with `src/`.

## 1. Inventory

The repository is a benchmarking workspace: recipes and runner scripts,
vendored copies of other projects (`src/upstream`), result-processing scripts,
and AIPerf, the load generator, in `src/utils/aiperf`. Only AIPerf has
long-lived concurrent state. Its services are processes that talk over ZeroMQ;
within a service everything runs on one asyncio event loop, so races are
between *await points*, not between threads.

| Component | State it keeps | Operations | Talks to | What makes it correct |
|---|---|---|---|---|
| Concurrency limit (`timing/concurrency.py`, `DynamicConcurrencyLimit`) | semaphore value and waiters, current limit, debt | acquire, try_acquire, release, set_limit | asyncio, limiter | slots conserved; no waiter overlooked; limit honoured |
| Limiter and manager (same file) | a global and a per-phase limit, for sessions and for prefills | configure, acquire, try, release, stuck-slot sweep | issuer, callback handler, runner, rampers | every slot taken is given back once, in both layers |
| Credit counter, stop conditions (`timing/phase/`) | sent, returned, sessions, turns, frozen totals | increment_*, freeze_*, can_send_* | issuer, callback handler, runner | "N means N"; completion is neither early nor missed |
| Credit issuer (`credit/issuer.py`) | none of its own | issue_credit, try_issue_credit, dispatch_* | limiter, counter, router, registry | check, acquire, count, send keep the books in step |
| Callback handler (`credit/callback_handler.py`) | a context per phase | on_credit_return, on_first_token | counter, limiter, strategies, branch orchestrator | each return releases exactly what its credit held |
| Phase runner (`timing/phase/runner.py`) | where run() stands; the phase's tasks | run, cancel, the two waits, the sweep | all of the above | every phase ends; nothing leaks into the next |
| Strategies (`timing/strategies/`) | queues, schedules, lanes | execute_phase, handle_credit_return | issuer, scheduler | every turn of the plan is issued, in its order |
| Sticky router (`credit/sticky_router.py`) | load per worker, index by load, cached minimum, sticky entries | send, return, register/release child routing, worker ready/shutdown | workers, issuer, branch orchestrator | affinity; index agrees with loads; entries are freed |
| Session-tree registry (`timing/session_tree.py`) | open trees: root pending, descendants outstanding | open, register, done, terminal, release_all | issuer, branch orchestrator | one slot per live tree, released once |
| Branch orchestrator (`timing/branch_orchestrator.py`) | joins, prerequisites, child index | intercept, spawn, child done/stopped/errored | issuer, router, registry | every join fires once, also when children fail |
| Replay gate (`timing/replay_dependencies.py`) | completed and retained turns per root | submit, complete, pause, cancel | issuer | order of the recording; nothing retained for ever |
| Phase orchestrator, timing manager | phases, active runners | execute, cancel | runner, controller | phases in order; cancel ends all of it |
| Ramping (`timing/ramping.py`) | a task stepping a limit | start, stop | limiter | ends at the target |
| Workers (`workers/`) | task per credit, session cache | credit, cancel, evict | router, inference server, records | each credit answered exactly once |
| Records manager (`records/`) | counts per phase | records, phase messages | controller | exported results hold every counted record; every run exits |
| Controller, service lifecycle | registered services, commands | start, configure, profile, cancel, shutdown | everyone | start-up and shutdown complete |

What is hard in it: tasks that check a stop condition, suspend for a slot and
act much later; a semaphore whose woken waiters have not run yet; limits moved
while tasks wait; returns that arrive before the sending is over, after the
phase is complete, or never; first tokens racing returns; timeouts racing the
last answer; cancellation between any two of these; caches (`_min_load`,
`_workers_by_load`, sticky entries) that must follow every event; joins whose
children are late, refused or dropped; a recorded order to be kept across a
resume and a handover; records, notices and commands that overtake each other
between processes. The `hazards` of `PROJECT.json` list them at their lines,
with the properties that cover them or the reason none does yet.

## 2. Modules

| Module | Models | Role |
|---|---|---|
| `ConcurrencyLimit` | `DynamicConcurrencyLimit` and the semaphore beneath it, as pure operators on a record | used by the next and by `CreditPhase` |
| `DynamicConcurrencyLimit` | tasks competing for one limit while it moves | checked and proved |
| `DynamicConcurrencyLimitProofs` | | its theorems |
| `ConcurrencyLimitLemmas` | | what the operators of `ConcurrencyLimit` do, proved; used by `CreditPhaseProofs` |
| `CreditCounter` | `CreditCounter` and the stop conditions, as pure operators | used by `CreditPhase` |
| `CreditPhase`, `MCCreditPhase` | issuer, callback handler, runner, counters, both limiters and three strategies (request rate, fixed schedule, user-centric), composed: one phase from start to end | checked and proved (`CreditPhaseProofs`) |
| `PhaseContract` | what a phase promises to whoever reads its statistics | implemented by `CreditPhase` |
| `StickyRouter`, `MCStickyRouter` | the router, with sessions and branches as its environment | checked and proved (`StickyRouterProofs`) |
| `SessionTree` | the session-tree registry and what drives it: lanes, roots, subagents, joins | checked and proved (`SessionTreeProofs`) |
| `Recording` | the recorded intervals of a trace, the predecessors inferred from them, where a subagent is spawned and joined: pure operators | used by `ReplayLane` |
| `ReplayLane`, `MCReplayLane` | replay barrier, snapshot, and the agentic-replay strategy's handover from cache pressure to profiling, on one lane | checked and proved (`ReplayLaneProofs`) |
| `ReplayOrder` | what a replay promises of the recorded order | implemented by `ReplayLane` |
| `BranchJoins`, `MCBranchJoins` | the branch orchestrator's books for one parent, with issuer, barrier and teardown around it | checked and proved (`BranchJoinsProofs`) |
| `JoinContract` | what joins promise, whatever keeps the books | implemented by `BranchJoins` |
| `RunCompletion`, `MCRunCompletion` | phase orchestrator, worker tasks, record processor, records manager and system controller: from the first credit to the exit | checked and proved (`RunCompletionProofs`) |

### ConcurrencyLimit and DynamicConcurrencyLimit

A limit is a record `[value, waiting, woken, limit, debt]`. `value`, `waiting`
and `woken` are the `asyncio.Semaphore`: modelled as external code, from
CPython 3.11 on (the package supports 3.10 to 3.13). A release resolves the
first waiter's future and takes its slot at once; the waiter runs in a later
turn of the event loop, and until then it is *woken*: it owns a slot, has not
run, and keeps `locked()` true. `limit` and `debt` are `_current_limit` and
`_debt`. `RaiseLimit`, `LowerLimit`, `Release` are the two arms of `set_limit`
and `release`; `AcquireNow` is `try_acquire` and an `acquire` that need not
wait, `AcquireWaits`/`AcquireReturns` the halves of one that must,
`CancelAcquire` a task cancelled in between, parked or woken.

### CreditCounter and CreditPhase

One phase, one event loop: an action is the code between two suspension
points. A session sends its turns one after the other, so its identity names
its issuing task, its credit on the wire and its place in a wait queue.

* `Send` is `_issue_credit_internal` with the final credit's freeze and event.
  The send may suspend, but the credit's answer cannot be handled before the
  issuer resumes, so counting, sending and freezing are one step.
* `AcquirePrefill`, `HavePrefillSlot`, `HaveSessionSlot`, `Refuse` are the arms
  of `_issue_credit_ready` around its awaits: the stop condition is checked
  after each acquisition, and a refusal gives back what is in hand.
  `AcquireSession` is `acquire_session_slot`, for whoever may wait for one.
* `StartTask` is a scheduled task of the fixed schedule or of the user-centric
  strategy; `IssueContinuation`, `StartSession`, `LeaveLoop`, `QueueDelayed`
  are the iterations of the request-rate loop. An iteration that finds nothing
  to do is a stutter. `SpawnUser` is an iteration of the user-centric loop,
  which waits for a new user's slots itself and ends with the first refusal.
* `CreditReturns`, `LateReturn`, `FirstToken` are the callback handler.
* `StopSending`, `AfterSending`, `AllCreditsBack`, `CancelInFlight`,
  `ForceCompletion`, `Close`, `Cancel` are `run()`, its two waits and `cancel()`.
  `CancelLoop` and `CancelEverything` cancel the strategy's main loop, which
  only the duration and `cancel()` do; `CancelTasks` leaves it alone. A loop or
  task cancelled while it holds a session slot and waits for a prefill slot is
  "stranded": nobody gives its session slot back.
* `plan` is the phase's configuration, chosen in `Init` from `Plans`: strategy,
  request count and number of sessions, which sessions are scheduled at the
  start, whether there is a duration, and whether its grace period ends. A fixed
  schedule always has both limits, those of the whole dataset
  (`timing/phase/runner.py:124`); the checked plans of the other strategies have
  at most one, since the command line refuses both
  (`common/config/user_config.py:837`), but no assumption and no proof needs
  that. The grace period is infinite by default in a warmup
  (`timing/config.py:319`) and in the user-centric mode.

Abstractions: the phase limit and the global limit of a limiter change
together when there is one phase and no ramp, and only the global one is ever
waited for, so one limit stands for both; `Held` computes the sweep on the
phase's view, where a handed-over slot still counts as free. Completed and
cancelled requests are only read as a sum and are one number. Real time is
`clock`: running, in the grace period, over; a timeout may beat an event that
is already set. Cancelling a phase's tasks is one step. Not in this module:
DAG children, the session tree, the replay gate, ramps, seamless overlap, the
exception path of `run()`, two phases.

`PhaseContract` is the abstract specification: send up to the cap while
sending, count each request back at most once and only before completion,
complete only when all are back or the phase is excused (cancelled, or given
up after the drain). `ImplementsContract` is the refinement; the mapping is
`lifecycle.state`, the counters, and `cancelled \/ forced`.

### StickyRouter

No method of the router suspends before its bookkeeping is done, so each is
one action. `load`, `byLoad`, `minLoad`, `sticky` are `_workers`,
`_workers_by_load`, `_min_load`, `_sticky_sessions`. The environment is the
sessions: roots send turns in order; a returned turn may branch into forked or
spawned children; each child ends or is stopped. Forks only follow a session's
last turn, as the DAG loader demands. A worker is registered, may leave with
credits in flight, and never comes back under its id (ids are fresh UUIDs).
A spawned child is routed by its root's key and has no reference of its own, so
it loses the root's worker with the root's final turn, and a turn that it sends
later makes the entry anew; only forked children are released.
Ties between workers of equal load and equal sessions are broken by history in
the code and by choice here. With no worker up, `send_credit` raises; the
model's session then simply waits. Nested branches are not modelled: the
orchestrator refuses them.

### SessionTree

A root conversation and the subagents it spawned are one tree with one session
slot. `trees` and `buffered` are `_trees` and `_pending_descendants`; `Settle`,
`OnDescendantDone`, `OnRootTerminal`, `RegisterDescendants`, `OpenTree` are the
registry's methods, each atomic as its docstring says. Around it, each at the
await points of its own code:

* `ResumeSnapshot` is one iteration of the seeding loop of agentic replay: the
  root goes on, waits for children at a join, or is gone. `RecycleLane` is what
  a drained tree schedules.
* `StartRoot`, `SendTurn`, `RefuseTurn` are `issue_credit` of a root's turn:
  slot and tree first, then the prefill slot, then the children of branches
  recorded as overlapping the turn.
* `RootReturns` is `on_credit_return` up to the dispatch of the children,
  `RootResumes` the rest: the registry is told that the root is terminal, or
  the root waits at a join, goes on, or is given up.
* `DispatchChild`, `ChildEnds`, `JoinIssued`, `RollBackChild` are a child's
  dispatch, its end, the accounting after a join it released was issued, and
  its rollback. The children of a snapshot are dispatched each at its own
  time, before the root's first turn or after it: the strategy schedules every
  stream at its own recorded offset (`timing/strategies/agentic_replay.py:1470`).
  `Account` is what the registry does with an ended child: in an open tree it
  is taken off the count; in one not yet open the registry drops the event, and
  the child, "forgotten", stays in the buffer the tree folds in when it opens.
  `Stop` and `Teardown` end the phase.

Abstractions: whether a prefill slot is free is left open, so a turn may wait
any time; a child is dispatched and ends, its turns are not told apart; a root
waits at one join at a time; fresh roots are drawn in a fixed order. Not in
this module: phases bounded by a number of conversations, ramps, a stop in the
middle of the seeding loop, fail-fast, the replay gate's retention of turns.

### Recording, ReplayLane and ReplayOrder

A recording gives every request of a root and its subagents an interval.
`InferPredecessors` is `infer_cross_stream_predecessors`: of each other
stream, the request that had ended last by the turn's start, unless a later
one of the frontier started after it had ended. `SpawnedAt` and `JoinedAt` are
where the weka loader hangs a subagent on its root. `Recordings` are all
traces on a few instants, so the equalities, zero durations and overlaps the
code compares with `<` and `<=` all occur.

`ReplayLane` replays one on a lane. Its `Init` is any snapshot
(`_snapshot_for`, `seed_snapshot`), in the cache-pressure stage or in
profiling. A turn that is not on the wire is due, retained by the barrier
(`Submit`), or issuing; `Complete` records a return and releases what became
ready; `Issue` starts the branches recorded as overlapping, `ReturnOfRoot` the
rest. `EndPressure` is `_finish_accelerated_warmup`: it pauses releases and
stops the issuer, so a turn that is issuing then goes out (`Issue`, past the
check already) or is refused (`Refuse`). Of a refused subagent's turn the
orchestrator is told, unless the lane resumed with it; nobody is told of a
root's. `Handover` rebuilds the live streams from the last returned turns and
the retained ones, for a new phase with a barrier of its own; `lost` keeps the
streams it does not find. `ReplayOrder` states the recorded order without the
frontier: a turn goes out once, after the turn before it and after every
recorded request that had ended when it began, unless an earlier request of
that same stream outlasted it. That the frontier is enough is the refinement.
The recycling of a lane whose streams are lost is left out.

### BranchJoins and JoinContract

One parent conversation with branches declared on its turns. `join[g]` is the
`PendingBranchJoin` of the gate `g` with its `PrereqState`s, `future` and
`active` are where the orchestrator keeps it, `tracked` is `_child_to_join`,
`holder` the parent's lock, which is held across the dispatch of the children
(`gather`). `Spawn`/`Settle` are `_spawn_children_and_register_gates` before
and after its awaits, the second with the rollback of refused children and
`_finalize_failed_dispatches`; `ChildDone`/`FinishDone` are
`_handle_child_done` before and after the dispatch of the first join it
releases. `SendingComplete` is the teardown of `_wait_for_sending_complete`:
what is scheduled is closed, what the barrier retains is reported as stopped,
what it had just released is cancelled. A plan (`MCBranchJoins`) says which
branches there are: several per turn, joined by one gate or by two, a gate that
joins branches of two turns (the intervals between spawn and join may overlap
or nest; branches of branches are refused by the code), overlapping, delayed
and broken children, with the replay barrier and without. `JoinContract` says
what matters to the parent: its turns go out in order, each once, and a turn
that joins branches goes out while no child of theirs is running.

Not in this module: sticky routing and tree counts of the children
(`StickyRouter`, `SessionTree`), snapshots (`ReplayLane`), pre-session
branches, `AIPERF_DAG_FAIL_FAST`, and a send that raises.

### RunCompletion

Five processes that share nothing but messages. A phase is reduced to what it
sends and waits for; `NextPhase` is the loop of `_execute_phases`,
`BeginCancel`/`CancelRunners` the two halves of `PhaseOrchestrator.cancel`. A
worker's task ends answered or failed without a record of its own
(`FinishTask`), or is cancelled before it first runs or while it works
(`CancelTask`); the `finally` clause sees to it that a completed credit leaves
a record. The record and the return are one step: a cancel that hits the
return's own send (`workers/worker.py:786`), which suspends only when the
socket cannot take the message at once, is not modelled. `ProcessRecord`
forwards it, `TrackRecord` counts it, judges the failure rate and looks at the
barrier; `HandleNotice` are the records manager's bus handlers,
`PublishResults` is `_process_results`, which can be under way twice. The
controller stops after the results, after the reply to its own cancel command,
or after that command's timeout, and exits.

Abstractions: bus messages reach every subscriber in one order (there is one
proxy), credits, returns and records are ordered with nothing; telemetry and
server metrics, which can delay the stop, are left out; a record's path ends
at the record processor when it is of the warmup, whose barrier starts
nothing; accumulating and counting a record is one step; errors are told apart
only in setups where somebody judges them. `setup` says what trouble a run may
meet: a grace period that passes, Ctrl+C, a failure threshold, a warmup that
aborts.

## 3. Runs

| Run | Instance | Shows |
|---|---|---|
| `limit` | 5 tasks, limit 0..3 | `TypeOK`, `SlotConservation`, `NoLostWakeup`, `EveryWaiterServed` |
| `phase` | 3 sessions of 1, 2 and 3 turns, 2 session slots, 1 prefill slot, ten plans, crash and cancel | `TypeOK`, `StopConditionsHold`, `SlotsAccounted`, `CountedPhasesReturnSlots`, `PlanSentInFull`, `ImplementsContract`, `PhaseEnds` |
| `phase_duration_slots` | 2 sessions, timed plan | **violated**: `SlotsReturnedAtCleanup` |
| `router` | 3 workers that may leave, 2 roots of 2 turns, 2 children, forked or spawned | `TypeOK`, `CreditsAccounted`, `LeastLoadIndexed`, `StickyAccounted`, `EntriesJustified`, `RootsKeepWorker`, `ForkedChildrenFollow` |
| `trees` | 2 lanes, 3 roots with up to 2 turns, 2 subagents, any order of a snapshot's streams, overflows | `TypeOK`, `SlotsMatchTrees`, `OutstandingExact`, `OpenTreesHaveWork`, `EveryTreeCloses` |
| `tree_overflow` | the same | **violated**: `TruncatedRootsRelease` |
| `replay` | a root of 2 turns, subagents of 2 and 1, every recording on 3 instants, every snapshot | `TypeOK`, `StreamsKept`, `HistoryExact`, `RetainedWithReason`, `ImplementsOrder`, `EverythingReplayed` |
| `handover_gated` | the same | **violated**: `UnresolvedJoinsResume` |
| `joins` | a parent of 3 turns, 2 branches, 4 children of 2 turns, eight plans | `TypeOK`, `JoinsExact`, `SuspensionHasWaker`, `ImplementsContract`, `SuspensionEnds` |
| `joins_stranded` | one plan without retained turns | **violated**: `DrainedWhenOver` |
| `completion` | 1 warmup and 2 profiling credits, one trouble at a time | `TypeOK`, `RecordsInLockstep`, `ExportedResultsWhole`, `StopsOnce`, `AbortIsAnError`, `RunEnds` |
| `run_goes_on` | the same | **violated**: `NothingIssuedAfterCancel` |

The bounds are the instances themselves; no state constraint is used. Five
tasks and a limit of three let two tasks be woken while two are parked and one
holds, with debt outstanding. Three sessions on two session slots and one
prefill slot let a task wait in each queue while others hold, so that several
users pass the same check before any of their turns is sent; one, two and three
turns make sessions whose first turn is their last, and a first, a middle and a
last one. Caps fall in the middle of a session, so that some are cut short, and
the plans are those the configuration can build: request rate and user-centric
with a cap, with a target or with neither, the fixed schedule with both, with a
duration or without, and with a grace period that ends or not. Three workers
are the fewest with a unique minimum, a tie and a departure at once. Three
roots on two lanes let one lane recycle while the other waits; two subagents
let one gate a join and the other outlive it, in one tree or in two. Three
instants are enough for requests that touch, coincide, contain one another or
take no time, which is all the comparisons of the inference tell apart; two
subagents let one wait for the other, and be lost without it. Four children in
two branches of up to two fill a gate from two turns and two gates from one
branch, with one child settled and one not in each. Two profiling credits let
one record be tracked, one under way and one credit cancelled while the phase
notices pass; the failure rate is judged from the first record, and half is
tolerated, so both verdicts occur.

`CHECK_DEADLOCK FALSE` is set where the system ends: a phase that is done,
sessions that are over, a process that exited. `ReplayLane` and `BranchJoins`
stutter explicitly in their final states (`Done`), so TLC finds any other
state they cannot leave. Symmetry is used for invariants and step properties
only, never for liveness.

Every property has a mutant: a plausible slip in one mapped definition, kept
beside it under a name of its own, that makes TLC find it violated.

### Fairness

`DynamicConcurrencyLimit`: the event loop runs what it woke
(`WF(AcquireReturns)`), and who holds a slot gives it back. Nobody has to move
the limit or be cancelled. `CreditPhase`: the event loop runs runnable tasks
(`WF(Issue)`, `WF(Run)`), a live worker answers each credit it got (it does so
in a `finally`), and time passes. Nobody has to crash, to cancel, or to send a
first token. An infinite grace period does not pass, and no fairness says so:
`PhaseEnds` promises an end when the duration has a finite grace period,
whatever the workers do, and otherwise only while they live. With dead workers
and no finite grace period the runner waits for ever, in the model as in the
code. `SessionTree`: `WF(Progress)`, the event loop runs, workers answer and
timers fire; every step uses up a turn, a child or a root, so there are only
finitely many and fairness of the disjunction is enough. Nobody has to stop the
phase, so `EveryTreeCloses` does not lean on teardown. `BranchJoins` and
`RunCompletion` are of the same kind: no step can be undone, so each has one
`WF(Step)`. It stands for slots coming free, requests being answered, delays
running out and messages being delivered. Outside it are the steps nobody
guarantees: the cap in `BranchJoins`, and the grace period, Ctrl+C and the
reply's timeout in `RunCompletion`. `ReplayLane` needs no fairness: no step can
be taken twice, so the lane comes to rest, deadlock checking finds any state
without a step that is not at rest (`Done`), and `EverythingReplayed` is an
invariant about the states that are.

### What the violated runs show

1. `phase_duration_slots`: when a duration ends the sending while no credit is
   out, the runner's short cut completes the phase without the cleanup the
   last return would have done; the slots of sessions cut short between two
   turns stay taken (`timing/phase/runner.py:768`).
2. `tree_overflow`: a root given up after a context-overflow error on a turn
   that is not its last is never declared terminal, because the callback
   handler does so for final turns only; the strategy relies on it and returns
   without recycling (`timing/strategies/agentic_replay.py:1227`). Its tree
   keeps its slot and its lane.
3. `handover_gated`: profiling resumes the streams that returned a turn during
   the cache-pressure stage or have a retained one. A root that waits at a
   join from before that stage has neither, and is dropped with the turns it
   still had to send, although a child it waits for goes on
   (`timing/strategies/agentic_replay.py:676`).
4. `joins_stranded`: when sending ends, the delayed continuation of a child is
   closed before it runs; its refusal, which would report the child as
   stopped, never happens. The child stays tracked, a parent that waits for it
   stays suspended, and pending branch work keeps the phase from completing
   before its timeouts (`common/loop_scheduler.py:252`).
5. `run_goes_on`: a cancel that comes during the warmup ends the warmup; the
   loop over the phases then starts profiling and issues its credits until the
   process is stopped (`timing/phase_orchestrator.py:233`).

Some properties state an exception exactly instead of failing:

* `SlotsMatchTrees`: a root whose first turn is refused at the prefill slot
  gives its session slot back while its tree stays open, and teardown gives it
  back a second time (`credit/issuer.py:281`). "Released exactly once"
  (`timing/session_tree.py:21`) does not hold of it.
* `OpenTreesHaveWork` and `EveryTreeCloses`: a snapshot's subagent that ends
  before its root's first turn takes its slot is forgotten by the registry but
  counted by the tree (`timing/session_tree.py:193`), which then never drains.
  `OutstandingExact` says that this, and nothing else, makes the count differ
  from the live descendants. `EveryTreeCloses` exempts overflows besides.
* `StreamsKept`: a turn that the barrier has released but that has not passed
  the issuer's check when the cache-pressure stage ends, or a root's turn that
  waits for its prefill slot then, is refused (`credit/issuer.py:234`, `:434`).
  If no turn of its stream came back in the stage, profiling does not go on
  with it, though the tutorial promises "that exact state"; and if it was a
  subagent that the root waits for, the root may be dropped too.
  `EverythingReplayed` exempts what is recorded behind them.
* `CountedPhasesReturnSlots`: a task that holds a session slot and waits for a
  prefill slot when its phase ends is cancelled there, and its session slot is
  not given back (`credit/issuer.py:272`).
* `RootsKeepWorker` says nothing of a spawned child: its parent's final turn
  takes away the entry they share (`credit/sticky_router.py:353`), and its next
  turn may go to another worker, though `credit/sticky_router.py:10` says "All
  turns in a session route to the same worker".
* `EntriesJustified` exempts roots that spawn children: a spawned child's
  non-final turn after its parent's last recreates the parent's sticky entry,
  and nothing removes it (`credit/sticky_router.py:338`).
* `SuspensionEnds` exempts stranded children, as `joins_stranded` shows them, and
  `SuspensionHasWaker` takes them for children at work. `BranchJoins` also allows what the
  code does outside agentic replay: a join turn that finds no prefill slot is
  dropped (`credit/issuer.py:495`), and the refused continuation of a child is
  reported to nobody (`timing/strategies/request_rate.py:234`).
* `ExportedResultsWhole` exempts cancelled results and a phase that was forced
  to complete, whose late credits are in neither count.
* `AbortIsAnError` exempts a forced phase too: the late record of a credit that
  was given up may raise the threshold's alarm when the results are already
  out (`records/records_manager.py` judges every record).

What the models made visible besides: a limit lowered while a woken waiter has
not run turns free slots into debt, and the next task is admitted above the new
limit (`timing/concurrency.py:131`); a spawned child is pinned to its parent's
worker while the parent has an entry, though
`timing/conversation_source.py:184` says it routes freely
(`credit/sticky_router.py:292`); a cancel mark on the profiling phase can be
overwritten by the next phase notice (`records/records_tracker.py:105`);
results are processed twice when a cancel command and the barrier both ask for
them, and the later ones win.

## 4. Proofs

TLC checks small instances; the eight proof modules check the same properties
for every value of the constants: any number of tasks, sessions, turns,
workers, children, lanes, recordings, plans, credits and setups that the
modules' assumptions admit. Every invariant, step property and refinement that
a passing run checks is also proved, but `EverythingReplayed`; no theorem has a
hypothesis besides the modules' assumptions. Each proof has the same shape: an
inductive invariant, made of named parts; one lemma per action, or per kind of
step, that says what it leaves of the parts it disturbs; and the theorems,
drawn from the invariant. TLC checked every invariant on the runs' instances
before it was proved.

The assumptions are those of the modules: the sets are finite (a phase has
finitely many sessions, a host finitely many workers), numbers are natural
numbers, the values that stand for "none" are not values, and a fixed schedule
is bounded by its whole dataset, as `timing/phase/runner.py:124` has it. No
assumption bounds a size.

**`DynamicConcurrencyLimitProofs`** (`TypeCorrect`, `SlotsConserved`,
`NoWakeupLost`) and **`ConcurrencyLimitLemmas`**, the facts about the limiter's
operators that `CreditPhaseProofs` cites. In particular `_value`, which the
code decrements by hand, never goes below zero. The three are not inductive
alone. Conservation needs that a task is in at most one place: a task twice in
the queue would be counted as two slots when woken but hold only one. The
invariant is therefore `Sound(sem, holding)`: the record is well typed, woken
and parked tasks are all different, none of them holds a slot, slots are
conserved, and no waiter is overlooked. The argument goes through the
operators: `WakeFacts` says what waking moves, `WakeKeeps` that it keeps
`Sound` and restores the last part as soon as it may wake anybody; one lemma
per operation builds on it (`CancelTask` and `CancelAllBut` are what the
cancellations of `CreditPhase` do to a queue); `StepSound` has one step per
action. The lemmas
about sequences (`Embedding`, `DropFacts`, `DropLeft`, `DropRight`) say that
taking one element out of a queue leaves the others in order, once.

**`CreditPhaseProofs`** (`TypeCorrect`, `SlotsAgree`, `CountedPhasesReturn`,
`StopConditionsKept`, `AllTurnsSent`, `ContractImplemented`). The code keeps
four books apart: where each session is (`Places`: in one place at a time), the
limiters' queues (`QueuesKept`: each waiting task once), the counters
(`Counted`: what is on the wire was sent and has not come back, every session
that goes on was started and has not ended), and the runner with its two events
(`Stages`, `Signals`). `Slots`, which relates the limiters to the counters,
needs all of them: a return releases the slots of the sessions cut short when
it is the last one, and only `Signals` knows when that is, only `Places` that
no cut-short session is still on its way. `IssueSteps` reduces the issuer's
dozen paths to three outcomes: a turn is sent with its slots, refused with
none, or parked. `StopConditionsKept` holds of every plan the assumptions
admit, with a cap, a target or both, however many users or scheduled turns wait
for slots: nothing suspends between the last check and the counting.
`AllTurnsSent` adds the turns still to send: they and the sent ones are at most
the turns announced, and a session that started has announced all of its turns,
so a phase that runs conversations in full sends its last turn exactly when it
has sent them all; for a schedule, whose request count is the number of all
turns (`SumOfSizes`, `IntervalSize`), the two limits are reached together.

**`StickyRouterProofs`** (`TypeCorrect`, `CreditsAgree`, `LeastLoad`,
`StickyAgree`, `RootTurnsTogether`, `ForkedFollow`, `EntriesStandForWork`). The
cached minimum is never searched for after a send or a return: a send that
empties the lowest bucket leaves its worker in the next one, and a return can
only lower the minimum to its own worker's load; after a departure the least
load of the rest exists (`LeastOfLoads`). `EntryAt` gives the entry of a root
at each stage of it and of its forks; it is what makes removal on the final
turn, which reads reference counts, the removal at the end of the last fork. It
holds while no worker has left, as the property does.

**`SessionTreeProofs`** (`TypeCorrect`, `SlotsAgree`, `BooksKept`,
`OutstandingAgrees`, `WorkInEveryOpenTree`). Every step but the stop and the
teardown touches one tree, so each action is reduced to what it leaves of that
tree, its buffer and its root's stage (`OneTree`, `MovedKeeps`). The streams of
a snapshot start in any order: a child that ends while its tree is not open
moves from the live to the forgotten, which leaves the sum that the buffer, and
later the tree, counts. The drain is then exact but for the forgotten, and a
tree that counts none has work while the phase sends.

**`ReplayLaneProofs`** (`TypeCorrect`, `HistoryKept`, `RetainedForReason`,
`OrderImplemented`, `StreamsAreKept`). The refinement
rests on `Covered`: if every inferred predecessor of a turn has returned, so
has every turn recorded before it, because of each stream either the latest
ended request is inferred or a later one that started after it, and a
stream's turns return in order (`WayInOrder`). It holds for any recorded
intervals, ties and zero durations included. `StreamsAreKept` needs to know
where every stream that is not lost is found by the handover: in the notes or
among the retained. Only a stream of which no turn came back in the pressure
stage, or a root that waits for such a one, is lost; this holds of every
snapshot, one with a waiting root included.

**`BranchJoinsProofs`** (`TypeCorrect`, `JoinsAgree`, `SuspensionsWoken`,
`ContractImplemented`). A join is exact only for as long as it is pending, so
the invariant says what is left behind when it is not (`Forgotten`: never
expected, or nobody of it runs), which branches a join knows (`Registered`,
`Fresh`, against `Begun`, the branches started so far), and that the turn about
to be sent joins nobody who runs (`Clear`). `Satisfying` is the heart: a join
whose counters are equal waits for nobody. `SettleStep` covers the rollback of
refused children, in which several children end at once.

**`RunCompletionProofs`** (`TypeCorrect`, `Lockstep`, `ResultsExportedWhole`,
`StopsAtMostOnce`, `AbortsExitWithError`). Processes share only messages, so
the invariant speaks of messages under way: a completion notice carries a
count that is final (`CountsAgree`), results in an inbox that do not say they
were cut short hold every counted record (`ResultsWhole`). Aborts need the
order of an inbox: the controller's notice of an abort stands before any
results (`AbortsHeard`). `AbortsExitWithError` holds of every setup, one that
combines all troubles included, with forced phases exempted as described
above; the run meets one trouble at a time.

Only model-checked: all liveness (`EveryWaiterServed`, `PhaseEnds`,
`EveryTreeCloses`, `SuspensionEnds`, `RunEnds`), which is out of the prover's
reach, `EverythingReplayed`, which needs an induction along the recorded order,
and the five violated properties, which are false.
No module declares a recursive operator, so all of them can be proved about.

## 5. Not modelled, and the plan

The plan, in this order:

1. The two layers of the limiter as separate limits, and phases that overlap
   (`seamless`): first tokens and returns of the old phase during the new one,
   credit ids that restart, ramps as moving limits. Four hazards that no
   property covers need it or the next point: `timing/concurrency.py:278`,
   `credit/callback_handler.py:606`, `credit/sticky_router.py:85` and `:286`.
2. Issuer and router in one model, with a send that raises; the joins of
   `BranchJoins` with the prefill slots of `CreditPhase`, so that the join
   turn dropped at `credit/issuer.py:495` is a consequence and not a choice.
3. Pre-session branches and fail-fast (which asks the issuer for an
   `abort_session` it does not have, `timing/branch_orchestrator.py:1471`), a
   cancel during the worker's return, then registration, heartbeats and
   start-up of the services.

Left out for good: message formats, statistics and logging; data sets, metrics,
exporters, plots and UI, which transform data without shared control; recipes,
runners and vendored copies, which are not this program's logic.

The share of the repository's lines that the map covers is small, and stays
small whatever is added here: of its thousand implementation files, those with
concurrent control state are a few dozen, of which this project maps
twenty-seven. The rest are plotting, dashboards, dataset generators and
loaders, trace tools, exporters, benchmark matrices and copies of other
projects: functions of their input, for which unit tests are the better tool
and a state machine would say nothing.
