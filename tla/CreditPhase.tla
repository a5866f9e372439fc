------------------------------ MODULE CreditPhase ------------------------------
(***************************************************************************)
(* One benchmark phase of the credit system: the issuer that acquires      *)
(* slots and sends credits, the callback handler that takes returns and    *)
(* first tokens, the runner that ends the phase, and the three strategies  *)
(* that decide which turn is issued when.  Everything runs on one event    *)
(* loop, so an action is the code between two suspension points.           *)
(*                                                                         *)
(* A session sends its turns one after the other, so its identity names    *)
(* its issuing task, its credit on the wire and its place in a wait queue. *)
(* With one phase and no ramp, the global and the phase limit of a limiter *)
(* change together and only the global one is ever waited for, so one      *)
(* limit stands for both.                                                  *)
(***************************************************************************)
EXTENDS CreditCounter, ConcurrencyLimit, FiniteSets

CONSTANTS Sessions,        \* the conversations the phase may start
          NumTurns,        \* the number of turns of each conversation
          SessionLimit,    \* concurrency
          PrefillLimit,    \* prefill_concurrency
          Plans,           \* the phase configurations considered
          MayCrash,        \* the workers may die with credits in flight
          MayCancel        \* the user may cancel the phase

ASSUME SessionsAssumption == IsFiniteSet(Sessions)
ASSUME NumTurnsAssumption == NumTurns \in [Sessions -> Nat \ {0}]
ASSUME LimitsAssumption == SessionLimit \in Nat \ {0} /\ PrefillLimit \in Nat \ {0}
ASSUME FaultsAssumption == MayCrash \in BOOLEAN /\ MayCancel \in BOOLEAN

AllTurns == UNION {{s} \X (0..(NumTurns[s] - 1)) : s \in Sessions}

\* timing_mode, total_expected_requests, expected_num_sessions, the sessions
\* whose first turn the strategy schedules at the start, whether
\* expected_duration_sec is configured, and whether grace_period_sec is finite.
PlanType == [strategy : {"rate", "schedule", "users"}, cap : Nat \cup {NoLimit},
             target : Nat \cup {NoLimit}, initial : SUBSET Sessions,
             timed : BOOLEAN, graceEnds : BOOLEAN]

\* A fixed schedule is bounded by the whole dataset, in requests and in sessions.
ASSUME PlansAssumption ==
  \A p \in Plans :
    /\ p \in PlanType
    /\ p.strategy = "rate" => p.initial = {}
    /\ p.strategy = "schedule" => /\ p.initial = Sessions
                                  /\ p.cap = Cardinality(AllTurns)
                                  /\ p.target = Cardinality(Sessions)

VARIABLES
  plan,        \* the phase's CreditPhaseConfig
  turn,        \* the turn each session is about to send or has on the wire
  task,        \* what the next turn's issue waits for, if it was started
  wire,        \* each session's credit: none, or how far the worker got
  queue,       \* rate strategy: continuations for the main loop
  loop,        \* the strategy's main loop, which the fixed schedule lacks
  own,         \* the session whose slots the main loop itself waits for
  session,     \* the session concurrency limit
  prefill,     \* the prefill concurrency limit
  counter,     \* the phase's CreditCounter
  lifecycle,   \* the phase's PhaseLifecycle
  sentEvent,   \* all_credits_sent_event
  doneEvent,   \* all_credits_returned_event
  runner,      \* where PhaseRunner.run() stands
  clock,       \* whether the duration and the grace period have passed
  workersUp,   \* the workers answer
  forced       \* the runner gave up on credits that never came back

issueVars == <<turn, task, wire, queue, loop, own>>
limitVars == <<session, prefill>>
runVars == <<lifecycle, sentEvent, doneEvent, runner, forced>>
vars == <<plan, issueVars, limitVars, counter, runVars, clock, workersUp>>

-------------------------------------------------------------------------------
Facts == [cancelled       |-> lifecycle.cancelled,
          sendingComplete |-> lifecycle.state # "started",
          timeLeft        |-> clock = "running"]

CanSend == CanSendAnyTurn(counter, Facts)
CanStart == CanStartNewSession(counter, Facts)

\* Slips of one definition each are kept beside it: the runs' properties must
\* tell the code from the slip.
IsStart(s) == turn[s] = 0
IsLastTurnLate(s) == turn[s] = NumTurns[s]
IsLastTurn(s) == turn[s] = NumTurns[s] - 1

MayProceedUnchecked(s) == s \in Sessions     \* not checked again after waiting
MayProceed(s) == IF IsStart(s) THEN CanStart ELSE CanSend

TurnToSend(s) == [root |-> TRUE, start |-> IsStart(s),
                  left |-> NumTurns[s] - turn[s], planned |-> TRUE]

Init ==
  /\ plan \in Plans
  /\ turn = [s \in Sessions |-> 0]
  /\ task = [s \in Sessions |-> IF s \in plan.initial THEN "timer" ELSE "new"]
  /\ wire = [s \in Sessions |-> "none"]
  /\ queue = <<>>
  /\ loop = IF plan.strategy = "schedule" THEN "ended" ELSE "running"
  /\ own = {}
  /\ session = NewLimit(SessionLimit)
  /\ prefill = NewLimit(PrefillLimit)
  /\ counter = NewCounter(plan.cap, plan.target)
  /\ lifecycle = [state |-> "started", cancelled |-> FALSE]
  /\ sentEvent = FALSE
  /\ doneEvent = FALSE
  /\ runner = "sending"
  /\ clock = "running"
  /\ workersUp = TRUE
  /\ forced = FALSE

-------------------------------------------------------------------------------
(***************************************************************************)
(* CreditIssuer.  Between the last stop-condition check and the counting   *)
(* nothing suspends; the send itself may, but the credit's answer cannot   *)
(* be handled before the issuer resumes, so counting, sending and the      *)
(* final credit's freeze are one step.                                     *)
(***************************************************************************)
\* Does the main loop issue the turn itself, and not a task of its own?
ByLoop(s) == plan.strategy = "rate" \/ task[s] = "new" \/ s \in own

\* _issue_credit_internal
Send(s, ses, pre) ==
  LET counted == AfterSent(counter, TurnToSend(s))
      final   == IsFinalCredit(counted, TurnToSend(s))
  IN  /\ counter' = IF final THEN FreezeSent(counted) ELSE counted
      /\ sentEvent' = (sentEvent \/ final)
      /\ session' = ses /\ prefill' = pre
      /\ task' = [task EXCEPT ![s] = "none"]
      /\ wire' = [wire EXCEPT ![s] = IF workersUp THEN "prefill" ELSE "lost"]
      /\ loop' = IF final /\ ByLoop(s) THEN "ended" ELSE loop
      /\ own' = own \ {s}

\* A stop condition refuses the turn: the slots in hand go back.
Refuse(s, ses, pre) ==
  /\ session' = ses /\ prefill' = pre
  /\ task' = [task EXCEPT ![s] = "none"]
  /\ loop' = IF ByLoop(s) THEN "ended" ELSE loop
  /\ own' = own \ {s}
  /\ UNCHANGED <<counter, sentEvent, wire>>

\* The prefill slot has just been acquired.
HavePrefillSlotKeptOnRefusal(s, ses, pre) ==  \* the prefill slot is not returned
  \/ MayProceed(s) /\ Send(s, ses, pre)
  \/ /\ ~MayProceed(s)
     /\ Refuse(s, IF IsStart(s) THEN Release(ses) ELSE ses, pre)

HavePrefillSlotSessionKept(s, ses, pre) ==    \* the session slot is not returned
  \/ MayProceed(s) /\ Send(s, ses, pre)
  \/ ~MayProceed(s) /\ Refuse(s, ses, Release(pre))

HavePrefillSlot(s, ses, pre) ==
  \/ MayProceed(s) /\ Send(s, ses, pre)
  \/ /\ ~MayProceed(s)
     /\ Refuse(s, IF IsStart(s) THEN Release(ses) ELSE ses, Release(pre))

\* A task waits for a slot, and the loop with it if it is the loop's.
Waits(s, place) ==
  /\ task' = [task EXCEPT ![s] = place]
  /\ own' = IF ByLoop(s) THEN {s} ELSE own
  /\ UNCHANGED <<counter, sentEvent, wire, loop>>

\* acquire_prefill_slot; a session start holds its session slot meanwhile.
AcquirePrefill(s, ses) ==
  \/ ~Locked(prefill) /\ HavePrefillSlot(s, ses, TakeSlot(prefill))
  \/ /\ Locked(prefill)
     /\ session' = ses
     /\ prefill' = Park(prefill, s)
     /\ Waits(s, "prefill")

\* The session slot has just been acquired.
HaveSessionSlot(s, ses) ==
  \/ CanStart /\ AcquirePrefill(s, ses)
  \/ ~CanStart /\ Refuse(s, Release(ses), prefill)

\* acquire_session_slot
AcquireSession(s) ==
  \/ ~Locked(session) /\ HaveSessionSlot(s, TakeSlot(session))
  \/ /\ Locked(session)
     /\ session' = Park(session, s) /\ UNCHANGED prefill
     /\ Waits(s, "session")

issuerUnchanged == <<turn, lifecycle, doneEvent, runner, forced, clock, workersUp, plan>>

\* issue_credit from a scheduled task that starts running.
StartTask(s) ==
  /\ plan.strategy # "rate"
  /\ task[s] \in {"timer", "ready"}
  /\ \/ ~IsStart(s) /\ AcquirePrefill(s, session)
     \/ IsStart(s) /\ AcquireSession(s)
  /\ UNCHANGED <<issuerUnchanged, queue>>

\* The event loop runs the oldest task that was handed a session slot.
SessionSlotGranted ==
  /\ session.woken # <<>>
  /\ HaveSessionSlot(Head(session.woken), Resume(session))
  /\ UNCHANGED <<issuerUnchanged, queue>>

\* The event loop runs the oldest task that was handed a prefill slot.
PrefillSlotGranted ==
  /\ prefill.woken # <<>>
  /\ HavePrefillSlot(Head(prefill.woken), session, Resume(prefill))
  /\ UNCHANGED <<issuerUnchanged, queue>>

-------------------------------------------------------------------------------
(***************************************************************************)
(* RequestRateStrategy.execute_phase: one iteration of its loop.  An       *)
(* iteration that finds no slot or nothing to do changes nothing.          *)
(***************************************************************************)
LoopFree == loop = "running" /\ own = {}
RateLoopFree == plan.strategy = "rate" /\ LoopFree

\* Priority 1: a queued continuation.
IssueContinuation ==
  /\ RateLoopFree /\ queue # <<>>
  /\ queue' = Tail(queue)
  /\ AcquirePrefill(Head(queue), session)
  /\ UNCHANGED issuerUnchanged

\* Priority 2: try_issue_credit for the first turn of a new session.
StartSession(s) ==
  /\ RateLoopFree /\ queue = <<>>
  /\ task[s] = "new"
  /\ CanStart /\ ~Locked(session) /\ ~Locked(prefill)
  /\ Send(s, TakeSlot(session), TakeSlot(prefill))
  /\ UNCHANGED <<issuerUnchanged, queue>>

\* Priority 3: nothing left to send.
LeaveLoop ==
  /\ RateLoopFree /\ queue = <<>>
  /\ ~CanSend
  /\ loop' = "ended"
  /\ UNCHANGED <<turn, task, wire, queue, own, limitVars, counter, runVars, clock, workersUp, plan>>

\* A think-time delay is over: the continuation joins the queue.
QueueDelayed(s) ==
  /\ plan.strategy = "rate" /\ task[s] = "timer"
  /\ task' = [task EXCEPT ![s] = "none"]
  /\ queue' = Append(queue, s)
  /\ UNCHANGED <<turn, wire, loop, own, limitVars, counter, runVars, clock, workersUp, plan>>

\* UserCentricStrategy.execute_phase: it is time for a new user.  The loop waits
\* for the slots itself, and ends with the first user that is refused.
SpawnUser(s) ==
  /\ plan.strategy = "users" /\ LoopFree
  /\ task[s] = "new"
  /\ AcquireSession(s)
  /\ UNCHANGED <<issuerUnchanged, queue>>

-------------------------------------------------------------------------------
(***************************************************************************)
(* The workers, and CreditCallbackHandler on their messages.               *)
(***************************************************************************)
\* handle_credit_return: the next turn of the session, now or after a delay.
NextTurn(s) ==
  /\ turn' = [turn EXCEPT ![s] = @ + 1]
  /\ \/ task' = [task EXCEPT ![s] = "timer"] /\ UNCHANGED queue
     \/ /\ plan.strategy # "rate"
        /\ task' = [task EXCEPT ![s] = "ready"] /\ UNCHANGED queue
     \/ plan.strategy = "rate" /\ queue' = Append(queue, s) /\ UNCHANGED task

\* Slots that are given back with a return: the session's own after its last
\* turn, and with the phase's last return those of the sessions cut short.
SlotsOfThisSession(s, counted) == IF IsLastTurn(s) THEN 1 ELSE 0
SlotsToRelease(s, counted) ==
  (IF IsLastTurn(s) THEN 1 ELSE 0)
    + (IF AllReturned(counted) THEN InFlightSessions(counted) ELSE 0)

NeverComplete == lifecycle.state = "never"
PhaseComplete == lifecycle.state = "complete"

AlwaysWithoutToken(s) == s \in Sessions
WithoutToken(s) == wire[s] = "prefill"

\* on_credit_return while the phase runs: count, release slots, signal, go on.
CreditReturns(s) ==
  LET counted == AfterReturned(counter, IsLastTurn(s))
  IN  /\ workersUp /\ wire[s] \in {"prefill", "decode"}
      /\ ~PhaseComplete
      /\ wire' = [wire EXCEPT ![s] = "none"]
      /\ counter' = IF WithoutToken(s) THEN AfterPrefillReleased(counted) ELSE counted
      /\ session' = ReleaseMany(session, SlotsToRelease(s, counted))
      /\ prefill' = IF WithoutToken(s) THEN Release(prefill) ELSE prefill
      /\ doneEvent' = (doneEvent \/ AllReturned(counted))
      /\ IF CanSendAnyTurn(counted, Facts) /\ ~IsLastTurn(s)
           THEN NextTurn(s)
           ELSE UNCHANGED <<turn, task, queue>>
      /\ UNCHANGED <<loop, own, lifecycle, sentEvent, runner, forced, clock, workersUp, plan>>

\* on_credit_return after the phase was completed: the return is ignored.
LateReturn(s) ==
  /\ workersUp /\ wire[s] \in {"prefill", "decode"}
  /\ PhaseComplete
  /\ wire' = [wire EXCEPT ![s] = "none"]
  /\ UNCHANGED <<turn, task, queue, loop, own, limitVars, counter, runVars, clock, workersUp, plan>>

\* on_first_token, which does not look at the phase's state.
FirstToken(s) ==
  /\ workersUp /\ wire[s] = "prefill"
  /\ wire' = [wire EXCEPT ![s] = "decode"]
  /\ counter' = AfterPrefillReleased(counter)
  /\ prefill' = Release(prefill)
  /\ UNCHANGED <<turn, task, queue, loop, own, session, runVars, clock, workersUp, plan>>

\* The workers die: what they had in flight is never answered.
WorkersCrash ==
  /\ MayCrash /\ workersUp
  /\ workersUp' = FALSE
  /\ wire' = [s \in Sessions |-> IF wire[s] = "none" THEN "none" ELSE "lost"]
  /\ UNCHANGED <<turn, task, queue, loop, own, limitVars, counter, runVars, clock, plan>>

-------------------------------------------------------------------------------
(***************************************************************************)
(* PhaseRunner.run().                                                      *)
(***************************************************************************)
\* LoopScheduler.cancel_all_pending(): timers only, running tasks go on.
WithoutTimers ==
  [s \in Sessions |-> IF task[s] = "timer" THEN "none" ELSE task[s]]

\* The main loop is cancelled where it waits.  If it waits for a prefill slot to
\* start a session, nobody gives the session slot back that it holds.
CancelLoop ==
  /\ loop' = "ended" /\ own' = {}
  /\ \/ own = {} /\ task' = WithoutTimers /\ UNCHANGED limitVars
     \/ \E s \in own :
          \/ /\ task[s] = "session"
             /\ session' = CancelTask(session, s) /\ UNCHANGED prefill
             /\ task' = [WithoutTimers EXCEPT ![s] = "none"]
          \/ /\ task[s] = "prefill"
             /\ prefill' = CancelTask(prefill, s) /\ UNCHANGED session
             /\ task' = [WithoutTimers EXCEPT ![s] =
                           IF IsStart(s) THEN "stranded" ELSE "none"]

\* _wait_for_sending_complete, by the event, which leaves the main loop alone, or
\* by the duration.
StopSending ==
  /\ runner = "sending"
  /\ \/ sentEvent /\ task' = WithoutTimers /\ UNCHANGED <<loop, own, limitVars>>
     \/ clock # "running" /\ CancelLoop
  /\ lifecycle' = [lifecycle EXCEPT !.state = "sending_complete"]
  /\ counter' = FreezeSent(counter)
  /\ sentEvent' = TRUE
  /\ runner' = "sent"
  /\ UNCHANGED <<turn, wire, queue, doneEvent, clock, workersUp, plan, forced>>

MarkComplete == lifecycle' = [lifecycle EXCEPT !.state = "complete"]

\* Sending is published; what is left to wait for?
AfterSending ==
  /\ runner = "sent"
  /\ \/ /\ lifecycle.cancelled \/ AllReturned(counter)
        /\ doneEvent' = TRUE
        /\ MarkComplete
        /\ runner' = "closing"
     \/ /\ ~lifecycle.cancelled /\ ~AllReturned(counter)
        /\ runner' = "returning"
        /\ UNCHANGED <<doneEvent, lifecycle>>
  /\ UNCHANGED <<issueVars, limitVars, counter, sentEvent, forced, clock, workersUp, plan>>

\* _wait_for_returning_complete: all credits are back.
AllCreditsBack ==
  /\ runner \in {"returning", "draining"}
  /\ doneEvent
  /\ MarkComplete
  /\ runner' = "closing"
  /\ UNCHANGED <<issueVars, limitVars, counter, sentEvent, doneEvent, forced, clock, workersUp, plan>>

WaitsForEver == clock = "never"
GraceOver == clock = "over"

\* The grace period is over: cancel what is in flight and wait a little longer.
CancelInFlight ==
  /\ runner = "returning" /\ GraceOver
  /\ runner' = "draining"
  /\ doneEvent' = (doneEvent \/ AllReturned(counter))
  /\ UNCHANGED <<issueVars, limitVars, counter, lifecycle, sentEvent, forced, clock, workersUp, plan>>

\* get_held_slots, of the phase limit: there a slot that was handed to a task
\* which has not run yet still counts as free.
Held(l) == HeldSlots([l EXCEPT !.value = @ + Len(l.woken)])

\* Some cancelled credits do not come back either: take their slots and finish.
ForceCompletion ==
  /\ runner = "draining"
  /\ session' = ReleaseMany(session, Held(session))
  /\ prefill' = ReleaseMany(prefill, Held(prefill))
  /\ MarkComplete
  /\ doneEvent' = TRUE
  /\ forced' = TRUE
  /\ runner' = "closing"
  /\ UNCHANGED <<issueVars, counter, sentEvent, clock, workersUp, plan>>

\* LoopScheduler.cancel_all(): timers and running tasks, but not the main loop's.
CancelTasks ==
  /\ task' = [s \in Sessions |-> IF task[s] = "new" \/ s \in own THEN task[s] ELSE "none"]
  /\ \/ own = {} /\ session' = CancelAll(session) /\ prefill' = CancelAll(prefill)
     \/ \E s \in own : /\ session' = CancelAllBut(session, s)
                       /\ prefill' = CancelAllBut(prefill, s)

\* The same with the main loop.
CancelEverything ==
  /\ task' = [s \in Sessions |-> IF task[s] = "new" THEN "new" ELSE "none"]
  /\ session' = CancelAll(session) /\ prefill' = CancelAll(prefill)
  /\ loop' = "ended" /\ own' = {}

\* The results are published; the phase's tasks are cancelled.
Close ==
  /\ runner = "closing"
  /\ runner' = "done"
  /\ CancelTasks
  /\ UNCHANGED <<turn, wire, queue, loop, own, counter, lifecycle, sentEvent, doneEvent,
                 forced, clock, workersUp, plan>>

\* PhaseRunner.cancel(), from outside.
Cancel ==
  /\ MayCancel /\ runner # "done" /\ ~lifecycle.cancelled
  /\ lifecycle' = [lifecycle EXCEPT !.cancelled = TRUE]
  /\ sentEvent' = TRUE /\ doneEvent' = TRUE
  /\ CancelEverything
  /\ UNCHANGED <<turn, wire, queue, counter, runner, forced, clock, workersUp, plan>>

\* Time passes: first the duration, then the grace period, unless it is infinite
\* (as by default in a warmup and in the user-centric mode).
TimePasses ==
  /\ plan.timed /\ runner # "done"
  /\ \/ clock = "running" /\ clock' = "grace"
     \/ clock = "grace" /\ plan.graceEnds /\ clock' = "over"
  /\ UNCHANGED <<issueVars, limitVars, counter, runVars, workersUp, plan>>

-------------------------------------------------------------------------------
Issue == \/ \E s \in Sessions : \/ StartTask(s) \/ StartSession(s)
                               \/ QueueDelayed(s) \/ SpawnUser(s)
         \/ SessionSlotGranted \/ PrefillSlotGranted
         \/ IssueContinuation \/ LeaveLoop

Workers == \/ \E s \in Sessions : CreditReturns(s) \/ LateReturn(s) \/ FirstToken(s)
           \/ WorkersCrash

Run == StopSending \/ AfterSending \/ AllCreditsBack \/ CancelInFlight
       \/ ForceCompletion \/ Close

Next == Issue \/ Workers \/ Run \/ Cancel \/ TimePasses

(***************************************************************************)
(* The event loop runs every task that can run, a live worker answers what *)
(* it was sent, and time passes.  Nobody has to crash, to cancel, or to    *)
(* send a first token.                                                     *)
(***************************************************************************)
Fairness ==
  /\ WF_vars(Issue)
  /\ \A s \in Sessions : WF_vars(CreditReturns(s))
  /\ WF_vars(Run)
  /\ WF_vars(TimePasses)

Spec == Init /\ [][Next]_vars /\ Fairness

-------------------------------------------------------------------------------
TaskStates == {"new", "timer", "ready", "session", "prefill", "stranded", "none"}
Limit == [value : Nat, waiting : Seq(Sessions), woken : Seq(Sessions),
          limit : Nat, debt : Nat]

\* Types; in particular no slot count and no counter goes below zero, and a
\* session never gets past its last turn.
TypeOK ==
  /\ plan \in Plans
  /\ turn \in [Sessions -> Nat] /\ \A s \in Sessions : turn[s] < NumTurns[s]
  /\ task \in [Sessions -> TaskStates]
  /\ wire \in [Sessions -> {"none", "prefill", "decode", "lost"}]
  /\ queue \in Seq(Sessions)
  /\ loop \in {"running", "ended"} /\ own \subseteq Sessions
  /\ session \in Limit /\ prefill \in Limit
  /\ counter \in [cap : Nat \cup {NoLimit}, target : Nat \cup {NoLimit}, sent : Nat, rootSent : Nat, sessions : Nat, turns : Nat,
                  returned : Nat, ended : Nat, prefills : Nat,
                  finalSent : Nat \cup {NotFrozen}]
  /\ lifecycle \in [state : {"started", "sending_complete", "complete"},
                    cancelled : BOOLEAN]
  /\ sentEvent \in BOOLEAN /\ doneEvent \in BOOLEAN
  /\ runner \in {"sending", "sent", "returning", "draining", "closing", "done"}
  /\ clock \in {"running", "grace", "over"}
  /\ workersUp \in BOOLEAN /\ forced \in BOOLEAN

\* "N means N": however many tasks pass the stop conditions and then wait for
\* slots, no more requests are sent and no more sessions started than asked.
StopConditionsHold ==
  /\ plan.cap # NoLimit => counter.sent <= plan.cap
  /\ plan.target # NoLimit => counter.sessions <= plan.target

InUse(l) == l.limit - l.value - Len(l.woken)
Starting == {s \in Sessions : task[s] = "stranded" \/ (task[s] = "prefill" /\ IsStart(s))}

\* Two books of the slots, the limiters' and the counters', agree.  A prefill
\* slot in use is that of a request sent and not yet past its first token; a
\* session slot in use, until the phase is declared finished, that of a session
\* under way or of a task that waits to start one or was cancelled then.  So the
\* limiters limit: never more conversations, and never more requests waiting for
\* their first token, than configured, in a forced phase either.
SlotsAccounted ==
  /\ ~forced => InUse(prefill) = InFlightPrefills(counter)
  /\ ~doneEvent => InUse(session) = InFlightSessions(counter) + Cardinality(Starting)
  /\ InFlightSessions(counter) <= SessionLimit
  /\ Cardinality({s \in Sessions : wire[s] = "prefill"}) <= PrefillLimit

\* "A slot is acquired on first turn and released on final turn or phase
\* cleanup": a phase that ended by itself keeps no session slot.
SlotsReturnedAtCleanup ==
  (runner = "done" /\ ~lifecycle.cancelled) => InUse(session) = 0

\* What of it does hold: a phase without a duration, which its last return ends,
\* gives back the slots of the sessions its cap cut short as well.  It keeps only
\* those of tasks that wait for a prefill slot to start a session: the scheduler's
\* are about to be cancelled, and a cancelled task gives nothing back.
CountedPhasesReturnSlots ==
  (runner = "closing" /\ ~lifecycle.cancelled /\ ~plan.timed)
    => InUse(session) = Cardinality(Starting)

\* A phase that is to run conversations in full - so many of them, or a schedule,
\* which has a request count too - starts as many as asked and sends all their turns.
PlanSentInFull ==
  (/\ runner = "done" /\ ~lifecycle.cancelled /\ ~plan.timed
   /\ plan.cap = NoLimit \/ plan.strategy = "schedule")
    => counter.sessions = plan.target /\ counter.sent = counter.turns

\* The phase comes to its end, cancelled or not; only a phase without a duration,
\* or with an infinite grace period, may wait for ever, and only for credits of
\* workers that died.
PhaseEnds == ((plan.timed /\ plan.graceEnds) \/ []workersUp) => <>(runner = "done")

\* A phase as whoever reads its statistics sees it.
Contract == INSTANCE PhaseContract WITH
  cap <- counter.cap, stage <- lifecycle.state, sent <- counter.sent, back <- counter.returned,
  excused <- lifecycle.cancelled \/ forced

\* The published statistics keep the contract: sent stays under the cap and
\* stops growing, returns are counted once and not after completion, and
\* complete means that all are back, unless cancelled or forced.
ImplementsContract == Contract!Spec
===============================================================================
