----------------------------- MODULE RunCompletion -----------------------------
(***************************************************************************)
(* How a benchmark run ends: the phases of the timing manager one after    *)
(* the other, the worker's task for each credit, the record that leaves    *)
(* it, the records manager that waits for all of them, and the system      *)
(* controller that exports the results and exits.  Each is a process of    *)
(* its own; they share nothing but messages.                               *)
(*                                                                         *)
(* Commands and notifications go through one proxy, which gives every      *)
(* subscriber the same order: inbox.  Credits, returns and records travel  *)
(* on sockets of their own and are ordered with nothing.  A phase is       *)
(* reduced to what it sends and waits for (CreditPhase has the rest), and  *)
(* phases do not overlap (seamless is off).                                *)
(***************************************************************************)
EXTENDS Integers, Sequences, FiniteSets

CONSTANTS Warmup, Profiling,   \* the credits of the two phases, by number
          GraceFloor,          \* records before the failure rate is judged
          MaxFailures,         \* the failure rate that is tolerated: at most
          PerRequests,         \* MaxFailures of PerRequests requests
          Setups,              \* what a run may meet, see Troubles
          NotFrozen            \* a final count that is not known yet

Credits == Warmup \cup Profiling
Phases == <<Warmup, Profiling>>

ASSUME CreditsAssumption ==
  Credits \subseteq Nat /\ IsFiniteSet(Credits) /\ Warmup \cap Profiling = {}
ASSUME ThresholdAssumption ==
  GraceFloor \in Nat /\ MaxFailures \in Nat /\ PerRequests \in Nat \ {0}

\* What may keep a run from ending by itself: a grace period may pass, the user
\* may press Ctrl+C, a failure threshold is configured, the warmup may abort
\* (agentic replay only).
Troubles == {"timeout", "user", "threshold", "warmup"}

ASSUME SetupsAssumption == Setups \subseteq SUBSET Troubles
ASSUME NotFrozenAssumption == NotFrozen \notin Nat

Aborts == {"threshold", "warmup"}
Reasons == Aborts \cup {"user"}
Services == {"timing", "records", "controller"}

VARIABLES
  setup,       \* what this run may meet
  current,     \* the phase that runs, an index into Phases
  run,         \* what its runner waits for
  halted,      \* the runner was cancelled
  forced,      \* the profiling phase gave up on credits that never came back
  cancelling,  \* the timing manager in its handling of a cancel command
  warned,      \* the abort of the warmup was broadcast
  task,        \* where each credit is
  outcome,     \* how its task ended
  toCancel,    \* the credits CancelCredits was sent for
  record,      \* where each credit's record is
  failed,      \* credits whose record is an error
  inbox,       \* what the proxy has for each service
  tracker,     \* the records manager's view of the profiling phase
  jobs,        \* results it is about to process
  controller   \* the system controller

timingVars == <<setup, current, run, halted, forced, cancelling, warned>>
workerVars == <<task, outcome, toCancel>>
recordVars == <<record, failed>>
managerVars == <<tracker, jobs>>
vars == <<timingVars, workerVars, recordVars, inbox, managerVars, controller>>

NoResults == [cancelled |-> FALSE, records |-> {}, some |-> FALSE]

Init ==
  /\ setup \in Setups
  /\ current = 1 /\ run = "sending"
  /\ halted = FALSE /\ forced = FALSE
  /\ cancelling = "no" /\ warned = FALSE
  /\ task = [c \in Credits |-> "unsent"]
  /\ outcome = [c \in Credits |-> "none"]
  /\ toCancel = {}
  /\ record = [c \in Credits |-> "none"]
  /\ failed = {}
  /\ inbox = [s \in Services |-> <<>>]
  /\ tracker = [final |-> NotFrozen, cancelled |-> FALSE, done |-> FALSE, aborted |-> FALSE]
  /\ jobs = {}
  /\ controller = [state |-> "running", cancelled |-> FALSE, shutdown |-> FALSE,
                   results |-> NoResults, errors |-> FALSE, stops |-> 0]

-------------------------------------------------------------------------------
Tell(s, m) == [inbox EXCEPT ![s] = Append(@, m)]
TellAll(m) == [s \in Services |-> Append(inbox[s], m)]

CancelCommand(reason) == [type |-> "cancel", reason |-> reason]

\* CreditPhaseStats as the records manager reads them.
PhaseStats(type, final, cancelled) ==
  [type |-> type, final |-> final, cancelled |-> cancelled]

\* Only the profiling phase has a barrier; what is told of the warmup is not used.
TellPhase(m) == IF current = 2 THEN Tell("records", m) ELSE inbox

InFlight(c) == task[c] \notin {"unsent", "counted", "late"}
OnTheWay == {c \in Credits : InFlight(c)}

-------------------------------------------------------------------------------
(***************************************************************************)
(* The timing manager: PhaseOrchestrator and the runner of one phase.      *)
(***************************************************************************)
\* Credits are numbered as they are sent.
Issue(c) ==
  /\ c \in Phases[current] /\ run = "sending" /\ ~halted
  /\ task[c] = "unsent"
  /\ \A d \in Phases[current] : d < c => task[d] # "unsent"
  /\ task' = [task EXCEPT ![c] = "sent"]
  /\ UNCHANGED <<timingVars, outcome, toCancel, recordVars, inbox,
                 managerVars, controller>>

FinalCompletedShort(p) ==       \* the last return is not in the frozen count
  Cardinality({c \in p : task[c] = "counted" /\ outcome[c] = "completed"}) - 1
FinalCompleted(p) ==
  Cardinality({c \in p : task[c] = "counted" /\ outcome[c] = "completed"})

\* The counts are frozen when the phase is complete and not before.
FinalAtSendingSoFar(p) == FinalCompleted(p)
FinalAtSending(p) == NotFrozen

\* _wait_for_sending_complete: all sent, the duration is over, or a cancel.
EndSending ==
  /\ run = "sending"
  /\ run' = "returning"
  /\ inbox' = TellPhase(PhaseStats("sent", FinalAtSending(Phases[current]), halted))
  /\ UNCHANGED <<setup, current, halted, forced, cancelling, warned, workerVars, recordVars,
                 managerVars, controller>>

AllBack == \A c \in Phases[current] : task[c] \in {"unsent", "counted"}

Freeze ==
  /\ run' = "complete"
  /\ inbox' = TellPhase(PhaseStats("complete", FinalCompleted(Phases[current]), halted))
  /\ UNCHANGED <<setup, current, halted, cancelling, warned, workerVars, recordVars,
                 managerVars, controller>>

\* All credits came back, or cancel() has set the runner's events.
CompletePhase ==
  /\ run \in {"returning", "draining"}
  /\ halted \/ AllBack
  /\ UNCHANGED forced
  /\ Freeze

\* The grace period is over: cancel what is in flight and wait a little longer.
GraceOver ==
  /\ "timeout" \in setup /\ run = "returning" /\ ~halted /\ ~AllBack
  /\ run' = "draining"
  /\ toCancel' = toCancel \cup OnTheWay
  /\ UNCHANGED <<setup, current, halted, forced, cancelling, warned, task, outcome,
                 recordVars, inbox, managerVars, controller>>

\* The wait for the cancelled credits is over too.
ForceCompletion ==
  /\ run = "draining" /\ ~halted /\ ~AllBack
  /\ forced' = (current = 2)
  /\ Freeze

\* _execute_phases goes on with the next phase, whatever ended this one.
NextPhase ==
  /\ run = "complete" /\ current = 1
  /\ current' = 2 /\ run' = "sending" /\ halted' = FALSE
  /\ inbox' = Tell("records", PhaseStats("start", NotFrozen, FALSE))
  /\ UNCHANGED <<setup, forced, cancelling, warned, workerVars, recordVars, managerVars,
                 controller>>

\* After the last phase: publish_credits_complete.
CreditsComplete ==
  /\ run = "complete" /\ current = 2
  /\ run' = "over"
  /\ inbox' = Tell("records", [type |-> "credits_complete"])
  /\ UNCHANGED <<setup, current, halted, forced, cancelling, warned, workerVars, recordVars,
                 managerVars, controller>>

\* PhaseOrchestrator.cancel, first half: cancel_all_credits.
BeginCancel ==
  /\ inbox["timing"] # <<>> /\ cancelling # "begun"
  /\ inbox' = [inbox EXCEPT !["timing"] = Tail(@)]
  /\ toCancel' = toCancel \cup OnTheWay
  /\ cancelling' = "begun"
  /\ UNCHANGED <<setup, current, run, halted, forced, warned, task, outcome,
                 recordVars, managerVars, controller>>

\* Second half, after the awaits: cancel whichever runner is active by now.
CancelRunners ==
  /\ cancelling = "begun"
  /\ cancelling' = "done"
  /\ halted' = (halted \/ run \notin {"complete", "over"})
  /\ UNCHANGED <<setup, current, run, forced, warned, workerVars, recordVars, inbox,
                 managerVars, controller>>

WarmupFails(c) == "warmup" \in setup /\ c \in Warmup /\ (c \in failed \/ outcome[c] = "cancelled")

\* on_credit_return; a terminal failure of the warmup aborts the run, once, and
\* is tried again with the next one if the broadcast fails.
CreditReturns(c) ==
  /\ task[c] = "returning"
  /\ \/ /\ run \in {"complete", "over"} \/ c \notin Phases[current]
        /\ task' = [task EXCEPT ![c] = "late"]
        /\ UNCHANGED <<inbox, warned>>
     \/ /\ run \notin {"complete", "over"} /\ c \in Phases[current]
        /\ task' = [task EXCEPT ![c] = "counted"]
        /\ \/ WarmupFails(c) /\ ~warned /\ warned' = TRUE
              /\ inbox' = TellAll(CancelCommand("warmup"))
           \/ UNCHANGED <<inbox, warned>>
  /\ UNCHANGED <<setup, current, run, halted, forced, cancelling, outcome, toCancel,
                 recordVars, managerVars, controller>>

-------------------------------------------------------------------------------
(***************************************************************************)
(* The worker.                                                             *)
(***************************************************************************)
workerUnchanged == <<timingVars, inbox, managerVars, controller>>

Return(c, how) ==
  /\ task[c] = "sent"
  /\ task' = [task EXCEPT ![c] = "returning"]
  /\ outcome' = [outcome EXCEPT ![c] = how]
  /\ UNCHANGED <<workerUnchanged, toCancel>>

\* _on_cancel_credits_message, which comes after the credits it names: the task
\* ends where it waits, or never starts and is returned by its done callback.
CancelTask(c) ==
  /\ c \in toCancel
  /\ Return(c, "cancelled")
  /\ UNCHANGED recordVars

\* The finally clause of _on_credit_drop_message_task: a completed credit whose
\* processing left no record gets an error record.
RecordsLeftForgetful(emitted) == emitted
RecordsLeft(emitted) == TRUE

\* Errors are told apart only where somebody judges them.
Failing(c) == IF setup \cap Aborts = {} THEN failed ELSE failed \cup {c}

\* The request was answered or failed (emitted), or processing raised before a
\* record existed.  A cancel may still be swallowed by the transport.
FinishTask(c) ==
  /\ Return(c, "completed")
  /\ \E emitted, ok \in BOOLEAN :
       /\ record' = IF RecordsLeft(emitted) THEN [record EXCEPT ![c] = "processor"]
                                            ELSE record
       /\ failed' = IF emitted /\ ok THEN failed ELSE Failing(c)

\* RecordProcessor._on_inference_results: what cannot be parsed or processed is
\* forwarded as an error.
ProcessRecordOrDrop(c) ==
  /\ record[c] = "processor"
  /\ c \notin failed             \* an error escapes, and the record with it
  /\ record' = [record EXCEPT ![c] = "manager"]
  /\ UNCHANGED failed
  /\ UNCHANGED <<workerUnchanged, workerVars>>

ProcessRecord(c) ==
  /\ record[c] = "processor"
  /\ record' = [record EXCEPT ![c] = "manager"]
  /\ \/ UNCHANGED failed
     \/ failed' = Failing(c)
  /\ UNCHANGED <<workerUnchanged, workerVars>>

-------------------------------------------------------------------------------
(***************************************************************************)
(* The records manager.  It keeps one tracker per phase; that of the       *)
(* warmup starts nothing, so its records end at the record processor here. *)
(***************************************************************************)
Tracked == {c \in Profiling : record[c] = "tracked"}

\* check_and_set_all_records_received, of the records tracked by now.
AllReceived(tr, tracked) ==
  ~tr.done /\ tr.final # NotFrozen /\ Cardinality(tracked) >= tr.final

\* _handle_all_records_received
CheckBarrier(tr, tracked) ==
  IF AllReceived(tr, tracked)
    THEN /\ tracker' = [tr EXCEPT !.done = TRUE]
         /\ jobs' = jobs \cup {[from |-> "barrier", cancelled |-> tr.cancelled]}
    ELSE /\ tracker' = tr
         /\ UNCHANGED jobs

\* update_from_credit_phase_stats
Updated(tr, stats) == [tr EXCEPT !.final = stats.final, !.cancelled = stats.cancelled]

TooManyFailures(tracked) ==
  /\ "threshold" \in setup
  /\ Cardinality(tracked) >= GraceFloor
  /\ Cardinality(tracked \cap failed) * PerRequests > MaxFailures * Cardinality(tracked)

\* _on_metric_records: accumulate, count, judge the failure rate, check.  The
\* broadcast may fail; the next record tries again.
TrackRecord(c) ==
  LET tracked == Tracked \cup {c}
      aborts  == ~tracker.aborted /\ TooManyFailures(tracked)
  IN  /\ record[c] = "manager"
      /\ record' = [record EXCEPT ![c] = "tracked"]
      /\ \/ /\ aborts
            /\ inbox' = TellAll(CancelCommand("threshold"))
            /\ CheckBarrier([tracker EXCEPT !.aborted = TRUE], tracked)
         \/ /\ UNCHANGED inbox
            /\ CheckBarrier(tracker, tracked)
      /\ UNCHANGED <<timingVars, workerVars, failed, controller>>

\* The bus handlers of the records manager.
HandleNotice ==
  LET m == Head(inbox["records"])
  IN  /\ inbox["records"] # <<>>
      /\ inbox' = [inbox EXCEPT !["records"] = Tail(@)]
      /\ \/ /\ m.type \in {"start", "sent"}
            /\ tracker' = Updated(tracker, m)
            /\ UNCHANGED jobs
         \/ /\ m.type = "complete"
            /\ CheckBarrier(Updated(tracker, m), Tracked)
         \/ /\ m.type = "credits_complete"
            /\ CheckBarrier(tracker, Tracked)
         \/ /\ m.type = "cancel"
            /\ tracker' = [tracker EXCEPT !.cancelled = TRUE]
            /\ jobs' = jobs \cup {[from |-> m.reason, cancelled |-> TRUE]}
      /\ UNCHANGED <<timingVars, workerVars, recordVars, controller>>

\* _process_results: the accumulators are summarised and the results published;
\* the controller's own cancel command is answered with them as well.
PublishResults ==
  \E j \in jobs :
    LET results == [cancelled |-> j.cancelled, some |-> TRUE,
                    records |-> Tracked]
        message == [type |-> "results", results |-> results]
        reply   == [type |-> "reply", results |-> results]
    IN  /\ jobs' = jobs \ {j}
        /\ inbox' = [inbox EXCEPT !["controller"] =
                       @ \o (IF j.from = "user" THEN <<message, reply>> ELSE <<message>>)]
        /\ UNCHANGED <<timingVars, workerVars, recordVars, tracker, controller>>

-------------------------------------------------------------------------------
(***************************************************************************)
(* The system controller.                                                  *)
(***************************************************************************)
controllerUnchanged == <<timingVars, workerVars, recordVars, managerVars>>

\* stop() is called by whoever set _shutdown_triggered.
StopByAnyone(ct) == [ct EXCEPT !.state = "stopping", !.shutdown = TRUE, !.stops = @ + 1]
Stop(ct) ==
  IF ct.shutdown THEN ct
    ELSE [ct EXCEPT !.state = "stopping", !.shutdown = TRUE, !.stops = @ + 1]

StopAfterCancel(ct) ==
  IF ct.state = "cancelling" THEN [ct EXCEPT !.state = "stopping", !.stops = @ + 1] ELSE ct

\* _handle_signal, the first time.  The controller's own handler of the command
\* ignores the reason "user".
UserCancels ==
  /\ "user" \in setup /\ ~controller.cancelled
  /\ controller' = IF controller.shutdown
                     THEN [controller EXCEPT !.cancelled = TRUE]
                     ELSE [controller EXCEPT !.cancelled = TRUE, !.shutdown = TRUE,
                                             !.state = "cancelling"]
  /\ inbox' = [s \in Services |->
                 IF s = "controller" THEN inbox[s] ELSE Append(inbox[s], CancelCommand("user"))]
  /\ UNCHANGED controllerUnchanged

IsAbortOfRecords(reason) == reason = "threshold"
IsAbort(reason) == reason \in Aborts

HandleMessage ==
  LET m == Head(inbox["controller"])
  IN  /\ inbox["controller"] # <<>>
      /\ inbox' = [inbox EXCEPT !["controller"] = Tail(@)]
      /\ \/ /\ m.type = "cancel"
            /\ controller' = [controller EXCEPT !.errors = @ \/ IsAbort(m.reason)]
         \/ /\ m.type = "results"
            /\ controller' = Stop([controller EXCEPT !.results = m.results])
         \/ /\ m.type = "reply"
            /\ controller' = StopAfterCancel([controller EXCEPT !.results = m.results])
      /\ UNCHANGED controllerUnchanged

\* The records manager does not answer the cancel command in time.
ReplyTimeout ==
  /\ controller.state = "cancelling"
  /\ controller' = StopAfterCancel(controller)
  /\ UNCHANGED <<controllerUnchanged, inbox>>

\* The end of stop(): export, unless there were errors, and exit.  The services
\* are gone by then, and with them all that was under way.
Exit ==
  /\ controller.state = "stopping"
  /\ controller' = [controller EXCEPT !.state = "exited"]
  /\ inbox' = [s \in Services |-> <<>>]
  /\ jobs' = {} /\ toCancel' = {}
  /\ UNCHANGED <<timingVars, task, outcome, recordVars, tracker>>

-------------------------------------------------------------------------------
Timing == \/ \E c \in Credits : Issue(c) \/ CreditReturns(c)
          \/ EndSending \/ CompletePhase \/ ForceCompletion
          \/ NextPhase \/ CreditsComplete \/ BeginCancel \/ CancelRunners

Workers == \/ \E c \in Profiling : ProcessRecord(c)
           \/ \E c \in Credits : CancelTask(c) \/ FinishTask(c)

Manager == \/ \E c \in Profiling : TrackRecord(c)
           \/ HandleNotice \/ PublishResults

Controller == HandleMessage \/ Exit

\* Before os._exit.
Running == controller.state # "exited"

Step == Running /\ (Timing \/ Workers \/ Manager \/ Controller)

Next == Step \/ (Running /\ (GraceOver \/ UserCancels \/ ReplyTimeout))

(***************************************************************************)
(* Every process goes on while it can.  Nobody has to press Ctrl+C, and    *)
(* neither the grace period nor the reply's timeout has to pass.  No step  *)
(* can be undone, so one weak fairness serves them all.                    *)
(***************************************************************************)
Spec == Init /\ [][Next]_vars /\ WF_vars(Step)

-------------------------------------------------------------------------------
Stats == [type : {"start", "sent", "complete"}, final : Nat \cup {NotFrozen},
          cancelled : BOOLEAN]
Cancels == [type : {"cancel"}, reason : Reasons]
Results == [cancelled : BOOLEAN, records : SUBSET Profiling, some : BOOLEAN]

\* The state stays in its domains; in particular every message is one its
\* receiver has a handler for, with a final count that was really frozen.
TypeOK ==
  /\ setup \in Setups
  /\ current \in DOMAIN Phases
  /\ run \in {"sending", "returning", "draining", "complete", "over"}
  /\ halted \in BOOLEAN /\ forced \in BOOLEAN /\ warned \in BOOLEAN
  /\ cancelling \in {"no", "begun", "done"}
  /\ task \in [Credits -> {"unsent", "sent", "returning",
                           "counted", "late"}]
  /\ outcome \in [Credits -> {"none", "completed", "cancelled"}]
  /\ toCancel \subseteq Credits
  /\ record \in [Credits -> {"none", "processor", "manager", "tracked"}]
  /\ failed \subseteq Credits
  /\ inbox["timing"] \in Seq(Cancels)
  /\ inbox["records"] \in Seq(Stats \cup Cancels \cup [type : {"credits_complete"}])
  /\ inbox["controller"] \in Seq(Cancels \cup [type : {"results", "reply"}, results : Results])
  /\ tracker \in [final : Nat \cup {NotFrozen}, cancelled : BOOLEAN, done : BOOLEAN,
                  aborted : BOOLEAN]
  /\ jobs \subseteq [from : Reasons \cup {"barrier"}, cancelled : BOOLEAN]
  /\ controller \in [state : {"running", "cancelling", "stopping", "exited"},
                     cancelled : BOOLEAN, shutdown : BOOLEAN, results : Results,
                     errors : BOOLEAN, stops : Nat]

\* A credit that comes back as completed has exactly one record on its way, one
\* that comes back as cancelled has none: otherwise the records manager waits
\* for ever, or stops waiting too early (worker.py, the finally clause).
RecordsInLockstep ==
  \A c \in Credits :
    /\ outcome[c] = "completed" => record[c] # "none"
    /\ outcome[c] = "cancelled" => record[c] = "none"

Counted == {c \in Profiling : task[c] = "counted" /\ outcome[c] = "completed"}

\* Results that are exported as those of a whole run hold the record of every
\* request the phase counted as completed, whatever was cancelled, whichever of
\* the records, the notices and the cancel commands came first, and however
\* often the results were processed.  A phase whose cancelled credits did not
\* come back in time is the exception (its count is not the records' count).
ExportedResultsWhole ==
  controller.state = "exited" /\ controller.results.some =>
    \/ controller.results.cancelled
    \/ Counted \subseteq controller.results.records
    \/ forced

\* The controller stops once, although results, the reply to its cancel command
\* and that command's timeout may all ask for it.
StopsOnce == controller.stops <= 1

Aborted == warned \/ tracker.aborted

\* An aborted run exits with an error: the controller hears of the abort before
\* the results that make it stop.  (A run the user cancelled exits as cancelled.)
\* The exception is a profiling phase that gave up on credits: the records it no
\* longer waits for may raise the alarm when the results are out already.
AbortIsAnError ==
  controller.state = "exited" /\ Aborted /\ ~controller.cancelled => controller.errors \/ forced

\* Every run exits: the records manager sees all the records it waits for, and
\* is told how many they are, in every order.
RunEnds == <>(controller.state = "exited")

\* "Stops issuing new credits and cancels in-flight requests": once the timing
\* manager has handled a cancel command, no credit is issued.
NothingIssuedAfterCancel ==
  [][cancelling = "done" =>
       \A c \in Credits : task[c] = "unsent" => task'[c] = "unsent"]_vars
===============================================================================
